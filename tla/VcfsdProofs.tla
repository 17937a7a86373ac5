----------------------------- MODULE VcfsdProofs -----------------------------
(***************************************************************************)
(* Proofs about Vcfsd, for every project and every history of requests: as *)
(* long as each call got its answer, whatever the services have kept is of *)
(* the file that they keep it for, and a daemon that has stopped did so    *)
(* for what its last request was about.                                    *)
(***************************************************************************)
EXTENDS Vcfsd, TLAPS, SequenceTheorems, FiniteSetTheorems

\* What is sent for a request.
SentFor(op, id) ==
    [op |-> CASE op = "read" -> "update"
              [] op = "tag" -> "status"
              [] op = "ls" -> "log_r"
              [] OTHER -> "log",
     file |-> id.file,
     rev |-> IF op \in {"read", "ls"} THEN ventry[id] ELSE None]

Sent == SentFor(call.op, call.id)

\* The server owes the answer to the call and nothing else.
InStep == IF waiting THEN owed \in {Full(Sent), Refusal(Sent)} ELSE owed = <<>>

\* What is known of the call while it is served.
CallOwn ==
    /\ call = [op |-> call.op, id |-> call.id, todo |-> call.todo]
    /\ call.op \in {"idle", "read", "lookup", "lsver", "tag", "ls"}
    /\ call.op = "idle" => call = Idle /\ ~waiting
    /\ status = "stopped" => ~waiting
    /\ status = "serving" =>
          /\ call.op \in {"read", "lookup", "lsver", "tag"} => waiting
          /\ call.op = "read" => call.id \in DOMAIN ventry /\ cache.id = call.id
          /\ call.op = "lookup" => call.id \in Names
          /\ call.op \in {"lsver", "tag", "ls"} => \E f \in File : call.id = Plain(f)
          /\ call.op = "ls" => call.todo \in Seq(File) /\ (waiting \/ call.todo # <<>>)

\* What is kept in the table.
KeptOwn ==
    /\ DOMAIN ventry \subseteq Id
    /\ \A f \in File : Plain(f) \in DOMAIN ventry
    /\ \A id \in DOMAIN ventry :
          ventry[id] \in InUse(id) /\ Contains(Log[id.file], ventry[id])

\* What ls -l shows.
DatesOwn == \A d \in dates : d.of = d.file /\ d.rev \in InUse(Plain(d.file))

CacheOwn ==
    /\ cache = [id |-> cache.id, text |-> cache.text]
    /\ cache.id # Idle.id /\ call.op # "read"
       /\ <<cache.id.file, cache.id.rev>> \notin Absent =>
          \E r \in InUse(cache.id) : cache.text = Content(cache.id.file, r, TRUE)

\* What may stop a daemon that has missed no answer.
Explained ==
    \/ call.op \in {"lookup", "lsver", "ls"}
       /\ \E part \in {1, 2} : <<call.id.file, part>> \in Broken
    \/ call.op = "lookup" /\ NoRoom
    \/ call.op = "tag" /\ call.id.file \in Odd \cup {Directory}
    \/ /\ call.op = "read" /\ call.id \in DOMAIN ventry
       /\ <<call.id.file, ventry[call.id]>> \in Absent \cup Shorter

Own ==
    /\ status \in {"serving", "stopped"} /\ (status = "stopped" => Explained)
    /\ InStep /\ CallOwn /\ KeptOwn /\ DatesOwn /\ CacheOwn

\* The inductive invariant.  Without InStep nothing could be said of what a
\* call is given.
OwnInv == mishaps \in Nat /\ (mishaps = 0 => Own)

-----------------------------------------------------------------------------

LEMMA Projects ==
    ASSUME NEW f \in File
    PROVE  /\ Contains(Log[f], Loaded[f]) /\ Contains(Log[f], Tagged[f])
           /\ Log[f] \in Seq(Revision) /\ Log[f] # <<>>
           /\ f # None
<1>1. Loaded[f] \in ToSet(Log[f]) /\ Tagged[f] \in ToSet(Log[f])
      /\ Log[f] \in Seq(Revision) /\ Log[f] # <<>> /\ None \notin File
  BY ProjectAssumption
<1>2. DOMAIN Log[f] = 1..Len(Log[f]) BY <1>1
<1> QED BY <1>1, <1>2 DEF Contains, ToSet

\* At a start the checkout was taken whole, or it left something behind.
LEMMA AtFirst == Init => OwnInv
<1> SUFFICES ASSUME Init PROVE OwnInv OBVIOUS
<1> USE DEF Init
<1>1. mishaps \in Nat /\ (mishaps = 0 => owed = <<>>)
  <2>1. Len(<<CoRest>>) = 1 /\ Len(<<>>) = 0 OBVIOUS
  <2> QED BY <2>1
<1>2. KeptOwn
  <2>1. DOMAIN ventry = {Plain(f) : f \in File} BY DEF LoadedTable
  <2>2. \A f \in File : Plain(f) \in Id /\ Plain(f).file = f /\ Plain(f).rev = None
    BY DEF Plain, Id
  <2>3. \A f \in File : ventry[Plain(f)] = Loaded[f]
    BY <2>2 DEF LoadedTable
  <2>4. \A f \in File :
          Loaded[f] \in InUse(Plain(f)) /\ Contains(Log[Plain(f).file], Loaded[f])
    BY <2>2, Projects DEF InUse
  <2> QED BY <2>1, <2>2, <2>3, <2>4 DEF KeptOwn
<1>3. CallOwn /\ DatesOwn /\ CacheOwn
  BY DEF CallOwn, DatesOwn, CacheOwn, Idle
<1> QED BY <1>1, <1>2, <1>3 DEF OwnInv, Own, InStep

LEMMA AfterRestart == Restart => OwnInv'
<1>1. Restart => Init' BY DEF Restart, Init
<1> QED BY <1>1, AtFirst, PTL

-----------------------------------------------------------------------------

\* A question is all that is owed when nothing was owed before.
LEMMA Asked ==
    ASSUME NEW q, Ask(q)
    PROVE  /\ ~waiting /\ waiting'
           /\ owed = <<>> => owed' \in {Full(q), Refusal(q)}
<1>1. PICK a \in Answers(q) : Stream!Ask(a) BY DEF Ask
<1>2. ~waiting /\ waiting' = TRUE /\ owed' = owed \o a BY <1>1 DEF Stream!Ask
<1>3. a \in {Full(q), Refusal(q)} BY <1>1 DEF Answers
<1>4. <<>> \o Full(q) = Full(q) /\ <<>> \o Refusal(q) = Refusal(q)
  BY DEF Full, Refusal
<1> QED BY <1>2, <1>3, <1>4

\* The daemon begins with a request.
LEMMA Begun ==
    ASSUME OwnInv, NEW op \in {"read", "lookup", "lsver", "tag", "ls"},
           NEW id, NEW todo,
           Take(op, id, todo), Ask(SentFor(op, id)),
           op = "read" => id \in DOMAIN ventry /\ cache' = [cache EXCEPT !.id = id],
           op # "read" => cache' = cache,
           op = "lookup" => id \in Names,
           op \in {"lsver", "tag", "ls"} => \E f \in File : id = Plain(f),
           op = "ls" => todo \in Seq(File)
    PROVE  OwnInv'
<1>1. /\ status = "serving" /\ call = Idle
      /\ call' = [op |-> op, id |-> id, todo |-> todo] /\ dates' = {}
      /\ UNCHANGED <<status, ventry, mishaps>>
  BY DEF Take
<1>2. SUFFICES ASSUME mishaps = 0 PROVE Own'
  BY <1>1 DEF OwnInv
<1>3. Own BY <1>2 DEF OwnInv
<1>4. call'.op = op /\ call'.id = id /\ call'.todo = todo BY <1>1
<1>5. SentFor(op, id) = Sent' BY <1>1, <1>4 DEF Sent, SentFor
<1>6. ~waiting /\ waiting' /\ owed = <<>> BY <1>3, Asked DEF Own, InStep
<1>7. InStep' BY <1>5, <1>6, Asked DEF InStep, Full, Refusal
<1>8. CallOwn'
  <2>1. op = "read" => cache'.id = id BY <1>3 DEF Own, CacheOwn
  <2> QED BY <2>1, <1>1, <1>4, <1>6 DEF CallOwn
<1>9. KeptOwn' BY <1>1, <1>3 DEF Own, KeptOwn
<1>10. CacheOwn'
  <2>1. CASE op = "read"
    <3>1. cache' = [id |-> id, text |-> cache.text]
      BY <2>1, <1>3 DEF Own, CacheOwn
    <3> QED BY <2>1, <3>1, <1>4 DEF CacheOwn
  <2>2. CASE op # "read"
    <3>1. call.op # "read" BY <1>1 DEF Idle
    <3> QED BY <2>2, <3>1, <1>3 DEF Own, CacheOwn
  <2> QED BY <2>1, <2>2
<1> QED BY <1>1, <1>3, <1>7, <1>8, <1>9, <1>10 DEF Own, DatesOwn

LEMMA BeginOwn == OwnInv /\ Begin => OwnInv'
<1> SUFFICES ASSUME OwnInv, Begin PROVE OwnInv' OBVIOUS
<1>1. ASSUME NEW id \in Id, AskRead(id) PROVE OwnInv'
  <2>1. SentFor("read", id) = [op |-> "update", file |-> id.file, rev |-> ventry[id]]
    BY DEF SentFor
  <2>2. Take("read", id, <<>>) /\ Ask(SentFor("read", id)) /\ id \in DOMAIN ventry
        /\ cache' = [cache EXCEPT !.id = id]
    BY <1>1, <2>1 DEF AskRead, AskUpdateR
  <2> QED BY <2>2, Begun
<1>2. ASSUME NEW id \in Id, AskLookup(id) PROVE OwnInv'
  <2>1. SentFor("lookup", id) = [op |-> "log", file |-> id.file, rev |-> None]
    BY DEF SentFor
  <2> QED BY <1>2, <2>1, Begun DEF AskLookup, AskLog
<1>3. ASSUME NEW f \in File, AskLsver(f) PROVE OwnInv'
  <2>1. SentFor("lsver", Plain(f)) = [op |-> "log", file |-> f, rev |-> None]
    BY DEF SentFor, Plain
  <2> QED BY <1>3, <2>1, Begun DEF AskLsver, AskLog
<1>4. ASSUME NEW f \in File, AskTag(f) PROVE OwnInv'
  <2>1. SentFor("tag", Plain(f)) = [op |-> "status", file |-> f, rev |-> None]
    BY DEF SentFor, Plain
  <2> QED BY <1>4, <2>1, Begun DEF AskTag
<1>5. ASSUME NEW todo \in Seq(File), todo # <<>>, AskLs(todo) PROVE OwnInv'
  <2>1. todo[1] \in File /\ Tail(todo) \in Seq(File) BY <1>5
  <2>2. SentFor("ls", Plain(todo[1])) =
          [op |-> "log_r", file |-> todo[1], rev |-> ventry[Plain(todo[1])]]
    BY DEF SentFor, Plain
  <2> QED BY <1>5, <2>1, <2>2, Begun DEF AskLs, AskDate
<1>6. Listing \in Seq(File) /\ Listing # <<>> BY ProjectAssumption
<1>7. \A f \in File : <<f>> \in Seq(File) /\ <<f>> # <<>> OBVIOUS
<1>8. ASSUME TagDirectory PROVE OwnInv'
  <2>1. /\ status = "serving" /\ call = Idle /\ status' = "stopped"
        /\ call' = [op |-> "tag", id |-> Plain(Directory), todo |-> <<>>]
        /\ UNCHANGED <<waiting, owed, given, ventry, cache, dates, mishaps>>
    BY <1>8 DEF TagDirectory, connection
  <2>2. SUFFICES ASSUME mishaps = 0 PROVE Own'
    BY <2>1 DEF OwnInv
  <2>3. Own BY <2>2 DEF OwnInv
  <2>4. ~waiting /\ owed = <<>> BY <2>1, <2>3 DEF Own, InStep, CallOwn, Idle
  <2>5. call'.op = "tag" /\ call'.id.file = Directory BY <2>1 DEF Plain
  <2>6. Explained' BY <2>5 DEF Explained
  <2>7. CallOwn'
    <3>1. PICK d : call' = [op |-> "tag", id |-> d, todo |-> <<>>] BY <2>1
    <3>2. call' = [op |-> call'.op, id |-> call'.id, todo |-> call'.todo] BY <3>1
    <3>3. ~waiting' BY <2>1, <2>4
    <3>4. status' = "serving" => FALSE BY <2>1
    <3>5. call'.op \in {"idle", "read", "lookup", "lsver", "tag", "ls"} BY <3>1
    <3>6. call'.op = "idle" => FALSE BY <3>1
    <3> QED BY <3>2, <3>3, <3>4, <3>5, <3>6, Zenon DEF CallOwn
  <2>8. CacheOwn'
    <3>1. call.op # "read" BY <2>1 DEF Idle
    <3> QED BY <2>1, <2>3, <3>1 DEF Own, CacheOwn, InUse
  <2>9. KeptOwn' /\ DatesOwn' BY <2>1, <2>3 DEF Own, KeptOwn, DatesOwn, InUse
  <2>10. InStep' BY <2>1, <2>4 DEF InStep
  <2> QED BY <2>1, <2>6, <2>7, <2>8, <2>9, <2>10 DEF Own
<1> QED BY <1>1, <1>2, <1>3, <1>4, <1>5, <1>6, <1>7, <1>8 DEF Begin

\* ls -l goes on to the next file.
LEMMA NextOwn == OwnInv /\ AskNext => OwnInv'
<1> SUFFICES ASSUME OwnInv, AskNext, mishaps = 0 PROVE Own'
  BY DEF OwnInv, AskNext
<1> DEFINE f == call.todo[1]
<1>1. Own BY DEF OwnInv
<1>2. /\ status = "serving" /\ call.op = "ls" /\ ~waiting
      /\ Ask(SentFor("ls", Plain(f)))
      /\ call' = [call EXCEPT !.id = Plain(f), !.todo = Tail(call.todo)]
      /\ UNCHANGED <<status, ventry, cache, dates, mishaps>>
  <2>1. SentFor("ls", Plain(f)) = [op |-> "log_r", file |-> f, rev |-> ventry[Plain(f)]]
    BY DEF SentFor, Plain
  <2> QED BY <2>1 DEF AskNext, AskDate, Remaining
<1>3. call.todo \in Seq(File) /\ call.todo # <<>> BY <1>1, <1>2 DEF Own, CallOwn
<1>4. f \in File /\ Tail(call.todo) \in Seq(File) BY <1>3
<1> HIDE DEF f
<1>5. call' = [op |-> "ls", id |-> Plain(f), todo |-> Tail(call.todo)]
  BY <1>1, <1>2 DEF Own, CallOwn
<1>6. SentFor("ls", Plain(f)) = Sent' BY <1>2, <1>5 DEF Sent, SentFor
<1>7. waiting' /\ owed = <<>> BY <1>1, <1>2, Asked DEF Own, InStep
<1>8. InStep' BY <1>2, <1>6, <1>7, Asked DEF InStep, Full, Refusal
<1>9. CallOwn'
  <2>1. status' = "serving" BY <1>2
  <2> QED BY <1>4, <1>5, <1>7, <2>1 DEF CallOwn
<1>10. KeptOwn' /\ DatesOwn' BY <1>1, <1>2 DEF Own, KeptOwn, DatesOwn
<1>11. CacheOwn' BY <1>1, <1>2, <1>5 DEF Own, CacheOwn
<1> QED BY <1>1, <1>2, <1>8, <1>9, <1>10, <1>11 DEF Own

-----------------------------------------------------------------------------

LEMMA Pairs ==
    ASSUME NEW a, NEW b
    PROVE  SubSeq(<<a, b>>, 1, 2) = <<a, b>> /\ SubSeq(<<a, b>>, 2 + 1, 2) = <<>>
<1>1. <<a, b>> \in Seq({a, b}) /\ Len(<<a, b>>) = 2 OBVIOUS
<1>2. SubSeq(<<a, b>>, 1, 2) = <<a, b>>
  BY <1>1, SubSeqFull
<1>3. SubSeq(<<a, b>>, 2 + 1, 2) = <<>>
  BY <1>1, SubSeqEmpty
<1> QED BY <1>2, <1>3

\* A call that is still in step when it returns has got the whole of its answer.
LEMMA Answered ==
    ASSUME OwnInv, NEW n, Got(n)
    PROVE  /\ mishaps' \in Nat
           /\ mishaps' = 0 => /\ mishaps = 0 /\ Own
                              /\ given' = Full(Sent) /\ owed' = <<>> /\ ~waiting'
                              /\ status = "serving" /\ n = 2
<1>1. /\ waiting /\ n \in DOMAIN owed /\ Ends(owed[n])
      /\ waiting' = FALSE /\ given' = SubSeq(owed, 1, n)
      /\ owed' = SubSeq(owed, n + 1, Len(owed))
      /\ mishaps' = IF owed[n].part = 1 THEN mishaps + 1 ELSE mishaps
  BY DEF Got, Stream!Give
<1>2. mishaps \in Nat BY DEF OwnInv
<1>3. SUFFICES ASSUME mishaps' = 0
               PROVE  /\ mishaps = 0 /\ Own /\ given' = Full(Sent) /\ owed' = <<>>
                      /\ status = "serving" /\ n = 2
  BY <1>1, <1>2
<1>4. mishaps = 0 /\ owed[n].part # 1 BY <1>1, <1>2, <1>3
<1>5. Own BY <1>4 DEF OwnInv
<1>6. owed[n].part = 2 BY <1>1, <1>4 DEF Ends
<1>7. owed \in {Full(Sent), Refusal(Sent)} BY <1>1, <1>5 DEF Own, InStep
<1>8. owed # Refusal(Sent)
  BY <1>1, <1>6 DEF Refusal, Symbol
<1>9. owed = Full(Sent) /\ n = 2
  BY <1>1, <1>4, <1>7, <1>8 DEF Full, Symbol
<1>10. owed = <<Symbol(Sent, 1), Symbol(Sent, 2)>> /\ Len(owed) = 2
  BY <1>9 DEF Full
<1>11. SubSeq(owed, 1, 2) = owed /\ SubSeq(owed, 2 + 1, Len(owed)) = <<>>
  BY <1>10, Pairs
<1>12. status = "serving" BY <1>1, <1>5 DEF Own, CallOwn
<1> QED BY <1>1, <1>4, <1>5, <1>9, <1>11, <1>12

\* A call that returns leaves all that is kept alone.
LEMMA Returned ==
    ASSUME Own, status = "serving", Return, call.op # "read", ~waiting', owed' = <<>>,
           UNCHANGED <<ventry, cache, dates>>
    PROVE  Own'
<1>1. status' = "serving" /\ call' = Idle BY DEF Return
<1>2. CallOwn' BY <1>1 DEF CallOwn, Idle
<1>3. CacheOwn' BY <1>1 DEF Own, CacheOwn, InUse
<1>4. KeptOwn' /\ DatesOwn' BY DEF Own, KeptOwn, DatesOwn, InUse
<1> QED BY <1>1, <1>2, <1>3, <1>4 DEF Own, InStep

\* A call that stops the daemon leaves all that is kept alone.
LEMMA Stopped ==
    ASSUME Own, status = "serving", Stop, ~waiting', owed' = <<>>,
           Explained, UNCHANGED <<ventry, cache, dates>>
    PROVE  Own'
<1>1. status' = "stopped" /\ UNCHANGED <<call, ventry, cache, dates>> BY DEF Stop
<1>2. Explained' BY <1>1 DEF Explained, NoRoom
<1>3. CallOwn' BY <1>1 DEF Own, CallOwn
<1>4. CacheOwn' BY <1>1 DEF Own, CacheOwn, InUse
<1>5. KeptOwn' /\ DatesOwn' BY <1>1 DEF Own, KeptOwn, DatesOwn, InUse
<1> QED BY <1>1, <1>2, <1>3, <1>4, <1>5 DEF Own, InStep

\* A line that breaks the reader is in the log that was asked for.
LEMMA OwnBreaks ==
    ASSUME NEW m \in {1, 2}, Breaks(given', m), given' = Full(Sent)
    PROVE  \E part \in {1, 2} : <<call.id.file, part>> \in Broken
<1>1. PICK i \in 1..m : <<given'[i].question.file, given'[i].part>> \in Broken
  BY DEF Breaks
<1>2. i \in {1, 2} BY <1>1
<1>3. given' = <<Symbol(Sent, 1), Symbol(Sent, 2)>> BY DEF Full
<1>4. given'[i].question = Sent /\ given'[i].part = i BY <1>2, <1>3 DEF Symbol
<1>5. Sent.file = call.id.file BY DEF Sent, SentFor
<1> QED BY <1>1, <1>2, <1>4, <1>5

\* The server has what is in use for a name, unless the name itself is quoted.
LEMMA HasText ==
    ASSUME NEW id \in Id, <<id.file, id.rev>> \notin Absent, NEW r \in InUse(id)
    PROVE  <<id.file, r>> \notin Absent
<1>1. id.file \in File BY DEF Id
<1>2. CASE id.rev # None BY <1>2 DEF InUse
<1>3. CASE id.rev = None
  <2>1. <<id.file, Loaded[id.file]>> \notin Absent /\ <<id.file, Tagged[id.file]>> \notin Absent
    BY <1>1, ProjectAssumption
  <2>2. r \in {Loaded[id.file], Tagged[id.file]} BY <1>3 DEF InUse
  <2> QED BY <2>1, <2>2
<1> QED BY <1>2, <1>3

LEMMA ReadOwn == ASSUME OwnInv, NEW n, GotRead(n) PROVE OwnInv'
<1>1. Serving("read") /\ Got(n) /\ UNCHANGED <<ventry, dates>>
  BY DEF GotRead
<1>2. SUFFICES ASSUME mishaps' = 0 PROVE Own'
  BY <1>1, Answered DEF OwnInv
<1>3. Own /\ given' = Full(Sent) /\ owed' = <<>> /\ ~waiting' /\ status = "serving"
  BY <1>1, <1>2, Answered
<1>4. call.op = "read" /\ call.id \in DOMAIN ventry /\ cache.id = call.id
  BY <1>1, <1>3 DEF Serving, Own, CallOwn
<1>5. Sent = [op |-> "update", file |-> call.id.file, rev |-> ventry[call.id]]
  BY <1>4 DEF Sent, SentFor
<1>6. given' = <<Symbol(Sent, 1), Symbol(Sent, 2)>> /\ Len(given') = 2
      /\ given'[1].part = 1 /\ given'[1].question = Sent
  BY <1>3 DEF Full, Symbol
<1>7. Sent.op = "update" /\ Sent.file = call.id.file /\ Sent.rev = ventry[call.id]
  BY <1>5
<1>8. CASE Unreadable(given') /\ Stop /\ UNCHANGED cache
  <2>1. <<Sent.file, Sent.rev>> \in Absent \cup Shorter
    BY <1>6, <1>8 DEF Unreadable
  <2>2. <<call.id.file, ventry[call.id]>> \in Absent \cup Shorter BY <1>7, <2>1
  <2>3. Explained BY <1>4, <2>2 DEF Explained
  <2> QED BY <1>1, <1>3, <1>8, <2>3, Stopped
<1>9. ASSUME NEW text \in TextsOf(given'), cache' = [cache EXCEPT !.text = text], Return
      PROVE  Own'
  <2>1. UNCHANGED status /\ call' = Idle BY <1>9 DEF Return
  <2>2. cache' = [id |-> call.id, text |-> text]
    BY <1>3, <1>4, <1>9 DEF Own, CacheOwn
  <2>3. ventry[call.id] \in InUse(call.id) BY <1>3, <1>4 DEF Own, KeptOwn
  <2>4. ASSUME <<call.id.file, call.id.rev>> \notin Absent
        PROVE  text = Content(call.id.file, ventry[call.id], TRUE)
    <3>1. <<call.id.file, ventry[call.id]>> \notin Absent
      BY <1>3, <1>4, <2>3, <2>4, HasText DEF Own, KeptOwn
    <3>2. Present(Sent) BY <1>7, <3>1 DEF Present
    <3>3. TextsOf(given') = {Content(Sent.file, Sent.rev, Len(given') > 1)}
      BY <1>6, <3>2 DEF TextsOf
    <3>4. (Len(given') > 1) = TRUE BY <1>6
    <3>5. text = Content(Sent.file, Sent.rev, Len(given') > 1) BY <1>9, <3>3
    <3> QED BY <1>7, <3>4, <3>5, Zenon
  <2>5. CacheOwn' BY <2>2, <2>3, <2>4 DEF CacheOwn, InUse
  <2>6. CallOwn' BY <1>3, <2>1 DEF CallOwn, Idle
  <2>7. KeptOwn' /\ DatesOwn' BY <1>1, <1>3 DEF Own, KeptOwn, DatesOwn
  <2> QED BY <1>3, <2>1, <2>5, <2>6, <2>7 DEF Own, InStep
<1> QED BY <1>8, <1>9 DEF GotRead

LEMMA LsverOwn == ASSUME OwnInv, NEW n, GotLsver(n) PROVE OwnInv'
<1>1. /\ call.op = "lsver" /\ Got(n) /\ UNCHANGED <<ventry, cache, dates>>
      /\ Return \/ (Breaks(given', n) /\ Stop)
  BY DEF GotLsver, Serving
<1>2. SUFFICES ASSUME mishaps' = 0 PROVE Own'
  BY <1>1, Answered DEF OwnInv
<1>3. /\ Own /\ given' = Full(Sent) /\ owed' = <<>> /\ ~waiting' /\ status = "serving"
      /\ n = 2
  BY <1>1, <1>2, Answered
<1>4. CASE Return BY <1>1, <1>3, <1>4, Returned
<1>5. CASE Breaks(given', n) /\ Stop
  <2>1. Explained BY <1>1, <1>3, <1>5, OwnBreaks DEF Explained
  <2> QED BY <1>1, <1>3, <1>5, <2>1, Stopped
<1> QED BY <1>1, <1>4, <1>5

\* The revisions in the answer to log, and to log -r.
LEMMA ListedInLog ==
    ASSUME NEW q, q.op = "log"
    PROVE  /\ ListedIn(Symbol(q, 1)) = <<Log[q.file][1]>>
           /\ ListedIn(Symbol(q, 2)) = Tail(Log[q.file])
<1>1. \A part : Symbol(q, part).question = q /\ Symbol(q, part).part = part
  BY DEF Symbol
<1> QED BY <1>1 DEF ListedIn

LEMMA ListedInLogR ==
    ASSUME NEW q, q.op = "log_r"
    PROVE  /\ ListedIn(Symbol(q, 1)) = <<q.rev>>
           /\ ListedIn(Symbol(q, 2)) = <<>>
<1>1. \A part : Symbol(q, part).question = q /\ Symbol(q, part).part = part
  BY DEF Symbol
<1>2. q.op # "log" OBVIOUS
<1>3. ListedIn(Symbol(q, 1)) = <<q.rev>>
  <2>1. Symbol(q, 1).question = q /\ Symbol(q, 1).part = 1 BY <1>1
  <2> QED BY <1>2, <2>1 DEF ListedIn
<1>4. ListedIn(Symbol(q, 2)) = <<>>
  <2>1. Symbol(q, 2).question = q /\ Symbol(q, 2).part = 2 BY <1>1
  <2> QED BY <1>2, <2>1 DEF ListedIn
<1> QED BY <1>3, <1>4

LEMMA LookupOwn == ASSUME OwnInv, NEW n, GotLookup(n) PROVE OwnInv'
<1> DEFINE id == call.id
<1>1. Serving("lookup") /\ Got(n) /\ UNCHANGED <<cache, dates>>
  BY DEF GotLookup
<1>2. SUFFICES ASSUME mishaps' = 0 PROVE Own'
  BY <1>1, Answered DEF OwnInv
<1>3. /\ Own /\ given' = Full(Sent) /\ owed' = <<>> /\ ~waiting' /\ status = "serving"
      /\ n = 2 /\ call.op = "lookup"
  BY <1>1, <1>2, Answered DEF Serving
<1>4. id \in Names /\ id \in Id /\ id.rev # None /\ id.file \in File
  BY <1>1, <1>3, ProjectAssumption DEF Serving, Own, CallOwn, Id
<1>5. Sent = [op |-> "log", file |-> id.file, rev |-> None]
  BY <1>1 DEF Serving, Sent, SentFor
<1>6. Valid(id.rev, given') => Contains(Log[id.file], id.rev)
  <2> DEFINE log == Log[id.file]
  <2>1. log \in Seq(Revision) /\ log # <<>> BY <1>4, Projects
  <2>2. given' = <<Symbol(Sent, 1), Symbol(Sent, 2)>> BY <1>3 DEF Full
  <2>3. ListedIn(given'[1]) = <<log[1]>> /\ ListedIn(given'[2]) = Tail(log)
    BY <1>5, <2>2, ListedInLog
  <2> HIDE DEF log
  <2>4. Contains(<<log[1]>>, id.rev) => Contains(log, id.rev)
    BY <2>1 DEF Contains
  <2>5. Contains(Tail(log), id.rev) => Contains(log, id.rev)
    <3>1. \A i \in 1..Len(Tail(log)) : Tail(log)[i] = log[i + 1] /\ i + 1 \in 1..Len(log)
      BY <2>1
    <3> QED BY <3>1 DEF Contains
  <2>6. DOMAIN given' = {1, 2} BY <2>2
  <2> QED BY <2>3, <2>4, <2>5, <2>6 DEF Valid, log
<1>7. ASSUME Valid(id.rev, given'), Enter(id), Return PROVE Own'
  <2>1. ventry' = [i \in DOMAIN ventry \cup {id} |-> IF i = id THEN id.rev ELSE ventry[i]]
    BY <1>7 DEF Enter
  <2>2. /\ DOMAIN ventry' = {id} \cup DOMAIN ventry
        /\ \A x \in DOMAIN ventry' : ventry'[x] = IF x = id THEN id.rev ELSE ventry[x]
    BY <2>1
  <2>3. id.rev \in InUse(id) BY <1>4 DEF InUse
  <2>4. KeptOwn' BY <1>3, <1>4, <1>6, <1>7, <2>2, <2>3 DEF Own, KeptOwn, InUse
  <2>5. status' = "serving" /\ call' = Idle BY <1>3, <1>7 DEF Return
  <2>6. CallOwn' BY <1>3, <2>5 DEF CallOwn, Idle
  <2>7. CacheOwn' BY <1>1, <1>3 DEF Own, CacheOwn, InUse
  <2>8. DatesOwn' BY <1>1, <1>3 DEF Own, DatesOwn, InUse
  <2> QED BY <1>3, <2>4, <2>5, <2>6, <2>7, <2>8 DEF Own, InStep
<1>8. ASSUME UNCHANGED ventry, Return PROVE Own'
  BY <1>1, <1>3, <1>8, Returned
<1>9. ASSUME NoRoom \/ Breaks(given', n), UNCHANGED ventry, Stop PROVE Own'
  <2>1. Explained BY <1>3, <1>9, OwnBreaks DEF Explained
  <2> QED BY <1>1, <1>3, <1>9, <2>1, Stopped
<1> QED BY <1>7, <1>8, <1>9 DEF GotLookup

\* The only element of a set is its least.
LEMMA MinOfOne == ASSUME NEW i \in Int PROVE Min({i}) = i
BY DEF Min

LEMMA TagOwn == ASSUME OwnInv, NEW n, GotTag(n) PROVE OwnInv'
<1>1. Serving("tag") /\ Got(n) /\ UNCHANGED <<cache, dates>>
  BY DEF GotTag
<1>2. SUFFICES ASSUME mishaps' = 0 PROVE Own'
  BY <1>1, Answered DEF OwnInv
<1>3. /\ Own /\ given' = Full(Sent) /\ owed' = <<>> /\ ~waiting' /\ status = "serving"
      /\ call.op = "tag"
  BY <1>1, <1>2, Answered DEF Serving
<1>4. PICK f \in File : call.id = Plain(f)
  BY <1>1, <1>3 DEF Serving, Own, CallOwn
<1>5. Sent = [op |-> "status", file |-> f, rev |-> None]
  BY <1>1, <1>4 DEF Serving, Sent, SentFor, Plain
<1>6. given' = <<Symbol(Sent, 1), Symbol(Sent, 2)>> /\ DOMAIN given' = {1, 2}
  BY <1>3 DEF Full
<1>7. WithTag(given') = {2} BY <1>5, <1>6 DEF WithTag, Symbol
<1>8. given'[Min(WithTag(given'))].question.file = f
  BY <1>5, <1>6, <1>7, MinOfOne DEF Symbol
<1>9. \/ f \in Odd /\ UNCHANGED ventry /\ Stop
      \/ ventry' = [ventry EXCEPT ![Plain(f)] = Tagged[f]] /\ Return
  BY <1>4, <1>7, <1>8 DEF GotTag
<1>10. CASE f \in Odd /\ UNCHANGED ventry /\ Stop
  <2>1. call.id.file = f BY <1>4 DEF Plain
  <2>2. Explained BY <1>3, <1>10, <2>1 DEF Explained
  <2> QED BY <1>1, <1>3, <1>10, <2>2, Stopped
<1>11. CASE ventry' = [ventry EXCEPT ![Plain(f)] = Tagged[f]] /\ Return
  <2>1. Tagged[f] \in InUse(Plain(f)) /\ Contains(Log[Plain(f).file], Tagged[f])
    BY Projects DEF InUse, Plain
  <2>2. KeptOwn' BY <1>3, <1>11, <2>1 DEF Own, KeptOwn, InUse
  <2>3. status' = "serving" /\ call' = Idle BY <1>3, <1>11 DEF Return
  <2>4. CallOwn' BY <1>3, <2>3 DEF CallOwn, Idle
  <2>5. CacheOwn' BY <1>1, <1>3 DEF Own, CacheOwn, InUse
  <2>6. DatesOwn' BY <1>1, <1>3 DEF Own, DatesOwn, InUse
  <2> QED BY <1>3, <2>2, <2>3, <2>4, <2>5, <2>6 DEF Own, InStep
<1> QED BY <1>9, <1>10, <1>11

LEMMA DateOwn == ASSUME OwnInv, NEW n, GotDate(n) PROVE OwnInv'
<1>1. Serving("ls") /\ Got(n) /\ UNCHANGED <<ventry, cache>>
  BY DEF GotDate
<1>2. SUFFICES ASSUME mishaps' = 0 PROVE Own'
  BY <1>1, Answered DEF OwnInv
<1>3. /\ Own /\ given' = Full(Sent) /\ owed' = <<>> /\ ~waiting' /\ status = "serving"
      /\ call.op = "ls"
  BY <1>1, <1>2, Answered DEF Serving
<1>4. PICK f \in File : call.id = Plain(f)
  BY <1>1, <1>3 DEF Serving, Own, CallOwn
<1>5. Sent = [op |-> "log_r", file |-> f, rev |-> ventry[Plain(f)]]
  BY <1>1, <1>4 DEF Serving, Sent, SentFor, Plain
<1>6. given' = <<Symbol(Sent, 1), Symbol(Sent, 2)>> /\ DOMAIN given' = {1, 2}
  BY <1>3 DEF Full
<1>7. ListedIn(given'[1]) = <<ventry[Plain(f)]>> /\ ListedIn(given'[2]) = <<>>
  BY <1>5, <1>6, ListedInLogR
<1>8. WithDate(given') = {1} BY <1>6, <1>7 DEF WithDate
<1>9. \/ /\ dates' = dates \cup {[file |-> f, of |-> f, rev |-> ventry[Plain(f)]]}
         /\ call' = IF call.todo = <<>> THEN Idle ELSE call
         /\ UNCHANGED status
      \/ Breaks(given', 1) /\ UNCHANGED dates /\ Stop
  <2>1. given'[1].question.file = f BY <1>5, <1>6 DEF Symbol
  <2>2. Min(WithDate(given')) = 1 BY <1>8, MinOfOne
  <2>3. call.id.file = f BY <1>4 DEF Plain
  <2>4. WithDate(given') # {} BY <1>8
  <2> QED BY <1>7, <2>1, <2>2, <2>3, <2>4 DEF GotDate
<1>b. CASE Breaks(given', 1) /\ UNCHANGED dates /\ Stop
  <2>1. Explained BY <1>3, <1>b, OwnBreaks DEF Explained
  <2> QED BY <1>1, <1>3, <1>b, <2>1, Stopped
<1> SUFFICES ASSUME /\ dates' = dates \cup {[file |-> f, of |-> f, rev |-> ventry[Plain(f)]]}
                    /\ call' = IF call.todo = <<>> THEN Idle ELSE call
                    /\ UNCHANGED status
             PROVE  Own'
  BY <1>9, <1>b
<1>10. DatesOwn'
  <2>1. ventry[Plain(f)] \in InUse(Plain(f)) BY <1>3 DEF Own, KeptOwn
  <2> QED BY <1>3, <2>1 DEF Own, DatesOwn, InUse, Plain
<1>11. CallOwn'
  <2>1. call.todo \in Seq(File) /\ call.op = "ls"
    BY <1>1, <1>3 DEF Serving, Own, CallOwn
  <2>2. CASE call.todo = <<>> BY <1>3, <2>2 DEF CallOwn, Idle
  <2>3. CASE call.todo # <<>> BY <1>3, <2>1, <2>3 DEF Own, CallOwn
  <2> QED BY <2>2, <2>3
<1>12. CacheOwn'
  <2>1. call.op = "ls" BY <1>1 DEF Serving
  <2> QED BY <1>1, <1>3, <2>1 DEF Own, CacheOwn
<1> QED BY <1>1, <1>3, <1>10, <1>11, <1>12 DEF Own, InStep, KeptOwn

LEMMA NextKeepsOwn == OwnInv /\ [Next]_vars => OwnInv'
<1> SUFFICES ASSUME OwnInv, [Next]_vars PROVE OwnInv' OBVIOUS
<1>1. CASE Begin BY <1>1, BeginOwn
<1>2. CASE AskNext BY <1>2, NextOwn
<1>3. ASSUME NEW n, TimedOut(n) PROVE OwnInv'
  <2>1. mishaps \in Nat /\ mishaps' = mishaps + 1 BY <1>3 DEF OwnInv, TimedOut
  <2> QED BY <2>1 DEF OwnInv
<1>4. CASE \E n \in 0..Len(owed) : End(n)
  BY <1>3, <1>4, ReadOwn, LookupOwn, LsverOwn, TagOwn, DateOwn DEF End
<1>5. CASE Restart BY <1>5, AfterRestart
<1>6. CASE UNCHANGED vars
  BY <1>6 DEF vars, connection, OwnInv, Own, InStep, Sent, SentFor, CallOwn, KeptOwn,
              DatesOwn, CacheOwn, Explained, NoRoom
<1> QED BY <1>1, <1>2, <1>4, <1>5, <1>6 DEF Next, Continue

LEMMA OwnInvHolds == Spec => []OwnInv
<1> QED BY AtFirst, NextKeepsOwn, PTL DEF Spec

\* As long as every call got its answer, the cache holds a whole revision of
\* its own file.
THEOREM ContentCorrect == Spec => []ContentOwn
<1>1. OwnInv => ContentOwn BY DEF OwnInv, Own, CacheOwn, ContentOwn
<1> QED BY <1>1, OwnInvHolds, PTL

\* And the names, revisions and dates are those of their own files.
THEOREM TableCorrect == Spec => []TableOwn
<1>1. OwnInv => TableOwn BY DEF OwnInv, Own, KeptOwn, DatesOwn, TableOwn
<1> QED BY <1>1, OwnInvHolds, PTL

\* As long as every call got its answer, the daemon stops only for what its last
\* request was about: a line in the log of that file, its tag, no vinode left, a
\* directory to update, or a revision that the server has not, or has shorter.
THEOREM StopsAreExplained == Spec => []StopsExplained
<1>1. OwnInv => StopsExplained
  BY DEF OwnInv, Own, Explained, StopsExplained
<1> QED BY <1>1, OwnInvHolds, PTL

-----------------------------------------------------------------------------
(* How far the daemon is behind the server. *)

\* The ends of answers among the symbols of s.
EndsIn(s) == {i \in DOMAIN s : s[i].part # 1}

\* A call in progress is owed one answer more.
LagInv ==
    /\ mishaps \in Nat /\ \E S : owed \in Seq(S)
    /\ Cardinality(EndsIn(owed)) <= mishaps + 1
    /\ ~waiting => Cardinality(EndsIn(owed)) <= mishaps

LEMMA EndsFinite ==
    ASSUME NEW S, NEW s \in Seq(S)
    PROVE  /\ EndsIn(s) \subseteq 1..Len(s) /\ IsFiniteSet(EndsIn(s))
           /\ Cardinality(EndsIn(s)) \in Nat
<1>1. EndsIn(s) \subseteq 1..Len(s) /\ Len(s) \in Nat BY DEF EndsIn
<1>2. IsFiniteSet(1..Len(s)) BY <1>1, FS_Interval
<1> QED BY <1>1, <1>2, FS_Subset, FS_CardinalityType

\* An answer has one end.
LEMMA EndsOfAsked ==
    ASSUME NEW S, NEW s \in Seq(S), NEW q, NEW a \in Answers(q)
    PROVE  /\ Cardinality(EndsIn(s \o a)) <= Cardinality(EndsIn(s)) + 1
           /\ \E T : s \o a \in Seq(T)
<1> DEFINE T == S \cup {Symbol(q, 0), Symbol(q, 1), Symbol(q, 2)}
<1>1. a \in Seq(T) /\ s \in Seq(T) /\ s \o a \in Seq(T)
  <2>1. Full(q) \in Seq(T) /\ Refusal(q) \in Seq(T) BY DEF Full, Refusal
  <2>2. a \in Seq(T) BY <2>1 DEF Answers
  <2>3. s \in Seq(T) OBVIOUS
  <2> HIDE DEF T
  <2> QED BY <2>2, <2>3
<1> HIDE DEF T
<1> DEFINE n == Len(s)
<1>2. EndsIn(s \o a) = EndsIn(s) \cup {n + Len(a)}
  <2>1. DOMAIN (s \o a) = 1..(n + Len(a)) /\ DOMAIN s = 1..n /\ n \in Nat BY <1>1
  <2>2. /\ \A i \in 1..n : (s \o a)[i] = s[i]
        /\ \A i \in 1..Len(a) : (s \o a)[n + i] = a[i]
    BY <1>1
  <2>3. CASE a = Full(q)
    <3>1. Len(a) = 2 /\ a[1].part = 1 /\ a[2].part = 2 BY <2>3 DEF Full, Symbol
    <3>2. (s \o a)[n + 1].part = 1 /\ (s \o a)[n + 2].part # 1
      <4>1. 1 \in 1..Len(a) /\ 2 \in 1..Len(a) BY <3>1
      <4>2. (s \o a)[n + 1] = a[1] /\ (s \o a)[n + 2] = a[2] BY <2>2, <4>1
      <4>3. (s \o a)[n + 1].part = 1 /\ (s \o a)[n + 2].part = 2 BY <3>1, <4>2
      <4> QED BY <4>3
    <3>3. DOMAIN (s \o a) = DOMAIN s \cup {n + 1, n + 2} BY <2>1, <3>1
    <3> QED BY <2>1, <2>2, <3>1, <3>2, <3>3 DEF EndsIn
  <2>4. CASE a = Refusal(q)
    <3>1. Len(a) = 1 /\ a[1].part = 0 BY <2>4 DEF Refusal, Symbol
    <3>2. (s \o a)[n + 1].part # 1
      <4>1. 1 \in 1..Len(a) BY <3>1
      <4>2. (s \o a)[n + 1] = a[1] BY <2>2, <4>1
      <4>3. (s \o a)[n + 1].part = 0 BY <3>1, <4>2
      <4> QED BY <4>3
    <3>3. DOMAIN (s \o a) = DOMAIN s \cup {n + 1} BY <2>1, <3>1
    <3> QED BY <2>1, <2>2, <3>1, <3>2, <3>3 DEF EndsIn
  <2> QED BY <2>3, <2>4 DEF Answers
<1>3. Cardinality(EndsIn(s) \cup {n + Len(a)}) <= Cardinality(EndsIn(s)) + 1
  <2>1. IsFiniteSet(EndsIn(s)) /\ Cardinality(EndsIn(s)) \in Nat BY EndsFinite
  <2> DEFINE m == n + Len(a)
  <2>2. Cardinality(EndsIn(s) \cup {m}) =
          IF m \in EndsIn(s) THEN Cardinality(EndsIn(s)) ELSE Cardinality(EndsIn(s)) + 1
    BY <2>1, FS_AddElement
  <2> QED BY <2>1, <2>2
<1> QED BY <1>1, <1>2, <1>3

\* Whatever is taken off the front takes its ends with it.
LEMMA EndsOfRest ==
    ASSUME NEW S, NEW s \in Seq(S), NEW n \in 0..Len(s)
    PROVE  LET rest == SubSeq(s, n + 1, Len(s)) IN
           /\ rest \in Seq(S)
           /\ Cardinality(EndsIn(rest)) <= Cardinality(EndsIn(s))
           /\ n \in EndsIn(s) => Cardinality(EndsIn(rest)) < Cardinality(EndsIn(s))
<1> DEFINE rest == SubSeq(s, n + 1, Len(s))
           later == {i \in EndsIn(s) : i > n}
           move == [i \in EndsIn(rest) |-> n + i]
<1>1. rest \in Seq(S) /\ Len(rest) = Len(s) - n
      /\ \A i \in 1..(Len(s) - n) : rest[i] = s[n + i]
  OBVIOUS
<1> HIDE DEF rest
<1>2. move \in Injection(EndsIn(rest), later)
  <2>1. \A i \in EndsIn(rest) : i \in 1..(Len(s) - n) /\ rest[i].part # 1
    BY <1>1 DEF EndsIn
  <2>2. \A i \in EndsIn(rest) : n + i \in later
    BY <1>1, <2>1 DEF EndsIn
  <2>3. move \in [EndsIn(rest) -> later] BY <2>2
  <2>4. IsInjective(move) BY <2>1 DEF IsInjective
  <2> QED BY <2>3, <2>4 DEF Injection
<1>3. IsFiniteSet(EndsIn(s)) /\ Cardinality(EndsIn(s)) \in Nat
      /\ Cardinality(EndsIn(rest)) \in Nat
  BY <1>1, EndsFinite
<1>4. IsFiniteSet(later) /\ Cardinality(later) <= Cardinality(EndsIn(s))
      /\ Cardinality(later) \in Nat
  BY <1>3, FS_Subset, FS_CardinalityType
<1>5. Cardinality(EndsIn(rest)) <= Cardinality(later)
  BY <1>2, <1>4, FS_Injection
<1>6. n \in EndsIn(s) => Cardinality(later) <= Cardinality(EndsIn(s)) - 1
  <2>1. SUFFICES ASSUME n \in EndsIn(s) PROVE Cardinality(later) <= Cardinality(EndsIn(s)) - 1
    OBVIOUS
  <2>2. later \subseteq EndsIn(s) \ {n} OBVIOUS
  <2>3. IsFiniteSet(EndsIn(s) \ {n})
        /\ Cardinality(EndsIn(s) \ {n}) = Cardinality(EndsIn(s)) - 1
    BY <1>3, <2>1, FS_RemoveElement
  <2> QED BY <2>2, <2>3, FS_Subset
<1> HIDE DEF later, move
<1> QED BY <1>1, <1>3, <1>4, <1>5, <1>6 DEF rest

\* A request that is sent adds one end, and a call is waited for from then on.
LEMMA AskLag ==
    ASSUME LagInv, NEW q, Ask(q), UNCHANGED mishaps
    PROVE  LagInv'
<1>1. PICK a \in Answers(q) : Stream!Ask(a) BY DEF Ask
<1>2. ~waiting /\ waiting' = TRUE /\ owed' = owed \o a BY <1>1 DEF Stream!Ask
<1>3. PICK S : owed \in Seq(S) BY DEF LagInv
<1>4. /\ Cardinality(EndsIn(owed')) <= Cardinality(EndsIn(owed)) + 1
      /\ \E T : owed' \in Seq(T)
  BY <1>2, <1>3, EndsOfAsked
<1>5. Cardinality(EndsIn(owed)) \in Nat BY <1>3, EndsFinite
<1>6. Cardinality(EndsIn(owed')) \in Nat BY <1>4, EndsFinite
<1>7. Cardinality(EndsIn(owed)) <= mishaps /\ mishaps' = mishaps /\ mishaps \in Nat
  BY <1>2 DEF LagInv
<1>8. Cardinality(EndsIn(owed')) <= mishaps' + 1 BY <1>4, <1>5, <1>6, <1>7
<1> QED BY <1>2, <1>4, <1>7, <1>8 DEF LagInv

\* A call that returns has taken an end, or is counted.
LEMMA TakenLag ==
    ASSUME LagInv, waiting, waiting' = FALSE, NEW n \in 0..Len(owed),
           owed' = SubSeq(owed, n + 1, Len(owed)),
           \/ mishaps' = mishaps + 1
           \/ mishaps' = mishaps /\ n \in EndsIn(owed)
    PROVE  LagInv'
<1>1. PICK S : owed \in Seq(S) BY DEF LagInv
<1>2. /\ owed' \in Seq(S)
      /\ Cardinality(EndsIn(owed')) <= Cardinality(EndsIn(owed))
      /\ n \in EndsIn(owed) => Cardinality(EndsIn(owed')) < Cardinality(EndsIn(owed))
  BY <1>1, EndsOfRest
<1>3. Cardinality(EndsIn(owed)) \in Nat /\ Cardinality(EndsIn(owed')) \in Nat
  BY <1>1, <1>2, EndsFinite
<1>4. Cardinality(EndsIn(owed)) <= mishaps + 1 /\ mishaps \in Nat BY DEF LagInv
<1>5. Cardinality(EndsIn(owed')) <= mishaps' /\ mishaps' \in Nat
  BY <1>2, <1>3, <1>4
<1>6. Cardinality(EndsIn(owed')) <= mishaps' + 1 BY <1>3, <1>5
<1>7. \E T : owed' \in Seq(T) BY <1>2
<1> QED BY <1>5, <1>6, <1>7 DEF LagInv

LEMMA GotLag == ASSUME LagInv, NEW n, Got(n) PROVE LagInv'
<1>1. /\ waiting /\ n \in DOMAIN owed /\ n \in 1..Len(owed)
      /\ waiting' = FALSE /\ owed' = SubSeq(owed, n + 1, Len(owed))
      /\ mishaps' = IF owed[n].part = 1 THEN mishaps + 1 ELSE mishaps
  BY DEF Got, Stream!Give
<1>2. Len(owed) \in Nat BY DEF LagInv
<1>3. n \in 0..Len(owed) BY <1>1, <1>2
<1> QED BY <1>1, <1>3, TakenLag DEF EndsIn

LEMMA FirstLag == Init => LagInv
<1> SUFFICES ASSUME Init PROVE LagInv OBVIOUS
<1>1. waiting = FALSE /\ owed \in {<<>>, <<CoRest>>} /\ mishaps = Len(owed) BY DEF Init
<1>2. owed \in Seq({CoRest})
  <2>1. <<>> \in Seq({CoRest}) /\ <<CoRest>> \in Seq({CoRest}) OBVIOUS
  <2> QED BY <1>1, <2>1
<1>3. EndsIn(owed) \subseteq 1..Len(owed) /\ Cardinality(EndsIn(owed)) \in Nat
  BY <1>2, EndsFinite
<1>4. IsFiniteSet(1..Len(owed)) /\ Cardinality(1..Len(owed)) = Len(owed)
  <2> DEFINE k == Len(owed)
  <2>1. k \in Nat BY <1>2
  <2> HIDE DEF k
  <2>2. IsFiniteSet(1..k) /\ Cardinality(1..k) = IF 1 > k THEN 0 ELSE k - 1 + 1
    BY <2>1, FS_Interval
  <2>3. Cardinality(1..k) = k BY <2>1, <2>2
  <2> QED BY <2>2, <2>3 DEF k
<1>5. Cardinality(EndsIn(owed)) <= mishaps BY <1>1, <1>3, <1>4, FS_Subset
<1>6. mishaps \in Nat BY <1>1, <1>2
<1>7. Cardinality(EndsIn(owed)) <= mishaps + 1 BY <1>3, <1>5, <1>6
<1>8. \E S : owed \in Seq(S) BY <1>2
<1> QED BY <1>5, <1>6, <1>7, <1>8 DEF LagInv

LEMMA RestartLag == Restart => LagInv'
<1>1. Restart => Init' BY DEF Restart, Init
<1> QED BY <1>1, FirstLag, PTL

LEMMA NextLag == LagInv /\ [Next]_vars => LagInv'
<1> SUFFICES ASSUME LagInv, [Next]_vars PROVE LagInv' OBVIOUS
<1>1. CASE Begin
  <2>1. CASE TagDirectory BY <2>1 DEF TagDirectory, connection, LagInv, EndsIn
  <2>2. CASE ~TagDirectory
    <3>1. \E q : Ask(q) /\ UNCHANGED mishaps
      BY <1>1, <2>2 DEF Begin, AskRead, AskUpdateR, AskLookup, AskLog, AskLsver, AskTag,
                        AskLs, AskDate, Take
    <3> QED BY <3>1, AskLag
  <2> QED BY <2>1, <2>2
<1>2. CASE AskNext BY <1>2, AskLag DEF AskNext, AskDate
<1>3. ASSUME NEW n, TimedOut(n) PROVE LagInv'
  <2>1. waiting /\ waiting' = FALSE /\ n \in 0..Len(owed) /\ mishaps' = mishaps + 1
        /\ owed' = SubSeq(owed, n + 1, Len(owed))
    BY <1>3 DEF TimedOut, Stream!GiveUp
  <2> QED BY <2>1, TakenLag
<1>4. CASE \E n \in 0..Len(owed) : End(n)
  BY <1>3, <1>4, GotLag DEF End, GotRead, GotLookup, GotLsver, GotTag, GotDate
<1>5. CASE Restart BY <1>5, RestartLag
<1>6. CASE UNCHANGED vars BY <1>6 DEF vars, connection, LagInv
<1> QED BY <1>1, <1>2, <1>4, <1>5, <1>6 DEF Next, Continue

\* Serving never makes the daemon fall back: it is behind the server by no more
\* answers than there were calls that did not get theirs.
THEOREM LagCorrect == Spec => []LagBounded
<1>1. LagInv => LagBounded BY DEF LagInv, LagBounded, EndsIn
<1> QED BY <1>1, FirstLag, NextLag, PTL DEF Spec
=============================================================================
