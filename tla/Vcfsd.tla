-------------------------------- MODULE Vcfsd --------------------------------
(***************************************************************************)
(* The daemon as a whole: every service that asks the CVS server while the *)
(* project is served, over the one thread and the one connection that they *)
(* share.  The connection is Connection, which cvs_get_resp implements     *)
(* (CvsResp).  An answer that one call leaves behind is the beginning of   *)
(* what the next call gets, so each service is modelled with what it makes *)
(* of the answers that were meant for the others.                          *)
(*                                                                         *)
(* An answer has two parts, the second of which ends it.  The services     *)
(* keep what they learn: the revisions and names in the table, and the     *)
(* read cache.                                                             *)
(***************************************************************************)
EXTENDS Integers, Sequences, SequencesExt, FiniteSetsExt

CONSTANTS
    File,         \* the files of the project
    Listing,      \* the files in the order of their directory
    Log,          \* file |-> the revisions that its log lists, latest first,
                  \* those that a message quotes included
    Loaded,       \* file |-> the revision that is loaded
    Tagged,       \* file |-> the revision with the tag that users update to
    Names,        \* revision-extended names that clients look up
    Room,         \* how many such names the table has vinodes for
    Directory,    \* a path that is no file
    Broken,       \* <<file, part>>: a user wrote a line into this part of the
                  \* log that cvs_get_log_info may not survive, see CvsLog
    Odd,          \* the files whose status has no revision where the tag is
    Absent,       \* <<file, number>>: a message quotes it, the server has it not
    Shorter,      \* <<file, revision>>: shorter than another one, so a client may
                  \* ask for what lies behind its end, see ReadCache
    Cuttable,     \* the requests whose answer may have a line that ends in
                  \* "ok" at the end of its first part
    Refusable,    \* the requests that the server may refuse
    None,         \* no revision, no file
    MaxMishaps    \* bound of the model on calls that do not get their answer

Revision == UNION {ToSet(Log[f]) : f \in File}

\* What the daemon sends: update -r, log, log -r and status -v.
Question == [op : {"update", "log", "log_r", "status"}, file : File,
             rev : Revision \cup {None}]

\* A file in the table, and under the name of a revision.
Id == [file : File, rev : Revision \cup {None}]

ASSUME ProjectAssumption ==
    /\ None \notin File /\ None \notin Revision
    /\ Listing \in Seq(File) /\ Listing # <<>> /\ ToSet(Listing) = File
    /\ Directory \notin File
    /\ \A f \in File : Log[f] \in Seq(Revision) /\ Log[f] # <<>>
    /\ \A f \in File : Loaded[f] \in ToSet(Log[f]) /\ Tagged[f] \in ToSet(Log[f])
    /\ \A f \in File : <<f, Loaded[f]>> \notin Absent /\ <<f, Tagged[f]>> \notin Absent
    /\ \A i \in Names : i \in Id /\ i.rev # None
    /\ Cuttable \subseteq Question /\ Refusable \subseteq Question
    /\ Broken \subseteq File \X {1, 2} /\ Odd \subseteq File
    /\ MaxMishaps \in Nat /\ Room \in Nat

VARIABLES
    waiting, owed, given,  \* see Connection
    status,    \* "serving" or "stopped"
    call,      \* the request being served, or the last one, or Idle
    ventry,    \* id |-> revision, for the files that have a ventry
    cache,     \* the id that the read cache is for, and its text
    dates,     \* what the last ls -l found: whose date each file is shown with
    mishaps    \* calls that did not get their answer, since the start

connection == <<waiting, owed, given>>
vars == <<connection, status, call, ventry, cache, dates, mishaps>>

Symbol(q, part) == [question |-> q, part |-> part]
Full(q) == <<Symbol(q, 1), Symbol(q, 2)>>
Refusal(q) == <<Symbol(q, 0)>>
Answers(q) == {Full(q)} \cup (IF q \in Refusable THEN {Refusal(q)} ELSE {})

Stream == INSTANCE Connection WITH Answer <- UNION {Answers(q) : q \in Question}

\* Does cvs_get_resp take this for the end of an answer?  A refusal is an error
\* line and the rest of an answer to co ends like any other.
Ends(symbol) ==
    \/ symbol.part = 2
    \/ symbol.part = 1 /\ symbol.question \in Cuttable

Idle == [op |-> "idle", id |-> [file |-> None, rev |-> None], todo |-> <<>>]

\* A text is a revision of a file, whole or not; Empty is what READ makes of
\* an answer without a size.
Content(f, r, whole) == [file |-> f, rev |-> r, whole |-> whole]
Empty == Content(None, None, TRUE)

Plain(f) == [file |-> f, rev |-> None]
LoadedTable ==
    [i \in {Plain(f) : f \in File} |-> Loaded[i.file]]

\* vcfs_build_project is done.  The checkout was taken whole, or up to a line
\* that ends in "ok": the rest of it is still to come.
CoRest == Symbol([op |-> "co", file |-> None, rev |-> None], 2)

Init ==
    /\ waiting = FALSE /\ given = <<>>
    /\ owed \in {<<>>, <<CoRest>>}
    /\ mishaps = Len(owed)
    /\ status = "serving" /\ call = Idle
    /\ ventry = LoadedTable
    /\ cache = [id |-> Idle.id, text |-> Empty]
    /\ dates = {}

-----------------------------------------------------------------------------
(* A client's request is taken and the CVS server is asked. *)

\* The thread takes a request when it has served the one before.
Take(op, id, todo) ==
    /\ status = "serving" /\ call = Idle
    /\ call' = [op |-> op, id |-> id, todo |-> todo]
    /\ dates' = {}
    /\ UNCHANGED <<status, ventry, mishaps>>

Ask(q) ==
    \E a \in Answers(q) :
        /\ a = Refusal(q) => mishaps < MaxMishaps
        /\ Stream!Ask(a)

AskUpdateR(id) == Ask([op |-> "update", file |-> id.file, rev |-> ventry[id]])

\* Fault: the request is sent before the cache is looked at.
AskRead_Early(id) ==
    /\ id \in DOMAIN ventry
    /\ cache' = [cache EXCEPT !.id = id]
    /\ IF cache.id = id
       THEN /\ call = Idle /\ Len(owed) <= 2 * MaxMishaps
            /\ owed' = owed \o Full([op |-> "update", file |-> id.file, rev |-> ventry[id]])
            /\ UNCHANGED <<waiting, given, status, call, ventry, dates, mishaps>>
       ELSE Take("read", id, <<>>) /\ AskUpdateR(id)

\* vcfs_read of a file that fits into the cache.  The cache is given the new id
\* before the answer is there.  A read that it can answer changes nothing.
AskRead(id) ==
    /\ id \in DOMAIN ventry /\ cache.id # id
    /\ cache' = [cache EXCEPT !.id = id]
    /\ Take("read", id, <<>>) /\ AskUpdateR(id)

AskLog(f) == Ask([op |-> "log", file |-> f, rev |-> None])

\* NFS LOOKUP of name,v: vcfs_validate_version.
AskLookup(id) ==
    /\ id \in Names
    /\ Take("lookup", id, <<>>) /\ AskLog(id.file)
    /\ UNCHANGED cache

AskLsver(f) ==
    /\ Take("lsver", Plain(f), <<>>) /\ AskLog(f)
    /\ UNCHANGED cache

\* cvstool update -t: cvstool_validate_tag.
AskTag(f) ==
    /\ Take("tag", Plain(f), <<>>)
    /\ Ask([op |-> "status", file |-> f, rev |-> None])
    /\ UNCHANGED cache

\* ASSERT(v->type == NFREG): it writes a line and pauses.
TagDirectory ==
    /\ status = "serving" /\ call = Idle
    /\ call' = [op |-> "tag", id |-> Plain(Directory), todo |-> <<>>]
    /\ status' = "stopped"
    /\ UNCHANGED <<connection, ventry, cache, dates, mishaps>>

\* Fault: the status is asked for, as the name of cvs_get_status has it.
AskDate_Status(f) == Ask([op |-> "status", file |-> f, rev |-> None])

\* cvstool ls -l asks for one file of the directory after the other.
AskDate(f) == Ask([op |-> "log_r", file |-> f, rev |-> ventry[Plain(f)]])

AskLs(todo) ==
    /\ Take("ls", Plain(todo[1]), Tail(todo)) /\ AskDate(todo[1])
    /\ UNCHANGED cache

\* Fault: the file that is asked for next is the same one again.
Remaining_All(todo) == todo

Remaining(todo) == Tail(todo)

AskNext ==
    /\ status = "serving" /\ call.op = "ls" /\ ~waiting
    /\ AskDate(call.todo[1])
    /\ call' = [call EXCEPT !.id = Plain(call.todo[1]), !.todo = Remaining(@)]
    /\ UNCHANGED <<status, ventry, cache, dates, mishaps>>

-----------------------------------------------------------------------------
(* cvs_get_resp returns. *)

Serving(op) == waiting /\ call.op = op

\* The service replies, or the process ends or pauses.
Return == call' = Idle /\ UNCHANGED status
Stop == status' = "stopped" /\ UNCHANGED call

\* The call gets everything up to a part that looks like an end.
Got(n) ==
    /\ n \in DOMAIN owed /\ Ends(owed[n])
    /\ owed[n].part = 1 => mishaps < MaxMishaps
    /\ Stream!Give(n)
    /\ mishaps' = IF owed[n].part = 1 THEN mishaps + 1 ELSE mishaps

\* Does the server have what an update asks for?  It says so in a line if not.
Present(q) == q.op = "update" /\ <<q.file, q.rev>> \notin Absent

\* vcfs_read takes the sixth line for the size.  That line is no number unless
\* the answer begins with one to update; but the rest of an answer may have
\* anything there, and where no such line is, a pointer is used that was never
\* set.
Garbled == Content(None, None, FALSE)

TextsOf(answer) ==
    LET first == answer[1] IN
    IF Present(first.question) /\ first.part = 1
    THEN {Content(first.question.file, first.question.rev, Len(answer) > 1)}
    ELSE IF first.part = 2 \/ first.question.op = "update" THEN {Empty, Garbled}
    ELSE {Empty}

\* The daemon may not survive that, nor a read behind the end of a revision.
Unreadable(answer) ==
    LET first == answer[1] IN
    \/ Len(answer) = 1 /\ first.part = 2
    \/ /\ first.part = 1 /\ first.question.op = "update"
       /\ <<first.question.file, first.question.rev>> \in Absent \cup Shorter

GotRead(n) ==
    /\ Serving("read") /\ Got(n)
    /\ \/ /\ \E text \in TextsOf(given') :
                /\ cache' = [cache EXCEPT !.text = text]
                /\ Return
       \/ Unreadable(given') /\ Stop /\ UNCHANGED cache
    /\ UNCHANGED <<ventry, dates>>

\* The revisions that a part of an answer lists, in order.
ListedIn(symbol) ==
    LET q == symbol.question IN
    CASE q.op = "log" /\ symbol.part = 1 -> <<Log[q.file][1]>>
      [] q.op = "log" /\ symbol.part = 2 -> Tail(Log[q.file])
      [] q.op = "log_r" /\ symbol.part = 1 -> <<q.rev>>
      [] OTHER -> <<>>

\* Is there a line among the first n parts that the reader may not survive?  It
\* depends on the line, and on what the caller asks for.
Breaks(answer, n) ==
    \E i \in 1..n :
        /\ answer[i].question.op \in {"log", "log_r"}
        /\ <<answer[i].question.file, answer[i].part>> \in Broken

\* Fault: the revisions are not compared.
Valid_Any(rev, answer) == \E i \in DOMAIN answer : ListedIn(answer[i]) # <<>>

\* vcfs_validate_version reads all logs that it is given.
Valid(rev, answer) == \E i \in DOMAIN answer : Contains(ListedIn(answer[i]), rev)

NoRoom == Cardinality({id \in DOMAIN ventry : id.rev # None}) >= Room

\* lookuph makes an entry for a name that it does not find.
Enter(id) ==
    ventry' = [i \in DOMAIN ventry \cup {id} |-> IF i = id THEN id.rev ELSE ventry[i]]

GotLookup(n) ==
    /\ Serving("lookup") /\ Got(n)
    /\ LET new == Valid(call.id.rev, given') /\ call.id \notin DOMAIN ventry IN
       \/ new /\ ~NoRoom /\ Enter(call.id) /\ Return
       \/ ~new /\ UNCHANGED ventry /\ Return
       \/ ((new /\ NoRoom) \/ Breaks(given', n)) /\ UNCHANGED ventry /\ Stop
    /\ UNCHANGED <<cache, dates>>

GotLsver(n) ==
    /\ Serving("lsver") /\ Got(n)
    /\ Return \/ (Breaks(given', n) /\ Stop)
    /\ UNCHANGED <<ventry, cache, dates>>

\* The first part with the tag decides, whatever file it is about.
WithTag(answer) ==
    {i \in DOMAIN answer : answer[i].question.op = "status" /\ answer[i].part = 2}

GotTag(n) ==
    /\ Serving("tag") /\ Got(n)
    /\ IF WithTag(given') = {} THEN UNCHANGED ventry /\ Return
       ELSE LET f == given'[Min(WithTag(given'))].question.file IN
            \/ f \in Odd /\ UNCHANGED ventry /\ Stop
            \/ f \notin Odd /\ ventry' = [ventry EXCEPT ![call.id] = Tagged[f]] /\ Return
    /\ UNCHANGED <<cache, dates>>

\* cvstool_get_author_date takes the first revision that it finds, and reads a
\* pointer that was never set when there is none.
WithDate(answer) == {i \in DOMAIN answer : ListedIn(answer[i]) # <<>>}

GotDate(n) ==
    /\ Serving("ls") /\ Got(n)
    /\ IF WithDate(given') = {} THEN UNCHANGED dates /\ Stop
       ELSE LET m == Min(WithDate(given')) IN
            \/ /\ dates' = dates \cup {[file |-> call.id.file, of |-> given'[m].question.file,
                                        rev |-> ListedIn(given'[m])[1]]}
               /\ call' = IF call.todo = <<>> THEN Idle ELSE call
               /\ UNCHANGED status
            \/ Breaks(given', m) /\ UNCHANGED dates /\ Stop
    /\ UNCHANGED <<ventry, cache>>

\* Does the service test what cvs_get_resp returned against NULL?
Checks(op) == op = "tag"

\* Ten seconds pass, and what was received is thrown away.
TimedOut(n) ==
    /\ waiting /\ mishaps < MaxMishaps
    /\ Stream!GiveUp(n)
    /\ mishaps' = mishaps + 1
    /\ IF Checks(call.op) THEN Return ELSE Stop
    /\ UNCHANGED <<ventry, cache, dates>>

\* Somebody kills the daemon and starts it again, with a new connection.
Restart ==
    /\ waiting' = FALSE /\ given' = <<>>
    /\ owed' \in {<<>>, <<CoRest>>}
    /\ mishaps' = Len(owed')
    /\ status' = "serving" /\ call' = Idle
    /\ ventry' = LoadedTable
    /\ cache' = [id |-> Idle.id, text |-> Empty]
    /\ dates' = {}

-----------------------------------------------------------------------------

Begin ==
    \/ \E id \in Id : AskRead(id) \/ AskLookup(id)
    \/ TagDirectory \/ \E f \in File : AskLsver(f) \/ AskTag(f)
    \/ AskLs(Listing) \/ \E f \in File : AskLs(<<f>>)

End(n) == GotRead(n) \/ GotLookup(n) \/ GotLsver(n) \/ GotTag(n) \/ GotDate(n) \/ TimedOut(n)

Continue == AskNext \/ \E n \in 0..Len(owed) : End(n)

Next == Begin \/ Continue \/ Restart

\* The thread goes on with what it has begun: poll returns when there is
\* something to read, and after ten seconds.
Spec == Init /\ [][Next]_vars /\ WF_vars(Continue)

-----------------------------------------------------------------------------
(* Properties. *)

\* The revisions that may be in use for an id.
InUse(id) == IF id.rev # None THEN {id.rev} ELSE {Loaded[id.file], Tagged[id.file]}

\* As long as every call got its answer, what the cache holds is the text of
\* its own file, whole: the revision in the name, or one that the file was
\* loaded with or updated to.  A number that only a message quotes has no text.
ContentOwn ==
    mishaps = 0 /\ cache.id # Idle.id /\ call.op # "read"
    /\ <<cache.id.file, cache.id.rev>> \notin Absent =>
        \E r \in InUse(cache.id) : cache.text = Content(cache.id.file, r, TRUE)

\* And the revisions in the table, and those in the names, are listed in the
\* logs of their own files, and ls -l shows every file with a date out of its
\* own log.  (What a log may list is CvsLog's ValidRight and DatesOwn.)
TableOwn ==
    mishaps = 0 =>
        /\ \A id \in DOMAIN ventry :
              /\ ventry[id] \in InUse(id)
              /\ Contains(Log[id.file], ventry[id])
        /\ \A d \in dates : d.of = d.file /\ d.rev \in InUse(Plain(d.file))

\* The daemon is never further behind the server than the calls that did not
\* get their answer: serving does not make it fall back.
LagBounded ==
    ~waiting => Cardinality({i \in DOMAIN owed : owed[i].part # 1}) <= mishaps

\* As long as every call got its answer, a request of these stops the daemon only
\* for what it asks itself: a lookup, lsver or ls -l when a user wrote a line into
\* the log of that very file that cvs_get_log_info may not survive, a lookup also
\* when the vinodes are used up, an update when the file's own status has no
\* revision at the tag, or when it is of a directory, and a read when the revision
\* is one that the server has not, or one that the file was updated to and that is
\* shorter than what the client knows.
StopsExplained ==
    status = "stopped" /\ mishaps = 0 =>
        \/ call.op \in {"lookup", "lsver", "ls"}
           /\ \E part \in {1, 2} : <<call.id.file, part>> \in Broken
        \/ call.op = "lookup" /\ NoRoom
        \/ call.op = "tag" /\ call.id.file \in Odd \cup {Directory}
        \/ /\ call.op = "read" /\ call.id \in DOMAIN ventry
           /\ <<call.id.file, ventry[call.id]>> \in Absent \cup Shorter

\* Every request that was taken is served, however many questions it takes, or
\* the daemon stops.
Served == call # Idle ~> call = Idle \/ status = "stopped"
=============================================================================
