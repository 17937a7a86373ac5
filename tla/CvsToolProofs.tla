---------------------------- MODULE CvsToolProofs ----------------------------
(***************************************************************************)
(* Proofs about CvsTool, for any number of users, calls and copies of a    *)
(* request: its type invariant, and that what a user has been told of the  *)
(* files that nobody else updates stays true, although the daemon may carry*)
(* out every request more than once and answers may be lost.               *)
(***************************************************************************)
EXTENDS CvsTool, TLAPS, SequenceTheorems, WellFoundedInduction

\* A user waits for the answer to a command of its own.
CallsOwn ==
    /\ call = [c \in Client |-> call[c]]
    /\ calls \in Nat
    /\ \A c \in Client :
          /\ call[c] = [xid |-> call[c].xid, waiting |-> call[c].waiting,
                        command |-> call[c].command, reply |-> call[c].reply]
          /\ call[c].xid \in 0..calls
          /\ call[c].waiting \in BOOLEAN
          /\ call[c].waiting => call[c].reply = None
          /\ call[c].waiting \/ call[c].reply # None => call[c].command \in Commands[c]

\* A request in the socket is a copy of the last call of its user, or of an
\* earlier one; the daemon reads them in the order of the calls.
Copies ==
    /\ \E S : socket \in Seq(S)
    /\ \A i \in DOMAIN socket :
          LET m == socket[i] IN
          /\ m.client \in Client /\ m.command \in Commands[m.client]
          /\ m.xid \in Nat /\ m.xid <= call[m.client].xid
          /\ m.xid = call[m.client].xid => m.command = call[m.client].command
    /\ \A i, j \in DOMAIN socket :
          i < j /\ socket[i].client = socket[j].client => socket[i].xid <= socket[j].xid

\* No copy of an earlier call is left when a call is answered.
NothingOlder(c) ==
    \A i \in DOMAIN socket : socket[i].client = c => socket[i].xid = call[c].xid

\* The file of an update is at the tag, with w for astray and v for ventry.
AtTag(v, w, m) ==
    /\ v[m.path].tag = m.tag
    /\ \E q \in IF w THEN Name ELSE {m.path} : FirstShows(q, m.tag, v[m.path].ver)

\* The lines show what the files are at that only c updates.
Shows(v, c, lines) ==
    \A i \in DOMAIN lines :
        /\ lines[i].file \in Name
        /\ Alone(c, lines[i].file) =>
              /\ lines[i].ver = v[lines[i].file].ver
              /\ lines[i].tag = v[lines[i].file].tag

\* What user c was told with a reply is true.
True(v, w, c, m, reply) ==
    /\ /\ m.op = "update" /\ m.opt = "tag" /\ m.path \in Name /\ Alone(c, m.path)
       /\ reply.status = "OK"
       => AtTag(v, w, m)
    /\ m.op = "ls" /\ reply.status = "OK" => Shows(v, c, reply.lines)

Settled ==
    \A c \in Client : call[c].reply # None =>
        NothingOlder(c) /\ True(ventry, astray, c, call[c].command, call[c].reply)

\* The inductive invariant.  SuccessStands alone is not inductive: a copy of an
\* earlier call could undo the update, were it not read before.
ToolInv ==
    /\ CallsOwn /\ Copies /\ Settled
    /\ DOMAIN ventry = Name /\ astray \in BOOLEAN

-----------------------------------------------------------------------------

\* Requests are taken out of the socket, and the others stay in their order.
Thinned ==
    /\ \E S : socket' \in Seq(S)
    /\ \E g \in [DOMAIN socket' -> DOMAIN socket] :
          /\ \A i \in DOMAIN socket' : socket'[i] = socket[g[i]]
          /\ \A i, j \in DOMAIN socket' : i < j => g[i] < g[j]

LEMMA TailThins ==
    ASSUME Copies, socket # <<>>, socket' = Tail(socket)
    PROVE  Thinned /\ Head(socket) = socket[1] /\ 1 \in DOMAIN socket
<1>1. PICK S : socket \in Seq(S) BY DEF Copies
<1> DEFINE g == [i \in DOMAIN socket' |-> i + 1]
<1>2. socket' \in Seq(S) /\ DOMAIN socket' = 1..(Len(socket) - 1) /\ Len(socket) \in Nat
      /\ \A i \in DOMAIN socket' : socket'[i] = socket[i + 1]
      /\ DOMAIN socket = 1..Len(socket) /\ Len(socket) # 0
  BY <1>1
<1>3. \A i \in DOMAIN socket' : i + 1 \in DOMAIN socket /\ i \in Nat BY <1>2
<1>4. g \in [DOMAIN socket' -> DOMAIN socket] BY <1>3
<1>5. /\ \A i \in DOMAIN socket' : socket'[i] = socket[g[i]]
      /\ \A i, j \in DOMAIN socket' : i < j => g[i] < g[j]
  BY <1>2, <1>3
<1>6. Head(socket) = socket[1] /\ 1 \in DOMAIN socket BY <1>2
<1> QED BY <1>2, <1>4, <1>5, <1>6, Zenon DEF Thinned

LEMMA LossThins ==
    ASSUME Copies, NEW i \in DOMAIN socket, socket' = RemoveAt(socket, i)
    PROVE  Thinned
<1>1. PICK S : socket \in Seq(S) BY DEF Copies
<1> DEFINE g == [k \in DOMAIN socket' |-> IF k < i THEN k ELSE k + 1]
           n == Len(socket)
           front == SubSeq(socket, 1, i - 1)
           back == SubSeq(socket, i + 1, n)
<1>2. n \in Nat /\ DOMAIN socket = 1..n /\ i \in 1..n BY <1>1
<1>3. front \in Seq(S) /\ Len(front) = i - 1 /\ \A k \in 1..(i - 1) : front[k] = socket[k]
  BY <1>1, <1>2
<1>4. back \in Seq(S) /\ Len(back) = n - i /\ \A k \in 1..(n - i) : back[k] = socket[i + k]
  BY <1>1, <1>2
<1>5. socket' = front \o back BY DEF RemoveAt
<1> HIDE DEF front, back, n
<1>6. /\ socket' \in Seq(S) /\ DOMAIN socket' = 1..(n - 1)
      /\ \A k \in 1..(i - 1) : socket'[k] = socket[k]
      /\ \A k \in i..(n - 1) : socket'[k] = back[k - (i - 1)]
  <2>1. /\ front \o back \in Seq(S) /\ Len(front \o back) = n - 1
        /\ \A k \in 1..(i - 1) : (front \o back)[k] = front[k]
        /\ \A k \in i..(n - 1) : (front \o back)[k] = back[k - (i - 1)]
    <3>1. /\ front \o back \in Seq(S) /\ Len(front \o back) = Len(front) + Len(back)
          /\ \A k \in 1..(Len(front) + Len(back)) :
                (front \o back)[k] = IF k <= Len(front) THEN front[k] ELSE back[k - Len(front)]
      BY <1>3, <1>4, ConcatProperties
    <3>2. Len(front) + Len(back) = n - 1 BY <1>2, <1>3, <1>4
    <3>3. \A k \in 1..(n - 1) :
             (front \o back)[k] = IF k <= i - 1 THEN front[k] ELSE back[k - (i - 1)]
      BY <1>3, <3>1, <3>2
    <3>4. \A k \in 1..(i - 1) : k \in 1..(n - 1) /\ k <= i - 1 BY <1>2
    <3>5. \A k \in i..(n - 1) : k \in 1..(n - 1) /\ ~(k <= i - 1) BY <1>2
    <3> QED BY <3>1, <3>2, <3>3, <3>4, <3>5
  <2>2. DOMAIN (front \o back) = 1..(n - 1)
    BY <2>1
  <2>3. \A k \in 1..(i - 1) : (front \o back)[k] = socket[k]
    BY <1>3, <2>1
  <2> QED BY <1>5, <2>1, <2>2, <2>3
<1>7. \A k \in i..(n - 1) : socket'[k] = socket[k + 1]
  <2>1. SUFFICES ASSUME NEW k \in i..(n - 1) PROVE socket'[k] = socket[k + 1] OBVIOUS
  <2>2. k - (i - 1) \in 1..(n - i) /\ i + (k - (i - 1)) = k + 1 BY <1>2
  <2> QED BY <1>4, <1>6, <2>2
<1>8. \A k \in DOMAIN socket' :
        /\ (IF k < i THEN k ELSE k + 1) \in DOMAIN socket
        /\ socket'[k] = socket[IF k < i THEN k ELSE k + 1]
  BY <1>2, <1>6, <1>7
<1>9. g \in [DOMAIN socket' -> DOMAIN socket]
      /\ \A k \in DOMAIN socket' : socket'[k] = socket[g[k]]
  BY <1>8
<1>10. \A k, l \in DOMAIN socket' : k < l => g[k] < g[l]
  BY <1>2, <1>6
<1> QED BY <1>6, <1>9, <1>10, Zenon DEF Thinned

\* What holds of the requests holds of those that are left, while no call is
\* made.
LEMMA ThinnedKeeps ==
    ASSUME Copies, Thinned,
           \A c \in Client : /\ call'[c].xid = call[c].xid
                             /\ call'[c].command = call[c].command
    PROVE  /\ Copies'
           /\ \A c \in Client : NothingOlder(c) => NothingOlder(c)'
<1>1. PICK g \in [DOMAIN socket' -> DOMAIN socket] :
        /\ \A i \in DOMAIN socket' : socket'[i] = socket[g[i]]
        /\ \A i, j \in DOMAIN socket' : i < j => g[i] < g[j]
  BY DEF Thinned
<1>2. \A i \in DOMAIN socket' :
        LET m == socket'[i] IN
        /\ m.client \in Client /\ m.command \in Commands[m.client]
        /\ m.xid \in Nat /\ m.xid <= call'[m.client].xid
        /\ m.xid = call'[m.client].xid => m.command = call'[m.client].command
  BY <1>1 DEF Copies
<1>3. \A i, j \in DOMAIN socket' :
        i < j /\ socket'[i].client = socket'[j].client => socket'[i].xid <= socket'[j].xid
  BY <1>1 DEF Copies
<1>4. Copies' BY <1>2, <1>3 DEF Copies, Thinned
<1>5. \A c \in Client : NothingOlder(c) => NothingOlder(c)'
  BY <1>1 DEF NothingOlder
<1> QED BY <1>4, <1>5

-----------------------------------------------------------------------------
(* The calls. *)

\* A call that is over keeps its number and command.
LEMMA WaitingOver ==
    ASSUME NEW r, r = [xid |-> r.xid, waiting |-> r.waiting,
                       command |-> r.command, reply |-> r.reply]
    PROVE  [r EXCEPT !.waiting = FALSE] =
             [xid |-> r.xid, waiting |-> FALSE, command |-> r.command, reply |-> r.reply]
<1>1. ASSUME NEW x, NEW w, NEW m, NEW y, NEW v
      PROVE  [[xid |-> x, waiting |-> w, command |-> m, reply |-> y] EXCEPT !.waiting = v]
               = [xid |-> x, waiting |-> v, command |-> m, reply |-> y]
  OBVIOUS
<1>2. ASSUME NEW v
      PROVE  [r EXCEPT !.waiting = v] =
                [xid |-> r.xid, waiting |-> v, command |-> r.command, reply |-> r.reply]
  BY <1>1
<1> QED BY <1>2, Zenon

LEMMA AnsweredCall ==
    ASSUME NEW r, r = [xid |-> r.xid, waiting |-> r.waiting,
                       command |-> r.command, reply |-> r.reply],
           NEW y
    PROVE  [[r EXCEPT !.waiting = FALSE] EXCEPT !.reply = y] =
             [xid |-> r.xid, waiting |-> FALSE, command |-> r.command, reply |-> y]
<1>1. \A v, z : [[xid |-> r.xid, waiting |-> v, command |-> r.command, reply |-> z]
                    EXCEPT !.reply = y]
                  = [xid |-> r.xid, waiting |-> v, command |-> r.command, reply |-> y]
  OBVIOUS
<1>2. [r EXCEPT !.waiting = FALSE] =
         [xid |-> r.xid, waiting |-> FALSE, command |-> r.command, reply |-> r.reply]
  BY WaitingOver
<1>3. \A s : s = [xid |-> r.xid, waiting |-> FALSE, command |-> r.command, reply |-> r.reply]
         => [s EXCEPT !.reply = y]
              = [xid |-> r.xid, waiting |-> FALSE, command |-> r.command, reply |-> y]
  BY <1>1, Zenon
<1> QED BY <1>2, <1>3, Zenon

\* One user's call changes.
LEMMA CallChanged ==
    ASSUME CallsOwn, NEW d \in Client, NEW new,
           call' = [c \in Client |-> IF c = d THEN new ELSE call[c]],
           calls' \in {calls, calls + 1},
           new = [xid |-> new.xid, waiting |-> new.waiting,
                  command |-> new.command, reply |-> new.reply],
           new.xid \in 0..calls', new.waiting \in BOOLEAN,
           new.waiting => new.reply = None,
           new.waiting \/ new.reply # None => new.command \in Commands[d]
    PROVE  CallsOwn' /\ call'[d] = new /\ \A c \in Client \ {d} : call'[c] = call[c]
<1>1. call'[d] = new /\ \A c \in Client \ {d} : call'[c] = call[c] OBVIOUS
<1>2. calls \in Nat /\ calls' \in Nat BY DEF CallsOwn
<1>3. \A c \in Client : call[c].xid \in 0..calls' BY <1>2 DEF CallsOwn
<1>4. call' = [c \in Client |-> call'[c]] OBVIOUS
<1>5. ASSUME NEW c \in Client
      PROVE  /\ call'[c] = [xid |-> call'[c].xid, waiting |-> call'[c].waiting,
                            command |-> call'[c].command, reply |-> call'[c].reply]
             /\ call'[c].xid \in 0..calls' /\ call'[c].waiting \in BOOLEAN
             /\ call'[c].waiting => call'[c].reply = None
             /\ call'[c].waiting \/ call'[c].reply # None =>
                   call'[c].command \in Commands[c]
  <2>1. CASE c = d
    <3>1. call'[c] = new BY <1>1, <2>1
    <3> QED BY <2>1, <3>1
  <2>2. CASE c # d
    <3>1. call'[c] = call[c] BY <1>1, <2>2
    <3> QED BY <1>3, <3>1 DEF CallsOwn
  <2> QED BY <2>1, <2>2
<1> QED BY <1>1, <1>2, <1>4, <1>5 DEF CallsOwn

\* Nobody has called yet.
LEMMA CallsOwnAtFirst == ASSUME Init PROVE CallsOwn
<1>1. calls = 0 /\ call = [c \in Client |-> call[c]] /\ \A c \in Client : call[c] = Unused
  BY DEF Init
<1>2. /\ Unused = [xid |-> Unused.xid, waiting |-> Unused.waiting,
                   command |-> Unused.command, reply |-> Unused.reply]
      /\ Unused.xid = 0 /\ Unused.waiting = FALSE /\ Unused.reply = None
  BY DEF Unused
<1>3. ASSUME NEW c \in Client, call[c] = Unused
      PROVE  /\ call[c] = [xid |-> call[c].xid, waiting |-> call[c].waiting,
                           command |-> call[c].command, reply |-> call[c].reply]
             /\ call[c].xid = 0 /\ call[c].waiting = FALSE /\ call[c].reply = None
  BY <1>2, <1>3
<1>4. 0 \in 0..calls /\ calls \in Nat BY <1>1
<1> QED BY <1>1, <1>3, <1>4 DEF CallsOwn

\* A new call.
LEMMA CalledOwn ==
    ASSUME CallsOwn, NEW c \in Client, NEW m \in Commands[c], Call(c, m)
    PROVE  /\ CallsOwn' /\ calls' = calls + 1 /\ \A d \in Client \ {c} : call'[d] = call[d]
           /\ call'[c] = [xid |-> calls + 1, waiting |-> TRUE, command |-> m, reply |-> None]
<1>1. PICK new : new = [xid |-> calls + 1, waiting |-> TRUE, command |-> m, reply |-> None]
  OBVIOUS
<1>2. /\ calls' = calls + 1 /\ calls \in Nat
      /\ call' = [d \in Client |-> IF d = c THEN new ELSE call[d]]
  BY <1>1 DEF Call, CallsOwn
<1>3. /\ new = [xid |-> new.xid, waiting |-> new.waiting,
                command |-> new.command, reply |-> new.reply]
      /\ new.xid = calls + 1 /\ new.waiting = TRUE /\ new.reply = None /\ new.command = m
  BY <1>1
<1>4. calls + 1 \in 0..calls' BY <1>2
<1>5. CallsOwn' /\ call'[c] = new /\ \A d \in Client \ {c} : call'[d] = call[d]
  BY <1>2, <1>3, <1>4, CallChanged
<1> QED BY <1>1, <1>2, <1>5

\* A call that its user gives up.
LEMMA GaveUp ==
    ASSUME CallsOwn, NEW c \in Client, GiveUp(c)
    PROVE  /\ CallsOwn' /\ \A d \in Client \ {c} : call'[d] = call[d]
           /\ call'[c] = [xid |-> call[c].xid, waiting |-> FALSE,
                          command |-> call[c].command, reply |-> call[c].reply]
<1>1. PICK new : new = [xid |-> call[c].xid, waiting |-> FALSE,
                        command |-> call[c].command, reply |-> call[c].reply]
  OBVIOUS
<1>2. call' = [d \in Client |-> IF d = c THEN new ELSE call[d]]
  <2>1. call[c] = [xid |-> call[c].xid, waiting |-> call[c].waiting,
                   command |-> call[c].command, reply |-> call[c].reply]
        /\ call = [d \in Client |-> call[d]]
    BY DEF CallsOwn
  <2>2. call' = [call EXCEPT ![c] = [call[c] EXCEPT !.waiting = FALSE]] BY DEF GiveUp
  <2>3. [call[c] EXCEPT !.waiting = FALSE] = new BY <1>1, <2>1, WaitingOver
  <2>4. \A x : [call EXCEPT ![c] = x] = [d \in Client |-> IF d = c THEN x ELSE call[d]]
    BY <2>1
  <2> QED BY <2>2, <2>3, <2>4, Zenon
<1>3. /\ new = [xid |-> new.xid, waiting |-> new.waiting,
                command |-> new.command, reply |-> new.reply]
      /\ new.xid = call[c].xid /\ new.waiting = FALSE
      /\ new.command = call[c].command /\ new.reply = call[c].reply
  BY <1>1
<1>4. calls' = calls /\ call[c].xid \in 0..calls /\ call[c].reply = None
  BY DEF GiveUp, CallsOwn
<1>5. CallsOwn' /\ call'[c] = new /\ \A d \in Client \ {c} : call'[d] = call[d]
  BY <1>2, <1>3, <1>4, CallChanged
<1> QED BY <1>1, <1>5

\* A call that is answered, unless the answer is lost.
LEMMA Answered ==
    ASSUME CallsOwn, NEW m, m.client \in Client, NEW reply, Answer(m, reply), call' # call
    PROVE  /\ CallsOwn' /\ call[m.client].waiting /\ call[m.client].xid = m.xid
           /\ \A c \in Client \ {m.client} : call'[c] = call[c]
           /\ call'[m.client] = [xid |-> call[m.client].xid, waiting |-> FALSE,
                                 command |-> call[m.client].command, reply |-> reply]
<1>1. PICK d \in Client : d = m.client OBVIOUS
<1>2. PICK over : over = [xid |-> call[d].xid, waiting |-> FALSE,
                          command |-> call[d].command, reply |-> reply]
  OBVIOUS
<1>3. /\ call[d].waiting /\ call[d].xid = m.xid
      /\ call' = [call EXCEPT ![d].waiting = FALSE, ![d].reply = reply]
  BY <1>1 DEF Answer
<1>4. call' = [c \in Client |-> IF c = d THEN over ELSE call[c]]
  <2>1. call[d] = [xid |-> call[d].xid, waiting |-> call[d].waiting,
                   command |-> call[d].command, reply |-> call[d].reply]
        /\ call = [c \in Client |-> call[c]]
    BY DEF CallsOwn
  <2>2. call' = [call EXCEPT ![d] =
                   [[call[d] EXCEPT !.waiting = FALSE] EXCEPT !.reply = reply]]
    BY <1>3, <2>1
  <2>3. [[call[d] EXCEPT !.waiting = FALSE] EXCEPT !.reply = reply] = over
    BY <1>2, <2>1, AnsweredCall
  <2>4. \A x : [call EXCEPT ![d] = x] = [c \in Client |-> IF c = d THEN x ELSE call[c]]
    BY <2>1
  <2> QED BY <2>2, <2>3, <2>4, Zenon
<1>5. /\ over = [xid |-> over.xid, waiting |-> over.waiting,
                 command |-> over.command, reply |-> over.reply]
      /\ over.xid = call[d].xid /\ over.waiting = FALSE
      /\ over.command = call[d].command /\ over.reply = reply
  BY <1>2
<1>6. calls' = calls /\ call[d].xid \in 0..calls /\ call[d].command \in Commands[d]
  BY <1>3 DEF Answer, CallsOwn
<1>7. CallsOwn' /\ call'[d] = over /\ \A c \in Client \ {d} : call'[c] = call[c]
  BY <1>4, <1>5, <1>6, CallChanged
<1> QED BY <1>1, <1>2, <1>3, <1>7

-----------------------------------------------------------------------------
(* The users and the network. *)

LEMMA CallKeeps ==
    ASSUME ToolInv, NEW c \in Client, NEW m \in Commands[c], Call(c, m)
    PROVE  ToolInv'
<1> DEFINE request == [client |-> c, xid |-> calls + 1, command |-> m]
<1>1. /\ calls' = calls + 1 /\ calls \in Nat
      /\ UNCHANGED <<ventry, result, serving, astray>>
  BY DEF Call, ToolInv, CallsOwn
<1>2. /\ CallsOwn' /\ \A d \in Client \ {c} : call'[d] = call[d]
      /\ call'[c] = [xid |-> calls + 1, waiting |-> TRUE, command |-> m, reply |-> None]
  BY CalledOwn DEF ToolInv
<1>3. socket' = Append(socket, request)
  BY <1>2 DEF Call, Request
<1>4. CallsOwn'
  BY <1>2
<1>5. PICK S : socket \in Seq(S) BY DEF ToolInv, Copies
<1> DEFINE n == Len(socket)
<1>6. /\ socket' \in Seq(S \cup {request})
      /\ DOMAIN socket' = 1..(n + 1) /\ DOMAIN socket = 1..n /\ n \in Nat
      /\ \A i \in 1..n : socket'[i] = socket[i]
      /\ socket'[n + 1] = request
  <2>1. socket \in Seq(S \cup {request}) BY <1>5
  <2> HIDE DEF request
  <2> QED BY <1>3, <1>5, <2>1
<1> HIDE DEF n
<1>7. \A i \in 1..n : socket[i].xid \in Nat /\ socket[i].xid <= calls
  BY <1>1, <1>6 DEF ToolInv, Copies, CallsOwn
<1>8. Copies'
  <2>1. \A i \in DOMAIN socket' :
          LET k == socket'[i] IN
          /\ k.client \in Client /\ k.command \in Commands[k.client]
          /\ k.xid \in Nat /\ k.xid <= call'[k.client].xid
          /\ k.xid = call'[k.client].xid => k.command = call'[k.client].command
    <3>1. SUFFICES ASSUME NEW i \in DOMAIN socket', NEW k, k = socket'[i]
                   PROVE  /\ k.client \in Client /\ k.command \in Commands[k.client]
                          /\ k.xid \in Nat /\ k.xid <= call'[k.client].xid
                          /\ k.xid = call'[k.client].xid => k.command = call'[k.client].command
      OBVIOUS
    <3>2. CASE i = n + 1
      <4>1. k = request BY <1>6, <3>1, <3>2
      <4> QED BY <1>1, <1>2, <4>1
    <3>3. CASE i \in 1..n
      <4>1. k = socket[i] /\ i \in DOMAIN socket BY <1>6, <3>1, <3>3
      <4>2. /\ k.client \in Client /\ k.command \in Commands[k.client]
            /\ k.xid \in Nat /\ k.xid <= call[k.client].xid
            /\ k.xid = call[k.client].xid => k.command = call[k.client].command
        BY <4>1 DEF ToolInv, Copies
      <4>3. k.xid <= calls BY <1>7, <3>3, <4>1
      <4>4. CASE k.client = c BY <1>1, <1>2, <4>2, <4>3, <4>4
      <4>5. CASE k.client # c BY <1>2, <4>2, <4>5
      <4> QED BY <4>4, <4>5
    <3> QED BY <1>6, <3>2, <3>3
  <2>2. \A i, j \in DOMAIN socket' :
          i < j /\ socket'[i].client = socket'[j].client => socket'[i].xid <= socket'[j].xid
    <3>1. \A i, j \in 1..n :
            i < j /\ socket[i].client = socket[j].client => socket[i].xid <= socket[j].xid
      BY <1>6 DEF ToolInv, Copies
    <3>2. request.xid = calls + 1 OBVIOUS
    <3> HIDE DEF request
    <3> QED BY <1>1, <1>6, <1>7, <3>1, <3>2
  <2> QED BY <1>6, <2>1, <2>2 DEF Copies
<1>9. ASSUME NEW d \in Client, call'[d].reply # None
      PROVE  /\ NothingOlder(d)'
             /\ True(ventry', astray', d, call'[d].command, call'[d].reply)
  <2>1. d # c BY <1>2, <1>9
  <2>2. call'[d] = call[d] BY <1>2, <2>1
  <2>3. NothingOlder(d) /\ True(ventry, astray, d, call[d].command, call[d].reply)
    BY <1>9, <2>2 DEF ToolInv, Settled
  <2>4. NothingOlder(d)' BY <1>6, <2>1, <2>2, <2>3 DEF NothingOlder
  <2> QED BY <1>1, <2>2, <2>3, <2>4
<1>10. DOMAIN ventry' = Name /\ astray' \in BOOLEAN BY <1>1 DEF ToolInv
<1> QED BY <1>4, <1>8, <1>9, <1>10 DEF ToolInv, Settled

LEMMA RetransmitKeeps ==
    ASSUME ToolInv, NEW c \in Client, Retransmit(c)
    PROVE  ToolInv'
<1> DEFINE request == [client |-> c, xid |-> call[c].xid, command |-> call[c].command]
           n == Len(socket)
<1>1. /\ call[c].waiting /\ call' = call /\ socket' = Append(socket, request)
      /\ UNCHANGED <<ventry, result, serving, astray, calls>>
  BY DEF Retransmit, Request
<1>2. PICK S : socket \in Seq(S) BY DEF ToolInv, Copies
<1>3. /\ socket' \in Seq(S \cup {request})
      /\ DOMAIN socket' = 1..(n + 1) /\ DOMAIN socket = 1..n /\ n \in Nat
      /\ \A i \in 1..n : socket'[i] = socket[i]
      /\ socket'[n + 1] = request
  <2>1. socket \in Seq(S \cup {request}) BY <1>2
  <2> HIDE DEF request
  <2> QED BY <1>1, <1>2, <2>1
<1> HIDE DEF n
<1>4. /\ request.client = c /\ request.xid = call[c].xid /\ request.command = call[c].command
      /\ call[c].xid \in Nat /\ call[c].command \in Commands[c] /\ call[c].reply = None
  BY <1>1 DEF ToolInv, CallsOwn
<1> HIDE DEF request
<1>5. Copies'
  <2>1. \A i \in 1..n :
          LET k == socket[i] IN
          /\ k.client \in Client /\ k.command \in Commands[k.client]
          /\ k.xid \in Nat /\ k.xid <= call[k.client].xid
          /\ k.xid = call[k.client].xid => k.command = call[k.client].command
    BY <1>3 DEF ToolInv, Copies
  <2>2. \A i, j \in 1..n :
          i < j /\ socket[i].client = socket[j].client => socket[i].xid <= socket[j].xid
    BY <1>3 DEF ToolInv, Copies
  <2>3. \A i \in DOMAIN socket' :
          LET k == socket'[i] IN
          /\ k.client \in Client /\ k.command \in Commands[k.client]
          /\ k.xid \in Nat /\ k.xid <= call'[k.client].xid
          /\ k.xid = call'[k.client].xid => k.command = call'[k.client].command
    BY <1>1, <1>3, <1>4, <2>1
  <2>4. \A i, j \in DOMAIN socket' :
          i < j /\ socket'[i].client = socket'[j].client => socket'[i].xid <= socket'[j].xid
    BY <1>3, <1>4, <2>1, <2>2
  <2> QED BY <1>3, <2>3, <2>4 DEF Copies
<1>6. \A d \in Client : NothingOlder(d) => NothingOlder(d)'
  BY <1>1, <1>3, <1>4 DEF NothingOlder
<1>7. Settled' BY <1>1, <1>6 DEF ToolInv, Settled
<1>8. CallsOwn' BY <1>1 DEF ToolInv, CallsOwn
<1> QED BY <1>1, <1>5, <1>7, <1>8 DEF ToolInv

LEMMA GiveUpKeeps ==
    ASSUME ToolInv, NEW c \in Client, GiveUp(c)
    PROVE  ToolInv'
<1>1. UNCHANGED <<ventry, result, serving, astray, socket, calls>>
  BY DEF GiveUp
<1>2. CallsOwn BY DEF ToolInv
<1>3. /\ CallsOwn' /\ \A d \in Client \ {c} : call'[d] = call[d]
      /\ call'[c] = [xid |-> call[c].xid, waiting |-> FALSE,
                     command |-> call[c].command, reply |-> call[c].reply]
  BY <1>2, GaveUp
<1>4. \A d \in Client : /\ call'[d].xid = call[d].xid
                        /\ call'[d].command = call[d].command
                        /\ call'[d].reply = call[d].reply
  BY <1>3
<1>5. CallsOwn' BY <1>3
<1>6. Copies' BY <1>1, <1>4 DEF ToolInv, Copies
<1>7. Settled' BY <1>1, <1>4 DEF ToolInv, Settled, NothingOlder
<1> QED BY <1>1, <1>5, <1>6, <1>7 DEF ToolInv

LEMMA LossKeeps == ASSUME ToolInv, LoseRequest PROVE ToolInv'
<1>1. PICK i \in DOMAIN socket : socket' = RemoveAt(socket, i) BY DEF LoseRequest
<1>2. UNCHANGED <<ventry, result, serving, astray, call, calls>> BY DEF LoseRequest
<1>3. Copies' /\ \A c \in Client : NothingOlder(c) => NothingOlder(c)'
  BY <1>1, <1>2, LossThins, ThinnedKeeps DEF ToolInv
<1>4. Settled' BY <1>2, <1>3 DEF ToolInv, Settled
<1> QED BY <1>2, <1>3, <1>4 DEF ToolInv, CallsOwn

-----------------------------------------------------------------------------
(* The daemon. *)

\* An answer reaches the user of the last call only, and leaves no copies of
\* earlier calls behind.
LEMMA AnswerReaches ==
    ASSUME ToolInv, socket # <<>>, NEW reply, Answer(Head(socket), reply)
    PROVE  /\ CallsOwn' /\ Copies'
           /\ \A c \in Client :
                 /\ call'[c].xid = call[c].xid /\ call'[c].command = call[c].command
                 /\ NothingOlder(c) => NothingOlder(c)'
                 /\ \/ call'[c].reply = call[c].reply
                    \/ /\ call'[c].reply = reply /\ call[c].command = Head(socket).command
                       /\ NothingOlder(c)
<1> DEFINE m == Head(socket)
           d == m.client
           over == [xid |-> call[d].xid, waiting |-> FALSE,
                    command |-> call[d].command, reply |-> reply]
<1>1. Thinned /\ m = socket[1] /\ 1 \in DOMAIN socket
  BY TailThins DEF Answer, ToolInv
<1>2. d \in Client /\ m.xid <= call[d].xid
      /\ (m.xid = call[d].xid => m.command = call[d].command)
  BY <1>1 DEF ToolInv, Copies
<1>3. UNCHANGED calls BY DEF Answer
<1>4. CASE call' = call
  <2>1. \A c \in Client : call'[c] = call[c] BY <1>4
  <2>2. CallsOwn' BY <1>3, <1>4 DEF ToolInv, CallsOwn
  <2> QED BY <1>1, <2>1, <2>2, ThinnedKeeps DEF ToolInv
<1>5. CASE call' # call
  <2>1. CallsOwn' /\ call[d].waiting /\ call[d].xid = m.xid
    BY <1>2, <1>5, Answered DEF ToolInv
  <2>2. call'[d] = over /\ \A c \in Client \ {d} : call'[c] = call[c]
    BY <1>2, <1>5, Answered DEF ToolInv
  <2>3. over.xid = call[d].xid /\ over.command = call[d].command /\ over.reply = reply
    OBVIOUS
  <2>4. call[d].command \in Commands[d] /\ call[d].command = m.command
    BY <1>2, <2>1 DEF ToolInv, CallsOwn
  <2> HIDE DEF over
  <2>5. \A c \in Client : call'[c].xid = call[c].xid /\ call'[c].command = call[c].command
    BY <2>2, <2>3
  <2>6. CallsOwn' BY <2>1
  <2>7. NothingOlder(d)
    <3>1. SUFFICES ASSUME NEW i \in DOMAIN socket, socket[i].client = d
                   PROVE  socket[i].xid = call[d].xid
      BY DEF NothingOlder
    <3>2. socket[i].xid \in Nat /\ socket[i].xid <= call[d].xid /\ m.xid \in Nat
      BY <1>1, <3>1 DEF ToolInv, Copies
    <3>3. i = 1 \/ 1 < i
      <4>1. \E S : socket \in Seq(S) BY DEF ToolInv, Copies
      <4>2. i \in Nat /\ i >= 1 BY <4>1
      <4> QED BY <4>2
    <3>4. m.xid <= socket[i].xid
      BY <1>1, <3>1, <3>2, <3>3 DEF ToolInv, Copies
    <3> QED BY <2>1, <3>2, <3>4
  <2>8. Copies' /\ \A c \in Client : NothingOlder(c) => NothingOlder(c)'
    BY <1>1, <2>5, ThinnedKeeps DEF ToolInv
  <2>9. \A c \in Client : \/ call'[c].reply = call[c].reply
                          \/ c = d /\ call'[c].reply = reply
    BY <2>2, <2>3
  <2> HIDE DEF d
  <2> QED BY <2>4, <2>5, <2>6, <2>7, <2>8, <2>9
<1> QED BY <1>4, <1>5

\* An answer keeps the invariant if it is true, and what users were told before
\* is true still.
LEMMA AnswerKeeps ==
    ASSUME ToolInv, socket # <<>>, NEW reply, Answer(Head(socket), reply),
           DOMAIN ventry' = Name, astray' \in BOOLEAN,
           \A c \in Client : True(ventry', astray', c, Head(socket).command, reply),
           \A c \in Client : call[c].reply # None =>
               True(ventry', astray', c, call[c].command, call[c].reply)
    PROVE  ToolInv'
<1> DEFINE m == Head(socket).command
<1>1. /\ CallsOwn' /\ Copies'
      /\ \A c \in Client :
            /\ call'[c].xid = call[c].xid /\ call'[c].command = call[c].command
            /\ NothingOlder(c) => NothingOlder(c)'
            /\ \/ call'[c].reply = call[c].reply
               \/ /\ call'[c].reply = reply /\ call[c].command = m
                  /\ NothingOlder(c)
  BY AnswerReaches
<1> HIDE DEF m
<1>2. ASSUME NEW c \in Client, call'[c].reply # None
      PROVE  /\ NothingOlder(c)'
             /\ True(ventry', astray', c, call'[c].command, call'[c].reply)
  <2>1. call'[c].command = call[c].command BY <1>1
  <2>2. CASE call'[c].reply = call[c].reply
    <3>1. NothingOlder(c) /\ True(ventry', astray', c, call[c].command, call[c].reply)
      BY <1>2, <2>2 DEF ToolInv, Settled
    <3> QED BY <1>1, <2>1, <2>2, <3>1
  <2>3. CASE call'[c].reply = reply /\ call[c].command = m /\ NothingOlder(c)
    <3>1. True(ventry', astray', c, m, reply) BY DEF m
    <3> QED BY <1>1, <2>1, <2>3, <3>1
  <2> QED BY <1>1, <2>2, <2>3
<1>3. Settled' BY <1>2 DEF Settled
<1> QED BY <1>1, <1>3 DEF ToolInv

\* A daemon that hangs has answered nobody.
LEMMA FailKeeps ==
    ASSUME ToolInv, socket # <<>>, Fail, UNCHANGED <<ventry, result, astray>>
    PROVE  ToolInv'
<1>1. Thinned /\ UNCHANGED <<call, calls, ventry, astray>>
  BY TailThins DEF Fail, ToolInv
<1>2. Copies' /\ \A c \in Client : NothingOlder(c) => NothingOlder(c)'
  BY <1>1, ThinnedKeeps DEF ToolInv
<1>3. Settled' BY <1>1, <1>2 DEF ToolInv, Settled
<1> QED BY <1>1, <1>2, <1>3 DEF ToolInv, CallsOwn

\* What ls shows is what the files are at.
LEMMA LsTrue ==
    ASSUME NEW c \in Client, NEW p, NEW reply, reply = LsReply(p), reply.status = "OK"
    PROVE  Shows(ventry, c, reply.lines)
<1>1. p \in Path /\ Kind[p] \in {"file", "dir"} BY PathAssumption DEF LsReply
<1>2. CASE Kind[p] = "file"
  <2>1. reply.lines = <<Line(p)>> BY <1>1, <1>2 DEF LsReply
  <2>2. p \in Name BY <1>1, <1>2 DEF Name
  <2> QED BY <2>1, <2>2 DEF Shows, Line
<1>3. CASE Kind[p] = "dir"
  <2>1. reply.lines = [i \in DOMAIN Listing[p] |-> Line(Listing[p][i])]
    BY <1>1, <1>3 DEF LsReply
  <2>2. Listing[p] \in Seq(File) BY <1>1, <1>3, PathAssumption
  <2>3. \A i \in DOMAIN Listing[p] : Listing[p][i] \in Name
    <3>1. \A q \in Seq(File) : \A k \in DOMAIN q : q[k] \in File OBVIOUS
    <3>2. \A f \in File : f \in Name BY DEF File, Name
    <3> QED BY <2>2, <3>1, <3>2
  <2>4. PICK lines : lines = reply.lines OBVIOUS
  <2>5. ASSUME NEW i \in DOMAIN lines
        PROVE  /\ lines[i].file \in Name
               /\ lines[i].ver = ventry[lines[i].file].ver
               /\ lines[i].tag = ventry[lines[i].file].tag
    <3>1. i \in DOMAIN Listing[p] BY <2>1, <2>4
    <3>2. PICK f \in Name : f = Listing[p][i] BY <2>3, <3>1
    <3>3. lines[i] = Line(f) BY <2>1, <2>4, <3>1, <3>2
    <3> QED BY <3>3 DEF Line
  <2>6. Shows(ventry, c, lines) BY <2>5 DEF Shows
  <2> QED BY <2>4, <2>6
<1> QED BY <1>1, <1>2, <1>3

\* Nothing changes that a user was told.
LEMMA StillTrue ==
    ASSUME ToolInv, UNCHANGED <<ventry, astray>>
    PROVE  /\ DOMAIN ventry' = Name /\ astray' \in BOOLEAN
           /\ \A c \in Client : call[c].reply # None =>
                 True(ventry', astray', c, call[c].command, call[c].reply)
BY DEF ToolInv, Settled

LEMMA LsKeeps == ASSUME ToolInv, Ls PROVE ToolInv'
<1> DEFINE m == Head(socket).command
           reply == LsReply(m.path)
<1>1. /\ socket # <<>> /\ m.op = "ls" /\ UNCHANGED <<ventry, result, astray>>
      /\ Fail \/ Answer(Head(socket), reply)
  BY DEF Ls, NextRequest
<1>2. CASE Fail BY <1>1, <1>2, FailKeeps
<1>3. CASE Answer(Head(socket), reply)
  <2>1. \A c \in Client : reply.status = "OK" => Shows(ventry, c, reply.lines)
    BY LsTrue, Zenon
  <2>2. \A c \in Client : True(ventry', astray', c, m, reply)
    <3> HIDE DEF reply, m
    <3> QED BY <1>1, <2>1 DEF True
  <2> QED BY <1>1, <1>3, <2>2, StillTrue, AnswerKeeps
<1> QED BY <1>1, <1>2, <1>3

LEMMA LsverKeeps == ASSUME ToolInv, Lsver PROVE ToolInv'
<1> DEFINE m == Head(socket).command
           reply == LsverReply(m.path)
<1>1. /\ socket # <<>> /\ m.op = "lsver" /\ UNCHANGED <<ventry, result, astray>>
      /\ Fail \/ Answer(Head(socket), reply)
  BY DEF Lsver, NextRequest
<1>2. CASE Fail BY <1>1, <1>2, FailKeeps
<1>3. CASE Answer(Head(socket), reply)
  <2>1. \A c \in Client : True(ventry', astray', c, m, reply)
    <3> HIDE DEF reply, m
    <3> QED BY <1>1 DEF True
  <2> QED BY <1>1, <1>3, <2>1, StillTrue, AnswerKeeps
<1> QED BY <1>1, <1>2, <1>3

\* The first line in which a tag is found.
LEMMA FirstIsShown ==
    ASSUME NEW p \in Name, NEW t, Matches(p, t) # {}
    PROVE  FirstShows(p, t, VersionOf(p, t))
<1> DEFINE M == Matches(p, t)
           less == OpToRel(<, Nat)
<1>1. Lines[p] \in Seq(ToSet(Lines[p])) BY PathAssumption
<1>2. DOMAIN Lines[p] \subseteq Nat BY <1>1
<1>3. M \subseteq DOMAIN Lines[p] /\ M # {} BY DEF Matches
<1>4. IsWellFoundedOn(less, Nat) BY NatLessThanWellFounded
<1> HIDE DEF M, less
<1>5. PICK i \in M : \A j \in M : <<j, i>> \notin less
  BY <1>2, <1>3, <1>4, WFMin
<1>6. \A j \in M : i <= j
  <2>1. \A j, k \in Nat : j < k => <<j, k>> \in less BY DEF less, OpToRel
  <2>2. \A j \in M : j \in Nat /\ i \in Nat BY <1>2, <1>3
  <2>3. \A j \in M : ~(j < i) BY <1>5, <2>1, <2>2
  <2> QED BY <2>2, <2>3
<1>7. PICK k : k = CHOOSE l \in M : \A j \in M : l <= j OBVIOUS
<1>8. k \in M /\ \A j \in M : k <= j BY <1>6, <1>7, Zenon
<1>9. VersionOf(p, t) = Lines[p][k].number BY <1>7, Zenon DEF VersionOf, First, M
<1> QED BY <1>8, <1>9 DEF FirstShows, M

\* A number that is copied is one of cvs status -v.
LEMMA VersionIsListed ==
    ASSUME NEW p \in Name, NEW t, Matches(p, t) # {}, VersionOf(p, t) # None
    PROVE  VersionOf(p, t) \in Numbers(p)
BY FirstIsShown DEF FirstShows, Matches, Numbers

\* What may be read for a name is a response for some name.
LEMMA ResponseNames ==
    ASSUME NEW p \in Name, NEW q \in Responses(p) PROVE q \in Name
BY DEF Responses

\* A request that gives one name a tag, or loses an answer, keeps what was told
\* to those who alone update their files.
LEMMA UpdateTrue ==
    ASSUME ToolInv, socket # <<>>, socket' = Tail(socket), NEW p \in Name, NEW m,
           m = Head(socket), m.command.op = "update", m.command.path = p,
           astray' \in BOOLEAN, astray => astray',
           \/ ventry' = ventry
           \/ /\ AtTag(ventry', astray', m.command) /\ DOMAIN ventry' = Name
              /\ \A g \in Name \ {p} : ventry'[g] = ventry[g],
           NEW c \in Client, call[c].reply # None
    PROVE  True(ventry', astray', c, call[c].command, call[c].reply)
<1> DEFINE n == call[c].command
           lines == call[c].reply.lines
<1>1. /\ 1 \in DOMAIN socket /\ m = socket[1]
      /\ m.client \in Client /\ m.command \in Commands[m.client]
      /\ m.xid = call[m.client].xid => m.command = call[m.client].command
  BY TailThins DEF ToolInv, Copies
<1>2. True(ventry, astray, c, n, call[c].reply) /\ NothingOlder(c)
  BY DEF ToolInv, Settled
<1>3. Alone(c, p) => m.command = n
  <2>1. SUFFICES ASSUME Alone(c, p) PROVE m.command = n OBVIOUS
  <2>2. m.client = c BY <1>1, <2>1 DEF Alone
  <2>3. m.xid = call[c].xid BY <1>1, <1>2, <2>2 DEF NothingOlder
  <2> QED BY <1>1, <2>2, <2>3
<1> HIDE DEF n, lines
<1>4. ASSUME n.op = "update", n.opt = "tag", n.path \in Name, Alone(c, n.path),
             call[c].reply.status = "OK"
      PROVE  AtTag(ventry', astray', n)
  <2>1. AtTag(ventry, astray, n) BY <1>2, <1>4 DEF True
  <2>2. ASSUME ventry'[n.path] = ventry[n.path] PROVE AtTag(ventry', astray', n)
    BY <1>4, <2>1, <2>2 DEF AtTag
  <2>3. CASE ventry' = ventry BY <2>2, <2>3
  <2>4. CASE ventry' # ventry /\ n.path = p BY <1>3, <1>4, <2>4
  <2>5. CASE ventry' # ventry /\ n.path # p BY <1>4, <2>2, <2>5
  <2> QED BY <2>3, <2>4, <2>5
<1>5. ASSUME n.op = "ls", call[c].reply.status = "OK"
      PROVE  Shows(ventry', c, lines)
  <2>1. Shows(ventry, c, lines) BY <1>2, <1>5 DEF True, lines
  <2>2. ~Alone(c, p) BY <1>3, <1>5
  <2>3. CASE ventry' = ventry BY <2>1, <2>3
  <2>4. CASE ventry' # ventry
    <3>1. ASSUME NEW i \in DOMAIN lines, Alone(c, lines[i].file)
          PROVE  /\ lines[i].ver = ventry'[lines[i].file].ver
                 /\ lines[i].tag = ventry'[lines[i].file].tag
      <4>1. /\ lines[i].file \in Name
            /\ lines[i].ver = ventry[lines[i].file].ver
            /\ lines[i].tag = ventry[lines[i].file].tag
        BY <2>1, <3>1 DEF Shows
      <4>2. lines[i].file # p BY <2>2, <3>1
      <4>3. ventry'[lines[i].file] = ventry[lines[i].file]
        BY <2>4, <4>1, <4>2
      <4> QED BY <4>1, <4>3
    <3> QED BY <2>1, <3>1 DEF Shows
  <2> QED BY <2>3, <2>4
<1> QED BY <1>4, <1>5 DEF True, n, lines

LEMMA UpdateToTagKeeps ==
    ASSUME ToolInv, socket # <<>>, NEW p \in Name, NEW m, m = Head(socket),
           m.command.op = "update", m.command.path = p, UpdateToTag(p, m)
    PROVE  ToolInv'
<1> DEFINE t == m.command.tag
           reply == [status |-> result']
<1>1. PICK q \in Responses(p) :
        /\ Matches(q, t) # {}
        /\ ventry' = [ventry EXCEPT ![p] = [ver |-> VersionOf(q, t), tag |-> t]]
  BY DEF UpdateToTag
<1>2. Answer(m, reply) /\ UNCHANGED astray BY DEF UpdateToTag
<1>3. DOMAIN ventry = Name /\ astray \in BOOLEAN BY DEF ToolInv
<1>4. FirstShows(q, t, VersionOf(q, t)) BY <1>1, ResponseNames, FirstIsShown
<1>5. /\ DOMAIN ventry' = Name
      /\ ventry'[p].ver = VersionOf(q, t) /\ ventry'[p].tag = t
      /\ \A g \in Name \ {p} : ventry'[g] = ventry[g]
  <2>1. \A x : [ventry EXCEPT ![p] = x][p] = x BY <1>3
  <2>2. ventry'[p] = [ver |-> VersionOf(q, t), tag |-> t] BY <1>1, <2>1
  <2> QED BY <1>1, <1>3, <2>2
<1>6. AtTag(ventry', astray', m.command)
  BY <1>1, <1>2, <1>4, <1>5 DEF AtTag, Responses
<1>7. socket' = Tail(socket) BY <1>2 DEF Answer
<1>8. \A c \in Client : True(ventry', astray', c, m.command, reply)
  BY <1>6 DEF True
<1>9. \A c \in Client : call[c].reply # None =>
         True(ventry', astray', c, call[c].command, call[c].reply)
  BY <1>2, <1>3, <1>5, <1>6, <1>7, UpdateTrue
<1> QED BY <1>2, <1>3, <1>5, <1>8, <1>9, AnswerKeeps

LEMMA UpdateNotFoundKeeps ==
    ASSUME ToolInv, socket # <<>>, NEW p \in Name, NEW m, m = Head(socket),
           m.command.op = "update", m.command.path = p, UpdateNotFound(p, m)
    PROVE  ToolInv'
<1> DEFINE reply == [status |-> result']
<1>1. /\ result' = Status(m, FALSE) /\ Answer(m, reply) /\ UNCHANGED ventry
      /\ astray' = astray \/ astray' = TRUE
  BY DEF UpdateNotFound
<1>2. DOMAIN ventry' = Name /\ astray' \in BOOLEAN BY <1>1 DEF ToolInv
<1>3. m.command.opt = "tag" => reply.status # "OK" BY <1>1 DEF Status
<1>4. \A c \in Client : True(ventry', astray', c, m.command, reply)
  BY <1>3 DEF True
<1>5. socket' = Tail(socket) BY <1>1 DEF Answer
<1>6. \A c \in Client : call[c].reply # None =>
         True(ventry', astray', c, call[c].command, call[c].reply)
  BY <1>1, <1>2, <1>5, UpdateTrue
<1> QED BY <1>1, <1>2, <1>4, <1>6, AnswerKeeps

LEMMA UpdateKeeps == ASSUME ToolInv, Update PROVE ToolInv'
<1>1. PICK m : m = Head(socket) OBVIOUS
<1> DEFINE p == m.command.path
<1>2. socket # <<>> /\ m.command.op = "update" BY <1>1 DEF Update, NextRequest
<1>3. CASE p \in Name /\ UpdateToTag(p, m) BY <1>1, <1>2, <1>3, UpdateToTagKeeps
<1>4. CASE p \in Name /\ UpdateNotFound(p, m) BY <1>1, <1>2, <1>4, UpdateNotFoundKeeps
<1>5. CASE UpdateWeird(p, m) \/ UpdateDirectory
  BY <1>2, <1>5, FailKeeps DEF UpdateWeird, UpdateDirectory
<1>6. ASSUME p \notin Name, UNCHANGED <<ventry, astray>>, NEW reply, Answer(m, reply)
      PROVE  ToolInv'
  <2>1. \A c \in Client : True(ventry', astray', c, m.command, reply)
    BY <1>2, <1>6 DEF True
  <2> QED BY <1>1, <1>2, <1>6, <2>1, StillTrue, AnswerKeeps
<1>7. CASE p = NoPath /\ UpdateNothing(m)
  <2>1. p \notin Name BY <1>7, PathAssumption DEF Name
  <2>2. UNCHANGED <<ventry, astray>> /\ Answer(m, [status |-> result])
    BY <1>7 DEF UpdateNothing
  <2> QED BY <1>6, <2>1, <2>2
<1>8. CASE p \notin Path \cup {NoPath} /\ UpdateUnknown(m)
  <2>1. p \notin Name BY <1>8 DEF Name
  <2>2. UNCHANGED <<ventry, astray>> /\ Answer(m, [status |-> "NOENT"])
    BY <1>8 DEF UpdateUnknown
  <2> QED BY <1>6, <2>1, <2>2
<1> QED BY <1>1, <1>3, <1>4, <1>5, <1>7, <1>8 DEF Update

-----------------------------------------------------------------------------
(* The types. *)

\* The types, and what a user waits for.  They need no assumption on who
\* updates what.
ToolTypes ==
    /\ TypeOK /\ CallsOwn
    /\ \A c \in Client : call[c].waiting => call[c].xid # 0

Given == UNION {Commands[c] : c \in Client}

\* More calls, more requests.
LEMMA RequestsGrow ==
    ASSUME NEW k \in Nat, NEW l \in Nat, k <= l
    PROVE  [client : Client, xid : 1..k, command : Given]
               \subseteq [client : Client, xid : 1..l, command : Given]
<1>1. 1..k \subseteq 1..l OBVIOUS
<1> QED BY <1>1

LEMMA SeqGrows ==
    ASSUME NEW S, NEW T, S \subseteq T, NEW q \in Seq(S)
    PROVE  q \in Seq(T)
OBVIOUS

\* What the table holds is right as long as nothing is written to it.
LEMMA HeldStill ==
    ASSUME ToolTypes, UNCHANGED ventry, astray' = astray \/ astray' = TRUE
    PROVE  Held' /\ astray' \in BOOLEAN
<1>1. Held /\ astray \in BOOLEAN BY DEF ToolTypes, TypeOK
<1>2. \A p \in Name : \A q \in Responses(p) : q \in Responses(p)'
  BY <1>1 DEF Responses
<1>3. ASSUME NEW p \in Name
      PROVE  /\ \E q \in Responses(p)' : ventry'[p].ver \in {Loaded[p]} \cup Numbers(q)
             /\ ventry'[p].tag \in Tag \cup {None}
  <2>1. PICK q \in Responses(p) : ventry[p].ver \in {Loaded[p]} \cup Numbers(q)
    BY <1>1 DEF Held
  <2>2. ventry[p].tag \in Tag \cup {None} BY <1>1 DEF Held
  <2> QED BY <1>2, <2>1, <2>2
<1>4. DOMAIN ventry' = Name BY <1>1 DEF Held
<1>5. Held' BY <1>3, <1>4 DEF Held
<1> QED BY <1>1, <1>5

\* What an action that adds a request has to keep.
LEMMA SentTypes ==
    ASSUME ToolTypes, NEW c \in Client, NEW x \in 1..calls', NEW m \in Commands[c],
           socket' = Append(socket, [client |-> c, xid |-> x, command |-> m]),
           Len(socket) < MaxQueue, calls' \in {calls, calls + 1}
    PROVE  socket' \in Seq(Requests') /\ Len(socket') <= MaxQueue
<1> DEFINE R(k) == [client : Client, xid : 1..k, command : Given]
<1>1. PICK r : r = [client |-> c, xid |-> x, command |-> m] OBVIOUS
<1>2. calls \in Nat /\ calls' \in Nat /\ calls <= calls' BY DEF ToolTypes, CallsOwn
<1>3. Requests = R(calls) /\ Requests' = R(calls') BY DEF Requests, Given
<1>4. R(calls) \subseteq R(calls') BY <1>2, RequestsGrow, Zenon
<1>5. r \in R(calls')
  <2>1. m \in Given BY DEF Given
  <2> QED BY <1>1, <2>1
<1>6. socket \in Seq(R(calls)) BY <1>3 DEF ToolTypes, TypeOK
<1> HIDE DEF R
<1>7. socket \in Seq(R(calls')) BY <1>4, <1>6, SeqGrows
<1>8. socket' = Append(socket, r) BY <1>1
<1>9. MaxQueue \in Nat BY PathAssumption
<1>10. socket' \in Seq(R(calls')) /\ Len(socket') = Len(socket) + 1 /\ Len(socket) \in Nat
  BY <1>5, <1>7, <1>8
<1> QED BY <1>3, <1>9, <1>10

\* And one that takes a request out.
LEMMA TakenTypes ==
    ASSUME ToolTypes, UNCHANGED calls, socket # <<>>,
           \/ socket' = Tail(socket)
           \/ \E i \in DOMAIN socket : socket' = RemoveAt(socket, i)
    PROVE  socket' \in Seq(Requests') /\ Len(socket') <= MaxQueue
<1>1. socket \in Seq(Requests) /\ Len(socket) <= MaxQueue /\ MaxQueue \in Nat
  BY PathAssumption DEF ToolTypes, TypeOK
<1>2. Requests' = Requests BY DEF Requests
<1> HIDE DEF Requests
<1>3. CASE socket' = Tail(socket)
  <2>1. socket' \in Seq(Requests) /\ Len(socket') = Len(socket) - 1 /\ Len(socket) \in Nat
    BY <1>1, <1>3
  <2> QED BY <1>1, <1>2, <2>1
<1>4. ASSUME NEW i \in DOMAIN socket, socket' = RemoveAt(socket, i)
      PROVE  socket' \in Seq(Requests) /\ Len(socket') <= MaxQueue
  <2> DEFINE front == SubSeq(socket, 1, i - 1)
             back == SubSeq(socket, i + 1, Len(socket))
  <2>1. Len(socket) \in Nat /\ i \in 1..Len(socket) BY <1>1
  <2>2. front \in Seq(Requests) /\ Len(front) = i - 1 BY <1>1, <2>1
  <2>3. back \in Seq(Requests) /\ Len(back) = Len(socket) - i BY <1>1, <2>1
  <2>4. socket' = front \o back BY <1>4 DEF RemoveAt
  <2> HIDE DEF front, back
  <2>5. socket' \in Seq(Requests) /\ Len(socket') = Len(front) + Len(back)
    BY <2>2, <2>3, <2>4, ConcatProperties
  <2> QED BY <1>1, <2>1, <2>2, <2>3, <2>5
<1> QED BY <1>2, <1>3, <1>4

\* The first request is one that a user made.
LEMMA HeadTypes ==
    ASSUME ToolTypes, socket # <<>>
    PROVE  Head(socket).client \in Client /\ Head(socket).command \in Given
<1>1. socket \in Seq(Requests) BY DEF ToolTypes, TypeOK
<1>2. Head(socket) \in Requests BY <1>1
<1> QED BY <1>2 DEF Requests, Given

LEMMA CallTypes ==
    ASSUME ToolTypes, NEW c \in Client, NEW m \in Commands[c], Call(c, m)
    PROVE  ToolTypes'
<1>1. /\ CallsOwn' /\ calls' = calls + 1
      /\ \A d \in Client \ {c} : call'[d] = call[d]
      /\ call'[c] = [xid |-> calls + 1, waiting |-> TRUE, command |-> m, reply |-> None]
  BY CalledOwn DEF ToolTypes
<1>2. /\ calls < MaxCalls /\ Len(socket) < MaxQueue
      /\ UNCHANGED <<ventry, result, serving, astray>>
      /\ socket' = Append(socket, [client |-> c, xid |-> calls + 1, command |-> m])
  BY <1>1 DEF Call, Request
<1>3. calls \in Nat /\ MaxCalls \in Nat BY PathAssumption DEF ToolTypes, CallsOwn
<1>4. socket' \in Seq(Requests') /\ Len(socket') <= MaxQueue
  BY <1>1, <1>2, <1>3, SentTypes
<1>5. calls' \in 0..MaxCalls BY <1>1, <1>2, <1>3
<1>6. \A d \in Client : call'[d].waiting => call'[d].xid # 0
  BY <1>1, <1>3 DEF ToolTypes
<1>7. \A d \in Client : /\ call'[d].xid \in 0..calls' /\ call'[d].waiting \in BOOLEAN
                        /\ call'[d].waiting => call'[d].reply = None
  BY <1>1 DEF CallsOwn
<1>8. Held' /\ astray' \in BOOLEAN BY <1>2, HeldStill
<1> QED BY <1>1, <1>2, <1>4, <1>5, <1>6, <1>7, <1>8 DEF ToolTypes, TypeOK

LEMMA RetransmitTypes ==
    ASSUME ToolTypes, NEW c \in Client, Retransmit(c)
    PROVE  ToolTypes'
<1>1. /\ call[c].waiting /\ Len(socket) < MaxQueue
      /\ UNCHANGED <<ventry, result, serving, astray, calls, call>>
      /\ socket' = Append(socket, [client |-> c, xid |-> call[c].xid,
                                   command |-> call[c].command])
  BY DEF Retransmit, Request
<1>2. call[c].xid \in 1..calls' /\ call[c].command \in Commands[c]
  BY <1>1 DEF ToolTypes, CallsOwn
<1>3. socket' \in Seq(Requests') /\ Len(socket') <= MaxQueue
  BY <1>1, <1>2, SentTypes
<1>4. Held' /\ astray' \in BOOLEAN BY <1>1, HeldStill
<1> QED BY <1>1, <1>3, <1>4 DEF ToolTypes, TypeOK, CallsOwn

LEMMA GiveUpTypes ==
    ASSUME ToolTypes, NEW c \in Client, GiveUp(c)
    PROVE  ToolTypes'
<1>1. /\ CallsOwn' /\ \A d \in Client \ {c} : call'[d] = call[d]
      /\ call'[c] = [xid |-> call[c].xid, waiting |-> FALSE,
                     command |-> call[c].command, reply |-> call[c].reply]
  BY GaveUp DEF ToolTypes
<1>2. UNCHANGED <<ventry, result, serving, astray, socket, calls>> BY DEF GiveUp
<1>3. \A d \in Client : call'[d].waiting => call'[d].xid # 0 BY <1>1 DEF ToolTypes
<1>4. \A d \in Client : /\ call'[d].xid \in 0..calls' /\ call'[d].waiting \in BOOLEAN
                        /\ call'[d].waiting => call'[d].reply = None
  BY <1>1 DEF CallsOwn
<1>5. Requests' = Requests BY <1>2 DEF Requests
<1>6. Held' /\ astray' \in BOOLEAN BY <1>2, HeldStill
<1> QED BY <1>1, <1>2, <1>3, <1>4, <1>5, <1>6 DEF ToolTypes, TypeOK

LEMMA LossTypes == ASSUME ToolTypes, LoseRequest PROVE ToolTypes'
<1>1. /\ \E i \in DOMAIN socket : socket' = RemoveAt(socket, i)
      /\ UNCHANGED <<ventry, result, serving, astray, call, calls>>
  BY DEF LoseRequest
<1>2. socket # <<>> BY <1>1
<1>3. socket' \in Seq(Requests') /\ Len(socket') <= MaxQueue
  BY <1>1, <1>2, TakenTypes
<1>4. Held' /\ astray' \in BOOLEAN BY <1>1, HeldStill
<1> QED BY <1>1, <1>3, <1>4 DEF ToolTypes, TypeOK, CallsOwn

\* A request that is answered, or fails, leaves the socket.
LEMMA ServedTypes ==
    ASSUME ToolTypes, socket # <<>>,
           Fail \/ \E reply : Answer(Head(socket), reply),
           serving' \in BOOLEAN, astray' \in BOOLEAN, result' \in CvstoolStatus, Held'
    PROVE  ToolTypes'
<1>1. socket' = Tail(socket) /\ UNCHANGED calls BY DEF Fail, Answer
<1>2. socket' \in Seq(Requests') /\ Len(socket') <= MaxQueue BY <1>1, TakenTypes
<1>3. Head(socket).client \in Client BY HeadTypes
<1>4. CallsOwn' /\ \A d \in Client : call'[d].waiting => call'[d].xid # 0
  <2>1. CASE call' = call BY <1>1, <2>1 DEF ToolTypes, CallsOwn
  <2>2. CASE call' # call
    <3>1. PICK reply : Answer(Head(socket), reply) BY <2>2 DEF Fail
    <3>2. PICK d \in Client : d = Head(socket).client BY <1>3
    <3>3. /\ CallsOwn' /\ \A c \in Client \ {d} : call'[c] = call[c]
          /\ call'[d] = [xid |-> call[d].xid, waiting |-> FALSE,
                         command |-> call[d].command, reply |-> reply]
      BY <2>2, <3>1, <3>2, Answered DEF ToolTypes
    <3> QED BY <3>3 DEF ToolTypes
  <2> QED BY <2>1, <2>2
<1>5. \A d \in Client : /\ call'[d].xid \in 0..calls' /\ call'[d].waiting \in BOOLEAN
                        /\ call'[d].waiting => call'[d].reply = None
  BY <1>4 DEF CallsOwn
<1>6. calls' \in 0..MaxCalls BY <1>1 DEF ToolTypes, TypeOK
<1> QED BY <1>2, <1>4, <1>5, <1>6 DEF ToolTypes, TypeOK

LEMMA UpdateToTagTypes ==
    ASSUME ToolTypes, socket # <<>>, NEW p \in Name, NEW m, m = Head(socket),
           UpdateToTag(p, m)
    PROVE  ToolTypes'
<1> DEFINE t == m.command.tag
<1>1. PICK q \in Responses(p) :
        /\ Matches(q, t) # {} /\ VersionOf(q, t) # None
        /\ ventry' = [ventry EXCEPT ![p] = [ver |-> VersionOf(q, t), tag |-> t]]
  BY DEF UpdateToTag
<1>2. /\ Answer(m, [status |-> result']) /\ result' = Status(m, TRUE)
      /\ UNCHANGED <<serving, astray>>
  BY DEF UpdateToTag
<1>3. Held /\ astray \in BOOLEAN /\ result \in CvstoolStatus /\ serving \in BOOLEAN
  BY DEF ToolTypes, TypeOK
<1>4. result' \in CvstoolStatus BY <1>2, <1>3 DEF Status, CvstoolStatus
<1>5. t \in Tag
  <2>1. PICK c \in Client : m.command \in Commands[c] BY HeadTypes DEF Given
  <2> QED BY <2>1 DEF Tag
<1>6. VersionOf(q, t) \in Numbers(q) BY <1>1, ResponseNames, VersionIsListed
<1>7. /\ DOMAIN ventry' = Name
      /\ ventry'[p].ver = VersionOf(q, t) /\ ventry'[p].tag = t
      /\ \A g \in Name \ {p} : ventry'[g] = ventry[g]
  <2>1. DOMAIN ventry = Name BY <1>3 DEF Held
  <2>2. \A x : [ventry EXCEPT ![p] = x][p] = x BY <2>1
  <2>3. ventry'[p] = [ver |-> VersionOf(q, t), tag |-> t] BY <1>1, <2>2
  <2> QED BY <1>1, <2>1, <2>3
<1> HIDE DEF t
<1>8. ASSUME NEW g \in Name
      PROVE  /\ \E r \in Responses(g) : ventry'[g].ver \in {Loaded[g]} \cup Numbers(r)
             /\ ventry'[g].tag \in Tag \cup {None}
  <2>1. CASE g = p BY <1>1, <1>5, <1>6, <1>7, <2>1
  <2>2. CASE g # p
    <3>1. ventry'[g] = ventry[g] BY <1>7, <2>2
    <3> QED BY <1>3, <3>1 DEF Held
  <2> QED BY <2>1, <2>2
<1>9. \A g \in Name : Responses(g)' = Responses(g) BY <1>2 DEF Responses
<1>10. Held' BY <1>7, <1>8, <1>9 DEF Held
<1> QED BY <1>2, <1>3, <1>4, <1>10, ServedTypes

LEMMA DaemonTypes == ASSUME ToolTypes, Daemon PROVE ToolTypes'
<1>1. Held /\ result \in CvstoolStatus /\ serving \in BOOLEAN /\ astray \in BOOLEAN
  BY DEF ToolTypes, TypeOK
<1>2. socket # <<>> BY DEF Daemon, Ls, Lsver, Update, NextRequest
<1>3. ASSUME UNCHANGED ventry, result' \in CvstoolStatus, astray' \in {astray, TRUE},
             Fail \/ \E reply : Answer(Head(socket), reply) /\ UNCHANGED serving
      PROVE  ToolTypes'
  <2>1. Held' /\ astray' \in BOOLEAN BY <1>3, HeldStill
  <2>2. serving' \in BOOLEAN BY <1>1, <1>3 DEF Fail
  <2> QED BY <1>2, <1>3, <2>1, <2>2, ServedTypes
<1>4. CASE Ls \/ Lsver
  <2>1. UNCHANGED <<ventry, result, astray>> BY <1>4 DEF Ls, Lsver
  <2>2. Fail \/ \E reply : Answer(Head(socket), reply) /\ UNCHANGED serving
    BY <1>4 DEF Ls, Lsver
  <2> QED BY <1>1, <1>3, <2>1, <2>2
<1>5. CASE Update
  <2>1. PICK m : m = Head(socket) OBVIOUS
  <2>2. CASE \E p \in Name : UpdateToTag(p, m) BY <1>2, <2>1, <2>2, UpdateToTagTypes
  <2>3. CASE \E p \in Name : UpdateWeird(p, m) \/ UpdateDirectory
    <3>1. Fail /\ UNCHANGED <<ventry, result, astray>>
      BY <2>3 DEF UpdateWeird, UpdateDirectory
    <3> QED BY <1>1, <1>3, <3>1
  <2>4. CASE \E p \in Name : UpdateNotFound(p, m)
    <3>1. PICK p \in Name : UpdateNotFound(p, m) BY <2>4
    <3>2. /\ UNCHANGED <<ventry, serving>> /\ \E reply : Answer(m, reply)
          /\ astray' \in {astray, TRUE} /\ result' = Status(m, FALSE)
      BY <3>1 DEF UpdateNotFound
    <3>3. result' \in CvstoolStatus BY <1>1, <3>2 DEF Status, CvstoolStatus
    <3> QED BY <1>3, <2>1, <3>2, <3>3
  <2>5. CASE UpdateNothing(m) \/ UpdateUnknown(m)
    <3>1. UNCHANGED <<ventry, serving, astray>> /\ \E reply : Answer(m, reply)
      BY <2>5 DEF UpdateNothing, UpdateUnknown
    <3>2. result' \in CvstoolStatus
      BY <1>1, <2>5 DEF UpdateNothing, UpdateUnknown, CvstoolStatus
    <3> QED BY <1>3, <2>1, <3>1, <3>2
  <2>6. CASE UpdateDirectory
    <3>1. Fail /\ UNCHANGED <<ventry, result, astray>> BY <2>6 DEF UpdateDirectory
    <3> QED BY <1>1, <1>3, <3>1
  <2> QED BY <1>5, <2>1, <2>2, <2>3, <2>4, <2>5, <2>6, Zenon DEF Update
<1> QED BY <1>4, <1>5 DEF Daemon

LEMMA TypesAtFirst == ASSUME Init PROVE ToolTypes
<1>1. /\ ventry = [p \in Name |-> [ver |-> Loaded[p], tag |-> None]]
      /\ socket = <<>> /\ calls = 0 /\ result = "OK" /\ serving = TRUE /\ astray = FALSE
  BY DEF Init
<1>2. CallsOwn BY CallsOwnAtFirst
<1>3. \A c \in Client : call[c].waiting = FALSE BY DEF Init, Unused
<1>4. MaxCalls \in Nat /\ MaxQueue \in Nat BY PathAssumption
<1>5. \A p \in Name : p \in Responses(p) BY DEF Responses
<1>6. Held BY <1>1, <1>5 DEF Held
<1>7. socket \in Seq(Requests) /\ Len(socket) = 0 BY <1>1
<1>8. \A c \in Client : /\ call[c].xid \in 0..calls /\ call[c].waiting \in BOOLEAN
                        /\ call[c].waiting => call[c].reply = None
  BY <1>2 DEF CallsOwn
<1>9. calls \in 0..MaxCalls /\ Len(socket) <= MaxQueue BY <1>1, <1>4, <1>7
<1>10. result \in CvstoolStatus /\ serving \in BOOLEAN /\ astray \in BOOLEAN
  BY <1>1 DEF CvstoolStatus
<1>11. TypeOK BY <1>6, <1>7, <1>8, <1>9, <1>10 DEF TypeOK
<1> QED BY <1>2, <1>3, <1>11 DEF ToolTypes

-----------------------------------------------------------------------------
(* The theorems. *)

LEMMA ToolInvHolds == Spec => []ToolInv
<1>1. Init => ToolInv
  <2>1. SUFFICES ASSUME Init PROVE ToolInv OBVIOUS
  <2>2. DOMAIN ventry = Name /\ socket = <<>> /\ calls = 0 /\ astray = FALSE
    BY <2>1 DEF Init
  <2>3. call = [c \in Client |-> call[c]] /\ \A c \in Client : call[c] = Unused
    BY <2>1 DEF Init
  <2>4. CallsOwn BY <2>1, CallsOwnAtFirst
  <2>5. DOMAIN socket = {} /\ socket \in Seq({}) BY <2>2
  <2>6. Copies BY <2>5 DEF Copies
  <2>7. \A c \in Client : call[c].reply = None BY <2>3 DEF Unused
  <2> QED BY <2>2, <2>4, <2>6, <2>7 DEF ToolInv, Settled
<1>2. ToolInv /\ [Next]_vars => ToolInv'
  <2>1. SUFFICES ASSUME ToolInv, [Next]_vars PROVE ToolInv' OBVIOUS
  <2>2. CASE Users BY <2>1, <2>2, CallKeeps, GiveUpKeeps DEF Users
  <2>3. CASE Network BY <2>1, <2>3, LossKeeps, RetransmitKeeps DEF Network
  <2>4. CASE Daemon BY <2>1, <2>4, LsKeeps, LsverKeeps, UpdateKeeps DEF Daemon
  <2>5. CASE UNCHANGED vars
    BY <2>1, <2>5 DEF ToolInv, CallsOwn, Copies, Settled, NothingOlder, vars
  <2> QED BY <2>1, <2>2, <2>3, <2>4, <2>5 DEF Next
<1> QED BY <1>1, <1>2, PTL DEF Spec

\* Every ventry holds the revision that was loaded, or a number that cvs status
\* -v lists for the same name (of a branch, perhaps), or for another name once
\* an answer went astray; and a tag that some user gave. A user who waits has
\* no reply yet.
THEOREM ToolTypeCorrect == Spec => []TypeOK
<1>1. Init => ToolTypes BY TypesAtFirst
<1>2. ToolTypes /\ [Next]_vars => ToolTypes'
  <2>1. SUFFICES ASSUME ToolTypes, [Next]_vars PROVE ToolTypes' OBVIOUS
  <2>2. CASE Users BY <2>1, <2>2, CallTypes, GiveUpTypes DEF Users
  <2>3. CASE Network BY <2>1, <2>3, LossTypes, RetransmitTypes DEF Network
  <2>4. CASE Daemon BY <2>1, <2>4, DaemonTypes
  <2>5. CASE UNCHANGED vars
    <3>1. Held' /\ astray' \in BOOLEAN BY <2>1, <2>5, HeldStill DEF vars
    <3> QED BY <2>1, <2>5, <3>1 DEF ToolTypes, TypeOK, Requests, CallsOwn, vars
  <2> QED BY <2>1, <2>2, <2>3, <2>4, <2>5 DEF Next
<1>3. ToolTypes => TypeOK BY DEF ToolTypes
<1> QED BY <1>1, <1>2, <1>3, PTL DEF Spec

\* The only user who updates a file, and was told that an update to a tag was
\* successful, has the file at that tag until its next command, whatever is sent
\* twice, lost or answered late (cvstool_update_1). Its revision is that of the
\* first line in which the tag occurs, of the answer that was read.
THEOREM UpdatesStand == Spec => []SuccessStands
<1>1. ToolInv => SuccessStands
  <2>1. SUFFICES ASSUME ToolInv, NEW c \in Client, Successful(c), TagUpdate(c),
                        Alone(c, call[c].command.path)
                 PROVE  AtTag(ventry, astray, call[c].command)
    BY DEF SuccessStands, AtTag, Responses
  <2>2. True(ventry, astray, c, call[c].command, call[c].reply)
    BY <2>1 DEF ToolInv, Settled, Successful
  <2> QED BY <2>1, <2>2 DEF True, Successful, TagUpdate
<1> QED BY <1>1, ToolInvHolds, PTL

\* And what cvstool ls has shown of files that nobody else updates holds until
\* its user's next command (cvstool_ls_1).
THEOREM ListingsStand == Spec => []ListingStands
<1>1. ToolInv => ListingStands
  <2>1. SUFFICES ASSUME ToolInv, NEW c \in Client, Listed(c)
                 PROVE  Shows(ventry, c, call[c].reply.lines)
    BY DEF ListingStands, Shows
  <2>2. True(ventry, astray, c, call[c].command, call[c].reply)
    BY <2>1 DEF ToolInv, Settled, Listed
  <2> QED BY <2>1, <2>2 DEF True, Listed
<1> QED BY <1>1, ToolInvHolds, PTL
=============================================================================
