------------------------------- MODULE CvsResp -------------------------------
(***************************************************************************)
(* cvs_get_resp (cvs_cmds.c): how vcfsd takes the answers of the CVS       *)
(* server off the one connection it has.  How long an answer is the daemon *)
(* does not know: it stops when what it received last ends in "ok\n".      *)
(*                                                                         *)
(* The text of an answer is abstracted to the four symbols that the test   *)
(* for its end tells apart: "o", "k", "n" (newline) and "x".               *)
(***************************************************************************)
EXTENDS Integers, Sequences, SequencesExt

CONSTANTS
    Response,    \* the answers the server may give; an error has no "ok\n"
    ReadSize,    \* CVS_READ_SIZE, the most that one recv takes (8192)
    BuffSize,    \* CVS_BUFF_SIZE, the first size of the buffer (64 * 1024)
    MaxBacklog   \* bound of the model on unread text when a request is sent

Symbol == {"o", "k", "n", "x"}
Text == Seq(Symbol)
Ok == <<"o", "k", "n">>

ASSUME ResponseAssumption ==
    \A r \in Response : r \in Text /\ r # <<>>

ASSUME BufferAssumption ==
    /\ ReadSize \in Nat \ {0} /\ BuffSize \in Nat
    /\ ReadSize < BuffSize
    /\ MaxBacklog \in Nat

VARIABLES
    phase,    \* "ready", "reading", how the last call ended, or "crashed"
    checks,   \* does the caller test the answer against NULL?
    answer,   \* what the server answers to the request
    outbox,   \* text the server has still to send
    wire,     \* text that arrived and was not received
    conn,     \* the connection: "open", "closed" or "reset" by the server
    buff,     \* the cvs_buff: its text
    limit,    \* and its size
    clean     \* history: the request found nothing left over from earlier
              \* ones, and what was received since ended with lines

vars == <<phase, checks, answer, outbox, wire, conn, buff, limit, clean>>
server == <<answer, outbox, conn>>

Init ==
    /\ phase = "ready" /\ checks = FALSE
    /\ answer = <<>> /\ outbox = <<>> /\ wire = <<>> /\ conn = "open"
    /\ buff = <<>> /\ limit = BuffSize
    /\ clean = TRUE

-----------------------------------------------------------------------------
(* The server and the network. *)

\* The first n symbols of what the server has to send arrive.
Deliver(n) ==
    /\ conn = "open"
    /\ wire' = wire \o SubSeq(outbox, 1, n)
    /\ outbox' = SubSeq(outbox, n + 1, Len(outbox))
    /\ UNCHANGED <<phase, checks, answer, conn, buff, limit, clean>>

\* Segments end where lines end.
DeliverLines == \E n \in 1..Len(outbox) : outbox[n] = "n" /\ Deliver(n)

\* Segments end anywhere.
DeliverAny == \E n \in 1..Len(outbox) : Deliver(n)

\* The server ends and closes the connection, or is gone altogether.
Close ==
    /\ conn = "open"
    /\ conn' = "closed" /\ outbox' = <<>>
    /\ UNCHANGED <<phase, checks, answer, wire, buff, limit, clean>>

Reset ==
    /\ conn = "open"
    /\ conn' = "reset" /\ outbox' = <<>> /\ wire' = <<>>
    /\ UNCHANGED <<phase, checks, answer, buff, limit, clean>>

-----------------------------------------------------------------------------
(* The daemon. *)

\* Fault: the text of the call before stays in the buffer.
Request_KeepBuffer(r, c) ==
    /\ phase \in {"ready", "complete", "null"}
    /\ conn = "open"
    /\ Len(wire) + Len(outbox) <= MaxBacklog
    /\ phase' = "reading" /\ checks' = c
    /\ answer' = r /\ outbox' = outbox \o r
    /\ clean' = (wire = <<>> /\ outbox = <<>>)
    /\ UNCHANGED <<wire, conn, buff, limit>>

\* A caller sends a request, and cvs_get_resp takes a new buffer.  Some
\* callers compare what it returns with NULL, the others use it as it is.
Request(r, c) ==
    /\ phase \in {"ready", "complete", "null"}
    /\ conn = "open"
    /\ Len(wire) + Len(outbox) <= MaxBacklog
    /\ phase' = "reading" /\ checks' = c
    /\ answer' = r /\ outbox' = outbox \o r
    /\ buff' = <<>> /\ limit' = BuffSize
    /\ clean' = (wire = <<>> /\ outbox = <<>>)
    /\ UNCHANGED <<wire, conn>>

\* Fault: every line ends the answer.
check_ok_AnyLine(seg) == {Last(seg) = "n"}

\* The outcomes of cvs_check_ok on the n symbols received last: with one or
\* two of them it reads in front of the array it is given.
check_ok(seg) ==
    IF Len(seg) >= 3 THEN {IsSuffix(Ok, seg)}
    ELSE IF IsSuffix(seg, Ok) THEN BOOLEAN ELSE {FALSE}

\* Faults: the buffer is cut to what is in it; it is left as it is when it
\* becomes exactly full.
ensure_buff_Cut(n) == IF Len(buff) + n >= limit THEN 2 * limit ELSE Len(buff) + n + 1

ensure_buff_Full(n) == IF Len(buff) + n > limit THEN 2 * limit ELSE limit

ensure_buff(n) == IF Len(buff) + n >= limit THEN 2 * limit ELSE limit

\* poll reports that there is something, and recv takes what there is.
Received == IF Len(wire) < ReadSize THEN Len(wire) ELSE ReadSize

Recv ==
    /\ phase = "reading" /\ wire # <<>>
    /\ LET seg == SubSeq(wire, 1, Received) IN
       /\ limit' = ensure_buff(Received)
       /\ buff' = buff \o seg
       /\ wire' = SubSeq(wire, Received + 1, Len(wire))
       /\ \E ok \in check_ok(seg) : phase' = IF ok THEN "complete" ELSE "reading"
       /\ clean' = (clean /\ Last(seg) = "n")
    /\ UNCHANGED <<checks, server>>

\* Fault: poll is given a time limit for the first segment only.
Timeout_FirstOnly ==
    /\ phase = "reading" /\ wire = <<>> /\ conn = "open" /\ buff = <<>>
    /\ phase' = IF checks THEN "null" ELSE "crashed"
    /\ UNCHANGED <<checks, server, wire, buff, limit, clean>>

\* poll waits for ten seconds in vain.  The buffer is freed and NULL returned,
\* which the caller checks or dereferences.
Timeout ==
    /\ phase = "reading" /\ wire = <<>> /\ conn = "open"
    /\ phase' = IF checks THEN "null" ELSE "crashed"
    /\ buff' = <<>> /\ limit' = BuffSize
    /\ UNCHANGED <<checks, server, wire, clean>>

\* recv returns 0 at the end of the connection: nothing is appended, and the
\* loop goes on.
RecvEnd ==
    /\ phase = "reading" /\ wire = <<>> /\ conn = "closed"
    /\ UNCHANGED vars

\* recv returns -1, which memcpy takes for a very large size.
RecvError ==
    /\ phase = "reading" /\ conn = "reset"
    /\ phase' = "crashed"
    /\ UNCHANGED <<checks, server, wire, buff, limit, clean>>

-----------------------------------------------------------------------------

RequestAny == \E r \in Response : \E c \in BOOLEAN : Request(r, c)

\* A server that sends lines, and may be late with them.
TardyNext == RequestAny \/ DeliverLines \/ Recv \/ Timeout

\* A network that cuts the text anywhere.
LateNext == RequestAny \/ DeliverAny \/ Recv \/ Timeout

\* And a server that may go away.
FailingNext == LateNext \/ Close \/ Reset \/ RecvEnd \/ RecvError

TardySpec == Init /\ [][TardyNext]_vars

FailingSpec ==
    /\ Init /\ [][FailingNext]_vars
    /\ WF_vars(Recv) /\ WF_vars(Timeout) /\ WF_vars(RecvEnd) /\ WF_vars(RecvError)

-----------------------------------------------------------------------------
(* Properties. *)

TypeOK ==
    /\ phase \in {"ready", "reading", "complete", "null", "crashed"}
    /\ checks \in BOOLEAN
    /\ answer \in Response \cup {<<>>}
    /\ outbox \in Text /\ wire \in Text /\ buff \in Text
    /\ conn \in {"open", "closed", "reset"}
    /\ limit \in Nat /\ limit >= BuffSize
    /\ clean \in BOOLEAN

\* memcpy always stays inside the buffer, although cvs_ensure_buff doubles it
\* only once for a segment, and the buffer is doubled only when it is needed:
\* at least half of a grown buffer is in use.
BufferFits ==
    /\ Len(buff) < limit
    /\ limit # BuffSize => 2 * Len(buff) >= limit

\* When a request finds nothing left over from an earlier one and no segment
\* ends inside a line, the loop ends when all of the answer to this request is
\* there, no sooner and no later, and leaves nothing behind that the next
\* request would read, whatever happened to the requests before.
OwnResponse ==
    clean =>
        /\ phase = "reading" =>
              IsPrefix(buff, answer) /\ ~(buff = answer /\ IsSuffix(Ok, answer))
        /\ phase = "complete" => buff = answer /\ wire = <<>> /\ outbox = <<>>

\* "a malloc'ed cvs_buff containing the entire response" (cvs_cmds.c:99), with
\* no condition.
EntireResponse == phase = "complete" => buff = answer

\* Each request comes to an end, well or badly, as long as the server is there:
\* until then the daemon, which has one thread, serves nobody.
RequestEnds == phase = "reading" ~> phase # "reading" \/ conn = "closed"

\* The loop hands out what the server sends in order, nothing twice and nothing
\* but what a call that failed had received lost, whatever the network does: it
\* implements the stream that Connection describes.
Stream ==
    INSTANCE Connection WITH
        Answer <- Response,
        waiting <- phase = "reading",
        owed <- IF phase = "reading" THEN buff \o wire \o outbox
                ELSE wire \o outbox,
        given <- IF phase = "complete" THEN buff ELSE <<>>

ImplementsConnection == Stream!Spec
=============================================================================
