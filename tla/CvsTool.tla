------------------------------- MODULE CvsTool -------------------------------
(***************************************************************************)
(* The cvstool service of vcfsd (cvstool_proc.c) and the cvstool program   *)
(* (cvstool.c) that calls it over UDP: a call that is not answered in time *)
(* is sent again, so the daemon may carry out a request more than once, in *)
(* whatever order the copies arrived, and an answer may find nobody        *)
(* waiting for it any more.                                                *)
(***************************************************************************)
EXTENDS Integers, Sequences, SequencesExt

CONSTANTS
    Client,     \* the users who run cvstool
    Kind,       \* path |-> "file", "extended" or "dir", for the known paths
    Listing,    \* directory |-> sequence of its files, in dirent order
    Loaded,     \* name |-> the revision that is loaded
    Lines,      \* name |-> the lines of cvs status -v behind "Existing Tags:"
    Found,      \* the pairs <<t, text>> where tag t occurs in the text of a line
    None,       \* no tag, no command, or no reply
    Commands,   \* client |-> the commands its user gives
    MaxCalls,   \* bound of the model on the commands given
    MaxQueue    \* bound of the model on the requests in the daemon's socket

Path == DOMAIN Kind
File == {p \in Path : Kind[p] = "file"}
Name == {p \in Path : Kind[p] # "dir"}

\* The revisions and branches that cvs status -v shows of a name. A line is a
\* record of its text, and of the number between ": " and ")" in it, which is
\* None where there is no tag in the line ("No Tags Exist", the final "ok").
Numbers(p) == {Lines[p][i].number : i \in DOMAIN Lines[p]} \ {None}

NoPath == ""   \* cvstool update without a file name

ASSUME PathAssumption ==
    /\ NoPath \notin Path
    /\ \A p \in Path : Kind[p] \in {"file", "extended", "dir"}
    /\ \A p \in Path : Kind[p] = "dir" => Listing[p] \in Seq(File)
    /\ DOMAIN Loaded = Name /\ DOMAIN Lines = Name
    /\ \A p \in Name : Lines[p] \in Seq(ToSet(Lines[p]))
    /\ MaxCalls \in Nat /\ MaxQueue \in Nat

VARIABLES
    ventry,   \* name |-> the revision (or branch) and tag in its ventry
    result,   \* status in the static result of cvstool_update_1
    serving,  \* FALSE when the daemon hangs in an ASSERT or crashed
    astray,   \* TRUE once the CVS server has not answered in time: what it sends
              \* later is taken for the answer to another request
    socket,   \* requests that arrived and were not read
    call,     \* client |-> its last call
    calls     \* calls made so far; the number of a call identifies it

vars == <<ventry, result, serving, astray, socket, call, calls>>

\* No call, or one that is over.
Unused == [xid |-> 0, waiting |-> FALSE, command |-> None, reply |-> None]

Init ==
    /\ ventry = [p \in Name |-> [ver |-> Loaded[p], tag |-> None]]
    /\ result = "OK"
    /\ serving = TRUE
    /\ astray = FALSE
    /\ socket = <<>>
    /\ call = [c \in Client |-> Unused]
    /\ calls = 0

-----------------------------------------------------------------------------
(* cvstool, and the RPC library below it. *)

Request(c) == [client |-> c, xid |-> call'[c].xid, command |-> call'[c].command]

\* cvstool_do_ls, cvstool_do_lsver, cvstool_do_update.
Call(c, m) ==
    /\ ~call[c].waiting
    /\ calls < MaxCalls /\ Len(socket) < MaxQueue
    /\ calls' = calls + 1
    /\ call' = [call EXCEPT ![c] = [xid |-> calls', waiting |-> TRUE,
                                    command |-> m, reply |-> None]]
    /\ socket' = Append(socket, Request(c))
    /\ UNCHANGED <<ventry, result, serving, astray>>

\* There was no answer within five seconds.
Retransmit(c) ==
    /\ call[c].waiting
    /\ Len(socket) < MaxQueue
    /\ call' = call
    /\ socket' = Append(socket, Request(c))
    /\ UNCHANGED <<ventry, result, serving, astray, calls>>

\* There was none within 25 seconds: cvstool prints an error and exits.
GiveUp(c) ==
    /\ call[c].waiting
    /\ call' = [call EXCEPT ![c].waiting = FALSE]
    /\ UNCHANGED <<ventry, result, serving, astray, socket, calls>>

\* A datagram is lost.
LoseRequest ==
    /\ \E i \in DOMAIN socket : socket' = RemoveAt(socket, i)
    /\ UNCHANGED <<ventry, result, serving, astray, call, calls>>

\* The daemon has read the first request and answers it, which reaches the
\* client, or is lost, or comes too late.
Answer(m, reply) ==
    /\ socket' = Tail(socket)
    /\ \/ call' = call
       \/ /\ call[m.client].waiting /\ call[m.client].xid = m.xid
          /\ call' = [call EXCEPT ![m.client].waiting = FALSE,
                                  ![m.client].reply = reply]
    /\ UNCHANGED calls

\* The daemon reads it and never comes back.
Fail ==
    /\ serving' = FALSE
    /\ socket' = Tail(socket)
    /\ UNCHANGED <<call, calls>>

-----------------------------------------------------------------------------
(* The daemon. *)

NextRequest(op) == serving /\ socket # <<>> /\ Head(socket).command.op = op

\* Fault: the revision from the Entries file is shown.
Line_Loaded(f) == [file |-> f, ver |-> Loaded[f], tag |-> ventry[f].tag]

\* What cvstool ls prints of a file.
Line(f) == [file |-> f, ver |-> ventry[f].ver, tag |-> ventry[f].tag]

LsReply(p) ==
    IF p \notin Path \/ Kind[p] = "extended" THEN [status |-> "NOENT"]
    ELSE [status |-> "OK",
          lines |-> IF Kind[p] = "file" THEN <<Line(p)>>
                    ELSE [i \in DOMAIN Listing[p] |-> Line(Listing[p][i])]]

\* The log of a version is asked for only with -l. Where the CVS server does
\* not answer in time, or knows no such file, its missing response is read.
Ls ==
    /\ NextRequest("ls")
    /\ LET m == Head(socket)
           reply == LsReply(m.command.path)
       IN \/ Answer(m, reply) /\ UNCHANGED serving
          \/ m.command.opt = "long" /\ reply.status = "OK" /\ Fail
    /\ UNCHANGED <<ventry, result, astray>>

\* Which versions are listed is a matter of the text of the log: see CvsLog.
LsverReply(p) ==
    IF p \notin Path THEN [status |-> "NOENT"]
    ELSE IF Kind[p] = "dir" THEN [status |-> "FTYPE_MISMATCH"]
    ELSE [status |-> "OK"]

\* The daemon does not survive a missing response, nor a "revision" in a message
\* with too little behind it. There is no log of an extended name; it is
\* answered only if the log of another file comes late.
Lsver ==
    /\ NextRequest("lsver")
    /\ LET m == Head(socket)
           p == m.command.path
       IN \/ /\ p \in Path => Kind[p] # "extended" \/ astray
             /\ Answer(m, LsverReply(p))
             /\ UNCHANGED serving
          \/ p \in Name /\ Fail
    /\ UNCHANGED <<ventry, result, astray>>

\* The lines of the response for a name in which tag t is found, wherever in
\* the line: a tag that contains t, or t in "(revision: 1.2)".
Matches(p, t) == {i \in DOMAIN Lines[p] : <<t, Lines[p][i].text>> \in Found}

First(p, t) ==
    Lines[p][CHOOSE i \in Matches(p, t) : \A j \in Matches(p, t) : i <= j]

\* Fault: the wrong piece of the line is copied.
VersionOf_Name(p, t) == First(p, t).text

\* cvstool_validate_tag: the number in the first of those lines.
VersionOf(p, t) == First(p, t).number

\* The names whose cvs status -v the daemon may be reading when it asked for p.
Responses(p) == IF astray THEN Name ELSE {p}

\* Fault: a failure leaves the status of the previous update.
Status_Kept(m, found) == IF found THEN "OK" ELSE result

\* The status is set only when a tag is given.
Status(m, found) ==
    IF m.command.opt # "tag" THEN result
    ELSE IF found THEN "OK" ELSE "NOTAG"

\* A line with the tag is found, and its number taken.
UpdateToTag(p, m) ==
    /\ m.command.opt = "tag"
    /\ \E q \in Responses(p) :
          /\ Matches(q, m.command.tag) # {} /\ VersionOf(q, m.command.tag) # None
          /\ ventry' = [ventry EXCEPT ![p] = [ver |-> VersionOf(q, m.command.tag),
                                              tag |-> m.command.tag]]
    /\ result' = Status(m, TRUE)
    /\ Answer(m, [status |-> result'])
    /\ UNCHANGED <<serving, astray>>

\* There is none, or no answer in time; or the update is not to a tag, and
\* nothing was asked.
UpdateNotFound(p, m) ==
    /\ \/ m.command.opt # "tag" /\ UNCHANGED astray
       \/ m.command.opt = "tag" /\ astray' = TRUE
       \/ /\ \E q \in Responses(p) : Matches(q, m.command.tag) = {}
          /\ UNCHANGED astray
    /\ result' = Status(m, FALSE)
    /\ Answer(m, [status |-> result'])
    /\ UNCHANGED <<ventry, serving>>

\* "Weird response from cvs status -v": a line with the tag has no number.
UpdateWeird(p, m) ==
    /\ m.command.opt = "tag"
    /\ \E q \in Responses(p) :
          Matches(q, m.command.tag) # {} /\ VersionOf(q, m.command.tag) = None
    /\ Fail
    /\ UNCHANGED <<ventry, result, astray>>

\* No file is named: nothing is done, and the last result returned again.
UpdateNothing(m) ==
    /\ Answer(m, [status |-> result])
    /\ UNCHANGED <<ventry, result, serving, astray>>

UpdateUnknown(m) ==
    /\ result' = "NOENT"
    /\ Answer(m, [status |-> "NOENT"])
    /\ UNCHANGED <<ventry, serving, astray>>

\* The daemon pauses in an ASSERT.
UpdateDirectory == Fail /\ UNCHANGED <<ventry, result, astray>>

Update ==
    /\ NextRequest("update")
    /\ LET m == Head(socket)
           p == m.command.path
       IN \/ /\ p \in Name
             /\ UpdateToTag(p, m) \/ UpdateNotFound(p, m) \/ UpdateWeird(p, m)
          \/ p \in Path \ Name /\ UpdateDirectory
          \/ p = NoPath /\ UpdateNothing(m)
          \/ p \notin Path \cup {NoPath} /\ UpdateUnknown(m)

Users == \E c \in Client : (\E m \in Commands[c] : Call(c, m)) \/ GiveUp(c)

Network == LoseRequest \/ \E c \in Client : Retransmit(c)

Daemon == Ls \/ Lsver \/ Update

Next == Users \/ Network \/ Daemon

Spec == Init /\ [][Next]_vars

-----------------------------------------------------------------------------
(* Properties. *)

Tag == UNION {{m.tag : m \in Commands[c]} : c \in Client}
CvstoolStatus == {"OK", "NOENT", "FTYPE_MISMATCH", "NOTAG"}
Requests == [client : Client, xid : 1..calls,
             command : UNION {Commands[c] : c \in Client}]

\* A ventry holds the revision that was loaded, or a number that cvs status -v
\* lists for the same name: that of a branch, too. It may be another file's once
\* an answer went astray.
Held ==
    /\ DOMAIN ventry = Name
    /\ \A p \in Name :
          /\ \E q \in Responses(p) : ventry[p].ver \in {Loaded[p]} \cup Numbers(q)
          /\ ventry[p].tag \in Tag \cup {None}

\* The table, the static result, the requests and the calls; a user who waits
\* has no reply yet.
TypeOK ==
    /\ Held
    /\ result \in CvstoolStatus
    /\ serving \in BOOLEAN /\ astray \in BOOLEAN
    /\ socket \in Seq(Requests) /\ Len(socket) <= MaxQueue
    /\ calls \in 0..MaxCalls
    /\ \A c \in Client : /\ call[c].xid \in 0..calls
                         /\ call[c].waiting \in BOOLEAN
                         /\ call[c].waiting => call[c].reply = None

\* Nobody but user c updates p.
Alone(c, p) ==
    \A d \in Client \ {c} : \A m \in Commands[d] : m.op = "update" => m.path # p

\* The last call of c is an update that was answered with "Update successful".
Successful(c) ==
    /\ call[c].reply # None /\ call[c].reply.status = "OK"
    /\ call[c].command.op = "update"

TagUpdate(c) == call[c].command.path \in Name /\ call[c].command.opt = "tag"

\* In the response for p, n is the number in the first line in which t is found.
FirstShows(p, t, n) ==
    \E i \in Matches(p, t) : Lines[p][i].number = n /\ \A j \in Matches(p, t) : i <= j

\* Once the only user who updates a file has been told that an update to a tag
\* was successful, the file is at that tag, and stays there until that user
\* gives another command, whatever was sent twice, answered late or given up
\* before (cvstool_update_1 carries out every copy of a request). Its revision
\* is that of the first line of cvs status -v in which the text of the tag
\* occurs, for this file, or for another one once an answer went astray: it need
\* not be the revision which that tag stands for.
SuccessStands ==
    \A c \in Client : Successful(c) /\ TagUpdate(c) =>
        LET p == call[c].command.path
            t == call[c].command.tag
        IN Alone(c, p) =>
              /\ ventry[p].tag = t
              /\ \E q \in Responses(p) : FirstShows(q, t, ventry[p].ver)

\* The last call of c is an ls that was answered.
Listed(c) ==
    /\ call[c].reply # None /\ call[c].reply.status = "OK"
    /\ call[c].command.op = "ls"

\* What cvstool ls has shown the only user who updates a file is what the file
\* is at, until that user gives another command: no copy of an earlier update
\* is carried out after the ls has been answered, as copies are read in the
\* order in which they arrived.
ListingStands ==
    \A c \in Client : Listed(c) =>
        \A i \in DOMAIN call[c].reply.lines :
            LET line == call[c].reply.lines[i] IN
            Alone(c, line.file) =>
                line.ver = ventry[line.file].ver /\ line.tag = ventry[line.file].tag
=============================================================================
