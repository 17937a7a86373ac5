-------------------------------- MODULE CvsLog --------------------------------
(***************************************************************************)
(* cvs_get_log_info (cvs_cmds.c) and the three callers that read a log     *)
(* with it: vcfs_validate_version for a name like foo.c,1.3, cvstool lsver *)
(* and, for ls -l, cvstool_get_author_date.                                *)
(*                                                                         *)
(* A log is a sequence of lines.  Of a line the model keeps what the       *)
(* parser looks at: whether it begins with "M revision", what follows its  *)
(* second space, whether it begins with "M date:" and of which revision    *)
(* that is the date and author.  Users write log messages as they like,    *)
(* and paste logs into them.                                               *)
(***************************************************************************)
EXTENDS Integers, Sequences, SequencesExt

CONSTANTS
    Char,       \* the characters of what follows "revision "
    Tab,        \* the one between a locked revision and "locked by"
    VerLen,     \* VCFS_VER_LEN, how much of a revision is kept (16)
    History,    \* what the server may know of a file, see LogAssumption
    None        \* no text, no date

Text == Seq(Char)

Line == [kind : {"revision", "total", "date", "other"},
         text : Text \cup {None},  \* after the second space
         of : Text \cup {None},    \* whose date and author, None: not both
         ok : BOOLEAN]             \* do its last characters read "ok"?

\* A file has a description and revisions, each with the lines of its message.
\* A user's line that begins with "date:" may be of any revision or of none.
Written == {l \in Line : /\ l.kind \in {"revision", "date", "other"}
                         /\ l.kind # "date" => l.of = None}

Revision == [ver : Text \ {<<>>}, locked : BOOLEAN, message : Seq(Written)]

ASSUME LogAssumption ==
    /\ Tab \in Char /\ None \notin Text
    /\ VerLen \in Nat \ {0}
    /\ History \subseteq [description : Seq(Written), revisions : Seq(Revision)]
    /\ \A h \in History : \A i \in DOMAIN h.revisions :
          ~Contains(h.revisions[i].ver, Tab)

VARIABLES
    history,  \* what the server knows of the file
    caller,   \* "validate", "lsver", "previous" (lsver -p) or "author" (ls -l)
    asked,    \* the revision that the caller asks for
    log,      \* the lines that are left to read
    found,    \* the entries that were read
    stage,    \* "read", "done", "crashed" or "undefined"
    cut       \* history: was the answer taken for complete too early?

logvars == <<history, caller, asked, log, found, stage, cut>>

-----------------------------------------------------------------------------
(* What the server sends. *)

LineOf(kind, text, of) == [kind |-> kind, text |-> text, of |-> of, ok |-> FALSE]

Other == LineOf("other", None, None)
OkLine == [Other EXCEPT !.ok = TRUE]
RevisionLine(r) ==
    LineOf("revision", IF r.locked THEN Append(r.ver, Tab) ELSE r.ver, None)
DateLine(r) == LineOf("date", None, r.ver)

\* A line between dashes, then the revision, its date and its message.
RevisionLines(r) == <<Other, RevisionLine(r), DateLine(r)>> \o r.message

\* "M total revisions: 3; selected revisions: 3"
TotalLine == LineOf("total", <<>>, None)

LogLines(h, revisions) ==
    <<Other, TotalLine>> \o h.description
        \o FlattenSeq([i \in DOMAIN revisions |-> RevisionLines(revisions[i])])
        \o <<Other, OkLine>>

\* "cvs log -r1.3" lists that revision alone.
Sent(h, c, v) ==
    LogLines(h, IF c = "author" THEN <<CHOOSE r \in ToSet(h.revisions) : r.ver = v>>
                ELSE h.revisions)

Versions(h) == {h.revisions[i].ver : i \in DOMAIN h.revisions}

\* A caller has its answer, whole or up to a line that ends in "ok".  ls -l asks
\* for the loaded revision; a client may ask for anything, "foo.c," included.
LogInit ==
    /\ history \in History
    /\ caller \in {"validate", "lsver", "previous", "author"}
    /\ asked \in (IF caller = "author" THEN Versions(history)
                  ELSE {<<>>} \cup UNION {Versions(h) : h \in History})
    /\ \E n \in DOMAIN Sent(history, caller, asked) :
          /\ Sent(history, caller, asked)[n].ok
          /\ log = SubSeq(Sent(history, caller, asked), 1, n)
          /\ cut = (n < Len(Sent(history, caller, asked)))
    /\ found = <<>> /\ stage = "read"

-----------------------------------------------------------------------------
(* cvs_get_log_info. *)

\* Fault: "revision" is looked for anywhere in the line.
IsRevision_Anywhere(line) == line.kind \in {"revision", "total"}

\* strncmp(line, "M revision", 10)
IsRevision(line) == line.kind = "revision"

\* Fault: one character less is kept, to leave room for the terminator.
Kept_Terminated(text) == IF Len(text) < VerLen THEN text ELSE SubSeq(text, 1, VerLen - 1)

\* What is copied of the text after the second space.  The newline whose place
\* would give its length is gone, so it is sixteen characters or the whole text.
Kept(text) == IF Len(text) <= VerLen THEN text ELSE SubSeq(text, 1, VerLen)

\* Faults: the date is looked for further down; it is compared without the "M ".
DateOf_FurtherDown(lines) ==
    IF \E i \in DOMAIN lines : lines[i].kind = "date"
    THEN lines[CHOOSE i \in DOMAIN lines :
                  /\ lines[i].kind = "date"
                  /\ \A j \in 1..(i - 1) : lines[j].kind # "date"].of
    ELSE None

DateOf_Bare(lines) == None

\* The line after the revision is the one with date and author, or it is not.
DateOf(lines) == IF lines[1].kind = "date" THEN lines[1].of ELSE None

NextLine == stage = "read" /\ log # <<>>

\* Only cvstool_get_author_date passes no place for the revision.
WantsVersion == caller # "author"

SkipLine ==
    /\ NextLine /\ ~IsRevision(log[1])
    /\ log' = Tail(log)
    /\ UNCHANGED <<history, caller, asked, found, stage, cut>>

\* There is no second space: strchr returns NULL, and strncpy reads from 1.
NoSpace ==
    /\ NextLine /\ IsRevision(log[1])
    /\ WantsVersion /\ log[1].text = None
    /\ stage' = "crashed"
    /\ UNCHANGED <<history, caller, asked, log, found, cut>>

\* There is no next line: the one that was freed is read and freed again.
Torn ==
    /\ NextLine /\ IsRevision(log[1])
    /\ WantsVersion => log[1].text # None
    /\ Len(log) = 1
    /\ stage' = "undefined"
    /\ UNCHANGED <<history, caller, asked, log, found, cut>>

\* The next line begins with "date:" and has no semicolon: strchr returns NULL,
\* and is called again from 1.
NoSemicolon ==
    /\ NextLine /\ IsRevision(log[1])
    /\ WantsVersion => log[1].text # None
    /\ Len(log) > 1 /\ log[2].kind = "date" /\ log[2].of = None
    /\ stage' = "crashed"
    /\ UNCHANGED <<history, caller, asked, log, found, cut>>

\* cvstool_get_author_date calls once, lsver -p stops at the second entry.
Enough(entries) ==
    caller = "author" \/ (caller = "previous" /\ Len(entries) = 2)

\* lsver and ls -l reply with the date and the author, set or not.
Replied(entries) ==
    CASE caller = "validate" -> <<>>
      [] caller = "previous" -> IF entries = <<>> THEN <<>> ELSE <<Last(entries)>>
      [] OTHER -> entries

Unset(entries) ==
    \/ caller = "author" /\ entries = <<>>
    \/ \E i \in DOMAIN Replied(entries) : Replied(entries)[i].date = None

Reply(entries) == stage' = IF Unset(entries) THEN "undefined" ELSE "done"

\* A date line with one semicolon has a date and no author: no date, here.
Entry ==
    /\ NextLine /\ IsRevision(log[1])
    /\ WantsVersion => log[1].text # None
    /\ Len(log) > 1
    /\ found' = Append(found,
                  [ver |-> IF WantsVersion THEN Kept(log[1].text) ELSE asked,
                   date |-> DateOf(Tail(log))])
    /\ log' = SubSeq(log, 3, Len(log))
    /\ IF Enough(found') THEN Reply(found') ELSE UNCHANGED stage
    /\ UNCHANGED <<history, caller, asked, cut>>

LogEnd ==
    /\ stage = "read" /\ log = <<>>
    /\ Reply(found)
    /\ UNCHANGED <<history, caller, asked, log, found, cut>>

LogNext == SkipLine \/ NoSpace \/ Torn \/ NoSemicolon \/ Entry \/ LogEnd

LogSpec == LogInit /\ [][LogNext]_logvars

\* vcfs_validate_version: is one of the entries the revision asked for?
Valid == \E i \in DOMAIN found : found[i].ver = asked

-----------------------------------------------------------------------------
(* Properties. *)

\* What users wrote: the description and the messages, and their lines.
Messages(h) == {h.description} \cup {h.revisions[i].message : i \in DOMAIN h.revisions}

WrittenLines(h) == UNION {ToSet(m) : m \in Messages(h)}

\* A line that begins with "revision" and one that begins with "date:" after it,
\* as a log has them that somebody pasted into a message.
Pasted(h) ==
    {p \in WrittenLines(h) \X WrittenLines(h) :
        /\ p[1].kind = "revision" /\ p[2].kind = "date"
        /\ \E m \in Messages(h) : \E i \in 1..(Len(m) - 1) : p = <<m[i], m[i + 1]>>}

\* Nobody wrote a line that begins with "revision".
Ordinary(h) == \A l \in WrittenLines(h) : l.kind # "revision"

Unlocked(h) == {h.revisions[i].ver : i \in {j \in DOMAIN h.revisions : ~h.revisions[j].locked}}

\* What stands after "revision" in such lines.
Quoted(h) == {l.text : l \in {m \in WrittenLines(h) : m.kind = "revision"}} \ {None}

\* A revision of the file that nobody has locked can be looked up, whatever
\* users write in their messages, if the number fits and the log is all there;
\* and what can be looked up is a revision, or somebody wrote "revision" and
\* just that number, or it is what is kept of a longer one
\* (vcfs_validate_version).
ValidRight ==
    caller = "validate" /\ stage = "done" =>
        /\ ~cut /\ Len(asked) <= VerLen /\ asked \in Unlocked(history) => Valid
        /\ Valid => \/ asked \in Unlocked(history)
                    \/ asked \in Quoted(history)
                    \/ \E v \in Versions(history) \cup Quoted(history) :
                          Len(v) >= VerLen /\ asked = SubSeq(v, 1, VerLen)

\* A revision is listed with its own date and author, or with what somebody
\* pasted as its date and author right behind a line that begins with
\* "revision"; with no other one's, whatever else the messages look like and
\* wherever the log was cut (cvs_get_log_info).
DatesOwn ==
    \A i \in DOMAIN found :
        found[i].date # None =>
            \/ \E r \in ToSet(history.revisions) :
                  /\ found[i].date = r.ver
                  /\ WantsVersion => found[i].ver = Kept(RevisionLine(r).text)
                  /\ ~WantsVersion => found[i].ver = r.ver
            \/ \E p \in Pasted(history) :
                  /\ found[i].date = p[2].of
                  /\ WantsVersion => found[i].ver = Kept(p[1].text)

\* With an ordinary log, whole, and no revision locked or too long, lsver lists
\* all revisions, latest first, and lsver -p the second one.
LsverExact ==
    stage = "done" /\ caller \in {"lsver", "previous"} /\ ~cut /\ Ordinary(history)
    /\ (\A r \in ToSet(history.revisions) : ~r.locked /\ Len(r.ver) <= VerLen) =>
        LET all == [i \in DOMAIN history.revisions |->
                        [ver |-> history.revisions[i].ver,
                         date |-> history.revisions[i].ver]] IN
        Replied(found) =
            IF caller = "lsver" THEN all
            ELSE IF Len(all) > 1 THEN <<all[2]>> ELSE all

\* The parser reads nothing that was freed and replies with nothing that was
\* not set, unless somebody wrote a line that begins with "revision" or the log
\* was cut.
OrdinaryIsSafe ==
    stage \in {"crashed", "undefined"} => cut \/ ~Ordinary(history)
=============================================================================
