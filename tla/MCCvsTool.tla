------------------------------ MODULE MCCvsTool ------------------------------
(***************************************************************************)
(* A repository for CvsTool: directory "d" with files "f", "g" and "h",    *)
(* and the extended name "f,1.1".  "f" has a revision with tag "rel", and  *)
(* "rel2" and the branch "br" that were made later: the CVS server lists   *)
(* the newest first.  "g" has one tag, and "h" none.                       *)
(***************************************************************************)
EXTENDS CvsTool

MCKind == [p \in {"f", "g", "h"} |-> "file"] @@ ("f,1.1" :> "extended") @@ ("d" :> "dir")
MCListing == "d" :> <<"f", "g", "h">>
MCLoaded == "f" :> "1.3" @@ "g" :> "1.2" @@ "h" :> "1.1" @@ "f,1.1" :> "1.1"

Revision(t, n) == [text |-> t, number |-> n]
End == [text |-> "ok", number |-> None]
MCLines ==
    "f" :> <<Revision("rel2", "1.2"), Revision("br", "1.1.2"), Revision("rel", "1.1"), End>>
    @@ "g" :> <<Revision("rel", "1.1"), End>>
    @@ "h" :> <<[text |-> "No Tags Exist", number |-> None], End>>
    @@ "f,1.1" :> <<>>

MCFound ==
    {<<"rel", "rel">>, <<"rel", "rel2">>, <<"rel2", "rel2">>, <<"br", "br">>,
     <<"o", "ok">>, <<"o", "No Tags Exist">>}
        \cup {<<"o", t>> : t \in {"rel2", "br", "rel"}}   \* as in "(revision: 1.2)"

\* A command line: command, option and path, and what the option names.
Cmd(op, opt, p) == [op |-> op, opt |-> opt, path |-> p, tag |-> None, ver |-> ""]
ToTag(t, p) == [Cmd("update", "tag", p) EXCEPT !.tag = t]
ToVersion(v, p) == [Cmd("update", "ver", p) EXCEPT !.ver = v]

\* Each user updates files of its own.  "br" is no tag of "g"; the text "o" is
\* in every line, also in those without a number.
MCCommands ==
    "a" :> {ToTag("rel", "f"), ToTag("rel2", "f"), Cmd("ls", "none", "f"),
            ToTag("rel", NoPath), ToTag("rel", "f,1.1"), ToTag("rel", "x"),
            Cmd("lsver", "none", "f,1.1"), Cmd("ls", "long", "d")}
    @@ "b" :> {ToTag("rel", "g"), ToTag("br", "g"), ToVersion("1.2", "g"),
               ToTag("o", "h"), ToTag("rel", "d"), Cmd("lsver", "pre", "f"),
               Cmd("ls", "none", "f,1.1")}
=============================================================================
