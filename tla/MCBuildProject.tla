---------------------------- MODULE MCBuildProject ----------------------------
(***************************************************************************)
(* Instances of BuildProject for TLC: the project of MCFileTable, checked  *)
(* out at either revision of mod/top/f.  That file contains a line that    *)
(* looks like a directory and a line "ok", or is empty; the other one ends *)
(* with a line that looks like a file, and its name ends in "ok".  There   *)
(* is a message in the checkout, long or short, or none.                   *)
(***************************************************************************)
EXTENDS BuildProject, MCFileTable

Dir == Append(DeepTop, E("d"))
File == Append(DeepTop, E("f"))
Deep == Append(Dir, E("g"))

Plain == [type |-> "x", path |-> <<>>, ver |-> NoVersion, sent |-> 0, full |-> 0,
          gz |-> FALSE, ok |-> FALSE]
Naming(type, p) == [Plain EXCEPT !.type = type, !.path = p, !.ok = (p = Deep)]

\* Bytes of files.
FakeDir == Naming("E", Append(Dir, E("f")))
FakeFile == Naming("M", File)
FakeOk == [Plain EXCEPT !.type = "ok", !.ok = TRUE]

DirItem(p) == <<Naming("E", p)>>
Message == <<Naming("E", <<E("note")>>)>>
ShortMessage == <<[Plain EXCEPT !.type = "short"]>>

FileItem(p, v, full, gz, bytes) ==
    <<Naming("M", p), [Plain EXCEPT !.type = "created"], Naming("repo", p),
      [Plain EXCEPT !.type = "entry", !.ver = v], [Plain EXCEPT !.type = "mode"],
      [Plain EXCEPT !.type = "size", !.sent = Len(bytes), !.full = full, !.gz = gz]>>
    \o bytes

\* A gzipped file that is longer than it was, one that is shorter, an empty one
\* and one that is sent as it is.
DeepItem == FileItem(Deep, "r1", 1, TRUE, <<FakeOk, FakeFile>>)

\* The response with these items.
Laid(items) ==
    [text |-> FlattenSeq(items),
     begin |-> [k \in 1..(Len(items) + 1) |->
                   1 + Len(FlattenSeq(SubSeq(items, 1, k - 1)))]]

MCResponse ==
    {Laid(<<FileItem(File, "r1", 0, FALSE, <<>>), Message, DirItem(Dir), DeepItem>>),
     Laid(<<FileItem(File, "r2", 2, TRUE, <<FakeDir>>), DirItem(Dir), DeepItem>>),
     Laid(<<FileItem(File, "r2", 2, FALSE, <<FakeOk, FakeDir>>), DirItem(Dir), ShortMessage, DeepItem>>)}
=============================================================================
