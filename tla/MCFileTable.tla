----------------------------- MODULE MCFileTable -----------------------------
(***************************************************************************)
(* Instances of FileTable for TLC: a module "mod/top" with a file and a    *)
(* directory in it, a file in the directory or none, and a message of the  *)
(* checkout or none.  The log of the file in the directory quotes a        *)
(* revision that the file does not have.                                   *)
(***************************************************************************)
EXTENDS FileTable

\* Character sums of the components.  With three buckets the sums of mod/top/d
\* and mod/top/d/g,r1 are multiples of the length of the table, and no bucket
\* has one name only.
Weight == [x \in {"mod", "top", "d", "f", "g", "note", "r1", "r2"} |->
    CASE x = "mod" -> 1 [] x = "top" -> 2 [] x = "d" -> 4 [] x = "f" -> 3
      [] x = "g" -> 6 [] x = "note" -> 2 [] x = "r1" -> 1 [] x = "r2" -> 2]

Slash == 1
Comma == 1

EntrySum(e) ==
    Weight[e.base] + IF e.ver = NoVersion THEN 0 ELSE Comma + Weight[e.ver]

PathSum(p) ==
    FoldLeftDomain(LAMBDA sum, n : sum + EntrySum(p[n]) + IF n = 1 THEN 0 ELSE Slash, 0, p)

PathSums == [p \in HashedNames |-> PathSum(p)]
MCCharSum(p) == PathSums[p]

E(x) == [base |-> x, ver |-> NoVersion]

DeepTop == <<E("mod"), E("top")>>

In(m) == {Append(m, E("d"))}
SizesOf(m, r1, r2) ==
    Append(m, E("f")) :> [v \in {"r1", "r2"} |-> IF v = "r1" THEN r1 ELSE r2]
TwoFiles(m) ==
    SizesOf(m, 0, 2) @@
    (m \o <<E("d"), E("g")>> :> [v \in {"r1"} |-> 1])

OneFileRepo == SizesOf(DeepTop, 1, 2)
DeepDirs == In(DeepTop)
DeepRepo == TwoFiles(DeepTop)
DeepFile == {Append(DeepTop, E("f"))}

NoMessages == {}
OneMessage == {<<E("note")>>}

OneFileLog == [p \in DOMAIN OneFileRepo |-> {"r1", "r2"}]
DeepLog == [p \in DOMAIN DeepRepo |-> {"r1", "r2"}]
=============================================================================
