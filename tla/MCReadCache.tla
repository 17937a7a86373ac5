----------------------------- MODULE MCReadCache -----------------------------
(***************************************************************************)
(* Instances of ReadCache for TLC: a chunk of six bytes, blocks of three.  *)
(* The files fit into a chunk, one of them exactly; "log" has two          *)
(* revisions, and an update to the shorter one leaves clients with a size  *)
(* whose last block begins behind its end.                                 *)
(***************************************************************************)
EXTENDS ReadCache, TLC

Only(n) == [r \in {"r1"} |-> n]
Both(m, n) == [r \in {"r1", "r2"} |-> IF r = "r1" THEN m ELSE n]

SmallLengths == "a" :> Both(1, 4) @@ "b" :> Only(6) @@ "c" :> Only(1) @@ "log" :> Both(5, 2)

FirstLoaded == [f \in File |-> "r1"]
LoadedSize == [f \in File |-> Length[f]["r1"]]
=============================================================================
