------------------------- MODULE MCSequentialReaders -------------------------
(***************************************************************************)
(* Instances of SequentialReaders for TLC: a chunk of six bytes, blocks    *)
(* of one or two, files of up to four chunks.                              *)
(***************************************************************************)
EXTENDS SequentialReaders, TLC

Lengths(n) == [r \in {"r1"} |-> n]

OneOfEach ==
    "small" :> Lengths(3) @@ "exact" :> Lengths(12) @@ "big" :> Lengths(13)
        @@ "huge" :> Lengths(23) @@ "plain" :> Lengths(16)
TwoBig == "big" :> Lengths(13) @@ "huge" :> Lengths(23)

FirstLoaded == [f \in File |-> "r1"]
LoadedSize == [f \in File |-> Length[f]["r1"]]
=============================================================================
