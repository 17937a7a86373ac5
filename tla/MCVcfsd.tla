------------------------------- MODULE MCVcfsd -------------------------------
(***************************************************************************)
(* An instance of Vcfsd for TLC: f has two revisions, the older of which   *)
(* is shorter, and g one of the same number.  A message of f quotes "q".   *)
(* Clients look up this and the older revision of f, for one of which      *)
(* there is room, and one of g that only f has.  Somebody wrote a broken   *)
(* line into the description of g, whose tag is a strange one too.         *)
(***************************************************************************)
EXTENDS Vcfsd

MCListing == <<"f", "g">>
MCLog == [x \in {"f", "g"} |-> IF x = "f" THEN <<"r2", "q", "r1">> ELSE <<"r1">>]
MCLoaded == [x \in {"f", "g"} |-> IF x = "f" THEN "r2" ELSE "r1"]
MCTagged == [x \in {"f", "g"} |-> "r1"]
MCNames == {[file |-> "f", rev |-> "q"], [file |-> "f", rev |-> "r1"], [file |-> "g", rev |-> "r2"]}
MCAbsent == {<<"f", "q">>}
MCShorter == {<<"f", "r1">>}
MCBroken == {<<"g", 1>>}
MCCuttable == {[op |-> "update", file |-> "f", rev |-> "r2"]}
MCRefusable == {[op |-> "status", file |-> "f", rev |-> None]}
=============================================================================
