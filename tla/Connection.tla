------------------------------ MODULE Connection ------------------------------
(***************************************************************************)
(* What the one connection to the CVS server promises to the parts of      *)
(* vcfsd that send requests on it: the text that the server owes is handed *)
(* out in the order of the requests, nothing of it twice, and what one     *)
(* call does not take the next one finds in front of its own answer.  It   *)
(* does not promise that a call gets its own answer.                       *)
(***************************************************************************)
EXTENDS Integers, Sequences

CONSTANT Answer    \* the texts that the server may answer with, sequences

VARIABLES
    waiting,   \* is there a call that waits for its answer?
    owed,      \* what the server has still to answer, oldest first
    given      \* what the last call returned; nothing when it failed

vars == <<waiting, owed, given>>

Init == waiting = FALSE /\ owed = <<>> /\ given = <<>>

\* A request is sent, and the server will answer it with a.
Ask(a) ==
    /\ ~waiting
    /\ waiting' = TRUE
    /\ owed' = owed \o a
    /\ given' = <<>>

\* The call returns the first n symbols that are owed.
Give(n) ==
    /\ waiting /\ n \in 1..Len(owed)
    /\ waiting' = FALSE
    /\ given' = SubSeq(owed, 1, n)
    /\ owed' = SubSeq(owed, n + 1, Len(owed))

\* The call fails and throws away what it has received.
GiveUp(n) ==
    /\ waiting /\ n \in 0..Len(owed)
    /\ waiting' = FALSE
    /\ given' = <<>>
    /\ owed' = SubSeq(owed, n + 1, Len(owed))

\* The server goes away without sending the rest.
Lose(n) ==
    /\ n \in 0..Len(owed)
    /\ owed' = SubSeq(owed, 1, n)
    /\ UNCHANGED <<waiting, given>>

Next ==
    \/ \E n \in 0..Len(owed) : Give(n) \/ GiveUp(n) \/ Lose(n)
    \/ \E a \in Answer : Ask(a)

Spec == Init /\ [][Next]_vars
=============================================================================
