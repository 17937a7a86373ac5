------------------------------- MODULE Handles -------------------------------
(***************************************************************************)
(* What the file table promises to the NFS clients of one run of the       *)
(* daemon: an id, once bound to a file, stands for that file and no other  *)
(* until the daemon ends, no file has two ids, and a handle is given out   *)
(* only for a file that is bound.  When the daemon ends everything is      *)
(* forgotten, and nothing is promised about the handles that clients keep. *)
(***************************************************************************)
EXTENDS Integers

CONSTANTS Id, File

VARIABLES
    names,  \* id |-> file, for the ids bound so far
    held    \* the <<id, file>> pairs that were given out

Init == names = <<>> /\ held = {}

Unbound(i, f) == i \in Id \ DOMAIN names /\ \A j \in DOMAIN names : names[j] # f

Extend(i, f) == [j \in DOMAIN names \cup {i} |-> IF j = i THEN f ELSE names[j]]

\* A new file becomes known.
Bind(i, f) ==
    /\ Unbound(i, f)
    /\ names' = Extend(i, f)
    /\ UNCHANGED held

\* A client looks up a known file.
Give(i) ==
    /\ i \in DOMAIN names
    /\ held' = held \cup {<<i, names[i]>>}
    /\ UNCHANGED names

\* A client looks up a file that becomes known by being looked up.
BindAndGive(i, f) ==
    /\ Unbound(i, f)
    /\ names' = Extend(i, f)
    /\ held' = held \cup {<<i, f>>}

\* The daemon ends.
Forget == names' = <<>> /\ held' = {}

Next ==
    \/ \E i \in Id, f \in File : Bind(i, f) \/ BindAndGive(i, f)
    \/ \E i \in Id : Give(i)
    \/ Forget

Spec == Init /\ [][Next]_<<names, held>>
=============================================================================
