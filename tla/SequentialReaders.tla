-------------------------- MODULE SequentialReaders --------------------------
(***************************************************************************)
(* Clients of ReadCache that read a file from its beginning to its end,    *)
(* block by block, as cat does; a block may be asked for again when its    *)
(* answer was late.  One reader may go on to any other file when it is     *)
(* done; with several, their requests interleave.                          *)
(***************************************************************************)
EXTENDS ReadCache

CONSTANT Reader

VARIABLE at   \* reader |-> the file it reads and the next block of it

seqVars == <<vars, at>>

Idle(c) == at[c].next >= Length[at[c].file][ver[at[c].file]]

SeqInit ==
    /\ Init
    /\ \E start \in [Reader -> File] :
          at = [c \in Reader |-> [file |-> start[c], next |-> 0]]

NextBlock(c) ==
    /\ ~Idle(c)
    /\ Read(at[c].file, at[c].next, ReadSize)
    /\ at' = [at EXCEPT ![c].next = @ + ReadSize]

\* The same request once more, before the next one.
Again(c) ==
    /\ at[c].next > 0
    /\ Read(at[c].file, at[c].next - ReadSize, ReadSize)
    /\ UNCHANGED at

Open(c, f) ==
    /\ Running /\ Idle(c)
    /\ f # at[c].file
    /\ at' = [at EXCEPT ![c] = [file |-> f, next |-> 0]]
    /\ UNCHANGED vars

SeqNext ==
    \E c \in Reader : NextBlock(c) \/ Again(c) \/ \E f \in File : Open(c, f)

SeqSpec == SeqInit /\ [][SeqNext]_seqVars
=============================================================================
