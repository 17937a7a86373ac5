------------------------------- MODULE Readdir -------------------------------
(***************************************************************************)
(* nfsproc_readdir_2 (vcfs_nfs.c): a directory is listed page by page.  The*)
(* server keeps nothing between two pages; the client sends back the cookie*)
(* of the last entry that it took, and the handler counts its way to it in *)
(* the dirent list, whose head other requests extend in the meantime.      *)
(*                                                                         *)
(* The listing of the root is one constant page and is left out.           *)
(***************************************************************************)
EXTENDS Integers, Sequences, FiniteSets, SequencesExt

CONSTANTS
    MaxFiles,     \* bound of the model on the files in the directory
    MaxExtended,  \* bound of the model on the revision-extended names in it
    PageSize,     \* length of entrytab (256 in the code)
    LowByte,      \* values of the byte of a cookie that is compared with 0 (256)
    DirId,        \* id of the directory
    IsTop         \* is it the top directory of the project?

ASSUME PageAssumption ==
    /\ MaxFiles \in Nat /\ MaxExtended \in Nat
    /\ PageSize \in Nat /\ PageSize > 2
    /\ LowByte \in Nat \ {0}
    /\ DirId \in Nat /\ IsTop \in BOOLEAN

VARIABLES
    dirent,  \* the directory's list: its files and revision-extended names
    cookie,  \* the cookie that the client sends next
    seen,    \* names that the client was given since it opened the directory
    done     \* did it get to the end?

vars == <<dirent, cookie, seen, done>>

Dot == -1
DotDot == -2

\* Files are numbered; what the handler asks of a name is whether it has a
\* comma.
File(n) == [name |-> n, extended |-> FALSE]
ExtendedName == [name |-> 0, extended |-> TRUE]

Init ==
    /\ \E n \in 0..MaxFiles : dirent = [i \in 1..n |-> File(i)]
    /\ cookie = 0 /\ seen = <<>> /\ done = FALSE

-----------------------------------------------------------------------------

Dots(c) ==
    IF c % LowByte = 0
    THEN << [name |-> Dot, cookie |-> DirId],
            [name |-> DotDot, cookie |-> IF IsTop THEN 0 ELSE 1] >>
    ELSE <<>>

\* Faults: one entry too few, or one too many, is passed over.
Skipped_TooFew(c) ==
    IF c < 2 THEN 0 ELSE IF c - 2 < Len(dirent) THEN c - 2 ELSE Len(dirent)

Skipped_TooMany(c) == IF c < Len(dirent) THEN c ELSE Len(dirent)

\* Entries of the list are passed over until the cookie is reached, whether
\* they have a comma or not.
Skipped(c) ==
    IF c = 0 THEN 0 ELSE IF c - 1 < Len(dirent) THEN c - 1 ELSE Len(dirent)

\* Fault: names with a comma are listed.
Rest_WithCommas(c) == SubSeq(dirent, Skipped(c) + 1, Len(dirent))

\* From there on those with a comma are passed over and not counted.
Listed(c) == {i \in (Skipped(c) + 1)..Len(dirent) : ~dirent[i].extended}

Nth(positions, n) ==
    CHOOSE i \in positions : Cardinality({j \in positions : j <= i}) = n

Rest(c) == [n \in 1..Cardinality(Listed(c)) |-> dirent[Nth(Listed(c), n)]]

\* The page that answers cookie c.
Page(c) ==
    LET room == PageSize - Len(Dots(c))
        n == IF Len(Rest(c)) < room THEN Len(Rest(c)) ELSE room
    IN Dots(c) \o [k \in 1..n |-> [name |-> Rest(c)[k].name,
                                   cookie |-> Skipped(c) + 1 + k]]

\* Fault: the end of the list is not reported.
EOF_Never(c) == FALSE

EOF(c) == Len(Page(c)) # PageSize

\* READDIR, and the client takes the first n entries of the page: all, or as
\* many as fit into its own buffer.  At least one file fits.
Takes(page) == {n \in 0..Len(page) : n = Len(page) \/ n >= 3}

Readdir ==
    /\ ~done
    /\ LET page == Page(cookie) IN
       \E n \in Takes(page) :
          /\ seen' = seen \o [k \in 1..n |-> page[k].name]
          /\ cookie' = IF n = 0 THEN cookie ELSE page[n].cookie
          /\ done' = (n = Len(page) /\ EOF(cookie))
    /\ UNCHANGED dirent

\* The client opens the directory once more.
Opendir ==
    /\ done
    /\ cookie' = 0 /\ seen' = <<>> /\ done' = FALSE
    /\ UNCHANGED dirent

\* Somebody looks up a revision-extended name in the directory for the first
\* time: insert_ventry puts it at the head.
LookupExtended ==
    /\ dirent # <<>>
    /\ Cardinality({i \in DOMAIN dirent : dirent[i].extended}) < MaxExtended
    /\ dirent' = <<ExtendedName>> \o dirent
    /\ UNCHANGED <<cookie, seen, done>>

Next == Readdir \/ Opendir \/ LookupExtended

Spec == Init /\ [][Next]_vars /\ WF_vars(Readdir)

-----------------------------------------------------------------------------
(* Properties. *)

Names == {e.name : e \in {f \in ToSet(dirent) : ~f.extended}}

TypeOK ==
    /\ dirent \in Seq([name : Nat, extended : BOOLEAN])
    /\ cookie \in Nat
    /\ seen \in Seq(Names \cup {Dot, DotDot})
    /\ done \in BOOLEAN

\* A client that gets to the end has been given every file of the directory,
\* and both dots, although names were put at the head while it was reading.
NoneMissed == done => Names \cup {Dot, DotDot} \subseteq ToSet(seen)

\* "Skip entries until we reach the cookie" (vcfs_nfs.c:495): no file is given
\* out again on a later page.
NoneTwice ==
    \A j, k \in DOMAIN seen : j < k /\ seen[j] \in Names => seen[j] # seen[k]

\* So it is at least as long as nobody has looked up a name with a comma.
PlainNoneTwice == (\A e \in ToSet(dirent) : ~e.extended) => NoneTwice

\* A listing comes to its end.
ListingEnds == ~done ~> done
=============================================================================
