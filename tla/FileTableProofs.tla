--------------------------- MODULE FileTableProofs ---------------------------
(***************************************************************************)
(* Proofs about FileTable for every project, every bitmap and every hash   *)
(* table size: its type invariant, that every file is found under its own  *)
(* name and nothing else is, that handles keep their files, that it        *)
(* implements Handles, and that the list of a directory holds exactly the  *)
(* entries named below it, the latest first, and grows at its head only.   *)
(***************************************************************************)
EXTENDS FileTable, TLAPS, SequenceTheorems

(***************************************************************************)
(* The inductive invariant.  Neither LookupRoundTrip nor HandleIdentity is *)
(* inductive: that an id just taken from the bitmap is new needs Ids, that *)
(* a lookup that fails means that the name is new needs Filed and          *)
(* NoRepeats, and that the directories of the module path are new names    *)
(* needs Expanding.                                                        *)
(***************************************************************************)
Ids ==
    /\ vinode_bmap \subseteq 0..(NumVinodes - 1)
    /\ {0, 1, 2} \subseteq vinode_bmap
    /\ \A i \in DOMAIN ventry : i \in Nat /\ i >= 3 /\ i - 1 \in vinode_bmap
    /\ astray \subseteq DOMAIN ventry

VEntry(ids) ==
    [name : TableNames, type : {"NFDIR", "NFREG"}, size : Nat,
     ver : Version \cup {NoVersion}, dirent : Seq(ids)]

Entries == \A i \in DOMAIN ventry : ventry[i] \in VEntry(DOMAIN ventry)

\* Whatever is not a file was loaded as a directory; and an entry that is not
\* astray has the size of a revision of its file, and a name with a revision
\* just that revision, which the log names.
Fits(p, type, size, ver, own) ==
    /\ type = "NFDIR" => p \in ModuleDirs \cup Dirs \cup Messages
    /\ own /\ type = "NFREG" =>
          /\ Unextended(p) \in DOMAIN Repo
          /\ \E r \in DOMAIN Repo[Unextended(p)] : size = Repo[Unextended(p)][r]
    /\ own /\ Extended(p) => ver = Last(p).ver /\ ver \in Logged[Unextended(p)]

Backed ==
    \A i \in DOMAIN ventry :
        Fits(ventry[i].name, ventry[i].type, ventry[i].size, ventry[i].ver, i \notin astray)

\* A name with a revision is made only when its file has a ventry.
HasFile(p) == Extended(p) => \E j \in DOMAIN ventry : ventry[j].name = Unextended(p)

Based == \A i \in DOMAIN ventry : HasFile(ventry[i].name)

Distinct ==
    \A i, j \in DOMAIN ventry : ventry[i].name = ventry[j].name => i = j

Chains == file_hash \in [Bucket -> Seq(DOMAIN ventry)]

Filed ==
    \A i \in DOMAIN ventry :
        \E k \in DOMAIN file_hash[hash(ventry[i].name)] :
            file_hash[hash(ventry[i].name)][k] = i

NoRepeats ==
    \A b \in Bucket : \A k, l \in DOMAIN file_hash[b] :
        file_hash[b][k] = file_hash[b][l] => k = l

TableInv ==
    Ids /\ Entries /\ Backed /\ Based /\ Distinct /\ Chains /\ Filed /\ NoRepeats

Expanding ==
    /\ phase \in {"expand", "checkout", "serve"} \cup Stops
    /\ count \in 0..Len(ModulePath)
    /\ phase = "expand" =>
          \A i \in DOMAIN ventry :
              \E n \in 1..count : ventry[i].name = SubSeq(ModulePath, 1, n)

Held ==
    /\ boot \in 0..MaxRestarts
    /\ handles \subseteq [boot : 0..boot, id : 1..NumVinodes, key : Bucket,
                         name : TableNames]
    /\ \A h \in handles :
          h.boot = boot =>
              /\ h.id \in DOMAIN ventry
              /\ ventry[h.id].name = h.name
              /\ h.key = hash(h.name)

IndInv == TableInv /\ Expanding /\ Held

(***************************************************************************)
(* What a step can do to the names of the table and to the handles: keep   *)
(* the names, add one, or (the restart) forget them all.                   *)
(***************************************************************************)
Keeps ==
    /\ DOMAIN ventry' = DOMAIN ventry
    /\ \A i \in DOMAIN ventry : ventry'[i].name = ventry[i].name

Adds(id, p) ==
    /\ id \in (1..NumVinodes) \ DOMAIN ventry
    /\ p \in TableNames /\ \A i \in DOMAIN ventry : ventry[i].name # p
    /\ DOMAIN ventry' = DOMAIN ventry \cup {id}
    /\ ventry'[id].name = p
    /\ \A i \in DOMAIN ventry : ventry'[i].name = ventry[i].name

Evolves ==
    \/ /\ Keeps /\ UNCHANGED boot
       /\ \/ UNCHANGED handles
          \/ \E id \in DOMAIN ventry : Grant(id, ventry[id].name)
    \/ /\ UNCHANGED boot
       /\ \E id \in 1..NumVinodes, p \in TableNames :
             Adds(id, p) /\ (UNCHANGED handles \/ Grant(id, p))
    \/ boot' = boot + 1 /\ DOMAIN ventry' = {} /\ UNCHANGED handles

-----------------------------------------------------------------------------
(* Facts about names. *)

\* hash stays within the table for every name it is applied to.
LEMMA HashInBucket ==
    /\ \A p \in HashedNames : hash(p) \in Bucket
    /\ TableNames \subseteq HashedNames
<1>1. ASSUME NEW p \in HashedNames PROVE hash(p) \in Bucket
  <2>1. CharSum(p) \in Nat BY BoundsAssumption
  <2>2. CharSum(p) % NumBuckets \in Bucket /\ 7 % NumBuckets \in Bucket
    BY <2>1, BoundsAssumption DEF Bucket
  <2> QED BY <2>2 DEF hash, ZeroBucket
<1>2. TableNames \subseteq HashedNames BY DEF HashedNames
<1> QED BY <1>1, <1>2

\* The names that are loaded are sequences of entries.
LEMMA PlainNamesArePaths ==
    ASSUME NEW p \in PlainNames PROVE p \in Seq(Entry) /\ p # <<>>
<1>1. CASE p \in Loadable BY <1>1, RepoAssumption DEF Path
<1>2. CASE p \in ModuleDirs
  <2>1. PICK n \in 1..Len(ModulePath) : p = SubSeq(ModulePath, 1, n)
    BY <1>2 DEF ModuleDirs
  <2>2. ModulePath \in Seq(Entry) /\ Len(ModulePath) \in Nat
    BY ModuleAssumption, LenProperties DEF Path
  <2>3. 1 \in Int /\ n \in Int /\ \A i \in 1..n : ModulePath[i] \in Entry
    BY <2>2, ElementOfSeq
  <2>4. /\ SubSeq(ModulePath, 1, n) \in Seq(Entry)
        /\ Len(SubSeq(ModulePath, 1, n)) = IF 1 <= n THEN n - 1 + 1 ELSE 0
    BY <2>3, SubSeqProperties
  <2>5. Len(p) # 0 BY <2>1, <2>2, <2>4
  <2> QED BY <2>1, <2>4, <2>5, EmptySeq
<1> QED BY <1>1, <1>2 DEF PlainNames

LEMMA RepoIsPlain == DOMAIN Repo \subseteq PlainNames
BY DEF Loadable, PlainNames

\* Dropping the version of a revision-extended name gives its file back.
LEMMA VersionedNames ==
    ASSUME NEW p \in PlainNames
    PROVE  /\ p \in TableNames
           /\ Unextended(p) = p
           /\ ~Extended(p)
           /\ \A v \in Version : /\ WithVersion(p, v) \in TableNames
                                 /\ Unextended(WithVersion(p, v)) = p
                                 /\ Last(WithVersion(p, v)).ver = v
<1>1. p \in TableNames BY DEF TableNames
<1>2. p \in Seq(Entry) /\ p # <<>> BY PlainNamesArePaths
<1>3. ~Extended(p) BY ModuleAssumption
<1>4. p[Len(p)] \in Entry /\ p[Len(p)].ver = NoVersion /\ Len(p) \in DOMAIN p
  <2>1. Len(p) \in 1..Len(p) BY <1>2, EmptySeq, LenProperties
  <2> QED BY <2>1, <1>2, <1>3, LenProperties DEF Extended, Last
<1>5. Unextended(p) = p
  <2>1. [p[Len(p)] EXCEPT !.ver = NoVersion] = p[Len(p)] BY <1>4 DEF Entry
  <2>2. [p EXCEPT ![Len(p)] = p[Len(p)]] = p BY <1>2, <1>4
  <2> QED BY <2>1, <2>2 DEF Unextended, WithVersion
<1>6. ASSUME NEW v \in Version
      PROVE  /\ WithVersion(p, v) \in TableNames
             /\ Unextended(WithVersion(p, v)) = p
             /\ Last(WithVersion(p, v)).ver = v
  <2> DEFINE q == WithVersion(p, v)
  <2>1. q \in TableNames BY DEF TableNames, ExtendedNames
  <2>2. /\ q = [p EXCEPT ![Len(p)] = [p[Len(p)] EXCEPT !.ver = v]]
        /\ [p[Len(p)] EXCEPT !.ver = v] \in Entry
    BY <1>4 DEF WithVersion, Entry
  <2>3. q \in Seq(Entry) /\ Len(q) = Len(p) BY <2>2, <1>2, <1>4, ExceptSeq, LenProperties
  <2>4. [q[Len(p)] EXCEPT !.ver = NoVersion] = p[Len(p)]
    <3>1. q[Len(p)] = [p[Len(p)] EXCEPT !.ver = v] BY <2>2, <1>4
    <3> QED BY <3>1, <1>4 DEF Entry
  <2>5. Unextended(q) = [q EXCEPT ![Len(p)] = p[Len(p)]]
    BY <2>3, <2>4 DEF Unextended, WithVersion
  <2>6. [q EXCEPT ![Len(p)] = p[Len(p)]] = p
    <3> DEFINE r == [q EXCEPT ![Len(p)] = p[Len(p)]]
    <3>1. Len(p) \in 1..Len(p) /\ Len(p) \in 1..Len(q) BY <1>2, <2>3, EmptySeq, LenProperties
    <3>2. /\ r \in Seq(Entry) /\ Len(r) = Len(p)
          /\ \A j \in 1..Len(p) : r[j] = IF j = Len(p) THEN p[Len(p)] ELSE q[j]
      BY <3>1, <2>3, <1>4, ExceptSeq
    <3>3. \A j \in 1..Len(p) : j # Len(p) => q[j] = p[j]
      BY <2>2, <1>2, LenProperties
    <3> HIDE DEF r, q
    <3>4. \A j \in 1..Len(p) : r[j] = p[j] BY <3>2, <3>3
    <3>5. r = p BY <3>2, <3>4, <1>2, SeqEqual
    <3> QED BY <3>5 DEF r
  <2>7. Last(q).ver = v
    <3>1. q[Len(p)] = [p[Len(p)] EXCEPT !.ver = v] BY <2>2, <1>4
    <3>2. Last(q) = q[Len(p)] BY <2>3 DEF Last
    <3> QED BY <3>1, <3>2, <1>4 DEF Entry
  <2> QED BY <2>1, <2>5, <2>6, <2>7
<1> QED BY <1>1, <1>3, <1>5, <1>6

\* Giving the last entry another version changes nothing in front of it.
LEMMA WithVersionPrefix ==
    ASSUME NEW p \in PlainNames, NEW v \in Version
    PROVE  /\ WithVersion(p, v) # <<>> /\ WithVersion(p, v) \in Path
           /\ Front(WithVersion(p, v)) = Front(p)
<1> DEFINE q == WithVersion(p, v)
<1>1. p \in Seq(Entry) /\ p # <<>> BY PlainNamesArePaths
<1>2. Len(p) \in Nat /\ Len(p) >= 1 /\ Len(p) \in 1..Len(p) /\ DOMAIN p = 1..Len(p)
  BY <1>1, EmptySeq, LenProperties
<1>3. p[Len(p)] \in Entry BY <1>1, <1>2, ElementOfSeq
<1>4. /\ q = [p EXCEPT ![Len(p)] = [p[Len(p)] EXCEPT !.ver = v]]
      /\ [p[Len(p)] EXCEPT !.ver = v] \in Entry
  BY <1>3 DEF WithVersion, Entry
<1>5. /\ q \in Seq(Entry) /\ Len(q) = Len(p)
      /\ \A i \in 1..(Len(p) - 1) : q[i] = p[i]
  BY <1>1, <1>2, <1>4, ExceptSeq, LenProperties
<1> HIDE DEF q
<1>6. q # <<>> BY <1>2, <1>5, EmptySeq
<1>7. Front(q) = Front(p)
  <2> DEFINE n == Len(p) - 1
  <2>1. \A i \in 1..n : p[i] \in Entry /\ q[i] \in Entry
    BY <1>1, <1>2, <1>5, ElementOfSeq
  <2>2. n \in Int /\ 1 \in Int BY <1>2
  <2> HIDE DEF n
  <2>3. \A r \in Seq(Entry) : (\A i \in 1..n : r[i] \in Entry) =>
          /\ SubSeq(r, 1, n) \in Seq(Entry)
          /\ Len(SubSeq(r, 1, n)) = IF 1 <= n THEN n - 1 + 1 ELSE 0
          /\ \A i \in 1..(n - 1 + 1) : SubSeq(r, 1, n)[i] = r[1 + i - 1]
    BY <2>2, SubSeqProperties
  <2>4. /\ SubSeq(p, 1, n) \in Seq(Entry) /\ SubSeq(q, 1, n) \in Seq(Entry)
        /\ Len(SubSeq(p, 1, n)) = Len(SubSeq(q, 1, n))
    BY <1>1, <1>5, <2>1, <2>3
  <2>5. \A i \in 1..Len(SubSeq(p, 1, n)) : SubSeq(p, 1, n)[i] = SubSeq(q, 1, n)[i]
    <3>1. TAKE i \in 1..Len(SubSeq(p, 1, n))
    <3>2. Len(SubSeq(p, 1, n)) = IF 1 <= n THEN n ELSE 0 BY <1>1, <2>1, <2>2, <2>3
    <3>3. i \in 1..n /\ i \in 1..(n - 1 + 1) /\ 1 + i - 1 = i BY <3>1, <3>2, <2>2
    <3>4. SubSeq(p, 1, n)[i] = p[i] /\ SubSeq(q, 1, n)[i] = q[i]
      BY <1>1, <1>5, <2>1, <2>3, <3>3
    <3> QED BY <3>3, <3>4, <1>5 DEF n
  <2>6. SubSeq(q, 1, n) = SubSeq(p, 1, n) BY <2>4, <2>5, SeqEqual
  <2> QED BY <2>6, <1>5 DEF Front, n
<1> QED BY <1>5, <1>6, <1>7 DEF q, Path

\* All names of the table are paths.
LEMMA TableNamesArePaths == TableNames \subseteq Path
<1>1. PlainNames \subseteq Path BY PlainNamesArePaths DEF Path
<1>2. ExtendedNames \subseteq Path BY WithVersionPrefix DEF ExtendedNames
<1> QED BY <1>1, <1>2 DEF TableNames

\* The last entry of a name that has just been put together.
LEMMA LastOfAppend ==
    ASSUME NEW s \in Seq(Entry), NEW e \in Entry
    PROVE  Last(Append(s, e)) = e
<1>1. Append(s, e) \in Seq(Entry) /\ Len(Append(s, e)) = Len(s) + 1
  BY AppendProperties
<1>2. Append(s, e)[Len(s) + 1] = e BY AppendProperties
<1> QED BY <1>1, <1>2 DEF Last

\* A sequence stays one over a larger set, with or without a new head.
LEMMA NewHead ==
    ASSUME NEW S, NEW T, S \subseteq T, NEW s \in Seq(S), NEW x \in T
    PROVE  /\ s \in Seq(T)
           /\ <<x>> \o s \in Seq(T)
           /\ DOMAIN s = 1..Len(s) /\ Len(s) \in Nat
           /\ DOMAIN (<<x>> \o s) = 1..(Len(s) + 1)
           /\ (<<x>> \o s)[1] = x
           /\ \A k \in 1..Len(s) : (<<x>> \o s)[k + 1] = s[k]
<1>1. s \in Seq(T) BY SeqMonotonic
<1>2. <<x>> \in Seq(T) /\ Len(<<x>>) = 1 /\ <<x>>[1] = x OBVIOUS
<1>3. /\ <<x>> \o s \in Seq(T)
      /\ Len(<<x>> \o s) = Len(s) + 1
      /\ \A i \in 1..(Len(s) + 1) :
            (<<x>> \o s)[i] = IF i <= 1 THEN <<x>>[i] ELSE s[i - 1]
  BY <1>1, <1>2, ConcatProperties, LenProperties
<1>4. Len(s) \in Nat /\ DOMAIN s = 1..Len(s) BY LenProperties
<1>5. DOMAIN (<<x>> \o s) = 1..(Len(s) + 1) BY <1>3, LenProperties
<1>6. \A k \in 1..Len(s) : (<<x>> \o s)[k + 1] = s[k] BY <1>3, <1>4
<1> QED BY <1>1, <1>2, <1>3, <1>4, <1>5, <1>6

\* lookup_fh_name finds the ventry of a name, and nothing when there is none.
LEMMA LookupFinds ==
    ASSUME TableInv, NEW p \in HashedNames
    PROVE  \/ /\ lookup_fh_name(p) \in DOMAIN ventry
              /\ ventry[lookup_fh_name(p)].name = p
              /\ lookup_fh_name(p) # NULL
           \/ /\ lookup_fh_name(p) = NULL
              /\ \A i \in DOMAIN ventry : ventry[i].name # p
<1> DEFINE chain == file_hash[hash(p)]
<1>1. hash(p) \in Bucket BY HashInBucket
<1>2. /\ chain \in Seq(DOMAIN ventry) /\ DOMAIN chain = 1..Len(chain)
      /\ \A k \in DOMAIN chain : chain[k] \in DOMAIN ventry
  BY <1>1, LenProperties, ElementOfSeq DEF TableInv, Chains
<1>3. CASE Hits(p) = {}
  <2>1. lookup_fh_name(p) = NULL BY <1>3 DEF lookup_fh_name
  <2>2. ASSUME NEW i \in DOMAIN ventry, ventry[i].name = p PROVE FALSE
    <3>1. PICK k \in DOMAIN chain : chain[k] = i BY <2>2 DEF TableInv, Filed
    <3>2. k \in Hits(p) BY <3>1, <2>2 DEF Hits
    <3> QED BY <3>2, <1>3
  <2> QED BY <2>1, <2>2
<1>4. CASE Hits(p) # {}
  <2>1. PICK k \in Hits(p) : TRUE BY <1>4
  <2>2. k \in DOMAIN chain /\ k \in Int BY <2>1, <1>2 DEF Hits
  <2>3. \A j \in Hits(p) : j = k
    <3>1. TAKE j \in Hits(p)
    <3>2. j \in DOMAIN chain /\ ventry[chain[j]].name = ventry[chain[k]].name
      BY <2>1 DEF Hits
    <3>3. chain[j] = chain[k] BY <3>2, <2>2, <1>2 DEF TableInv, Distinct
    <3> QED BY <3>2, <3>3, <2>2, <1>1 DEF TableInv, NoRepeats
  <2>4. (CHOOSE i \in Hits(p) : \A j \in Hits(p) : i <= j) = k
    <3>1. \A j \in Hits(p) : k <= j BY <2>2, <2>3
    <3> QED BY <2>1, <2>3, <3>1
  <2>5. lookup_fh_name(p) = chain[k] BY <1>4, <2>4 DEF lookup_fh_name
  <2>6. ventry[chain[k]].name = p /\ chain[k] \in DOMAIN ventry
    BY <2>1, <2>2, <1>2 DEF Hits
  <2>7. chain[k] # NULL BY <2>6 DEF NULL, TableInv, Ids
  <2> QED BY <2>5, <2>6, <2>7
<1> QED BY <1>3, <1>4

-----------------------------------------------------------------------------
(* One lemma per way in which the table changes. *)

\* create_ventry and create_fh keep the table's invariant when they are called
\* with a name that no ventry has, and add just that name.
LEMMA CreateKeepsTable ==
    ASSUME TableInv,
           NEW b \in 2..(NumVinodes - 1), b + 1 \notin DOMAIN ventry,
           NEW p \in TableNames, \A i \in DOMAIN ventry : ventry[i].name # p,
           NEW type \in {"NFDIR", "NFREG"}, NEW size \in Nat,
           NEW ver \in Version \cup {NoVersion},
           astray' \in {astray, astray \cup {b + 1}},
           Fits(p, type, size, ver, b + 1 \notin astray'), HasFile(p),
           Create(b + 1, p, type, size, ver)
    PROVE  TableInv' /\ Adds(b + 1, p)
<1> DEFINE id == b + 1
           new == [name |-> p, type |-> type, size |-> size, ver |-> ver,
                   dirent |-> <<>>]
           parent == lookup_fh_name(Front(p))
<1>1. /\ vinode_bmap' = vinode_bmap \cup {b}
      /\ ventry' = [i \in DOMAIN ventry \cup {id} |->
                       IF i = id THEN new
                       ELSE IF i = parent
                       THEN [ventry[i] EXCEPT !.dirent = <<id>> \o @]
                       ELSE ventry[i]]
      /\ file_hash' = [file_hash EXCEPT ![hash(p)] = <<id>> \o @]
  <2>1. id - 1 = b BY BoundsAssumption
  <2> QED BY <2>1 DEF Create, insert_ventry, insert_fh
<1>2. id \notin DOMAIN ventry /\ id >= 3 /\ id \in Nat /\ id - 1 = b
  BY BoundsAssumption
<1>3. DOMAIN ventry' = DOMAIN ventry \cup {id} BY <1>1
<1>4. ventry'[id] = new BY <1>1
<1>5. ASSUME NEW i \in DOMAIN ventry
      PROVE  /\ ventry'[i] \in VEntry(DOMAIN ventry')
             /\ ventry'[i].name = ventry[i].name
             /\ ventry'[i].type = ventry[i].type
             /\ ventry'[i].size = ventry[i].size
             /\ ventry'[i].ver = ventry[i].ver
  <2>1. ventry[i] \in VEntry(DOMAIN ventry) BY DEF TableInv, Entries
  <2>2. /\ ventry[i].dirent \in Seq(DOMAIN ventry')
        /\ <<id>> \o ventry[i].dirent \in Seq(DOMAIN ventry')
    BY <2>1, <1>3, NewHead DEF VEntry
  <2>3. ventry'[i] = IF i = parent
                     THEN [ventry[i] EXCEPT !.dirent = <<id>> \o @]
                     ELSE ventry[i]
    BY <1>1, <1>2
  <2> QED BY <2>1, <2>2, <2>3 DEF VEntry
<1>6. hash(p) \in Bucket BY HashInBucket
<1>7. /\ \A c \in Bucket : c # hash(p) => file_hash'[c] = file_hash[c]
      /\ file_hash'[hash(p)] = <<id>> \o file_hash[hash(p)]
      /\ DOMAIN file_hash' = Bucket
  BY <1>1, <1>6 DEF TableInv, Chains
<1>8. \A c \in Bucket : file_hash[c] \in Seq(DOMAIN ventry) BY DEF TableInv, Chains
<1> HIDE DEF new, parent
<1>9. Ids'
  <2>1. vinode_bmap' \subseteq 0..(NumVinodes - 1) /\ {0, 1, 2} \subseteq vinode_bmap'
    BY <1>1 DEF TableInv, Ids
  <2>2. \A i \in DOMAIN ventry' : i \in Nat /\ i >= 3 /\ i - 1 \in vinode_bmap'
    BY <1>1, <1>2, <1>3 DEF TableInv, Ids
  <2>3. astray' \subseteq DOMAIN ventry' BY <1>3 DEF TableInv, Ids
  <2> QED BY <2>1, <2>2, <2>3 DEF Ids
<1>10. Entries'
  <2>1. new \in VEntry(DOMAIN ventry') BY EmptySeq DEF new, VEntry
  <2> QED BY <2>1, <1>3, <1>4, <1>5 DEF Entries
<1>11. Backed' /\ Based'
  <2>1. Backed'
    <3>1. Fits(new.name, new.type, new.size, new.ver, id \notin astray') BY DEF new
    <3>2. ASSUME NEW i \in DOMAIN ventry
          PROVE  Fits(ventry'[i].name, ventry'[i].type, ventry'[i].size, ventry'[i].ver,
                      i \notin astray')
      <4>1. i \in astray' <=> i \in astray BY <1>2
      <4>2. Fits(ventry[i].name, ventry[i].type, ventry[i].size, ventry[i].ver,
                 i \notin astray)
        BY DEF TableInv, Backed
      <4> QED BY <4>1, <4>2, <1>5
    <3> QED BY <3>1, <3>2, <1>3, <1>4 DEF Backed, Fits
  <2>2. Based'
    <3> DEFINE Kept(q) == Extended(q) => \E j \in DOMAIN ventry' : ventry'[j].name = Unextended(q)
    <3>1. \A q : HasFile(q) => Kept(q) BY <1>3, <1>5 DEF HasFile
    <3>2. Kept(new.name) BY <3>1 DEF new
    <3>3. ASSUME NEW i \in DOMAIN ventry PROVE Kept(ventry[i].name)
      BY <3>1 DEF TableInv, Based
    <3>4. \A i \in DOMAIN ventry' : Kept(ventry'[i].name)
      <4> HIDE DEF Kept
      <4> QED BY <3>2, <3>3, <1>3, <1>4, <1>5
    <3> QED BY <3>4 DEF Based, HasFile
  <2> QED BY <2>1, <2>2
<1>12. Distinct' BY <1>3, <1>4, <1>5 DEF TableInv, Distinct, new
<1>13. Chains'
  <2>1. ASSUME NEW c \in Bucket PROVE file_hash'[c] \in Seq(DOMAIN ventry')
    <3>1. /\ file_hash[c] \in Seq(DOMAIN ventry')
          /\ <<id>> \o file_hash[c] \in Seq(DOMAIN ventry')
      BY <1>8, <1>3, NewHead
    <3> QED BY <3>1, <1>7
  <2> QED BY <2>1, <1>1, <1>7 DEF Chains
<1>14. /\ DOMAIN file_hash'[hash(p)] = 1..(Len(file_hash[hash(p)]) + 1)
       /\ file_hash'[hash(p)][1] = id
       /\ \A k \in 1..Len(file_hash[hash(p)]) :
             file_hash'[hash(p)][k + 1] = file_hash[hash(p)][k]
       /\ DOMAIN file_hash[hash(p)] = 1..Len(file_hash[hash(p)])
       /\ Len(file_hash[hash(p)]) \in Nat
  BY <1>7, <1>6, <1>8, <1>3, NewHead
<1>15. Filed'
  <2>1. ASSUME NEW i \in DOMAIN ventry
        PROVE  \E k \in DOMAIN file_hash'[hash(ventry[i].name)] :
                   file_hash'[hash(ventry[i].name)][k] = i
    <3> DEFINE c == hash(ventry[i].name)
    <3>1. PICK k \in DOMAIN file_hash[c] : file_hash[c][k] = i BY DEF TableInv, Filed
    <3>2. CASE c = hash(p)
      <4>1. k + 1 \in DOMAIN file_hash'[c] /\ file_hash'[c][k + 1] = i
        <5>1. k \in DOMAIN file_hash[hash(p)] /\ file_hash[hash(p)][k] = i
          BY <3>1, <3>2, Zenon
        <5>2. k \in 1..Len(file_hash[hash(p)]) BY <1>14, <5>1, Zenon
        <5>3. file_hash'[hash(p)][k + 1] = i BY <1>14, <5>1, <5>2, Zenon
        <5>4. k + 1 \in 1..(Len(file_hash[hash(p)]) + 1)
          <6>1. PICK l : l = Len(file_hash[hash(p)]) OBVIOUS
          <6>2. l \in Nat /\ k \in 1..l BY <1>14, <5>2, <6>1, Zenon
          <6>3. k + 1 \in 1..(l + 1) BY <6>2
          <6> QED BY <6>1, <6>3, Zenon
        <5> QED BY <1>14, <3>2, <5>3, <5>4, Zenon
      <4> QED BY <4>1
    <3>3. CASE c # hash(p)
      <4>1. c \in Bucket BY HashInBucket DEF TableInv, Entries, VEntry
      <4> QED BY <4>1, <3>1, <3>3, <1>7
    <3> QED BY <3>2, <3>3
  <2>2. \E k \in DOMAIN file_hash'[hash(p)] : file_hash'[hash(p)][k] = id
    BY <1>14
  <2>3. ventry'[id].name = p BY <1>4 DEF new
  <2> QED BY <2>1, <2>2, <2>3, <1>3, <1>5 DEF Filed, hash
<1>16. NoRepeats'
  <2>1. ASSUME NEW c \in Bucket, NEW k \in DOMAIN file_hash'[c],
               NEW l \in DOMAIN file_hash'[c], file_hash'[c][k] = file_hash'[c][l]
        PROVE  k = l
    <3>1. CASE c # hash(p) BY <3>1, <2>1, <1>7 DEF TableInv, NoRepeats
    <3>2. CASE c = hash(p)
      <4> DEFINE chain == file_hash[hash(p)]
      <4>1. \A m \in 1..Len(chain) : chain[m] # id
        BY <1>2, <1>6, <1>8, ElementOfSeq
      <4>2. k \in 1..(Len(chain) + 1) /\ l \in 1..(Len(chain) + 1) BY <3>2, <1>14
      <4>3. CASE k = 1 /\ l = 1 BY <4>3
      <4>4. CASE k # 1 /\ l = 1
        <5>1. k - 1 \in 1..Len(chain) BY <4>2, <4>4, <1>14
        <5>2. file_hash'[c][(k - 1) + 1] = chain[k - 1] BY <5>1, <3>2, <1>14
        <5> QED BY <5>1, <5>2, <4>1, <4>2, <4>4, <3>2, <2>1, <1>14
      <4>5. CASE k = 1 /\ l # 1
        <5>1. l - 1 \in 1..Len(chain) BY <4>2, <4>5, <1>14
        <5>2. file_hash'[c][(l - 1) + 1] = chain[l - 1] BY <5>1, <3>2, <1>14
        <5> QED BY <5>1, <5>2, <4>1, <4>2, <4>5, <3>2, <2>1, <1>14
      <4>6. CASE k # 1 /\ l # 1
        <5>1. k - 1 \in 1..Len(chain) /\ l - 1 \in 1..Len(chain)
          BY <4>2, <4>6, <1>14
        <5>2. /\ file_hash'[c][(k - 1) + 1] = chain[k - 1]
              /\ file_hash'[c][(l - 1) + 1] = chain[l - 1]
          BY <5>1, <3>2, <1>14
        <5>3. chain[k - 1] = chain[l - 1] BY <5>2, <4>2, <2>1
        <5>4. k - 1 = l - 1 BY <5>1, <5>3, <1>6, <1>14 DEF TableInv, NoRepeats
        <5> QED BY <5>4, <4>2
      <4> QED BY <4>3, <4>4, <4>5, <4>6
    <3> QED BY <3>1, <3>2
  <2> QED BY <2>1 DEF NoRepeats
<1>17. TableInv'
  BY <1>9, <1>10, <1>11, <1>12, <1>13, <1>15, <1>16 DEF TableInv
<1>18. ventry'[id].name = p BY <1>4 DEF new
<1>19. id \in 1..NumVinodes BY BoundsAssumption
<1> QED BY <1>17, <1>2, <1>3, <1>5, <1>18, <1>19 DEF Adds

\* A change of the size or version of a file to what fits its name, or by a
\* strange answer, keeps the table's invariant and every name.
LEMMA RewriteKeepsTable ==
    ASSUME TableInv, NEW f \in DOMAIN ventry, NEW e, NEW own \in BOOLEAN,
           Rewrite(f, e, own),
           e \in VEntry(DOMAIN ventry), e.name = ventry[f].name,
           Fits(e.name, e.type, e.size, e.ver, own /\ f \notin astray)
    PROVE  TableInv' /\ Keeps
<1> USE DEF Rewrite
<1>1. /\ DOMAIN ventry' = DOMAIN ventry
      /\ \A i \in DOMAIN ventry : ventry'[i] = IF i = f THEN e ELSE ventry[i]
  BY Zenon
<1>2. \A i \in DOMAIN ventry : ventry'[i].name = ventry[i].name BY <1>1
<1>3. Ids' BY <1>1 DEF TableInv, Ids
<1>10. \A i \in DOMAIN ventry :
          i \notin astray' <=> i \notin astray /\ (i = f => own)
  OBVIOUS
<1>4. Entries' BY <1>1 DEF TableInv, Entries
<1>5. Backed' /\ Based'
  <2>1. ASSUME NEW i \in DOMAIN ventry
        PROVE  Fits(ventry'[i].name, ventry'[i].type, ventry'[i].size, ventry'[i].ver,
                    i \notin astray')
    <3>1. Fits(ventry[i].name, ventry[i].type, ventry[i].size, ventry[i].ver, i \notin astray)
      BY DEF TableInv, Backed
    <3>2. CASE i # f BY <3>1, <3>2, <1>1, <1>10
    <3>3. CASE i = f BY <3>3, <1>1, <1>10 DEF Fits
    <3> QED BY <3>2, <3>3
  <2>2. Based' BY <1>1, <1>2 DEF TableInv, Based, HasFile
  <2>3. Backed' BY <2>1, <1>1 DEF Backed
  <2> QED BY <2>2, <2>3
<1>6. Distinct' BY <1>1, <1>2 DEF TableInv, Distinct
<1>7. Chains' BY <1>1 DEF TableInv, Chains
<1>8. Filed' BY <1>1, <1>2 DEF TableInv, Filed, hash
<1>9. NoRepeats' BY DEF TableInv, NoRepeats
<1> QED BY <1>1, <1>2, <1>3, <1>4, <1>5, <1>6, <1>7, <1>8, <1>9 DEF TableInv, Keeps

\* What a handle resolves to: nothing, the root, or a file of the table.
LEMMA HandleResolves ==
    ASSUME IndInv, NEW h \in handles \cup {RootHandle}
    PROVE  /\ get_fh(h) \notin {NULL, Root} => get_fh(h) \in DOMAIN ventry
           /\ get_fh(h) # NULL => NameOf(get_fh(h)) \in TableNames \cup {<<>>}
<1>1. CASE h = RootHandle BY <1>1 DEF get_fh, NameOf
<1>2. CASE h # RootHandle
  <2>1. h \in handles /\ get_fh(h) = find_fh(h.id, h.key) BY <1>2 DEF get_fh
  <2>2. h.key \in Bucket BY <2>1 DEF IndInv, Held
  <2>3. file_hash[h.key] \in Seq(DOMAIN ventry)
    BY <2>2 DEF IndInv, TableInv, Chains
  <2>4. find_fh(h.id, h.key) # NULL => find_fh(h.id, h.key) \in DOMAIN ventry
    BY <2>3, ElementOfSeq, LenProperties DEF find_fh
  <2>5. \A i \in DOMAIN ventry : ventry[i].name \in TableNames /\ i # Root
    BY DEF IndInv, TableInv, Entries, VEntry, Ids, Root
  <2> QED BY <2>1, <2>4, <2>5 DEF NameOf
<1> QED BY <1>1, <1>2

\* Handles stay right while names are kept, and a handle just given out is.
LEMMA HeldStep ==
    ASSUME Held, TableInv', UNCHANGED boot,
           DOMAIN ventry \subseteq DOMAIN ventry',
           \A i \in DOMAIN ventry : ventry'[i].name = ventry[i].name,
           \/ UNCHANGED handles
           \/ \E id \in DOMAIN ventry' : Grant(id, ventry'[id].name)
    PROVE  Held'
<1>1. \A h \in handles :
        h.boot = boot => /\ h.id \in DOMAIN ventry'
                         /\ ventry'[h.id].name = h.name
                         /\ h.key = hash(h.name)
  BY DEF Held
<1>2. \A p : hash(p)' = hash(p) BY DEF hash
<1>3. CASE UNCHANGED handles BY <1>1, <1>3 DEF Held, hash
<1>4. ASSUME NEW id \in DOMAIN ventry', Grant(id, ventry'[id].name)
      PROVE  Held'
  <2> DEFINE p == ventry'[id].name
             g == [boot |-> boot, id |-> id, key |-> hash(p), name |-> p]
  <2>1. handles' = handles \cup {g} BY <1>4 DEF Grant
  <2>2. id \in 1..NumVinodes BY BoundsAssumption DEF TableInv, Ids
  <2>3. p \in TableNames BY DEF TableInv, Entries, VEntry
  <2>4. hash(p) \in Bucket BY <2>3, HashInBucket
  <2>5. boot \in 0..boot BY BoundsAssumption DEF Held
  <2> HIDE DEF p
  <2>6. handles' \subseteq [boot : 0..boot', id : 1..NumVinodes, key : Bucket,
                           name : TableNames]
    BY <2>1, <2>2, <2>3, <2>4, <2>5 DEF Held
  <2>7. \A h \in handles' :
          h.boot = boot => /\ h.id \in DOMAIN ventry'
                           /\ ventry'[h.id].name = h.name
                           /\ h.key = hash(h.name)
    BY <2>1, <1>1 DEF p
  <2> QED BY <2>6, <2>7 DEF Held, hash
<1> QED BY <1>3, <1>4

-----------------------------------------------------------------------------
(* The invariant is inductive. *)

\* The daemon starts with an empty table in which nothing is reserved but the
\* first three bits.
LEMMA EmptyTableInv ==
    ASSUME EmptyTable PROVE TableInv /\ Expanding
<1>1. DOMAIN ventry = {} BY DEF EmptyTable
<1>2. \A b \in Bucket : file_hash[b] = <<>> BY DEF EmptyTable
<1>3. Ids BY <1>1, BoundsAssumption DEF EmptyTable, Ids
<1>4. Chains BY <1>2, EmptySeq DEF EmptyTable, Chains
<1>5. Entries /\ Backed /\ Based /\ Distinct /\ Filed
  BY <1>1 DEF Entries, Backed, Based, Distinct, Filed
<1>6. NoRepeats BY <1>2 DEF NoRepeats
<1>7. Expanding
  <2>1. Len(ModulePath) \in Nat BY ModuleAssumption, LenProperties DEF Path
  <2> QED BY <2>1, <1>1 DEF EmptyTable, Expanding
<1> QED BY <1>3, <1>4, <1>5, <1>6, <1>7 DEF TableInv

LEMMA InitInv == Init => IndInv
<1> SUFFICES ASSUME Init PROVE IndInv OBVIOUS
<1>1. Held BY BoundsAssumption DEF Init, Held
<1> QED BY <1>1, EmptyTableInv DEF Init, IndInv

\* A failed ASSERT changes nothing but the phase.
LEMMA FailInv ==
    ASSUME IndInv, NEW a \in Stops, Fail(a) PROVE IndInv' /\ Evolves
<1> USE DEF table
<1>1. TableInv'
  BY DEF IndInv, TableInv, Fail, Ids, Entries, Backed, Fits, Based, HasFile, Distinct, Chains, Filed,
         NoRepeats, hash
<1>2. Expanding' BY DEF IndInv, Expanding, Fail, Stops, Asserts
<1>3. Held' BY DEF IndInv, Held, Fail, hash
<1>4. Evolves BY DEF Evolves, Keeps, Fail
<1> QED BY <1>1, <1>2, <1>3, <1>4 DEF IndInv

\* A step that leaves the table alone.
LEMMA TableUnchanged == TableInv /\ UNCHANGED table => TableInv'
  BY DEF TableInv, table, Ids, Entries, Backed, Fits, Based, HasFile, Distinct, Chains, Filed,
         NoRepeats, hash

\* Creating an entry under the id that alloc_vinode answers.
LEMMA AllocKeepsTable ==
    ASSUME TableInv, NEW b \in 0..(NumVinodes - 1), FirstFree(b),
           NEW p \in TableNames, \A i \in DOMAIN ventry : ventry[i].name # p,
           NEW type \in {"NFDIR", "NFREG"}, NEW size \in Nat,
           NEW ver \in Version \cup {NoVersion},
           astray' \in {astray, astray \cup {b + 1}},
           Fits(p, type, size, ver, b + 1 \notin astray'), HasFile(p),
           Create(b + 1, p, type, size, ver)
    PROVE  TableInv' /\ Adds(b + 1, p)
<1>1. b \in 2..(NumVinodes - 1)
  BY BoundsAssumption DEF FirstFree, TableInv, Ids
<1>2. b + 1 \notin DOMAIN ventry
  <2>1. (b + 1) - 1 = b /\ b \notin vinode_bmap BY <1>1 DEF FirstFree
  <2> QED BY <2>1 DEF TableInv, Ids
<1> QED BY <1>1, <1>2, CreateKeepsTable

\* Each step of vcfs_build_project.
LEMMA LoadInv == IndInv /\ Load => IndInv' /\ Evolves
<1> SUFFICES ASSUME IndInv, Load PROVE IndInv' /\ Evolves OBVIOUS
<1>a. TableInv /\ Expanding /\ Held BY DEF IndInv
<1>b. Len(ModulePath) \in Nat /\ Len(ModulePath) >= 1 /\ ModulePath \in Seq(Entry)
  BY ModuleAssumption, EmptySeq, LenProperties DEF Path
<1>c. /\ DirSize \in Nat /\ NoVersion \in Version \cup {NoVersion}
      /\ "Ran out of vinodes" \in Stops
  BY DEF DirSize, Asserts, Stops
<1>d. \A n \in 1..Len(ModulePath) : SubSeq(ModulePath, 1, n) \in TableNames
  BY DEF TableNames, PlainNames, ModuleDirs
<1>e. \A n \in 0..Len(ModulePath) : Len(SubSeq(ModulePath, 1, n)) = n
  <2>1. TAKE n \in 0..Len(ModulePath)
  <2>2. 1 \in Int /\ n \in Int /\ \A i \in 1..n : ModulePath[i] \in Entry
    BY <1>b, <2>1, ElementOfSeq
  <2>3. Len(SubSeq(ModulePath, 1, n)) = IF 1 <= n THEN n - 1 + 1 ELSE 0
    BY <2>2, SubSeqProperties
  <2> QED BY <2>3, <2>1, <1>b
<1>f. \A n \in 1..Len(ModulePath) :
        LET p == SubSeq(ModulePath, 1, n) IN
        (\A own : Fits(p, "NFDIR", DirSize, NoVersion, own)) /\ HasFile(p)
  <2>1. ASSUME NEW n \in 1..Len(ModulePath)
        PROVE  LET p == SubSeq(ModulePath, 1, n) IN p \in ModuleDirs /\ ~Extended(p)
    BY ModuleAssumption DEF ModuleDirs, PlainNames
  <2> QED BY <2>1 DEF Fits, HasFile
<1>1. CASE ExpandRoot
  <2> DEFINE p == SubSeq(ModulePath, 1, 1)
  <2>1. DOMAIN ventry = {}
    <3>1. phase = "expand" /\ count = 0 BY <1>1 DEF ExpandRoot
    <3>2. \A i \in DOMAIN ventry : \E n \in 1..count : TRUE
      BY <3>1, <1>a DEF Expanding
    <3>3. 1..count = {} BY <3>1
    <3> QED BY <3>2, <3>3
  <2>2. /\ p \in TableNames /\ HasFile(p)
        /\ \A own : Fits(p, "NFDIR", DirSize, NoVersion, own)
    BY <1>b, <1>d, <1>f
  <2>3. /\ 2 \in 2..(NumVinodes - 1) /\ TopId = 2 + 1 /\ TopId - 1 = 2
        /\ vinode_bmap \cup {2} = vinode_bmap
    BY BoundsAssumption, <1>a DEF TopId, TableInv, Ids
  <2> HIDE DEF p
  <2>4. ventry' = insert_ventry(TopId, [name |-> p, type |-> "NFDIR",
                    size |-> DirSize, ver |-> NoVersion, dirent |-> <<>>])
    BY <1>1, <2>1 DEF ExpandRoot, insert_ventry, p
  <2>5. Create(2 + 1, p, "NFDIR", DirSize, NoVersion)
    BY <1>1, <2>3, <2>4 DEF ExpandRoot, Create, p
  <2>6. TableInv' /\ Adds(2 + 1, p)
    <3>1. UNCHANGED astray BY <1>1 DEF ExpandRoot
    <3> QED BY <2>1, <2>2, <2>3, <2>5, <3>1, <1>a, <1>c, CreateKeepsTable
  <2>7. Expanding'
    BY <2>1, <2>6, <1>1, <1>a, <1>b DEF Expanding, ExpandRoot, Adds, p
  <2>8. UNCHANGED <<boot, handles>> BY <1>1 DEF ExpandRoot
  <2>9. Held' BY <2>6, <2>8, <1>a, HeldStep DEF Adds
  <2>10. Evolves BY <2>6, <2>8 DEF Evolves, Adds
  <2> QED BY <2>6, <2>7, <2>9, <2>10 DEF IndInv
<1>2. CASE ExpandDir
  <2> DEFINE p == SubSeq(ModulePath, 1, count + 1)
  <2>1. count \in 1..(Len(ModulePath) - 1) /\ phase = "expand" BY <1>2 DEF ExpandDir
  <2>2. count + 1 \in 1..Len(ModulePath) BY <2>1, <1>b
  <2>3. /\ p \in TableNames /\ Len(p) = count + 1
        /\ HasFile(p) /\ \A own : Fits(p, "NFDIR", DirSize, NoVersion, own)
    BY <2>2, <1>d, <1>e, <1>f
  <2>4. \A i \in DOMAIN ventry : ventry[i].name # p
    <3>1. TAKE i \in DOMAIN ventry
    <3>2. PICK n \in 1..count : ventry[i].name = SubSeq(ModulePath, 1, n)
      BY <2>1, <1>a DEF Expanding
    <3>3. Len(ventry[i].name) = n BY <3>2, <2>1, <1>b, <1>e
    <3> QED BY <3>2, <3>3, <2>1, <2>3
  <2> HIDE DEF p
  <2>5. CASE OutOfVinodes /\ Fail("Ran out of vinodes") BY <2>5, <1>c, FailInv
  <2>6. CASE /\ Alloc(p, "NFDIR", DirSize, NoVersion)
             /\ count' = count + 1 /\ UNCHANGED <<phase, boot, handles>>
    <3>1. PICK b \in 0..(NumVinodes - 1) :
            /\ FirstFree(b) /\ Create(b + 1, p, "NFDIR", DirSize, NoVersion)
            /\ UNCHANGED astray
      BY <2>6 DEF Alloc
    <3>2. TableInv' /\ Adds(b + 1, p)
      BY <3>1, <2>3, <2>4, <1>a, <1>c, AllocKeepsTable
    <3>3. ASSUME NEW i \in DOMAIN ventry'
          PROVE  \E n \in 1..count' : ventry'[i].name = SubSeq(ModulePath, 1, n)
      <4>1. CASE i = b + 1
        <5>1. count + 1 \in 1..count' BY <2>6, <2>1
        <5> QED BY <5>1, <4>1, <3>2 DEF Adds, p
      <4>2. CASE i # b + 1
        <5>1. i \in DOMAIN ventry /\ ventry'[i].name = ventry[i].name
          BY <4>2, <3>2 DEF Adds
        <5>2. PICK n \in 1..count : ventry[i].name = SubSeq(ModulePath, 1, n)
          BY <5>1, <2>1, <1>a DEF Expanding
        <5>3. n \in 1..count' BY <5>2, <2>1, <2>6
        <5> QED BY <5>1, <5>2, <5>3
      <4> QED BY <4>1, <4>2
    <3>4. Expanding' BY <3>3, <2>1, <2>2, <2>6, <1>a, <1>b DEF Expanding
    <3>5. Held' BY <3>2, <2>6, <1>a, HeldStep DEF Adds
    <3>6. Evolves BY <3>2, <2>6 DEF Evolves, Adds
    <3> QED BY <3>2, <3>4, <3>5, <3>6 DEF IndInv
  <2> QED BY <2>5, <2>6, <1>2 DEF ExpandDir, p
<1>3. CASE CheckoutBegin \/ CheckoutEnd
  <2>1. /\ UNCHANGED table /\ UNCHANGED <<count, boot, handles>>
        /\ phase' \in {"checkout", "serve"}
    BY <1>3 DEF CheckoutBegin, CheckoutEnd
  <2>2. TableInv' BY <2>1, <1>a, TableUnchanged
  <2>3. Expanding' BY <2>1, <1>a DEF Expanding
  <2>4. Held' BY <2>1, <2>2, <1>a, HeldStep DEF table
  <2>5. Evolves BY <2>1 DEF Evolves, Keeps, table
  <2> QED BY <2>2, <2>3, <2>4, <2>5 DEF IndInv
<1>4. ASSUME NEW p \in Loadable, phase = "checkout", NextListed(p),
             NEW type \in {"NFDIR", "NFREG"}, NEW size \in Nat,
             NEW ver \in Version \cup {NoVersion},
             type = "NFREG" => /\ p \in DOMAIN Repo /\ ver \in DOMAIN Repo[p]
                               /\ size = Repo[p][ver],
             type = "NFDIR" => p \in Dirs \cup Messages,
             \/ Alloc(p, type, size, ver) /\ UNCHANGED <<phase, count, boot, handles>>
             \/ OutOfVinodes /\ Fail("Ran out of vinodes")
      PROVE  IndInv' /\ Evolves
  <2>1. p \in TableNames BY DEF TableNames, PlainNames
  <2>2. \A i \in DOMAIN ventry : ventry[i].name # p BY <1>4 DEF NextListed, Listed
  <2>3. HasFile(p) /\ \A own : Fits(p, type, size, ver, own)
    <3>1. ~Extended(p) BY ModuleAssumption DEF PlainNames
    <3>2. p \in DOMAIN Repo => Unextended(p) = p BY VersionedNames, RepoIsPlain
    <3> QED BY <3>1, <3>2, <1>4 DEF Fits, HasFile
  <2>4. CASE OutOfVinodes /\ Fail("Ran out of vinodes") BY <2>4, <1>c, FailInv
  <2>5. CASE Alloc(p, type, size, ver) /\ UNCHANGED <<phase, count, boot, handles>>
    <3>1. PICK b \in 0..(NumVinodes - 1) :
            FirstFree(b) /\ Create(b + 1, p, type, size, ver) /\ UNCHANGED astray
      BY <2>5 DEF Alloc
    <3>2. TableInv' /\ Adds(b + 1, p)
      BY <3>1, <2>1, <2>2, <2>3, <1>a, AllocKeepsTable
    <3>3. Expanding' BY <2>5, <1>4, <1>a DEF Expanding
    <3>4. Held' BY <3>2, <2>5, <1>a, HeldStep DEF Adds
    <3>5. Evolves BY <3>2, <2>5 DEF Evolves, Adds
    <3> QED BY <3>2, <3>3, <3>4, <3>5 DEF IndInv
  <2> QED BY <2>4, <2>5, <1>4
<1>5. ASSUME NEW p \in Dirs \cup Messages, CheckoutDir(p) PROVE IndInv' /\ Evolves
  BY <1>4, <1>5, <1>c DEF CheckoutDir, Loadable
<1>6. ASSUME NEW p \in DOMAIN Repo, NEW r \in Version, CheckoutFile(p, r)
      PROVE  IndInv' /\ Evolves
  <2>1. Repo[p][r] \in Nat BY <1>6, RepoAssumption DEF CheckoutFile
  <2> QED BY <1>4, <1>6, <2>1 DEF CheckoutFile, Loadable
<1> QED BY <1>1, <1>2, <1>3, <1>5, <1>6 DEF Load

\* What a LOOKUP finds under a name without a comma is a name that was loaded.
LEMMA LookupsArePlain ==
    ASSUME IndInv, NEW h \in handles \cup {RootHandle}, get_fh(h) # NULL, NEW n \in Name,
           lookup_fh_name(Append(NameOf(get_fh(h)), [base |-> n, ver |-> NoVersion])) # NULL
    PROVE  Append(NameOf(get_fh(h)), [base |-> n, ver |-> NoVersion]) \in PlainNames
<1> DEFINE d == NameOf(get_fh(h))
           e == [base |-> n, ver |-> NoVersion]
           p == Append(d, e)
<1>1. d \in TableNames \cup {<<>>} BY HandleResolves
<1>2. e \in Entry BY DEF Entry
<1>3. d \in Seq(Entry)
  <2>1. <<>> \in Seq(Entry) /\ TableNames \subseteq Seq(Entry)
    BY TableNamesArePaths DEF Path
  <2> QED BY <2>1, <1>1
<1>4. p \in HashedNames BY <1>1 DEF HashedNames
<1>5. p \in TableNames
  <2>1. TableInv BY DEF IndInv
  <2>2. PICK i \in DOMAIN ventry : ventry[i].name = p BY <2>1, <1>4, LookupFinds
  <2> QED BY <2>1, <2>2 DEF TableInv, Entries, VEntry
<1>6. Last(p) = e BY <1>2, <1>3, LastOfAppend
<1>7. Last(p).ver = NoVersion BY <1>6
<1> HIDE DEF p
<1>8. ASSUME NEW g \in PlainNames, NEW w \in Version, p = WithVersion(g, w) PROVE FALSE
  <2>1. Last(p).ver = w BY <1>8, VersionedNames
  <2> QED BY <2>1, <1>7, ModuleAssumption
<1> QED BY <1>5, <1>8 DEF TableNames, ExtendedNames, p

\* Each request of a client.
LEMMA RequestInv == IndInv /\ Request => IndInv' /\ Evolves
<1> SUFFICES ASSUME IndInv, Request PROVE IndInv' /\ Evolves OBVIOUS
<1>a. TableInv /\ Expanding /\ Held BY DEF IndInv
<1>b. \A a \in {"Ran out of vinodes", "bad filehandle", "no parent", "not a file",
                "weird response", "crashed"} : a \in Stops
  BY DEF Stops, Asserts
<1>c. \A d \in TableNames \cup {<<>>}, n \in Name :
        Append(d, [base |-> n, ver |-> NoVersion]) \in HashedNames
  BY DEF HashedNames
<1>d. \A q, i : q \in HashedNames /\ i = lookup_fh_name(q) /\ i # NULL =>
                   i \in DOMAIN ventry /\ ventry[i].name = q
  BY <1>a, LookupFinds
<1>e. \A q \in HashedNames : lookup_fh_name(q) = NULL =>
                               \A i \in DOMAIN ventry : ventry[i].name # q
  BY <1>a, LookupFinds
<1>1. ASSUME NEW h \in handles \cup {RootHandle}, NEW n \in Name, LookupPlain(h, n)
      PROVE  IndInv' /\ Evolves
  <2> DEFINE p == Append(NameOf(get_fh(h)), [base |-> n, ver |-> NoVersion])
             f == lookup_fh_name(p)
  <2>1. /\ get_fh(h) # NULL /\ f # NULL /\ Grant(f, ventry[f].name)
        /\ UNCHANGED <<phase, table, count, boot>>
    BY <1>1 DEF LookupPlain
  <2>2. p \in HashedNames BY <2>1, <1>c, HandleResolves
  <2>3. f \in DOMAIN ventry BY <2>1, <2>2, <1>d
  <2> HIDE DEF f
  <2>4. TableInv' /\ ventry' = ventry BY <2>1, <1>a, TableUnchanged DEF table
  <2>5. Expanding' BY <2>1, <2>4, <1>a DEF Expanding
  <2>6. Held' BY <2>1, <2>3, <2>4, <1>a, HeldStep
  <2>7. Evolves BY <2>1, <2>3, <2>4 DEF Evolves, Keeps
  <2> QED BY <2>4, <2>5, <2>6, <2>7 DEF IndInv
<1>2. ASSUME NEW h \in handles \cup {RootHandle}, NEW n \in Name, NEW v \in Version,
             LookupExtended(h, n, v)
      PROVE  IndInv' /\ Evolves
  <2> DEFINE p == Append(NameOf(get_fh(h)), [base |-> n, ver |-> NoVersion])
             q == WithVersion(p, v)
             f == lookup_fh_name(p)
             x == lookup_fh_name(q)
             own == v \in LogOf(p)
  <2>1. /\ phase = "serve" /\ get_fh(h) # NULL /\ f # NULL
        /\ UNCHANGED <<count, boot>>
        /\ \/ phase' \in {"crashed", "Ran out of vinodes"} /\ UNCHANGED <<table, handles>>
           \/ x # NULL /\ Grant(x, q) /\ UNCHANGED <<phase, table>>
           \/ /\ x = NULL
              /\ \E b \in 0..(NumVinodes - 1) :
                    /\ FirstFree(b)
                    /\ Create(b + 1, q, "NFREG", ventry[f].size, v)
                    /\ Grant(b + 1, q)
                    /\ astray' = IF own /\ f \notin astray THEN astray
                                 ELSE astray \cup {b + 1}
              /\ UNCHANGED phase
    BY <1>2 DEF LookupExtended
  <2>2. p \in HashedNames BY <2>1, <1>c, HandleResolves
  <2>3. f \in DOMAIN ventry /\ ventry[f].size \in Nat /\ ventry[f].name = p
    <3>1. f \in DOMAIN ventry /\ ventry[f].name = p BY <2>1, <2>2, <1>d
    <3> HIDE DEF f
    <3> QED BY <3>1, <1>a DEF TableInv, Entries, VEntry
  <2>4. p \in PlainNames BY <1>2, LookupsArePlain DEF LookupExtended
  <2>11. own => p \in DOMAIN Repo /\ v \in Logged[p] BY DEF LogOf
  <2> HIDE DEF p, own
  <2>5. /\ q \in TableNames /\ q \in HashedNames
        /\ Unextended(q) = p /\ Last(q).ver = v
    BY <2>4, VersionedNames, HashInBucket
  <2> HIDE DEF q, f
  <2>9. HasFile(q) /\ Fits(q, "NFREG", ventry[f].size, v, own /\ f \notin astray)
    <3>1. ASSUME own, f \notin astray PROVE Fits(q, "NFREG", ventry[f].size, v, TRUE)
      <4>1. p \notin ModuleDirs \cup Dirs \cup Messages
        BY <2>11, <3>1, RepoAssumption DEF Loadable
      <4>2. ventry[f].type \in {"NFDIR", "NFREG"}
        BY <2>3, <1>a DEF TableInv, Entries, VEntry
      <4>3. Fits(p, ventry[f].type, ventry[f].size, ventry[f].ver, TRUE)
        BY <2>3, <3>1, <1>a DEF TableInv, Backed
      <4>4. ventry[f].type = "NFREG" BY <4>1, <4>2, <4>3 DEF Fits
      <4>5. Unextended(p) = p BY <2>4, VersionedNames
      <4>6. \E r \in DOMAIN Repo[p] : ventry[f].size = Repo[p][r]
        BY <4>3, <4>4, <4>5 DEF Fits
      <4> QED BY <4>6, <2>5, <2>11, <3>1 DEF Fits
    <3>2. HasFile(q) BY <2>3, <2>5 DEF HasFile
    <3> QED BY <3>1, <3>2 DEF Fits
  <2>6. CASE x # NULL /\ Grant(x, q) /\ UNCHANGED <<phase, table>>
    <3>1. x \in DOMAIN ventry /\ ventry[x].name = q BY <2>5, <2>6, <1>d
    <3> HIDE DEF x
    <3>2. TableInv' /\ ventry' = ventry BY <2>6, <1>a, TableUnchanged DEF table
    <3>3. Expanding' BY <2>1, <2>6, <1>a, <3>2 DEF Expanding
    <3>4. Held' BY <2>1, <2>6, <3>1, <3>2, <1>a, HeldStep
    <3>5. Evolves BY <2>1, <2>6, <3>1, <3>2 DEF Evolves, Keeps
    <3> QED BY <3>2, <3>3, <3>4, <3>5 DEF IndInv
  <2>7. ASSUME x = NULL, UNCHANGED phase, NEW b \in 0..(NumVinodes - 1), FirstFree(b),
               Create(b + 1, q, "NFREG", ventry[f].size, v), Grant(b + 1, q),
               astray' = IF own /\ f \notin astray THEN astray ELSE astray \cup {b + 1}
        PROVE  IndInv' /\ Evolves
    <3>1. \A i \in DOMAIN ventry : ventry[i].name # q BY <2>5, <2>7, <1>e
    <3>2. TableInv' /\ Adds(b + 1, q)
      <4>1. astray' \in {astray, astray \cup {b + 1}} BY <2>7
      <4>2. Fits(q, "NFREG", ventry[f].size, v, b + 1 \notin astray')
        BY <2>7, <2>9 DEF Fits
      <4> QED BY <2>3, <2>4, <2>5, <2>7, <2>9, <3>1, <4>1, <4>2, <1>a, AllocKeepsTable
    <3>3. Expanding' BY <2>1, <2>7, <1>a DEF Expanding
    <3>4. Held' BY <2>1, <2>7, <3>2, <1>a, HeldStep DEF Adds
    <3>5. Evolves BY <2>1, <2>5, <2>7, <3>2 DEF Evolves, Adds
    <3> QED BY <3>2, <3>3, <3>4, <3>5 DEF IndInv
  <2>8. CASE phase' \in {"crashed", "Ran out of vinodes"} /\ UNCHANGED <<table, handles>>
    <3>1. phase' \in Stops /\ Fail(phase') BY <2>1, <2>8, <1>b DEF Fail
    <3> QED BY <3>1, FailInv
  <2> QED BY <2>1, <2>6, <2>7, <2>8
<1>f. ASSUME NEW f \in DOMAIN ventry, NEW e, NEW own \in BOOLEAN, phase = "serve",
             Rewrite(f, e, own), e \in VEntry(DOMAIN ventry), e.name = ventry[f].name,
             Fits(e.name, e.type, e.size, e.ver, own /\ f \notin astray)
      PROVE  IndInv' /\ Evolves
  <2>1. TableInv' /\ Keeps BY <1>f, <1>a, RewriteKeepsTable
  <2>2. UNCHANGED <<phase, count, boot, handles>> BY <1>f DEF Rewrite
  <2>3. Held' BY <2>1, <2>2, <1>a, HeldStep DEF Keeps
  <2>4. Expanding' BY <2>2, <1>f, <1>a DEF Expanding
  <2>5. Evolves BY <2>1, <2>2 DEF Evolves
  <2> QED BY <2>1, <2>3, <2>4, <2>5 DEF IndInv
<1>g. ASSUME NEW f \in DOMAIN ventry
      PROVE  /\ ventry[f] \in VEntry(DOMAIN ventry)
             /\ Fits(ventry[f].name, ventry[f].type, ventry[f].size, ventry[f].ver,
                     f \notin astray)
  BY <1>a DEF TableInv, Entries, Backed
<1>3. ASSUME NEW h \in handles \cup {RootHandle}, Read(h) PROVE IndInv' /\ Evolves
  <2> DEFINE f == get_fh(h)
             WithSize(n) == [ventry[f] EXCEPT !.size = n]
             own == Repo[Unextended(ventry[f].name)][ventry[f].ver]
  <2>1. CASE f = NULL /\ Fail("bad filehandle") BY <2>1, <1>b, FailInv
  <2>2. CASE f # NULL /\ Fail("crashed") BY <2>2, <1>b, FailInv
  <2>3. phase = "serve" BY <1>3 DEF Read
  <2>4. ASSUME f \in DOMAIN ventry, NEW n \in Nat
        PROVE  /\ WithSize(n) \in VEntry(DOMAIN ventry)
               /\ WithSize(n).name = ventry[f].name /\ WithSize(n).ver = ventry[f].ver
               /\ WithSize(n).type = ventry[f].type /\ WithSize(n).size = n
    <3> HIDE DEF f
    <3> QED BY <2>4, <1>g DEF VEntry
  <2>5. CASE /\ f \notin {NULL, Root} /\ ventry[f].ver \in Revisions(ventry[f].name)
             /\ Rewrite(f, WithSize(own), TRUE)
    <3>1. f \in DOMAIN ventry BY <2>5, HandleResolves
    <3>2. /\ Unextended(ventry[f].name) \in DOMAIN Repo
          /\ ventry[f].ver \in DOMAIN Repo[Unextended(ventry[f].name)]
      BY <2>5 DEF Revisions
    <3>3. own \in Nat BY <3>2, RepoAssumption
    <3> DEFINE e == WithSize(own)
    <3>4. /\ e \in VEntry(DOMAIN ventry) /\ e.name = ventry[f].name
          /\ e.ver = ventry[f].ver /\ e.type = ventry[f].type /\ e.size = own
      <4> HIDE DEF own
      <4> QED BY <3>1, <3>3, <2>4
    <3> HIDE DEF e, f
    <3>5. Fits(e.name, e.type, e.size, e.ver, f \notin astray)
      BY <3>1, <3>2, <3>4, <1>g DEF Fits
    <3> QED BY <2>5, <3>1, <2>3, <3>4, <3>5, <1>f DEF e
  <2>6. ASSUME f \notin {NULL, Root}, NEW n \in StraySizes, Rewrite(f, WithSize(n), FALSE)
        PROVE  IndInv' /\ Evolves
    <3>1. f \in DOMAIN ventry BY <2>6, HandleResolves
    <3>2. n \in Nat BY BoundsAssumption
    <3> DEFINE e == WithSize(n)
    <3>3. /\ e \in VEntry(DOMAIN ventry) /\ e.name = ventry[f].name
          /\ e.type = ventry[f].type
      BY <3>1, <3>2, <2>4
    <3> HIDE DEF e, f
    <3>4. Fits(e.name, e.type, e.size, e.ver, FALSE) BY <3>1, <3>3, <1>g DEF Fits
    <3> QED BY <2>6, <3>1, <2>3, <3>3, <3>4, <1>f DEF e
  <2> QED BY <1>3, <2>1, <2>2, <2>5, <2>6 DEF Read
<1>4. ASSUME NEW h \in handles \cup {RootHandle}, Readdir(h) PROVE IndInv' /\ Evolves
  <2>1. PICK a \in ReaddirAsserts(get_fh(h)) : Fail(a) BY <1>4 DEF Readdir
  <2>2. a \in Stops BY <1>b DEF ReaddirAsserts
  <2> QED BY <2>1, <2>2, FailInv
<1>5. ASSUME NEW p \in UpdateTargets, NEW r \in Version, Update(p, r) PROVE IndInv' /\ Evolves
  <2> DEFINE f == lookup_fh_name(p)
             e == [ventry[f] EXCEPT !.ver = r]
  <2>1. f # NULL /\ phase = "serve" BY <1>5 DEF Update
  <2>2. f \in DOMAIN ventry /\ ventry[f].name = p
    BY <2>1, <1>d DEF HashedNames
  <2>3. CASE Fail("not a file") \/ Fail("weird response") BY <2>3, <1>b, FailInv
  <2>4. CASE Rewrite(f, e, p \in DOMAIN Repo)
    <3> HIDE DEF f
    <3>1. /\ e \in VEntry(DOMAIN ventry) /\ e.name = p /\ e.ver = r
          /\ e.type = ventry[f].type /\ e.size = ventry[f].size
      BY <2>2, <1>g DEF VEntry
    <3> HIDE DEF e
    <3>2. p \in DOMAIN Repo => ~Extended(p) BY VersionedNames, RepoIsPlain
    <3>3. Fits(e.name, e.type, e.size, e.ver, p \in DOMAIN Repo /\ f \notin astray)
      BY <2>2, <3>1, <3>2, <1>g DEF Fits
    <3> DEFINE own == p \in DOMAIN Repo
    <3>4. own \in BOOLEAN /\ Rewrite(f, e, own) /\ e.name = ventry[f].name
      BY <2>2, <2>4, <3>1
    <3>5. Fits(e.name, e.type, e.size, e.ver, own /\ f \notin astray) BY <3>3
    <3> HIDE DEF own
    <3> QED BY <2>1, <2>2, <3>1, <3>4, <3>5, <1>f
  <2> QED BY <1>5, <2>3, <2>4 DEF Update
<1> QED BY <1>1, <1>2, <1>3, <1>4, <1>5 DEF Request

\* A restart leaves an empty table, and no handle of the run that begins.
LEMMA RestartInv == IndInv /\ Restart => IndInv' /\ Evolves
<1> SUFFICES ASSUME IndInv, Restart PROVE IndInv' /\ Evolves OBVIOUS
<1>1. /\ phase' = "expand" /\ count' = 0 /\ vinode_bmap' = {0, 1, 2}
      /\ DOMAIN ventry' = {} /\ file_hash' = [b \in Bucket |-> <<>>]
      /\ boot' = boot + 1 /\ boot < MaxRestarts /\ handles' = handles /\ astray' = {}
  BY DEF Restart
<1>2. Ids' BY <1>1, BoundsAssumption DEF Ids
<1>3. Chains' BY <1>1, EmptySeq DEF Chains
<1>4. Entries' /\ Backed' /\ Based' /\ Distinct' /\ Filed'
  BY <1>1 DEF Entries, Backed, Based, Distinct, Filed
<1>5. NoRepeats' BY <1>1 DEF NoRepeats
<1>6. Expanding'
  <2>1. Len(ModulePath) \in Nat BY ModuleAssumption, LenProperties DEF Path
  <2> QED BY <2>1, <1>1 DEF Expanding
<1>7. Held'
  <2>1. boot \in 0..MaxRestarts /\ MaxRestarts \in Nat
    BY BoundsAssumption DEF IndInv, Held
  <2>2. boot' \in 0..MaxRestarts /\ 0..boot \subseteq 0..boot' BY <2>1, <1>1
  <2>3. \A h \in handles : h.boot # boot' BY <2>1, <1>1 DEF IndInv, Held
  <2> QED BY <2>2, <2>3, <1>1 DEF IndInv, Held
<1>8. Evolves BY <1>1 DEF Evolves
<1> QED BY <1>2, <1>3, <1>4, <1>5, <1>6, <1>7, <1>8 DEF IndInv, TableInv

LEMMA StutterInv == IndInv /\ UNCHANGED vars => IndInv' /\ Evolves
<1> SUFFICES ASSUME IndInv, UNCHANGED vars PROVE IndInv' /\ Evolves OBVIOUS
<1>1. TableInv' BY TableUnchanged DEF IndInv, vars, table
<1>2. Expanding' BY DEF IndInv, Expanding, vars
<1>3. Held' BY DEF IndInv, Held, vars, hash
<1>4. Evolves BY DEF Evolves, Keeps, vars
<1> QED BY <1>1, <1>2, <1>3, <1>4 DEF IndInv

LEMMA NextInv == IndInv /\ [Next]_vars => IndInv' /\ Evolves
BY LoadInv, RequestInv, RestartInv, StutterInv DEF Next

\* The inductive invariant holds in every reachable state.
THEOREM IndInvHolds == Spec => []IndInv
<1>1. Init => IndInv BY InitInv
<1>2. IndInv /\ [Next]_vars => IndInv' BY NextInv
<1> QED BY <1>1, <1>2, PTL DEF Spec

-----------------------------------------------------------------------------
(* What follows from it. *)

LEMMA TypeOKFollows == IndInv => TypeOK
<1> SUFFICES ASSUME IndInv PROVE TypeOK OBVIOUS
<1>1. DOMAIN ventry \subseteq 1..NumVinodes
  BY BoundsAssumption DEF IndInv, TableInv, Ids
<1>2. vinode_bmap \subseteq 0..(NumVinodes - 1) /\ astray \subseteq DOMAIN ventry
  BY DEF IndInv, TableInv, Ids
<1> QED BY <1>1, <1>2
        DEF IndInv, TypeOK, TableInv, Entries, VEntry, Chains, Expanding, Held

\* Type correctness, for every project and every size of the tables.
THEOREM TypeCorrect == Spec => []TypeOK
BY IndInvHolds, TypeOKFollows, PTL

\* A name with a revision is a file and has the name without one in the table;
\* and unless a strange answer made or moved it, it stands for a number that the
\* log of its file names, through all lookups, reads and updates.
THEOREM PinnedCorrect == Spec => []ExtendedPinned
<1>1. ASSUME IndInv PROVE ExtendedPinned
  <2>1. ASSUME NEW i \in DOMAIN ventry, Extended(ventry[i].name)
        PROVE  /\ lookup_fh_name(Unextended(ventry[i].name)) # NULL
               /\ ventry[i].type = "NFREG"
               /\ i \notin astray =>
                     /\ Unextended(ventry[i].name) \in DOMAIN Repo
                     /\ ventry[i].ver = Last(ventry[i].name).ver
                     /\ ventry[i].ver \in Logged[Unextended(ventry[i].name)]
    <3>1. ventry[i].type \in {"NFDIR", "NFREG"}
      BY <1>1 DEF IndInv, TableInv, Entries, VEntry
    <3>2. Fits(ventry[i].name, ventry[i].type, ventry[i].size, ventry[i].ver, i \notin astray)
      BY <1>1 DEF IndInv, TableInv, Backed
    <3>3. ventry[i].name \notin ModuleDirs \cup Dirs \cup Messages
      BY <2>1, ModuleAssumption DEF Loadable, PlainNames
    <3>4. ventry[i].type = "NFREG" BY <3>1, <3>2, <3>3 DEF Fits
    <3>5. PICK j \in DOMAIN ventry : ventry[j].name = Unextended(ventry[i].name)
      BY <1>1, <2>1 DEF IndInv, TableInv, Based, HasFile
    <3>6. lookup_fh_name(Unextended(ventry[i].name)) # NULL
      <4>1. Unextended(ventry[i].name) \in HashedNames
        BY <3>5, <1>1, HashInBucket DEF IndInv, TableInv, Entries, VEntry
      <4> QED BY <4>1, <3>5, <1>1, LookupFinds DEF IndInv
    <3> QED BY <2>1, <3>2, <3>4, <3>6 DEF Fits
  <2> QED BY <2>1 DEF ExtendedPinned
<1> QED BY <1>1, IndInvHolds, PTL

\* The size that clients are told of a file is the length of one of its own
\* revisions, unless a strange answer set it.
THEOREM SizesCorrect == Spec => []SizesOwn
<1>1. IndInv => SizesOwn BY DEF IndInv, TableInv, Backed, Fits, SizesOwn
<1> QED BY <1>1, IndInvHolds, PTL

\* No two ventries share a name, and lookup_fh_name finds each of them in the
\* bucket its name hashes to.
THEOREM LookupCorrect == Spec => []LookupRoundTrip
<1>1. IndInv => LookupRoundTrip
  <2> SUFFICES ASSUME IndInv, NEW i \in DOMAIN ventry
               PROVE  lookup_fh_name(ventry[i].name) = i
    BY DEF LookupRoundTrip
  <2>1. ventry[i].name \in HashedNames
    BY HashInBucket DEF IndInv, TableInv, Entries, VEntry
  <2>2. TableInv /\ Distinct BY DEF IndInv, TableInv
  <2> QED BY <2>1, <2>2, LookupFinds DEF Distinct
<1> QED BY <1>1, IndInvHolds, PTL

\* A handle given out since the daemon started resolves, through its bucket
\* and id, to the file it was given out for.
THEOREM HandlesCorrect == Spec => []HandleIdentity
<1>1. IndInv => HandleIdentity
  <2> SUFFICES ASSUME IndInv, NEW h \in handles, h.boot = boot
               PROVE  get_fh(h) = h.id /\ NameOf(h.id) = h.name
    BY DEF HandleIdentity
  <2>1. /\ h.id \in DOMAIN ventry /\ ventry[h.id].name = h.name
        /\ h.key = hash(h.name)
    BY DEF IndInv, Held
  <2>2. h.id # 1 /\ h.id # Root BY <2>1 DEF IndInv, TableInv, Ids, Root
  <2>3. h # RootHandle BY <2>2 DEF RootHandle
  <2>4. \E k \in DOMAIN file_hash[h.key] : file_hash[h.key][k] = h.id
    BY <2>1 DEF IndInv, TableInv, Filed
  <2> QED BY <2>1, <2>2, <2>3, <2>4 DEF get_fh, find_fh, NameOf
<1> QED BY <1>1, IndInvHolds, PTL

\* Only a handle from before a restart, and one that the table does not know,
\* fails the ASSERT of READ or READDIR.
THEOREM HandlesAlwaysResolve == Spec => []HandlesResolve
<1>1. Init => HandlesResolve BY DEF Init, EmptyTable, HandlesResolve
<1>2. ASSUME IndInv, HandleIdentity, HandlesResolve, [Next]_vars PROVE HandlesResolve'
  <2>1. \A h \in handles : get_fh(h) = NULL => h.boot < boot
    <3>1. SUFFICES ASSUME NEW h \in handles, get_fh(h) = NULL PROVE h.boot < boot
      OBVIOUS
    <3>2. h.boot \in 0..boot /\ boot \in Nat
      BY <1>2, BoundsAssumption DEF IndInv, Held
    <3>3. h.boot # boot
      <4>1. h.boot = boot => get_fh(h) = h.id /\ h.id \in Nat
        BY <1>2 DEF HandleIdentity, IndInv, Held
      <4> QED BY <4>1, <3>1 DEF NULL
    <3> QED BY <3>2, <3>3
  <2>2. get_fh(RootHandle) # NULL BY DEF get_fh, Root, NULL
  <2>3. ASSUME NEW h \in handles \cup {RootHandle}, get_fh(h) = NULL, Fail("bad filehandle")
        PROVE  HandlesResolve'
    <3>1. h \in handles BY <2>2, <2>3
    <3>2. \A g : get_fh(g)' = get_fh(g)
      BY <2>3 DEF Fail, table, get_fh, find_fh
    <3>3. UNCHANGED <<handles, boot>> BY <2>3 DEF Fail
    <3> QED BY <3>1, <3>2, <3>3, <2>1, <2>3 DEF HandlesResolve
  <2>4. phase' # "bad filehandle" => HandlesResolve' BY DEF HandlesResolve
  <2>5. CASE Load
    <3>1. phase \in {"expand", "checkout"}
      BY <2>5 DEF Load, ExpandRoot, ExpandDir, CheckoutBegin, CheckoutEnd, CheckoutDir,
                  CheckoutFile
    <3>2. phase' \in {phase, "checkout", "serve", "Ran out of vinodes"}
      BY <2>5 DEF Load, ExpandRoot, ExpandDir, CheckoutBegin, CheckoutEnd, CheckoutDir,
                  CheckoutFile, Fail
    <3> QED BY <3>1, <3>2, <2>4
  <2>6. CASE Request
    <3>1. phase = "serve"
      <4>1. \A h, n : LookupPlain(h, n) => phase = "serve" BY DEF LookupPlain
      <4>2. ASSUME NEW h, NEW n, NEW v, LookupExtended(h, n, v) PROVE phase = "serve"
        BY <4>2 DEF LookupExtended
      <4>3. \A h : Read(h) \/ Readdir(h) => phase = "serve" BY DEF Read, Readdir
      <4>4. \A p, r : Update(p, r) => phase = "serve" BY DEF Update
      <4> QED BY <2>6, <4>1, <4>2, <4>3, <4>4 DEF Request
    <3>2. ASSUME NEW h \in handles \cup {RootHandle}, Readdir(h) PROVE HandlesResolve'
      <4>1. PICK a \in ReaddirAsserts(get_fh(h)) : Fail(a) BY <3>2 DEF Readdir
      <4>2. phase' = a BY <4>1 DEF Fail
      <4>3. CASE a = "bad filehandle"
        <5>1. get_fh(h) = NULL BY <4>1, <4>3 DEF ReaddirAsserts
        <5> QED BY <5>1, <4>1, <4>3, <2>3
      <4> QED BY <4>2, <4>3, <2>4
    <3>3. ASSUME NEW h \in handles \cup {RootHandle}, Read(h) PROVE HandlesResolve'
      <4>1. \/ get_fh(h) = NULL /\ Fail("bad filehandle")
            \/ phase' \in {"crashed", phase}
        BY <3>3 DEF Read, Rewrite, Fail
      <4> QED BY <4>1, <3>1, <2>3, <2>4
    <3>4. ASSUME NEW p \in UpdateTargets, NEW r \in Version, Update(p, r)
          PROVE  phase' \in {phase, "not a file", "weird response"}
      BY <3>4 DEF Update, Rewrite, Fail
    <3>5. ASSUME NEW h \in handles \cup {RootHandle}, NEW n \in Name
          PROVE  /\ LookupPlain(h, n) => UNCHANGED phase
                 /\ \A v \in Version : LookupExtended(h, n, v) =>
                        phase' \in {phase, "crashed", "Ran out of vinodes"}
      <4>1. LookupPlain(h, n) => UNCHANGED phase BY DEF LookupPlain
      <4>2. ASSUME NEW v \in Version, LookupExtended(h, n, v)
            PROVE  phase' \in {phase, "crashed", "Ran out of vinodes"}
        BY <4>2 DEF LookupExtended
      <4> QED BY <4>1, <4>2
    <3> QED BY <2>4, <2>6, <3>1, <3>2, <3>3, <3>4, <3>5 DEF Request
  <2>7. CASE Restart BY <2>7, <2>4 DEF Restart
  <2>8. CASE UNCHANGED vars
    <3>1. \A g : get_fh(g)' = get_fh(g) BY <2>8 DEF vars, get_fh, find_fh
    <3> QED BY <3>1, <2>8, <1>2 DEF vars, HandlesResolve
  <2> QED BY <2>5, <2>6, <2>7, <2>8, <1>2 DEF Next
<1> QED BY <1>1, <1>2, IndInvHolds, HandlesCorrect, PTL DEF Spec

-----------------------------------------------------------------------------
(* The table implements Handles. *)

Names == [i \in DOMAIN ventry |-> ventry[i].name]
Granted == {<<h.id, h.name>> : h \in {g \in handles : g.boot = boot}}

LEMMA InitRefines == Init => Service!Init
<1> SUFFICES ASSUME Init PROVE Service!Init OBVIOUS
<1>1. Names = <<>> BY DEF Init, EmptyTable, Names
<1>2. Granted = {} BY DEF Init, Granted
<1> QED BY <1>1, <1>2 DEF Service!Init, Names, Granted

\* A handle of this run that is given out is granted in the sense of Handles.
LEMMA GrantAdds ==
    ASSUME UNCHANGED boot, NEW id, NEW p, Grant(id, p)
    PROVE  Granted' = Granted \cup {<<id, p>>}
<1> DEFINE g == [boot |-> boot, id |-> id, key |-> hash(p), name |-> p]
<1>1. handles' = handles \cup {g} BY DEF Grant
<1>2. g.boot = boot /\ g.id = id /\ g.name = p OBVIOUS
<1> HIDE DEF g
<1>3. {h \in handles' : h.boot = boot} = {h \in handles : h.boot = boot} \cup {g}
  BY <1>1, <1>2
<1>4. Granted' = {<<h.id, h.name>> : h \in {f \in handles' : f.boot = boot}}
  BY DEF Granted
<1> QED BY <1>2, <1>3, <1>4 DEF Granted

LEMMA StepRefines ==
    ASSUME IndInv, Evolves
    PROVE  [Service!Next]_<<Names, Granted>>
<1>1. CASE /\ Keeps /\ UNCHANGED boot
           /\ \/ UNCHANGED handles
              \/ \E id \in DOMAIN ventry : Grant(id, ventry[id].name)
  <2>1. Names' = Names BY <1>1 DEF Keeps, Names
  <2>2. CASE UNCHANGED handles
    <3>1. Granted' = Granted BY <2>2, <1>1 DEF Granted
    <3> QED BY <2>1, <3>1
  <2>3. ASSUME NEW id \in DOMAIN ventry, Grant(id, ventry[id].name)
        PROVE  [Service!Next]_<<Names, Granted>>
    <3>1. Granted' = Granted \cup {<<id, ventry[id].name>>}
      BY <2>3, <1>1, GrantAdds
    <3>2. Names[id] = ventry[id].name /\ DOMAIN Names = DOMAIN ventry BY DEF Names
    <3>3. id \in 1..NumVinodes BY BoundsAssumption DEF IndInv, TableInv, Ids
    <3>4. Service!Give(id) BY <2>1, <3>1, <3>2 DEF Service!Give, Names, Granted
    <3> QED BY <3>3, <3>4 DEF Service!Next
  <2> QED BY <1>1, <2>2, <2>3
<1>2. ASSUME UNCHANGED boot, NEW id \in 1..NumVinodes, NEW p \in TableNames,
             Adds(id, p), UNCHANGED handles \/ Grant(id, p)
      PROVE  [Service!Next]_<<Names, Granted>>
  <2>1. Service!Unbound(id, p) BY <1>2 DEF Adds, Service!Unbound
  <2>2. Names' = [j \in DOMAIN Names \cup {id} |-> IF j = id THEN p ELSE Names[j]]
    BY <1>2 DEF Adds, Names
  <2>3. Names' = Service!Extend(id, p) BY <2>2 DEF Service!Extend, Names
  <2>4. CASE UNCHANGED handles
    <3>1. Granted' = Granted BY <2>4, <1>2 DEF Granted
    <3>2. Service!Bind(id, p) BY <2>1, <2>3, <3>1 DEF Service!Bind, Names, Granted
    <3> QED BY <3>2 DEF Service!Next
  <2>5. CASE Grant(id, p)
    <3>1. Granted' = Granted \cup {<<id, p>>} BY <2>5, <1>2, GrantAdds
    <3>2. Service!BindAndGive(id, p)
      BY <2>1, <2>3, <3>1 DEF Service!BindAndGive, Names, Granted
    <3> QED BY <3>2 DEF Service!Next
  <2> QED BY <1>2, <2>4, <2>5
<1>3. CASE boot' = boot + 1 /\ DOMAIN ventry' = {} /\ UNCHANGED handles
  <2>1. Names' = <<>> BY <1>3 DEF Names
  <2>2. \A h \in handles : h.boot # boot + 1
    BY BoundsAssumption DEF IndInv, Held
  <2>3. Granted' = {} BY <1>3, <2>2 DEF Granted
  <2>4. Service!Forget BY <2>1, <2>3 DEF Service!Forget, Names, Granted
  <2> QED BY <2>4 DEF Service!Next
<1> QED BY <1>1, <1>2, <1>3 DEF Evolves

\* Every behaviour of the file table is one of the naming service: ids are
\* bound once, handles are given out for bound files only, and all is kept
\* until the daemon restarts.
THEOREM FileTableImplementsHandles == Spec => ImplementsHandles
<1>1. Init => Service!Init BY InitRefines
<1>2. IndInv /\ [Next]_vars => [Service!Next]_<<Names, Granted>>
  BY NextInv, StepRefines
<1>3. IndInv /\ [Next]_vars =>
        [Service!Next]_<<[i \in DOMAIN ventry |-> ventry[i].name],
            {<<h.id, h.name>> : h \in {g \in handles : g.boot = boot}}>>
  BY <1>2 DEF Names, Granted
<1> QED BY <1>1, <1>3, IndInvHolds, PTL DEF Spec, ImplementsHandles, Service!Spec

-----------------------------------------------------------------------------
(* The lists of the directories, in which READDIR counts its cookies. *)

(***************************************************************************)
(* DirentsExact is not inductive.  That the latest entry has the largest   *)
(* id needs Ascending: the bits that are set are the first ones.  That a   *)
(* new directory has no entries yet needs Rooted, and that the directory   *)
(* which a new entry goes to is there needs Grown for the directories of   *)
(* the module path.                                                        *)
(***************************************************************************)
Ascending == \A c \in vinode_bmap : 0..c \subseteq vinode_bmap

Rooted ==
    \A i \in DOMAIN ventry \ {TopId} :
        \/ Listed(Front(ventry[i].name))
        \/ Front(ventry[i].name) \notin TableNames

Grown == phase = "expand" => \A n \in 1..count : Listed(SubSeq(ModulePath, 1, n))

ListInv == Ascending /\ Rooted /\ Grown /\ DirentsExact

\* A name that the next state's table has.
ListedNext(q) == \E j \in DOMAIN ventry' : ventry'[j].name = q

\* Every ventry keeps its name and type, and its list but for a new head.
Headed(id) ==
    \A i \in DOMAIN ventry :
        /\ i \in DOMAIN ventry'
        /\ ventry'[i].name = ventry[i].name
        /\ ventry'[i].type = ventry[i].type
        /\ \/ ventry'[i].dirent = ventry[i].dirent
           \/ ventry'[i].dirent = <<id>> \o ventry[i].dirent

-----------------------------------------------------------------------------

\* The dirent list of a ventry is a sequence of ids.
LEMMA DirentIsSeq ==
    ASSUME TableInv, NEW i \in DOMAIN ventry
    PROVE  ventry[i].dirent \in Seq(DOMAIN ventry)
BY DEF TableInv, Entries, VEntry

\* A step that leaves names, types and lists alone.
LEMMA SameLists ==
    ASSUME TableInv, ListInv, UNCHANGED vinode_bmap,
           DOMAIN ventry' = DOMAIN ventry,
           \A i \in DOMAIN ventry :
               /\ ventry'[i].name = ventry[i].name
               /\ ventry'[i].type = ventry[i].type
               /\ ventry'[i].dirent = ventry[i].dirent,
           phase' = "expand" => UNCHANGED <<phase, count>>
    PROVE  ListInv' /\ ListingStep
<1>1. Ascending' BY DEF ListInv, Ascending
<1>2. \A q : Listed(q) => Listed(q)' BY DEF Listed
<1>3. Rooted' BY <1>2 DEF ListInv, Rooted
<1>4. Grown' BY <1>2 DEF ListInv, Grown
<1>5. DirentsExact'
  <2> SUFFICES ASSUME NEW d \in DOMAIN ventry
               PROVE  /\ ToSet(ventry'[d].dirent) =
                            {i \in DOMAIN ventry \ {TopId} :
                                Front(ventry'[i].name) = ventry'[d].name}
                      /\ \A a, b \in DOMAIN ventry'[d].dirent :
                            a < b => ventry'[d].dirent[a] > ventry'[d].dirent[b]
    BY DEF DirentsExact
  <2>1. {i \in DOMAIN ventry \ {TopId} : Front(ventry'[i].name) = ventry'[d].name}
        = {i \in DOMAIN ventry \ {TopId} : Front(ventry[i].name) = ventry[d].name}
    OBVIOUS
  <2> QED BY <2>1 DEF ListInv, DirentsExact
<1>6. ListingStep
  <2> SUFFICES ASSUME NEW i \in DOMAIN ventry
               PROVE  \E n \in 0..Len(ventry'[i].dirent) :
                        /\ ventry[i].dirent =
                              SubSeq(ventry'[i].dirent, n + 1, Len(ventry'[i].dirent))
                        /\ \A k \in 1..n : Extended(ventry'[ventry'[i].dirent[k]].name)
    BY DEF ListingStep
  <2> DEFINE s == ventry[i].dirent
  <2>1. s \in Seq(DOMAIN ventry) BY DirentIsSeq
  <2>2. Len(s) \in Nat /\ SubSeq(s, 1, Len(s)) = s BY <2>1, SubSeqFull, LenProperties
  <2>3. ventry'[i].dirent = s OBVIOUS
  <2> HIDE DEF s
  <2>4. 0 \in 0..Len(s) /\ SubSeq(s, 0 + 1, Len(s)) = s /\ 1..0 = {} BY <2>2
  <2> QED BY <2>3, <2>4 DEF s
<1> QED BY <1>1, <1>3, <1>4, <1>5, <1>6 DEF ListInv

\* The set and the order of a list that gets a new head.
LEMMA HeadedList ==
    ASSUME NEW S \in SUBSET Nat, NEW s \in Seq(S), NEW x \in Nat,
           \A y \in S : y < x,
           \A a, b \in DOMAIN s : a < b => s[a] > s[b]
    PROVE  /\ ToSet(<<x>> \o s) = ToSet(s) \cup {x}
           /\ \A a, b \in DOMAIN (<<x>> \o s) :
                 a < b => (<<x>> \o s)[a] > (<<x>> \o s)[b]
<1> DEFINE t == <<x>> \o s
<1>1. /\ DOMAIN s = 1..Len(s) /\ Len(s) \in Nat
      /\ DOMAIN t = 1..(Len(s) + 1)
      /\ t[1] = x
      /\ \A k \in 1..Len(s) : t[k + 1] = s[k]
  BY NewHead, S \subseteq Nat, x \in Nat
<1>2. \A k \in 1..Len(s) : s[k] \in S BY ElementOfSeq
<1> HIDE DEF t
<1>3. \A k \in 2..(Len(s) + 1) : k - 1 \in 1..Len(s) /\ t[k] = s[k - 1]
  <2>1. TAKE k \in 2..(Len(s) + 1)
  <2>2. k - 1 \in 1..Len(s) /\ (k - 1) + 1 = k BY <1>1, <2>1
  <2> QED BY <2>2, <1>1
<1>4. ToSet(t) = ToSet(s) \cup {x}
  <2>1. ASSUME NEW y \in ToSet(t) PROVE y \in ToSet(s) \cup {x}
    <3>1. PICK k \in DOMAIN t : y = t[k] BY DEF ToSet
    <3>2. k = 1 \/ k \in 2..(Len(s) + 1) BY <3>1, <1>1
    <3> QED BY <3>1, <3>2, <1>1, <1>3 DEF ToSet
  <2>2. ASSUME NEW y \in ToSet(s) PROVE y \in ToSet(t)
    <3>1. PICK k \in DOMAIN s : y = s[k] BY DEF ToSet
    <3>2. k + 1 \in DOMAIN t /\ t[k + 1] = y BY <3>1, <1>1
    <3> QED BY <3>2 DEF ToSet
  <2>3. x \in ToSet(t) BY <1>1 DEF ToSet
  <2> QED BY <2>1, <2>2, <2>3
<1>5. ASSUME NEW a \in DOMAIN t, NEW b \in DOMAIN t, a < b PROVE t[a] > t[b]
  <2>1. b \in 2..(Len(s) + 1) BY <1>5, <1>1
  <2>2. t[b] \in S /\ t[b] = s[b - 1] /\ b - 1 \in 1..Len(s) BY <2>1, <1>2, <1>3
  <2>3. CASE a = 1 BY <2>2, <2>3, <1>1
  <2>4. CASE a # 1
    <3>1. a \in 2..(Len(s) + 1) BY <2>4, <1>1
    <3>2. t[a] = s[a - 1] /\ a - 1 \in 1..Len(s) BY <3>1, <1>3
    <3>3. a - 1 < b - 1 BY <3>1, <2>1, <1>5, <1>1
    <3> QED BY <3>2, <3>3, <2>2, <1>1
  <2> QED BY <2>3, <2>4
<1> QED BY <1>4, <1>5 DEF t

\* Creating an entry, under the id that alloc_vinode answers, in a directory
\* that is there or, for a message, in none.
LEMMA CreateKeepsLists ==
    ASSUME TableInv, Ascending, Rooted, DirentsExact,
           NEW b \in 0..(NumVinodes - 1), FirstFree(b),
           NEW p \in TableNames, ~Listed(p),
           \/ Listed(Front(p))
           \/ Front(p) \in HashedNames \ TableNames,
           NEW type, NEW size, NEW ver, Create(b + 1, p, type, size, ver)
    PROVE  /\ Ascending' /\ Rooted' /\ DirentsExact'
           /\ Headed(b + 1) /\ ventry'[b + 1].name = p /\ ListedNext(p)
           /\ \A q : Listed(q) => ListedNext(q)
<1> DEFINE id == b + 1
           new == [name |-> p, type |-> type, size |-> size, ver |-> ver,
                   dirent |-> <<>>]
           parent == lookup_fh_name(Front(p))
<1>1. /\ vinode_bmap' = vinode_bmap \cup {b}
      /\ ventry' = [i \in DOMAIN ventry \cup {id} |->
                       IF i = id THEN new
                       ELSE IF i = parent
                       THEN [ventry[i] EXCEPT !.dirent = <<id>> \o @]
                       ELSE ventry[i]]
  <2>1. id - 1 = b BY BoundsAssumption
  <2> QED BY <2>1 DEF Create, insert_ventry
<1>2. b \in Nat /\ b \notin vinode_bmap /\ \A c \in 0..(b - 1) : c \in vinode_bmap
  BY BoundsAssumption DEF FirstFree
<1>3. \A i \in DOMAIN ventry : i \in Nat /\ i < id
  <2>1. TAKE i \in DOMAIN ventry
  <2>2. i \in Nat /\ i >= 3 /\ i - 1 \in vinode_bmap BY DEF TableInv, Ids
  <2>3. 0..(i - 1) \subseteq vinode_bmap BY <2>2 DEF Ascending
  <2>4. b \notin 0..(i - 1) BY <2>3, <1>2
  <2> QED BY <2>2, <2>4, <1>2
<1>4. id \notin DOMAIN ventry /\ id # TopId
  <2>1. b # 2 BY <1>2 DEF TableInv, Ids
  <2> QED BY <2>1, <1>2, <1>3 DEF TopId
<1>5. \A d \in DOMAIN ventry : d = parent <=> ventry[d].name = Front(p)
  <2>1. Front(p) \in HashedNames
    BY HashInBucket DEF Listed, TableInv, Entries, VEntry
  <2>2. CASE parent \in DOMAIN ventry /\ ventry[parent].name = Front(p)
    BY <2>2 DEF TableInv, Distinct
  <2>3. CASE parent = NULL /\ \A i \in DOMAIN ventry : ventry[i].name # Front(p)
    <3>1. NULL \notin DOMAIN ventry BY DEF NULL, TableInv, Ids
    <3> QED BY <3>1, <2>3
  <2> QED BY <2>1, <2>2, <2>3, LookupFinds
<1> HIDE DEF parent
<1>6. DOMAIN ventry' = DOMAIN ventry \cup {id} /\ ventry'[id] = new BY <1>1
<1>7. ASSUME NEW i \in DOMAIN ventry
      PROVE  /\ ventry'[i].name = ventry[i].name
             /\ ventry'[i].type = ventry[i].type
             /\ ventry'[i].dirent = IF i = parent THEN <<id>> \o ventry[i].dirent
                                    ELSE ventry[i].dirent
  <2>1. ventry[i] \in VEntry(DOMAIN ventry) BY DEF TableInv, Entries
  <2>2. ventry'[i] = IF i = parent
                     THEN [ventry[i] EXCEPT !.dirent = <<id>> \o @]
                     ELSE ventry[i]
    BY <1>1, <1>4
  <2> QED BY <2>1, <2>2 DEF VEntry
<1> HIDE DEF id
<1>8. ventry'[id].name = p /\ ventry'[id].dirent = <<>> BY <1>6
<1> HIDE DEF new
<1>9. Ascending'
  <2>1. ASSUME NEW c \in vinode_bmap' PROVE 0..c \subseteq vinode_bmap'
    <3>1. CASE c = b
      <4>1. 0..b = 0..(b - 1) \cup {b} BY <1>2
      <4> QED BY <4>1, <3>1, <1>1, <1>2
    <3>2. CASE c \in vinode_bmap BY <3>2, <1>1 DEF Ascending
    <3> QED BY <3>1, <3>2, <1>1
  <2> QED BY <2>1 DEF Ascending
<1>10. ListedNext(p) /\ \A q : Listed(q) => ListedNext(q)
  BY <1>6, <1>7, <1>8 DEF Listed, ListedNext
<1>11. Rooted'
  <2>1. ASSUME NEW i \in DOMAIN ventry' \ {TopId}
        PROVE  ListedNext(Front(ventry'[i].name)) \/ Front(ventry'[i].name) \notin TableNames
    <3>1. CASE i = id BY <3>1, <1>8, <1>10
    <3>2. CASE i \in DOMAIN ventry
      <4>1. Listed(Front(ventry[i].name)) \/ Front(ventry[i].name) \notin TableNames
        BY <3>2, <2>1 DEF Rooted
      <4> QED BY <4>1, <3>2, <1>7, <1>10
    <3> QED BY <3>1, <3>2, <2>1, <1>6
  <2> QED BY <2>1 DEF Rooted, Listed, ListedNext
<1>12. DirentsExact'
  <2> DEFINE Below(d) == {i \in DOMAIN ventry' \ {TopId} :
                             Front(ventry'[i].name) = ventry'[d].name}
  <2>1. ASSUME NEW d \in DOMAIN ventry
        PROVE  Below(d) = {i \in DOMAIN ventry \ {TopId} :
                              Front(ventry[i].name) = ventry[d].name}
                          \cup (IF d = parent THEN {id} ELSE {})
    BY <1>4, <1>5, <1>6, <1>7, <1>8
  <2>2. Below(id) = {}
    <3>1. ASSUME NEW i \in DOMAIN ventry' \ {TopId}, Front(ventry'[i].name) = p
          PROVE  FALSE
      <4>1. CASE i = id BY <4>1, <3>1, <1>8
      <4>2. CASE i \in DOMAIN ventry
        <5>1. Listed(Front(ventry[i].name)) \/ Front(ventry[i].name) \notin TableNames
          BY <4>2, <3>1 DEF Rooted
        <5> QED BY <5>1, <4>2, <3>1, <1>7
      <4> QED BY <4>1, <4>2, <1>6
    <3> QED BY <3>1, <1>8
  <2> HIDE DEF Below
  <2>3. ASSUME NEW d \in DOMAIN ventry
        PROVE  /\ ToSet(ventry'[d].dirent) = Below(d)
               /\ \A k, l \in DOMAIN ventry'[d].dirent :
                     k < l => ventry'[d].dirent[k] > ventry'[d].dirent[l]
    <3> DEFINE s == ventry[d].dirent
    <3>1. /\ ToSet(s) = {i \in DOMAIN ventry \ {TopId} :
                            Front(ventry[i].name) = ventry[d].name}
          /\ \A k, l \in DOMAIN s : k < l => s[k] > s[l]
      BY DEF DirentsExact
    <3>2. s \in Seq(DOMAIN ventry) BY DirentIsSeq
    <3>3. DOMAIN ventry \in SUBSET Nat /\ id \in Nat /\ \A y \in DOMAIN ventry : y < id
      BY <1>2, <1>3 DEF id
    <3> HIDE DEF s
    <3>4. CASE d # parent BY <3>1, <3>4, <2>1, <1>7 DEF s
    <3>5. CASE d = parent
      <4>1. /\ ToSet(<<id>> \o s) = ToSet(s) \cup {id}
            /\ \A k, l \in DOMAIN (<<id>> \o s) :
                  k < l => (<<id>> \o s)[k] > (<<id>> \o s)[l]
        BY <3>1, <3>2, <3>3, HeadedList
      <4>2. ventry'[d].dirent = <<id>> \o s BY <3>5, <1>7 DEF s
      <4> QED BY <4>1, <4>2, <3>1, <3>5, <2>1
    <3> QED BY <3>4, <3>5
  <2>4. /\ ToSet(ventry'[id].dirent) = Below(id)
        /\ \A k, l \in DOMAIN ventry'[id].dirent :
              k < l => ventry'[id].dirent[k] > ventry'[id].dirent[l]
    <3>1. DOMAIN <<>> = {} OBVIOUS
    <3> QED BY <3>1, <2>2, <1>8 DEF ToSet
  <2> QED BY <2>3, <2>4, <1>6 DEF DirentsExact, Below
<1>13. Headed(id) BY <1>6, <1>7 DEF Headed
<1> QED BY <1>8, <1>9, <1>10, <1>11, <1>12, <1>13 DEF id

\* A new head with a version is all that a listing in progress can meet.
LEMMA HeadedListing ==
    ASSUME TableInv, NEW id, Headed(id), Extended(ventry'[id].name)
    PROVE  ListingStep
<1> SUFFICES ASSUME NEW i \in DOMAIN ventry
             PROVE  /\ i \in DOMAIN ventry'
                    /\ ventry'[i].name = ventry[i].name
                    /\ ventry'[i].type = ventry[i].type
                    /\ \E n \in 0..Len(ventry'[i].dirent) :
                          /\ ventry[i].dirent =
                                SubSeq(ventry'[i].dirent, n + 1, Len(ventry'[i].dirent))
                          /\ \A k \in 1..n :
                                Extended(ventry'[ventry'[i].dirent[k]].name)
  BY DEF ListingStep
<1> DEFINE s == ventry[i].dirent
           t == <<id>> \o s
           S == DOMAIN ventry \cup {id}
<1>1. s \in Seq(S) /\ s \in Seq(DOMAIN ventry) BY DirentIsSeq, SeqMonotonic
<1>2. Len(s) \in Nat /\ SubSeq(s, 1, Len(s)) = s BY <1>1, SubSeqFull, LenProperties
<1>3. /\ t \in Seq(S) /\ t[1] = id /\ Len(t) = Len(s) + 1
      /\ \A k \in 1..Len(s) : t[k + 1] = s[k]
  <2>1. Len(<<id>>) = 1 /\ <<id>> \in Seq(S) OBVIOUS
  <2>2. Len(t) = Len(s) + 1 BY <1>1, <1>2, <2>1, ConcatProperties
  <2> QED BY <1>1, <2>2, NewHead
<1>4. SubSeq(t, 2, Len(t)) = s
  <2> DEFINE u == SubSeq(t, 2, Len(t))
  <2>1. /\ u \in Seq(S) /\ Len(u) = Len(s)
        /\ \A k \in 1..Len(s) : u[k] = t[2 + k - 1]
    <3>1. \A k \in 2..Len(t) : t[k] \in S
      BY <1>2, <1>3, ElementOfSeq
    <3>2. /\ u \in Seq(S)
          /\ Len(u) = IF 2 <= Len(t) THEN Len(t) - 2 + 1 ELSE 0
          /\ \A k \in 1..(Len(t) - 2 + 1) : u[k] = t[2 + k - 1]
      <4> HIDE DEF t
      <4>1. 2 \in Int /\ Len(t) \in Int BY <1>2, <1>3
      <4> QED BY <3>1, <4>1, SubSeqProperties
    <3>3. Len(t) - 2 + 1 = Len(s) /\ (2 <= Len(t) \/ Len(s) = 0) BY <1>2, <1>3
    <3> QED BY <3>2, <3>3
  <2>2. \A k \in 1..Len(s) : u[k] = s[k]
    <3>1. TAKE k \in 1..Len(s)
    <3>2. 2 + k - 1 = k + 1 BY <1>2
    <3> QED BY <3>2, <2>1, <1>3
  <2> HIDE DEF u, t
  <2>3. u = s BY <2>1, <2>2, <1>1, SeqEqual
  <2> QED BY <2>3 DEF u
<1> HIDE DEF s, t
<1>5. CASE ventry'[i].dirent = s
  <2>1. 0 \in 0..Len(s) /\ SubSeq(s, 0 + 1, Len(s)) = s /\ 1..0 = {} BY <1>2
  <2> QED BY <2>1, <1>5 DEF Headed, s
<1>6. CASE ventry'[i].dirent = t
  <2>1. 1 \in 0..Len(t) /\ SubSeq(t, 1 + 1, Len(t)) = s BY <1>2, <1>3, <1>4
  <2>2. \A k \in 1..1 : Extended(ventry'[t[k]].name)
    <3>1. \A k \in 1..1 : k = 1 OBVIOUS
    <3> QED BY <3>1, <1>3
  <2> QED BY <2>1, <2>2, <1>6 DEF Headed, s
<1> QED BY <1>5, <1>6 DEF Headed, s, t

\* What the names of the module path are cut from.
LEMMA ModulePrefixes ==
    /\ Len(ModulePath) \in Nat
    /\ \A n \in 1..Len(ModulePath) :
          /\ SubSeq(ModulePath, 1, n) \in TableNames
          /\ Len(SubSeq(ModulePath, 1, n)) = n
    /\ \A n \in 1..(Len(ModulePath) - 1) :
          Front(SubSeq(ModulePath, 1, n + 1)) = SubSeq(ModulePath, 1, n)
<1>1. ModulePath \in Seq(Entry) /\ Len(ModulePath) \in Nat
  BY ModuleAssumption, LenProperties DEF Path
<1>2. ASSUME NEW n \in 1..Len(ModulePath)
      PROVE  /\ SubSeq(ModulePath, 1, n) \in TableNames
             /\ Len(SubSeq(ModulePath, 1, n)) = n
  <2>1. 1 \in Int /\ n \in Int /\ \A i \in 1..n : ModulePath[i] \in Entry
    BY <1>1, ElementOfSeq
  <2>2. Len(SubSeq(ModulePath, 1, n)) = IF 1 <= n THEN n - 1 + 1 ELSE 0
    BY <2>1, SubSeqProperties
  <2> QED BY <2>2, <1>1 DEF TableNames, PlainNames, ModuleDirs
<1>3. ASSUME NEW n \in 1..(Len(ModulePath) - 1)
      PROVE  Front(SubSeq(ModulePath, 1, n + 1)) = SubSeq(ModulePath, 1, n)
  <2> DEFINE p == SubSeq(ModulePath, 1, n + 1)
  <2>1. n + 1 \in 1..Len(ModulePath) /\ 1 \in 1..Len(ModulePath) BY <1>1
  <2>2. Len(p) = n + 1 BY <2>1, <1>2
  <2>3. Len(p) - 1 = n BY <2>2
  <2>4. SubSeq(p, 1, n) = SubSeq(ModulePath, 1 + 1 - 1, 1 + n - 1)
    <3>1. 1 \in 1..((n + 1) - 1 + 1) /\ n \in 1..((n + 1) - 1 + 1) OBVIOUS
    <3> QED BY <1>1, <2>1, <3>1, SubSeqOfSubSeq
  <2>5. 1 + 1 - 1 = 1 /\ 1 + n - 1 = n OBVIOUS
  <2> QED BY <2>3, <2>4, <2>5 DEF Front
<1> QED BY <1>1, <1>2, <1>3

LEMMA FrontOfAppend ==
    ASSUME NEW s \in Seq(Entry), NEW e \in Entry
    PROVE  Front(Append(s, e)) = s
<1>1. /\ Append(s, e) \in Seq(Entry) /\ Len(Append(s, e)) = Len(s) + 1
      /\ Append(s, e) = s \o <<e>>
  BY AppendProperties, AppendIsConcat
<1>2. Len(s) \in Nat /\ Len(s) + 1 - 1 = Len(s) BY LenProperties
<1>3. SubSeq(Append(s, e), 1, Len(s)) = s
  <2>1. CASE Len(s) = 0
    <3>1. s = <<>> BY <2>1, EmptySeq
    <3>2. SubSeq(Append(s, e), 1, 0) = <<>> BY <1>1, SubSeqEmpty
    <3> QED BY <2>1, <3>1, <3>2
  <2>2. CASE Len(s) # 0
    <3>1. 1 \in 1..Len(s) /\ Len(s) \in 1..Len(s) BY <2>2, <1>2
    <3>2. SubSeq(s \o <<e>>, 1, Len(s)) = SubSeq(s, 1, Len(s))
      <4>1. <<e>> \in Seq(Entry) OBVIOUS
      <4> QED BY <4>1, <3>1, SubSeqOfConcat1
    <3> QED BY <1>1, <3>2, SubSeqFull
  <2> QED BY <2>1, <2>2
<1> QED BY <1>1, <1>2, <1>3 DEF Front

\* A failed ASSERT leaves all lists alone.
LEMMA FailLists ==
    ASSUME TableInv, ListInv, NEW a \in Stops, Fail(a)
    PROVE  ListInv' /\ ListingStep
BY SameLists DEF Fail, Stops, Asserts, table

LEMMA InitLists == Init => ListInv
<1> SUFFICES ASSUME Init PROVE ListInv OBVIOUS
<1>1. DOMAIN ventry = {} /\ count = 0 BY DEF Init, EmptyTable
<1>2. Ascending
  <2>1. \A c \in {0, 1, 2} : 0..c \subseteq {0, 1, 2} OBVIOUS
  <2> QED BY <2>1 DEF Init, EmptyTable, Ascending
<1>3. Rooted /\ DirentsExact BY <1>1 DEF Rooted, DirentsExact
<1>4. Grown
  <2>1. 1..count = {} BY <1>1
  <2> QED BY <2>1 DEF Grown
<1> QED BY <1>2, <1>3, <1>4 DEF ListInv

\* Each step of vcfs_build_project.
LEMMA LoadLists == IndInv /\ ListInv /\ Load => ListInv' /\ ListingStep
<1> SUFFICES ASSUME IndInv, ListInv, Load PROVE ListInv' /\ ListingStep OBVIOUS
<1>a. TableInv /\ Expanding BY DEF IndInv
<1>b. "Ran out of vinodes" \in Stops BY DEF Asserts, Stops
<1>c. Ascending /\ Rooted /\ Grown /\ DirentsExact BY DEF ListInv
<1>1. CASE ExpandRoot
  <2> DEFINE p == SubSeq(ModulePath, 1, 1)
  <2>1. /\ DOMAIN ventry' = {TopId}
        /\ ventry'[TopId].name = p /\ ventry'[TopId].dirent = <<>>
        /\ UNCHANGED vinode_bmap /\ count' = 1 /\ phase = "expand"
    BY <1>1 DEF ExpandRoot
  <2> HIDE DEF p
  <2>2. Ascending' BY <2>1, <1>c DEF Ascending
  <2>3. Rooted' BY <2>1 DEF Rooted
  <2>4. Grown'
    <3>1. \A n \in 1..count' : n = 1 BY <2>1
    <3> QED BY <3>1, <2>1 DEF Grown, Listed, p
  <2>5. DirentsExact'
    <3>1. ToSet(<<>>) = {} /\ DOMAIN <<>> = {} BY DEF ToSet
    <3>2. {i \in {TopId} \ {TopId} : Front(ventry'[i].name) = ventry'[TopId].name} = {}
      OBVIOUS
    <3> QED BY <3>1, <3>2, <2>1 DEF DirentsExact
  <2>6. ListingStep BY <2>1 DEF ListingStep
  <2> QED BY <2>2, <2>3, <2>4, <2>5, <2>6 DEF ListInv
<1>2. CASE ExpandDir
  <2> DEFINE p == SubSeq(ModulePath, 1, count + 1)
  <2>1. phase = "expand" /\ count \in 1..(Len(ModulePath) - 1) /\ Len(ModulePath) \in Nat
    BY <1>2, ModulePrefixes DEF ExpandDir
  <2>2. CASE OutOfVinodes /\ Fail("Ran out of vinodes") BY <2>2, <1>a, <1>b, FailLists
  <2>3. CASE /\ Alloc(p, "NFDIR", DirSize, NoVersion)
             /\ count' = count + 1 /\ UNCHANGED <<phase, boot, handles>>
    <3>1. /\ p \in TableNames /\ Len(p) = count + 1
          /\ Front(p) = SubSeq(ModulePath, 1, count)
      BY <2>1, ModulePrefixes
    <3>2. ~Listed(p)
      <4>1. SUFFICES ASSUME NEW i \in DOMAIN ventry, ventry[i].name = p PROVE FALSE
        BY DEF Listed
      <4>2. PICK n \in 1..count : ventry[i].name = SubSeq(ModulePath, 1, n)
        BY <2>1, <1>a DEF Expanding
      <4>3. Len(ventry[i].name) = n BY <4>2, <2>1, ModulePrefixes
      <4> QED BY <4>1, <4>3, <2>1, <3>1
    <3>3. Listed(Front(p))
      <4>1. count \in 1..count BY <2>1
      <4> QED BY <3>1, <2>1, <1>c, <4>1 DEF Grown
    <3> HIDE DEF p
    <3>4. PICK b \in 0..(NumVinodes - 1) :
            FirstFree(b) /\ Create(b + 1, p, "NFDIR", DirSize, NoVersion)
      BY <2>3 DEF Alloc
    <3>5. /\ Ascending' /\ Rooted' /\ DirentsExact' /\ ListedNext(p)
          /\ \A q : Listed(q) => ListedNext(q)
      BY <3>1, <3>2, <3>3, <3>4, <1>a, <1>c, CreateKeepsLists
    <3>6. Grown'
      <4>1. \A n \in 1..count' : n \in 1..count \/ n = count + 1 BY <2>1, <2>3
      <4>2. \A n \in 1..count : ListedNext(SubSeq(ModulePath, 1, n))
        BY <3>5, <2>1, <1>c DEF Grown
      <4>3. ListedNext(SubSeq(ModulePath, 1, count + 1)) BY <3>5 DEF p
      <4>4. \A n \in 1..count' : ListedNext(SubSeq(ModulePath, 1, n))
        BY <4>1, <4>2, <4>3
      <4> QED BY <4>4 DEF Grown, Listed, ListedNext
    <3>7. ListingStep BY <2>1 DEF ListingStep
    <3> QED BY <3>5, <3>6, <3>7 DEF ListInv
  <2> QED BY <1>2, <2>2, <2>3 DEF ExpandDir
<1>3. CASE CheckoutBegin \/ CheckoutEnd
  BY <1>3, <1>a, SameLists DEF CheckoutBegin, CheckoutEnd, table
<1>4. ASSUME NEW p \in Loadable, phase = "checkout", NextListed(p),
             NEW type, NEW size, NEW ver,
             \/ Alloc(p, type, size, ver) /\ UNCHANGED <<phase, count, boot, handles>>
             \/ OutOfVinodes /\ Fail("Ran out of vinodes")
      PROVE  ListInv' /\ ListingStep
  <2>1. CASE OutOfVinodes /\ Fail("Ran out of vinodes") BY <2>1, <1>a, <1>b, FailLists
  <2>2. CASE Alloc(p, type, size, ver) /\ UNCHANGED <<phase, count, boot, handles>>
    <3>1. /\ p \in TableNames /\ ~Listed(p)
          /\ Listed(Front(p)) \/ Front(p) \in HashedNames \ TableNames
      <4>1. p \in TableNames /\ ~Listed(p) /\ (p \in Messages \/ Listed(Front(p)))
        BY <1>4 DEF TableNames, PlainNames, NextListed
      <4>2. p \in Messages => Front(p) \in HashedNames \ TableNames
        BY RepoAssumption DEF HashedNames
      <4> QED BY <4>1, <4>2
    <3>2. PICK b \in 0..(NumVinodes - 1) :
            FirstFree(b) /\ Create(b + 1, p, type, size, ver)
      BY <2>2 DEF Alloc
    <3>3. Ascending' /\ Rooted' /\ DirentsExact'
      BY <3>1, <3>2, <1>a, <1>c, CreateKeepsLists
    <3>4. Grown' /\ ListingStep BY <1>4, <2>2 DEF Grown, ListingStep
    <3> QED BY <3>3, <3>4 DEF ListInv
  <2> QED BY <1>4, <2>1, <2>2
<1>5. ASSUME NEW p \in Dirs \cup Messages, CheckoutDir(p) PROVE ListInv' /\ ListingStep
  BY <1>4, <1>5 DEF CheckoutDir, Loadable
<1>6. ASSUME NEW p \in DOMAIN Repo, NEW r \in Version, CheckoutFile(p, r)
      PROVE  ListInv' /\ ListingStep
  BY <1>4, <1>6 DEF CheckoutFile, Loadable
<1> QED BY <1>1, <1>2, <1>3, <1>5, <1>6 DEF Load

\* A change of the size or the version of a ventry.
LEMMA RewriteLists ==
    ASSUME TableInv, ListInv, NEW f \in DOMAIN ventry, NEW e, NEW own, Rewrite(f, e, own),
           e.name = ventry[f].name, e.type = ventry[f].type,
           e.dirent = ventry[f].dirent
    PROVE  ListInv' /\ ListingStep
<1>1. /\ DOMAIN ventry' = DOMAIN ventry
      /\ \A i \in DOMAIN ventry : ventry'[i] = IF i = f THEN e ELSE ventry[i]
      /\ UNCHANGED <<vinode_bmap, phase, count>>
  BY DEF Rewrite
<1>2. \A i \in DOMAIN ventry :
         /\ ventry'[i].name = ventry[i].name
         /\ ventry'[i].type = ventry[i].type
         /\ ventry'[i].dirent = ventry[i].dirent
  BY <1>1
<1> QED BY <1>1, <1>2, SameLists

\* Each request of a client.
LEMMA RequestLists == IndInv /\ ListInv /\ Request => ListInv' /\ ListingStep
<1> SUFFICES ASSUME IndInv, ListInv, Request PROVE ListInv' /\ ListingStep OBVIOUS
<1>a. TableInv BY DEF IndInv
<1>b. \A a \in {"Ran out of vinodes", "bad filehandle", "no parent", "not a file",
                "weird response", "crashed"} : a \in Stops
  BY DEF Stops, Asserts
<1>c. Ascending /\ Rooted /\ Grown /\ DirentsExact BY DEF ListInv
<1>d. ASSUME NEW h \in handles \cup {RootHandle}, get_fh(h) \notin {NULL, Root}, NEW e \in Entry
      PROVE  Front(Append(NameOf(get_fh(h)), e)) = NameOf(get_fh(h))
  <2>1. NameOf(get_fh(h)) \in TableNames
    BY <1>d, <1>a, HandleResolves DEF NameOf, TableInv, Entries, VEntry
  <2> QED BY <2>1, TableNamesArePaths, FrontOfAppend DEF Path
<1>1. ASSUME NEW h \in handles \cup {RootHandle}, NEW n \in Name, LookupPlain(h, n)
      PROVE  ListInv' /\ ListingStep
  BY <1>1, <1>a, SameLists DEF LookupPlain, table
<1>2. ASSUME NEW h \in handles \cup {RootHandle}, NEW n \in Name, NEW v \in Version,
             LookupExtended(h, n, v)
      PROVE  ListInv' /\ ListingStep
  <2> DEFINE p == Append(NameOf(get_fh(h)), [base |-> n, ver |-> NoVersion])
             q == WithVersion(p, v)
             f == lookup_fh_name(p)
             x == lookup_fh_name(q)
  <2>1. /\ phase = "serve" /\ get_fh(h) \notin {NULL, Root} /\ f # NULL
        /\ UNCHANGED <<count, boot>>
        /\ \/ UNCHANGED <<phase, table>>
           \/ /\ x = NULL
              /\ \E b \in 0..(NumVinodes - 1) :
                    /\ FirstFree(b)
                    /\ Create(b + 1, q, "NFREG", ventry[f].size, v)
              /\ UNCHANGED phase
           \/ phase' \in {"crashed", "Ran out of vinodes"} /\ UNCHANGED <<table, handles>>
    BY <1>2 DEF LookupExtended
  <2>2. p \in PlainNames BY <1>2, LookupsArePlain DEF LookupExtended
  <2>3. /\ q \in TableNames /\ q \in HashedNames
        /\ Front(q) = NameOf(get_fh(h)) /\ Extended(q)
    <3>1. q \in TableNames /\ q \in HashedNames /\ Last(q).ver = v
      BY <2>2, VersionedNames, HashInBucket
    <3>2. q # <<>> /\ Front(q) = Front(p)
      BY <2>2, WithVersionPrefix
    <3>3. Front(p) = NameOf(get_fh(h))
      <4>1. [base |-> n, ver |-> NoVersion] \in Entry BY DEF Entry
      <4> QED BY <2>1, <1>d, <4>1
    <3> QED BY <3>1, <3>2, <3>3, ModuleAssumption DEF Extended
  <2>4. Listed(Front(q))
    <3>1. get_fh(h) \in DOMAIN ventry BY <2>1, HandleResolves
    <3>2. NameOf(get_fh(h)) = ventry[get_fh(h)].name BY <2>1 DEF NameOf
    <3> QED BY <3>1, <3>2, <2>3 DEF Listed
  <2> HIDE DEF p, q, f
  <2>5. CASE UNCHANGED <<phase, table>>
    BY <2>1, <2>5, <1>a, SameLists DEF table
  <2>6. ASSUME x = NULL, UNCHANGED phase, NEW b \in 0..(NumVinodes - 1), FirstFree(b),
               Create(b + 1, q, "NFREG", ventry[f].size, v)
        PROVE  ListInv' /\ ListingStep
    <3>1. ~Listed(q) BY <2>3, <2>6, <1>a, LookupFinds DEF Listed
    <3>2. /\ Ascending' /\ Rooted' /\ DirentsExact'
          /\ Headed(b + 1) /\ ventry'[b + 1].name = q
      BY <2>3, <2>4, <2>6, <3>1, <1>a, <1>c, CreateKeepsLists
    <3>3. Grown' BY <2>1, <2>6 DEF Grown
    <3>4. ListingStep BY <3>2, <2>3, <1>a, HeadedListing
    <3> QED BY <3>2, <3>3, <3>4 DEF ListInv
  <2>7. CASE phase' \in {"crashed", "Ran out of vinodes"} /\ UNCHANGED <<table, handles>>
    BY <2>7, <1>a, SameLists DEF table
  <2> QED BY <2>1, <2>5, <2>6, <2>7
<1>3. ASSUME NEW h \in handles \cup {RootHandle}, Read(h) PROVE ListInv' /\ ListingStep
  <2> DEFINE f == get_fh(h)
  <2>1. CASE f = NULL /\ Fail("bad filehandle") BY <2>1, <1>a, <1>b, FailLists
  <2>2. CASE f # NULL /\ Fail("crashed") BY <2>2, <1>a, <1>b, FailLists
  <2>3. ASSUME f \notin {NULL, Root}, NEW n, NEW own,
               Rewrite(f, [ventry[f] EXCEPT !.size = n], own)
        PROVE  ListInv' /\ ListingStep
    <3> DEFINE e == [ventry[f] EXCEPT !.size = n]
    <3>1. f \in DOMAIN ventry BY <2>3, HandleResolves
    <3> HIDE DEF f
    <3>2. ventry[f] \in VEntry(DOMAIN ventry) BY <3>1, <1>a DEF TableInv, Entries
    <3>3. /\ e.name = ventry[f].name /\ e.type = ventry[f].type
          /\ e.dirent = ventry[f].dirent
      BY <3>2 DEF VEntry
    <3>4. Rewrite(f, e, own) BY <2>3
    <3> HIDE DEF e
    <3> QED BY <3>1, <3>3, <3>4, <1>a, RewriteLists
  <2> QED BY <1>3, <2>1, <2>2, <2>3 DEF Read
<1>4. ASSUME NEW h \in handles \cup {RootHandle}, Readdir(h) PROVE ListInv' /\ ListingStep
  <2>1. PICK a \in ReaddirAsserts(get_fh(h)) : Fail(a) BY <1>4 DEF Readdir
  <2>2. a \in Stops BY <1>b DEF ReaddirAsserts
  <2> QED BY <2>1, <2>2, <1>a, FailLists
<1>5. ASSUME NEW p \in UpdateTargets, NEW r \in Version, Update(p, r)
      PROVE  ListInv' /\ ListingStep
  <2> DEFINE f == lookup_fh_name(p)
             e == [ventry[f] EXCEPT !.ver = r]
  <2>1. f # NULL BY <1>5 DEF Update
  <2>2. f \in DOMAIN ventry
    <3>1. p \in HashedNames BY DEF HashedNames
    <3> QED BY <2>1, <3>1, <1>a, LookupFinds
  <2>3. CASE Fail("not a file") \/ Fail("weird response")
    BY <2>3, <1>a, <1>b, FailLists
  <2>4. CASE Rewrite(f, e, p \in DOMAIN Repo)
    <3> HIDE DEF f
    <3>1. ventry[f] \in VEntry(DOMAIN ventry) BY <2>2, <1>a DEF TableInv, Entries
    <3>2. /\ e.name = ventry[f].name /\ e.type = ventry[f].type
          /\ e.dirent = ventry[f].dirent
      BY <3>1 DEF VEntry
    <3> HIDE DEF e
    <3> QED BY <2>2, <2>4, <3>2, <1>a, RewriteLists
  <2> QED BY <1>5, <2>3, <2>4 DEF Update
<1> QED BY <1>1, <1>2, <1>3, <1>4, <1>5 DEF Request

\* A restart leaves an empty table, which has no lists.
LEMMA RestartLists == IndInv /\ ListInv /\ Restart => ListInv' /\ ListingStep
<1> SUFFICES ASSUME IndInv, ListInv, Restart PROVE ListInv' /\ ListingStep OBVIOUS
<1>1. /\ DOMAIN ventry' = {} /\ count' = 0 /\ vinode_bmap' = {0, 1, 2}
      /\ boot' = boot + 1 /\ boot \in Nat
  BY BoundsAssumption DEF Restart, IndInv, Held
<1>2. Ascending'
  <2>1. \A c \in {0, 1, 2} : 0..c \subseteq {0, 1, 2} OBVIOUS
  <2> QED BY <2>1, <1>1 DEF Ascending
<1>3. Rooted' /\ DirentsExact' BY <1>1 DEF Rooted, DirentsExact
<1>4. Grown'
  <2>1. 1..count' = {} BY <1>1
  <2> QED BY <2>1 DEF Grown
<1>5. ListingStep BY <1>1 DEF ListingStep
<1> QED BY <1>2, <1>3, <1>4, <1>5 DEF ListInv

LEMMA NextLists == IndInv /\ ListInv /\ [Next]_vars => ListInv' /\ ListingStep
<1>1. ASSUME IndInv, ListInv, UNCHANGED vars PROVE ListInv' /\ ListingStep
  BY <1>1, SameLists DEF vars, IndInv
<1> QED BY <1>1, LoadLists, RequestLists, RestartLists DEF Next

LEMMA ListInvHolds == Spec => []ListInv
<1>1. Init => ListInv BY InitLists
<1>2. IndInv /\ ListInv /\ [Next]_vars => ListInv' BY NextLists
<1> QED BY <1>1, <1>2, IndInvHolds, PTL DEF Spec

-----------------------------------------------------------------------------

\* The list of every directory holds exactly the entries named below it, each
\* once, the latest first.
THEOREM DirentsCorrect == Spec => []DirentsExact
<1>1. ListInv => DirentsExact BY DEF ListInv
<1> QED BY <1>1, ListInvHolds, PTL

\* While the project is served, a listing changes by new names with a revision
\* at its head, and by nothing else.
THEOREM ListingsCorrect == Spec => ListingStable
<1>1. IndInv /\ ListInv /\ [Next]_vars => ListingStep BY NextLists
<1>2. IndInv /\ ListInv /\ [Next]_vars => [ListingStep]_vars BY <1>1
<1> QED BY <1>2, IndInvHolds, ListInvHolds, PTL DEF Spec, ListingStable
=============================================================================
