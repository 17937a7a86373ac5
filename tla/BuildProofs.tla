----------------------------- MODULE BuildProofs -----------------------------
(***************************************************************************)
(* Proofs about BuildProject, for every response, whatever the files in it *)
(* contain and wherever it is cut: the parser stays in step with the items *)
(* of the response, so it implements the loading actions of FileTable.     *)
(***************************************************************************)
EXTENDS BuildProject, FileTableProofs

\* The parser is at the beginning of item k, or behind the last item: what is
\* left of the response begins there, and lacks its end only if it was cut.
Aligned(k) ==
    LET b == response.begin[k]
        e == Len(response.text)
    IN /\ \E S : co_buff \in Seq(S)
       /\ Len(co_buff) + b <= e + 2
       /\ cut \/ Len(co_buff) + b = e + 2 \/ (co_buff = <<>> /\ k = Len(response.begin))
       /\ \A j \in 1..Len(co_buff) :
             co_buff[j] = IF j + b <= e + 1 THEN response.text[(j + b) - 1] ELSE OkUnit

\* The items in front of it, and no others, are in the table.
Parsed(k) ==
    k \in 1..Len(response.begin) /\ Aligned(k) /\ Loaded = FirstItems(k - 1)

Staged ==
    /\ cut \in BOOLEAN
    /\ stage = "connect" => phase = "expand"
    /\ stage = "undefined" => cut

InStep ==
    stage = "load" /\ phase = "checkout" =>
        /\ response \in Response
        /\ \A p \in ModuleDirs : Listed(p)
        /\ \E k : Parsed(k)

\* The inductive invariant, with those of the table itself.
BuildInv == IndInv /\ ListInv /\ Staged /\ InStep

-----------------------------------------------------------------------------
(* The response. *)

\* Where an item lies in the text.
LEMMA ItemPlace ==
    ASSUME NEW r \in Response, NEW k \in Items(r)
    PROVE  /\ Len(r.text) \in Nat /\ Len(r.begin) \in Nat
           /\ k \in 1..Len(r.begin) /\ k + 1 \in 1..Len(r.begin) /\ k \in Nat
           /\ r.begin[k] \in 1..(Len(r.text) + 1)
           /\ r.begin[k + 1] \in 1..(Len(r.text) + 1)
<1>1. r.text \in Seq(Unit) /\ r.begin \in Seq(1..(Len(r.text) + 1))
  BY ResponseAssumption DEF Filled
<1>2. Len(r.text) \in Nat /\ Len(r.begin) \in Nat /\ DOMAIN r.begin = 1..Len(r.begin)
  BY <1>1, LenProperties
<1>3. k \in 1..Len(r.begin) /\ k + 1 \in 1..Len(r.begin) /\ k \in Nat
  BY <1>2 DEF Items
<1>4. \A S, q : q \in Seq(S) => \A i \in 1..Len(q) : q[i] \in S OBVIOUS
<1>5. r.begin[k] \in 1..(Len(r.text) + 1) /\ r.begin[k + 1] \in 1..(Len(r.text) + 1)
  BY <1>1, <1>3, <1>4, Zenon
<1> QED BY <1>1, <1>2, <1>3, <1>5

\* The last place is behind the text.
LEMMA LastPlace ==
    ASSUME NEW r \in Response
    PROVE  /\ Len(r.text) \in Nat /\ Len(r.begin) \in Nat /\ Len(r.begin) >= 1
           /\ r.begin[1] = 1 /\ r.begin[Len(r.begin)] = Len(r.text) + 1
           /\ \A k \in 1..Len(r.begin) : k \in Items(r) \/ k = Len(r.begin)
<1>1. /\ r.text \in Seq(Unit) /\ r.begin \in Seq(1..(Len(r.text) + 1)) /\ r.begin # <<>>
      /\ r.begin[1] = 1 /\ r.begin[Len(r.begin)] = Len(r.text) + 1
  BY ResponseAssumption DEF Filled
<1>2. Len(r.text) \in Nat /\ Len(r.begin) \in Nat /\ Len(r.begin) # 0
  BY <1>1, LenProperties, EmptySeq
<1> QED BY <1>1, <1>2 DEF Items

\* What the items are.
LEMMA ItemKind ==
    ASSUME NEW r \in Response, NEW k \in Items(r)
    PROVE  /\ \/ /\ ItemLine(r, k, 1).type \in {"E", "short"}
                 /\ r.begin[k + 1] - r.begin[k] = 1
              \/ /\ ItemLine(r, k, 1).type = "M"
                 /\ r.begin[k + 1] - r.begin[k] >= SizeLine
                 /\ r.begin[k + 1] - r.begin[k] = SizeLine + ItemLine(r, k, SizeLine).sent
           /\ ItemLine(r, k, 1).type = "E" => ItemName(r, k) \in Dirs \cup Messages
           /\ ItemLine(r, k, 1).type = "M" =>
                 /\ ItemName(r, k) \in DOMAIN Repo
                 /\ ItemLine(r, k, EntryLine).ver \in DOMAIN Repo[ItemName(r, k)]
                 /\ ItemLine(r, k, SizeLine).full =
                       Repo[ItemName(r, k)][ItemLine(r, k, EntryLine).ver]
                 /\ \/ ItemLine(r, k, SizeLine).gz
                    \/ ItemLine(r, k, SizeLine).sent = ItemLine(r, k, SizeLine).full
           /\ ItemLine(r, k, 1).type # "short" =>
                 /\ \A j \in 1..(k - 1) : ItemName(r, j) # ItemName(r, k)
                 /\ \/ ItemName(r, k) \in Messages
                    \/ Front(ItemName(r, k)) \in
                          ModuleDirs \cup {ItemName(r, j) : j \in 1..(k - 1)}
<1>1. Filled(r) /\ Lists(r) BY ResponseAssumption
<1>2. \/ /\ ItemLine(r, k, 1).type \in {"E", "short"} /\ r.begin[k + 1] - r.begin[k] = 1
      \/ /\ ItemLine(r, k, 1).type = "M" /\ r.begin[k + 1] - r.begin[k] >= SizeLine
         /\ r.begin[k + 1] - r.begin[k] = SizeLine + ItemLine(r, k, SizeLine).sent
  BY <1>1 DEF Filled
<1>3. ASSUME ItemLine(r, k, 1).type # "short"
      PROVE  LET p == ItemName(r, k) IN
             /\ \/ ItemLine(r, k, 1).type = "E" /\ p \in Dirs \cup Messages
                \/ LET size == ItemLine(r, k, SizeLine)
                       v == ItemLine(r, k, EntryLine).ver
                   IN /\ ItemLine(r, k, 1).type = "M"
                      /\ p \in DOMAIN Repo /\ v \in DOMAIN Repo[p]
                      /\ size.full = Repo[p][v]
                      /\ size.gz \/ size.sent = size.full
             /\ \A j \in 1..(k - 1) : ItemName(r, j) # p
             /\ \/ p \in Messages
                \/ Front(p) \in ModuleDirs \cup {ItemName(r, j) : j \in 1..(k - 1)}
  BY <1>1, <1>3 DEF Lists
<1> QED BY <1>2, <1>3

\* What cvs_get_resp returns, without the first line, is a beginning of the text
\* and the ok line.
LEMMA WholeText ==
    ASSUME NEW r \in Response, NEW n \in 1..Len(Whole(r))
    PROVE  LET c == SubSeq(Whole(r), 2, n) IN
           /\ \E S : c \in Seq(S)
           /\ Len(c) = n - 1 /\ Len(Whole(r)) = Len(r.text) + 2 /\ Len(r.text) \in Nat
           /\ \A j \in 1..Len(c) :
                 c[j] = IF j <= Len(r.text) THEN r.text[j] ELSE OkUnit
<1> DEFINE S == Unit \cup {OkUnit}
           e == Len(r.text)
           w == Whole(r)
           c == SubSeq(w, 2, n)
<1>1. r.text \in Seq(Unit) BY ResponseAssumption DEF Filled
<1>2. e \in Nat BY <1>1
<1>3. r.text \in Seq(S) /\ <<OkUnit>> \in Seq(S) BY <1>1
<1> HIDE DEF S
<1>4. /\ w \in Seq(S) /\ Len(w) = e + 2
      /\ \A j \in 1..e : w[j + 1] = r.text[j]
      /\ w[e + 2] = OkUnit
  <2>1. \A ok \in S, t \in Seq(S) :
           LET v == <<ok>> \o t \o <<ok>> IN
           /\ v \in Seq(S) /\ Len(v) = Len(t) + 2
           /\ \A j \in 1..Len(t) : v[j + 1] = t[j]
           /\ v[Len(t) + 2] = ok
    OBVIOUS
  <2>2. OkUnit \in S BY DEF S
  <2> QED BY <1>3, <2>1, <2>2, Zenon DEF Whole
<1> HIDE DEF w, e
<1>5. /\ c \in Seq(S) /\ Len(c) = n - 1 /\ \A j \in 1..(n - 1) : c[j] = w[j + 1]
  <2>1. n \in 1..(e + 2) BY <1>4 DEF w
  <2> QED BY <1>2, <1>4, <2>1
<1>6. \A j \in 1..(n - 1) : c[j] = IF j <= e THEN r.text[j] ELSE OkUnit
  <2>1. n \in 1..(e + 2) BY <1>4 DEF w
  <2>2. \A j \in 1..(n - 1) : j \in 1..e \/ (j = e + 1 /\ ~(j <= e)) BY <1>2, <2>1
  <2> QED BY <1>2, <1>4, <1>5, <2>2
<1> QED BY <1>2, <1>4, <1>5, <1>6 DEF w, e

-----------------------------------------------------------------------------
(* The parser. *)

\* The first line of what is left is that of the next item, or the ok line.
LEMMA NextLine ==
    ASSUME response \in Response, NEW k \in 1..Len(response.begin), Aligned(k),
           co_buff # <<>>
    PROVE  /\ k \in Items(response) =>
                 \A n \in 1..Len(co_buff) :
                    n <= response.begin[k + 1] - response.begin[k] =>
                       co_buff[n] = ItemLine(response, k, n)
           /\ k \notin Items(response) => co_buff[1] = OkUnit
           /\ 1 \in 1..Len(co_buff) /\ Len(co_buff) \in Nat
<1> DEFINE b == response.begin[k]
           e == Len(response.text)
           l == Len(co_buff)
<1>1. PICK S : co_buff \in Seq(S) BY DEF Aligned
<1>2. l \in Nat /\ l >= 1 BY <1>1
<1>3. \A j \in 1..l :
         co_buff[j] = IF j + b <= e + 1 THEN response.text[(j + b) - 1] ELSE OkUnit
  BY DEF Aligned
<1>4. ASSUME k \in Items(response),
             NEW n \in 1..l, n <= response.begin[k + 1] - b
      PROVE  co_buff[n] = ItemLine(response, k, n)
  <2> DEFINE c == response.begin[k + 1]
  <2>1. e \in Nat /\ b \in 1..(e + 1) /\ c \in 1..(e + 1)
    BY <1>4, ItemPlace
  <2>2. n \in Nat /\ n <= c - b BY <1>2, <1>4
  <2>3. ItemLine(response, k, n) = response.text[b + n - 1] BY DEF ItemLine
  <2> HIDE DEF b, c, e
  <2>4. n + b <= e + 1 /\ (n + b) - 1 = b + n - 1 BY <2>1, <2>2
  <2>5. co_buff[n] = response.text[(n + b) - 1] BY <1>3, <1>4, <2>4
  <2> QED BY <2>3, <2>4, <2>5
<1>5. ASSUME k \notin Items(response) PROVE co_buff[1] = OkUnit
  <2>1. b = e + 1 /\ e \in Nat BY <1>5, LastPlace
  <2>2. ~(1 + b <= e + 1) BY <2>1
  <2> QED BY <1>2, <1>3, <2>2
<1> QED BY <1>2, <1>4, <1>5

\* When the lines and bytes of an item are dropped, the next one is in front.
LEMMA DroppedAligned ==
    ASSUME response \in Response, NEW k \in Items(response), Aligned(k),
           co_buff # <<>>, UNCHANGED <<response, cut>>,
           co_buff' = Dropped(response.begin[k + 1] - response.begin[k])
    PROVE  Aligned(k + 1)'
<1> DEFINE b == response.begin[k]
           c == response.begin[k + 1]
           e == Len(response.text)
           l == Len(co_buff)
           m == c - b
<1>1. PICK S : co_buff \in Seq(S) BY DEF Aligned
<1>2. /\ e \in Nat /\ b \in 1..(e + 1) /\ c \in 1..(e + 1) /\ k \in Nat
      /\ k + 1 \in 1..Len(response.begin) /\ Len(response.begin) \in Nat
  BY ItemPlace
<1>3. m \in Nat /\ m >= 1 BY <1>2, ItemKind DEF SizeLine
<1>4. l \in Nat /\ l >= 1 /\ l + b <= e + 2 /\ (cut \/ l + b = e + 2)
  BY <1>1 DEF Aligned
<1>5. \A j \in 1..l :
         co_buff[j] = IF j + b <= e + 1 THEN response.text[(j + b) - 1] ELSE OkUnit
  BY DEF Aligned
<1>a. co_buff' = SubSeq(co_buff, m + 1, l) BY DEF Dropped
<1> HIDE DEF m, l
<1>6. /\ co_buff' \in Seq(S)
      /\ Len(co_buff') = IF m + 1 <= l THEN l - m ELSE 0
      /\ \A j \in 1..Len(co_buff') : co_buff'[j] = co_buff[m + j]
  <2>1. \A q \in Seq(S), n \in Nat :
           /\ SubSeq(q, n + 1, Len(q)) \in Seq(S)
           /\ Len(SubSeq(q, n + 1, Len(q))) = IF n + 1 <= Len(q) THEN Len(q) - n ELSE 0
           /\ \A j \in 1..Len(SubSeq(q, n + 1, Len(q))) :
                 SubSeq(q, n + 1, Len(q))[j] = q[n + j]
    OBVIOUS
  <2>2. co_buff' = SubSeq(co_buff, m + 1, Len(co_buff)) BY <1>a DEF l
  <2>3. /\ SubSeq(co_buff, m + 1, Len(co_buff)) \in Seq(S)
        /\ Len(SubSeq(co_buff, m + 1, Len(co_buff))) =
              IF m + 1 <= Len(co_buff) THEN Len(co_buff) - m ELSE 0
        /\ \A j \in 1..Len(SubSeq(co_buff, m + 1, Len(co_buff))) :
              SubSeq(co_buff, m + 1, Len(co_buff))[j] = co_buff[m + j]
    BY <1>1, <1>3, <2>1, Zenon
  <2> QED BY <2>2, <2>3, Zenon DEF l
<1> HIDE DEF b, c, e
<1>7. m + b = c
  <2>1. m = c - b BY DEF m
  <2> QED BY <1>2, <2>1
<1>8. Len(co_buff') + c <= e + 2 BY <1>2, <1>3, <1>4, <1>6, <1>7
<1>9. cut \/ Len(co_buff') + c = e + 2
  <2>1. SUFFICES ASSUME ~cut PROVE Len(co_buff') + c = e + 2 OBVIOUS
  <2>2. l + b = e + 2 BY <1>4, <2>1
  <2>3. m + 1 <= l BY <1>2, <1>3, <1>4, <1>7, <2>2
  <2>4. Len(co_buff') = l - m BY <1>6, <2>3
  <2> QED BY <1>2, <1>3, <1>4, <1>7, <2>2, <2>4
<1>10. ASSUME NEW j \in 1..Len(co_buff')
       PROVE  co_buff'[j] = IF j + c <= e + 1 THEN response.text[(j + c) - 1] ELSE OkUnit
  <2>1. m + j \in 1..l /\ j \in Nat BY <1>3, <1>4, <1>6, <1>10
  <2>2. (m + j) + b = j + c BY <1>2, <1>3, <1>7, <2>1
  <2> QED BY <1>5, <1>6, <2>1, <2>2
<1> QED BY <1>6, <1>8, <1>9, <1>10 DEF Aligned, c, e

\* A new entry below the module is loaded besides those that were.
LEMMA AllocLoads ==
    ASSUME IndInv, NEW p, NEW type, NEW size, NEW ver, p \notin ModuleDirs,
           Alloc(p, type, size, ver)
    PROVE  /\ Loaded' = Loaded \cup {[name |-> p, type |-> type, size |-> size, ver |-> ver]}
           /\ \A q : Listed(q) => Listed(q)'
<1>1. PICK b \in 0..(NumVinodes - 1) : FirstFree(b) /\ Create(b + 1, p, type, size, ver)
  BY DEF Alloc
<1> DEFINE id == b + 1
           parent == lookup_fh_name(Front(p))
           new == [name |-> p, type |-> type, size |-> size, ver |-> ver, dirent |-> <<>>]
<1>2. id \notin DOMAIN ventry
  <2>1. b \in Nat /\ b \notin vinode_bmap BY <1>1, BoundsAssumption DEF FirstFree
  <2>2. id - 1 = b BY <2>1
  <2> QED BY <2>1, <2>2 DEF IndInv, TableInv, Ids
<1>3. ventry' = [i \in DOMAIN ventry \cup {id} |->
                    IF i = id THEN new
                    ELSE IF i = parent THEN [ventry[i] EXCEPT !.dirent = <<id>> \o @]
                    ELSE ventry[i]]
  BY <1>1 DEF Create, insert_ventry
<1>4. DOMAIN ventry' = DOMAIN ventry \cup {id} /\ ventry'[id] = new BY <1>3
<1>5. ASSUME NEW i \in DOMAIN ventry
      PROVE  /\ ventry'[i].name = ventry[i].name /\ ventry'[i].type = ventry[i].type
             /\ ventry'[i].size = ventry[i].size /\ ventry'[i].ver = ventry[i].ver
  <2>1. ventry[i] \in VEntry(DOMAIN ventry) BY DEF IndInv, TableInv, Entries
  <2>2. ventry'[i] = ventry[i] \/ ventry'[i] = [ventry[i] EXCEPT !.dirent = <<id>> \o @]
    BY <1>2, <1>3
  <2> QED BY <2>1, <2>2 DEF VEntry
<1> HIDE DEF id
<1>6. new.name = p /\ new.type = type /\ new.size = size /\ new.ver = ver OBVIOUS
<1> HIDE DEF new
<1>7. \A q : Listed(q) => Listed(q)' BY <1>4, <1>5 DEF Listed
<1> DEFINE what(i) == [name |-> ventry[i].name, type |-> ventry[i].type,
                       size |-> ventry[i].size, ver |-> ventry[i].ver]
           then(i) == [name |-> ventry'[i].name, type |-> ventry'[i].type,
                       size |-> ventry'[i].size, ver |-> ventry'[i].ver]
           below == {j \in DOMAIN ventry : ventry[j].name \notin ModuleDirs}
           belowThen == {j \in DOMAIN ventry' : ventry'[j].name \notin ModuleDirs}
<1>8. belowThen = below \cup {id} BY <1>4, <1>5, <1>6
<1>9. \A i \in below : then(i) = what(i) BY <1>5
<1>10. then(id) = [name |-> p, type |-> type, size |-> size, ver |-> ver]
  BY <1>4, <1>6
<1>11. Loaded = {what(i) : i \in below} /\ Loaded' = {then(i) : i \in belowThen}
  BY DEF Loaded
<1> HIDE DEF what, then, below, belowThen
<1>12. Loaded' = Loaded \cup {then(id)} BY <1>8, <1>9, <1>11
<1> QED BY <1>7, <1>10, <1>12

\* What is loaded is listed, and what is listed below the module is loaded.
LEMMA LoadedListed ==
    /\ \A x \in Loaded : Listed(x.name)
    /\ \A p : Listed(p) /\ p \notin ModuleDirs => \E x \in Loaded : x.name = p
<1> DEFINE what(i) == [name |-> ventry[i].name, type |-> ventry[i].type,
                       size |-> ventry[i].size, ver |-> ventry[i].ver]
           below == {j \in DOMAIN ventry : ventry[j].name \notin ModuleDirs}
<1>1. Loaded = {what(i) : i \in below} BY DEF Loaded
<1>2. \A i : what(i).name = ventry[i].name OBVIOUS
<1>3. below \subseteq DOMAIN ventry OBVIOUS
<1>4. \A p : Listed(p) /\ p \notin ModuleDirs => \E i \in below : ventry[i].name = p
  BY DEF Listed
<1> HIDE DEF what, below
<1>5. \A x \in Loaded : Listed(x.name) BY <1>1, <1>2, <1>3 DEF Listed
<1> QED BY <1>1, <1>2, <1>4, <1>5

-----------------------------------------------------------------------------
(* The items of the response and the table. *)

\* The next item is not in the table, and the directory that it is in is.
LEMMA NextItem ==
    ASSUME response \in Response, \A p \in ModuleDirs : Listed(p),
           NEW k \in Items(response), Parsed(k), ItemLine(response, k, 1).type \in {"E", "M"}
    PROVE  /\ NextListed(ItemName(response, k))
           /\ ItemName(response, k) \notin ModuleDirs
<1> DEFINE p == ItemName(response, k)
<1>1. \A i : ItemEntry(i).name = ItemName(response, i) BY DEF ItemEntry
<1>2. p \notin ModuleDirs
  <2>1. p \in Loadable BY ItemKind DEF Loadable
  <2> QED BY <2>1, RepoAssumption
<1>3. \A j \in 1..(k - 1) : ItemName(response, j) # p BY ItemKind
<1>4. Loaded = {ItemEntry(i) : i \in 1..(k - 1)} BY DEF Parsed, FirstItems
<1>5. ~Listed(p)
  <2>1. SUFFICES ASSUME Listed(p) PROVE FALSE OBVIOUS
  <2>2. PICK x \in Loaded : x.name = p BY <1>2, <2>1, LoadedListed
  <2>3. PICK i \in 1..(k - 1) : x = ItemEntry(i) BY <1>4, <2>2
  <2> QED BY <1>1, <1>3, <2>2, <2>3
<1>6. p \in Messages \/ Listed(Front(p))
  <2>1. CASE Front(p) \in ModuleDirs BY <2>1
  <2>2. CASE \E j \in 1..(k - 1) : Front(p) = ItemName(response, j)
    <3>1. PICK j \in 1..(k - 1) : Front(p) = ItemName(response, j) BY <2>2
    <3>2. ItemEntry(j) \in Loaded BY <1>4
    <3> QED BY <1>1, <3>1, <3>2, LoadedListed
  <2> QED BY <2>1, <2>2, ItemKind
<1> QED BY <1>2, <1>5, <1>6 DEF NextListed

\* Once it is made, the parser is at the item behind it.
LEMMA ItemMade ==
    ASSUME IndInv, response \in Response, \A p \in ModuleDirs : Listed(p),
           NEW k \in Items(response), Parsed(k), co_buff # <<>>,
           ItemLine(response, k, 1).type \in {"E", "M"}, NEW type, NEW size, NEW ver,
           ItemEntry(k) = [name |-> ItemName(response, k), type |-> type,
                           size |-> size, ver |-> ver],
           Alloc(ItemName(response, k), type, size, ver),
           UNCHANGED <<response, cut>>,
           co_buff' = Dropped(response.begin[k + 1] - response.begin[k])
    PROVE  Parsed(k + 1)' /\ \A p \in ModuleDirs : Listed(p)'
<1>1. ItemName(response, k) \notin ModuleDirs BY NextItem
<1>2. /\ Loaded' = Loaded \cup {ItemEntry(k)}
      /\ \A q : Listed(q) => Listed(q)'
  BY <1>1, AllocLoads
<1>3. Aligned(k + 1)' BY DroppedAligned DEF Parsed
<1>4. k + 1 \in 1..Len(response.begin) /\ k \in Nat /\ k >= 1 BY ItemPlace
<1>5. FirstItems((k + 1) - 1)' = FirstItems(k - 1) \cup {ItemEntry(k)}
  <2>1. \A i : ItemEntry(i)' = ItemEntry(i)
    BY DEF ItemEntry, ItemName, ItemLine
  <2>2. 1..((k + 1) - 1) = 1..(k - 1) \cup {k} BY <1>4
  <2>3. FirstItems((k + 1) - 1)' = {ItemEntry(i) : i \in 1..((k + 1) - 1)}
    BY <2>1 DEF FirstItems
  <2> QED BY <2>2, <2>3 DEF FirstItems
<1> QED BY <1>2, <1>3, <1>4, <1>5 DEF Parsed

\* The type of the first line tells whether there is an item, and which.
LEMMA AtItem ==
    ASSUME response \in Response, NEW k, Parsed(k), co_buff # <<>>,
           co_buff[1].type \in {"E", "short", "M"}
    PROVE  k \in Items(response) /\ co_buff[1] = ItemLine(response, k, 1)
<1>1. k \in Items(response)
  <2>1. OkUnit.type = "ok" BY DEF OkUnit
  <2> QED BY <2>1, NextLine DEF Parsed
<1>2. 1 <= response.begin[k + 1] - response.begin[k]
  <2>1. /\ Len(response.text) \in Nat
        /\ response.begin[k] \in 1..(Len(response.text) + 1)
        /\ response.begin[k + 1] \in 1..(Len(response.text) + 1)
    BY <1>1, ItemPlace
  <2>2. \/ response.begin[k + 1] - response.begin[k] = 1
        \/ response.begin[k + 1] - response.begin[k] >= 6
    BY <1>1, ItemKind DEF SizeLine
  <2> QED BY <2>1, <2>2
<1> QED BY <1>1, <1>2, NextLine DEF Parsed

LEMMA ParseDirLoads ==
    ASSUME BuildInv, ParseDir
    PROVE  (\E p \in Dirs \cup Messages : CheckoutDir(p)) /\ InStep'
<1>1. /\ stage = "load" /\ phase = "checkout" /\ co_buff # <<>> /\ co_buff[1].type = "E"
      /\ UNCHANGED <<stage, response, cut>> /\ co_buff' = Dropped(1)
  BY DEF ParseDir, Parsing
<1>2. response \in Response /\ \A p \in ModuleDirs : Listed(p)
  BY <1>1 DEF BuildInv, InStep
<1>3. PICK k : Parsed(k) BY <1>1 DEF BuildInv, InStep
<1>4. k \in Items(response) /\ co_buff[1] = ItemLine(response, k, 1)
  BY <1>1, <1>2, <1>3, AtItem
<1> DEFINE p == ItemName(response, k)
<1>5. p = co_buff[1].path BY <1>4 DEF ItemName
<1>6. p \in Dirs \cup Messages /\ response.begin[k + 1] - response.begin[k] = 1
  BY <1>1, <1>2, <1>4, ItemKind
<1>7. NextListed(p) BY <1>1, <1>2, <1>3, <1>4, NextItem
<1>8. CASE Alloc(p, "NFDIR", DirSize, NoVersion) /\ UNCHANGED <<phase, count, boot, handles>>
  <2>1. CheckoutDir(p) BY <1>1, <1>6, <1>7, <1>8 DEF CheckoutDir
  <2>2. ItemEntry(k) = [name |-> p, type |-> "NFDIR", size |-> DirSize, ver |-> NoVersion]
    BY <1>1, <1>4 DEF ItemEntry
  <2>3. Parsed(k + 1)' /\ \A q \in ModuleDirs : Listed(q)'
    BY <1>1, <1>2, <1>3, <1>4, <1>6, <1>8, <2>2, ItemMade DEF BuildInv
  <2> QED BY <1>1, <1>2, <1>6, <2>1, <2>3 DEF InStep
<1>9. CASE OutOfVinodes /\ Fail("Ran out of vinodes")
  <2>1. CheckoutDir(p) BY <1>1, <1>6, <1>7, <1>9 DEF CheckoutDir
  <2>2. phase' # "checkout" BY <1>9 DEF Fail
  <2> QED BY <1>6, <2>1, <2>2 DEF InStep
<1> QED BY <1>5, <1>8, <1>9 DEF ParseDir, Made

\* The lines of a file that are there are its own, and if the response was not
\* cut they are all there.
LEMMA FileLines ==
    ASSUME BuildInv, Parsing("M")
    PROVE  /\ response \in Response /\ (\A p \in ModuleDirs : Listed(p))
           /\ \E k \in Items(response) :
                 /\ Parsed(k) /\ co_buff[1] = ItemLine(response, k, 1)
                 /\ response.begin[k + 1] - response.begin[k] =
                       SizeLine + ItemLine(response, k, SizeLine).sent
                 /\ ~LinesMissing =>
                       /\ co_buff[EntryLine] = ItemLine(response, k, EntryLine)
                       /\ co_buff[SizeLine] = ItemLine(response, k, SizeLine)
                 /\ ~cut => ~LinesMissing /\ ~BytesMissing
<1>1. /\ stage = "load" /\ phase = "checkout" /\ co_buff # <<>> /\ co_buff[1].type = "M"
  BY DEF Parsing
<1>2. response \in Response /\ \A p \in ModuleDirs : Listed(p)
  BY <1>1 DEF BuildInv, InStep
<1>3. PICK k : Parsed(k) BY <1>1 DEF BuildInv, InStep
<1>4. k \in Items(response) /\ co_buff[1] = ItemLine(response, k, 1)
  BY <1>1, <1>2, <1>3, AtItem
<1> DEFINE b == response.begin[k]
           c == response.begin[k + 1]
           e == Len(response.text)
           sent == ItemLine(response, k, SizeLine).sent
<1>5. c - b >= SizeLine /\ c - b = SizeLine + sent
  BY <1>1, <1>2, <1>4, ItemKind
<1>6. e \in Nat /\ b \in 1..(e + 1) /\ c \in 1..(e + 1) BY <1>2, <1>4, ItemPlace
<1>7. /\ \A n \in 1..Len(co_buff) : n <= c - b => co_buff[n] = ItemLine(response, k, n)
      /\ Len(co_buff) \in Nat
  BY <1>1, <1>2, <1>3, <1>4, NextLine DEF Parsed
<1>8. ASSUME ~LinesMissing
      PROVE  /\ co_buff[EntryLine] = ItemLine(response, k, EntryLine)
             /\ co_buff[SizeLine] = ItemLine(response, k, SizeLine)
  <2>1. Len(co_buff) >= 6 BY <1>7, <1>8 DEF LinesMissing, SizeLine
  <2> HIDE DEF b, c
  <2>2. 4 <= c - b /\ 6 <= c - b BY <1>5, <1>6 DEF SizeLine
  <2> QED BY <1>7, <2>1, <2>2 DEF EntryLine, SizeLine
<1>9. ASSUME ~cut PROVE ~LinesMissing /\ ~BytesMissing
  <2>1. Len(co_buff) + b = e + 2
    BY <1>1, <1>3, <1>9 DEF Parsed, Aligned
  <2> HIDE DEF b, c, e
  <2>2. Len(co_buff) >= (c - b) + 1 BY <1>6, <1>7, <2>1
  <2>3. ~LinesMissing BY <1>5, <1>6, <1>7, <2>2 DEF LinesMissing, SizeLine
  <2>4. ~(Len(co_buff) < c - b) BY <1>6, <1>7, <2>2
  <2>5. co_buff[SizeLine].sent = sent BY <1>8, <2>3
  <2>6. ~(Len(co_buff) < SizeLine + co_buff[SizeLine].sent) BY <1>5, <2>4, <2>5
  <2> QED BY <2>3, <2>6 DEF BytesMissing
<1> QED BY <1>2, <1>3, <1>4, <1>5, <1>8, <1>9

LEMMA ParseFileLoads ==
    ASSUME BuildInv, ParseFile
    PROVE  (\E p \in DOMAIN Repo : \E r \in Version : CheckoutFile(p, r)) /\ InStep'
<1>1. /\ Parsing("M") /\ stage = "load" /\ phase = "checkout" /\ co_buff # <<>>
      /\ co_buff[1].type = "M" /\ ~LinesMissing
      /\ UNCHANGED <<stage, response, cut>> /\ co_buff' = Dropped(SizeLine + FileLength)
  BY DEF ParseFile, Parsing
<1>2. response \in Response /\ \A p \in ModuleDirs : Listed(p)
  BY <1>1, FileLines
<1>3. PICK k \in Items(response) :
        /\ Parsed(k) /\ co_buff[1] = ItemLine(response, k, 1)
        /\ response.begin[k + 1] - response.begin[k] =
              SizeLine + ItemLine(response, k, SizeLine).sent
        /\ co_buff[EntryLine] = ItemLine(response, k, EntryLine)
        /\ co_buff[SizeLine] = ItemLine(response, k, SizeLine)
  BY <1>1, FileLines
<1> DEFINE p == ItemName(response, k)
           r == ItemLine(response, k, EntryLine).ver
<1>4. p = co_buff[1].path /\ r = co_buff[EntryLine].ver BY <1>3 DEF ItemName
<1>5. /\ p \in DOMAIN Repo /\ r \in DOMAIN Repo[p]
      /\ ItemLine(response, k, SizeLine).full = Repo[p][r]
      /\ \/ ItemLine(response, k, SizeLine).gz
         \/ ItemLine(response, k, SizeLine).sent = ItemLine(response, k, SizeLine).full
  BY <1>1, <1>2, <1>3, ItemKind
<1>6. r \in Version BY <1>5, RepoAssumption
<1>7. FileSize = Repo[p][r] /\ FileSize = ItemLine(response, k, SizeLine).full
  BY <1>3, <1>5 DEF FileSize
<1>8. co_buff' = Dropped(response.begin[k + 1] - response.begin[k])
  BY <1>1, <1>3 DEF FileLength
<1>9. NextListed(p) BY <1>1, <1>2, <1>3, NextItem
<1>10. CASE Alloc(p, "NFREG", FileSize, r) /\ UNCHANGED <<phase, count, boot, handles>>
  <2>1. CheckoutFile(p, r) BY <1>1, <1>5, <1>7, <1>9, <1>10 DEF CheckoutFile
  <2>2. ItemEntry(k) = [name |-> p, type |-> "NFREG", size |-> FileSize, ver |-> r]
    BY <1>1, <1>3, <1>7 DEF ItemEntry
  <2>3. Parsed(k + 1)' /\ \A q \in ModuleDirs : Listed(q)'
    BY <1>1, <1>2, <1>3, <1>8, <1>10, <2>2, ItemMade DEF BuildInv
  <2> QED BY <1>1, <1>2, <1>5, <1>6, <2>1, <2>3 DEF InStep
<1>11. CASE OutOfVinodes /\ Fail("Ran out of vinodes")
  <2>1. CheckoutFile(p, r) BY <1>1, <1>5, <1>9, <1>11 DEF CheckoutFile
  <2>2. phase' # "checkout" BY <1>11 DEF Fail
  <2> QED BY <1>5, <1>6, <2>1, <2>2 DEF InStep
<1> QED BY <1>4, <1>10, <1>11 DEF ParseFile, Made

\* The line behind the items is dropped.
LEMMA ParseOtherStays == ASSUME BuildInv, ParseOther PROVE InStep'
<1>1. /\ stage = "load" /\ phase = "checkout" /\ co_buff # <<>>
      /\ co_buff[1].type \notin {"E", "short", "M"}
      /\ UNCHANGED <<vars, stage, response, cut>> /\ co_buff' = Dropped(1)
  BY DEF ParseOther
<1>2. response \in Response /\ \A p \in ModuleDirs : Listed(p)
  BY <1>1 DEF BuildInv, InStep
<1>3. PICK k : Parsed(k) BY <1>1 DEF BuildInv, InStep
<1>4. k \notin Items(response)
  <2>1. SUFFICES ASSUME k \in Items(response) PROVE FALSE OBVIOUS
  <2>2. /\ Len(response.text) \in Nat
        /\ response.begin[k] \in 1..(Len(response.text) + 1)
        /\ response.begin[k + 1] \in 1..(Len(response.text) + 1)
    BY <1>2, <2>1, ItemPlace
  <2>3. /\ \/ response.begin[k + 1] - response.begin[k] = 1
           \/ response.begin[k + 1] - response.begin[k] >= 6
        /\ ItemLine(response, k, 1).type \in {"E", "short", "M"}
    BY <1>2, <2>1, ItemKind DEF SizeLine
  <2>4. 1 <= response.begin[k + 1] - response.begin[k] BY <2>2, <2>3
  <2>5. co_buff[1] = ItemLine(response, k, 1)
    BY <1>1, <1>2, <1>3, <2>1, <2>4, NextLine DEF Parsed
  <2> QED BY <1>1, <2>3, <2>5
<1>5. k = Len(response.begin) /\ response.begin[k] = Len(response.text) + 1
      /\ Len(response.text) \in Nat
  BY <1>2, <1>3, <1>4, LastPlace DEF Parsed
<1>6. co_buff' = <<>>
  <2>1. PICK S : co_buff \in Seq(S) BY <1>3 DEF Parsed, Aligned
  <2>2. Len(co_buff) + response.begin[k] <= Len(response.text) + 2
    BY <1>3 DEF Parsed, Aligned
  <2>3. Len(co_buff) \in Nat BY <2>1
  <2>4. Len(co_buff) <= 1 BY <1>5, <2>2, <2>3
  <2>5. SubSeq(co_buff, 1 + 1, Len(co_buff)) = <<>> BY <2>1, <2>3, <2>4
  <2> QED BY <1>1, <2>5 DEF Dropped
<1>7. Aligned(k)'
  <2>1. <<>> \in Seq({}) /\ Len(<<>>) = 0 /\ 1..0 = {} OBVIOUS
  <2>2. response' = response BY <1>1
  <2> QED BY <1>5, <1>6, <2>1, <2>2 DEF Aligned
<1>8. Loaded' = Loaded /\ FirstItems(k - 1)' = FirstItems(k - 1)
      /\ \A p : Listed(p)' = Listed(p)
  BY <1>1 DEF vars, Loaded, FirstItems, ItemEntry, ItemName, ItemLine, Listed
<1> QED BY <1>1, <1>2, <1>3, <1>7, <1>8 DEF InStep, Parsed, vars

\* When the checkout begins, the table has the path of the module.
LEMMA CheckoutStarts ==
    ASSUME BuildInv, NEW r \in Response, Checkout(r) PROVE InStep'
<1>1. /\ phase = "expand" /\ count = Len(ModulePath) /\ UNCHANGED table
      /\ response' = r
  BY DEF Checkout, CheckoutBegin
<1>2. PICK n \in 1..Len(Whole(r)) :
        co_buff' = SubSeq(Whole(r), 2, n) /\ cut' = (n < Len(Whole(r)))
  BY DEF Checkout
<1>3. ModulePath \in Seq(Entry) /\ Len(ModulePath) \in Nat
  BY ModuleAssumption DEF Path
<1>4. \A p \in ModuleDirs : Listed(p)'
  <2>1. \A p \in ModuleDirs : Listed(p) BY <1>1 DEF ModuleDirs, BuildInv, ListInv, Grown
  <2> QED BY <1>1, <2>1 DEF table, Listed
<1>5. Loaded' = {}
  <2>1. \A i \in DOMAIN ventry : ventry[i].name \in ModuleDirs
    BY <1>1 DEF BuildInv, IndInv, Expanding, ModuleDirs
  <2> QED BY <1>1, <2>1 DEF table, Loaded
<1>6. /\ Len(r.text) \in Nat /\ Len(r.begin) \in Nat /\ Len(r.begin) >= 1 /\ r.begin[1] = 1
  BY LastPlace
<1>7. /\ \E S : co_buff' \in Seq(S)
      /\ Len(co_buff') = n - 1 /\ Len(Whole(r)) = Len(r.text) + 2
      /\ \A j \in 1..Len(co_buff') :
            co_buff'[j] = IF j <= Len(r.text) THEN r.text[j] ELSE OkUnit
  BY <1>2, WholeText
<1>8. Aligned(1)'
  <2> DEFINE e == Len(r.text)
  <2>1. n \in 1..(e + 2) BY <1>7
  <2>2. Len(co_buff') + 1 <= e + 2 BY <1>6, <1>7, <2>1
  <2>3. cut' \/ Len(co_buff') + 1 = e + 2
    <3>1. CASE n < Len(Whole(r)) BY <1>2, <3>1
    <3>2. CASE ~(n < Len(Whole(r))) BY <1>6, <1>7, <2>1, <3>2
    <3> QED BY <3>1, <3>2
  <2>4. ASSUME NEW j \in 1..Len(co_buff')
        PROVE  co_buff'[j] = IF j + 1 <= e + 1 THEN r.text[(j + 1) - 1] ELSE OkUnit
    <3>1. j \in Nat BY <1>7, <2>1
    <3>2. (j + 1) - 1 = j /\ (j + 1 <= e + 1 <=> j <= e) BY <1>6, <3>1
    <3> QED BY <1>7, <3>2
  <2> QED BY <1>1, <1>6, <1>7, <2>2, <2>3, <2>4 DEF Aligned
<1>9. FirstItems(1 - 1)' = {} BY DEF FirstItems
<1> QED BY <1>1, <1>4, <1>5, <1>6, <1>8, <1>9 DEF InStep, Parsed

-----------------------------------------------------------------------------
(* The steps. *)

LEMMA InitBuild == BuildInit => BuildInv /\ Init
<1> SUFFICES ASSUME BuildInit PROVE BuildInv /\ Init OBVIOUS
<1>1. Init /\ stage = "connect" /\ cut = FALSE /\ phase = "expand"
  BY DEF BuildInit, Init, EmptyTable
<1>2. IndInv /\ ListInv BY <1>1, InitInv, InitLists
<1> QED BY <1>1, <1>2 DEF BuildInv, Staged, InStep

\* No request begins a checkout.
LEMMA RequestPhase ==
    ASSUME Request PROVE phase = "serve" /\ phase' # "checkout"
<1>1. ASSUME NEW h, NEW n, LookupPlain(h, n) PROVE phase = "serve" /\ phase' = phase
  BY <1>1 DEF LookupPlain
<1>2. ASSUME NEW h, NEW n, NEW v, LookupExtended(h, n, v)
      PROVE  phase = "serve" /\ phase' \in {phase, "crashed", "Ran out of vinodes"}
  BY <1>2 DEF LookupExtended
<1>3. ASSUME NEW h, Read(h) \/ Readdir(h) PROVE phase = "serve" /\ phase' # "checkout"
  BY <1>3 DEF Read, Rewrite, Readdir, ReaddirAsserts, Fail
<1>4. ASSUME NEW q, NEW v, Update(q, v) PROVE phase = "serve" /\ phase' # "checkout"
  BY <1>4 DEF Update, Rewrite, Fail
<1> QED BY <1>1, <1>2, <1>3, <1>4 DEF Request

\* A step of the parser is a step of the table, or changes nothing of it.
LEMMA BuildStep ==
    ASSUME BuildInv, [BuildNext]_<<vars, startup>>
    PROVE  [Next]_vars /\ Staged' /\ InStep'
<1>a. Staged /\ InStep BY DEF BuildInv
<1>1. CASE UNCHANGED <<vars, startup>>
  <2>1. [Next]_vars /\ UNCHANGED vars /\ UNCHANGED startup BY <1>1
  <2>2. Staged' BY <1>a, <2>1 DEF vars, startup, Staged
  <2>3. InStep'
    BY <1>a, <2>1 DEF vars, startup, InStep, Parsed, Aligned, Loaded, FirstItems, ItemEntry,
       ItemName, ItemLine, Listed
  <2> QED BY <2>1, <2>2, <2>3
<1>2. CASE Connect
  BY <1>a, <1>2 DEF Connect, vars, Staged, InStep
<1>3. CASE ExpandFails \/ CheckoutFails \/ ParseShort
  BY <1>a, <1>3 DEF ExpandFails, CheckoutFails, ParseShort, vars, Staged, InStep
<1>4. CASE Expand
  <2>1. stage = "load" /\ UNCHANGED startup /\ (ExpandRoot \/ ExpandDir)
    BY <1>4 DEF Expand
  <2>2. phase' # "checkout" BY <2>1 DEF ExpandRoot, ExpandDir, Fail
  <2> QED BY <1>a, <2>1, <2>2 DEF Next, Load, startup, Staged, InStep
<1>5. ASSUME NEW r \in Response, Checkout(r) PROVE [Next]_vars /\ Staged' /\ InStep'
  <2>1. stage = "load" /\ stage' = stage /\ CheckoutBegin /\ cut' \in BOOLEAN
    BY <1>5 DEF Checkout
  <2>2. InStep' BY <1>5, CheckoutStarts
  <2> QED BY <2>1, <2>2 DEF Next, Load, Staged
<1>6. CASE ParseDir
  <2>1. stage = "load" /\ UNCHANGED <<stage, cut>> BY <1>6 DEF ParseDir, Parsing
  <2> QED BY <1>a, <1>6, <2>1, ParseDirLoads DEF Next, Load, Staged
<1>7. CASE ParseFile
  <2>1. stage = "load" /\ UNCHANGED <<stage, cut>> BY <1>7 DEF ParseFile, Parsing
  <2> QED BY <1>a, <1>7, <2>1, ParseFileLoads DEF Next, Load, Staged
<1>8. CASE ParseTorn
  <2>1. cut BY <1>8, FileLines DEF ParseTorn
  <2> QED BY <1>a, <1>8, <2>1 DEF ParseTorn, vars, Staged, InStep
<1>9. CASE ParseOther
  <2>1. UNCHANGED <<vars, stage, cut>> BY <1>9 DEF ParseOther
  <2> QED BY <1>a, <1>9, <2>1, ParseOtherStays DEF vars, Staged
<1>10. CASE ParseEnd
  BY <1>a, <1>10 DEF ParseEnd, CheckoutEnd, startup, Next, Load, Staged, InStep
<1>11. CASE Serve
  <2>1. stage = "load" /\ Request /\ UNCHANGED startup BY <1>11 DEF Serve
  <2> QED BY <1>a, <2>1, RequestPhase DEF Next, startup, Staged, InStep
<1> QED BY <1>1, <1>2, <1>3, <1>4, <1>5, <1>6, <1>7, <1>8, <1>9, <1>10, <1>11
        DEF BuildNext, Loading

LEMMA BuildInvHolds == BuildSpec => []BuildInv
<1>1. BuildInit => BuildInv BY InitBuild
<1>2. BuildInv /\ [BuildNext]_<<vars, startup>> => BuildInv'
  <2>1. SUFFICES ASSUME BuildInv, [BuildNext]_<<vars, startup>> PROVE BuildInv' OBVIOUS
  <2>2. [Next]_vars /\ Staged' /\ InStep' BY <2>1, BuildStep
  <2>3. IndInv' /\ ListInv' BY <2>1, <2>2, NextInv, NextLists DEF BuildInv
  <2> QED BY <2>2, <2>3 DEF BuildInv
<1> QED BY <1>1, <1>2, PTL DEF BuildSpec

\* Whatever the files contain and wherever the response is cut, the parser of
\* vcfs_build_project does what FileTable's loading actions allow, so all that
\* is proved of FileTable holds of a daemon that loads its project this way.
THEOREM ParserImplementsTable == BuildSpec => ImplementsTable
<1>1. BuildInit => Init BY InitBuild
<1>2. BuildInv /\ [BuildNext]_<<vars, startup>> => [Next]_vars BY BuildStep
<1> QED BY <1>1, <1>2, BuildInvHolds, PTL DEF BuildSpec, ImplementsTable, Spec

\* The table holds the first items of the response, each with its own type, size
\* and revision, and all of them at the end of a response that was not cut.
THEOREM LoadedCorrect == BuildSpec => []LoadedExactly
<1>1. ASSUME BuildInv, stage = "load", phase = "checkout"
      PROVE  /\ \E n \in {0} \cup Items(response) : Loaded = FirstItems(n)
             /\ co_buff = <<>> /\ ~cut => Loaded = FirstItems(Len(response.begin) - 1)
  <2>1. response \in Response BY <1>1 DEF BuildInv, InStep
  <2>2. PICK k : Parsed(k) BY <1>1 DEF BuildInv, InStep
  <2>3. Len(response.begin) \in Nat /\ k \in 1..Len(response.begin)
    BY <2>1, <2>2, LastPlace DEF Parsed
  <2>4. k - 1 \in {0} \cup Items(response) BY <2>3 DEF Items
  <2>5. ASSUME co_buff = <<>>, ~cut PROVE k = Len(response.begin)
    <3>1. SUFFICES ASSUME k # Len(response.begin) PROVE FALSE OBVIOUS
    <3>2. k \in Items(response) BY <2>1, <2>3, <3>1, LastPlace
    <3>3. /\ Len(response.text) \in Nat
          /\ response.begin[k] \in 1..(Len(response.text) + 1)
      BY <2>1, <3>2, ItemPlace
    <3>4. Len(co_buff) + response.begin[k] = Len(response.text) + 2
      BY <2>2, <2>5, <3>1 DEF Parsed, Aligned
    <3>5. Len(co_buff) = 0 BY <2>5
    <3> QED BY <3>3, <3>4, <3>5
  <2> QED BY <2>2, <2>4, <2>5 DEF Parsed
<1>2. BuildInv => LoadedExactly BY <1>1 DEF LoadedExactly
<1> QED BY <1>2, BuildInvHolds, PTL

\* Lines and bytes that are not there are used only when cvs_get_resp took a
\* part of the response for the whole.
THEOREM TornMeansCut == BuildSpec => []TornOnlyWhenCut
<1>1. BuildInv => TornOnlyWhenCut BY DEF BuildInv, Staged, TornOnlyWhenCut
<1> QED BY <1>1, BuildInvHolds, PTL
=============================================================================
