---------------------------- MODULE ReaddirProofs ----------------------------
(***************************************************************************)
(* Proofs about Readdir, for every directory, size of the pages and number *)
(* of names that are put at the head of the list in the meantime.          *)
(***************************************************************************)
EXTENDS Readdir, FiniteSetTheorems, SequenceTheorems, TLAPS

\* The names with a comma stand in front of the files.
Fronted(k) ==
    /\ k \in 0..Len(dirent)
    /\ \A i \in 1..Len(dirent) : dirent[i] = IF i <= k THEN ExtendedName ELSE File(i - k)

Plain == \A e \in ToSet(dirent) : ~e.extended

(***************************************************************************)
(* NoneMissed is not inductive: what the client will not be given any more *)
(* are the entries that its next cookie passes over, so those must have    *)
(* been given already.  While no name has a comma nothing else was given.  *)
(***************************************************************************)
PassedOver ==
    \A i \in 1..Skipped(cookie) :
        ~dirent[i].extended => dirent[i].name \in ToSet(seen)

NothingElse ==
    \A j \in DOMAIN seen : seen[j] \in Names =>
        \E i \in 1..Skipped(cookie) : seen[j] = dirent[i].name

ListInv ==
    /\ TypeOK /\ NoneMissed
    /\ \E k \in Nat : Fronted(k)
    /\ PassedOver
    /\ cookie # 0 => {Dot, DotDot} \subseteq ToSet(seen)
    /\ Plain => NoneTwice /\ (~done => NothingElse)

-----------------------------------------------------------------------------
(* The page. *)

LEMMA Entries ==
    ASSUME TypeOK
    PROVE  /\ Len(dirent) \in Nat /\ DOMAIN dirent = 1..Len(dirent)
           /\ \A i \in 1..Len(dirent) : dirent[i].name \in Nat
<1> DEFINE E == [name : Nat, extended : BOOLEAN]
<1>1. dirent \in Seq(E) BY DEF TypeOK
<1>2. \A e \in E : e.name \in Nat OBVIOUS
<1> HIDE DEF E
<1>3. \A i \in 1..Len(dirent) : dirent[i] \in E BY <1>1
<1> QED BY <1>1, <1>2, <1>3

LEMMA FrontExtended ==
    ASSUME NEW k \in Nat, Fronted(k), NEW i \in 1..Len(dirent)
    PROVE  /\ dirent[i].extended <=> i <= k
           /\ ~(i <= k) => dirent[i].name = i - k
<1>1. ExtendedName.extended BY DEF ExtendedName
<1>2. \A n : ~File(n).extended /\ File(n).name = n BY DEF File
<1>3. dirent[i] = IF i <= k THEN ExtendedName ELSE File(i - k) BY DEF Fronted
<1>4. CASE i <= k BY <1>1, <1>3, <1>4
<1>5. CASE ~(i <= k) BY <1>2, <1>3, <1>5
<1> QED BY <1>4, <1>5

LEMMA NthOfInterval ==
    ASSUME NEW lo \in Nat, NEW hi \in Nat, lo <= hi, NEW n \in 1..(hi - lo)
    PROVE  /\ Cardinality((lo + 1)..hi) = hi - lo
           /\ Nth((lo + 1)..hi, n) = lo + n
<1> DEFINE S == (lo + 1)..hi
           IsNth(i) == Cardinality({j \in S : j <= i}) = n
<1>1. Cardinality(S) = hi - lo BY FS_Interval
<1>2. \A i \in S : Cardinality({j \in S : j <= i}) = i - lo
  <2> SUFFICES ASSUME NEW i \in S PROVE Cardinality({j \in S : j <= i}) = i - lo OBVIOUS
  <2>1. {j \in S : j <= i} = (lo + 1)..i OBVIOUS
  <2>2. Cardinality((lo + 1)..i) = i - lo BY FS_Interval
  <2> QED BY <2>1, <2>2
<1>3. \A i \in S : IsNth(i) <=> i = lo + n
  <2> SUFFICES ASSUME NEW i \in S PROVE IsNth(i) <=> i = lo + n OBVIOUS
  <2>1. IsNth(i) <=> i - lo = n BY <1>2
  <2>2. i \in Nat BY DEF S
  <2> HIDE DEF IsNth, S
  <2> QED BY <2>1, <2>2
<1>4. lo + n \in S OBVIOUS
<1>5. (CHOOSE i \in S : IsNth(i)) = lo + n
  <2> HIDE DEF IsNth, S
  <2> QED BY <1>3, <1>4
<1> QED BY <1>1, <1>5, Zenon DEF Nth

\* The last entry that is passed over in front of what is listed.
Before(c, k) == IF Skipped(c) < k THEN k ELSE Skipped(c)

LEMMA SkippedRange ==
    ASSUME TypeOK, NEW c \in Nat
    PROVE  Skipped(c) \in 0..Len(dirent)
<1>1. Len(dirent) \in Nat BY Entries
<1> QED BY <1>1 DEF Skipped

\* What is left of the list.
LEMMA RestIs ==
    ASSUME TypeOK, NEW k \in Nat, Fronted(k), NEW c \in Nat
    PROVE  /\ Before(c, k) \in 0..Len(dirent) /\ Skipped(c) <= Before(c, k)
           /\ Rest(c) = [n \in 1..(Len(dirent) - Before(c, k)) |-> dirent[Before(c, k) + n]]
<1>1. Len(dirent) \in Nat BY Entries
<1>2. Skipped(c) \in 0..Len(dirent) BY SkippedRange
<1>3. k <= Len(dirent) BY DEF Fronted
<1> DEFINE lo == Before(c, k)
           hi == Len(dirent)
<1>4. lo \in 0..hi /\ Skipped(c) <= lo BY <1>1, <1>2, <1>3 DEF Before
<1>5. \A i \in 1..hi : dirent[i].extended <=> i <= k
  BY FrontExtended
<1>6. Listed(c) = (lo + 1)..hi
  BY <1>1, <1>2, <1>3, <1>5 DEF Listed, Before
<1> HIDE DEF lo, hi
<1>7. \A n \in 1..(hi - lo) : Nth(Listed(c), n) = lo + n
  BY <1>4, <1>6, NthOfInterval DEF hi
<1>8. Cardinality(Listed(c)) = hi - lo
  <2>1. CASE lo = hi
    <3>1. (lo + 1)..hi = {} BY <1>4, <2>1
    <3> QED BY <1>1, <1>4, <1>6, <2>1, <3>1, FS_EmptySet DEF hi
  <2>2. CASE lo # hi
    <3>1. 1 \in 1..(hi - lo) BY <1>1, <1>4, <2>2 DEF hi
    <3> QED BY <1>1, <1>4, <1>6, <3>1, NthOfInterval DEF hi
  <2> QED BY <2>1, <2>2
<1>9. Rest(c) = [n \in 1..(hi - lo) |-> dirent[lo + n]]
  BY <1>7, <1>8 DEF Rest
<1> QED BY <1>4, <1>9 DEF lo, hi

PageEntry == [name : Int, cookie : Nat]

LEMMA DotsAre ==
    ASSUME NEW c \in Nat
    PROVE  /\ Dots(c) \in Seq(PageEntry)
           /\ IF c % LowByte = 0
              THEN /\ Len(Dots(c)) = 2
                   /\ Dots(c)[1].name = Dot /\ Dots(c)[2].name = DotDot
                   /\ Dots(c)[2].cookie \in {0, 1}
              ELSE Len(Dots(c)) = 0
<1> DEFINE one == [name |-> Dot, cookie |-> DirId]
           two == [name |-> DotDot, cookie |-> IF IsTop THEN 0 ELSE 1]
<1>1. one \in PageEntry /\ two \in PageEntry /\ one.name = Dot /\ two.name = DotDot
      /\ two.cookie \in {0, 1}
  BY PageAssumption DEF PageEntry, Dot, DotDot
<1>2. Dots(c) = IF c % LowByte = 0 THEN <<one, two>> ELSE <<>> BY DEF Dots
<1> HIDE DEF one, two
<1>3. CASE c % LowByte = 0 BY <1>1, <1>2, <1>3
<1>4. CASE c % LowByte # 0 BY <1>2, <1>4
<1> QED BY <1>3, <1>4

\* The entries of a page and their cookies: d dots and m of the list.
LEMMA PageIs ==
    ASSUME TypeOK, NEW k \in Nat, Fronted(k), NEW c \in Nat
    PROVE  \E d \in {0, 2}, m \in 0..(Len(dirent) - Before(c, k)) :
             /\ d = 2 <=> c % LowByte = 0
             /\ Page(c) \in Seq(PageEntry) /\ Len(Page(c)) = d + m
             /\ d = 2 => /\ Page(c)[1].name = Dot /\ Page(c)[2].name = DotDot
                         /\ Page(c)[2].cookie \in {0, 1}
             /\ \A j \in 1..m : /\ Page(c)[d + j].name = dirent[Before(c, k) + j].name
                                /\ Page(c)[d + j].cookie = (Skipped(c) + 1) + j
             /\ Len(Page(c)) # PageSize => m = Len(dirent) - Before(c, k)
<1> DEFINE b == Before(c, k)
           left == Len(dirent) - b
           d == Len(Dots(c))
           m == IF Len(Rest(c)) < PageSize - d THEN Len(Rest(c)) ELSE PageSize - d
           files == [j \in 1..m |-> [name |-> Rest(c)[j].name, cookie |-> Skipped(c) + 1 + j]]
<1>1. b \in 0..Len(dirent) /\ Rest(c) = [n \in 1..left |-> dirent[b + n]]
  BY RestIs
<1>2. left \in Nat /\ Len(dirent) \in Nat /\ Len(Rest(c)) = left /\ left = Len(dirent) - b
  <2>1. Len(dirent) \in Nat BY Entries
  <2>2. left \in Nat BY <1>1, <2>1
  <2> QED BY <1>1, <2>1, <2>2
<1>3. d \in {0, 2} /\ (d = 2 <=> c % LowByte = 0) /\ Dots(c) \in Seq(PageEntry)
  <2> HIDE DEF b, left, m, files
  <2>1. Dots(c) \in Seq(PageEntry) BY DotsAre, Zenon
  <2>2. c % LowByte = 0 => d = 2 BY DotsAre, Zenon
  <2>3. c % LowByte # 0 => d = 0 BY DotsAre, Zenon
  <2> HIDE DEF d
  <2> QED BY <2>1, <2>2, <2>3
<1>4. m \in 0..left /\ (d + m # PageSize => m = left)
  <2>1. PageSize \in Nat /\ PageSize > 2 BY PageAssumption
  <2> HIDE DEF d, left
  <2> QED BY <1>2, <1>3, <2>1
<1>5. Page(c) = Dots(c) \o files BY Zenon DEF Page
<1> HIDE DEF m, d, b, left
<1>6. Skipped(c) \in Nat
  <2> HIDE DEF files
  <2>1. Skipped(c) \in 0..Len(dirent) BY SkippedRange, Zenon
  <2> QED BY <1>2, <2>1
<1>7. \A j \in 1..m : Rest(c)[j].name = dirent[b + j].name /\ dirent[b + j].name \in Nat
  <2>1. \A j \in 1..m : j \in 1..left /\ b + j \in 1..Len(dirent)
    <3>1. b \in Nat BY <1>1
    <3>2. m \in Nat /\ m <= left BY <1>2, <1>4
    <3> QED BY <1>2, <3>1, <3>2
  <2>2. \A i \in 1..Len(dirent) : dirent[i].name \in Nat BY Entries
  <2> QED BY <1>1, <2>1, <2>2
<1>8. \A j \in 1..m : files[j].name = dirent[b + j].name
                      /\ files[j].cookie = (Skipped(c) + 1) + j
  <2>1. \A j \in 1..m : Skipped(c) + 1 + j = (Skipped(c) + 1) + j BY <1>4, <1>6
  <2> QED BY <1>7, <2>1
<1>9. files \in Seq(PageEntry) /\ Len(files) = m
  <2>1. \A j \in 1..m : files[j] \in PageEntry
    <3>1. \A j \in 1..m : dirent[b + j].name \in Int /\ Skipped(c) + 1 + j \in Nat
      BY <1>4, <1>6, <1>7
    <3> QED BY <1>7, <3>1 DEF PageEntry
  <2>2. m \in Nat BY <1>4
  <2>3. files = [j \in 1..m |-> files[j]] OBVIOUS
  <2> HIDE DEF files
  <2> QED BY <2>1, <2>2, <2>3
<1> HIDE DEF files
<1>10. Page(c) \in Seq(PageEntry) /\ Len(Page(c)) = d + m
  BY <1>3, <1>5, <1>9, ConcatProperties DEF d
<1>11. \A i \in 1..Len(Page(c)) :
          Page(c)[i] = IF i <= d THEN Dots(c)[i] ELSE files[i - d]
  BY <1>3, <1>5, <1>9, ConcatProperties DEF d
<1>12. \A j \in 1..m : Page(c)[d + j] = files[j]
  <2> SUFFICES ASSUME NEW j \in 1..m PROVE Page(c)[d + j] = files[j] OBVIOUS
  <2>1. d + j \in 1..Len(Page(c)) /\ ~(d + j <= d) /\ (d + j) - d = j
    BY <1>3, <1>4, <1>10
  <2> QED BY <1>11, <2>1
<1>13. ASSUME d = 2
       PROVE  /\ Page(c)[1].name = Dot /\ Page(c)[2].name = DotDot
              /\ Page(c)[2].cookie \in {0, 1}
  <2>1. 1 \in 1..Len(Page(c)) /\ 2 \in 1..Len(Page(c)) BY <1>4, <1>10, <1>13
  <2>2. Page(c)[1] = Dots(c)[1] /\ Page(c)[2] = Dots(c)[2] BY <1>11, <1>13, <2>1
  <2> QED BY <1>3, <1>13, <2>2, DotsAre
<1>14. /\ m \in 0..(Len(dirent) - Before(c, k))
       /\ Len(Page(c)) # PageSize => m = Len(dirent) - Before(c, k)
  BY <1>4, <1>10 DEF left, b
<1>15. \A j \in 1..m : /\ Page(c)[d + j].name = dirent[Before(c, k) + j].name
                       /\ Page(c)[d + j].cookie = (Skipped(c) + 1) + j
  BY <1>8, <1>12 DEF b
<1> HIDE DEF d, m
<1> QED BY <1>3, <1>10, <1>13, <1>14, <1>15, Zenon

-----------------------------------------------------------------------------
(* The steps. *)

LEMMA NamesAre ==
    ASSUME TypeOK, NEW x
    PROVE  x \in Names <=>
              \E i \in 1..Len(dirent) : ~dirent[i].extended /\ dirent[i].name = x
<1>1. DOMAIN dirent = 1..Len(dirent) BY Entries
<1> QED BY <1>1, Zenon DEF Names, ToSet

LEMMA NamesAreNat == TypeOK => Names \subseteq Nat
BY Entries, NamesAre

\* The client takes d dots and the t entries of the list that follow the b-th.
Took(k, b, s, t, d) ==
    /\ Fronted(k) /\ s = Skipped(cookie) /\ b = Before(cookie, k)
    /\ s <= b /\ b + t <= Len(dirent)
    /\ d = 0 => cookie # 0
    /\ Len(seen') = Len(seen) + (d + t) /\ seen' \in Seq(Int)
    /\ \A i \in 1..Len(seen) : seen'[i] = seen[i]
    /\ d = 2 => seen'[Len(seen) + 1] = Dot /\ seen'[Len(seen) + 2] = DotDot
    /\ \A q \in 1..t : seen'[Len(seen) + (d + q)] = dirent[b + q].name
    /\ Skipped(cookie)' \in 0..(s + t)
    /\ ~done' => Skipped(cookie)' = s + t
    /\ done' => b + t = Len(dirent)
    /\ cookie' \in Nat /\ done' \in BOOLEAN

LEMMA Taken ==
    ASSUME ListInv, Readdir
    PROVE  \E k, b, s, t \in Nat, d \in {0, 2} : Took(k, b, s, t, d)
<1>1. TypeOK /\ cookie \in Nat BY DEF ListInv, TypeOK
<1>2. PICK k \in Nat : Fronted(k) BY DEF ListInv
<1>3. PICK c : c = cookie OBVIOUS
<1>4. c \in Nat BY <1>1, <1>3
<1>5. PICK d \in {0, 2}, m \in 0..(Len(dirent) - Before(c, k)) :
        /\ d = 2 <=> c % LowByte = 0
        /\ Page(c) \in Seq(PageEntry) /\ Len(Page(c)) = d + m
        /\ d = 2 => /\ Page(c)[1].name = Dot /\ Page(c)[2].name = DotDot
                    /\ Page(c)[2].cookie \in {0, 1}
        /\ \A j \in 1..m : /\ Page(c)[d + j].name = dirent[Before(c, k) + j].name
                           /\ Page(c)[d + j].cookie = (Skipped(c) + 1) + j
        /\ Len(Page(c)) # PageSize => m = Len(dirent) - Before(c, k)
  BY <1>1, <1>2, <1>4, PageIs
<1>6. PICK n \in Takes(Page(c)) :
        /\ seen' = seen \o [j \in 1..n |-> Page(c)[j].name]
        /\ cookie' = IF n = 0 THEN cookie ELSE Page(c)[n].cookie
        /\ done' = (n = Len(Page(c)) /\ EOF(c))
  BY <1>3 DEF Readdir
<1>7. dirent' = dirent BY DEF Readdir
<1>8. PICK b, s, len : b = Before(c, k) /\ s = Skipped(c) /\ len = Len(dirent) OBVIOUS
<1>9. b \in 0..len /\ s \in Nat /\ s <= b /\ len \in Nat
  BY <1>1, <1>2, <1>4, <1>8, RestIs, SkippedRange, Entries
<1>10. n \in 0..(d + m) /\ (n = d + m \/ n >= 3) BY <1>5, <1>6 DEF Takes
<1>11. PICK t \in Nat : n = d + t /\ t <= m /\ (t = 0 => m = 0)
  <2>1. m \in Nat BY <1>5, <1>8, <1>9
  <2>2. n - d \in Nat /\ n = d + (n - d) /\ n - d <= m /\ (n - d = 0 => m = 0)
    BY <1>10, <2>1
  <2> QED BY <2>2
<1>12. b + t <= len /\ m \in Nat /\ m <= len - b BY <1>5, <1>8, <1>9, <1>11
<1>13. d = 0 => cookie # 0
  <2>1. 0 % LowByte = 0 BY PageAssumption
  <2> QED BY <1>3, <1>5, <2>1
<1>14. /\ Len(seen') = Len(seen) + n /\ seen' \in Seq(Int)
       /\ \A i \in 1..Len(seen) : seen'[i] = seen[i]
       /\ \A j \in 1..n : seen'[Len(seen) + j] = Page(c)[j].name
  <2> DEFINE given == [j \in 1..n |-> Page(c)[j].name]
  <2>1. \A e \in PageEntry : e.name \in Int BY DEF PageEntry
  <2>2. \A j \in 1..n : Page(c)[j] \in PageEntry BY <1>5, <1>10
  <2>3. n \in Nat BY <1>10, <1>12
  <2>4. given \in Seq(Int) /\ Len(given) = n BY <2>1, <2>2, <2>3
  <2>5. seen \in Seq(Int)
    <3>1. Names \cup {Dot, DotDot} \subseteq Int BY <1>1, NamesAreNat DEF Dot, DotDot
    <3>2. seen \in Seq(Names \cup {Dot, DotDot}) BY <1>1 DEF TypeOK
    <3> QED BY <3>1, <3>2, SeqMonotonic
  <2>6. \A j \in 1..n : given[j] = Page(c)[j].name OBVIOUS
  <2>7. seen' = seen \o given BY <1>6
  <2> HIDE DEF given
  <2>8. /\ Len(seen') = Len(seen) + n /\ seen' \in Seq(Int)
        /\ \A i \in 1..(Len(seen) + n) :
              seen'[i] = IF i <= Len(seen) THEN seen[i] ELSE given[i - Len(seen)]
    BY <2>4, <2>5, <2>7, ConcatProperties
  <2>9. PICK l : l = Len(seen) OBVIOUS
  <2>10. l \in Nat BY <2>5, <2>9
  <2>11. \A i \in 1..l : seen'[i] = seen[i] BY <2>3, <2>8, <2>9, <2>10
  <2>12. \A j \in 1..n : seen'[l + j] = given[j]
    <3> SUFFICES ASSUME NEW j \in 1..n PROVE seen'[l + j] = given[j] OBVIOUS
    <3>1. l + j \in 1..(l + n) /\ ~(l + j <= l) /\ (l + j) - l = j BY <2>3, <2>10
    <3> QED BY <2>8, <2>9, <3>1
  <2> QED BY <2>6, <2>8, <2>9, <2>11, <2>12
<1>15. d = 2 => seen'[Len(seen) + 1] = Dot /\ seen'[Len(seen) + 2] = DotDot
  <2>1. d = 2 => 1 \in 1..n /\ 2 \in 1..n BY <1>11
  <2> QED BY <1>5, <1>14, <2>1
<1>16. \A q \in 1..t : seen'[Len(seen) + (d + q)] = dirent[b + q].name
  <2>1. \A q \in 1..t : d + q \in 1..n /\ q \in 1..m BY <1>11, <1>12
  <2> QED BY <1>5, <1>8, <1>14, <2>1
<1>17. done' \in BOOLEAN /\ (done' <=> t = m /\ d + m # PageSize)
  <2>1. n = d + m <=> t = m BY <1>11, <1>12
  <2>2. EOF(c) <=> d + m # PageSize BY <1>5 DEF EOF
  <2>3. Len(Page(c)) = d + m BY <1>5
  <2> QED BY <1>6, <2>1, <2>2, <2>3, Zenon
<1>18. PageSize \in Nat /\ PageSize > 2 BY PageAssumption
<1>19. \A x \in Nat : Skipped(x)' = Skipped(x) BY <1>7 DEF Skipped
<1>20. CASE t = 0
  <2>1. m = 0 /\ n = d /\ done' BY <1>11, <1>17, <1>18, <1>20
  <2>2. b + t = len
    <3>1. m = len - b BY <1>5, <1>8, <1>17, <2>1, Zenon
    <3> QED BY <1>9, <1>20, <2>1, <3>1
  <2>3. cookie' \in {c, 0, 1} BY <1>3, <1>5, <1>6, <2>1
  <2>4. Skipped(cookie)' \in 0..(s + t)
    <3>1. Skipped(0) = 0 /\ Skipped(1) = 0 BY <1>8, <1>9 DEF Skipped
    <3>2. Skipped(cookie)' = Skipped(cookie') BY <1>7 DEF Skipped
    <3>3. Skipped(cookie') \in {s, 0} BY <1>8, <2>3, <3>1
    <3> QED BY <1>9, <1>20, <3>2, <3>3
  <2>5. cookie' \in Nat BY <1>4, <2>3
  <2>6. Took(k, b, s, t, d)
    BY <1>2, <1>3, <1>8, <1>9, <1>11, <1>12, <1>13, <1>14, <1>15, <1>16, <1>17, <2>1, <2>2,
       <2>4, <2>5 DEF Took
  <2>7. b \in Nat BY <1>9
  <2> QED BY <1>9, <2>6, <2>7, Zenon
<1>21. CASE t # 0
  <2>1. cookie' = (s + 1) + t
    <3>1. t \in 1..m /\ n # 0 BY <1>11, <1>12, <1>21
    <3> QED BY <1>5, <1>6, <1>8, <1>11, <3>1
  <2>2. Skipped(cookie)' = s + t
    <3>1. Skipped(cookie)' = Skipped(cookie') BY <1>7 DEF Skipped
    <3>2. cookie' # 0 /\ cookie' - 1 = s + t /\ s + t <= len BY <1>9, <1>12, <1>21, <2>1
    <3>3. PICK x : x = cookie' OBVIOUS
    <3>4. x # 0 /\ x - 1 = s + t /\ s + t <= Len(dirent) BY <1>8, <3>2, <3>3, Zenon
    <3>5. Skipped(x) = s + t BY <1>9, <3>4 DEF Skipped
    <3> QED BY <3>1, <3>3, <3>5, Zenon
  <2>3. cookie' \in Nat /\ s + t \in 0..(s + t) BY <1>9, <2>1
  <2>4. done' => b + t = len
    <3>1. done' => m = len - b BY <1>5, <1>8, <1>17, Zenon
    <3>2. done' => t = m BY <1>17
    <3> QED BY <1>9, <1>12, <3>1, <3>2
  <2>5. Took(k, b, s, t, d)
    BY <1>2, <1>3, <1>8, <1>9, <1>11, <1>12, <1>13, <1>14, <1>15, <1>16, <1>17, <2>2, <2>3,
       <2>4 DEF Took
  <2>6. b \in Nat BY <1>9
  <2> QED BY <1>9, <2>5, <2>6, Zenon
<1> QED BY <1>20, <1>21

LEMMA ReaddirKept == ASSUME ListInv, Readdir PROVE ListInv'
<1>1. PICK k, b, s, t \in Nat, d \in {0, 2} : Took(k, b, s, t, d) BY Taken
<1>2. TypeOK /\ NoneMissed /\ PassedOver /\ (Plain => NoneTwice /\ (~done => NothingElse))
      /\ (cookie # 0 => {Dot, DotDot} \subseteq ToSet(seen))
  BY DEF ListInv
<1>3. dirent' = dirent /\ ~done BY DEF Readdir
<1>4. Names' = Names BY <1>3 DEF Names
<1>5. PICK l, len : l = Len(seen) /\ len = Len(dirent) OBVIOUS
<1>6. /\ l \in Nat /\ DOMAIN seen = 1..l /\ len \in Nat /\ DOMAIN dirent = 1..len
      /\ seen' \in Seq(Int) /\ Len(seen') = l + (d + t) /\ DOMAIN seen' = 1..(l + (d + t))
  <2>1. Len(seen) \in Nat /\ DOMAIN seen = 1..Len(seen) BY <1>2 DEF TypeOK
  <2>2. seen' \in Seq(Int) /\ Len(seen') = l + (d + t) BY <1>1, <1>5 DEF Took
  <2> QED BY <1>2, <1>5, <2>1, <2>2, Entries
<1>7. /\ s <= b /\ b + t <= len /\ k <= len
      /\ \A i \in 1..len : dirent[i].extended <=> i <= k
      /\ b = IF s < k THEN k ELSE s
      /\ s = Skipped(cookie)
  <2>1. Fronted(k) /\ s = Skipped(cookie) /\ b = Before(cookie, k) /\ s <= b /\ b + t <= len
    BY <1>1, <1>5 DEF Took
  <2>2. k <= len BY <1>5, <1>6, <2>1 DEF Fronted
  <2>3. \A i \in 1..len : dirent[i].extended <=> i <= k BY <1>5, <2>1, FrontExtended
  <2> QED BY <2>1, <2>2, <2>3, Zenon DEF Before
<1>8. \A i \in 1..l : seen'[i] = seen[i] BY <1>1, <1>5 DEF Took
<1>9. \A j \in DOMAIN seen' :
         \/ j \in 1..l /\ seen'[j] = seen[j]
         \/ seen'[j] \in {Dot, DotDot}
         \/ \E q \in 1..t : j = l + (d + q) /\ seen'[j] = dirent[b + q].name
  <2> SUFFICES ASSUME NEW j \in 1..(l + (d + t))
               PROVE  \/ j \in 1..l /\ seen'[j] = seen[j]
                      \/ seen'[j] \in {Dot, DotDot}
                      \/ \E q \in 1..t : j = l + (d + q) /\ seen'[j] = dirent[b + q].name
    BY <1>6
  <2>1. CASE j <= l BY <1>6, <1>8, <2>1
  <2>2. CASE l < j /\ j <= l + d
    <3>1. d = 2 /\ (j = l + 1 \/ j = l + 2) BY <1>6, <2>2
    <3>2. seen'[l + 1] = Dot /\ seen'[l + 2] = DotDot BY <1>1, <1>5, <3>1 DEF Took
    <3> QED BY <3>1, <3>2
  <2>3. CASE l + d < j
    <3>1. PICK q : q = j - (l + d) OBVIOUS
    <3>2. q \in 1..t /\ j = l + (d + q) BY <1>6, <2>3, <3>1
    <3>3. seen'[l + (d + q)] = dirent[b + q].name BY <1>1, <1>5, <3>2 DEF Took
    <3> QED BY <3>2, <3>3
  <2> QED BY <1>6, <2>1, <2>2, <2>3
<1>10. \A q \in 1..t : /\ b + q \in 1..len /\ ~dirent[b + q].extended
                      /\ dirent[b + q].name \in Names
                      /\ dirent[b + q].name \in ToSet(seen')
  <2> SUFFICES ASSUME NEW q \in 1..t
               PROVE  /\ b + q \in 1..len /\ ~dirent[b + q].extended
                      /\ dirent[b + q].name \in Names
                      /\ dirent[b + q].name \in ToSet(seen')
    OBVIOUS
  <2>1. b + q \in 1..len /\ ~(b + q <= k)
    <3>1. s <= b /\ b + t <= len /\ k <= len /\ b = IF s < k THEN k ELSE s
      BY <1>7, Zenon
    <3>2. k <= b BY <3>1
    <3>3. b + q \in Nat /\ b + q <= b + t /\ b + q > b OBVIOUS
    <3>4. len \in Nat BY <1>6, Zenon
    <3> QED BY <3>1, <3>2, <3>3, <3>4
  <2>2. ~dirent[b + q].extended BY <1>7, <2>1
  <2>3. dirent[b + q].name \in Names BY <1>2, <1>5, <2>1, <2>2, NamesAre
  <2>4. l + (d + q) \in DOMAIN seen' BY <1>6
  <2>5. seen'[l + (d + q)] = dirent[b + q].name BY <1>1, <1>5 DEF Took
  <2>6. dirent[b + q].name \in ToSet(seen') BY <2>4, <2>5 DEF ToSet
  <2> QED BY <2>1, <2>2, <2>3, <2>6
<1>11. \A x \in ToSet(seen) : x \in ToSet(seen')
  <2> SUFFICES ASSUME NEW i \in 1..l PROVE seen[i] \in ToSet(seen')
    BY <1>6 DEF ToSet
  <2>1. i \in DOMAIN seen' BY <1>6
  <2> QED BY <1>8, <2>1 DEF ToSet
<1>12. {Dot, DotDot} \subseteq ToSet(seen')
  <2>1. CASE d = 0
    <3>1. cookie # 0 BY <1>1, <2>1 DEF Took
    <3> QED BY <1>2, <1>11, <3>1
  <2>2. CASE d = 2
    <3>1. l + 1 \in DOMAIN seen' /\ l + 2 \in DOMAIN seen' BY <1>6, <2>2
    <3>2. seen'[l + 1] = Dot /\ seen'[l + 2] = DotDot BY <1>1, <1>5, <2>2 DEF Took
    <3> QED BY <3>1, <3>2 DEF ToSet
  <2> QED BY <2>1, <2>2
\* What lies between the cookies has been given now.
<1>13. \A i \in 1..len : i <= s + t /\ ~dirent[i].extended => dirent[i].name \in ToSet(seen')
  <2> SUFFICES ASSUME NEW i \in 1..len, i <= s + t, ~dirent[i].extended
               PROVE  dirent[i].name \in ToSet(seen')
    OBVIOUS
  <2>1. CASE i <= s
    <3>1. i \in 1..Skipped(cookie) BY <1>7, <2>1
    <3> QED BY <1>2, <1>11, <3>1 DEF PassedOver
  <2>2. CASE ~(i <= s)
    <3>1. ~(i <= k) BY <1>7
    <3>2. i - b \in 1..t /\ b + (i - b) = i BY <1>7, <2>2, <3>1
    <3> QED BY <1>10, <3>2
  <2> QED BY <2>1, <2>2
<1>14. TypeOK'
  <2>1. \A j \in DOMAIN seen' : seen'[j] \in Names \cup {Dot, DotDot}
    <3>1. \A j \in 1..l : seen[j] \in Names \cup {Dot, DotDot}
      BY <1>2, <1>5, <1>6 DEF TypeOK
    <3> QED BY <1>10, <1>9, <3>1
  <2>2. seen' \in Seq(Names \cup {Dot, DotDot}) BY <1>6, <2>1
  <2> QED BY <1>1, <1>2, <1>3, <1>4, <2>2 DEF TypeOK, Took
<1>15. PassedOver'
  <2>1. Skipped(cookie)' \in 0..(s + t) /\ Skipped(cookie)' <= len
    <3>1. Skipped(cookie)' \in 0..Len(dirent')
      <4>1. Skipped(cookie)' = Skipped(cookie') BY <1>3 DEF Skipped
      <4>2. cookie' \in Nat BY <1>1 DEF Took
      <4> QED BY <1>2, <1>3, <4>1, <4>2, SkippedRange
    <3> QED BY <1>1, <1>3, <1>5, <3>1 DEF Took
  <2>2. \A i \in 1..(Skipped(cookie)') : i \in 1..len /\ i <= s + t BY <1>6, <2>1
  <2> QED BY <1>3, <1>13, <2>2 DEF PassedOver
<1>16. NoneMissed'
  <2> SUFFICES ASSUME done' PROVE Names \subseteq ToSet(seen')
    BY <1>4, <1>12 DEF NoneMissed
  <2>1. b + t = len BY <1>1, <1>5 DEF Took
  <2> SUFFICES ASSUME NEW i \in 1..len, ~dirent[i].extended
               PROVE  dirent[i].name \in ToSet(seen')
    BY <1>2, <1>5, NamesAre
  <2>2. CASE i <= s + t BY <1>13, <2>2
  <2>3. CASE ~(i <= s + t)
    <3>1. ~(i <= k) BY <1>7
    <3>2. i - b \in 1..t /\ b + (i - b) = i BY <1>7, <2>1, <2>3, <3>1
    <3> QED BY <1>10, <3>2
  <2> QED BY <2>2, <2>3
<1>17. ASSUME Plain'
       PROVE  NoneTwice' /\ (~done' => NothingElse')
  <2>1. Plain BY <1>3, <1>17 DEF Plain
  <2>2. k = 0 /\ b = s
    <3>1. ASSUME k # 0 PROVE FALSE
      <4>1. 1 \in DOMAIN dirent /\ dirent[1].extended BY <1>6, <1>7, <3>1
      <4> QED BY <2>1, <4>1 DEF Plain, ToSet
    <3> QED BY <1>7, <3>1
  <2>3. \A i \in 1..len : dirent[i].name = i
    BY <1>1, <1>5, <2>2, FrontExtended DEF Took
  <2>4. NoneTwice /\ NothingElse BY <1>2, <1>3, <2>1
  <2>5. ASSUME NEW j \in DOMAIN seen', seen'[j] \in Names
        PROVE  \/ j \in 1..l /\ seen'[j] = seen[j] /\ seen'[j] \in 1..s
               \/ \E q \in 1..t : j = l + (d + q) /\ seen'[j] = s + q
    <3>1. seen'[j] \notin {Dot, DotDot}
      <4>1. seen'[j] \in Nat BY <1>2, <2>5, NamesAreNat
      <4> QED BY <4>1 DEF Dot, DotDot
    <3>2. CASE j \in 1..l /\ seen'[j] = seen[j]
      <4>1. PICK i \in 1..Skipped(cookie) : seen[j] = dirent[i].name
        BY <1>6, <2>4, <2>5, <3>2 DEF NothingElse
      <4>2. i \in 1..len
        <5>1. i \in 1..s BY <1>7, Zenon
        <5>2. s <= b /\ b + t <= len BY <1>7, Zenon
        <5>3. s <= len /\ len \in Nat BY <1>6, <5>2
        <5> QED BY <5>1, <5>3
      <4> QED BY <1>7, <2>3, <3>2, <4>1, <4>2
    <3>3. CASE \E q \in 1..t : j = l + (d + q) /\ seen'[j] = dirent[b + q].name
      <4>1. PICK q \in 1..t : j = l + (d + q) /\ seen'[j] = dirent[b + q].name
        BY <3>3
      <4>2. b + q \in 1..len BY <1>10
      <4> QED BY <2>2, <2>3, <4>1, <4>2
    <3> QED BY <1>9, <3>1, <3>2, <3>3
  <2>6. NoneTwice'
    <3> SUFFICES ASSUME NEW i \in DOMAIN seen', NEW j \in DOMAIN seen', i < j,
                        seen'[i] \in Names, seen'[i] = seen'[j]
                 PROVE  FALSE
      BY <1>4 DEF NoneTwice
    <3>1. CASE j \in 1..l /\ seen'[j] = seen[j] /\ seen'[j] \in 1..s
      <4>1. i \in 1..l BY <1>6, <3>1
      <4> QED BY <1>6, <1>8, <2>4, <3>1, <4>1 DEF NoneTwice
    <3>2. CASE \E q \in 1..t : j = l + (d + q) /\ seen'[j] = s + q
      BY <1>6, <2>5, <3>2
    <3> QED BY <2>5, <3>1, <3>2
  <2>7. ASSUME ~done' PROVE NothingElse'
    <3>1. Skipped(cookie)' = s + t BY <1>1, <2>7 DEF Took
    <3> SUFFICES ASSUME NEW j \in DOMAIN seen', seen'[j] \in Names
                 PROVE  \E i \in 1..(s + t) : seen'[j] = dirent[i].name
      BY <1>3, <1>4, <3>1 DEF NothingElse
    <3>2. seen'[j] \in 1..(s + t) BY <2>5
    <3>3. seen'[j] \in 1..len BY <1>6, <1>7, <2>2, <3>2
    <3> QED BY <2>3, <3>2, <3>3
  <2> QED BY <2>6, <2>7
<1>18. \E j \in Nat : Fronted(j)' BY <1>1, <1>3 DEF Took, Fronted
<1> QED BY <1>12, <1>14, <1>15, <1>16, <1>17, <1>18 DEF ListInv

\* A name with a comma comes to the head of the list.
LEMMA LookupKept == ASSUME ListInv, LookupExtended PROVE ListInv'
<1>1. TypeOK /\ NoneMissed /\ PassedOver
      /\ (cookie # 0 => {Dot, DotDot} \subseteq ToSet(seen))
  BY DEF ListInv
<1>2. PICK k \in Nat : Fronted(k) BY DEF ListInv
<1>3. dirent' = <<ExtendedName>> \o dirent /\ UNCHANGED <<cookie, seen, done>>
  BY DEF LookupExtended
<1>4. PICK len : len = Len(dirent) OBVIOUS
<1>5. len \in Nat /\ DOMAIN dirent = 1..len BY <1>1, <1>4, Entries
<1>6. /\ dirent' \in Seq([name : Nat, extended : BOOLEAN]) /\ Len(dirent') = len + 1
      /\ dirent'[1] = ExtendedName /\ \A i \in 1..len : dirent'[i + 1] = dirent[i]
  <2> DEFINE E == [name : Nat, extended : BOOLEAN]
  <2>1. ExtendedName \in E BY DEF ExtendedName
  <2>2. dirent \in Seq(E) BY <1>1 DEF TypeOK
  <2> HIDE DEF E
  <2>3. <<ExtendedName>> \in Seq(E) /\ Len(<<ExtendedName>>) = 1
        /\ <<ExtendedName>>[1] = ExtendedName
    BY <2>1
  <2>4. /\ dirent' \in Seq(E) /\ Len(dirent') = 1 + len
        /\ \A i \in 1..(1 + len) :
              dirent'[i] = IF i <= 1 THEN <<ExtendedName>>[i] ELSE dirent[i - 1]
    BY <1>3, <1>4, <2>2, <2>3, ConcatProperties
  <2>5. dirent'[1] = ExtendedName BY <1>5, <2>3, <2>4
  <2>6. \A i \in 1..len : dirent'[i + 1] = dirent[i]
    <3> SUFFICES ASSUME NEW i \in 1..len PROVE dirent'[i + 1] = dirent[i] OBVIOUS
    <3>1. i + 1 \in 1..(1 + len) /\ ~(i + 1 <= 1) /\ (i + 1) - 1 = i BY <1>5
    <3> QED BY <2>4, <3>1
  <2>7. Len(dirent') = len + 1 BY <1>5, <2>4
  <2> QED BY <2>4, <2>5, <2>6, <2>7 DEF E
<1>7. \A i \in 2..(len + 1) : i - 1 \in 1..len /\ dirent'[i] = dirent[i - 1]
  <2> SUFFICES ASSUME NEW i \in 2..(len + 1)
               PROVE  i - 1 \in 1..len /\ dirent'[i] = dirent[i - 1]
    OBVIOUS
  <2>1. i - 1 \in 1..len /\ (i - 1) + 1 = i BY <1>5
  <2> QED BY <1>6, <2>1
<1>8. ExtendedName.extended BY DEF ExtendedName
<1>9. Names' = Names
  <2>1. DOMAIN dirent' = 1..(len + 1) BY <1>5, <1>6
  <2>2. \A x : x \in Names <=>
            \E i \in 1..len : ~dirent[i].extended /\ dirent[i].name = x
    BY <1>5, Zenon DEF Names, ToSet
  <2>3. \A x : x \in Names' <=>
            \E i \in 1..(len + 1) : ~dirent'[i].extended /\ dirent'[i].name = x
    BY <2>1, Zenon DEF Names, ToSet
  <2>4. \A i \in 1..len : i + 1 \in 1..(len + 1) BY <1>5
  <2>5. \A i \in 1..(len + 1) : i = 1 \/ i \in 2..(len + 1) BY <1>5
  <2>6. \A x : x \in Names => x \in Names' BY <1>6, <2>2, <2>3, <2>4
  <2>7. \A x : x \in Names' => x \in Names BY <1>6, <1>7, <1>8, <2>2, <2>3, <2>5
  <2> QED BY <2>6, <2>7
<1>10. TypeOK' BY <1>1, <1>3, <1>6, <1>9 DEF TypeOK
<1>11. NoneMissed' BY <1>1, <1>3, <1>9 DEF NoneMissed
<1>12. Fronted(k + 1)'
  <2>1. k + 1 \in 0..(len + 1) BY <1>2, <1>4, <1>5 DEF Fronted
  <2>2. ASSUME NEW i \in 1..(len + 1)
        PROVE  dirent'[i] = IF i <= k + 1 THEN ExtendedName ELSE File(i - (k + 1))
    <3>1. CASE i = 1 BY <1>6, <3>1
    <3>2. CASE i # 1
      <4>1. i - 1 \in 1..len /\ dirent'[i] = dirent[i - 1] BY <1>5, <1>7, <3>2
      <4>2. (i - 1) - k = i - (k + 1) /\ (i - 1 <= k <=> i <= k + 1) OBVIOUS
      <4> QED BY <1>2, <1>4, <4>1, <4>2 DEF Fronted
    <3> QED BY <3>1, <3>2
  <2> QED BY <1>6, <2>1, <2>2 DEF Fronted, ExtendedName, File
<1>13. PassedOver'
  <2> SUFFICES ASSUME NEW i \in 1..(Skipped(cookie)'), ~dirent'[i].extended
               PROVE  dirent'[i].name \in ToSet(seen)
    BY <1>3 DEF PassedOver
  <2>1. cookie \in Nat BY <1>1 DEF TypeOK
  <2>2. Skipped(cookie)' <= Skipped(cookie) + 1 /\ Skipped(cookie)' <= len + 1
        /\ Skipped(cookie)' \in Nat /\ Skipped(cookie) \in Nat
    BY <1>3, <1>4, <1>5, <1>6, <2>1 DEF Skipped
  <2>3. i # 1 BY <1>6, <1>8
  <2>4. i \in 2..(len + 1) /\ i - 1 \in 1..Skipped(cookie) BY <1>5, <2>2, <2>3
  <2> QED BY <1>1, <1>7, <2>4 DEF PassedOver
<1>14. ~Plain'
  <2>1. 1 \in DOMAIN dirent' BY <1>5, <1>6
  <2> QED BY <1>6, <1>8, <2>1 DEF Plain, ToSet
<1>15. k + 1 \in Nat OBVIOUS
<1> QED BY <1>1, <1>3, <1>10, <1>11, <1>12, <1>13, <1>14, <1>15 DEF ListInv

LEMMA ListInvAtFirst == Init => ListInv
<1> SUFFICES ASSUME Init PROVE ListInv OBVIOUS
<1>1. PICK n \in 0..MaxFiles : dirent = [i \in 1..n |-> File(i)] BY DEF Init
<1>2. n \in Nat BY PageAssumption
<1>3. \A i \in 1..n : File(i) \in [name : Nat, extended : BOOLEAN] BY DEF File
<1>4. dirent \in Seq([name : Nat, extended : BOOLEAN]) /\ Len(dirent) = n
  BY <1>1, <1>2, <1>3
<1>5. cookie = 0 /\ seen = <<>> /\ done = FALSE BY DEF Init
<1>6. TypeOK
  <2>1. \A S : <<>> \in Seq(S) BY EmptySeq
  <2> QED BY <1>4, <1>5, <2>1, Zenon DEF TypeOK
<1>7. Fronted(0)
  <2>1. \A i \in 1..n : i - 0 = i /\ ~(i <= 0) OBVIOUS
  <2> QED BY <1>1, <1>2, <1>4, <2>1 DEF Fronted
<1>8. Skipped(cookie) = 0 BY <1>5 DEF Skipped
<1> QED BY <1>5, <1>6, <1>7, <1>8 DEF ListInv, NoneMissed, PassedOver, NoneTwice, NothingElse

LEMMA ListInvKept == ListInv /\ [Next]_vars => ListInv'
<1> SUFFICES ASSUME ListInv, [Next]_vars PROVE ListInv' OBVIOUS
<1>1. CASE Opendir
  <2>1. dirent' = dirent /\ cookie' = 0 /\ seen' = <<>> /\ done' = FALSE
    BY <1>1 DEF Opendir
  <2>2. Skipped(cookie)' = 0 BY <2>1 DEF Skipped
  <2>3. TypeOK'
    <3>1. \A S : <<>> \in Seq(S) BY EmptySeq
    <3>2. dirent \in Seq([name : Nat, extended : BOOLEAN]) BY DEF ListInv, TypeOK
    <3>3. 0 \in Nat /\ FALSE \in BOOLEAN OBVIOUS
    <3> QED BY <2>1, <3>1, <3>2, <3>3, Zenon DEF TypeOK
  <2>4. \E k \in Nat : Fronted(k)' BY <2>1 DEF ListInv, Fronted
  <2> QED BY <2>1, <2>2, <2>3, <2>4 DEF ListInv, NoneMissed, PassedOver, NoneTwice, NothingElse
<1>2. CASE UNCHANGED vars
  BY <1>2 DEF vars, ListInv, TypeOK, NoneMissed, PassedOver, NoneTwice, NothingElse,
             Fronted, Skipped, Names, Plain
<1> QED BY <1>1, <1>2, ReaddirKept, LookupKept DEF Next

\* Cookies are numbers, and a client is given names of the directory.
THEOREM ReaddirTypeCorrect == Spec => []TypeOK
<1>1. ListInv => TypeOK BY DEF ListInv
<1> QED BY <1>1, ListInvAtFirst, ListInvKept, PTL DEF Spec

\* A client that gets to the end has been given every file, whatever was put at
\* the head of the list between its pages.
THEOREM ReaddirNoneMissed == Spec => []NoneMissed
<1>1. ListInv => NoneMissed BY DEF ListInv
<1> QED BY <1>1, ListInvAtFirst, ListInvKept, PTL DEF Spec

\* And no file twice, as long as no name with a comma is in the list.
THEOREM ReaddirPlainNoneTwice == Spec => []PlainNoneTwice
<1>1. ListInv => PlainNoneTwice BY DEF ListInv, PlainNoneTwice, Plain
<1> QED BY <1>1, ListInvAtFirst, ListInvKept, PTL DEF Spec
=============================================================================
