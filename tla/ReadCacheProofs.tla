--------------------------- MODULE ReadCacheProofs ---------------------------
(***************************************************************************)
(* Proofs about ReadCache, for any number of files, revisions and clients  *)
(* and every size of the chunk and the block.  What a client reads is      *)
(* right as long as no revision is longer than a chunk; when files are     *)
(* longer, the second half shows it for a client that reads alone, one     *)
(* file after the other (SequentialReaders).                               *)
(***************************************************************************)
EXTENDS SequentialReaders, TLAPS

\* The files fit into the cache (READ_CACHE_SIZE), and so do the sizes that
\* LOOKUP tells the clients.
FilesFit ==
    \A f \in File :
        /\ LookupSize[f] <= ChunkSize
        /\ \A r \in DOMAIN Length[f] : Length[f][r] <= ChunkSize

\* The cache holds the whole of one revision of its file.  ChunkRight is what
\* this comes to; that the chunk begins with the file is needed to show that
\* no read goes beyond it.
WholeFile ==
    \A f \in File : Cached(f) =>
        /\ read_cache.start = 0
        /\ \E r \in DOMAIN Length[f] :
              /\ read_cache.size = Length[f][r]
              /\ \A i \in Index : i < read_cache.size =>
                    read_cache.data[i] = Byte(f, r, i)

ReadInv == TypeOK /\ WholeFile /\ ReadsRight

-----------------------------------------------------------------------------

\* Division, and what a product keeps.
LEMMA Quotient ==
    ASSUME NEW a \in Nat, NEW b \in Nat \ {0}
    PROVE  /\ a \div b \in Nat /\ a % b \in Nat /\ a % b < b
           /\ a = b * (a \div b) + (a % b)
OBVIOUS

LEMMA TimesKeepsOrder ==
    ASSUME NEW a \in Nat, NEW b \in Int, NEW c \in Int, b <= c
    PROVE  a * b <= a * c
OBVIOUS

\* A revision of a file has a length.
LEMMA Lengths ==
    ASSUME NEW f \in File, NEW r \in DOMAIN Length[f]
    PROVE  Length[f][r] \in Nat /\ r \in Revision
BY SizesAssumption

LEMMA BytesAreCells ==
    ASSUME NEW f \in File, NEW r \in DOMAIN Length[f], NEW pos \in Int
    PROVE  Byte(f, r, pos) \in Cell
<1>1. Length[f][r] \in Nat /\ r \in Revision BY Lengths
<1> QED BY <1>1 DEF Byte, Cell, Junk

\* A block does not go over the end of a chunk, as blocks fill a chunk exactly.
LEMMA BlockInChunk ==
    ASSUME NEW o \in Nat, NEW n \in Nat, o < ChunkSize, (o % ReadSize) + n <= ReadSize
    PROVE  o + n <= ChunkSize
<1> DEFINE q == o \div ReadSize
           k == ChunkSize \div ReadSize
<1>1. ReadSize \in Nat \ {0} /\ ChunkSize \in Nat \ {0} /\ ChunkSize % ReadSize = 0
  BY SizesAssumption
<1>2. o = ReadSize * q + (o % ReadSize) /\ q \in Nat /\ o % ReadSize \in Nat
  BY <1>1
<1>3. ChunkSize = ReadSize * k /\ k \in Nat
  BY <1>1
<1> HIDE DEF q, k
<1>4. q < k
  <2>1. SUFFICES ASSUME k <= q PROVE FALSE BY <1>2, <1>3
  <2>2. ReadSize * k <= ReadSize * q BY <1>1, <1>2, <1>3, <2>1
  <2> QED BY <1>1, <1>2, <1>3, <2>2
<1>5. ReadSize * (q + 1) <= ReadSize * k
  BY <1>1, <1>2, <1>3, <1>4
<1>6. ReadSize * (q + 1) = ReadSize * q + ReadSize
  BY <1>1, <1>2
<1>7. ReadSize * q \in Nat BY <1>1, <1>2
<1>8. ReadSize * q + ReadSize <= ChunkSize BY <1>3, <1>5, <1>6
<1> HIDE DEF q, k
<1> QED BY <1>1, <1>2, <1>7, <1>8

\* What is fetched is made of cells.
LEMMA FetchedCells ==
    ASSUME TypeOK, NEW f \in File, NEW start \in Nat, NEW size \in Nat,
           NEW full \in FullChunks(Length[f][ver[f]])
    PROVE  Fetched(f, start, size, full) \in [Index -> Cell]
<1> DEFINE r == ver[f]
<1>1. r \in DOMAIN Length[f] /\ Length[f][r] \in Nat BY Lengths DEF TypeOK
<1>2. \A i \in Index : i \in Nat /\ read_cache.data[i] \in Cell
  <2>1. \A i \in Index : i \in Nat BY DEF Index
  <2>2. read_cache.data \in [Index -> Cell] BY DEF TypeOK
  <2> QED BY <2>1, <2>2
<1>3. full \in Int /\ ChunkSize \in Nat \ {0}
  <2>1. ChunkSize \in Nat \ {0} BY SizesAssumption
  <2>2. Length[f][r] \div ChunkSize \in Int BY <1>1, <2>1
  <2> QED BY <2>1, <2>2 DEF FullChunks
<1>4. CASE f \in Gzipped
  <2> DEFINE keep == start \div ChunkSize
  <2>1. keep \in Int BY <1>3
  <2>2. full * ChunkSize \in Int /\ keep * ChunkSize \in Int BY <1>3, <2>1
  <2> HIDE DEF keep
  <2>3. \A i \in Index :
           /\ Byte(f, r, keep * ChunkSize + i) \in Cell
           /\ Byte(f, r, full * ChunkSize + i) \in Cell
           /\ Byte(f, r, (full * ChunkSize + i) - ChunkSize) \in Cell
    BY <1>1, <1>2, <1>3, <2>2, BytesAreCells
  <2>4. Fetched(f, start, size, full) = Inflated(f, r, start, full)
    BY <1>4 DEF Fetched
  <2>5. Fetched(f, start, size, full) =
          [i \in Index |->
              IF keep < full THEN Byte(f, r, keep * ChunkSize + i)
              ELSE IF full * ChunkSize + i < Length[f][r]
              THEN Byte(f, r, full * ChunkSize + i)
              ELSE IF full > 0 THEN Byte(f, r, (full * ChunkSize + i) - ChunkSize)
              ELSE read_cache.data[i]]
    BY <2>4, Zenon DEF Inflated, LastByte, keep
  <2> HIDE DEF r
  <2> QED BY <1>2, <2>3, <2>5
<1>5. CASE f \notin Gzipped
  <2>1. \A i \in Index : Byte(f, r, start + i) \in Cell
    BY <1>1, <1>2, BytesAreCells
  <2> QED BY <1>2, <1>5, <2>1 DEF Fetched
<1> QED BY <1>4, <1>5

\* A read keeps the types, whatever it asks for.
LEMMA ReadTypes ==
    ASSUME TypeOK, NEW f \in File, NEW o \in Nat, NEW n \in Nat, Read(f, o, n)
    PROVE  TypeOK'
<1>1. CASE ReadHit(f, o, n)
  BY <1>1 DEF ReadHit, TypeOK, Answer
<1>2. CASE ReadFetch(f, o, n)
  <2>1. ver[f] \in DOMAIN Length[f] /\ Length[f][ver[f]] \in Nat
    BY Lengths DEF TypeOK
  <2>2. FetchStart(f) \in Nat /\ FetchSize(f) \in Nat
    <3>1. read_cache.start \in Nat /\ read_cache.size \in Nat BY DEF TypeOK
    <3>2. ChunkSize \in Nat BY SizesAssumption
    <3> QED BY <2>1, <3>1, <3>2 DEF FetchStart, FetchSize, CacheEnd
  <2>3. PICK full \in FullChunks(Length[f][ver[f]]) :
          read_cache' = [id |-> f, start |-> FetchStart(f), size |-> FetchSize(f),
                         data |-> Fetched(f, FetchStart(f), FetchSize(f), full)]
    BY <1>2 DEF ReadFetch
  <2>4. Fetched(f, FetchStart(f), FetchSize(f), full) \in [Index -> Cell]
    BY <2>2, FetchedCells
  <2>5. read_cache' \in [id : File \cup {NoFile}, start : Nat, size : Nat,
                         data : [Index -> Cell]]
    BY <2>2, <2>3, <2>4
  <2>6. vsize' \in [File -> Nat]
    BY <1>2, <2>1 DEF ReadFetch, TypeOK
  <2>7. reply'.status \in {"ok", "overrun", "negative length"}
    <3>1. \/ reply' \in {Fault("overrun", f, o), Fault("negative length", f, o)}
          \/ \E len, data : reply' = Answer(f, o, n, len, data)
      BY <1>2, Zenon DEF ReadFetch
    <3>2. \A len, data : Answer(f, o, n, len, data).status = "ok" BY DEF Answer
    <3>3. \A why : Fault(why, f, o).status = why BY DEF Fault
    <3> QED BY <3>1, <3>2, <3>3
  <2>8. UNCHANGED ver BY <1>2 DEF ReadFetch
  <2> QED BY <2>5, <2>6, <2>7, <2>8 DEF TypeOK
<1> QED BY <1>1, <1>2 DEF Read

\* The type invariant, whatever the files are like.
LEMMA TypesKept == TypeOK /\ [ReadAny \/ UpdateAny]_vars => TypeOK'
<1> SUFFICES ASSUME TypeOK, [ReadAny \/ UpdateAny]_vars PROVE TypeOK'
  OBVIOUS
<1>2. ASSUME NEW f \in File, NEW r \in Revision, Update(f, r) PROVE TypeOK'
  BY <1>2 DEF Update, TypeOK
<1>3. CASE ReadAny
  <2>0. PICK f \in File : \E size \in SizesTold(f) :
          \E o \in 0..(size - 1) : \E n \in 1..ReadSize : Read(f, o, n)
    BY <1>3 DEF ReadAny
  <2>1. PICK size \in SizesTold(f) :
          \E o \in 0..(size - 1) : \E n \in 1..ReadSize : Read(f, o, n)
    BY <2>0
  <2>2. PICK o \in 0..(size - 1), n \in 1..ReadSize : Read(f, o, n)
    BY <2>1
  <2>3. o \in Nat /\ n \in Nat OBVIOUS
  <2> QED BY <2>2, <2>3, ReadTypes
<1>4. CASE UNCHANGED vars BY <1>4 DEF vars, TypeOK
<1> QED BY <1>2, <1>3, <1>4 DEF UpdateAny

LEMMA TypesAtFirst == Init => TypeOK
<1>1. \A f \in File : Loaded[f] \in DOMAIN Length[f] BY SizesAssumption
<1> QED BY <1>1, SizesAssumption DEF Init, TypeOK, NoReply, Cell

\* The chunk and the answers keep their types, however long the files are.
THEOREM ReadTypeCorrect == Spec => []TypeOK
<1> QED BY TypesAtFirst, TypesKept, PTL DEF Spec
-----------------------------------------------------------------------------

\* What is fetched from a position where a chunk begins is what the file has
\* there: cvs_zlib_inflate_buffer keeps that chunk, or the last one.
LEMMA FetchedChunk ==
    ASSUME TypeOK, NEW f \in File, NEW s \in Nat, NEW size \in Nat,
           NEW full \in FullChunks(Length[f][ver[f]]),
           s % ChunkSize = 0, s < Length[f][ver[f]],
           f \notin Gzipped => size = ChunkSize \/ s + size = Length[f][ver[f]],
           NEW i \in Index, s + i < Length[f][ver[f]]
    PROVE  Fetched(f, s, size, full)[i] = Byte(f, ver[f], s + i)
<1> DEFINE len == Length[f][ver[f]]
           keep == s \div ChunkSize
           q == len \div ChunkSize
<1>1. len \in Nat BY Lengths DEF TypeOK
<1>2. ChunkSize \in Nat \ {0} /\ i \in Nat /\ i < ChunkSize BY SizesAssumption DEF Index
<1>3. s = ChunkSize * keep /\ keep \in Nat BY <1>2, Quotient
<1>4. /\ q \in Nat /\ len % ChunkSize \in Nat /\ len % ChunkSize < ChunkSize
      /\ len = ChunkSize * q + (len % ChunkSize)
  BY <1>1, <1>2, Quotient
<1>5. full = q \/ (full = q - 1 /\ len % ChunkSize = 0) BY DEF FullChunks
<1> HIDE DEF keep, q
<1>6. ~(full < keep)
  <2>1. SUFFICES ASSUME full + 1 <= keep PROVE FALSE BY <1>3, <1>4, <1>5
  <2>2. full + 1 \in Int BY <1>4, <1>5
  <2>3. ChunkSize * (full + 1) <= ChunkSize * keep
    BY <1>2, <1>3, <2>1, <2>2, TimesKeepsOrder
  <2>4. ChunkSize * keep < len BY <1>3
  <2>5. CASE full = q
    <3>1. ChunkSize * (full + 1) = ChunkSize * q + ChunkSize BY <1>2, <1>4, <2>5
    <3>2. ChunkSize * q \in Nat /\ ChunkSize * keep \in Nat BY <1>2, <1>3, <1>4
    <3> QED BY <1>1, <1>2, <1>4, <2>3, <2>4, <3>1, <3>2
  <2>6. CASE full = q - 1 /\ len % ChunkSize = 0
    <3>1. ChunkSize * (full + 1) = ChunkSize * q BY <1>4, <2>6
    <3>2. ChunkSize * q \in Nat /\ ChunkSize * keep \in Nat BY <1>2, <1>3, <1>4
    <3> QED BY <1>1, <1>2, <1>4, <2>3, <2>4, <2>6, <3>1, <3>2
  <2> QED BY <1>5, <2>5, <2>6
<1>7. CASE f \in Gzipped
  <2>1. Fetched(f, s, size, full) = Inflated(f, ver[f], s, full)
    BY <1>7 DEF Fetched
  <2>2. Fetched(f, s, size, full)[i] =
          IF keep < full THEN Byte(f, ver[f], keep * ChunkSize + i)
          ELSE IF full * ChunkSize + i < len
          THEN Byte(f, ver[f], full * ChunkSize + i)
          ELSE IF full > 0 THEN Byte(f, ver[f], (full * ChunkSize + i) - ChunkSize)
          ELSE read_cache.data[i]
    BY <2>1 DEF Inflated, LastByte, keep
  <2>3. CASE keep < full
    <3>1. keep * ChunkSize = s BY <1>2, <1>3
    <3> QED BY <2>2, <2>3, <3>1
  <2>4. CASE ~(keep < full)
    <3>1. keep = full BY <1>3, <1>4, <1>5, <1>6, <2>4
    <3>2. full * ChunkSize = s BY <1>2, <1>3, <3>1
    <3> QED BY <2>2, <2>4, <3>2
  <2> QED BY <2>3, <2>4
<1>8. CASE f \notin Gzipped
  <2>1. i < size BY <1>1, <1>2, <1>8
  <2> QED BY <1>8, <2>1 DEF Fetched
<1> QED BY <1>7, <1>8

\* A file that is fetched from its beginning comes whole.
LEMMA FetchedWhole ==
    ASSUME TypeOK, NEW f \in File,
           NEW full \in FullChunks(Length[f][ver[f]]),
           NEW i \in Index, i < Length[f][ver[f]]
    PROVE  Fetched(f, 0, Length[f][ver[f]], full)[i] = Byte(f, ver[f], i)
<1>1. Length[f][ver[f]] \in Nat /\ i \in Nat
  <2>1. ver[f] \in DOMAIN Length[f] BY DEF TypeOK
  <2>2. \A k \in Index : k \in Nat BY DEF Index
  <2> QED BY <2>1, <2>2, Lengths
<1>2. 0 % ChunkSize = 0 BY SizesAssumption
<1>3. 0 < Length[f][ver[f]] /\ 0 + i = i /\ 0 + Length[f][ver[f]] = Length[f][ver[f]]
  BY <1>1
<1> QED BY <1>1, <1>2, <1>3, FetchedChunk

\* A position in a revision is a byte of it.
LEMMA BytesOfRevision ==
    ASSUME NEW f \in File, NEW r \in DOMAIN Length[f], NEW pos \in Nat
    PROVE  Byte(f, r, pos) # Junk <=> pos < Length[f][r]
<1>1. Length[f][r] \in Nat BY Lengths
<1>2. <<f, r, pos>> # Junk BY DEF Junk
<1> QED BY <1>1, <1>2 DEF Byte

\* A read that the cache answers.
LEMMA HitRight ==
    ASSUME FilesFit, TypeOK, WholeFile, NEW f \in File, NEW o \in Nat, NEW n \in Nat \ {0},
           ReadHit(f, o, n)
    PROVE  ReadsRight'
<1>1. reply' = Answer(f, o, n, n, [i \in 0..(n - 1) |->
                   At(read_cache.data, o - read_cache.start + i)])
  BY DEF ReadHit
<1>2. PICK r \in DOMAIN Length[f] :
        /\ read_cache.size = Length[f][r] /\ read_cache.start = 0
        /\ \A i \in Index : i < read_cache.size => read_cache.data[i] = Byte(f, r, i)
  BY DEF ReadHit, WholeFile
<1>3. Length[f][r] \in Nat /\ Length[f][r] <= ChunkSize /\ ChunkSize \in Nat
  BY Lengths, SizesAssumption DEF FilesFit
<1>4. ASSUME NEW i \in 0..(n - 1), Byte(f, r, o + i) # Junk
      PROVE  i < n /\ reply'.data[i] = Byte(f, r, o + i)
  <2>1. o + i \in Nat /\ i < n /\ o - 0 + i = o + i OBVIOUS
  <2>2. o + i < Length[f][r] BY <1>4, <2>1, BytesOfRevision
  <2>3. o + i \in Index BY <1>3, <2>1, <2>2 DEF Index
  <2>4. reply'.data[i] = At(read_cache.data, o - read_cache.start + i)
    BY <1>1 DEF Answer
  <2>5. reply'.data[i] = read_cache.data[o + i] BY <1>2, <2>1, <2>3, <2>4 DEF At
  <2> QED BY <1>2, <2>1, <2>2, <2>3, <2>5
<1>5. /\ reply'.status = "ok" /\ reply'.file = f /\ reply'.offset = o
      /\ reply'.count = n /\ reply'.len = n
  BY <1>1 DEF Answer
<1> QED BY <1>4, <1>5 DEF ReadsRight

\* A read that does not find its file in the cache.
LEMMA FetchRight ==
    ASSUME FilesFit, TypeOK, NEW f \in File, NEW o \in Nat, NEW n \in Nat \ {0},
           ~Cached(f), ReadFetch(f, o, n)
    PROVE  WholeFile' /\ ReadsRight'
<1> DEFINE r == ver[f]
           len == Length[f][r]
<1>1. r \in DOMAIN Length[f] /\ len \in Nat /\ len <= ChunkSize
  BY Lengths DEF TypeOK, FilesFit
<1>2. ChunkSize \in Nat BY SizesAssumption
<1>3. FetchStart(f) = 0 /\ FetchSize(f) = len
  BY <1>1, <1>2 DEF FetchStart, FetchSize
<1> DEFINE partial == IF Cached(f) /\ o < CacheEnd THEN CacheEnd - o ELSE 0
           rest == n - partial
           start == FetchStart(f)
           size == FetchSize(f)
           from == IF Cached(f) THEN o - start ELSE o
           short == from + rest > start + size
           given == IF short THEN size - from ELSE n
<1>4. PICK full \in FullChunks(len) :
        LET data == Fetched(f, start, size, full) IN
        /\ read_cache' = [id |-> f, start |-> start, size |-> size, data |-> data]
        /\ reply' = IF f \notin Gzipped /\ size > ChunkSize THEN Fault("overrun", f, o)
                    ELSE IF short /\ size < from THEN Fault("negative length", f, o)
                    ELSE Answer(f, o, n, given,
                           [i \in 0..(given - 1) |->
                               IF i < partial THEN At(read_cache.data, o + i)
                               ELSE At(data, from + i - partial)])
  BY Zenon DEF ReadFetch
<1>5. partial = 0 /\ from = o /\ start = 0 /\ size = len /\ rest = n
  BY <1>3
<1>6. short <=> o + n > len
  BY <1>1, <1>5
<1>7. given = IF o + n > len THEN len - o ELSE n
  BY <1>5, <1>6
<1> DEFINE data == Fetched(f, start, size, full)
<1>8. \A i \in Index : i < len => data[i] = Byte(f, r, i)
  BY <1>5, FetchedWhole
<1>9. read_cache' = [id |-> f, start |-> 0, size |-> len, data |-> data]
  BY <1>4, <1>5
<1>10. \/ reply' = Fault("negative length", f, o) /\ len < o
       \/ reply' = Answer(f, o, n, given,
                     [i \in 0..(given - 1) |->
                         IF i < partial THEN At(read_cache.data, o + i)
                         ELSE At(data, from + i - partial)])
  <2>1. ~(size > ChunkSize) BY <1>1, <1>2, <1>5
  <2>2. size < from => len < o BY <1>5
  <2> QED BY <1>4, <2>1, <2>2, Zenon
<1>13. ver' = ver BY DEF ReadFetch
<1> HIDE DEF data, partial, from, start, size, rest, short, given
<1>11. WholeFile'
  <2>1. \A g \in File : Cached(g)' => g = f BY <1>9 DEF Cached
  <2> QED BY <1>1, <1>8, <1>9, <2>1 DEF WholeFile, Byte, Index
<1>12. ReadsRight'
  <2>1. CASE reply' = Fault("negative length", f, o) /\ len < o
    <3>1. reply'.status = "negative length" /\ reply'.file = f /\ reply'.offset = o
      BY <2>1 DEF Fault
    <3>2. reply'.offset > Length[reply'.file][ver'[reply'.file]]
      BY <1>1, <1>13, <2>1, <3>1
    <3> QED BY <3>1, <3>2 DEF ReadsRight
  <2>2. CASE reply' = Answer(f, o, n, given,
                        [i \in 0..(given - 1) |->
                            IF i < partial THEN At(read_cache.data, o + i)
                            ELSE At(data, from + i - partial)])
    <3>1. /\ reply'.status = "ok" /\ reply'.file = f /\ reply'.offset = o
          /\ reply'.count = n /\ reply'.len = given
          /\ reply'.data = [i \in 0..(given - 1) |->
                               IF i < partial THEN At(read_cache.data, o + i)
                               ELSE At(data, from + i - partial)]
      BY <2>2 DEF Answer
    <3>2. ASSUME NEW i \in 0..(n - 1), Byte(f, r, o + i) # Junk
          PROVE  i < given /\ reply'.data[i] = Byte(f, r, o + i)
      <4>1. o + i \in Nat /\ o + i < len BY <1>1, <3>2, BytesOfRevision
      <4>2. given \in Int /\ i < given BY <1>1, <1>7, <4>1
      <4>3. i \in 0..(given - 1) BY <4>2
      <4>4. ~(i < partial) /\ from + i - partial = o + i BY <1>5
      <4>5. reply'.data[i] = At(data, o + i) BY <3>1, <4>3, <4>4
      <4>6. o + i \in Index BY <1>1, <1>2, <4>1 DEF Index
      <4> QED BY <1>8, <4>1, <4>2, <4>5, <4>6 DEF At
    <3> QED BY <1>1, <3>1, <3>2 DEF ReadsRight
  <2> QED BY <1>10, <2>1, <2>2
<1> QED BY <1>11, <1>12

\* A client's read never goes beyond a chunk that holds a whole file.
LEMMA NeverBeyond ==
    ASSUME FilesFit, TypeOK, WholeFile, NEW f \in File, Cached(f),
           NEW size \in SizesTold(f), NEW o \in 0..(size - 1), NEW n \in 1..ReadSize,
           (o % ReadSize) + n <= ReadSize
    PROVE  ~Beyond(o, n)
<1>1. o \in Nat /\ n \in Nat OBVIOUS
<1>2. o < ChunkSize
  <2>1. LookupSize[f] \in Nat /\ LookupSize[f] <= ChunkSize /\ ChunkSize \in Nat
    BY SizesAssumption DEF FilesFit
  <2>2. \A r \in DOMAIN Length[f] : Length[f][r] \in Nat /\ Length[f][r] <= ChunkSize
    BY Lengths DEF FilesFit
  <2>3. size \in Nat /\ size <= ChunkSize BY <2>1, <2>2 DEF SizesTold
  <2> QED BY <2>1, <2>3
<1>3. o + n <= ChunkSize BY <1>1, <1>2, BlockInChunk
<1>4. read_cache.start = 0 BY DEF WholeFile
<1>5. ChunkSize \in Nat BY SizesAssumption
<1> QED BY <1>1, <1>3, <1>4, <1>5 DEF Beyond, CacheEnd

LEMMA ReadsKept ==
    FilesFit /\ ReadInv /\ [ReadAny \/ UpdateAny]_vars => ReadInv'
<1> SUFFICES ASSUME FilesFit, ReadInv, [ReadAny \/ UpdateAny]_vars PROVE ReadInv'
  OBVIOUS
<1>1. TypeOK' BY TypesKept DEF ReadInv
<1>2. TypeOK /\ WholeFile /\ ReadsRight BY DEF ReadInv
<1>3. CASE ReadAny
  <2>0. PICK f \in File : \E size \in SizesTold(f) :
          \E o \in 0..(size - 1) : \E n \in 1..ReadSize :
             (o % ReadSize) + n <= ReadSize /\ Read(f, o, n)
    BY <1>3 DEF ReadAny
  <2>1. PICK size \in SizesTold(f) :
          \E o \in 0..(size - 1) : \E n \in 1..ReadSize :
             (o % ReadSize) + n <= ReadSize /\ Read(f, o, n)
    BY <2>0
  <2>2. PICK o \in 0..(size - 1), n \in 1..ReadSize :
          (o % ReadSize) + n <= ReadSize /\ Read(f, o, n)
    BY <2>1
  <2>3. o \in Nat /\ n \in Nat \ {0} OBVIOUS
  <2>4. CASE ReadHit(f, o, n)
    <3>1. ReadsRight' BY <1>2, <2>3, <2>4, HitRight
    <3>2. WholeFile' BY <1>2, <2>4 DEF ReadHit, WholeFile, Cached
    <3> QED BY <1>1, <3>1, <3>2 DEF ReadInv
  <2>5. CASE ReadFetch(f, o, n)
    <3>1. ~Cached(f) BY <1>2, <2>2, <2>5, NeverBeyond DEF ReadFetch
    <3>2. WholeFile' /\ ReadsRight' BY <1>2, <2>3, <2>5, <3>1, FetchRight
    <3> QED BY <1>1, <3>2 DEF ReadInv
  <2> QED BY <2>2, <2>4, <2>5 DEF Read
<1>4. CASE UpdateAny
  <2>1. UNCHANGED <<read_cache, reply>> /\ Running BY <1>4 DEF UpdateAny, Update
  <2>2. reply'.status \in {"none", "ok"} BY <2>1 DEF Running
  <2>3. ReadsRight' BY <1>2, <2>1, <2>2 DEF ReadsRight
  <2>4. WholeFile' BY <1>2, <2>1 DEF WholeFile, Cached
  <2> QED BY <1>1, <2>3, <2>4 DEF ReadInv
<1>5. CASE UNCHANGED vars
  BY <1>1, <1>2, <1>5 DEF vars, ReadInv, WholeFile, ReadsRight, Cached
<1> QED BY <1>3, <1>4, <1>5

LEMMA ReadInvAtFirst == Init => ReadInv
<1> SUFFICES ASSUME Init PROVE ReadInv OBVIOUS
<1>1. TypeOK BY TypesAtFirst
<1>2. WholeFile BY SizesAssumption DEF Init, WholeFile, Cached
<1>3. ReadsRight BY DEF Init, NoReply, ReadsRight
<1> QED BY <1>1, <1>2, <1>3 DEF ReadInv

\* Clients of files that fit into the cache are given the bytes of one revision
\* of the file that they ask for, in whatever order they read and whatever is
\* updated, until one reads behind the end of a revision that is shorter than
\* the size it knows: that read, and no other, may fault.
THEOREM SmallReadsRight == ASSUME FilesFit PROVE Spec => []ReadsRight
<1>1. ReadInv => ReadsRight BY DEF ReadInv
<1>2. ReadInv /\ [ReadAny \/ UpdateAny]_vars => ReadInv' BY ReadsKept
<1> QED BY <1>1, <1>2, ReadInvAtFirst, PTL DEF Spec

\* And what vcfs_read relies on when it answers from the cache holds of it.
THEOREM SmallChunksRight == ASSUME FilesFit PROVE Spec => []ChunkRight
<1>1. ReadInv => ChunkRight
  <2> SUFFICES ASSUME ReadInv PROVE ChunkRight OBVIOUS
  <2>1. \A i \in Index : i \in Nat BY DEF Index
  <2>2. \A i \in Nat : 0 + i = i OBVIOUS
  <2> QED BY <2>1, <2>2 DEF ReadInv, WholeFile, ChunkRight
<1>2. ReadInv /\ [ReadAny \/ UpdateAny]_vars => ReadInv' BY ReadsKept
<1> QED BY <1>1, <1>2, ReadInvAtFirst, PTL DEF Spec
-----------------------------------------------------------------------------
(* One client that reads files from beginning to end, however long. *)

OneReader == \A c, d \in Reader : c = d

\* The size of a file, which does not change while SequentialReaders runs.
Now(f) == Length[f][ver[f]]

\* No file is empty, and none that is sent plain is longer than one chunk and
\* no longer than two: vcfs_read would overrun the cache with it.
FilesServed ==
    \A f \in File :
        LET len == Length[f][Loaded[f]] IN
        /\ len > 0
        /\ f \in Gzipped \/ len <= ChunkSize \/ len > 2 * ChunkSize

\* The chunk holds what the file has from its start on.
ChunkOf(f) ==
    /\ Cached(f)
    /\ read_cache.start % ChunkSize = 0 /\ read_cache.start < Now(f)
    /\ \A i \in Index : read_cache.start + i < Now(f) =>
          read_cache.data[i] = Byte(f, ver[f], read_cache.start + i)

\* The chunk is the one that the last block before next came from.  It is a full
\* one, or the last of its file: vcfs_read gives the second and last chunk of a
\* file the size of the whole file, so that no read goes beyond it.
Follows(f, next) ==
    /\ next % ReadSize = 0
    /\ next = 0 => ~Cached(f)
    /\ next # 0 =>
          /\ ChunkOf(f) /\ read_cache.start < next
          /\ \/ read_cache.size = ChunkSize /\ next <= read_cache.start + ChunkSize
             \/ read_cache.size # ChunkSize /\ Now(f) <= read_cache.start + ChunkSize

SeqInv ==
    /\ TypeOK /\ Running /\ ReadsRight
    /\ ver = Loaded
    /\ at \in [Reader -> [file : File, next : Nat]]
    /\ \A c \in Reader : Follows(at[c].file, at[c].next)

\* Between two blocks that touch there is no room for a third.
LEMMA NoBlockBetween ==
    ASSUME NEW p \in Nat, NEW e \in Nat, p % ReadSize = 0, e % ReadSize = 0,
           p <= e, e < p + ReadSize
    PROVE  p = e
<1> DEFINE j == p \div ReadSize
           k == e \div ReadSize
<1>1. ReadSize \in Nat \ {0} BY SizesAssumption
<1>2. p = ReadSize * j /\ j \in Nat BY <1>1
<1>3. e = ReadSize * k /\ k \in Nat BY <1>1
<1> HIDE DEF j, k
<1>4. ~(k < j)
  <2>1. SUFFICES ASSUME k + 1 <= j PROVE FALSE BY <1>2, <1>3
  <2>2. ReadSize * (k + 1) <= ReadSize * j BY <1>1, <1>2, <1>3, <2>1
  <2>3. ReadSize * (k + 1) = ReadSize * k + ReadSize BY <1>1, <1>3
  <2> QED BY <1>1, <1>2, <1>3, <2>2, <2>3
<1>5. ~(j < k)
  <2>1. SUFFICES ASSUME j + 1 <= k PROVE FALSE BY <1>2, <1>3
  <2>2. ReadSize * (j + 1) <= ReadSize * k BY <1>1, <1>2, <1>3, <2>1
  <2>3. ReadSize * (j + 1) = ReadSize * j + ReadSize BY <1>1, <1>2
  <2> QED BY <1>1, <1>2, <1>3, <2>2, <2>3
<1> QED BY <1>2, <1>3, <1>4, <1>5

LEMMA NextBlockAligned ==
    ASSUME NEW p \in Nat, p % ReadSize = 0
    PROVE  (p + ReadSize) % ReadSize = 0 /\ (p # 0 => p >= ReadSize)
<1>1. ReadSize \in Nat \ {0} BY SizesAssumption
<1> QED BY <1>1

\* Chunks begin and end where blocks do.
LEMMA ChunkAligned ==
    ASSUME NEW s \in Nat, s % ChunkSize = 0
    PROVE  /\ (s + ChunkSize) % ChunkSize = 0
           /\ s % ReadSize = 0 /\ (s + ChunkSize) % ReadSize = 0
           /\ s # 0 => s >= ChunkSize
<1> DEFINE k == ChunkSize \div ReadSize
           m == s \div ChunkSize
<1>1. /\ ReadSize \in Nat \ {0} /\ ChunkSize \in Nat \ {0}
      /\ ChunkSize % ReadSize = 0
  BY SizesAssumption
<1>3. ChunkSize = ReadSize * k /\ k \in Nat BY <1>1, Quotient
<1>4. s = ChunkSize * m /\ m \in Nat BY <1>1, Quotient
<1> HIDE DEF k, m
<1>2. (s + ChunkSize) % ChunkSize = 0 /\ (s # 0 => s >= ChunkSize)
  <2>1. s + ChunkSize = ChunkSize * (m + 1) BY <1>1, <1>4
  <2>2. \A x \in Nat : (ChunkSize * x) % ChunkSize = 0 BY <1>1
  <2>3. s # 0 => s >= ChunkSize
    <3>1. SUFFICES ASSUME s # 0 PROVE ChunkSize * 1 <= ChunkSize * m BY <1>1, <1>4
    <3>2. 1 <= m BY <1>1, <1>4, <3>1
    <3> QED BY <1>1, <1>4, <3>2, TimesKeepsOrder
  <2> QED BY <1>4, <2>1, <2>2, <2>3
<1>5. s = ReadSize * (k * m) /\ k * m \in Nat BY <1>1, <1>3, <1>4
<1>6. s + ChunkSize = ReadSize * (k * m + k) BY <1>1, <1>3, <1>4, <1>5
<1>7. \A x \in Nat : (ReadSize * x) % ReadSize = 0 BY <1>1
<1> QED BY <1>2, <1>3, <1>5, <1>6, <1>7

\* A block is not longer than a chunk.
LEMMA BlockFits == ReadSize <= ChunkSize /\ ReadSize \in Nat \ {0} /\ ChunkSize \in Nat \ {0}
<1>1. /\ ReadSize \in Nat \ {0} /\ ChunkSize \in Nat \ {0}
      /\ ChunkSize % ReadSize = 0
  BY SizesAssumption
<1> QED BY <1>1

\* A read that the cache answers, from where its chunk has begun.
LEMMA ChunkServes ==
    ASSUME TypeOK, NEW f \in File, NEW o \in Nat, NEW n \in Nat \ {0},
           ReadHit(f, o, n), ChunkOf(f), read_cache.start <= o,
           \/ o + n <= read_cache.start + ChunkSize
           \/ Now(f) <= read_cache.start + ChunkSize
    PROVE  ReadsRight' /\ Running'
<1> DEFINE s == read_cache.start
           r == ver[f]
<1>1. reply' = Answer(f, o, n, n, [i \in 0..(n - 1) |->
                   At(read_cache.data, o - s + i)])
  BY DEF ReadHit
<1>2. s \in Nat /\ ChunkSize \in Nat /\ r \in DOMAIN Length[f] /\ Length[f][r] \in Nat
  BY Lengths, SizesAssumption DEF TypeOK
<1>3. reply'.file = f /\ reply'.offset = o /\ reply'.count = n /\ reply'.len = n
      /\ reply'.status = "ok"
  BY <1>1 DEF Answer
<1>4. ASSUME NEW i \in 0..(n - 1), Byte(f, r, o + i) # Junk
      PROVE  i < n /\ reply'.data[i] = Byte(f, r, o + i)
  <2>1. i < n /\ o + i < Now(f) /\ i \in Nat BY <1>2, <1>4, BytesOfRevision DEF Now
  <2>2. PICK x : x = (o - s) + i OBVIOUS
  <2>3. x \in Index /\ s + x = o + i BY <1>2, <2>1, <2>2 DEF Index, Now
  <2>4. reply'.data[i] = At(read_cache.data, x)
    <3>1. reply'.data = [k \in 0..(n - 1) |-> At(read_cache.data, o - s + k)]
      BY <1>1 DEF Answer
    <3>2. x = o - s + i BY <1>2, <2>1, <2>2
    <3> QED BY <3>1, <3>2
  <2>5. read_cache.data[x] = Byte(f, r, o + i) BY <2>1, <2>3 DEF ChunkOf
  <2> QED BY <2>1, <2>3, <2>4, <2>5 DEF At
<1>5. ReadsRight' BY <1>2, <1>3, <1>4 DEF ReadsRight
<1> QED BY <1>3, <1>5 DEF Running

\* A read that the server answers, from the first byte of the chunk it fetches.
LEMMA FetchServes ==
    ASSUME TypeOK, NEW f \in File, NEW o \in Nat, ReadFetch(f, o, ReadSize),
           o = FetchStart(f), o % ChunkSize = 0, o < Now(f),
           \/ FetchSize(f) = ChunkSize
           \/ o = 0 /\ FetchSize(f) = Now(f) /\ Now(f) <= ChunkSize
           \/ o = ChunkSize /\ FetchSize(f) = Now(f) /\ f \in Gzipped
    PROVE  /\ ReadsRight' /\ Running'
           /\ ChunkOf(f)' /\ read_cache'.start = o /\ read_cache'.size = FetchSize(f)
<1> DEFINE n == ReadSize
           partial == IF Cached(f) /\ o < CacheEnd THEN CacheEnd - o ELSE 0
           rest == n - partial
           start == FetchStart(f)
           size == FetchSize(f)
           from == IF Cached(f) THEN o - start ELSE o
           short == from + rest > start + size
           given == IF short THEN size - from ELSE n
           r == ver[f]
<1>1. r \in DOMAIN Length[f] /\ Now(f) \in Nat /\ ver' = ver /\ Now(f)' = Now(f)
  BY Lengths DEF TypeOK, ReadFetch, Now
<1>2. PICK full \in FullChunks(Now(f)) :
        LET data == Fetched(f, start, size, full) IN
        /\ read_cache' = [id |-> f, start |-> start, size |-> size, data |-> data]
        /\ reply' = IF f \notin Gzipped /\ size > ChunkSize THEN Fault("overrun", f, o)
                    ELSE IF short /\ size < from THEN Fault("negative length", f, o)
                    ELSE Answer(f, o, n, given,
                           [i \in 0..(given - 1) |->
                               IF i < partial THEN At(read_cache.data, o + i)
                               ELSE At(data, from + i - partial)])
  BY Zenon DEF ReadFetch, Now
<1> DEFINE data == Fetched(f, start, size, full)
<1>3. n <= ChunkSize /\ n \in Nat \ {0} /\ ChunkSize \in Nat \ {0} BY BlockFits
<1>4. partial = 0 /\ from = 0 /\ start = o /\ rest = n
  <2>1. Cached(f) => o = CacheEnd BY DEF FetchStart
  <2>2. ~Cached(f) => o = 0 BY DEF FetchStart
  <2>3. CacheEnd \in Int
    <3>1. read_cache.start \in Nat /\ read_cache.size \in Nat BY DEF TypeOK
    <3> QED BY <3>1 DEF CacheEnd
  <2> QED BY <1>3, <2>1, <2>2, <2>3
<1>5. size \in Nat BY <1>1, <1>3
<1>6. short <=> n > o + size
  <2>1. 0 + n = n BY <1>3
  <2> QED BY <1>4, <2>1
<1>7. given = IF n > o + size THEN size ELSE n BY <1>4, <1>5, <1>6
<1>8. read_cache' = [id |-> f, start |-> o, size |-> size, data |-> data]
  BY <1>2, <1>4
<1>9. reply' = Answer(f, o, n, given,
                  [i \in 0..(given - 1) |->
                      IF i < partial THEN At(read_cache.data, o + i)
                      ELSE At(data, from + i - partial)])
  <2>1. ~(f \notin Gzipped /\ size > ChunkSize) BY <1>1, <1>3
  <2>2. ~(short /\ size < from) BY <1>4, <1>5
  <2> QED BY <1>2, <2>1, <2>2, Zenon
<1>10. \A i \in Index : o + i < Now(f) => data[i] = Byte(f, r, o + i)
  <2>1. f \notin Gzipped => size = ChunkSize \/ o + size = Length[f][ver[f]]
    BY <1>1 DEF Now
  <2>2. o < Length[f][ver[f]] /\ full \in FullChunks(Length[f][ver[f]]) BY DEF Now
  <2>3. \A i \in Index : o + i < Length[f][ver[f]] =>
           Fetched(f, o, size, full)[i] = Byte(f, ver[f], o + i)
    <3> HIDE DEF size
    <3> QED BY <1>5, <2>1, <2>2, FetchedChunk
  <2>4. data = Fetched(f, o, size, full) BY <1>4
  <2> QED BY <2>3, <2>4 DEF Now
<1> HIDE DEF data, partial, from, start, rest, short, given, size
<1>11. ChunkOf(f)' /\ read_cache'.start = o /\ read_cache'.size = FetchSize(f)
  <2>1. read_cache'.id = f /\ read_cache'.start = o /\ read_cache'.size = size
        /\ read_cache'.data = data
    BY <1>8
  <2> QED BY <1>1, <1>10, <2>1 DEF ChunkOf, Cached, Now, size, Byte
<1>12. /\ reply'.file = f /\ reply'.offset = o /\ reply'.count = n /\ reply'.len = given
       /\ reply'.status = "ok"
       /\ reply'.data = [i \in 0..(given - 1) |->
                            IF i < partial THEN At(read_cache.data, o + i)
                            ELSE At(data, from + i - partial)]
  BY <1>9 DEF Answer
<1>13. ASSUME NEW i \in 0..(n - 1), Byte(f, r, o + i) # Junk
       PROVE  i < given /\ reply'.data[i] = Byte(f, r, o + i)
  <2>1. o + i < Now(f) /\ i \in Nat /\ i < n BY <1>1, <1>3, <1>13, BytesOfRevision DEF Now
  <2>2. i < given /\ given \in Nat
    <3>1. \/ size = ChunkSize \/ (o = 0 /\ size = Now(f)) \/ o = ChunkSize BY DEF size
    <3> QED BY <1>1, <1>3, <1>5, <1>7, <2>1, <3>1
  <2>3. i \in 0..(given - 1) BY <2>1, <2>2
  <2>4. ~(i < partial) /\ from + i - partial = i BY <1>4, <2>1
  <2>5. reply'.data[i] = At(data, i) BY <1>12, <2>3, <2>4
  <2>6. i \in Index BY <1>3, <2>1 DEF Index
  <2> QED BY <1>10, <2>1, <2>2, <2>5, <2>6 DEF At
<1>14. ReadsRight' BY <1>1, <1>12, <1>13 DEF ReadsRight
<1>15. Running' BY <1>12 DEF Running
<1> QED BY <1>11, <1>14, <1>15

\* The next block is in the chunk, or begins one.
LEMMA NextBlockServed ==
    ASSUME FilesServed, TypeOK, ver = Loaded, NEW f \in File, NEW o \in Nat,
           o < Now(f), Follows(f, o), Read(f, o, ReadSize)
    PROVE  ReadsRight' /\ Running' /\ Follows(f, o + ReadSize)'
<1>1. ReadSize \in Nat \ {0} /\ ChunkSize \in Nat \ {0} /\ ReadSize <= ChunkSize
  BY BlockFits
<1>2. read_cache.start \in Nat /\ read_cache.size \in Nat /\ Now(f) \in Nat
  BY Lengths DEF TypeOK, Now
<1>3. (o + ReadSize) % ReadSize = 0 /\ o + ReadSize \in Nat \ {0}
  BY <1>1, NextBlockAligned DEF Follows
<1>4. CASE ReadHit(f, o, ReadSize)
  <2>1. o # 0 BY <1>4 DEF ReadHit, Follows
  <2>2. /\ ChunkOf(f) /\ read_cache.start < o
        /\ \/ read_cache.size = ChunkSize /\ o <= read_cache.start + ChunkSize
           \/ read_cache.size # ChunkSize /\ Now(f) <= read_cache.start + ChunkSize
    BY <2>1 DEF Follows
  <2>3. \/ read_cache.size = ChunkSize /\ o + ReadSize <= read_cache.start + ChunkSize
        \/ read_cache.size # ChunkSize /\ Now(f) <= read_cache.start + ChunkSize
    BY <1>1, <1>2, <1>4, <2>2 DEF ReadHit, Beyond, CacheEnd
  <2>4. ReadsRight' /\ Running' BY <1>1, <1>2, <1>4, <2>2, <2>3, ChunkServes
  <2>5. UNCHANGED <<read_cache, ver>> BY <1>4 DEF ReadHit
  <2>6. ChunkOf(f)' BY <2>2, <2>5 DEF ChunkOf, Cached, Now, Byte
  <2>7. read_cache'.start < o + ReadSize BY <1>1, <1>2, <2>2, <2>5
  <2>8. Now(f)' = Now(f) BY <2>5 DEF Now
  <2> QED BY <1>3, <2>3, <2>4, <2>5, <2>6, <2>7, <2>8 DEF Follows
<1>5. CASE ReadFetch(f, o, ReadSize)
  <2>1. /\ o = FetchStart(f) /\ o % ChunkSize = 0
        /\ \/ FetchSize(f) = ChunkSize
           \/ o = 0 /\ FetchSize(f) = Now(f) /\ Now(f) <= ChunkSize
           \/ o = ChunkSize /\ FetchSize(f) = Now(f) /\ f \in Gzipped
        /\ FetchSize(f) # ChunkSize => Now(f) <= o + ChunkSize
    <3>1. CASE ~Cached(f)
      <4>1. o = 0 BY <3>1 DEF Follows, ChunkOf
      <4>2. 0 % ChunkSize = 0 BY <1>1
      <4> QED BY <1>1, <1>2, <3>1, <4>1, <4>2 DEF FetchStart, FetchSize, Now
    <3>2. CASE Cached(f)
      <4> DEFINE s == read_cache.start
                 e == s + ChunkSize
      <4>1. o # 0 BY <3>2 DEF Follows
      <4>2. read_cache.size = ChunkSize /\ o + ReadSize > e
        BY <1>5, <3>2 DEF ReadFetch, Beyond, CacheEnd
      <4>3. o <= e /\ s % ChunkSize = 0 BY <4>1, <4>2 DEF Follows, ChunkOf
      <4>4. e % ChunkSize = 0 /\ e % ReadSize = 0 /\ (s # 0 => s >= ChunkSize)
        BY <1>2, <4>3, ChunkAligned
      <4>5. o = e
        <5>1. o % ReadSize = 0 BY DEF Follows
        <5>2. e \in Nat BY <1>1, <1>2
        <5> HIDE DEF e
        <5>3. e < o + ReadSize BY <1>1, <4>2, <5>2
        <5> QED BY <4>3, <4>4, <5>1, <5>2, <5>3, NoBlockBetween
      <4>6. FetchStart(f) = e BY <3>2, <4>2 DEF FetchStart, CacheEnd
      <4>7. FetchSize(f) = IF Now(f) - ChunkSize > ChunkSize THEN ChunkSize ELSE Now(f)
        BY <3>2, <4>2 DEF FetchSize, Now
      <4>8. CASE Now(f) - ChunkSize > ChunkSize
        BY <4>4, <4>5, <4>6, <4>7, <4>8
      <4>9. CASE ~(Now(f) - ChunkSize > ChunkSize)
        <5>1. s = 0 /\ Now(f) > ChunkSize BY <1>1, <1>2, <4>4, <4>5, <4>9
        <5>2. f \in Gzipped
          <6>1. f \in Gzipped \/ Now(f) <= ChunkSize \/ Now(f) > 2 * ChunkSize
            BY DEF FilesServed, Now
          <6> QED BY <1>1, <1>2, <4>9, <5>1, <6>1
        <5>3. FetchSize(f) = Now(f) /\ o = ChunkSize
          BY <1>1, <4>5, <4>7, <4>9, <5>1
        <5> QED BY <1>1, <1>2, <4>4, <4>5, <4>6, <4>9, <5>2, <5>3
      <4> QED BY <4>8, <4>9
    <3> QED BY <3>1, <3>2
  <2>2. /\ ReadsRight' /\ Running'
        /\ ChunkOf(f)' /\ read_cache'.start = o /\ read_cache'.size = FetchSize(f)
    BY <1>5, <2>1, FetchServes
  <2>3. Now(f)' = Now(f) BY <1>5 DEF ReadFetch, Now
  <2>4. o < o + ReadSize /\ o + ReadSize <= o + ChunkSize BY <1>1
  <2> QED BY <1>3, <2>1, <2>2, <2>3, <2>4 DEF Follows
<1> QED BY <1>4, <1>5 DEF Read

\* The last block is in the chunk.
LEMMA LastBlockServed ==
    ASSUME TypeOK, NEW f \in File, NEW next \in Nat \ {0},
           Follows(f, next), Read(f, next - ReadSize, ReadSize)
    PROVE  /\ next - ReadSize \in Nat
           /\ ReadsRight' /\ Running' /\ Follows(f, next)'
<1> DEFINE s == read_cache.start
           o == next - ReadSize
<1>1. ReadSize \in Nat \ {0} /\ ChunkSize \in Nat \ {0} BY BlockFits
<1>2. s \in Nat /\ read_cache.size \in Nat /\ Now(f) \in Nat
  BY Lengths DEF TypeOK, Now
<1>3. /\ ChunkOf(f) /\ s < next /\ next % ReadSize = 0
      /\ \/ read_cache.size = ChunkSize /\ next <= s + ChunkSize
         \/ read_cache.size # ChunkSize /\ Now(f) <= s + ChunkSize
  BY DEF Follows
<1>4. s + ReadSize <= next
  <2>1. s % ReadSize = 0 BY <1>2, <1>3, ChunkAligned DEF ChunkOf
  <2> QED BY <1>1, <1>2, <1>3, <2>1, NoBlockBetween
<1>5. o \in Nat /\ s <= o /\ o + ReadSize = next BY <1>1, <1>2, <1>4
<1> HIDE DEF o
<1>6. ~Beyond(o, ReadSize) BY <1>1, <1>2, <1>3, <1>5 DEF Beyond, CacheEnd
<1>7. ReadHit(f, o, ReadSize)
  <2>1. Cached(f) /\ Read(f, o, ReadSize) BY <1>3 DEF ChunkOf, o
  <2> QED BY <1>6, <2>1 DEF Read, ReadFetch
<1>8. ReadsRight' /\ Running' BY <1>1, <1>3, <1>5, <1>7, ChunkServes
<1>9. UNCHANGED <<read_cache, ver>> BY <1>7 DEF ReadHit
<1>10. Follows(f, next)' BY <1>9 DEF Follows, ChunkOf, Cached, Now, Byte
<1> QED BY <1>5, <1>8, <1>10 DEF o

LEMMA SeqInvAtFirst == SeqInit => SeqInv
<1> SUFFICES ASSUME SeqInit PROVE SeqInv OBVIOUS
<1>1. Init BY DEF SeqInit
<1>2. TypeOK BY <1>1, TypesAtFirst
<1>3. Running /\ ReadsRight /\ ver = Loaded BY <1>1 DEF Init, NoReply, Running, ReadsRight
<1>4. PICK first \in [Reader -> File] : at = [c \in Reader |-> [file |-> first[c], next |-> 0]]
  BY DEF SeqInit
<1>5. at \in [Reader -> [file : File, next : Nat]] BY <1>4
<1>6. \A f \in File : Follows(f, 0)
  <2>1. \A f \in File : ~Cached(f) BY <1>1, SizesAssumption DEF Init, Cached
  <2>2. 0 % ReadSize = 0 BY BlockFits
  <2> QED BY <2>1, <2>2 DEF Follows
<1> QED BY <1>2, <1>3, <1>4, <1>5, <1>6 DEF SeqInv

LEMMA SeqInvKept ==
    ASSUME OneReader, FilesServed, SeqInv, [SeqNext]_seqVars
    PROVE  SeqInv'
<1> USE DEF SeqInv
<1>1. ASSUME NEW c \in Reader, SeqNext PROVE SeqInv'
  <2>1. PICK f \in File, next \in Nat :
          at[c] = [file |-> f, next |-> next] /\ Follows(f, next)
    OBVIOUS
  <2>2. \A d \in Reader : d = c BY DEF OneReader
  <2>3. ReadSize \in Nat \ {0} BY BlockFits
  <2>4. CASE NextBlock(c)
    <3>1. next < Now(f) /\ Read(f, next, ReadSize)
      <4>1. Now(f) \in Nat BY <2>1, Lengths DEF TypeOK, Now
      <4> QED BY <2>1, <2>4, <4>1 DEF NextBlock, Idle, Now
    <3>2. ReadsRight' /\ Running' /\ Follows(f, next + ReadSize)'
      BY <2>1, <3>1, NextBlockServed
    <3>3. TypeOK' BY <2>1, <2>3, <3>1, ReadTypes
    <3>4. at' = [at EXCEPT ![c].next = next + ReadSize] BY <2>1, <2>4 DEF NextBlock
    <3>5. at'[c] = [file |-> f, next |-> next + ReadSize] BY <2>1, <3>4
    <3>6. ver' = Loaded BY <3>1 DEF Read, ReadHit, ReadFetch
    <3>7. at' \in [Reader -> [file : File, next : Nat]]
      <4>1. next + ReadSize \in Nat BY <2>1, <2>3
      <4> QED BY <3>4, <4>1
    <3>8. at'[c].file = f /\ at'[c].next = next + ReadSize BY <3>5
    <3>9. \A d \in Reader : Follows(at[d].file, at[d].next)' BY <2>2, <3>2, <3>8
    <3> QED BY <3>2, <3>3, <3>6, <3>7, <3>9
  <2>5. CASE Again(c)
    <3>1. next \in Nat \ {0} /\ Read(f, next - ReadSize, ReadSize) BY <2>1, <2>5 DEF Again
    <3>2. next - ReadSize \in Nat /\ ReadsRight' /\ Running' /\ Follows(f, next)'
      BY <2>1, <3>1, LastBlockServed
    <3>3. TypeOK' BY <2>1, <2>3, <3>1, <3>2, ReadTypes
    <3>4. ver' = Loaded BY <3>1 DEF Read, ReadHit, ReadFetch
    <3>5. at' = at BY <2>5 DEF Again
    <3>6. at'[c].file = f /\ at'[c].next = next BY <2>1, <3>5
    <3>7. \A d \in Reader : Follows(at[d].file, at[d].next)' BY <2>2, <3>2, <3>6
    <3> QED BY <3>2, <3>3, <3>4, <3>5, <3>7
  <2>6. ASSUME NEW g \in File, Open(c, g) PROVE SeqInv'
    <3>1. UNCHANGED vars /\ g # f BY <2>1, <2>6 DEF Open
    <3>2. next # 0
      <4>1. Now(f) \in Nat /\ Now(f) > 0
        BY <2>1, Lengths DEF TypeOK, FilesServed, Now
      <4>2. next >= Now(f) BY <2>1, <2>6 DEF Open, Idle, Now
      <4> QED BY <2>1, <4>1, <4>2
    <3>3. ~Cached(g) BY <2>1, <3>1, <3>2 DEF Follows, ChunkOf, Cached
    <3>4. Follows(g, 0)'
      <4>1. 0 % ReadSize = 0 BY <2>3
      <4>2. ~Cached(g)' BY <3>1, <3>3 DEF Cached, vars
      <4> QED BY <4>1, <4>2 DEF Follows
    <3>5. TypeOK' /\ Running' /\ ReadsRight' /\ ver' = Loaded
      BY <3>1 DEF vars, TypeOK, Running, ReadsRight, Byte
    <3>6. at' = [at EXCEPT ![c] = [file |-> g, next |-> 0]] BY <2>6 DEF Open
    <3>7. at' \in [Reader -> [file : File, next : Nat]] /\ at'[c] = [file |-> g, next |-> 0]
      BY <3>6
    <3> QED BY <2>2, <3>4, <3>5, <3>7
  <2>7. NextBlock(c) \/ Again(c) \/ \E g \in File : Open(c, g)
    BY <1>1, <2>2 DEF SeqNext
  <2> QED BY <2>4, <2>5, <2>6, <2>7
<1>2. CASE UNCHANGED seqVars
  <2>1. UNCHANGED <<read_cache, ver, vsize, reply, at>> BY <1>2 DEF seqVars, vars
  <2>2. TypeOK' /\ Running' /\ ReadsRight' /\ ver' = Loaded
    BY <2>1 DEF TypeOK, Running, ReadsRight, Byte
  <2>3. \A c \in Reader : Follows(at[c].file, at[c].next)'
    BY <2>1 DEF Follows, ChunkOf, Cached, Now, Byte
  <2> QED BY <2>1, <2>2, <2>3
<1> QED BY <1>1, <1>2 DEF SeqNext

\* One client that reads files from beginning to end never has vcfs_read copy a
\* negative length, or past the end of the cache.
THEOREM OneReaderNoFault ==
    ASSUME OneReader, FilesServed PROVE SeqSpec => []NoFault
<1>1. SeqInv => NoFault BY DEF SeqInv, NoFault
<1>2. SeqInv /\ [SeqNext]_seqVars => SeqInv' BY SeqInvKept
<1> QED BY <1>1, <1>2, SeqInvAtFirst, PTL DEF SeqSpec

\* And it is given the bytes of the file, however many chunks that takes.
THEOREM OneReaderReadsRight ==
    ASSUME OneReader, FilesServed PROVE SeqSpec => []ReadsRight
<1>1. SeqInv => ReadsRight BY DEF SeqInv
<1>2. SeqInv /\ [SeqNext]_seqVars => SeqInv' BY SeqInvKept
<1> QED BY <1>1, <1>2, SeqInvAtFirst, PTL DEF SeqSpec
=============================================================================
