------------------------------ MODULE ReadCache ------------------------------
(***************************************************************************)
(* vcfs_read (vcfs_fh.c) and its one-entry read cache, as nfsproc_read_2   *)
(* calls it.  The cache holds one chunk of the file that was read last; a  *)
(* read outside the chunk asks the CVS server for the whole file again and *)
(* keeps the chunk that follows the one it has.                            *)
(*                                                                         *)
(* A byte is named by where it comes from, <<file, revision, position>>,   *)
(* so that a reply can be compared with what the file holds.  Whatever lies*)
(* outside the cached data, or was never written, is Junk.                 *)
(***************************************************************************)
EXTENDS Integers

CONSTANTS
    File,        \* files, which the code knows by their fileid
    Revision,    \* revision numbers
    Length,      \* file |-> (revision |-> number of bytes)
    Loaded,      \* file |-> the revision that is loaded
    LookupSize,  \* file |-> the size that LOOKUP answers before any READ
    Gzipped,     \* the files that the server sends compressed
    ChunkSize,   \* READ_CACHE_SIZE (512 * 1024 in the code)
    ReadSize,    \* the clients' block, the most they ask for (8192 at most)
    NoFile       \* the id in the cache before the first read

ASSUME SizesAssumption ==
    /\ ChunkSize \in Nat \ {0} /\ ReadSize \in Nat \ {0}
    /\ ChunkSize % ReadSize = 0
    /\ NoFile \notin File
    /\ Gzipped \subseteq File
    /\ Loaded \in [File -> Revision]
    /\ LookupSize \in [File -> Nat]
    /\ \A f \in File : Length[f] \in [DOMAIN Length[f] -> Nat]
    /\ \A f \in File : DOMAIN Length[f] \subseteq Revision /\ Loaded[f] \in DOMAIN Length[f]

VARIABLES
    read_cache,  \* the chunk: the id of its file, its start and size, its data
    ver,         \* file |-> revision in its ventry
    vsize,       \* file |-> size in its ventry
    reply        \* the last READ: what was asked, and the answer

vars == <<read_cache, ver, vsize, reply>>

Junk == <<>>
Cell == {Junk} \cup (File \X Revision \X Nat)
Index == 0..(ChunkSize - 1)

\* What a file holds at a position.
Byte(f, r, pos) == IF pos \in 0..(Length[f][r] - 1) THEN <<f, r, pos>> ELSE Junk

\* A byte of the cache's data; reading outside finds other memory.
At(data, i) == IF i \in Index THEN data[i] ELSE Junk

NoReply == [status |-> "none"]
Running == reply.status \in {"none", "ok"}

Init ==
    /\ read_cache = [id |-> NoFile, start |-> 0, size |-> 0,
                     data |-> [i \in Index |-> Junk]]
    /\ ver = Loaded
    /\ vsize = LookupSize
    /\ reply = NoReply

\* The fields of a READ and its answer.
Answer(f, o, n, len, data) ==
    [status |-> "ok", file |-> f, offset |-> o, count |-> n, len |-> len,
     data |-> data]

\* memcpy was given a length that runs past the cache or is negative: what
\* happens then is not defined, and nothing is promised after it.
Fault(why, f, o) == [status |-> why, file |-> f, offset |-> o]

-----------------------------------------------------------------------------
(* cvs_zlib_inflate_buffer, asked to keep the chunk at offset off. *)

\* inflate() fills the output buffer once per chunk.  A file that ends with a
\* chunk may be reported at an end in the same call or in the next one.
FullChunks(len) ==
    IF len % ChunkSize = 0 /\ len > 0
    THEN {len \div ChunkSize - 1, len \div ChunkSize} ELSE {len \div ChunkSize}

\* Fault: the chunk before the one asked for is kept.
Inflated_ChunkBefore(f, r, off, full) ==
    LET keep == off \div ChunkSize IN
    [i \in Index |-> Byte(f, r, (keep - 1) * ChunkSize + i)]

\* The last chunk.  The output buffer, which is the cache's own, still holds
\* what was there before where the last chunk does not reach.
LastByte(f, r, full, i) ==
    LET pos == full * ChunkSize + i IN
    IF pos < Length[f][r] THEN Byte(f, r, pos)
    ELSE IF full > 0 THEN Byte(f, r, pos - ChunkSize)
    ELSE read_cache.data[i]

\* The chunk kept is the one asked for, or the last one.
Inflated(f, r, off, full) ==
    LET keep == off \div ChunkSize IN
    [i \in Index |-> IF keep < full THEN Byte(f, r, keep * ChunkSize + i)
                     ELSE LastByte(f, r, full, i)]

-----------------------------------------------------------------------------
(* vcfs_read. *)

CacheEnd == read_cache.start + read_cache.size
Cached(f) == read_cache.id = f

\* The chunk is a full one and the read goes past it.
Beyond(o, n) == read_cache.size = ChunkSize /\ o + n > CacheEnd

\* The read is answered from the cache.
ReadHit(f, o, n) ==
    /\ Cached(f) /\ ~Beyond(o, n)
    /\ reply' = Answer(f, o, n, n,
                       [i \in 0..(n - 1) |->
                            At(read_cache.data, o - read_cache.start + i)])
    /\ UNCHANGED <<read_cache, ver, vsize>>

\* Faults: the size is what remains after the chunk, whichever file it is of;
\* the size of the file, whatever the cache can hold.
FetchSize_Remaining(f) == Length[f][ver[f]] - CacheEnd

FetchSize_Uncapped(f) == Length[f][ver[f]]

\* Size of the chunk that is fetched.
FetchSize(f) ==
    LET len == Length[f][ver[f]] IN
    IF Cached(f)
    THEN IF len - read_cache.size > ChunkSize THEN ChunkSize ELSE len
    ELSE IF len > ChunkSize THEN ChunkSize ELSE len

\* Fault: the start is not reset for another file.
FetchStart_NotReset(f) == CacheEnd

FetchStart(f) == IF Cached(f) THEN CacheEnd ELSE 0

Fetched(f, start, size, full) ==
    IF f \in Gzipped THEN Inflated(f, ver[f], start, full)
    ELSE [i \in Index |-> IF i < size THEN Byte(f, ver[f], start + i)
                          ELSE read_cache.data[i]]

\* The file is fetched, and the read answered from what the old chunk and the
\* new one hold of it.
ReadFetch(f, o, n) ==
    /\ ~Cached(f) \/ Beyond(o, n)
    /\ LET partial == IF Cached(f) /\ o < CacheEnd THEN CacheEnd - o ELSE 0
           rest == n - partial
           start == FetchStart(f)
           size == FetchSize(f)
           from == IF Cached(f) THEN o - start ELSE o
           short == from + rest > start + size
       IN \E full \in FullChunks(Length[f][ver[f]]) :
          LET data == Fetched(f, start, size, full) IN
          /\ read_cache' = [id |-> f, start |-> start, size |-> size, data |-> data]
          /\ reply' =
                IF f \notin Gzipped /\ size > ChunkSize THEN Fault("overrun", f, o)
                ELSE IF short /\ size < from THEN Fault("negative length", f, o)
                ELSE LET len == IF short THEN size - from ELSE n IN
                     Answer(f, o, n, len,
                        [i \in 0..(len - 1) |->
                            IF i < partial THEN At(read_cache.data, o + i)
                            ELSE At(data, from + i - partial)])
    /\ vsize' = [vsize EXCEPT ![f] = Length[f][ver[f]]]
    /\ UNCHANGED ver

Read(f, o, n) == Running /\ (ReadHit(f, o, n) \/ ReadFetch(f, o, n))

\* cvstool update moves a file to another revision; the cache stays as it is.
Update(f, r) ==
    /\ Running
    /\ r \in DOMAIN Length[f] \ {ver[f]}
    /\ ver' = [ver EXCEPT ![f] = r]
    /\ UNCHANGED <<read_cache, vsize, reply>>

-----------------------------------------------------------------------------
(* Clients that read the blocks of a file in any order, and any number of  *)
(* times: several processes, read-ahead, and requests that the network     *)
(* loses, repeats or reorders.  A client asks for what lies below a size   *)
(* it was told, and never for parts of two blocks at once.                 *)

\* The sizes of a file that a client may know: from the LOOKUP, or from the
\* answer to a READ of any of its revisions, whichever is current by now.
SizesTold(f) == {LookupSize[f]} \cup {Length[f][r] : r \in DOMAIN Length[f]}

ReadAny ==
    \E f \in File : \E size \in SizesTold(f) :
        \E o \in 0..(size - 1) : \E n \in 1..ReadSize :
            (o % ReadSize) + n <= ReadSize /\ Read(f, o, n)

UpdateAny == \E f \in File : \E r \in Revision : Update(f, r)

Spec == Init /\ [][ReadAny \/ UpdateAny]_vars

-----------------------------------------------------------------------------
(* Properties. *)

TypeOK ==
    /\ read_cache \in [id : File \cup {NoFile}, start : Nat, size : Nat,
                       data : [Index -> Cell]]
    /\ ver \in [File -> Revision]
    /\ \A f \in File : ver[f] \in DOMAIN Length[f]
    /\ vsize \in [File -> Nat]
    /\ reply.status \in {"none", "ok", "overrun", "negative length"}

\* A reader is given the bytes of one revision of the file, and never a mixture
\* of two, or what lies in front of the data: every position it asked for that
\* the revision has is in the reply, with the byte that is there.  After an
\* update it may be the revision from before, which the cache still holds.
\* vcfs_read faults in one case only: the client has a size that is not the
\* file's any more, as from before an update, and the read begins behind the end
\* of the current revision; the length given to memcpy is then negative
\* (vcfs_fh.c:678-681).
ReadsRight ==
    /\ reply.status = "ok" =>
          \E r \in DOMAIN Length[reply.file] : \A i \in 0..(reply.count - 1) :
              LET b == Byte(reply.file, r, reply.offset + i) IN
              b # Junk => i < reply.len /\ reply.data[i] = b
    /\ reply.status = "negative length" =>
          reply.offset > Length[reply.file][ver[reply.file]]
    /\ reply.status # "overrun"

\* memcpy is never called with a length that is negative or exceeds the cache.
NoFault == Running

\* The chunk in the cache is a piece of one revision of its file, and one that
\* is not full reaches the end of the file: what vcfs_read relies on when it
\* answers without asking the server ("We have everything we need in cache,
\* return it", vcfs_fh.c:597).
ChunkRight ==
    \A f \in File : Cached(f) =>
        \E r \in DOMAIN Length[f] :
            /\ \A i \in Index :
                  i < read_cache.size /\ read_cache.start + i < Length[f][r] =>
                      read_cache.data[i] = Byte(f, r, read_cache.start + i)
            /\ read_cache.size # ChunkSize =>
                  read_cache.start = 0 /\ read_cache.size = Length[f][r]
=============================================================================
