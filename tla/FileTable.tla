------------------------------ MODULE FileTable ------------------------------
(***************************************************************************)
(* The in-memory file system of vcfsd (vcfs_fh.c): the vinode bitmap, the  *)
(* hash table of fileids and the tree of ventries, from the moment the     *)
(* daemon loads a project to the NFS and cvstool requests that look files  *)
(* up, read them, list them and create revision-extended names such as     *)
(* foo.c,1.3 on demand.                                                    *)
(*                                                                         *)
(* svc_run serves one request at a time, so a handler is one action.  What *)
(* interleaves is the order of the clients' requests, and the restarts of  *)
(* the daemon: a client keeps its filehandles for as long as it likes, the *)
(* daemon forgets everything it knew.  A request answered NFSERR_NOENT     *)
(* changes nothing and is a stuttering step.                               *)
(*                                                                         *)
(* READ, cvstool and the LOOKUP of a revision ask the CVS server.  What    *)
(* comes back may be missing, be an error, or be the late answer to        *)
(* another request (CvsResp, Vcfsd): then the daemon crashes, or takes the *)
(* answer for what it asked for.                                           *)
(***************************************************************************)
EXTENDS Integers, Sequences, FiniteSets, SequencesExt

CONSTANTS
    Name,          \* names of files and directories, without a comma
    Version,       \* revision numbers
    NoVersion,     \* the revision part of a name that has no comma
    ModulePath,    \* path of the module, as expand-modules answers it
    Dirs,          \* paths of the directories below the module
    Messages,      \* what messages of the checkout are taken for directories
    Repo,          \* file path |-> (revision |-> size of that revision)
    Logged,        \* file path |-> numbers on the "revision" lines of its log
    StraySizes,    \* sizes that are read from the answer to another request
    MaxStray,      \* bound of the model on the entries with a strange answer
    UpdateTargets, \* paths that users give to "cvstool update -t"
    CharSum(_),    \* sum of the characters of a path
    NumBuckets,    \* length of file_hash (1024 in the code)
    NumVinodes,    \* bits in vinode_bmap (256 words of 32 bits in the code)
    MaxRestarts    \* bound of the model on the restarts of the daemon

(***************************************************************************)
(* A path is a sequence of entries; "foo.c,1.3" is an entry with a version *)
(* and "foo.c" one without.                                                *)
(***************************************************************************)
Entry == [base : Name, ver : Version \cup {NoVersion}]
Path == Seq(Entry)
Extended(p) == p # <<>> /\ Last(p).ver # NoVersion
WithVersion(p, v) == [p EXCEPT ![Len(p)].ver = v]
Unextended(p) == WithVersion(p, NoVersion)

\* Every name the table can come to hold: the module's directories, what the
\* checkout lists, and the revision-extended names of these.
ModuleDirs == {SubSeq(ModulePath, 1, n) : n \in 1..Len(ModulePath)}
Loadable == Dirs \cup Messages \cup DOMAIN Repo
PlainNames == ModuleDirs \cup Loadable
ExtendedNames == {WithVersion(p, v) : p \in PlainNames, v \in Version}
TableNames == PlainNames \cup ExtendedNames

\* Every name the daemon can come to hash.
HashedNames ==
    TableNames \cup UpdateTargets \cup {Front(p) : p \in Messages}
        \cup {Append(d, [base |-> n, ver |-> NoVersion]) :
                d \in TableNames \cup {<<>>}, n \in Name}

Bucket == 0..(NumBuckets - 1)
ZeroBucket == 7 % NumBuckets

ASSUME ModuleAssumption ==
    /\ NoVersion \notin Version
    /\ ModulePath \in Path /\ ModulePath # <<>>
    /\ \A p \in PlainNames : ~Extended(p)

\* A log may name numbers that are no revision of the file, where a message
\* quotes a line or a long number is cut, and not name one that it has: see
\* CvsLog.  What is left of a message of the checkout is no path of the project
\* and is in no directory of it.
ASSUME RepoAssumption ==
    /\ \A p \in Loadable : p \in Path /\ p # <<>> /\ p \notin ModuleDirs
    /\ (Dirs \cup Messages) \cap DOMAIN Repo = {}
    /\ \A p \in Messages : p \notin Dirs /\ Front(p) \notin TableNames
    /\ \A p \in DOMAIN Repo : Repo[p] \in [DOMAIN Repo[p] -> Nat]
    /\ \A p \in DOMAIN Repo : DOMAIN Repo[p] \subseteq Version
    /\ Logged \in [DOMAIN Repo -> SUBSET Version]

ASSUME BoundsAssumption ==
    /\ NumBuckets \in Nat \ {0}
    /\ NumVinodes \in Nat /\ NumVinodes > 3
    /\ MaxRestarts \in Nat /\ MaxStray \in Nat
    /\ StraySizes \subseteq Nat
    /\ \A p \in HashedNames : CharSum(p) \in Nat

VARIABLES
    phase,        \* what the daemon is doing, or the ASSERT it is stuck in
    vinode_bmap,  \* the bits of the bitmap that are set
    file_hash,    \* bucket |-> ids of the fileids chained there, newest first
    ventry,       \* id |-> ventry, for every vcfs_ventry allocated
    count,        \* directories made from the expand-modules response
    boot,         \* which run of the daemon this is
    handles,      \* every filehandle a client has been given
    astray        \* history: ventries with something from a strange answer

vars == <<phase, vinode_bmap, file_hash, ventry, count, boot, handles, astray>>
table == <<vinode_bmap, file_hash, ventry, astray>>

NULL == -1
Root == 0      \* id of root_node, which has no ventry
TopId == 3     \* id of ventry_list, the top directory of the project

\* A failed ASSERT prints its message and calls pause(): the daemon serves
\* nothing more until somebody kills it.
Asserts == {"Ran out of vinodes", "bad filehandle", "no parent", "not a file",
            "weird response"}

\* A null or stray pointer ends the process.
Stops == Asserts \cup {"crashed"}

\* The handle that the mount daemon made: its magic number is not VCFS's.
RootHandle == [boot |-> 0, id |-> 1, key |-> 1, name |-> <<>>]

-----------------------------------------------------------------------------
(* Lookups in the table. *)

hash(p) ==
    LET n == CharSum(p) % NumBuckets IN IF n = 0 THEN ZeroBucket ELSE n

\* Fault: the ids in the bucket are not compared.
find_fh_NoCompare(id, key) ==
    IF file_hash[key] = <<>> THEN NULL ELSE file_hash[key][1]

find_fh(id, key) ==
    IF \E i \in DOMAIN file_hash[key] : file_hash[key][i] = id THEN id ELSE NULL

get_fh(h) == IF h = RootHandle THEN Root ELSE find_fh(h.id, h.key)

\* Fault: names are compared up to the length of the one in the chain.
Hits_Prefix(p) == {i \in DOMAIN file_hash[hash(p)] :
                      ventry[file_hash[hash(p)][i]].name \in {p, Unextended(p)}}

\* Places in its bucket where the chain holds a fileid named p.
Hits(p) == {i \in DOMAIN file_hash[hash(p)] :
               ventry[file_hash[hash(p)][i]].name = p}

lookup_fh_name(p) ==
    IF Hits(p) = {} THEN NULL
    ELSE file_hash[hash(p)][CHOOSE i \in Hits(p) : \A j \in Hits(p) : i <= j]

NameOf(id) == IF id = Root THEN <<>> ELSE ventry[id].name

\* Fault: the revision is not looked for in the log.
LogOf_Unchecked(p) == Version

\* The numbers that vcfs_validate_version takes for revisions of a path: those
\* that cvs_get_log_info makes of the "revision" lines of its log, whoever wrote
\* them.  The log of anything but a file is empty.
LogOf(p) == IF p \in DOMAIN Repo THEN Logged[p] ELSE {}

\* The revisions that the server has of what a name stands for.
Revisions(p) == IF Unextended(p) \in DOMAIN Repo THEN DOMAIN Repo[Unextended(p)] ELSE {}

-----------------------------------------------------------------------------
(* Creating files. *)

\* alloc_vinode takes the first clear bit b and answers b + 1.
FirstFree(b) ==
    /\ b \in (0..(NumVinodes - 1)) \ vinode_bmap
    /\ \A c \in 0..(b - 1) : c \in vinode_bmap

Fail(assert) ==
    /\ phase' = assert
    /\ UNCHANGED <<table, count, boot, handles>>

OutOfVinodes == 0..(NumVinodes - 1) \subseteq vinode_bmap

\* Fault: bucket 0 is used here and not in hash.
insert_fh_BucketZero(id, p) ==
    [file_hash EXCEPT ![CharSum(p) % NumBuckets] = <<id>> \o @]

\* insert_fh: the new fileid goes to the head of its bucket.
insert_fh(id, p) == [file_hash EXCEPT ![hash(p)] = <<id>> \o @]

\* Fault: the new ventry goes to the tail.
insert_ventry_AtTail(id, v) ==
    LET parent == lookup_fh_name(Front(v.name)) IN
    [i \in DOMAIN ventry \cup {id} |->
        IF i = id THEN v
        ELSE IF i = parent THEN [ventry[i] EXCEPT !.dirent = @ \o <<id>>]
        ELSE ventry[i]]

\* insert_ventry: the new ventry goes to the head of its parent's dirent list,
\* and nowhere when the parent is not in the table.
insert_ventry(id, v) ==
    LET parent == lookup_fh_name(Front(v.name)) IN
    [i \in DOMAIN ventry \cup {id} |->
        IF i = id THEN v
        ELSE IF i = parent THEN [ventry[i] EXCEPT !.dirent = <<id>> \o @]
        ELSE ventry[i]]

\* create_ventry followed by create_fh.
Create(id, p, type, size, ver) ==
    /\ vinode_bmap' = vinode_bmap \cup {id - 1}
    /\ ventry' = insert_ventry(id, [name |-> p, type |-> type, size |-> size,
                                    ver |-> ver, dirent |-> <<>>])
    /\ file_hash' = insert_fh(id, p)

Alloc(p, type, size, ver) ==
    \E b \in 0..(NumVinodes - 1) :
        FirstFree(b) /\ Create(b + 1, p, type, size, ver) /\ UNCHANGED astray

-----------------------------------------------------------------------------
(* vcfs_build_project. *)

DirSize == 2048

EmptyTable ==
    /\ phase = "expand"
    /\ vinode_bmap = {0, 1, 2}
    /\ file_hash = [b \in Bucket |-> <<>>]
    /\ ventry = <<>>
    /\ astray = {}
    /\ count = 0

Init == EmptyTable /\ boot = 0 /\ handles = {}

\* The first component of the module path is the root directory of the
\* project: it has a fixed id and no parent.
ExpandRoot ==
    /\ phase = "expand" /\ count = 0
    /\ LET p == SubSeq(ModulePath, 1, 1) IN
       /\ ventry' = [i \in {TopId} |->
                        [name |-> p, type |-> "NFDIR", size |-> DirSize,
                         ver |-> NoVersion, dirent |-> <<>>]]
       /\ file_hash' = insert_fh(TopId, p)
    /\ count' = 1
    /\ UNCHANGED <<phase, vinode_bmap, boot, handles, astray>>

ExpandDir ==
    /\ phase = "expand" /\ count \in 1..(Len(ModulePath) - 1)
    /\ \/ /\ Alloc(SubSeq(ModulePath, 1, count + 1), "NFDIR", DirSize, NoVersion)
          /\ count' = count + 1
          /\ UNCHANGED <<phase, boot, handles>>
       \/ OutOfVinodes /\ Fail("Ran out of vinodes")

\* cvs_co; the line that names the module itself is swallowed.
CheckoutBegin ==
    /\ phase = "expand" /\ count = Len(ModulePath)
    /\ phase' = "checkout"
    /\ UNCHANGED <<table, count, boot, handles>>

\* The server lists every path once, after the directory that holds it.
Listed(p) == \E id \in DOMAIN ventry : ventry[id].name = p
NextListed(p) == ~Listed(p) /\ (p \in Messages \/ Listed(Front(p)))

\* Every line on the error stream is taken for a directory: one with a message
\* makes an entry in no directory, of what the message says from column 23 on.
CheckoutDir(p) ==
    /\ phase = "checkout" /\ p \in Dirs \cup Messages /\ NextListed(p)
    /\ \/ /\ Alloc(p, "NFDIR", DirSize, NoVersion)
          /\ UNCHANGED <<phase, count, boot, handles>>
       \/ OutOfVinodes /\ Fail("Ran out of vinodes")

\* r is the head revision, or the one that the tag given to vcfsd selects.
CheckoutFile(p, r) ==
    /\ phase = "checkout" /\ p \in DOMAIN Repo /\ NextListed(p)
    /\ r \in DOMAIN Repo[p]
    /\ \/ /\ Alloc(p, "NFREG", Repo[p][r], r)
          /\ UNCHANGED <<phase, count, boot, handles>>
       \/ OutOfVinodes /\ Fail("Ran out of vinodes")

\* The response is used up.  It may end early, when cvs_get_resp takes the
\* end of a segment for the end of the response.
CheckoutEnd ==
    /\ phase = "checkout"
    /\ phase' = "serve"
    /\ UNCHANGED <<table, count, boot, handles>>

-----------------------------------------------------------------------------
(* Requests. *)

\* Faults: the key is not reduced to a bucket, or made from the last entry of
\* the path alone.
Grant_Unreduced(id, p) ==
    handles' = handles \cup {[boot |-> boot, id |-> id, key |-> CharSum(p),
                              name |-> p]}

Grant_LastEntry(id, p) ==
    handles' = handles \cup {[boot |-> boot, id |-> id, key |-> hash(<<Last(p)>>),
                              name |-> p]}

Grant(id, p) ==
    handles' = handles \cup {[boot |-> boot, id |-> id, key |-> hash(p),
                              name |-> p]}

\* NFS LOOKUP of a name without a comma.
LookupPlain(h, name) ==
    /\ phase = "serve"
    /\ get_fh(h) # NULL
    /\ LET p == Append(NameOf(get_fh(h)), [base |-> name, ver |-> NoVersion])
           f == lookup_fh_name(p)
       IN f # NULL /\ Grant(f, ventry[f].name)
    /\ UNCHANGED <<phase, table, count, boot>>

\* The model lets few entries have taken something from a strange answer.
MayStray == Cardinality(astray) < MaxStray

\* NFS LOOKUP of name,v.  In the root the path made is "/name", which names
\* nothing.  The log that is read may be that of another file, when its answer
\* comes late; a bare "revision" line in it crashes the daemon, and so does an
\* answer that does not come.  The new entry takes over the size of the loaded
\* one.
LookupExtended(h, name, v) ==
    /\ phase = "serve"
    /\ get_fh(h) \notin {NULL, Root}
    /\ LET p == Append(NameOf(get_fh(h)), [base |-> name, ver |-> NoVersion])
           q == WithVersion(p, v)
           f == lookup_fh_name(p)
           own == v \in LogOf(p)
       IN /\ f # NULL
          /\ \/ /\ phase' = "crashed"
                /\ UNCHANGED <<table, handles>>
             \/ /\ lookup_fh_name(q) # NULL
                /\ own \/ MayStray
                /\ Grant(lookup_fh_name(q), q)
                /\ UNCHANGED <<phase, table>>
             \/ /\ lookup_fh_name(q) = NULL
                /\ own \/ MayStray
                /\ \E b \in 0..(NumVinodes - 1) :
                      /\ FirstFree(b)
                      /\ Create(b + 1, q, "NFREG", ventry[f].size, v)
                      /\ Grant(b + 1, q)
                      /\ astray' = IF own /\ f \notin astray THEN astray
                                   ELSE astray \cup {b + 1}
                /\ UNCHANGED phase
             \/ /\ lookup_fh_name(q) = NULL /\ OutOfVinodes
                /\ own \/ MayStray
                /\ phase' = "Ran out of vinodes"
                /\ UNCHANGED <<table, handles>>
    /\ UNCHANGED <<count, boot>>

\* A ventry is changed, by the file's own answer or by a strange one.
Rewrite(f, e, own) ==
    /\ own \/ MayStray
    /\ ventry' = [ventry EXCEPT ![f] = e]
    /\ astray' = IF own THEN astray ELSE astray \cup {f}
    /\ UNCHANGED <<phase, vinode_bmap, file_hash, count, boot, handles>>

\* NFS READ.  A read that is not served from the read cache fetches the file
\* and sets the size of its ventry to the length of what came back.  For a
\* directory, a revision that the server does not have, or the answer to
\* another request, that is the number that the sixth line of the answer
\* begins with.  The root has no ventry, and an answer that is missing or has
\* no sixth line no bytes.
Read(h) ==
    /\ phase = "serve"
    /\ LET f == get_fh(h) IN
       \/ f = NULL /\ Fail("bad filehandle")
       \/ f # NULL /\ Fail("crashed")
       \/ /\ f \notin {NULL, Root}
          /\ ventry[f].ver \in Revisions(ventry[f].name)
          /\ LET n == Repo[Unextended(ventry[f].name)][ventry[f].ver]
             IN Rewrite(f, [ventry[f] EXCEPT !.size = n], TRUE)
       \/ /\ f \notin {NULL, Root}
          /\ \E n \in StraySizes : Rewrite(f, [ventry[f] EXCEPT !.size = n], FALSE)

\* NFS READDIR changes nothing; it asserts that the handle resolves, and that
\* a directory other than the top one has its parent in the table.
ReaddirAsserts(f) ==
    IF f = NULL THEN {"bad filehandle"}
    ELSE IF f \notin {Root, TopId} /\ lookup_fh_name(Front(ventry[f].name)) = NULL
    THEN {"no parent"} ELSE {}

Readdir(h) ==
    /\ phase = "serve"
    /\ \E a \in ReaddirAsserts(get_fh(h)) : Fail(a)

\* cvstool update -t.  r is the number listed with the tag: a revision of the
\* file, the number of a branch, or what the late answer to another request has
\* there.  The server lists no tags for a name with a revision.  A line that
\* holds the text of the tag but no number fails an ASSERT.
Update(p, r) ==
    /\ phase = "serve"
    /\ p \in UpdateTargets
    /\ LET f == lookup_fh_name(p) IN
       /\ f # NULL
       /\ \/ ventry[f].type # "NFREG" /\ Fail("not a file")
          \/ ventry[f].type = "NFREG" /\ Fail("weird response")
          \/ /\ ventry[f].type = "NFREG"
             /\ Rewrite(f, [ventry[f] EXCEPT !.ver = r], p \in DOMAIN Repo)

\* Somebody kills the daemon and starts it again; the clients keep what they
\* hold.
Restart ==
    /\ boot < MaxRestarts
    /\ boot' = boot + 1
    /\ phase' = "expand"
    /\ vinode_bmap' = {0, 1, 2}
    /\ file_hash' = [b \in Bucket |-> <<>>]
    /\ ventry' = <<>>
    /\ astray' = {}
    /\ count' = 0
    /\ UNCHANGED handles

Load ==
    \/ ExpandRoot \/ ExpandDir \/ CheckoutBegin \/ CheckoutEnd
    \/ \E p \in Dirs \cup Messages : CheckoutDir(p)
    \/ \E p \in DOMAIN Repo : \E r \in Version : CheckoutFile(p, r)

Request ==
    \/ \E h \in handles \cup {RootHandle} : \E n \in Name :
          \/ LookupPlain(h, n)
          \/ \E v \in Version : LookupExtended(h, n, v)
    \/ \E h \in handles \cup {RootHandle} : Read(h) \/ Readdir(h)
    \/ \E p \in UpdateTargets : \E r \in Version : Update(p, r)

Next == Load \/ Request \/ Restart

Spec == Init /\ [][Next]_vars

-----------------------------------------------------------------------------
(* Properties. *)

\* The state keeps its types: every chain and every handle names ids that were
\* allocated, every ventry has a name the table may hold.
TypeOK ==
    /\ phase \in {"expand", "checkout", "serve"} \cup Stops
    /\ vinode_bmap \subseteq 0..(NumVinodes - 1)
    /\ DOMAIN ventry \subseteq 1..NumVinodes
    /\ \A i \in DOMAIN ventry :
          ventry[i] \in [name : TableNames, type : {"NFDIR", "NFREG"}, size : Nat,
                        ver : Version \cup {NoVersion}, dirent : Seq(DOMAIN ventry)]
    /\ file_hash \in [Bucket -> Seq(DOMAIN ventry)]
    /\ count \in 0..Len(ModulePath)
    /\ boot \in 0..MaxRestarts
    /\ handles \subseteq [boot : 0..boot, id : 1..NumVinodes, key : Bucket,
                         name : TableNames]
    /\ astray \subseteq DOMAIN ventry

\* Every file is found again under its own name, and only it: no two ventries
\* share a name and each one hangs in the bucket that its name hashes to
\* (create_fh, insert_fh, lookup_fh_name).
LookupRoundTrip ==
    \A i \in DOMAIN ventry : lookup_fh_name(ventry[i].name) = i

\* A filehandle given out since the daemon started resolves to the file it was
\* given out for, whatever was looked up, created or updated in between:
\* "unique for every file in the filesystem" (vcfs_nfs.c:5-6).
HandleIdentity ==
    \A h \in handles :
        h.boot = boot => get_fh(h) = h.id /\ NameOf(h.id) = h.name

\* The dirent list of a directory holds exactly the ventries named below it,
\* each once, the latest first: the order that READDIR's cookies count in.
DirentsExact ==
    \A d \in DOMAIN ventry :
        LET list == ventry[d].dirent IN
        /\ ToSet(list) = {i \in DOMAIN ventry \ {TopId} :
                            Front(ventry[i].name) = ventry[d].name}
        /\ \A a, b \in DOMAIN list : a < b => list[a] > list[b]

\* A revision-extended entry is a file, the name without the revision has an
\* entry too, and as long as every answer it was made of was its own it stands
\* for a number that the log of that file names, and keeps standing for it when
\* cvstool update moves the file to another revision.  The number need not be a
\* revision of the file: vcfs_validate_version takes those that messages quote.
ExtendedPinned ==
    \A i \in DOMAIN ventry :
        LET p == ventry[i].name IN
        Extended(p) =>
            /\ lookup_fh_name(Unextended(p)) # NULL
            /\ ventry[i].type = "NFREG"
            /\ i \notin astray =>
                  /\ Unextended(p) \in DOMAIN Repo
                  /\ ventry[i].ver = Last(p).ver
                  /\ ventry[i].ver \in Logged[Unextended(p)]

\* The size that clients are told of a file is the length of one of its own
\* revisions, unless the answer to another request was taken for it or for the
\* entry it took its size from: not always that of the revision they read,
\* since a name with a revision takes over the size of the loaded one (lookuph)
\* and an update leaves the size alone, but never that of what was sent.
SizesOwn ==
    \A i \in DOMAIN ventry :
        LET p == Unextended(ventry[i].name) IN
        ventry[i].type = "NFREG" /\ i \notin astray =>
            /\ p \in DOMAIN Repo
            /\ \E r \in DOMAIN Repo[p] : ventry[i].size = Repo[p][r]

\* When the daemon is stuck in the ASSERT on a filehandle in vcfs_read or
\* nfsproc_readdir_2, a client has kept a handle over a restart and the table
\* does not know it: nobody else's handle fails it.
HandlesResolve ==
    phase = "bad filehandle" => \E h \in handles : h.boot < boot /\ get_fh(h) = NULL

\* While the project is served no name disappears or changes its file, and a
\* listing changes only by new revision-extended names at its head: a client
\* in the middle of a listing can go on counting entries.
ListingStep ==
    phase = "serve" /\ boot' = boot =>
        \A i \in DOMAIN ventry :
            /\ i \in DOMAIN ventry'
            /\ ventry'[i].name = ventry[i].name
            /\ ventry'[i].type = ventry[i].type
            /\ \E n \in 0..Len(ventry'[i].dirent) :
                  /\ ventry[i].dirent =
                        SubSeq(ventry'[i].dirent, n + 1, Len(ventry'[i].dirent))
                  /\ \A k \in 1..n :
                        Extended(ventry'[ventry'[i].dirent[k]].name)

ListingStable == [][ListingStep]_vars

\* The table implements the naming service that Handles describes.
Service ==
    INSTANCE Handles WITH
        Id <- 1..NumVinodes,
        File <- TableNames,
        names <- [i \in DOMAIN ventry |-> ventry[i].name],
        held <- {<<h.id, h.name>> : h \in {g \in handles : g.boot = boot}}

ImplementsHandles == Service!Spec
=============================================================================
