# A TLA+ model of VCFS

VCFS is a user-space NFS server, `vcfsd`, that shows a CVS repository as a
read-only file system, and a program, `cvstool`, that asks the same daemon about
the revisions of the files it shows. This directory holds TLA+ modules of the
daemon's core, TLC configurations that check them on small instances, and proofs
for TLAPS. Line numbers refer to the files of this repository.

Contents: [the system](#the-system), [hard behaviours](#what-is-hard-to-test),
[modules](#modules), [runs](#what-the-runs-check),
[fairness](#fairness-and-deadlock), [proofs](#what-is-proved),
[disagreements](#disagreements-between-the-code-and-what-it-says),
[limits](#what-is-not-modelled), [plan](#plan), [how to run](#how-to-run).

## The system

`main` (vcfs.c) registers two RPC services, NFS version 2 and cvstool, connects
to the CVS server with the pserver protocol, loads the project, and calls
`svc_run`, which never returns. `svc_run` has one thread and carries out one
request at a time, so no two handlers interleave. What does interleave is the
*order* of the requests of many clients, the datagrams that are lost, repeated
and late, the text that arrives on the one TCP connection to the CVS server, and
the restarts of the daemon, which forgets everything, while its clients do not.

| Component | State | Operations | Correct when |
|---|---|---|---|
| File table and handles (vcfs_fh.c) | `vinode_bmap`, `file_hash`, the tree of `ventry`s from `ventry_list`; the clients' filehandles | `create_ventry`, `create_fh`, `lookup_fh_name`, `find_fh`, `get_fh`, `lookuph`, NFS LOOKUP | a name leads to one file, a handle to the file it was given out for, a directory's list holds exactly its entries |
| Project loading (`main`, `vcfs_build_project`) | the table, the responses to `expand-modules` and `co` | login, requests, one ventry for each directory and file | the table holds what the response describes, nothing of what files contain; the start-up ends |
| Read path and cache (`vcfs_read`) | `read_cache` (one chunk of one file), size and revision in the ventry | hit, fetch | a reply holds the bytes of the file at the offset that was asked for |
| Gzip inflation (cvs_zlib.c) | the output buffer, which is the cache's | one call for each fetch | the chunk kept is the one asked for |
| Directory listing (`nfsproc_readdir_2`) | none; the cookie is with the client | one page | every file is listed, once, and the listing ends |
| CVS connection (cvs_cmds.c) | socket, `cvs_buff` | connect, send a request, `cvs_get_resp` | the text is handed out in order and once; a call returns the whole response to its own request, or fails in bounded time |
| Log parser (`cvs_get_log_info`) | place in the response | next revision with date and author | what is found is a revision of the file, with its own date, or what a user wrote in just that form |
| cvstool service (cvstool_proc.c) | the ventries' revisions and tags, a static result | `ls`, `lsver`, `update` | what was reported of a file stays true until its user's next command |
| cvstool client (cvstool.c) | one RPC call | call, retransmission, giving up | |
| RPC dispatch and XDR (generated by rpcgen) | none | decode, dispatch, encode | |
| Start-up and `.cvspass` (vcfs.c, `scramble`) | the password | search, question, login | the server gets this user's own password |
| The services together | the table, the cache, the connection | READ, LOOKUP of a revision, `lsver`, `update -t`, `ls -l` | no service uses an answer that was meant for another |
| Other NFS procedures, debugging | none | `getattr` and stubs for a read-only file system | |

How they interact: NFS LOOKUP with a name `foo.c,1.3` asks the CVS connection for
the log and then creates an entry in the file table, at the head of the list
that READDIR counts its cookies in. NFS READ goes through the read cache, the
CVS connection and the inflation, and writes the size back to the table.
`cvstool update` asks for the tags and writes a revision to the table, which
neither the cache nor the extended names hear of. An answer that comes too late
from the CVS server is found on the connection by whichever component asks next.
All of them share the thread: whoever waits makes all clients wait.

## What is hard to test

`PROJECT.json` lists each hazard at its line with the properties about it. In
short:

- long sequences of lookups that grow the table while handles and listings are in
  use, up to the last vinode, bucket 0 included;
- restarts with handles kept from before;
- readers of several files that share a cache of one chunk, and sizes at the
  boundaries of chunks;
- a cached or looked-up value (size, chunk, revision) that is stale after
  `cvstool update`;
- a listing of several pages with names put at its head meanwhile;
- a response whose end is guessed from the last bytes received, late answers, a
  server that goes away, and what each service makes of an answer to another one;
- parsers that look for lines in texts that users write: files in the checkout,
  log messages, `.cvspass`;
- retransmitted updates and a result variable that is static.

## Modules

### FileTable, Handles, MCFileTable: the table

`FileTable` has `vinode_bmap`, `file_hash` and `ventry` as the code does: a ventry is
known by the id of its vinode, a bucket is the sequence of the ids chained in it,
newest first, and a directory's `dirent` is a sequence with the newest first. `phase`
says whether the daemon is expanding the module, reading the checkout, serving, crashed,
or hanging in an `ASSERT`, whose `pause()` it never leaves. `handles` is the set of all
handles ever given out, each with the run (`boot`) of the daemon that made it; clients
may use any of them at any time, so duplicated and reordered requests are included.
The names are sequences of entries `[base, ver]`; `"foo.c,1.3"` has a version,
`"foo.c"` none. `CharSum`, the sum that `hash` reduces, is a parameter, so that the
proofs hold for every distribution of the names over the buckets.

| Code | Model |
|---|---|
| `vcfs_build_project` 385-427 | `ExpandRoot`, `ExpandDir` |
| 429-533 | `CheckoutBegin`, `CheckoutDir`, `CheckoutFile` |
| end of the response, also a premature one | `CheckoutEnd` |
| `alloc_vinode`, `create_ventry`, `insert_ventry`, `create_fh`, `insert_fh` | `FirstFree`, `OutOfVinodes`, `Alloc`, `Create`, `insert_ventry`, `insert_fh` |
| `hash`, `find_fh`, `get_fh`, `lookup_fh_name` | operators of the same names |
| `nfsproc_lookup_2`, `lookuph` | `LookupPlain`, `LookupExtended` |
| `nfsproc_read_2`, the table's part | `Read` |
| `nfsproc_readdir_2`, the assertions | `Readdir` |
| `cvstool_update_1`, the table's part | `Update` |
| kill and start again | `Restart` |

A request that is answered `NFSERR_NOENT` changes nothing and is a stuttering
step.

READ, LOOKUP of a revision and `update` ask the CVS server. Its answer may be missing
(the daemon crashes), or be the late one to another request (`Vcfsd` says when): then a
size, a number or the validity of a name comes from that. `astray` is a history
variable, the entries with something from such an answer, which `StraySizes` and
`MaxStray` bound; what `ExtendedPinned` and `SizesOwn` say is about the others.
`Logged` has the numbers that `vcfs_validate_version` finds in a file's log: as
`CvsLog` shows, these are not the file's revisions exactly, since a message may quote a
number and a locked revision is not found. `Messages` are the lines on the error stream
of the checkout that are no directories; the code makes directories of them (TODO at
vcfs_fh.c:457), which are in no directory's list.

`Handles` is what the table promises, independent of buckets and bitmaps:
ids are bound to files once, a handle is given out for a bound file only, and
everything is forgotten at a restart. `Service` in `FileTable` is the refinement
mapping: the names of the ventries, and the handles of the current run. A
`Restart` may come at any time, also while the project is being loaded.

### BuildProject, MCBuildProject: loading

`BuildProject` extends `FileTable` with the way from the login to `svc_run`. The
response to `co` is a sequence of units: a line of the protocol is one, and so is a
byte of a file, given as the line that the parser would see if it began one there.
What a server sends is `Filled` by items, of which only the specification's assumption
and properties know where they begin, and `Lists` the repository. `Checkout` takes the
response, up to its end or to any unit that ends in `ok`; `ParseDir`, `ParseFile` and
`ParseOther` are the branches of the loop of `vcfs_build_project`, with the lines that
it skips by their places (`EntryLine`, `SizeLine`) and the bytes that it skips by
their number (`FileLength`). `ParseShort` is a message on the error
stream that ends before column 23, which gives `strncpy` a negative length; a longer
one is an item like a directory. `ParseTorn` is the use of a line or of bytes that are
not there. `stage` says how the start-up failed, if it did. `ImplementsTable` is the
specification of `FileTable` as a property: every step of the parser is a loading
action of `FileTable` or changes nothing of the table, so what is shown and proved of
`FileTable` holds for tables that the parser builds.

### ReadCache, SequentialReaders: the read path

`ReadCache` is `vcfs_read`. A byte is named `<<file, revision, position>>`, so a reply
can be compared with the file; what lies outside the cached data is `Junk`. `ReadHit` is
the answer from the cache (595-603), `ReadFetch` the rest, with the sizes (`FetchSize`),
starts (`FetchStart`) and the two `memcpy`s as the code computes them. `Inflated` is
what `cvs_zlib_inflate_buffer` leaves in the output buffer; where a file ends with a
chunk, zlib may report the end in the same call or the next, and both are allowed. A
`memcpy` with a length that is negative or too large ends the behaviour with a status of
its own (`Fault`). `Spec` lets any number of clients read any block of any file in any
order, with `cvstool update` in between. A client asks for what lies below a size it was
told (`SizesTold`), by the LOOKUP or by a READ of any revision, so an offset may lie
behind the end of a file that was updated since. `SequentialReaders` restricts the
clients to reading files from beginning to end, as `cat` does, with the last block
repeated at will.

### Readdir: listings

`nfsproc_readdir_2` over several pages: `Page(c)` is the answer to cookie `c`,
`Skipped` and `Rest` the two loops (491-505; the second gives, of the positions that
it has `Listed`, the `Nth` for each n), `Dots` the entries for the first page, `EOF`
the flag. A client takes a whole page or the first entries that fit its own buffer,
three at least (the dots and a file). `LookupExtended` puts a name with a comma
at the head between two pages.

### Connection, CvsResp: responses

`CvsResp` is `cvs_get_resp` and the connection below it. Text is a sequence over `o`,
`k`, `n` (the newline) and `x`, which is what `cvs_check_ok` tells apart. `Recv` is
one turn of the loop (grow the buffer, append, test for the end); `Timeout` is the ten
seconds of `poll`; `RecvEnd` and `RecvError` are `recv` returning 0 and -1. With fewer
than three symbols `cvs_check_ok` reads in front of its array, so its outcome is a
choice. A caller either tests the result against NULL (`checks`) or crashes. The
specifications differ in the environment: `TardySpec` has a server that sends lines
and may be late, `FailingSpec` a network that cuts the text anywhere and a server that
closes or resets the connection. `clean` is a history variable: the request found
nothing left over, and all segments since ended with lines.

`Connection` is what the loop promises whatever the server does: what the server
owes is one stream, handed out in order. The refinement mapping (`Stream`) takes
for owed what is in the buffer of the call, on the wire and with the server.
`Connection` is also what `Vcfsd` is composed over.

### CvsLog, CvsPass, MCTexts: texts that users write

`CvsLog` is `cvs_get_log_info` with its three callers: `vcfs_validate_version`,
`lsver` with and without `-p`, and `cvstool_get_author_date` (`ls -l`). A log is a
sequence of lines with descriptions and messages that may look like the lines
the parser looks for; it may be cut at any line that ends in `ok`. Of a line
the model keeps whether it begins with `M revision` or `M date:`, the text after its
second space, and of which revision it has date and author. A user's line may be of any
of these kinds, so a message may hold a log that somebody pasted, with the date and
author of another revision or file, or a `date:` line without a semicolon
(`NoSemicolon`).

`CvsPass` is the search for the password (`get_cvs_passwd_from_file`), the
question, and what is sent (`scramble`). The lines of `.cvspass` are those that
`cvs login` writes, in any order. The code reads memory that it never set;
`unset` records whether what was found there had an effect.

Neither shares state with the other; `MCTexts` checks both in one run.

### Vcfsd, MCVcfsd: the services together

`Vcfsd` composes all services that ask the CVS server, over the one thread (`call`)
and the one connection (an instance of `Connection`). A service is a request taken
(`AskRead`, `AskLookup`, `AskLsver`, `AskTag`, `AskLs`, with `AskNext` for the next
file of `ls -l`) and what it does with what `cvs_get_resp` returns (`GotRead`, ...),
which may be an answer, or part of one, that was meant for another question. An answer
has two parts; the second ends it, the first only if it belongs to `Cuttable`; the
server may refuse what belongs to `Refusable` with an error line, which nothing ends.
`TimedOut` is the call that fails; `Restart` also leaves the rest of a checkout on the
connection that was taken for complete too early. `mishaps` counts the calls that did
not get their answer: the properties say what holds without any, and what one mishap
costs at most.

A daemon stops for other causes too. `Broken` has the parts of logs in which a user
wrote a line that `cvs_get_log_info` may not survive (`CvsLog` says which): a lookup,
`lsver` or `ls -l` of that file may stop. A lookup stops when the vinodes are used up
(`Room`), an update of a directory in an `ASSERT` (`TagDirectory`), and an update to a
tag whose line has no number (`Odd`) in another. A read may stop when it is of a number
that only a message quotes (`Absent`: the server sends a line that says so, and no
text), or of a revision that is shorter than another one whose size the client knows
(`Shorter`, the fault of `ReadCache`).

What the components share is taken over from their modules in the form that the
others see: the connection by the refinement above, the log as the revisions
that a part of an answer lists, the table as revision by file, the cache as one text
(files here fit into a chunk).

### CvsTool: the cvstool service

The daemon's socket is a queue of requests; a client repeats its call
(`Retransmit`), gives up (`GiveUp`), requests and replies are lost, and a reply
is taken only by the call with its number. `Ls`, `Lsver` and `Update` are the
three procedures; `Update` has one case for each kind of path. The lines of `cvs status
-v` (`Lines`) have a text, in which a tag is looked for as a piece of the whole line
(`Found`), and the number behind it, of a revision or a branch, or none. `astray` is
set once an answer did not come in time; from then on the response may be one for any
other file (`Responses`). `result` is the
static variable of `cvstool_update_1`, and `serving` becomes false where the
daemon hangs or dereferences a missing response.

### Names with an underscore in them

An operator such as `Grant_LastEntry` stands next to `Grant` and is a wrong
version of it, marked "Fault". No specification uses it. It is the change that
the properties named in `PROJECT.json` (`mutants`) are known to notice.

## What the runs check

Each run is `tlc -config NAME.cfg MODULE`; sizes are distinct states.

| Run | Checks | States |
|---|---|---|
| BuildProject_serve | `TypeOK`, `LoadedExactly`, `TornOnlyWhenCut`, `LookupRoundTrip`, `DirentsExact`, `ExtendedPinned`, `SizesOwn`, `ListingStable`, `StartUpEnds`, `ImplementsTable` | 31948 |
| FileTable_restart | `HandleIdentity`, `HandlesResolve`, `ImplementsHandles` | 46590 |
| ReadCache_small | `TypeOK`, `ReadsRight`, `ChunkRight` | 3632 |
| SequentialReaders_one | `ReadsRight`, `NoFault`, no deadlock | 120 |
| SequentialReaders_two | `NoFault` is violated | |
| Readdir_extended | `TypeOK`, `NoneMissed`, `PlainNoneTwice`, `ListingEnds`, no deadlock | 835 |
| Readdir_twice | `NoneTwice` is violated | |
| CvsResp_failing | `TypeOK`, `BufferFits`, `OwnResponse`, `RequestEnds`, `ImplementsConnection` | 13961 |
| CvsResp_tardy | `EntireResponse` is violated | |
| CvsTool_own | `TypeOK`, `SuccessStands`, `ListingStands` | 1119530 |
| Texts_both | `ValidRight`, `DatesOwn`, `LsverExact`, `OrdinaryIsSafe`, `OwnPassword` | 309538 |
| Vcfsd_serve | `ContentOwn`, `TableOwn`, `LagBounded`, `StopsExplained`, `Served` | 723326 |

What they show, component by component:

- **Loading and serving** (`BuildProject_serve`): whatever a file contains (lines that
  look like a directory, a file or the end), gzipped or not, the table holds the
  items of the response that were parsed, each with its own size and revision, and a
  directory for each message; a line that was freed is used only when the response was
  cut. From there on any order of lookups, reads and updates keeps the table
  consistent; a name with a revision keeps standing for a number that its file's log
  names, and no file shows the size of another one, unless the answer to another
  request was taken for its own; a listing grows at its head only.
- **Handles** (`FileTable_restart`): handles of the current run resolve to their
  files, whatever the clients do with those from before; the assertion on handles
  fires for one of those alone.
- **Reading**: what a client is given of a file that fits into a chunk is always of one
  revision, in any order and with updates in between. A read that begins behind the
  end of the revision that the file was moved to can crash the daemon, and it is the
  only one that does. Larger files are read right by a client that reads on its own
  from beginning to end, and not otherwise.
- **Listing**: no file is missed and each listing ends, although names are put at
  its head; without such names no file is given twice.
- **Connection** (`CvsResp_failing`): the buffer suffices; each call ends unless the
  server closes the connection; a call on a clean connection gets its own answer,
  whole; a call on any other gets the next text in order.
- **Parsers** (`Texts_both`): a revision that a file has can be looked up and is
  listed with its own date; what is wrongly accepted or listed was written by a user
  in just that form, or is what is kept of a number that is too long, be it the
  file's or one that a user wrote.
- **cvstool** (`CvsTool_own`): what a user was told of a file that nobody else updates,
  by an update or an `ls`, stays so until that user's next command, in spite of lost
  and repeated datagrams. After an update to a tag the file is at the number of the
  first line that contains the tag's text, which need not be that tag's revision: the
  line may be of a longer tag or a branch, and of another file once an answer came late.
- **Together** (`Vcfsd_serve`): as long as every call gets its answer, no service
  stores anything that was meant for another; the daemon is never further behind
  the server than the number of mishaps. Without a mishap a request stops it for what
  its own file, or the table, is like, and for nothing else: a broken line in the log
  of that file, vinodes that are used up, an update of a directory or to a tag without
  a number, a read of a number that only a message quotes, or behind the end of a
  shorter revision. Every request ends, also one that asks many questions, as long as the
  server does not close the connection.

The bounds and why they are enough:

- **BuildProject_serve**: three responses for a module path of two components, a
  directory, a file in it and a file beside it at either of two revisions, which is
  empty, gzipped or sent as it is. Their contents are lines that look like a
  directory, a file and the end, at the start and at the end of a file; one name ends
  in `ok`. The first file comes before a directory, another is the last item. One
  response has a message that becomes a directory, another one that is too short for
  it. Three
  buckets: the names outnumber the buckets, and the character sums make names share
  one and fall into bucket 0. Nine
  vinodes are enough for all names but one, so they run out while names with a
  revision are looked up. The log of one file quotes a number that is not its own
  (`Logged`), and one entry may take something from a strange answer (`MaxStray`),
  a size that no file has. The rules
  for a directory's list speak of one directory, its entries and a new one; the
  instance has directories with none, one and several.
- **FileTable_restart**: one restart, with every handle kept; the clients use both
  generations at once. Four buckets keep the path of the directory apart from its last
  entry. Seven vinodes are too few, so that the last one is taken in some behaviours
  and not in others, also while the project is loaded; updates name a directory. A
  second restart would add only handles that are two generations old, which the table
  treats like those that are one generation old.
- **ReadCache_small**: a chunk of six bytes and blocks of up to three. All files
  fit into a chunk, one exactly; there are plain files of less than a chunk and
  gzipped ones, and two files with two revisions of different length, one plain and one
  gzipped. For the latter the second block of the longer revision begins behind the end
  of the shorter. The chunk is a multiple of the block, as 512 K is of 8 K.
- **SequentialReaders_one**: files of less than one chunk, exactly two, two and a
  byte, four less a byte, and a plain one of more than two; blocks of one byte.
  Sizes are counted in chunks by the code, so two chunks and a rest go through
  every branch; the fourth chunk repeats the third.
- **Readdir_extended**: up to eight files and three extended names with pages of
  four entries, and a byte (`LowByte`) of four values, so that a listing has
  several pages and passes a cookie whose low byte is 0.
- **CvsResp**: a `recv` of eight symbols and a first buffer of nine; answers go
  up to twice that, so the buffer is doubled more than once and is exactly full on
  the way. `MaxBacklog` bounds the text that is unread when a request is sent.
- **CvsTool_own**: two users, three calls, two requests in the socket. Three calls
  are the least for an update, one that changes the static result, and one that gets
  the wrong one; a queue of two holds a repeated request in front of or behind
  another one. Each user updates files of its own. The newest tag, which contains an
  older one, is listed first, as the server does; there is a branch, a text that is in
  every line, a file without tags, and a name with a revision, of which the server
  knows nothing.
- **Texts_both**: up to three revisions of one to four characters, where three are kept
  (`VerLen`, 16 in the code), so that numbers are shorter, exact and longer; messages
  with none, one or two lines that look like a revision, without a number, with one of
  the file, with another one or with one that is too long, or like a date, of a revision
  or without a semicolon, with a line like a revision in front or not. Up to three lines
  in `.cvspass`: of this account, of one whose text contains it and of another one, in
  every order, with and without the last newline; passwords with and without the letter
  that the search for the last `A` falls for, and an empty scrambled rest.
- **Vcfsd_serve**: two files, one with two revisions, the older the shorter one, and a
  number that a message quotes; three names to look up, this one, the older revision
  and one that only the other file has, and room for one; a broken line in the log of
  the second file, whose tag has no number; `MaxMishaps` 2, so that one
  mishap can hide or undo the effect of another. One request may be cut and one
  refused, which keeps the run short; any can be late.

What the clients are assumed to do: NFS clients ask for at most a block and
within one block; they take at least three entries of a page; the platform has
32-bit little-endian cookies; names are ASCII, since `hash` adds up plain
`char`s. A datagram on localhost is not overtaken by a later one. The cache's
id, which the code does not initialise, is assumed to be that of no file before
the first read.

## Fairness and deadlock

`CvsResp!FailingSpec` has weak fairness of `Recv`, `Timeout`, `RecvEnd` and
`RecvError`: the single thread is in the loop of `cvs_get_resp`, `poll` returns when
there is text or after ten seconds, and `recv` returns at once after that. Nothing is
assumed of the server or the network. `BuildSpec` has weak fairness of `Loading`,
everything the thread does by itself between the login and `svc_run`; none of
`Connect`, whose `recv` has no time limit, nor of `Serve`. `Vcfsd!Spec` has weak
fairness of `Continue`: a call that waits gets something or times out (that is
`RequestEnds` of `CvsResp`, for connections that the server does not close), and `ls
-l` goes on with its next file. `Readdir!Spec` has weak fairness of `Readdir`: a
client that is listing a directory asks for the next page. `LookupExtended`,
`Opendir`, the start of any request and everything else have none.

Deadlock is checked in `SequentialReaders_one` and both `Readdir` runs. The others
really stop: the start-up may exit or crash, a daemon whose `ASSERT` failed serves
nothing (`BuildProject_serve`, `FileTable_restart`, `CvsTool_own`), nor does one whose
`memcpy` faulted (`ReadCache_small`); a client whose last answer is in and whose command
budget (`MaxCalls`) is used up does nothing (`CvsTool_own`); a parser ends
(`Texts_both`); a crashed daemon or closed connection has no successor
(`CvsResp_failing`, `CvsResp_tardy`). In `Vcfsd_serve` a daemon that stopped can be
started again, so nothing is stuck but the clients of the old one; `Served` says more
than the absence of deadlock would.

## What is proved

`FileTableProofs`, for every module, repository, `CharSum`, number of buckets,
number of vinodes and number of restarts that satisfy `ModuleAssumption`,
`RepoAssumption` and `BoundsAssumption` of `FileTable`:

- `TypeCorrect`: `Spec => []TypeOK`
- `LookupCorrect`: `Spec => []LookupRoundTrip`
- `PinnedCorrect`: `Spec => []ExtendedPinned`
- `SizesCorrect`: `Spec => []SizesOwn`
- `HandlesCorrect`: `Spec => []HandleIdentity`
- `HandlesAlwaysResolve`: `Spec => []HandlesResolve`
- `FileTableImplementsHandles`: `Spec => ImplementsHandles`

They rest on the inductive invariant `IndInv`. `LookupRoundTrip` alone is not
inductive. A new ventry takes the id of the first clear bit: that no other ventry has
it needs `Ids` (every id has its bit set). It takes a name that a lookup did not find:
that no ventry has this name needs `Filed` (every ventry is chained in the bucket of
its name) and, to get the ventry and not a second one, `NoRepeats`. The directories of
the module path are created without a lookup: that they are new needs `Expanding`.
`ExtendedPinned` and `SizesOwn` need `Backed`: every ventry that is not `astray` `Fits`
the repository and the logs; and `Based`: the file of a name with a revision keeps its
ventry. Neither needs that the answers are the own ones, only that what was taken from
a strange one is known. `Held` ties the handles of the current run to the table.
`CreateKeepsTable` is the one lemma about creating an entry, `RewriteKeepsTable` the
one about changing its size or revision; `LoadInv`, `RequestInv` and `RestartInv`
apply them to the actions. Each shows besides that a step `Evolves` the table, that
is, keeps all names, adds one or forgets all, which is what the refinement of
`Handles` uses.

The assumption that `CharSum` is natural is what the code needs of `char`; that
`NumVinodes` is above 3 is the reserved vinodes; the others say what an
`expand-modules` and a checkout response list.

and, about the lists:

- `DirentsCorrect`: `Spec => []DirentsExact`
- `ListingsCorrect`: `Spec => ListingStable`

These rest on a second invariant, `ListInv`, which is inductive together with
`IndInv`. A new entry goes to the head of its directory's list, so the list is
ordered by id only if the new id is the largest: `Ascending` says that the set bits
are a prefix of the bitmap, as bits are only cleared all at once. A new directory has to
start with nothing named below it: `Rooted` says that whatever is in the table has its
directory there too. `create_ventry` finds that directory by its name while the module
path is expanded: `Grown` says that the part of the path created so far is there.
`CreateKeepsLists` is the lemma about creating an entry and `SameLists` the one about
every step that changes no list.

`BuildProofs`, for every response that is `Filled` and `Lists` the repository
(`ResponseAssumption`), with any bytes in its files and cut anywhere:

- `ParserImplementsTable`: `BuildSpec => ImplementsTable`
- `LoadedCorrect`: `BuildSpec => []LoadedExactly`
- `TornMeansCut`: `BuildSpec => []TornOnlyWhenCut`

By the first, all theorems about `FileTable`'s `Spec` hold of `BuildSpec`. The
invariant, `InStep`, says that the parser is at the beginning of an item, or behind
the last one (`Aligned`), and that the table holds the items in front of it
(`Parsed`): then the next item is new, its directory is there, and it is not a byte of
a file that looks like an item. `ItemMade` is the lemma about one item; `FileLines`
says that without a cut all its lines and bytes are there.

`CvsRespProofs`, for every set of answers and all sizes with
`ReadSize < BuffSize`:

- `RespTypeCorrect`: `FailingSpec => []TypeOK`
- `RespBufferFits`: `FailingSpec => []BufferFits`
- `RespImplementsConnection`: `FailingSpec => ImplementsConnection`
- `RespOwnResponse`: `FailingSpec => []OwnResponse`, if `OkEndsAnswer`

`BufferFits` is inductive together with `TypeOK`: what is received is shorter than the
smallest buffer, so doubling once suffices. `limit` is a natural number here and an
`int` in the code. For the refinement each action is mapped to one of `Connection`: a
`Recv` that completes the answer to `Give`, with the length of the buffer; a time-out
and an error to `GiveUp` of what was received; the server's end to `Lose`. `Deliver`
and any other `Recv` leave the mapped state alone, since what is in the buffer, on the
wire and with the server is the same text cut at other places; the lemmas on cutting
and joining sequences say so.

`OwnResponse` needs more of the server: `OkEndsAnswer` says that an answer consists of
lines, none of them empty or a bare `k`, of which only the last may end in `ok`, as
all answers of the instance do. The invariant, `OwnInv`, adds that a clean call has
received the beginning of its own answer, whole lines of it, and that the rest is with
the server, on the wire or lost. Then the test for `ok` looks at symbols of this
answer only (`OkSuffix`), and its outcome is not left to what lies in front of the
array.

`ReadCacheProofs`, for every repository, block and number of clients, as long as
`FilesFit`: no revision, and no size that a LOOKUP may leave, is longer than a chunk.

- `ReadTypeCorrect`: `Spec => []TypeOK`, which needs no `FilesFit`
- `SmallReadsRight`: `Spec => []ReadsRight`
- `SmallChunksRight`: `Spec => []ChunkRight`

The inductive invariant says that the cache, once it is filled, holds a whole revision
of its file from its first byte. Every read of a file that is cached is then answered
from it, and a fetch never begins behind the first chunk. So there is one way to a
fault, which `ReadsRight` names: the fetch of a file that was updated to a revision
which ends in front of the offset asked for. `FilesFit` is needed: without it the code
leaves the cache as `SequentialReaders_two` shows.

In the same module, for files of any length and one client that reads them from
beginning to end (`OneReader`), with any block that divides the chunk:

- `OneReaderNoFault`: `SeqSpec => []NoFault`
- `OneReaderReadsRight`: `SeqSpec => []ReadsRight`

`FilesServed` says what the code needs of the files: none is empty, and a plain one is
not of more than one chunk and at most two, which overruns the cache (see below). The
invariant, `SeqInv`, ties the cache to the reader: behind the first block of a file,
the chunk in the cache is the one that its last block came from, from the chunk's
first byte to its last or the file's (`Follows`, `ChunkOf`). So the next block is in
the cache or the first of the next chunk. Where chunks and blocks begin is arithmetic
with a product of two variables, which the solver does not do; `Quotient` and
`TimesKeepsOrder` are the facts needed of it.

`ReaddirProofs`, for every directory, size of a page, low byte of a cookie and number of
names that are put at the head of the list:

- `ReaddirTypeCorrect`: `Spec => []TypeOK`
- `ReaddirNoneMissed`: `Spec => []NoneMissed`
- `ReaddirPlainNoneTwice`: `Spec => []PlainNoneTwice`

`NoneMissed` speaks of the end of a listing. The invariant, `ListInv`, says at every
page that what the next cookie skips has been given (`PassedOver`) and, while no name
has a comma, that nothing else has (`NothingElse`). `Fronted` says what the list looks
like: the names with a comma first, the files after them in order, so that the cookie
of a file finds it again however many names were put in front. `Taken` is the lemma
about one page.

`VcfsdProofs`, for every project, log, number of mishaps and of restarts:

- `ContentCorrect`: `Spec => []ContentOwn`
- `TableCorrect`: `Spec => []TableOwn`
- `LagCorrect`: `Spec => []LagBounded`
- `StopsAreExplained`: `Spec => []StopsExplained`

The first two and the last need `InStep`: while no mishap took place, what the server
owes is exactly the answer to the call that waits, and nothing when none does.
`LagCorrect` rests on another count: each answer that is owed has one end, and each
mishap leaves at most one end behind.

`CvsToolProofs`, for any number of users, calls and copies of a request, and any lines
of `cvs status -v` in any order:

- `ToolTypeCorrect`: `Spec => []TypeOK`
- `UpdatesStand`: `Spec => []SuccessStands`
- `ListingsStand`: `Spec => []ListingStands`

`SuccessStands` and `ListingStands` are not inductive: a copy of an earlier call that is
still in the socket would undo the update. `Settled` adds that when a call is answered
there is none left (`NothingOlder`), which follows from `Copies`: the copies are read in
the order of their calls, so one of the last call is read behind all others. Each
request that is lost or read leaves the others in their order (`Thinned`).

`TextProofs`, about the two parsers; for every `.cvspass`, table of `scramble`,
password and account:

- `PassOwnPassword`: `PassSpec => []OwnPassword`

and for every log, with any messages, cut at any line that ends in `ok`, every number
of characters kept, and every caller (`LogAssumption`):

- `LogSafe`: `LogSpec => []OrdinaryIsSafe`
- `LogDatesOwn`: `LogSpec => []DatesOwn`
- `LogLsverExact`: `LogSpec => []LsverExact`
- `LogValidRight`: `LogSpec => []ValidRight`

`PassInv` says that the lines left are as clear as the file's, and that the password
found so far is none or the own one. `LogInv` says where the parser stands: the log is
`Laid` out, its revisions at positions of their own, each with its date behind it, and
any other line that looks like a revision written by a user, and behind it a date only
if a user pasted both (`Pasted`); the parser has `Left` the rest of it; each entry
was `Drawn` from a line that looks like a revision, no revision
in front of the parser was missed (`Visited`), and without such lines in messages the
entries are the revisions in their order (`InOrder`). That every log is laid out
(`LogLinesLaid`) has to be shown of `FlattenSeq`, which joins its parts: `AllNumbers`,
from well-founded induction over the natural numbers, gives each part an offset
(`FlattenedHas`). The proof found that `ValidRight` had been stated too narrowly: what
is kept of a long number that a user quotes can be looked up too. `Texts_both` now has
such a message.

Only model-checked: all liveness (`RequestEnds`, `ListingEnds`, `StartUpEnds`,
`Served`), as the prover has no rule for fairness and ENABLED. Each other property of a
passing run is a theorem as it is stated there, with the exceptions that it states, and
the instances of the runs satisfy the theorem's hypotheses.

## Disagreements between the code and what it says

Shown by a run that finds the violation:

- `SequentialReaders_two`: two clients that read two large files make `memcpy`
  copy a negative length (vcfs_fh.c:678; vcfs.h:72-74).
- `CvsResp_tardy`: after a time-out the late answer is taken for the answer to
  the next request (cvs_cmds.c:211; cvs_cmds.c:99).
- `Readdir_twice`: extended names make files appear twice in a listing
  (vcfs_nfs.c:496; vcfs_nfs.c:495).

Met while modelling and not kept as runs. Each can be seen by the change given:

- An extended name is answered with the size of the loaded
  revision, so a longer revision is cut and a shorter one padded, until its first
  READ corrects it (vcfs_fh.c:314; RELEASE_NOTES:45-47). State in `SizesOwn` that
  the size is `Repo[p][ventry[i].ver]`.
- A line of `.cvspass` after the matching one overwrites what was found, although the
  loop is there to find it (vcfs.c:298). Let it be the own line that is followed by
  another, and state `pword = Found(Secret[Own])` when `step = "ask"`.
- A password whose scrambled form has an `A` in it is sent without what is in front of it
  (vcfs.c:274). Drop the second part of `Clear`.
- A message line that begins with "revision" is taken for a revision: it can be
  looked up, is listed, and stops the daemon when nothing follows the word
  (cvs_cmds.c:552-578). Drop `Ordinary` from `OrdinaryIsSafe`.
- A log that is pasted into a message gives a revision the date and author of
  another one (cvs_cmds.c:578-599). Drop the second case of `DatesOwn`.
- A message on the error stream of the checkout becomes a directory, or stops the
  daemon when it is short (vcfs_fh.c:453-463, with a TODO). State in `LoadedExactly`
  that `Loaded` has no item of `Messages`.
- A READ behind the end of a file that was updated to a shorter revision gives `memcpy`
  a negative length (vcfs_fh.c:678-681). State `NoFault` in `ReadCache_small`.
- A revision that somebody has locked cannot be looked up, as the tab and the rest of
  its line count as its number (cvs_cmds.c:566). Drop `locked` from `Unlocked`.
- Of a revision sixteen characters are kept: a longer one cannot be looked up, and
  what is kept of it can (cvs_cmds.c:566). State `Valid <=> asked \in Versions(history)`.
- Every file, directory and looked-up revision takes one of 8192 vinodes for
  good; the next one stops the daemon (vcfs_fh.c:90-91, "Shouldn't happen!").
  `FileTable_restart` reaches it; state `phase # "Ran out of vinodes"`.
- A handle from before a restart fails the assertions at vcfs_fh.c:569 and
  vcfs_nfs.c:391, which stops the daemon. State `phase # "bad filehandle"`.
- `cvstool update` of a directory stops the daemon (cvstool_proc.c:255). State
  `serving` as an invariant of `CvsTool_own`.
- A plain file longer than one chunk and no longer than two overruns the cache
  (vcfs_fh.c:647). Give `"plain"` the length 9 in `MCSequentialReaders`.
- After `cvstool update` the cache still answers with the earlier revision
  (vcfs_fh.c:580). State that the reply holds the bytes of `ver[reply.file]`.
- A second pass over a large file that begins in front of the chunk in the cache
  is answered from a negative index (vcfs_fh.c:599). Let `Open` take the same
  file again.
- A line that ends in `ok` where a segment ends is taken for the end of the
  response, and an `ok` line that is cut between segments is not recognised
  (cvs_cmds.c:139). Drop `clean` from `OwnResponse`, or `cut` from `TornOnlyWhenCut`.
- `recv` returning 0 is not an end: the daemon loops until it is killed
  (cvs_cmds.c:231). Drop `conn = "closed"` from `RequestEnds`.
- A tag is looked for in the whole line (cvstool_proc.c:336), so an update finds a
  newer tag that contains it, or takes "rev" or "1.1" out of "(revision: 1.1)"; the
  comment above it names "revision" and "branch" only. State in `SuccessStands` that the
  line's text is the tag.
- A branch number is copied like a revision (cvstool_proc.c:343-354), and then asked
  for. State in `Held` that `ver` is a revision of the log.
- A tag whose text occurs in a line without a number ("ok", "No Tags Exist") stops the
  daemon (cvstool_proc.c:344, "Weird response from cvs status -v"). State `serving`.
- An update without a path, or with `-v`, reports the status of an earlier one
  (cvstool_proc.c:278, cvstool.c:528). State for updates with option `"ver"` that a
  successful one leaves the file at `command.ver`.
- `lsver -p` of a file with one revision shows that revision as its predecessor
  (cvstool_proc.c:209), and on a branch the second entry is not the predecessor
  (RELEASE_NOTES:43). State in `LsverExact` that `Replied` is empty for one revision.
- Two users who update the same file: a repeated request of the first undoes the
  update of the second after it was reported. Give both the same commands.
- One answer that a call did not take garbles those after it: the cache, names
  and dates take over what was meant for another file (cvs_cmds.c:211). Drop
  `mishaps = 0` from `ContentOwn` and `TableOwn`.
- "the versions of each file are fixed until you reload the repository"
  (RELEASE_NOTES:76-78) is older than `cvstool update`, which changes them.

## What is not modelled

- The wording of the requests, and the layout of the responses beyond the lines that
  the parsers look at.
- gzip headers and errors of zlib; the byte past the revision that `strncpy` may leave
  unterminated, and revisions that overrun the 16 bytes that callers have for them.
- rpcgen's code. The models take one decoded request at a time. Registering the
  services with the portmapper, which works or ends the program.
- `nfsproc_getattr_2`, `nfsproc_statfs_2` and the stubs of the operations that
  change a file system: they change no state. The byte count of a READDIR: a page
  has a fixed number of entries, as in the code.
- Two messages of the checkout that say the same from column 23 on: they would make two
  entries of one name. A name with two commas in a LOOKUP.
- A READ of a directory's handle, an update of a name with a revision, and branch
  numbers at a tag, in `Vcfsd`: `FileTable` has the first, `CvsTool` the others. A late
  answer of another kind, such as a log, in which `cvstool_validate_tag` finds a line
  with "Tags:".
- The author of a revision apart from its date: a `date:` line with one semicolon, which
  sets the date only, counts as none.
- The users' identity and the check of the sender's address.
- cvstool's options, its search for the mount point and its printing; answers of `ls`
  too large for a datagram.
- Memory exhaustion, the limits of the fixed name buffers, and names that are not
  ASCII, whose sum may be negative.

## Plan

1. Done: `FileTable` with `Handles`, the core, and its proofs; `BuildProject`, whose
   parser implements its loading; `ReadCache` with `SequentialReaders`; `Readdir`;
   `CvsResp`, proved to implement `Connection`; `CvsTool`; `CvsLog` and `CvsPass`;
   `Vcfsd`, the composition over `Connection`. The theorems: each invariant and action
   property that a passing run checks, and the refinements.
2. A module to come: `Inflate` (the loop over zlib's calls, implementing `Inflated`).
3. Theorems to come: those of `Inflate`.

## How to run

    tlc -workers 2 -config BuildProject_serve.cfg MCBuildProject
    tlapm TextProofs.tla

Each `.cfg` names its specification; `PROJECT.json` says which module it goes
with and maps every definition to the lines it models.
