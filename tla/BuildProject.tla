----------------------------- MODULE BuildProject -----------------------------
(***************************************************************************)
(* The start of vcfsd, from the login to svc_run: main (vcfs.c), the       *)
(* requests expand-modules and co, and the parser of vcfs_build_project    *)
(* (vcfs_fh.c) that makes the file table from the response to co.          *)
(*                                                                         *)
(* The response is a sequence of units: a line of the protocol is one, and *)
(* so is a byte of a file.  A file may contain anything, so a byte is      *)
(* given as the line that the parser would see if it began a line there.   *)
(* The file table, and what happens when it is served, is FileTable's.     *)
(***************************************************************************)
EXTENDS FileTable

CONSTANT Response   \* the responses to co that the server may give

Unit == [type : {"E", "short", "M", "created", "repo", "entry", "mode", "size", "ok", "x"},
         path : Path,            \* what an E line says from column 23 on, and an
                                 \* M line from column 4
         ver : Version \cup {NoVersion},
         sent : Nat, full : Nat, \* size line: bytes that follow, and inflated
         gz : BOOLEAN,           \* size line: does it begin with z?
         ok : BOOLEAN]           \* do its last characters read "ok"?

\* A response is [text, begin]: its units, and the places where its items, each
\* a directory, a message or a file, begin; the last place is behind them.
Items(r) == 1..(Len(r.begin) - 1)

\* Of the six lines of a file the fourth has the revision, the last the size.
EntryLine == 4
SizeLine == 6

ItemLine(r, i, n) == r.text[r.begin[i] + n - 1]
ItemName(r, i) == ItemLine(r, i, 1).path

\* The items fill the text: a directory and a message are a line, a file is its
\* lines and bytes.
Filled(r) ==
    /\ r.text \in Seq(Unit)
    /\ r.begin \in Seq(1..(Len(r.text) + 1)) /\ r.begin # <<>>
    /\ r.begin[1] = 1 /\ r.begin[Len(r.begin)] = Len(r.text) + 1
    /\ \A i \in Items(r) :
          LET length == r.begin[i + 1] - r.begin[i] IN
          \/ ItemLine(r, i, 1).type \in {"E", "short"} /\ length = 1
          \/ /\ ItemLine(r, i, 1).type = "M" /\ length >= SizeLine
             /\ length = SizeLine + ItemLine(r, i, SizeLine).sent

\* They are directories and files of the repository, each listed once, behind
\* the directory that it is in, and messages on the error stream, no two of
\* which say the same from column 23 on.  A message is an E line like that of a
\* directory, or "short" when it does not reach that column.  Nothing is said of
\* the bytes of the files.
Lists(r) ==
    \A i \in {j \in Items(r) : ItemLine(r, j, 1).type # "short"} :
        LET p == ItemName(r, i) IN
        /\ \/ ItemLine(r, i, 1).type = "E" /\ p \in Dirs \cup Messages
           \/ LET size == ItemLine(r, i, SizeLine)
                  v == ItemLine(r, i, EntryLine).ver
              IN /\ ItemLine(r, i, 1).type = "M"
                 /\ p \in DOMAIN Repo /\ v \in DOMAIN Repo[p]
                 /\ size.full = Repo[p][v]
                 /\ size.gz \/ size.sent = size.full
        /\ \A j \in 1..(i - 1) : ItemName(r, j) # p
        /\ \/ p \in Messages
           \/ Front(p) \in ModuleDirs \cup {ItemName(r, j) : j \in 1..(i - 1)}

ASSUME ResponseAssumption == \A r \in Response : Filled(r) /\ Lists(r)

VARIABLES
    stage,     \* "connect", "load", or how the start-up failed
    co_buff,   \* what is left to parse of the response to co
    response,  \* history: the whole response
    cut        \* history: was the response taken for complete too early?

startup == <<stage, co_buff, response, cut>>

OkUnit == [type |-> "ok", path |-> <<>>, ver |-> NoVersion, sent |-> 0,
           full |-> 0, gz |-> FALSE, ok |-> TRUE]

\* The first line of the response names the module and is swallowed, the last
\* one is ok.
Whole(r) == <<OkUnit>> \o r.text \o <<OkUnit>>

NoResponse == [text |-> <<>>, begin |-> <<1>>]

BuildInit ==
    /\ Init
    /\ stage = "connect" /\ co_buff = <<>> /\ response = NoResponse /\ cut = FALSE

-----------------------------------------------------------------------------
(* main and cvs_pserver_connect. *)

\* The server answers "I LOVE YOU" or "I HATE YOU"; the third character of what
\* the first recv brings decides.
Connect ==
    /\ stage = "connect"
    /\ stage' \in {"load", "exited"}
    /\ UNCHANGED <<vars, co_buff, response, cut>>

\* The response to expand-modules does not come, and the NULL is dereferenced;
\* or it names no directory, and main prints a message and exits.
ExpandFails ==
    /\ stage = "load" /\ phase = "expand" /\ count = 0
    /\ stage' \in {"crashed", "exited"}
    /\ UNCHANGED <<vars, co_buff, response, cut>>

Expand ==
    /\ stage = "load"
    /\ ExpandRoot \/ ExpandDir
    /\ UNCHANGED startup

\* The response to co does not come: main prints a message and exits.
CheckoutFails ==
    /\ stage = "load" /\ phase = "expand" /\ count = Len(ModulePath)
    /\ stage' = "exited"
    /\ UNCHANGED <<vars, co_buff, response, cut>>

\* cvs_get_resp returns the response, or a part of it that ends in "ok" like
\* the whole.  The first line is swallowed.
Checkout(r) ==
    /\ stage = "load" /\ CheckoutBegin
    /\ \E n \in 1..Len(Whole(r)) :
          /\ Whole(r)[n].ok
          /\ co_buff' = SubSeq(Whole(r), 2, n)
          /\ cut' = (n < Len(Whole(r)))
    /\ response' = r
    /\ UNCHANGED stage

-----------------------------------------------------------------------------
(* The loop of vcfs_build_project. *)

Parsing(type) ==
    /\ stage = "load" /\ phase = "checkout"
    /\ co_buff # <<>> /\ co_buff[1].type = type

Dropped(n) == SubSeq(co_buff, n + 1, Len(co_buff))

\* A ventry and a fileid are made, unless there is no vinode.
Made(p, type, size, ver) ==
    \/ Alloc(p, type, size, ver) /\ UNCHANGED <<phase, count, boot, handles>>
    \/ OutOfVinodes /\ Fail("Ran out of vinodes")

\* An E line, which is taken for the name of a directory, whatever it says.
ParseDir ==
    /\ Parsing("E")
    /\ Made(co_buff[1].path, "NFDIR", DirSize, NoVersion)
    /\ co_buff' = Dropped(1)
    /\ UNCHANGED <<stage, response, cut>>

\* One with nothing in column 23: strncpy is told a negative length.
ParseShort ==
    /\ Parsing("short")
    /\ stage' = "crashed"
    /\ UNCHANGED <<vars, co_buff, response, cut>>

\* An M line begins a file: two lines are skipped, the fourth has the revision,
\* one is skipped, the sixth has the size.  A line that is not there leaves
\* the pointer to the line before, which was freed.
LinesMissing == Len(co_buff) < SizeLine

\* gzipped bytes that are not there are read all the same.
BytesMissing ==
    ~LinesMissing /\ co_buff[SizeLine].gz /\ Len(co_buff) < SizeLine + co_buff[SizeLine].sent

ParseTorn ==
    /\ Parsing("M")
    /\ LinesMissing \/ BytesMissing
    /\ stage' = "undefined"
    /\ UNCHANGED <<vars, co_buff, response, cut>>

\* Fault: the bytes of a gzipped file are counted after inflating.
FileLength_Inflated == co_buff[SizeLine].full

\* The bytes of the file, as they were sent, are skipped.
FileLength == co_buff[SizeLine].sent

\* Fault: the size that was sent is the size of the file.
FileSize_Sent == co_buff[SizeLine].sent

\* The size of the file after cvs_zlib_inflate_buffer, if it is gzipped.
FileSize == IF co_buff[SizeLine].gz THEN co_buff[SizeLine].full ELSE co_buff[SizeLine].sent

ParseFile ==
    /\ Parsing("M")
    /\ ~(LinesMissing \/ BytesMissing)
    /\ Made(co_buff[1].path, "NFREG", FileSize, co_buff[EntryLine].ver)
    /\ co_buff' = Dropped(SizeLine + FileLength)
    /\ UNCHANGED <<stage, response, cut>>

\* Fault: the cookie moves for the lines that are used only.
ParseOther_Stay ==
    /\ stage = "load" /\ phase = "checkout"
    /\ co_buff # <<>> /\ co_buff[1].type \notin {"E", "short", "M"}
    /\ UNCHANGED <<vars, startup>>

\* Any other line is read and forgotten.
ParseOther ==
    /\ stage = "load" /\ phase = "checkout"
    /\ co_buff # <<>> /\ co_buff[1].type \notin {"E", "short", "M"}
    /\ co_buff' = Dropped(1)
    /\ UNCHANGED <<vars, stage, response, cut>>

\* The buffers are freed, and main calls svc_run.
ParseEnd ==
    /\ stage = "load" /\ co_buff = <<>> /\ CheckoutEnd
    /\ UNCHANGED startup

-----------------------------------------------------------------------------

Loading ==
    \/ ExpandFails \/ Expand \/ CheckoutFails
    \/ \E r \in Response : Checkout(r)
    \/ ParseDir \/ ParseShort \/ ParseFile \/ ParseTorn \/ ParseOther \/ ParseEnd

Serve == stage = "load" /\ Request /\ UNCHANGED startup

BuildNext == Connect \/ Loading \/ Serve

\* The recv of the login waits as long as it takes; after that the thread runs
\* by itself, and waits for a response for ten seconds at most as long as the
\* server keeps the connection open (RequestEnds of CvsResp).
BuildSpec ==
    /\ BuildInit /\ [][BuildNext]_<<vars, startup>>
    /\ WF_<<vars, startup>>(Loading)

-----------------------------------------------------------------------------
(* Properties. *)

\* What an item of the response says of its directory or file, and what becomes
\* of a message: an empty directory that is in none.
ItemEntry(i) ==
    LET p == ItemName(response, i) IN
    IF ItemLine(response, i, 1).type = "M"
    THEN [name |-> p, type |-> "NFREG", size |-> ItemLine(response, i, SizeLine).full,
          ver |-> ItemLine(response, i, EntryLine).ver]
    ELSE [name |-> p, type |-> "NFDIR", size |-> DirSize, ver |-> NoVersion]

FirstItems(n) == {ItemEntry(i) : i \in 1..n}

\* What the table holds below the module.
Loaded ==
    {[name |-> ventry[i].name, type |-> ventry[i].type, size |-> ventry[i].size,
      ver |-> ventry[i].ver] :
        i \in {j \in DOMAIN ventry : ventry[j].name \notin ModuleDirs}}

\* While the response is parsed the table holds the first items of it, each
\* with its own type, size and revision, and nothing that a file contains; when
\* it is used up the table holds all of them, unless it was cut.
LoadedExactly ==
    stage = "load" /\ phase = "checkout" =>
        /\ \E n \in {0} \cup Items(response) : Loaded = FirstItems(n)
        /\ co_buff = <<>> /\ ~cut => Loaded = FirstItems(Len(response.begin) - 1)

\* A response that is complete is parsed without reading a freed line.
TornOnlyWhenCut == stage = "undefined" => cut

\* Once the login is done the start-up ends: the project is served, or the process is gone or hangs.
Started ==
    \/ phase \notin {"expand", "checkout"}
    \/ stage \in {"exited", "crashed", "undefined"}

StartUpEnds == stage = "load" ~> Started

\* The parser implements the loading actions of FileTable, which know nothing
\* of lines: what it creates is new, and below a directory that is there.
ImplementsTable == Spec
=============================================================================
