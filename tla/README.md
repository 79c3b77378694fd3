# Specifications of rman

This directory holds TLA+ specifications of [rman](../src/README.md), a set of
tools that download, cut, store and mount files described by manifests. They
are translated from the C++ under `src/lib/rlib` (the library) and `src/src`
(the tools). The repository has no tests; what the code promises is taken from
its assertions, its comments and the help texts in its README.

## The system

A **manifest** lists files; a file is a list of **chunks**, each known by the
hash of its data (`chunkId`). Compressed chunks are stored in **bundles**, on a
content server or in a local **cache**. A chunk has an offset in a bundle and
an offset in a file.

| Part | Source | State it keeps | Operations | What is hard |
|---|---|---|---|---|
| bundle format | `rbundle`, `rchunk` | bytes of a file: data, table of contents, footer | read from the end, look up | a half overwritten end |
| chunk cache | `rcache` | numbered parts; writer offsets, buffer, lookup | open, add, get, flush, roll over, close | kills between and inside writes, failed writes, reads from file or buffer |
| content server client | `rcdn` | queue, failed chunks, workers with a rest buffer, retries | get, get_into | fragmented and interleaved bodies, short and wrong ones, exceptions in callbacks |
| rman-dl | `rman_dl` | the file on the disk | verify, resize, fetch, write | killed runs, partial writes, repeated runs |
| rman-remake | `rman_remake` | resume file and its buffer, output bundle, manifest | restore, cut, save, write | two buffers written at different times |
| rman-mount | `rman_mount`, `rdir` | the tree, a chunk kept per thread, the cache | parse, open, list, read, release | order without case, equal and nested paths, threads, failed fetches, ranges |
| SIGINT protection | `iofile` | `lock_`, `count_` | guard, handler, exit | races without a mutex, destructors run by `exit` |
| chunkers | `ar`, `ar_*` | the entries still to process | recognise, split, cut | nesting, overlaps, errors half way |
| rman-make, rman-chk | `rman_make`, `rman_chk` | output bundle, output manifest | cut, add, write; check | exceptions half way |
| manifest files | `rfile`, `rmanifest` | lines of a file, or tables | read, write, append | three formats, half lines, writes that fail unnoticed, tables that refer to each other |
| rman-merge, rman-diff | `rman_merge`, `rman_diff` | cache of lists, entries of the first input | one pass over each input | inputs that are outputs, stripped entries |
| rman-ls, rman-bl | `rman_ls`, `rman_bl` | – | print entries, or bundles | – |
| rman-rads | `rman_rads`, `rads_rls`, `rads_sln` | entries by path | find release manifests, follow them | ranges, circles, names in any case, missing parts |
| bundle tools | `rbun_merge`, `rbun_ex`, `rbun_chk`, `rbun_ls` | output cache, output directory | one pass over each bundle, some with threads | half overwritten tables, files begun and not written |
| rbun-usage | `rbun_usage` | – | add up sizes | – |

How they interact: `rman-dl` and `rman-mount` ask the **client** for chunks, it
asks the **cache** first and puts there what it fetched; its callback writes to
the file (`rman-dl`) or to a buffer (`rman-mount`). `rman-make` and
`rman-remake` cut files with the **chunkers** and put the pieces in a cache used
as output bundle. The cache and the resume file write under the **SIGINT
protection**. The client and curl run on one thread; the threads are those of
`rman-mount`, and the signal handler.

`PROJECT.json` lists the hazards, each at its line with the properties that
would show it.

## The modules

| Module | Models | Uses |
|---|---|---|
| `RBundle` | the bundle format, operators only | |
| `RCache` | the chunk cache, one step per system call | `RBundle`, implements `ContentStore` |
| `ContentStore` | what a chunk cache promises | |
| `RCDN` | `RCDN::get`, one step per call of a callback's loop | implements `Delivery` |
| `Delivery` | what `RCDN::get` promises | |
| `Download` | `rman-dl` over one file and any number of runs | `Delivery` |
| `Remake` | `rman-remake` over any number of runs | `ContentStore` |
| `RDir` | the directory tree of `rman-mount`, operators only | |
| `Mount` | `rman-mount`: parsing, opening, listing, reads of several threads | `RDir` |
| `NoInterupt` | the guard around writes and the SIGINT handler | |
| `Ar` | how a file is cut into chunks: state and actions | |
| `Make` | `rman-make`, and the check of `rman-chk` | `Ar`, `ContentStore` |
| `RManifest` | the binary manifest and `RMAN::read`, operators only | |
| `Rads` | the release manifests and `RLS::read`, `SLN::read`, operators only | `RManifest` |
| `Manifest` | manifest files, and `rman-merge`, `rman-diff`, `rman-ls`, `rman-bl`, `rman-rads`, the choice of files of `rman-dl`, over several runs | `Rads` |
| `Bundles` | `rbun-merge`, `rbun-ex`, `rbun-chk`, `rbun-ls` over several runs | `RBundle` |
| `MC*` | constants for TLC | |
| `RCacheProofs`, `RCDNProofs`, `DownloadProofs`, `RemakeProofs`, `MountProofs`, `ManifestProofs`, `BundlesProofs`, `MakeProofs` | theorems about the module of that name, and their proofs; those about `NoInterupt` are in `MakeProofs` | |

### RBundle and RCache

A file is a sequence of cells: a cell of a chunk's data, one per entry of the
table of contents, one for the footer. The footer carries the table it was
computed from, which stands for its checksum; `Accepts` is the conjunction of
the assertions of `RBUN::read`. Chunk ids stand for contents, compression and
hashes are ideal.

In `RCache` the variables are the fields of the class (`tocOffset`,
`endOffset`, `chunks`, `buffer` of `writer_`; `lookup`; the size of the last
part as the open file knows it) and the disk. The mutex of the cache makes a
call one step for other threads but not for the disk, so a call that writes is
a sequence of steps, one per system call, and `pc` says which comes next:
`Add`, then perhaps the flush of a full part, `CreatePart` and the flush that
gives it a footer, then `AppendChunk` and perhaps a flush. The process may be
killed between any two steps (`Kill`), inside a write (`TornWrite`), or a write
may fail and leave the process running (`FlushFails`), in which case the table
and the footer stay in the buffer as they do in the code. What that costs is told
by `ReadStable` for this process and by `FirstRight` for the next.

### RCDN and Delivery

One thread runs `get`; between two steps of a callback nothing else happens,
which `callback` expresses. `Start` takes the longest run of adjacent chunks of
the sorted queue and chooses the body that will arrive: the range, a part of
it, an error text of any length, or too much. `RecvData` hands over any number
of cells; `Keep`, `TakeChunk`, `BadFrame`, `TooMuch` are the iterations of the
loop in `recieve`; `TakeThrows` is an exception of the cache or the caller.

### Download

Built on `Delivery`: `get` delivers wanted chunks in any order and returns at
some time. The file on the disk is the only state that survives a run. `Verify`
hashes it, `Open` resizes it, `Deliver` writes a chunk, `DeliverFails` and
`Kill` may leave part of one.

### Remake

Built on `ContentStore` for the output bundle. The resume file, its buffer and
its entries in memory are variables of their own; `Save` writes the buffer when
it is full, `CloseResume` and `Close` are the destructors in their order, `Kill`
loses both buffers and may cut a write. A write of the bundle that fails is an
exception (`AddFails`), after which `~RCache` writes again; when that fails too the
process dies, which `Kill` does as well. A write of the resume file that fails goes
unnoticed (`rman_remake.cpp:92`): the buffer is emptied, and the next write goes to
the end as the open file knows it (`size`), over what the failed one left.
`mixed` is TRUE once an entry is made of the bytes of two; only then are the
properties not asked.

### RDir and Mount

A tree is a function from keys to entries; a key is the sequence of lowered
names that lead to the entry. `Built` is one call of the function `builder`
gives, `Find` is `find`. `Lower` gives names their place in the order of
`str_lt_ci`; two spellings of a name have the same.

`Mount` parses the files of the manifests one by one (`Parse`); which list of
chunks an entry shares is in `eager`. Then threads open entries (`OpenFile`,
`OpenDir`), list directories in pieces (`ReadDir`, the offset is that of
`filler`), and read: `Read` cuts the range to the file and finds the chunks
that overlap it, `ReadWhole` fetches a chunk into the caller's buffer,
`ReadPart` into the thread's own, `ReadLast` uses what the thread kept.
`GetInto` is `RCDN::get_into` by what the server may answer. The count of open
files and the weak pointer in `RDirEntry::Chunks` are left out: they decide only
whether a list is loaded again.

### NoInterupt

Constructor and destructor of the guard are two steps each, the look at `lock_`
and the change of `count_`; a write is several pieces; the handler is three
steps and stops the thread it runs on. The write mutex of the cache is the
guard `\A u : pc[u] = "out"`.

### Ar and Make

`Look` is the processors, tried in turn on a header chosen when it is read;
each `Try...` has the checks of its processor and gives an error, an exception,
or the set of its members. `Cut` is `process_iter`: it sorts the members and
goes over them, which is to take again and again the first one of those that
begin where the file is cut up to, or behind (`NextOf`, of `Left`). `std::sort`
leaves the order of members with the same offset and size open, and so does the
choice in `NextOf`. `Emit` is one call of the callback.
Only the members of a zip are taken to lie behind its start (`Behind` in `MCMake`,
as `miniz` gives them); those of the other kinds lie anywhere.

`Make` puts the actions of `Ar` together with what `rman-make` does in its
callback and around it: the chunk goes to the bundle (`AddChunk`), the list of
the file (`AddList`), the entry to the manifest (`Write`), and at the end or
after an exception the bundle is closed (`Close`). A write of the bundle that
fails (`AddChunkFails`, `AddListFails`) is an exception too, with what was to be
written still in the buffer (step `rewrite`): `~RCache` writes it again, which may
fail and end the process inside a destructor (`CloseFails`, step `died`).
`VerifyFile` is that of
`rman-chk`.

### RManifest, Rads and Manifest

A binary manifest is a record of sequences of rows, where a row may lack
fields, as a table of the format may. `Parse` resolves ids, indices and bits as
`RMAN::read` does, or refuses all of it: `Path` walks up the directories,
`Sources` gives each chunk its place in the last bundle that has it, `Chunks`
its place in the file. `ReadRls` and `ReadSln` read the release manifests of
`rman-rads`: `Parent` is `folder_parents` and `file_parents`, `FileName` the walk up
the folders, `Circular` what `visited` finds, `LangsOf` the languages of a project.

A manifest is a form, a sequence of lines (or the tables), and whether the last
line is ended; a write that is cut leaves half a line, and the next program goes
on behind it (`After`, `HalfAfter`). The result of a write is never looked at
(`rfile.cpp:194`, `198`): after one that failed (`Fails`) the program goes on from
the end as the open file knows it, so that the next line covers what was left, or
some of it stays behind (`rest`, `OnDisk`). `ReadFile` is `RFile::read_file` for the
three forms and gives the entries the callback is called with and whether an
error follows them.

The programs run one after the other on the same files, so that inputs may be
torn, outputs of others, or the output itself; one step is one call of the
callback of `read_file`, or one file downloaded or written. `rman-dl` keeps what
it chose by the filters and `--update` in `chosen` and downloads it file by file,
each with the outcomes `Download` has for one file. `rman-rads` collects the input
by path (`RadsEntry`), opens bundle and output and follows the release manifests
(`Release`, whose reads nothing can change between its writes), and writes
(`WriteFile`); without a bundle it takes a directory out (`SplitEntry`).

An entry's `data` stands for its chunks and for the hash of them that is its
`fileId`; that two manifests made by others give the same file the same `fileId` is
an assumption. `Cli.cache` stands for `--strip-chunks` with a cache; stripping
without one loses the lists, as it is told to.

### Bundles

The inputs are files as in `RBundle`, sound, damaged by the disk, or half
overwritten by a writer that was killed. One step is
one row of the table (`Check`, `Add`, or `OpenChunk` and `WriteChunk`), which all
programs but `rbun-ls` read without its checksum. The output of
`rbun-merge` is what `ContentStore` promises of a cache, with what a kill may leave
of it, until a write fails. `rbun-merge` catches that exception and goes on adding
(`AddThrows`): `gap` says whether a table was left in the part that is written, and
what is added behind it is `Shifted`, not where a later process looks for it. The
output of `rbun-ex` is a directory whose files exist before they are written and
whose writes may fail unnoticed (`rbun_ex.cpp:95`). `rbun-chk` runs several
threads, each over every n-th input; they share nothing but the list of verdicts. A
bundle is sound if its table has nothing but entries, and their data lies where the
sizes before them say, before the table.

## The runs

Bounds are in the `.cfg` files and the `MC` modules.

| Run | Question | Bounds, and why they are enough |
|---|---|---|
| `RCache` | Is the cache right over all histories with kills between and inside writes, and with writes that fail, does it open again, and what does a failed write cost? | 4 chunks of sizes 1, 2, 5, 8 over at most 4 parts, 1 failed write; a part holds two or three, one chunk fills a part alone and one is larger than a part may be, and every flush point is reached in first, new and reopened parts |
| `RCDN` | Is every place delivered once and right, or returned; does `get` return and implement `Delivery`? | 2 workers, 3 chunks in 2 ranges with a gap, one used twice, some cached, 2 rounds, 1 exception |
| `Download` | Does OK! mean right, is nothing destroyed, do repeated runs converge? | 4 places, 3 chunks, 5 old files, every option, any number of runs |
| `Remake` | Is what the manifest names in the bundle, and what is restored what was saved? | 4 files, 2 chunks, 3 runs, 1 of them killed, 2 failed writes of the resume file, so that one may go over what the other left; resume buffer of 2 entries |
| `RemakeUnstripped` | … without `--strip-chunks`? **No** | no kill |
| `Mount` | Is the tree right, do listings and reads return what the manifests say? | 2 manifests of 4 and 5 files with 3 names in both cases, 3 files, 2 threads, 3 chunks of sizes 2, 3, 1, 3 ranges |
| `MountShort` | … when a body ends early in order? **No** | the same |
| `NoInterupt` | Is a write ever cut, does it end? | 2 writes of 3 pieces, 3 signals; one thread, or two with a main thread that has the cache to destroy |
| `Make` | Are the entries the files, is the bundle complete, does cutting end? | files of 5, 0 and 1 cells, up to 2 members anywhere, over the header and the whole archive too, nested, all kinds of archive, fixed and content defined sizes; any write of the bundle may fail |
| `Manifest` | Is what was written read, and nothing else; are binary manifests read right; are merge, diff, update and `rman-rads` right? | 4 manifests, 2 programs out of some 60, 1 kill or failed write, 3 lines in a manifest that is cut; binary manifests that differ from the first in a row or two, and releases of 16 projects and 7 solutions that differ likewise, each for one program |
| `Bundles` | Is what is merged or extracted right, and all that is sound; does `rbun-chk` tell? | 23 inputs of up to 3 chunks in every state a writer or a disk leaves, and a sound one; all flags, 2 threads, 2 programs, 1 kill, 1 failed write of the cache or of a file |
| `ManifestBlake3` | … with the last hash type? **No** | one entry |

The runs that are expected to find a violation are disagreements between the
code and what its documents or assertions say; `PROJECT.json` quotes both.

Other behaviours met while modelling, which no run asserts; the properties name
the case they except:

- `exit` called by the handler of `SIGINT` destroys the cache of `rman-mount`,
  whose flush waits for the `lock_` that the handler holds: the process hangs
  (`Hangs` in `NoInterupt`).
- A failed flush leaves the table of contents and the footer in the buffer
  (`rcache.cpp:226`). The process still reads right (`ReadStable`), but if it goes
  on adding, its next flush writes a part that passes `RBUN::read` and points at
  wrong bytes: without its `fails = 0` `RefusedOrRight` fails. `FirstRight` says
  what is left: all that lies before the first such table. `rbun-merge` is a
  program that goes on: it says `FAIL!` of the input at hand, then `OK!` of others whose
  chunks a later process does not find (`Shifted` in `Bundles`).
- When `~RCache` cannot write either, the process dies in the destructor
  (`std::terminate`), over a table that may be half overwritten (`CloseFails` in
  `Make`).
- A fat Mach-O file may name itself as a member: `ar_mac.cpp:125` and `141` ask only
  that a member lies in the archive, where `ar_load.cpp:50` asks that it lies behind
  the header. `rman-make` then cuts it again, one call deeper each time, until the
  stack is full (`Circles` in `Make`; without it `MakeEnds` fails).
- After a killed run of `rman-remake` the resume file may know files whose
  chunks were lost with the buffer of the bundle; a later run puts them in the
  manifest (`ManifestReadable` excepts restored files after a kill).
- `--cdn-retry` is the number of all attempts, not of retries: 0 fetches nothing.
- An archive that ends inside its table of contents ends `rman-make` with an
  exception although `--ar-strict` was not given (`AssertFails` in `Ar`), since
  `ar_load`, `ar_pe` and the fat part of `ar_mac` use `rlib_assert` there.
- A manifest begun with `--append` has no header and cannot be read (`sound` in
  `Manifest`).
- The writes of a manifest may fail without any program noticing: it ends with
  success, and the files are not in the manifest (`missed` in `Manifest`).
- A binary manifest whose chunks add up to less than the size of a file is read
  (`rmanifest.cpp`, `<=`), but its line in a text manifest is refused
  (`rfile.cpp:101`, `==`).
- `rbun-chk` takes `--no-extract` for `--no-hash` and the other way round
  (`rbun_chk.cpp:39`, `40` against the help at 25 and 28); `NoHash` and `NoExtract`
  in `Bundles` follow the code.
- With `--update`, `rman-dl` compares each file with the last of its path in the
  older manifest; a path that the newer lists twice may be left with either
  (`UpdateComplete` is about paths listed once).
- `rman-rads` without a bundle takes the release for the beginning of a path, where
  the help (`README.md:274`) says regular expression. The paths of a release are
  matched by whole names in the model.
- `rads_rls.cpp:100` lets the index of a folder's name be the number of strings,
  one past the last; such manifests are not among the inputs.
- `str_strip` (`common.hpp:187`) strips nothing, since it goes on only while the
  line is empty; lines are therefore read as they are.
- `rbun-usage` assigns `size_uncompressed_uniq` where it adds the other sums, and
  takes the maximum of compressed sizes from the first size, like the minimum.
- `rman-diff` takes all entries whose chunks were stripped for equal, and leaves
  changed files out (`DiffOfChunks` is about manifests with chunks).
- In the tree of `rman-mount` a path can be a file and have entries below it; they
  are found by their paths but not listed.

### Mutants

For every property of a passing run `PROJECT.json` names a mutant: a change of
one definition, as a plausible bug would make it, under which TLC finds the
property violated. The mutated forms stand before their definitions and are
marked.

### Fairness

- `RCDN`: weak fairness of `Next`. The loop of `get` goes on as long as
  something can be done, and every transfer ends. The code ensures the second
  only if a low speed time is set; without it, it is an assumption on the
  server.
- `Download`: the user runs the program again (weak fairness of `Run`), not
  every run is killed before it fetches (strong fairness of `Verify`, `Open`),
  and a chunk that is asked for again and again is delivered some time (strong
  fairness of `Deliver`). Kills may go on forever.
- `NoInterupt`: a thread that does not wait for `lock_`, and the handler, go on.
  Nothing makes a thread begin a write.
- `Make`: the program goes on (weak fairness of `MakeNext`). That it ends is then
  the work of cutting: every archive and member makes what is left smaller, except
  for the one kind that may name itself.

## What is proved

`TLC` checks small instances; the theorems hold for every value of the constants
that satisfies the assumptions. Each theorem rests on an invariant that is
inductive, which was model-checked before it was proved; what the invariants add
to the property is the reason why the code is right.

### RCache

For every set of chunks, every size, limit and number of failures:

- `TypeCorrect`: `Spec => []TypeOK`. Inductive with `WriterInPart`, which says that
  while a cache is open for writing there is a last part and the offset of its
  table is inside it; without it a write could not be shown to leave a file (a
  write behind the end would leave a hole).
- `PartsAreSealed`: `Spec => SealedParts`, from the same invariant.
- `ReadsAreStable`: `Spec => ReadStable`. The invariant adds `NoStraddle` (no chunk
  of the last part begins before the table's offset and ends behind it: what is
  read from the file is not overwritten by the next flush, what is read from the
  buffer starts there) and `FlushedBeforeNext` (the buffer is empty when a new part
  is created).

From there the invariants grow from one to the next:

- `ReopensAlways`: `Spec => AlwaysReopens`, from `WriterInv`: a flush would write
  all the data of which the table speaks, and to the end of the part or behind it;
  "nothing to flush" means that the part was flushed; no part is left for the
  next one without a chunk.
- `EachChunkOnce`: `Spec => []StoredOnce`, from `OnceInv`. No table on the disk has
  a chunk twice and no two have the same one, also the tables of parts that are
  not accepted: after a failed write a footer may be in the middle of the buffer,
  and a write that is cut there makes it the end of the part.
- `ReaderIsRight`: `Spec => []RefusedOrRight`, and `EveryReadRight`:
  `Spec => []ReadBack`, from `RightInv`: the lookup has the chunks of the part that
  is written where its table will have them (`Placed`), the part is empty or a
  bundle until the next flush, and the buffer has nothing but data (`Unflushed`).
- `WithinLimit`: `Spec => []PartLimit`, from `LimitInv`: the size compared with the
  limit may be too small by the one footer of an empty part (`WriterLimit`).
- `Implements`: `Spec => Promise`, the refinement of `ContentStore`. Once a write
  failed the store counts as damaged; until then each step of the cache adds one
  chunk, makes durable what was stored, loses what was not, or changes nothing.

The first lemmas are about cumulative offsets and overwriting. The offsets are
defined by recursion; since no induction rule can be used, the lemmas look at the
least counterexample (`LeastNatural`). `BundlesProofs` has those on offsets again,
for the same operators of `RBundle`.

### RCDN

For every set of workers, places, chunks and bundles, every cache, and every
number of rounds and exceptions:

- `FetchTyped`: `Spec => []TypeOK`.
- `PlacesDeliveredOnce`: `Spec => []DeliveredOnce`. `Shared` says who holds a place
  that is wanted: the list between two rounds, in a round exactly one of queue,
  failed chunks and workers (`RoundOfWanted`). `Data` says what a worker receives:
  its chunks lie one behind the other (`Run`), and what it has buffered, with what
  is to come, begins where the first of them begins (`StreamRight`). That only
  chunks with different ids lie at different places (`BundleAssumption`) matters
  here, and nothing about the order in which the caller names them: `get` sorts
  its list.
- `WholeBodiesDeliver`: `Spec => []WholeBodyDelivers`. A whole body has every cell
  of every chunk that is left (`WholeStream`), and a worker does not wait with a
  chunk that it has (`BufferShort`).
- `DeliversAsPromised`: the initial states and the steps of `RCDN` are those of
  `Delivery`, which is the safety part of `FetchSpec`.

### Download

- `OkIsRight`: `Spec => []OkMeansRight`. The report looks at nothing but what is
  still wanted; the invariant says that what is not wanted is in the file from
  `Open` on (`WantedOrRight`), and that there is no verdict while a run goes on.
- `PlacedStays`: `Spec => RightStays`, from the types and `ListAssumption`, that the
  chunks of a file do not overlap.

### Remake

- `RemakeTyped`: `Spec => []TypeOK`.
- `RestoresFaithfully`: `Strip => (Spec => []RestoreFaithful)`, from `MadeInv`: the
  files are read in their order, and every entry of the resume file, of its
  buffer and in memory is that of some file (`SavedRight`); with `--strip-chunks`
  it has all that is in the file's entry.
- `ManifestStaysReadable`: `Strip => (Spec => []ManifestReadable)`, from `BundleInv`:
  what the resume file knows is in the bundle as long as no run was killed; a write
  of the bundle that fails takes nothing out of it (`FailStep`).
- `NoFileTwice`: `Spec => []NothingTwice`, from `JournalInv`: while no write failed,
  resume file and buffer have every entry in memory, and the buffer is empty when
  the program closes its files.

The hypothesis `Strip` is the case that the run `Remake` checks; without it the
first two are false, as `RemakeUnstripped` shows.

### Mount

For every finite set of names and every order of them, every list of files and
of their chunks, every sequence of manifests, any number of threads and every
cache:

- `MountTyped`: `Spec => []TypeOK`.
- `TreesRight`: `Spec => []TreeRight`, from `TreeInv`: the keys of the tree are the
  beginnings of the paths put in so far, and an entry has the first file with
  its path (`Holds`). `Linked` says that the children of an entry are in order and
  are the entries below it, which is what makes the binary search of `builder` and
  `find` right; that `builder` stops searching once it has inserted a directory
  (`fail_fast`) needs nothing else, since a new directory is empty.
- `ListsRight`: `Spec => []ListedRight`: the names given so far are the first
  children, as many as the offset says.
- `ReadsRight`: `NoShort => (Spec => []ReadRight)`, from `ThreadInv`: what a thread
  has kept has the chunk whose id it has (`Kept`), also after a transfer that
  failed, since the id is set after the transfer; the bytes of a read in progress
  are those of the file (`Reading`), and the chunks still to visit lie one behind
  the other, the first where the read has got to (`Ahead`).

`NoShort` says that no transfer is in order whose body ended early, which is the
case that the run `Mount` checks; without it the property is false, as
`MountShort` shows. That a path leads to an entry, and a loop to its end, is an
induction; it is made over a set of numbers (`UpTo`), which the provers can use
where they cannot use a rule with an operator.

### Manifest

For any manifests that may be there at first, any programs with any inputs and
outputs (one of the inputs too), and any number of runs, kills and failed writes:

- `NothingIsInvented`: `Spec => []NothingInvented`.
- `AllIsRead`: `AllUndump => (Spec => []WrittenIsRead)`.
- `MergesAreFaithful`: `Spec => []MergeFaithful`; `DiffsAreComplete`:
  `Spec => []DiffOfChunks`; `UpdatesAreComplete`: `Spec => []UpdateComplete`;
  `BundlesAreKnown`: `Spec => []BundlesKnown`; `ParsesAreRight`: `Spec => ParsedRight`;
  `ReleasesAreRight`: `Spec => []ReleaseRight`.

The first two come from one invariant. `FileInv` says of a text file that its lines, but for
a header in front, are those of what was given to be written, up to the first that
`undump` refuses, and all of it if there is none (`Agrees`); that no header is
behind the first line; and that a half line at its end reads as torn, which is why
one more line behind it, or part of a line over it, changes nothing that is read
(`TornAgain`, `AgreesStays`). Of a compressed file it says what is read of it, which
is what was read before it was compressed, but for a last line without its end.
Since `Plain`
excludes a header behind the first line, the invariant must also say that the
header is written to a file that is still empty, and that what is appended to is
text (`Appends`); `Opened` says that part of a line is left over only behind the
output of the last program.

`AllUndump` says that `undump` takes the entries of the binary manifests at hand and
of the files that are cut. What programs do to an entry on its way from one
manifest to the next - another path, other languages, no places, no chunks - keeps
that, also for the entries that `rman-rads` looks up (`ChangedIsSound`, `RlsSound`,
`SlnSound`). The run `Manifest` has only such entries; `ManifestBlake3` shows that
without it the property is false. Of what is there at first, `FirstAssumption` asks
that text files begin with their only header; compressed ones may have headers
anywhere.

What one program makes of its inputs rests on `FlowInv`: the inputs are read in
their order, all of one before the next (`TodoInv`), what is read of a binary
manifest is what `log` has of it (`RmanInv`), and what `log` has of an input does not
change while a program runs whose output is another file (`InputsStay`). Then:

- `MergeInv`: after the first `n` entries of an input the output has what `rman-merge`
  makes of the matching ones among the first `m` of all inputs, where `m` is `n` and
  the entries of the inputs before (`At`, `Starts`, `MergedTo`). It stays so when an
  exception ends the program, which is why the output is then a prefix.
- `DiffInv`: the same of the second input, with `from` the matching entries of the
  first; the entry that `Known` finds from behind is the last one with the path
  (`KnownLatest`).
- `UpdateInv`: each file that is wanted and listed once is still to be read, chosen and
  still to be downloaded, or in the directory, and no other download takes it
  away, as none has its path (`Settled`).
- `UrlInv` and `PrintInv`: what is chosen while there is a url comes from a binary
  manifest, whose chunks all have a place (`RmanFiles`), and each place is in a
  bundle that the manifest lists (`SourcesAre`), of which `rman-bl` has printed all
  but those to come.

`ParsedRight` states what a row of a binary manifest means without the loops that
read it: a path is given by a chain of directories, each the last row with its id,
up to none (`IsChain`, `PathBy`); a chunk by some row of some bundle and the bytes of
the rows before it (`IsAt`). `RowIsMeant` shows that the loops find that: the walk
of `Climb` that ends is such a chain (`ChainExists`, by induction over its steps,
`UpOf`, `PathGrows`), `ById` gives the last row (`RowIs`), and what `Sources` gives
for a chunk is a row of a bundle under its id (`SourcesAre`, `PlacedIs`).

`ReleaseRight` states in the same way what a release means: a file is in it by a chain
of folders, and the input has it by the last entry with its path in any case. Three
arguments meet in its proof:

- What `rman-rads` finds under a path after the first `n` entries of the input is the
  last of these with the path in any case (`LooksUp`, `LookupGrows`, `FindsEntry`):
  one more entry takes the place of those with its path, and of no other.
- `process_rls` and `process_sln` give exactly what the rows mean (`RlsGives`,
  `SlnGives`). A file that is in no circle has one chain of folders, that of the loop
  (`ChainIs`, `MeantIs`), and what a release is looked for in is the directory before
  the first of its kind (`RealmIs`).
- `ReleaseInv` says that what is found while the input is read is what `LooksUp` says,
  and from then on that what is written, with what is still to be written, is what
  was promised. `SplitInv` says of a run without a bundle that the files of the
  directory among the first `n` entries are written.

Both are invariants only with `FlowInv`, since the input must read the same from its
first entry to its last. They were checked by `TLC` on the instance of the run
`Manifest` before they were proved.

`CommandsAssumption` says that `rman-diff` has two inputs, `rman-dl` one or two and
`rman-rads` one, and that only programs that can have `--append` append;
`FirstAssumption` that the tables of a binary manifest are sequences;
`ContentsAssumption` the same of release manifests; `LastHashAssumption` that hash
types are numbers; `ManifestNamesAssumption` that the two kinds of release
manifests have different names.

### Bundles

For any inputs (`InputsAssumption`: any sequences of cells), commands, numbers of
threads, runs, kills and failed writes:

- `MergesRight`: `Spec => []MergeRight`; `MergesAll`: `Spec => []MergeComplete`;
  `ExtractsRight`: `Spec => []ExtractedRight`; `ChecksRight`: `Spec => []CheckRight`.

Each thread is at one of its inputs, in a table that this input may be read as
(`WorkOf`); the inputs of two threads are never the same, those of all are all of
them (`MineAlone`, `MineSome`), and those a thread has left behind have one
verdict (`ToldOnce`). In a sound bundle a thread is at the offset that the table
says, whatever it skipped (`SoundOf`). `rbun-chk` must also find a fault with
every other bundle: what it passed are entries with their data (`CheckedOf`),
from which it follows that no data of a bundle it says `OK!` to lies in its
table. For `rbun-merge`, what is under an id is its chunk's data, or `Shifted` while
some part has a table left in it (`RightIn`); a sound input
it says `FAIL!` of is one whose chunk was not added because a write failed. For `rbun-ex`, a file that is not `unsure` has the data of the chunk in its
name. `JunkAssumption` says that an overwritten entry has the id of no chunk.

### Make

For any files, options and archives of any kind, with members anywhere, nested
without end, whole or broken:

- `CutIsWhole`: `MakeSpec => []MadeRight`. Entries that lie one behind the other and
  cover the cells from one place to another are tiles (`Tiles`). What was given to
  the callback and what is still to be processed are tiles of the file
  (`Cutting`), in every state of the recursion: the members, gaps and rest that
  replace an archive are tiles of it (`CutTiles`), the piece that is cut off and
  what remains of the entry too (`PieceTiles`). For the first of these the members
  have to lie in the archive, of which each processor has its own check
  (`TrySound`); nothing is needed of their order, of overlaps or of empty
  ones. The data of tiles of the whole file, joined, are the file (`JoinedIs`).
- `BundleHasAll`: `MakeSpec => []MadeWhole`: what was cut of the file is in the
  bundle, then its list (`Storing`), a write that fails takes nothing out of it
  (`AddFailsKeeps`), and `Close` makes all of it durable, after such a write too.
  Where `~RCache` fails as well the process died, and nothing is said of the bundle.

Of a header only `HeadersAssumption` is asked, that its numbers are not negative.

### NoInterupt

For any number of threads, writes, pieces and signals:

- `WritesAreNeverCut`: `Spec => []NeverCut`. `lock_` and `count_` alone do not give
  it: a thread that saw `lock_ = 0` may count itself in after the handler found
  nobody counted. The invariant therefore says who is stopped: in a program with
  one thread `count_` stays 0 once the handler ends the program; in `rman-mount`,
  the one with others (`ProgramsAssumption`), the cache is static, and the process
  does not end while it has something buffered, which it has while a thread writes
  (`OneWriter`). The guard is right because of how it is used: another program with
  threads and no static cache would break it.

### Assumptions, and what is model-checked only

The assumptions are those of the modules, which `TLC` evaluates: sizes are
positive, options natural numbers, the chunks of a file and those of a bundle do
not overlap, `None` and the like are none of the values they stand beside, files
with the same `fileId` have the same data.

Model-checked only:

- liveness, which is out of reach of the prover: `Returned`, the fairness of
  `FetchSpec`, `Converges`, `WritesFinish`, `MakeEnds`;
- `FirstRight`, checked with one failed write.

## What is not modelled

- The folder mode of the cache (`rcache.cpp:286`): it is read only, and its only
  state is a map of files per thread.
- Two processes that write one cache: nothing in the program locks it.
- Attributes, links and the callbacks of `rman-mount` that only look an entry up.
- The Windows handler and Windows memory maps.
- `rbun-usage`, which adds up sizes and changes nothing.
- A cut of a manifest's write that leaves out its newline alone, or the newline of
  the header: the line then counts as written until another program goes on
  behind it. A truncation of the output that fails.
- A circle of directories without names in a binary manifest: the walk up does
  not end there, since only the length of the path ends it.
- A write of the cache that fails in `rman-merge`: an exception that ends it, like
  those of its inputs, with `~RCache` writing again as in `Make`.
- `rbun-ex --force` does not truncate the file it writes over: chunks have one
  uncompressed size in `Bundles`, and a longer rest does not occur.
- The bounds on the sizes of a chunk in a binary manifest (`rmanifest.cpp:271`,
  `272`): the model reads more manifests than the program does.
- Formatting, progress bars, options of curl; the vendored libraries.

## Plan

1. Folder mode of the cache as one more reader of what `RCache` leaves.
