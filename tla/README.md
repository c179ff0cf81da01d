# A verification of ptgz and mpitar

`ptgz` packs a directory tree into one tar of compressed archives with many MPI
ranks, and unpacks it again; `mpitar`, which it calls as a function, writes one
tar file in parallel. The modules here model both programs from their command
lines to the last file removed: how files are found, how the work is divided, how
archives are built, packed byte by byte in parallel, and unpacked. They are
checked with TLC on small instances, and what is checked of their safety is proved
with TLAPS for every value of the constants. Code is cited as `ptgz-mpi.cpp:403`, meaning
`src/ptgz-mpi.cpp`, and `README.md:26`, meaning the repository's README.

## The system

| Part | State it keeps | Operations | Talks to |
|---|---|---|---|
| mpitar, rank 0: `master()` | the offset of the next member, `jobs_in_flight`, request arrays and send buffers, the .idx file | open and truncate, Testany/Testsome, pack and post a job, Waitall, terminate, append index and trailer | workers: jobs (Isend), acks (Irecv), barriers; the file list |
| mpitar, other ranks: `worker()` | a queue of files, `chunk_written`, a stdio stream and its `file_off` | probe, receive, copy one file, ack, close | master; the archive file, which all ranks write |
| tar entries (`tarentry`) | name, stat, offset | header size, header bytes, serialise | master and worker |
| file lists (`fileentries`) | the current list and argument | `nextfile` | master |
| command lines (`cmdline`, `getSettings`) | options | parse | `mpitar()`, `main()` |
| ptgz division of work | none: arithmetic on three numbers | number of archives, lists, blocks, rounds | compression, extraction |
| ptgz `compression()` | temporary files: lists, archives, three indexes, a script | write lists, index in turn, build, pack (mpitar), remove | tar processes, mpitar, Scatter, Bcast, barriers |
| ptgz `extraction()` | the tar, the extracted archives, the unpacked files | read the index, extract, unpack, unpack again, delete | tar processes, Scatter, one barrier |
| `getPaths`, `execute` | recursion over directories; one child process | list the files; fork, exec, wait | compression, extraction |
| timers, perl tools, `test.sh`, Makefile | | | not part of the logic |

What is hard here: the master and the workers run at their own speed, and acks
overlap the jobs they answer; several ranks write one file through buffered
streams; ranks append to one index in turn and are kept apart only by barriers;
the ranks of ptgz delete what others may still need, again apart by barriers
only; nobody looks at exit statuses; a killed job leaves files behind, some of them
cut in the middle of a line, that the next start appends to; blocks of work are computed by difference and may come out
negative. `PROJECT.json` lists these hazards one by one, with the properties
that answer for them.

What makes each part correct:

- mpitar: every listed file is stored once, where a sequential tar would put
  it and where the index says; the archive is closed only when it is complete;
  no ack is lost, counted twice or left behind; workers leave with nothing to
  do; no buffer is reused too early; every rank finishes.
- division: every file is on one list, every archive in one block, no archive
  is built twice, and every archive is built (this one fails).
- compression: the tar holds every file, nothing is removed that is not in it,
  the index is in order, nothing is left over, also after a restart.
- extraction: nothing is lost at any moment, everything is unpacked.
- both together: a tar that is handed to an extraction has all files, nothing is
  dropped that is not restored, and every file comes back, also after a killed and
  restarted compression.
- tar entries: the bytes a worker writes are those the master reserved, whatever
  happens to the files meanwhile; a reader of the headers finds every member.
- file lists and traversal: mpitar takes the names tar would take of the same lists
  (not of all lists: this one fails), in order and each once; a directory is not stored
  besides its files, and an empty one is not lost.
- command lines: options in any order mean the same; no rank begins alone.

## Modules

| Module | Models | Uses |
|---|---|---|
| `TarArchive` | what mpitar promises: truncate, store each file once at its place, the index last, close | |
| `MpiTar` | `master()`, `worker()`, `find_unused_request`, `copy_file_content` | |
| `MpiTarProps` | properties of `MpiTar`; `Tar == INSTANCE TarArchive` with the phase mapped from the program counter of the master | `MpiTar`, `TarArchive` |
| `MCMpiTar` | sizes and layout for TLC | `MpiTarProps` |
| `MpiTarProofs` | proofs about `MpiTar`: types, counts, asserts, acks and their receives, send buffers, backlog | `MpiTarProps` |
| `MpiTarArchiveProofs` | proofs that workers leave with nothing to do, that the archive is what the index says, that `MpiTar` implements `TarArchive`, and that the progress shown is never more than was handed out | `MpiTarProofs` |
| `Partition` | the division of work, as operators | |
| `Division` | one state for each choice of files, ranks and threads, and what the division must satisfy | `Partition` |
| `PartitionProofs`, `DivisionProofs` | arithmetic lemmas; proofs about `Division` | |
| `Compression`, `CompressionProps` | `compression()` and its properties | `Partition` |
| `Extraction`, `ExtractionProofs` | `extraction()`, its properties and their proofs | `Partition` |
| `Backup` | what a user counts on: an archive that is handed over is whole, nothing dropped that is not restored | |
| `PtgzSystem` | compression, restarts, then extraction of the tar; shown to implement `Backup` | `CompressionProps`, `Extraction`, `Backup` |
| `PtgzSystemProofs` | proofs about `Compression` and about `PtgzSystem` | `PtgzSystem`, `PartitionProofs` |
| `TarEntry` | lengths of headers and members, pax records, the message form of an entry | |
| `EntryCopy`, `MCEntryCopy` | `copy_file_content()` byte by byte, with files that change; its properties | `TarEntry` |
| `EntryCopyProofs` | proofs about `EntryCopy` | `EntryCopy`, `PartitionProofs` |
| `FileEntries` | `nextfile()` of lists and arguments | |
| `CmdLine` | the command line of mpitar | `FileEntries` |
| `PtgzMain` | `helpCheck`, `getSettings`, `getPaths`, `main`, the call of mpitar | `CmdLine` |
| `Front`, `MCFront` | the front ends together and their properties | `PtgzMain` |
| `FrontProofs` | proofs about `Front` | `Front`, `PartitionProofs` |

In `Front` the tree below a directory is a recursive function (`TreeBut`), as are the
lines of a list put together (`Joined`) and the file options of a command line (`Files`). An empty file name on a command line is left out: the
code takes an empty `-f` for none given.

Definitions named in a comment as a *slip* are not the code: each is a plausible
mistake in the definition that follows it, and shows that some property would
notice it. No action uses them.

### MpiTar

`pc[r]` says where rank r stands. An action is the code between two points
where another rank can see a difference: a call of MPI, or one turn of a loop.
Master: `Create` (155-166), after the barrier `OpenIndex` (177), `TestSends` (204), `CollectAck`/`EndCollect` (Testsome
and its loop, 210-218), `SkipWorker`/`StartJob` (221-232), `AddEntry` (one turn
of the packing loop), `EndJob` (258-269), `WaitSends`/`WaitRecvs` (277-278),
`SendTerminate`/`TerminateSent` (284-291), `CloseIndex` (298-311), `StoreIndex`
(313-316), `EndArchive` (320-341). Worker:
`Reopen`, `Receive`/`NoMessage`, `Copy`/`NothingToCopy`, `Flush`. `Barrier(b)` moves all
ranks at once. `Exit(r)` is an `exit(1)` after a failed call, before any of the steps that make one
(`IOPoints`), so also when the index is stored and the trailer is not; the launcher
ends the others.

MPI is modelled by what it guarantees: messages between two ranks with the same
tag arrive in order; `Testany` reports a send that was received and may, if MPI
buffers (`Eager`), report one that was not; `Testsome` may see an ack late. Jobs
carry a number that the program does not have, to pair a message with its
request; `TagsPairAcks` shows that MPI's own pairing, by source and tag, agrees.
The archive file is a set of extents, one for each member, at the place
where the bytes landed; bytes in a stdio buffer are kept apart until a seek, a
full buffer, `fclose` or `exit` writes them. Names, headers and file contents are
left out: member f has a size and that is all.

### Partition, Division

Each operator is one expression of the code: `TarBlock` and `Count` are
`sendSizes` (367-375), `LinesOf` and `ListOf` the stride of the list loop (349), `ArchiveNum`
and `Rounds` the building loop (403-410). `Division` has no steps: its initial
states are the choices.

### Compression, Extraction

Every rank has a program counter and `left[r]`, the turns of its current OpenMP
loop that are not done; threads take them in any order. `Compression` has an
action for each loop turn and each collective call: `WriteList`, `Scatter`,
`WriteIndex`, `EndTurn` (the barrier in the loop at 398), `Build`, `AllBuilt`,
`MakeScript` and `CloseIndex` (433-457), the call of mpitar, `RemoveTemp`, `Finish`.
mpitar is seen by a reader of the tar: `OpenTar` empties it, each `StoreMembers`
brings in some more of the names of its list, in order, `CloseTar` is the barrier behind
the call. `NameMissing` is its exit(1) at a name that does not exist, perhaps with members
in the tar already; `IOExit` its exit(1) at any other failing call, or the exit(0) of
makeScript; `Refused` its refusal of a single rank. A name is stored only behind
names that exist, which is how the master gives them out.

`Rerun` is a kill, or what follows an exit, and the same command once more. A kill loses
what is still in a buffer: each list that is being written, and `ptgz.idx`, may end after
any line or in the middle of one (`Partial`, `Cut`). The next start appends to what is
there, and the half name with the first name behind it makes a name of no file (`Torn`), or,
where the two happen to be 1 and 0, that of archive 10 (`JoinedArchives`). Three
things are assumed: a buffer holds more than a line, so that the first line of a start
is never cut (a file with nothing but half a line would be taken for a list); the halves
of two paths name no file that is to be stored; and the second start has the same number
of ranks, the same threads on root and the same files. The last holds with `-d`, when the
temporary files are not in the tree that is packed. With `-c` of the current directory
the files a killed start left are listed by the next one (752), and the number of archives
may change: **what is said of restarts here holds for calls with `-d` only.** The other ranks
may compute another number of archives at each start.

The number
of blocks wanted, ten for each thread in the program, is a constant, so that a
small instance can have archives of more than one file. The removal of an
archive and its list is one step. Every rank computes the number of archives from
the number of threads of its own node (732): `own[r]` may differ (`Others`), while
lists, index and blocks are root's. A tar process may leave a short archive, or
none (`Fragile`); its exit status is lost at 424. `Fragile` also names the archives that
may be half built when a kill comes: those of the others are whole or not there.

`Extraction` has `ReadIndex`, `Scatter`, `Extract`, `EndExtract` (the barrier at
634 and the vector at 637), `Unpack` for both unpacking loops, `Delete`,
`EndLoop`. A tar process may fail to start (`Failing`, `MaxFails`); what an
archive holds is unpacked or not. A half-written file, which the second loop's
`-k` would keep, is below this level. `Listed` may exceed the number of archives:
a restarted compression leaves an index that lists everything twice; `PtgzSystem`
is the run where it does. When the
index is missing the code computes -3 archives; the unsigned loop of rank 0 then
has 2^64 - 3 turns, which the model calls `endless`.

### PtgzSystem, Backup

`PtgzSystem` runs `Compression` to its end, with as many starts as it takes, then an
instance of `Extraction` on the tar it left: the tar's content and the number of lines of the index in it are all
that passes from one to the other, and the ranks may be of another number.
`Backup` has three variables: whether the archive is still being made, the files
it holds, the files restored. The mapping takes what is held from the tar and, once
it is opened, from the archives on disk as well, and what is restored from the
archives that are unpacked; a removal by any rank at any moment is a `Drop`, which
only takes what is restored. While the archive is being made, `Pack` lets it hold any of
the files, since a kill or an exit leaves a part of them; `Close` asks for all. Files that a failing tar process may have left out
are not counted.

### TarEntry, EntryCopy

`TarEntry` has one operator for each method: `RecordLength` with the rounds of its
loop, `PaxSize`, `HeaderSize`, `Size`, `Serialize` as a sequence of fields with their
bytes, `Deserialize`, which takes each field at the byte where the one before it ended (and
garbage if no field of that length begins there), and `ReadSpan`, what a reader (`choptar.pl`) computes from
the headers. Names count by length only. `EntryCopy` has the master list entries
and one worker copy those it gets: `Begin` (seek and header), one `Read` for each
turn of the loop, `End` (padding), `Fail`. `Change` is another program that writes
to the file: it may have any length when it is opened and at every turn. The
listing comes first, since nothing in it depends on the copying. Block, field and
size limits are constants; TLC has the real block and field and a small largest
size.

### FileEntries, CmdLine, PtgzMain, Front

A path is the sequence of its names, and a small tree is a constant: what readdir
returns in each directory, which are links, which do not open, which file system
does not tell `d_type`, which may fail to be read. `FileEntries` has one action for each call that reads: a
line of a list, the argument itself, one name of a directory, the end of a
directory, a read that fails (`ListFails`, `DirFails`); `dirs` and `dirstack` are the two stacks of `filearg`. `CmdLine` has one
action for each option getopt returns. In `PtgzMain` every rank reads its arguments
from a queue (`Flag`, `Directory`, `SetLevel`, `ArchiveName`), root alone looks for
`-h` and lists the files (`ReadName`, `ReturnPaths`: a frame of `walk` is one call of
`getPaths`; an empty current directory is listed by an empty name, `RootPath`), and after the barrier root calls mpitar with the command line of
471-477, so that the three modules make one program. `Front` also starts mpitar
with a command line of its own.

## Runs

| Run | Instance | Shows |
|---|---|---|
| `core` | 2 workers, 7 files in 3 jobs, 2 slots, up to 3 files to a job, calls may fail | types, acks and requests, drained workers, members where the index says, refinement of `TarArchive`, termination when MPI buffers |
| `backlog` | 1 worker, 11 files in 5 jobs for 2 slots, MPI does not buffer | asserts, `jobs_in_flight`, backlog, progress within the total, send buffers untouched, termination |
| `entries` | up to 2 members of 14 kinds, files that change | own slot filled, messages and headers tell the size, copying ends |
| `max_size` | the same, with a file of the largest size | **violated**: the header says 0 |
| `front` | 1,100 command lines of ptgz, 440 of mpitar, 8 directories, 7 lists | order of names, order of options, every file listed once, ranks begin together |
| `tar_list` | as `front` | **violated**: a list with a blank line |
| `division` | 1-45 files, 1-4 ranks, 1-2 threads | lists and blocks partition, nothing built twice, left out only if a block is short |
| `every_archive_built` | the same | **violated**: 5 files on 4 ranks |
| `compression` | 2 ranks, 5 files in 3 archives, up to 2 starts, a fragile archive, a rank with 1 or 3 archives, calls may fail; extraction by 2 ranks | index, complete tar, clean-up, removed only when packed, refinement of `Backup`, every file restored |
| `single_rank` | 1 rank | **violated**: no tar is made |
| `extraction` | 3 ranks, 5 archives, one failing process | nothing lost, all unpacked, termination |
| `many_ranks` | 4 ranks, 5 archives | **violated**: negative block, the rank dies |

Bounds. Two workers are the least with which acks of different workers, and
jobs of one worker, interleave; two slots run out in `backlog`, and three files to a job
leave files of an acked job behind while the next message comes; file sizes are such that both limits
of a job, number and bytes, are reached. Names of `entries` need no pax header,
one, one of two blocks, or a record whose length takes three rounds to find; file
sizes lie around a block and around the largest of a ustar header. Three archives
on two ranks are the least with a full block, a short one and a round that runs
backwards; with two starts the index lists every archive twice, or part of them, and the
blocks of the extraction are larger than the tar needs. A list of two lines and an index of
six can be cut in every way that differs. A rank that reckons with more archives than root
only looks for lists that are not there; the proofs cover it. Two ranks are enough in `front`: root,
and one that is not. Command lines of three arguments reach every option with and
without its value, and every pair of options in both orders. `Division` reaches full and short blocks for
every number of ranks, and the first numbers of files with more than one file to
an archive; what it checks is proved for all.
The only counters that grow are bounded by the number of files and of starts.

Fairness. Each rank of an MPI program is a process that the system keeps
running: weak fairness of the steps of each rank, and of each barrier that all
have reached. `MpiTar` also assumes that MPI hands over an ack that was sent if
`MPI_Testsome` is called again and again (strong fairness of `CollectAck`
for each worker). Nothing obliges the user to start a job again, so `Rerun`
has none; that he extracts what he packed is assumed of `PtgzSystem`, as the case
of interest. Nothing is assumed of other programs: a file may stay too short for
ever, and then `CopyEnds` promises nothing, as read returns 0 again and again
(522-540). Runs stop only where the program does: `Next` has a stuttering step
in the final states, and deadlock is checked everywhere.

### What the violated properties say

- `EveryArchiveBuilt`: the loop bound at ptgz-mpi.cpp:403 belongs to the
  contiguous blocks, the loop deals archives out in rounds. With 5 files on 4
  ranks archive 4 is never built and mpitar ends the job on the missing file.
- `single_rank`: the return value of `mpitar()` is dropped at 479.
- `max_size`: a regular file of exactly 8 GiB - 1 bytes is too large for the size field
  (`<` at tarentry.cpp:247) and too small for a pax record (`>` at 188), so its
  header says 0 and a reader looks for the next member inside its content.
- `many_ranks`: the block size at 608 is -1 and becomes a vector's size at 637.
- `tar_list`: "the output is identical to a regular tar as long as the same file list is
  passed to tar's -T option" (mpitar.cpp:47-49). It is not if the list has a blank line
  (fileentry.hh:77 takes it for the end), a line of more than 4094 characters (116), a
  directory with files in it, or, for arguments, if the file system does not tell `d_type`
  (191). `StreamInOrder` says that these are all the cases of the model.

Two more statements of the repository are not what the code does, and no run is spent
on them. "Clients ack jobs when they are done with it" (mpitar.cpp:44-45): the ack goes out
after the first file (431), which keeps the workers busy; `BoundedBacklog` says how far
one can fall behind. "All symlinks will be replaced by copies of what is being symlinked to"
(README.md:19): `getPaths` lists a link as it is, and tar, called without `-h` (411-420),
stores the link.

## Proofs

Each proof has one lemma for each action and, under it, a step for each part of the
invariant that the action can disturb. The proofs assume what the modules' ASSUMEs
say of the constants (positive numbers of ranks, archives and slots, `Layout` the
running sum of `Size`, a tree of names), which TLC evaluates in every run; where a
theorem has a hypothesis of its own, it is named below.

**mpitar.** `MpiTarProofs` proves `TypeOK`, `OneReceivePerJob` and `NoAbort` for any
number of workers, files, slots and any limits, with or without I/O errors and
buffering. The last two are not inductive: that a receive slot is free when
`jobs_in_flight` is below its limit needs the count to be right, and that an ack lowers
the count by one needs it to answer exactly one posted receive. `IInv` adds: the archive
exists once any rank is past the first barrier (`Opened`); while a job is packed its two
slots are chosen and free and the worker has room (`Building`); jobs are numbered
in the order they are posted (`Numbered`); two send slots never hold the same job
(`OwnSlots`), and a job still in the network is there once, has its receive
posted, and has no file or ack anywhere else (`InNetworkOnly`): were
no send slot free or completable, each would have a job in the network with a
receive posted for it, more than the master counts, so the second assert holds.

`EveryAckAwaited` and `TagsPairAcks` follow a job from the master to its ack: each posted
receive waits for one job, and that job is a message, or has its first file in the
worker's queue, or is acked (`UnderWay`); and each of these has its receive, with the
same tag (`Expected`). Messages, first files and acks are in the order of the jobs'
numbers (`InOrder`), because the network and the queue keep their order, so a job is in
one of the three places only. At the final `MPI_Waitall` every receive has its ack, so no
job is anywhere else and no ack is left; and the oldest ack of a tag is older than
whatever another receive with that tag waits for. `SendBufferStable` needs that a slot
whose job is in the network is not chosen to pack another one, and `BoundedBacklog`
that the files of a worker's queue are sorted by job (`FilesSorted`, `NetworkLater`) and
that all jobs but the first have no ack (`RestUnacked`): then the jobs with a file in the
queue have receives, and are no more than the receives and one.

`MpiTarArchiveProofs` proves `WorkerQuitsDrained`: the empty file name is the last message
a worker is sent (`Told`, by where the master is in its last loop), so when it is taken
the network is empty, and the loop goes on until the queue is. `IndexLocatesMembers` and
the refinement `TarSpec` come from `ArchiveInv`: all ranks are on the same side of each
barrier (`Together`); a file that is listed is in the job being packed, in a message, in
a queue, in a stream or in the file (`NoneLost`), with the offset of `Layout` wherever it
is (`Carried`); what a stream holds lands there (`Written`). At the last barrier nothing is
under way, so everything is in the file. A step of `MpiTar` stores members where they
belong, stores the index behind all of them, closes a complete archive, or is a stutter of
`TarArchive`; whether the index leaves the buffer before `fclose` is open, so `Close` may
still bring it in.

`ProgressWithinTotal` is a sum over messages nobody keeps together, so the invariant
(`Account`) asks for a map `own` from the bytes handed out to the one place that has
them: the job being packed, a job assigned to a worker, the bytes it has copied but not
acked, an ack, or the master's count. `chunk_written`, the bytes of an ack and the
progress are the numbers of bytes in their places, so a step that moves bytes adds to
one counter what it takes from another, and no byte is counted twice. It needs that the
files of a message belong to no job in the queue and that a job is acked once, from the
invariants above. After the final `MPI_Waitall`, which drops the last acks without
counting them, the progress only changes in `CloseIndex`, to the offset before it.

**Division.** `DivisionProofs` proves all four properties for every number of files, ranks
and threads, from the uniqueness of quotient and remainder (`PartitionProofs`). A state
never changes, so the argument is arithmetic: that each file is on one list, for
instance, is that it has one remainder by the number of lists.

**Compression.** `PtgzSystemProofs` proves `NothingLeftOver` and, with more than one rank,
`RemovedOnlyWhenPacked` and `ArchiveComplete`; with one rank no tar is made, the finding
of `single_rank`. The invariant says that all ranks are in the same stage between two
barriers (`OneStage`); that a file that ends in half a line has a whole one before it, the
first name of some start (`Begun`), so that the name the next start spoils is one that is there
already; that a list that exists has every file of its archive, unless root has still to
write to it (`ListsFull`); that an archive that was built has them too unless it is
fragile (`Built`); that mpitar's list has every name when mpitar is called (`AllNamed`), and the
tar the first members of it while it runs (`TarSoFar`), so that after the barrier
all that exists is in the tar as it was built (`AllStored`); and that what a rank
has no turn left for is gone (`Removed`). A kill may come anywhere, with any file cut,
and the next start finds lists, archives and a partial tar of those before: the invariant
has to hold of all of them together.
`IndexListsArchives` is about a first start: between two turns the index is what the
ranks before have appended (`InTurn`, `IndexUpTo`), and blocks follow each other.

**Extraction.** `ExtractionProofs` proves `TypeOK` whatever fails, and `NothingLost` and
`AllUnpacked` for any number of ranks and archives, if at most one tar process fails and
none that takes an archive out of the tar. The invariant says that all ranks are on the
same side of the barrier; that an archive in the block of a rank is extracted before it,
on disk while the rank unpacks, and unpacked when the rank deletes, where one failure
leaves it to the second loop; and that only root removes the tar, at its end. That
no rank deletes what another unpacks comes from `BlockOwner`.

**Compression, then extraction.** `PtgzSystemProofs` proves that `PtgzSystem` implements
`Backup` (`BackupSpec`), with more than one rank and under the hypothesis of the
extraction's proofs (`FewFailures`), for any number of archives, of ranks on either side
and of starts. Only `mpitar` changes the tar in the compression: it empties it and adds members
one by one, and any of these, or a part of them after a kill, is a `Pack` that holds some of
the files. When the ranks are done the tar has all of them, by `AllStored`, which is what
`Close` asks for. In the extraction the files packed are
those of the archives in the tar or beside it (`Held`), and each step either unpacks some
of them, or takes archives out of `Held` that are unpacked (`RestoresOrDrops`): a rank
deletes an archive of its block after both of its loops, and root removes the tar
when it is past the barrier, so that what it holds is on disk or unpacked. The number
of lines the extraction counts is a parameter of its instance, `X(n)`, and the provers
take no theorem through such an instance, so the invariant of `ExtractionProofs` is proved
again, for `n`. That there is such an `n`, whatever was killed when, is a
lemma (`IndexOfTar`): the index has every name once at least and no more names than the
starts have written (`IndexBound`), and the tar of a compression that is done has a member
for each. From both invariants follows
`AllFilesReturn`: when all ranks of the extraction are done every file is back, which
leaves of `Restores` to TLC that they do get there.

**Entries.** `EntryCopyProofs` proves that a worker writes every member from the offset the
master reserved, never past it, and fills it (`InOwnSlot`), for any entries, block
size and limits, and whatever happens to the files between `lstat` and the last
`read`. Neighbouring members are written by other ranks, so this is what keeps
them apart. The invariant ties the stream's position to `file_off` between members,
so that a seek left out is a seek not needed, and inside a member to the bytes
written so far; and the loop never asks for more than is left (525), so that a file
that grew adds nothing. `HeadersTellSize` is proved if no file has exactly the largest
size of a header (`NoLimitMet`; the finding of `max_size` is a file that has), from the
lengths of blocks and records; `RecordsTellLength` from a bound on the digits of a
number, `Power`, that its recursive function gives.

`MessageTellsEntries` follows the worker's reader byte by byte through the message. A
field's bytes are where the master put them if all fields before it were read with the
lengths they were written with, so the argument is by the entries: where one begins in
the message (`Laid`), its fields end where the reader takes the next (`EndAt`), it is read as it
was written, the length it says is the length it has, and the next one is where it ends. The
size computed on the worker's side then agrees because `size()` reads nothing else.

**Front ends.** `FrontProofs` proves six properties of `Front` for every tree, list,
command line and number of ranks. `AllBegin`: all ranks read the same trail of settings,
each at a place of its own (`OneTrail`), so that those that reach its end agree; and the
barrier needs them all. `SomeFile`: as long as nothing is listed the innermost call of
`getPaths` has met no name (`Fruitful`), so it will list itself. `ListedOnce`: a file is
listed if and only if no call under way has it before it (`Complete`); a call has before
it what is below the names it has not read, or itself while it has met none (`Ahead`),
and a call has read the name through which the next one was made (`Above`), so that no
two have the same path before them; of an empty current directory only the empty name is
listed (`Bare`). `StreamInOrder`: what was given, with what is still to come of the
directories open, the entry being read and the entries behind it, is the whole stream as the code
reads it (`StreamInv`, about lists cut at a blank line and untyped directories too); and where
lists are plain and directories typed that is what tar takes. `IndexPacked`: what mpitar has read of its options,
and of the index, after each step (`Packing`). `OptionsInAnyOrder`: what the options read
so far say (`Scanned`, `FileSeen`). They assume a tree of names where readdir returns
each name once, and that every line of ptgz's own index is a name and a newline.

A fact about all numbers up to a bound is proved by `Counting` (`PartitionProofs`),
induction over a set: a recursive function over an interval, such as `Power` or `Files`,
exists because the set of the numbers it is defined up to is the whole interval.

All invariants, action properties and refinements that the passing runs check are
proved. Only model-checked is liveness under fairness (`Finishes`, `Restores`,
`CopyEnds`, `Ends`), which is out of the prover's reach. The run of `PtgzSystem` checks
`BackupSpec` with no failures in the extraction, to keep it small; the theorem covers
them. An empty current directory is in no run's tree: what
`ListedOnce` says of it is proved only. So is what becomes of the temporary files on
one rank (`NothingIsLeft`).

## Not modelled

Timers, the perl tools, `test.sh` and the Makefile have no logic of the system's
own (`choptar.pl` is used as the reader in `TarEntry`). Left out of what is modelled:
what files and archives contain beyond lengths and names, modes, owners, times and
checksums of headers, and messages. `execute` is the step of its child, done or not;
its loop over EINTR is no step of its own. A `front()` of an empty queue, when `-d` or
`-l` comes last, is undefined behaviour and ends `PtgzMain` in a state of its own.

Some failures are accepted rather than answered, since nothing in the code looks for them:
a short archive is packed as it is (424), an archive that could not be taken out of the
tar is lost with it (628), a file that stays too short keeps a worker in its loop (522),
a tar that stops in the middle of a file leaves it half written, for the second loop to
keep. A `readdir` that fails in `getPaths` (207) looks like the end of the directory: the
files behind are not in the backup, and no property sees it, since the constant `Dir`
is what readdir returns. Restarts without `-d`, or with other ranks, are not modelled.

## Plan

What is left: `EntryCopy` as the refinement of the one step `Copy` of `MpiTar`, with
stdio's buffer between them.
