# dscan: a TLA+ model

dscan scans a Windows volume for damaged files ("Multithreaded producer/consumer
pipeline", `README.md:8`), merges the verdicts of several detectors, and lets the
user review and delete what it found. This directory models the program from the
command line to the exit code: its threads and queues, the walk, the detectors and
the merge of their verdicts, the manifest and the scan cache, and the review.

Paths below are relative to `dscan/`; `main.cpp` is `src/main.cpp` and so on.

## Inventory

| Component | State | Operations | Interaction |
|---|---|---|---|
| `BoundedQueue.hpp` | `q_`, `closed_`, two condition variables | push, pop, close, size, is_closed | between producer, readers, workers; the progress thread polls it |
| `BufferPool.hpp` | stack of buffers, one condition variable | acquire, release | readers acquire, workers release; the buffer travels in a `WorkTask` |
| `run_scan`, main.cpp 87-291 | reader queue, one queue per worker, `activeFiles` per worker, `g_quit` | producer, readers, workers, progress thread, joins | everything above, and the walker's callback |
| detector loop, main.cpp 248-257, `Detector.cpp`, `Verdict.hpp` | the `Finding` being built | build_pipeline, applies/check, merge, short circuit | per finalized file, in the worker |
| two-phase driver, main.cpp 293-298 | `findings` | header pass, choice of survivors, full pass | runs `run_scan` twice |
| manifest and scan cache, main.cpp 87-97, 144-151, 260-266, 301-302, `ManifestDetector.cpp` | two maps, two files on disk | load, look up, collect, save | producer skips, workers record, later runs read |
| `ReviewUI.cpp` | `shown`, `selected`, `showSuspect`, audit log | the commands of the prompt, filter, confirm, delete, log | after the scan, on its findings |
| `Walker.cpp` | directory stack or MFT record map | walk | calls the producer's callback |
| `Config.cpp` | the options | parse_args | read by everything |
| detectors, `Crc32c.cpp` | none (bytes in, verdict out) | check | called by the detector loop |
| `FileReader.cpp`, `DiskUtils.cpp`, `Report.cpp` | handles | I/O and formatting | |
| `ThreadPool.hpp` | | | not used by the program |

What is hard, and what would make each component correct:

* **Queue and pool.** `notify_one` is enough only if every notification reaches a
  thread that will use it. Correct: nothing lost, duplicated or reordered; no
  waiter sleeps beside work; close() releases everybody; one owner per buffer.
* **Pipeline.** Three kinds of threads end in a chain: who closes which queue, and
  when, differs between an SSD (producer) and an HDD (main, after the readers).
  Reads fail, files grow and shrink, SIGINT comes at any moment. Correct: each due
  file is finalized once from its own bytes; buffers go round; the scan ends.
* **Detector loop.** Order, short circuit, exceptions and equal severities.
  Correct: the worst verdict of the detectors that ran.
* **Two phases.** Correct: phase 2 sees what phase 1 could not clear, once.
* **Manifest, scan cache.** The file may be written between hashing and stat.
  Correct: a skipped file is as it was judged, an alarm is bit-rot and bit-rot is found.
* **Review.** Positions in a list that is rebuilt; five options that combine.
  Correct: only what was asked for and confirmed goes, and it is on record.
* **Walker.** Directories move, links lead round in circles, some directories may not
  be listed. Correct: both enumerations yield the files below the root, once.
* **Command line.** Options share fields, take the next word whatever it is, and hold
  wherever they stand. Correct: the line means what it says as a whole.
* **Detectors, checksum.** Files cut anywhere, buffers at any address. Correct: whole
  files pass, damaged ones do not, the checksum is the one of the bytes.
* **Disk.** Queries fail. Correct: what is not known is treated as an HDD.

`PROJECT.json` lists the hazards one by one, with the line where each bites.

## Modules

| Module | Models | Checked by |
|---|---|---|
| `CondVar` | `std::condition_variable`: waiting, notify_one, notify_all, spurious wake-ups (external) | through its users |
| `BoundedFifo` | abstract: a bounded channel that can be closed | refinement in run `queue` |
| `BoundedQueue` | `BoundedQueue.hpp` at the grain of its mutex | run `queue`, `BoundedQueueProofs` |
| `BufferPool` | `BufferPool.hpp` at the grain of its mutex | run `pool`, `BufferPoolProofs` |
| `ScanContract` | abstract: what a scan owes its user | refinement in run `scan`, `ScanPipelineProofs` |
| `ScanPipeline`, `MCScanPipeline` | `run_scan` with all its threads, in both passes | runs `scan`, `scan_keys`, `ScanPipelineProofs` |
| `Walker`, `MCWalker` | `walk` and `enumerate_mft` | run `walker`, `WalkerProofs` |
| `CommandLine` | `parse_args` | through `Session`, `SessionProofs` |
| `Detectors` | every detector, `build_pipeline`, the loop and the merge of a worker; `FileReader` | through `Session` |
| `Crc32c` | `crc32c`, `crc32_ieee` | through `Session`, `SessionProofs` |
| `Session`, `MCSession` | `wmain`: options, disk, one or two passes, exit code; composes the three above | runs `session`, `header_first`, `baseline_kept`, `SessionProofs` |
| `Manifest`, `MCManifest` | manifest and scan cache over several runs of the program | runs `manifest`, `manifest_locked`, `ManifestProofs` |
| `ReviewUI`, `MCReviewUI` | `review_and_delete` | runs `review`, `review_suspect`, `ReviewUIProofs` |
| `CondVarProofs`, `BoundedQueueProofs`, `BufferPoolProofs`, `ScanPipelineProofs`, `WalkerProofs`, `ManifestProofs`, `ReviewUIProofs`, `SessionProofs` | theorems | TLAPS |

An operator whose comment begins with "Faulty:" is not part of a specification.
It is the definition that follows it with a plausible mistake in it; put in its
place, it must make a property fail (`mutants` in `PROJECT.json`). This is how we
know that the properties say something about the code.

### BoundedQueue

`pusher` and `popper` give the state of each thread: `idle` (outside), `ready`
(about to evaluate the predicate under the mutex), `waiting` (blocked on
`notFull_` or `notEmpty_`), and for consumers `ended`. Everything between two
points where the mutex is free is one action: `PushWait`, `PushRefused` and
`PushAccept` for line 16 with 17 or 18-19, `PopWait`, `PopTake`, `PopEnd` for
lines 24-29. `notify_one` picks any waiter; spurious wake-ups happen at any time.
A woken thread has no precedence over a newcomer. `accepted` and `delivered` are
histories. A consumer ends at `nullopt`, as every caller in main.cpp does.

The producers push each value of `Items` at most once; `closed_` is set once.

### BufferPool

`taker` is the state of the acquiring threads. `Send` is the hand-over of a filled
buffer in a `WorkTask`, `Release` the call of the worker, `Lose` the exit from the
read loop at main.cpp:204, which forgets the buffer. A reader holds at most two
buffers, as in the header pass.

### ScanPipeline

One process per thread, each with a program counter: `producer`, `reader[r]`,
`worker[w]`, `main`, `progress`. An SSD scan is one without readers. push, pop,
acquire and release are single steps; `BoundedQueue` and `BufferPool` justify it:
the refinement proved there says that a call of push or pop is one atomic step of
a bounded channel, and its liveness properties that a blocked call goes on when it
can.

Data is abstract. A path is the file it names, or `NoPath`, the empty path that a
moved-from `FileContext` holds. A file is a number of blocks of the size of a
buffer: `Declared` is the size the walk reported, `OnDisk` the number of leading
blocks that can be read, so that a file may have shrunk, grown or be unreadable.
The bytes hashed into a `FileState` are the sequence `seen` of (file, block) pairs.
`reported[p]` collects what was finalized under path `p`: the size, whether it was
a partial pass, and the bytes.

| Action | main.cpp |
|---|---|
| `Walk`, `ProducerPush` | 142-155: callback with quit and cache tests, then the push |
| `WalkEnds`, `ProducerCloses`, `ProducerEnds` | 158-159 |
| `ReaderCheck`, `ReaderPop`, `ReaderEnds` | 166-173, and 209 when CreateFile fails |
| `Acquire` | 175, 181, 195 |
| `ReadChunk`, `ReadNothing` | 196-201, 202-205 |
| `ReadHeader`, `ReadFooter` | 174-192 |
| `ReaderPush` | every `workerQueues[qIdx]->push` of a reader |
| `WorkerCheck`, `WorkerPop`, `WorkerEnds`, `WorkerProcess` | 225-269 |
| `JoinProducer` .. `JoinProgress`, `MainCloses`, `MainClosed` | 288-290 |
| `ProgressEnds` | 277-278: the last evaluation of `is_active()` |
| `Sigint` | 40 |

In the header pass the model builds the footer task before it pushes the header
task, where the code pushes the header task between acquiring the second buffer
and building the footer's task; no other thread can see the difference in order,
because the footer task is in nobody's hands until it is pushed. After the read of
the header the buffer is in `outbox`; a worker gets it only by the push.

The detectors, the counters and the report are one `Filed`; the short circuit
among detectors changes nothing that another thread sees. The second pass of
`--header-first` is a setup of its own (`second`): the producer goes through a list, in
any order, without the scan cache, and the contexts declare no size.

### Walker

A node is its file reference number, `parent` the volume as it is now. By table, `Start`
queries the journal, `ReadRecord` reads the records one by one, and `EndEnumeration`
builds paths (`getPath`), filters them and opens each file; a record changed after the
query is not returned (`Returned`). By listing, `ListDir` takes one directory off the
stack; `EndWalk` opens the files again for a sorted scan. `Emit` sorts and hands them on.
Between any two of these steps another program may `Move` a file or a directory. A path
is a sequence of names; a name has a text and says whether its case is that of the lists,
because one comparison minds the case (Walker.cpp:74) and the others do not. `MaxPath`
is the length at which the system refuses a path. `Lookup` is what the system does with a
path: name by name, without regard to case, through links. `Above` climbs to the root of
the volume, and `getPath` climbs the records; both are functions of a number of steps,
which are enough for all of the volume or of the table, so that one of them runs out only
where the code finds a parent missing or visited.

A tree is what a file system guarantees (`WalkerAssumption`): every node is below the
root of the volume, the directories on the way are directories and not links, and no two
entries of a directory differ in case alone. `Move` keeps it so.

### CommandLine, Detectors, Crc32c, Session

`Session` is the program in the eyes of its user: `Parse` takes a word of the line
(Config.cpp 53-138), `StartUp` asks the disk and chooses threads and readers (main.cpp
47-72), `ScanFile` takes one file through walk, reader and worker in one step
(`Contexts` for the reader, `Result` for the worker), `EndPass` starts the second pass
(293-298), `Finish` saves and exits (300-306). Which bytes a context carries, and under
which path, is computed as the readers and workers do: `HeaderContext` and `FullContext`
give the lengths of buffer and footer, the flags, and the parts over which the checksum
is carried. `ScanPipeline` justifies the single step, except for several files of more
than a block in one full HDD pass, whose parts mix under the empty path; here each keeps
to itself, and nothing is claimed of them.

What a file contains is given as its detectors take it apart: PNG chunks, JPEG bytes, MP4
boxes, PDF tokens, ZIP entries, a flag for signatures; `readable` is the number of bytes
that can be read, `opens` whether it can be opened, `state` whether it is whole or
damaged, which only the properties look at. Offsets and lengths are counted in bytes, so
that a file can be cut at each of them.

`Crc32c` has a register of `RegisterBits` and bytes of `ByteBits`, 32 and 8 in the code,
10 and 4 in the runs; either is the set of its bits that are 1, so that exclusive or is
the symmetric difference and a shift renumbers. The words of eight and four bytes, the
alignment of the buffer and the table are those of the code.

With `--hdd-block-size 0`, or a word there that is no number, the block has no bytes: the
first read of a file yields none, and the file is judged without buffer and footer.

### ReviewUI

A finding is a number, in path order. `shown` is the sequence the user sees,
`selected` a set of positions in it as in the code. `marked` is a ghost variable:
the findings the user has asked for by identity, whatever happens to the list.
`Picks` are the inputs of the toggle command after `resolve_selection`: lists of
valid positions with repetitions up to `MaxPicks`, or all. `e`, `o`, the empty line
and unknown input change nothing. The deletion loop is split into the attempt
(`Delete`, which may fail) and its log line (`LogDeletion`).

### Manifest

One behaviour is several runs of the program on the same files. A hash is the content
that was hashed, or `NoHash` after a failed read; an mtime is the number of writes so
far. The world acts at any time: `Write` gives new content and a new mtime, `Decay`
new content with the mtime kept (that is what bit-rot is), `Lock` makes reads fail.
The program: `Launch` loads what its options ask for (main.cpp 72, 88-97), `Walk` skips
by mtime (144-150), and a worker takes each file through `CheckStructure` (the detectors
of cost 2 and less), `Hash` (`IoHashDetector`), `Compare` (`ManifestDetector`) and
`Record` (260-266), in this order because that is their cost. Between any two of them
the file may change. `Save` is the end of `wmain`, `Crash` a kill before it.
`decayed`, `changed`, `raced` are histories: what happened to a file since it was last
written, since it was walked, and between the walk and the recording of a line.

The files of a scan meet only in `Save`, which replaces all lines at once, so one file
is checked; the theorem is for any number. Three runs are a baseline, a comparison
and one more to fill or use the cache; two writes are one between runs and one within.

## Runs

| Run | Instance | Shows |
|---|---|---|
| `queue` | 2 producers, 3 consumers, 3 values, capacity 1 | conservation, no lost wake-up, end only when drained; refines `BoundedFifo`; every accepted value is delivered; close() releases everybody |
| `pool` | 3 readers, 3 buffers, reads may fail | one owner per buffer, no lost wake-up, a free buffer is taken |
| `scan` | seven setups, queues of capacity 1 unless said otherwise. SSD: 2 workers, 4 files. HDD: 2 readers, 2 workers, 4 files of at most a block: good, unreadable, grown, denied. Blocks: 2 readers, files of 2, 3 and 1 blocks. Header: files of 1, 2 and 3 blocks, the last truncated. Second: the second pass on an HDD. Stops: 1 reader, 1 worker, 4 buffers, 4 empty files and a good one, SIGINT at any moment. Stops, second: the second pass on an SSD with SIGINT | contract, buffers, order of closing; the program ends unless every buffer was lost, or SIGINT stranded tasks or the producer |
| `scan_keys` | 1 reader, 1 worker, one file of 3 blocks | **violated**: the second chunk is filed under the empty path |
| `manifest` | 3 runs in any mode over a file with 3 contents (one of them broken) that is written twice, decays and is locked at any moment | an alarm is real, bit-rot is found, the cache skips no broken file, up to named races and failed reads |
| `manifest_locked` | the same | **violated**: a file locked while the baseline is taken is reported as bit-rot |
| `review` | 4 findings of all three verdicts, one protected, all 96 combinations of options | only what was asked for and confirmed is deleted, and it is logged |
| `review_suspect` | the same | **violated**: `s` makes SUSPECT findings deletable without the option |
| `walker` | 23 volumes of 6 to 11 nodes, two of which may move: a plain tree, one with system directories (in two cases), a page file and a denied directory, one with junctions and a file link (also with the target or the junction denied, followed or as the root), one whose root is behind a junction, one where a junction can take the place of a directory, one deeper than `MaxPath`; by table and by listing, sorted and not, different roots | a file that stays is found once if it should be, and not otherwise, apart from `KnownGap`; paths were real; no climbing in circles |
| `session` | about 5,700 runs: 79 sample files alone on both kinds of disk; all lines of up to 3 of 12 words, every two switches, every two options with a value each; all disks and machines; options over pairs of special files, with blocks of 0, 16 and 64 bytes; runs with SIGINT | every field of the configuration is what the line says, threads fit the disk, checksums are right, and verdicts up to `FalseAlarm` and `Missed` where a block holds a signature, the merge loses nothing, each file is judged once, flagged stays flagged, rot is flagged unless the line or the scan cache says not to look |
| `header_first` | the runs of `session` with `--header-first` | **violated**: what was Corrupt in the first pass is not after the second |
| `baseline_kept` | the lines of `session` and one with two manifests | **violated**: `--write-manifest n --manifest b` overwrites `b` |

Every passing run checks deadlock except `scan`, where the program really stops:
because the pool is empty for good, or because tasks are stranded after a SIGINT.
`EndsUnlessStuck` says exactly in which states that may happen, so that every other
deadlock, a reader that waits for its second buffer among them, violates it. (In
`manifest` a file can always be locked or unlocked, so the check says nothing there;
a run of the program that is launched can always be killed.)

### What the code does that a reader may not expect

* *Lost path (scan_keys).* main.cpp:199 copies `fc.path` into each task and moves
  `fc` into the first one. A later chunk has an empty path, so its bytes go to an
  entry of `activeFiles` shared by all large files of that worker, and the last
  chunk finalizes that entry instead of the file. A file larger than a buffer gets
  no verdict in a full HDD pass. `BufferPool.hpp:64` wants `fileRef` as the key.
  The contract in `scan` says nothing of these files (`MisfiledIn`).
* *Lost buffers (scan).* A read that fails or yields nothing keeps its
  buffer (main.cpp:202-205). Every empty file of a full HDD pass does that. After
  `2 * threads + 2 * readers` of them all readers wait for ever.
* *SIGINT (scan).* Workers leave without draining their queues (main.cpp:225),
  the progress thread waits until the queues are empty (277), and nobody takes
  anything any more. `EndsUnlessStuck` holds with `Stranded` as the
  only other way out.
* *Locked files (manifest_locked).* IoHashDetector.cpp:43 calls the hash valid before
  it looks at the failure, and main.cpp:260 records what is valid. A file that could
  not be read enters the baseline with the hash of nothing, and the next comparison
  calls it "silent bit-rot (content changed, mtime same)", Corrupt, deletable.
* *Races of the baseline.* The mtime is taken after the hash (main.cpp:261). A file
  written in between is in the baseline with the old hash and the new time, and is
  later reported as bit-rot; the scan cache may know a broken file in the same way.
  `BitRotIsReal` and `CacheIsHonest` hold with exactly these lines (`raced`) exempted.
* *`s` in the review (review_suspect).* It toggles what is shown, whatever
  `--include-suspect` says, and what is shown can be deleted.
* *Second pass (header_first).* It knows nothing but paths (main.cpp:106, 115): size 0,
  no extension. Every survivor becomes a "zero-byte file", Suspect, or Ok without the
  size method, in place of what the first pass found, which main.cpp:296 has thrown away;
  a SIGINT during the second pass loses it altogether. On an HDD the header pass hashes
  nothing, so that `--manifest` finds no rot with `--header-first`.
* *Two manifests (baseline_kept).* `--manifest` and `--write-manifest` share one field;
  together they write where the user wanted to compare.
* *Files that are not found (`KnownGap`).* By the table: all of them when the root is
  reached through a junction or lies in a directory with an excluded name (Walker.cpp:71,
  74), and enumerate_mft returns true (78), so that no listing follows. An excluded name in
  another case hides nothing there. By listing: what is below a directory that may not be
  listed (132), directly or through the junction that is the root, or too deep for a path,
  without a word. Files that are links are found by
  table only. A root that is not there is a scan of 0 files.
* *Files that are found although they should not be (`KnownGap`).* The listing keeps paths
  (136-138) and opens them later (131). If a directory has been moved away by then and
  a junction of the same name put in its place, the junction is gone through, even
  without `--follow-links`, which looks at entries (135) and not at what is opened.
* *Damage that is not seen (`Missed`).* `mz_inflateInit2(16 + 15)` is refused by the
  vendored miniz, which takes windows of 15 bits only, so that every GZIP file with a good
  header is Skipped; a JPEG that is damaged in its data and has its last marker is Ok, and so
  is an MP4 cut between two boxes after moov, or damaged inside them; of MKV, FLAC and
  SQLite only the header is looked at. The samples of other types are damaged in their
  structure: the text of a PDF, or of a type no detector knows, has no checksum either.
* *False alarms (`FalseAlarm`).* An empty file is Suspect (SizeDetector.cpp:8), and so is an
  archive with an entry that is encrypted or packed by a method miniz does not know
  (ZipDetector.cpp:43-55). JPEG restart markers are taken to have a length
  (JpegDetector.cpp:42); a moov box that goes to the end of the file is not noted
  (MediaDetectors.cpp:37); the first startxref near the end of a PDF decides, which in a
  linearized file may be 0. With the entropy method the header pass on an HDD calls every
  file of more than 1 MiB Suspect, for its entropy is not computed.
* *Options.* An option that takes a value swallows the next word even if that is an
  option; as the last word it is ignored, as every unknown one is. An empty
  name after `--manifest` is no manifest.
* *Blocks of no bytes.* With `--hdd-block-size 0`, or a word there that is
  no number (Config.cpp:101), every read of an HDD scan asks for nothing and loses its
  buffer. Every file streams then and comes without a footer, which by
  MagicDetector.cpp:57 "shouldn't happen": a whole PNG or JPEG is Unreadable.
* *Order of a scan.* A disk that was found to be an HDD is not scanned in sorted order
  unless `--disk-profile hdd` says so (Walker.cpp:151).

### Why the bounds are enough

Capacities are 64 in the code; with 1 every queue is full and empty in turn, which
is where threads block, and more threads can wait than there are values or places
to wake them one by one, so that a missing notify_all shows. What a larger capacity
adds to the safety of the queue is covered by the theorems, which hold for all of
them. Three consumers (or
readers) and one free place make notify_one choose, and let a newcomer overtake
the woken thread. Two workers and files hashed by parity put files of one reader
into two queues and files of two readers into one. In two setups of `scan`
the worker queue holds as many tasks as there are buffers (6), so
that buffers, not places, run out. Files of up to three blocks have a first, a
middle and a last chunk. Sizes 0, 1, 2 and 3 surround the one-block border of the
header pass. Four findings with the SUSPECT first in path order and last in the
list move when `s` is used; two numbers can be the same or different.

Two moves of `walker` change a directory and one below or above it between two records,
which is what a path from two moments needs, and make one node change places with another;
the trees have an inner directory with a smaller number than its parent, so that either
is read first. Four names are the longest
path, enough for a junction to be gone through three times. Three words of a line make an
option with its value and one word before or after it, or two options that want a value
and one word left; two options with a value each make the later one win over the same
field and leave any other alone. A sample is cut at every byte (JPEG) or around every boundary of its
format (PNG, MP4); sizes stay at 64 bytes and below, with `LargeBytes` (1 MiB in the code)
= 50 and `Lookback` (1024) = 52, so that files lie on both sides of both, and blocks of 16
bytes make up to four of a file. The register of 10 bits over bytes of 4 keeps what
matters of 32 and 8: it is longer than a byte, and the polynomials have their top bit set.

### Fairness

Weak fairness of each thread's steps as long as it is not blocked: `WF(PushStep)`,
`WF(PopStep)` and `WF(CallPop)` for a queue, because a thread inside a call is
scheduled, gets the mutex, and consumers call pop() in a loop; `WF(AcquireStep)`
for the pool, where nothing is assumed of release(). `ScanPipeline` has `WF(Threads)`: while some thread
can go on, some thread does. Nothing more is needed there, for no thread of a scan can keep
busy for ever. The operating system's scheduler and the mutex give no more, and no
strong fairness is used: where a thread could be overtaken for ever (a consumer of
a queue others keep emptying), no property promises it progress before close().
A read is assumed to return. SIGINT, pushes to a queue, close() and spurious
wake-ups are not fair.

## Proofs

Every theorem holds for all values of the constants that satisfy the assumption of the
module: any finite sets of threads, files and tasks, any positive capacities, any files,
any command line. `QueueAssumption`, `PoolAssumption`, `PipelineAssumption`,
`ManifestAssumption`, `ReviewAssumption`, `CommandLineAssumption`, `SessionAssumption` and
`CrcAssumption` say no more than what kind of thing each constant is, `WalkerAssumption`
that a volume is a tree, as every file system sees to; TLC evaluates them in the runs.

`CondVarProofs` counts: `notify_one` adds exactly one to the awake threads when some
thread waits, a thread that returns takes one away, `notify_all` leaves nobody
waiting, and no notification touches the others.

`BoundedQueueProofs`. `NoLostWakeup` says: while a consumer waits, there are at
least as many awake consumers as values in the queue (and dually). It cannot be
stated about one waiter, because one notification is given per value and any awake
thread may use it; the count is what is inductive. With the types, `Conserved`
(accepted values are the delivered ones followed by the queue) and
`EndedMeansDrained` it forms `IInv`. `Conserved` is needed for the bound
`Len(q) <= Cap` in the dual count and, in the refinement, to identify `Head(q)` with the
next undelivered value. Each conjunct has a lemma with one step per action
(`TypeStep`, `ConservedStep`, `NoLostWakeupStep`, `EndedStep`); `Invariance` puts
them together. From it follow `TypeCorrect`, `ValuesConserved`, `WakeupsSuffice`,
`EndIsFinal`, and `Refinement`: the monitor implements `BoundedFifo`.

`BufferPoolProofs` does the same for the pool: `TypeOK`, `OneOwner` and
`NoLostWakeup` are inductive together.

`ScanPipelineProofs`: types, the order of closing, and the balance of the buffers, for
any setup. None of the three is inductive alone. That a queue is closed after the last
push (`QueuesClosedLast`) needs `Control`: what each thread has in hand in each of its
states (`ReaderHand`, `WorkerHand`, `ProducerHand`), and that the main thread goes on
only behind those it has joined (`MainOrder`). That free buffers and held ones add up to
the pool (`BuffersAddUp`) is a count over all hands, outboxes and queues. One step of a
reader moves a task from its outbox to a queue, so the count is split by holder
(`Loads`, `CountMoves`), and `BalanceReader` and `BalanceWorker` do one step each. The
number of files that have eaten a buffer is bounded by the number of files only because
a file is at one place on its way and is read by one reader (`AtOnePlace`,
`ReadNothingOnce`).

The second half proves `ScanImplementsContract`: every scan, in any of its modes and
of any files, implements `ScanContract`, with the finalized reports for its state. Of a
file that is torn into several chunks in a full HDD pass (`Misfiled`) the contract says
nothing, and what is proved of these is that their chunks and states touch no other file
(`Astray`, `StatesAstray`): a file of one block keeps its verdict beside them. The invariant
`RInv` follows the one or two tasks of a file: they are right when they are made
(`OutboxesRight`), right in the queue and in the hand of the worker that the hash of the
path gives (`LinesProper`; hand and queue are one `Line`, so that pop changes nothing),
the first is before the last, and the half-built state is there exactly between
them (`Tracked`). `NotLost` says of each due file that it is on its way, in a line, or
reported, unless SIGINT came; with `Joined` (who has left has left nothing behind) it
gives the last step of the contract: the scan ends when all is reported.

`ManifestProofs` shows that an alarm is real. `BitRotIsReal` is about one step, but
depends on the whole history of the file. `IInv` carries it: `LinesSound` says of each
line of the three maps (on disk, loaded, being collected) that it is not from the
future, and that if its mtime is the present one it has the present content, or was
raced, or comes from a failed read, or the file decayed. `AllInHand` relates the hash a
worker holds to the content on disk, and says that a file written since the walk is
newer than its line in the baseline, which is why a race in the comparing run raises no
false alarm. `TypeStep`, `LinesStep` and `HandStep` show that it is kept, with one step
per action; `AlarmStep` that `Compare`, the only action that raises an alarm, is then
right.

Two more theorems are about what the program believes: rot is found (`RotIsNotMissed`)
and a file that the scan cache lets the walk skip is as it was judged
(`SkippedFilesAreSound`). They need `CInv`: `CacheSound` says of each line of the cache
what `LinesSound` says of the baseline, with the verdict in place of the hash, and
`AllJudged` says what a worker has found out about the file in its hand at each point
between the detectors and the recording.

`ReviewUIProofs` shows that types, `SelectionIsMarked`, `NothingUnasked`,
`ProtectedRefused` and `AuditTrail` hold of every session, for any findings and options.
`SortedList` is what everything rests on: a sorted list of a set
holds each member once, so that a change of the marked positions and the same change of
the marked findings agree (`SelectionStep`), and the length of the list to delete is the
number of files the user marked, which decides whether the phrase is due
(`FilterStep`, `ConfirmStep`). `Listed` says which list is on the screen; `Asked` what is
already settled at each point of the program, so that the deletion loop cannot do harm.
The audit log (`DeletionsLogged`) adds `Recorded`: a file the user marked is pending or
in the log, never both, and what the log calls a success is what has been deleted, but
for the file at whose line the program stands (`OnRecord`).

`SessionProofs` is about the whole program.

* `LineRead`: the configuration is what the line says. The conditions of `ParsedAsRead`
  are about the finished line; the invariant `LineInv` says the same of the words so far
  (`Said`: switches and modes that stood there, the last value of each option, the
  methods of the last `--methods` with what was added behind it, numbers and choices in
  `ChoicesSaid`). Threads and readers are apart (`TeamSaid`): when the scan starts the
  program puts its own number where the line says 0 or nothing, so that afterwards only
  `TeamKept` remains. The steps are one word
  without a value and one with (`WordSaid`, `ValueSaid`). Which
  words are values (`IsValue`) is a recursion over the line, which `LeastNumber` and
  `RecursiveExists` handle with sets: a set of numbers that is not empty has a least
  member, so that no induction rule with an operator has to be instantiated.
* `WorstIsKept`: the detectors run in an order in which all that need the hash come after
  the one that computes it, whatever methods the line names (`HashFirstJoined` for
  the stable sort, `PipelineInOrder`), and therefore the loop with its short circuit
  keeps the greatest severity that any of them gives (`JudgeIsWorst`).
* `FilesOnce`, `SecondPassKeeps`, `RotFound`, `SessionTyped`, `DiskHasThreads`: from
  `SessionInv`. `Phases` says which pass can follow which; `Results` that a
  result is that of a context of a file that was due in that pass, and judged by the
  loop; `Counted` that findings and survivors are what the pass has made of them;
  `Covered` that, unless SIGINT came, a due file is still to scan or has its results.
  Without the last, nothing could be said of a pass that has ended.
* `ChecksumsAgree`: the CRC-32C of a file, taken by table or by instructions, in words of
  eight bytes, four and one, and carried from chunk to chunk, is the one of its bytes
  together, bit by bit; for any polynomials and widths, any blocks and any
  address of the buffer. Exclusive or goes through the loop over the bits (`TurnXor`,
  `BitsXor`), so the low byte can be looked up in the table and the rest be only shifted
  (`BitsShift`, `TableIsBits`). A register that has gone through one sequence and then
  through another has gone through both together (`ThroughJoin`); from this follow the
  words of a run (`RunCarried`, `WordsCarried`) and the chunks of a file (`Flattened`,
  `ChecksumCarried`). The invariant `AllSummed` ties this to the run: what a context
  carries are sequences of bytes (`PartsTyped`), and a result has their checksum.

`WalkerProofs` is about any volume, any root and options, and any moves beside the walk.

* *The table* (`NoLoopHolds`, `PathsWereRealHolds`). `Above(up, n)` is the least set that has
  n and, with each node, its parent (`AboveLeast`, `AboveStep`); what climbs is reasoned
  about through this alone. `Kept` says that a node that was not moved is where it was, and
  `Table` that a record holds the first parent of its node, for what has been moved since
  the query is not returned. The table is thus a part of the first tree: it has no cycle, and
  a path from it is one of that tree. `getPath` gives one exactly if all
  records above are there, and by `Read` they are if none of them was moved.
* *The filter of the table* (`StableFoundHolds`, first half). What is asked of the text of
  a path in `Passes` is what `Wanted` asks of the directories of a file: a path that begins
  with the words of the root is one that leads through it, unless a link is crossed.
* *The listing* (second half). What follows is about files above which nothing was moved,
  in volumes where nothing was moved above a link either (`Steady`): such a file is where
  a path led at first. For a wanted one that is not found yet the stack has a path that
  leads to a directory it is in, with no excluded one between (`Finds`). Without
  `--follow-links`, of all paths on the stack one at most leads to a directory a file is
  in, none any more when it is found, and only wanted files are found (`FindsOnly`,
  `OnlyOnce`). A step takes one path off and adds its entries, one for each, so that the
  file is found or one of the new paths leads to it. An empty stack leaves nothing but
  what is found.
* Sorting and opening the files again neither lose nor double an entry (`Permuted`).

What is only model-checked:

* `AcceptedIsDelivered`, `CloseReleases`, `FreeBufferIsTaken` and `EndsUnlessStuck`:
  liveness under fairness is out of the prover's reach. `NoLostWakeup`, which is proved,
  is the reason why the first three hold.
* `VerdictFits`: it compares the detectors with what is known of sample files, which are
  data of `MCSession`, and has no form for every value of the constants.

`ScanImplementsContract` and `FilesOnce` do not meet in a theorem: that one step of
`Session` is what the threads of `ScanPipeline` do with a file is argued above, not proved.

## Not modelled

Formatting and printing (`Report.cpp`), COM, the destructor of the pool, the alignment of
`--no-cache` reads, several disks under one volume, `get_volume_path`, and a second
SIGINT, which Windows answers by ending the process. The device queries and the benchmark
are inputs: what they answer, not how. A page of a mapped file that cannot be read raises
a structured exception and ends the program in most builds; only failing reads are
modelled. What miniz finds in an archive, and whether a signature fits, are given. A file
that changes while it is being read differs from the walk's size only as `OnDisk` says.
`ThreadPool.hpp` is not used; miniz and xxhash are vendored.
For the manifest: `--header-first`, files that disappear, and a save that fails or is
torn half way. End of input at the prompt, where the program loops for ever, is a stutter.

## Plan

Done: all components that hold state are modelled and checked. Every safety property of a
passing run and both refinements are theorems, except `VerdictFits`.

What could be added: a refinement between `ScanPipeline` and `Session`, with a file of
`Session` as a due file of the contract; `--header-first` in `Manifest`; a torn save there.
