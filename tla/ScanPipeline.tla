---------------------------- MODULE ScanPipeline ----------------------------
(***************************************************************************)
(* run_scan of main.cpp: the producer that walks the tree, the readers of  *)
(* an HDD scan, the workers, the progress thread and the main thread that  *)
(* joins them all, over bounded queues and a pool of buffers.  push, pop,  *)
(* acquire and release are single steps here (BoundedQueue and BufferPool  *)
(* show that they may be).  A file is a number of blocks of the size of a  *)
(* buffer; what a block contains is its file and its index.                *)
(***************************************************************************)
EXTENDS Integers, Sequences, FiniteSets

CONSTANTS
  AllFiles, AllWorkers, AllReaders,  \* names for files and threads
  NoPath,       \* the empty path of a FileContext that was moved from
  Setups        \* the scans considered, a sequence of records, see below

(* A scan is given                                                         *)
(*   workers     cfg.threads of them, each with its own queue              *)
(*   readers     cfg.readers of them; none when the disk is an SSD         *)
(*   hashOf      std::hash of a path, modulo cfg.threads                   *)
(*   queueCap    capacity of a worker queue (64 in the code)               *)
(*   readerCap   capacity of the reader queue (64 * threads in the code)   *)
(*   headerOnly  the first pass of --header-first                          *)
(*   second      its second pass, over a list of paths                     *)
(*   sizes       size in blocks that the directory gives for each file     *)
(*   onDisk      number of leading blocks of each file that can be read    *)
(*   denied      files that CreateFile cannot open                         *)
(*   unchanged   files whose mtime is the one in the scan cache            *)
(*   maxBlocks   cfg.maxFileBytes, 0 for no limit                          *)
(*   mayQuit     whether SIGINT may come                                   *)
ASSUME PipelineAssumption ==
  /\ IsFiniteSet(AllFiles) /\ IsFiniteSet(AllWorkers) /\ IsFiniteSet(AllReaders)
  /\ NoPath \notin AllFiles
  /\ \A i \in DOMAIN Setups : LET s == Setups[i] IN
       /\ s.workers \in (SUBSET AllWorkers) \ {{}}
       /\ s.readers \in SUBSET AllReaders
       /\ DOMAIN s.sizes \subseteq AllFiles
       /\ s.sizes \in [DOMAIN s.sizes -> Nat]
       /\ s.onDisk \in [DOMAIN s.sizes -> Nat]
       /\ s.hashOf \in [DOMAIN s.sizes -> s.workers]
       /\ s.queueCap \in Nat \ {0} /\ s.readerCap \in Nat \ {0}
       /\ s.denied \subseteq DOMAIN s.sizes /\ s.unchanged \subseteq DOMAIN s.sizes
       /\ {s.headerOnly, s.second, s.mayQuit} \subseteq BOOLEAN
       /\ ~(s.headerOnly /\ s.second)
       /\ s.maxBlocks \in Nat

VARIABLES
  setup,                                  \* which of the Setups; fixed
  quit,                                   \* g_quit
  todo, producer, pushing,                \* the walk and the producer thread
  readerQ, readerClosed,                  \* readerQueue
  reader, rfile, rpath, left, outbox,     \* per reader: pc, file opened,
                                          \* fc.path, remaining, tasks to push
  workerQ, workerClosed,                  \* workerQueues
  worker, wtask, active,                  \* per worker: pc, task, activeFiles
  free,                                   \* number of buffers in the pool
  main, progress,                         \* the main and progress threads
  reported                                \* the finalized files, by fc.path

Given == Setups[setup]
Files == DOMAIN Given.sizes
Workers == Given.workers
Readers == Given.readers
IsSsd == Readers = {}
HeaderOnly == Given.headerOnly
OnDisk == Given.onDisk
Paths == AllFiles \cup {NoPath}
NumBuffers == 2 * Cardinality(Workers) + 2 * Cardinality(Readers)

(* fc.size: the walk fills it in; the second pass of --header-first makes  *)
(* its contexts from the path alone and leaves it zero.                    *)
DeclaredIn ==
  [i \in DOMAIN Setups |->
     [f \in DOMAIN Setups[i].sizes |->
        IF Setups[i].second THEN 0 ELSE Setups[i].sizes[f]]]
Declared == DeclaredIn[setup]

(* The part of a FileContext that the scan carries, of a file and of a     *)
(* default-constructed one; the bytes hashed so far complete a FileState.  *)
Context(f) == [path |-> f, size |-> Declared[f], partial |-> HeaderOnly]
NoContext == [path |-> NoPath, size |-> 0, partial |-> FALSE]
NoState == [fc |-> NoContext, seen |-> <<>>]

(* A WorkTask.  buf: it carries a buffer, whose bytes are data.            *)
Task(path, fc, buf, first, last, data) ==
  [path |-> path, fc |-> fc, buf |-> buf, first |-> first, last |-> last,
   data |-> data]

(* The task for a file of which nothing was read.                          *)
WholeFileTask(f) ==
  Task(f, [Context(f) EXCEPT !.partial = FALSE], FALSE, TRUE, TRUE, <<>>)

NoTask == Task(NoPath, NoContext, FALSE, FALSE, TRUE, <<>>)

Block(f, n) == <<[file |-> f, block |-> n]>>

producerVars == <<todo, producer, pushing>>
readerQVars == <<readerQ, readerClosed>>
readerVars == <<reader, rfile, rpath, left, outbox>>
workerQVars == <<workerQ, workerClosed>>
workerVars == <<worker, wtask, active, reported>>
mainVars == <<main, progress>>
vars == <<setup, quit, producerVars, readerQVars, readerVars, workerQVars,
          workerVars, free, mainVars>>

Init ==
  /\ setup \in DOMAIN Setups
  /\ quit = FALSE
  /\ todo = Files
  /\ producer = "walk"
  /\ pushing = NoPath
  /\ readerQ = <<>> /\ readerClosed = FALSE
  /\ reader = [r \in Readers |-> "check"]
  /\ rfile = [r \in Readers |-> NoPath]
  /\ rpath = [r \in Readers |-> NoPath]
  /\ left = [r \in Readers |-> 0]
  /\ outbox = [r \in Readers |-> <<>>]
  /\ workerQ = [w \in Workers |-> <<>>]
  /\ workerClosed = [w \in Workers |-> FALSE]
  /\ worker = [w \in Workers |-> "check"]
  /\ wtask = [w \in Workers |-> NoTask]
  /\ active = [w \in Workers |-> [p \in Paths |-> NoState]]
  /\ free = NumBuffers
  /\ main = "joinProducer"
  /\ progress = "running"
  /\ reported = [p \in Paths |-> <<>>]

(* push() on a queue: it blocks while the queue is full and open, and does *)
(* nothing when it is closed.                                              *)
MayPush(q, isClosed, cap) == Len(q) < cap \/ isClosed
Pushed(q, isClosed, v) == IF isClosed THEN q ELSE Append(q, v)

-----------------------------------------------------------------------------
(* The producer.                                                           *)

(* The walk hands a file to the callback, which returns at once after      *)
(* SIGINT and skips a file that the scan cache knows.  The second pass     *)
(* goes through its list instead, without the cache, until SIGINT.         *)
Walk(f) ==
  /\ producer = "walk"
  /\ f \in todo
  /\ todo' = IF Given.second /\ quit THEN {} ELSE todo \ {f}
  /\ IF quit \/ (~Given.second /\ f \in Given.unchanged)
       THEN UNCHANGED <<producer, pushing>>
       ELSE producer' = "push" /\ pushing' = f
  /\ UNCHANGED <<setup, quit, readerQVars, readerVars, workerQVars, workerVars, free,
                 mainVars>>

ProducerPush ==
  LET w == Given.hashOf[pushing] IN
  /\ producer = "push"
  /\ \/ /\ IsSsd
        /\ MayPush(workerQ[w], workerClosed[w], Given.queueCap)
        /\ workerQ' = [workerQ EXCEPT
             ![w] = Pushed(@, workerClosed[w], WholeFileTask(pushing))]
        /\ UNCHANGED readerQ
     \/ /\ ~IsSsd
        /\ MayPush(readerQ, readerClosed, Given.readerCap)
        /\ readerQ' = Pushed(readerQ, readerClosed, pushing)
        /\ UNCHANGED workerQ
  /\ producer' = "walk"
  /\ pushing' = NoPath
  /\ UNCHANGED <<setup, quit, todo, readerClosed, readerVars, workerClosed, workerVars,
                 free, mainVars>>

CloseReaderQueue == readerClosed' = TRUE

(* Faulty: the worker queues of an SSD scan stay open.                     *)
AfterWalkDone == "done"

AfterWalk == IF IsSsd THEN "closeWorkers" ELSE "done"

WalkEnds ==
  /\ producer = "walk"
  /\ todo = {}
  /\ CloseReaderQueue
  /\ producer' = AfterWalk
  /\ UNCHANGED <<setup, quit, todo, pushing, readerQ, readerVars, workerQVars,
                 workerVars, free, mainVars>>

(* for (auto& q : workerQueues) q->close(), in any order.                  *)
CloseWorkerQueue(w) ==
  /\ ~workerClosed[w]
  /\ workerClosed' = [workerClosed EXCEPT ![w] = TRUE]
  /\ UNCHANGED workerQ

ProducerCloses(w) ==
  /\ producer = "closeWorkers"
  /\ CloseWorkerQueue(w)
  /\ UNCHANGED <<setup, quit, producerVars, readerQVars, readerVars, workerVars, free,
                 mainVars>>

ProducerEnds ==
  /\ producer = "closeWorkers"
  /\ \A w \in Workers : workerClosed[w]
  /\ producer' = "done"
  /\ UNCHANGED <<setup, quit, todo, pushing, readerQVars, readerVars, workerQVars,
                 workerVars, free, mainVars>>

Producer ==
  \/ \E f \in Files : Walk(f)
  \/ ProducerPush
  \/ WalkEnds
  \/ \E w \in Workers : ProducerCloses(w)
  \/ ProducerEnds

-----------------------------------------------------------------------------
(* A reader.                                                               *)

ReaderCheck(r) ==
  /\ reader[r] = "check"
  /\ reader' = [reader EXCEPT ![r] = IF quit THEN "exited" ELSE "pop"]
  /\ UNCHANGED <<setup, quit, producerVars, readerQVars, rfile, rpath, left, outbox,
                 workerQVars, workerVars, free, mainVars>>

(* pop() and CreateFile.                                                   *)
ReaderPop(r) ==
  LET f == Head(readerQ) IN
  /\ reader[r] = "pop"
  /\ readerQ # <<>>
  /\ readerQ' = Tail(readerQ)
  /\ rfile' = [rfile EXCEPT ![r] = f]
  /\ IF f \in Given.denied
       THEN /\ outbox' = [outbox EXCEPT ![r] = <<WholeFileTask(f)>>]
            /\ reader' = [reader EXCEPT ![r] = "push"]
            /\ UNCHANGED <<rpath, left>>
       ELSE /\ rpath' = [rpath EXCEPT ![r] = f]
            /\ left' = [left EXCEPT ![r] = Declared[f]]
            /\ reader' = [reader EXCEPT ![r] = "acquire"]
            /\ UNCHANGED outbox
  /\ UNCHANGED <<setup, quit, producerVars, readerClosed, workerQVars, workerVars,
                 free, mainVars>>

ReaderEnds(r) ==
  /\ reader[r] = "pop"
  /\ readerQ = <<>>
  /\ readerClosed
  /\ reader' = [reader EXCEPT ![r] = "exited"]
  /\ UNCHANGED <<setup, quit, producerVars, readerQVars, rfile, rpath, left, outbox,
                 workerQVars, workerVars, free, mainVars>>

Acquire(r) ==
  /\ reader[r] \in {"acquire", "acquireFooter"}
  /\ free > 0
  /\ free' = free - 1
  /\ reader' = [reader EXCEPT
       ![r] = IF @ = "acquire" THEN "read" ELSE "readFooter"]
  /\ UNCHANGED <<setup, quit, producerVars, readerQVars, rfile, rpath, left, outbox,
                 workerQVars, workerVars, mainVars>>

(* Faulty: remaining wraps below zero when a file has grown.               *)
RemainingWraps(r) == left[r] - 1

(* remaining -= min(got, remaining)                                        *)
Remaining(r) == IF left[r] = 0 THEN 0 ELSE left[r] - 1

(* One turn of the read loop up to push().  The FileContext is moved into  *)
(* the first task, so fc.path is empty in every later turn.                *)
ReadChunk(r) ==
  LET f == rfile[r]
      first == left[r] = Declared[f]
      next == Declared[f] - left[r] + 1
      fc == IF first THEN Context(f) ELSE NoContext
      data == IF left[r] > 0 THEN Block(f, next) ELSE <<>>
  IN
  /\ ~HeaderOnly
  /\ reader[r] = "read"
  /\ next <= OnDisk[f]
  /\ outbox' = [outbox EXCEPT
       ![r] = <<Task(rpath[r], fc, TRUE, first, Remaining(r) = 0, data)>>]
  /\ rpath' = [rpath EXCEPT ![r] = NoPath]
  /\ left' = [left EXCEPT ![r] = Remaining(r)]
  /\ reader' = [reader EXCEPT ![r] = "push"]
  /\ UNCHANGED <<setup, quit, producerVars, readerQVars, rfile, workerQVars,
                 workerVars, free, mainVars>>

(* Only a file without any chunk so far gets a task.                       *)
TasksOfFailure(r) ==
  IF left[r] = Declared[rfile[r]] THEN <<WholeFileTask(rfile[r])>> ELSE <<>>

(* ReadFile fails or yields nothing: the loop is left, and the buffer is   *)
(* not released.                                                           *)
ReadNothing(r) ==
  LET gone == TasksOfFailure(r) = <<>> IN
  /\ ~HeaderOnly
  /\ reader[r] = "read"
  /\ Declared[rfile[r]] - left[r] >= OnDisk[rfile[r]]
  /\ outbox' = [outbox EXCEPT ![r] = TasksOfFailure(r)]
  /\ reader' = [reader EXCEPT ![r] = IF gone THEN "check" ELSE "push"]
  /\ rfile' = [rfile EXCEPT ![r] = IF gone THEN NoPath ELSE @]
  /\ rpath' = [rpath EXCEPT ![r] = NoPath]
  /\ left' = [left EXCEPT ![r] = 0]
  /\ UNCHANGED <<setup, quit, producerVars, readerQVars, workerQVars, workerVars, free,
                 mainVars>>

(* The header pass: the first block and, of a file of more than one block, *)
(* the last one.  The outcome of ReadFile is not looked at.                *)
ReadHeader(r) ==
  LET f == rfile[r]
      one == Declared[f] <= 1
      data == IF Declared[f] > 0 /\ OnDisk[f] > 0 THEN Block(f, 1) ELSE <<>>
  IN
  /\ HeaderOnly
  /\ reader[r] = "read"
  /\ outbox' = [outbox EXCEPT
       ![r] = <<Task(f, Context(f), TRUE, TRUE, one, data)>>]
  /\ rpath' = [rpath EXCEPT ![r] = NoPath]
  /\ left' = [left EXCEPT ![r] = 0]
  /\ reader' = [reader EXCEPT ![r] = IF one THEN "push" ELSE "acquireFooter"]
  /\ UNCHANGED <<setup, quit, producerVars, readerQVars, rfile, workerQVars,
                 workerVars, free, mainVars>>

LastBlock(f) == IF Declared[f] <= OnDisk[f] THEN Block(f, Declared[f]) ELSE <<>>

(* Faulty: the path is taken from the FileContext that has been moved.     *)
FooterTaskMovedPath(r) ==
  Task(rpath[r], NoContext, TRUE, FALSE, TRUE, LastBlock(rfile[r]))

FooterTask(r) ==
  Task(rfile[r], NoContext, TRUE, FALSE, TRUE, LastBlock(rfile[r]))

ReadFooter(r) ==
  /\ reader[r] = "readFooter"
  /\ outbox' = [outbox EXCEPT ![r] = Append(@, FooterTask(r))]
  /\ reader' = [reader EXCEPT ![r] = "push"]
  /\ UNCHANGED <<setup, quit, producerVars, readerQVars, rfile, rpath, left,
                 workerQVars, workerVars, free, mainVars>>

ReaderPush(r) ==
  LET w == Given.hashOf[rfile[r]]
      rest == Tail(outbox[r])
      over == rest = <<>> /\ left[r] = 0
  IN
  /\ reader[r] = "push"
  /\ MayPush(workerQ[w], workerClosed[w], Given.queueCap)
  /\ workerQ' = [workerQ EXCEPT
       ![w] = Pushed(@, workerClosed[w], Head(outbox[r]))]
  /\ outbox' = [outbox EXCEPT ![r] = rest]
  /\ reader' = [reader EXCEPT
       ![r] = IF rest # <<>> THEN "push" ELSE IF over THEN "check" ELSE "acquire"]
  /\ rfile' = [rfile EXCEPT ![r] = IF over THEN NoPath ELSE @]
  /\ UNCHANGED <<setup, quit, producerVars, readerQVars, rpath, left, workerClosed,
                 workerVars, free, mainVars>>

Reader(r) ==
  /\ r \in Readers
  /\ \/ ReaderCheck(r) \/ ReaderPop(r) \/ ReaderEnds(r)
     \/ Acquire(r) \/ ReadChunk(r) \/ ReadNothing(r)
     \/ ReadHeader(r) \/ ReadFooter(r) \/ ReaderPush(r)

-----------------------------------------------------------------------------
(* A worker.                                                               *)

WorkerCheck(w) ==
  /\ worker[w] = "check"
  /\ worker' = [worker EXCEPT ![w] = IF quit THEN "exited" ELSE "pop"]
  /\ UNCHANGED <<setup, quit, producerVars, readerQVars, readerVars, workerQVars,
                 wtask, active, reported, free, mainVars>>

WorkerPop(w) ==
  /\ worker[w] = "pop"
  /\ workerQ[w] # <<>>
  /\ workerQ' = [workerQ EXCEPT ![w] = Tail(@)]
  /\ wtask' = [wtask EXCEPT ![w] = Head(workerQ[w])]
  /\ worker' = [worker EXCEPT ![w] = "work"]
  /\ UNCHANGED <<setup, quit, producerVars, readerQVars, readerVars, workerClosed,
                 active, reported, free, mainVars>>

(* Faulty: leaves as soon as its queue is empty.                           *)
Idle(w) == workerQ[w] = <<>>

Drained(w) == workerQ[w] = <<>> /\ workerClosed[w]

WorkerEnds(w) ==
  /\ worker[w] = "pop"
  /\ Drained(w)
  /\ worker' = [worker EXCEPT ![w] = "exited"]
  /\ UNCHANGED <<setup, quit, producerVars, readerQVars, readerVars, workerQVars,
                 wtask, active, reported, free, mainVars>>

(* The FileState that a task belongs to, with the task added to it.        *)
Updated(w, t) ==
  LET state == active[w][t.path]
  IN  [fc |-> IF t.first THEN t.fc ELSE state.fc, seen |-> state.seen \o t.data]

(* The report of a finalized file.                                         *)
Filed(state) ==
  [reported EXCEPT ![state.fc.path] = Append(@,
     [size |-> state.fc.size, partial |-> state.fc.partial, seen |-> state.seen])]

Capped(state) == Given.maxBlocks > 0 /\ state.fc.size > Given.maxBlocks

(* Faulty: releases only the buffer of the last chunk.                     *)
FreedByLast(t) == IF t.buf /\ t.last THEN 1 ELSE 0

Freed(t) == IF t.buf THEN 1 ELSE 0

(* A task from the lookup in activeFiles to the end of the loop body: hash *)
(* the bytes, release the buffer and, after the last chunk, finalize the   *)
(* file, unless it is too large, and erase its state.                      *)
WorkerProcess(w) ==
  LET t == wtask[w]
      state == Updated(w, t)
  IN
  /\ worker[w] = "work"
  /\ free' = free + Freed(t)
  /\ active' = [active EXCEPT ![w][t.path] = IF t.last THEN NoState ELSE state]
  /\ reported' = IF t.last /\ ~Capped(state) THEN Filed(state) ELSE reported
  /\ wtask' = [wtask EXCEPT ![w] = NoTask]
  /\ worker' = [worker EXCEPT ![w] = "check"]
  /\ UNCHANGED <<setup, quit, producerVars, readerQVars, readerVars, workerQVars,
                 mainVars>>

Worker(w) ==
  /\ w \in Workers
  /\ WorkerCheck(w) \/ WorkerPop(w) \/ WorkerEnds(w) \/ WorkerProcess(w)

-----------------------------------------------------------------------------
(* The main thread, the progress thread and the signal handler.            *)

MainGoes(from, to) ==
  /\ main = from
  /\ main' = to
  /\ UNCHANGED <<setup, quit, producerVars, readerQVars, readerVars, workerQVars,
                 workerVars, free, progress>>

JoinProducer == producer = "done" /\ MainGoes("joinProducer", "joinReaders")

ReadersJoined == \A r \in Readers : reader[r] = "exited"

AfterReaders == IF IsSsd THEN "joinWorkers" ELSE "closeWorkers"

JoinReaders == ReadersJoined /\ MainGoes("joinReaders", AfterReaders)

MainCloses(w) ==
  /\ main = "closeWorkers"
  /\ CloseWorkerQueue(w)
  /\ UNCHANGED <<setup, quit, producerVars, readerQVars, readerVars, workerVars, free,
                 mainVars>>

MainClosed ==
  /\ \A w \in Workers : workerClosed[w]
  /\ MainGoes("closeWorkers", "joinWorkers")

JoinWorkers ==
  /\ \A w \in Workers : worker[w] = "exited"
  /\ MainGoes("joinWorkers", "joinProgress")

JoinProgress == progress = "done" /\ MainGoes("joinProgress", "done")

Main ==
  \/ JoinProducer \/ JoinReaders \/ MainClosed \/ JoinWorkers \/ JoinProgress
  \/ \E w \in Workers : MainCloses(w)

(* is_active() has become false: every queue is closed and empty.  The     *)
(* queues are looked at one by one, but a closed empty queue stays so.     *)
ProgressEnds ==
  /\ progress = "running"
  /\ \A w \in Workers : workerClosed[w] /\ workerQ[w] = <<>>
  /\ progress' = "done"
  /\ UNCHANGED <<setup, quit, producerVars, readerQVars, readerVars, workerQVars,
                 workerVars, free, main>>

Sigint ==
  /\ Given.mayQuit
  /\ ~quit
  /\ quit' = TRUE
  /\ UNCHANGED <<setup, producerVars, readerQVars, readerVars, workerQVars, workerVars,
                 free, mainVars>>

Done == main = "done" /\ UNCHANGED vars

Threads ==
  \/ Producer
  \/ \E r \in AllReaders : Reader(r)
  \/ \E w \in AllWorkers : Worker(w)
  \/ Main
  \/ ProgressEnds

Next == Threads \/ Sigint \/ Done

(* While some thread can go on, some thread does.  Nothing more is needed: *)
(* no thread of a scan can keep busy for ever.                             *)
Fairness == WF_vars(Threads)

Spec == Init /\ [][Next]_vars /\ Fairness

-----------------------------------------------------------------------------

Contexts == [path : Paths, size : Nat, partial : BOOLEAN]
Blocks == [file : Files, block : Nat]
Tasks == [path : Paths, fc : Contexts, buf : BOOLEAN, first : BOOLEAN,
          last : BOOLEAN, data : Seq(Blocks)]
FileStates == [fc : Contexts, seen : Seq(Blocks)]
Reports == [size : Nat, partial : BOOLEAN, seen : Seq(Blocks)]

ProducerTyped ==
  /\ todo \in SUBSET Files
  /\ producer \in {"walk", "push", "closeWorkers", "done"}
  /\ pushing \in Paths
  /\ readerQ \in Seq(Files) /\ readerClosed \in BOOLEAN

ReadersTyped ==
  /\ reader \in [Readers -> {"check", "pop", "acquire", "read",
                             "acquireFooter", "readFooter", "push", "exited"}]
  /\ rfile \in [Readers -> Paths]
  /\ rpath \in [Readers -> Paths]
  /\ left \in [Readers -> Nat]
  /\ outbox \in [Readers -> Seq(Tasks)]

WorkersTyped ==
  /\ workerQ \in [Workers -> Seq(Tasks)]
  /\ workerClosed \in [Workers -> BOOLEAN]
  /\ worker \in [Workers -> {"check", "pop", "work", "exited"}]
  /\ wtask \in [Workers -> Tasks]
  /\ active \in [Workers -> [Paths -> FileStates]]
  /\ reported \in [Paths -> Seq(Reports)]

MainTyped ==
  /\ main \in {"joinProducer", "joinReaders", "closeWorkers", "joinWorkers",
               "joinProgress", "done"}
  /\ progress \in {"running", "done"}

TypeOK ==
  /\ setup \in DOMAIN Setups
  /\ quit \in BOOLEAN
  /\ ProducerTyped /\ ReadersTyped /\ WorkersTyped /\ MainTyped
  /\ free \in 0..NumBuffers

(* Who holds a buffer: a reader that reads into it (0) or has put it in   *)
(* its i-th task; a worker by the i-th task of its queue or the one in     *)
(* hand (0).                                                               *)
Carrying(tasks) == {i \in 1..Len(tasks) : tasks[i].buf}
HeldByReader(r) ==
  Carrying(outbox[r]) \cup (IF reader[r] \in {"read", "readFooter"} THEN {0} ELSE {})
HeldByWorker(w) ==
  Carrying(workerQ[w]) \cup (IF wtask[w].buf THEN {0} ELSE {})
Holders ==
  (UNION {{<<"reader", r, i>> : i \in HeldByReader(r)} : r \in Readers})
  \cup (UNION {{<<"worker", w, i>> : i \in HeldByWorker(w)} : w \in Workers})

InUse == Cardinality(Holders)

(* Files of which some read of a full pass fails or yields nothing.        *)
Failing ==
  IF HeaderOnly THEN {}
  ELSE {f \in Files \ Given.denied : OnDisk[f] < Declared[f] \/ OnDisk[f] = 0}

(* No buffer is used twice or made up, and none is lost but one to each    *)
(* file with a failing read: then the pool shrinks for the rest of the     *)
(* scan.                                                                   *)
BuffersAccounted ==
  /\ free + InUse <= NumBuffers
  /\ free + InUse >= NumBuffers - Cardinality(Failing)

(* A worker queue is closed only when nobody will push to it any more, and *)
(* a worker that was not interrupted leaves only an empty, closed queue    *)
(* behind: no file is dropped between the threads.                         *)
CloseAfterLastPush ==
  \A w \in Workers :
    /\ workerClosed[w] =>
         /\ producer \in {"closeWorkers", "done"}
         /\ \A r \in Readers : reader[r] = "exited"
    /\ (worker[w] = "exited" /\ ~quit) => workerClosed[w] /\ workerQ[w] = <<>>

(* The state a worker keeps under a path is built from chunks of the file  *)
(* of that path only: "Use fileRef as key" (BufferPool.hpp:64).            *)
FileKeyed ==
  \A w \in Workers, p \in Paths :
    \A i \in 1..Len(active[w][p].seen) : active[w][p].seen[i].file = p

(* Files whose later chunks go under the empty path: see FileKeyed.  What  *)
(* is said of them, and under that path, is not part of the contract.      *)
MisfiledIn ==
  [i \in DOMAIN Setups |->
     LET s == Setups[i]
         large == {f \in DOMAIN s.sizes : DeclaredIn[i][f] > 1}
     IN  IF s.readers = {} \/ s.headerOnly \/ large = {} THEN {}
         ELSE large \cup {NoPath}]

(* What each due file must be judged by.  A file is due unless the scan    *)
(* cache knows it or it exceeds the limit.  On an SSD the workers read it  *)
(* themselves and get no bytes; a header pass sees the first and the last  *)
(* block; a full pass every block.                                         *)
ExpectedIn ==
  [i \in DOMAIN Setups |->
    LET s == Setups[i]
        size == DeclaredIn[i]
        ssd == s.readers = {}
        due == {f \in DOMAIN size :
                  /\ s.second \/ f \notin s.unchanged
                  /\ s.maxBlocks = 0 \/ size[f] <= s.maxBlocks
                  /\ f \notin MisfiledIn[i]}
    IN [f \in due |->
          LET n == size[f]
              whole == [k \in 1..n |-> [file |-> f, block |-> k]]
              ends == (IF n > 0 /\ s.onDisk[f] > 0 THEN Block(f, 1) ELSE <<>>)
                      \o (IF n > 1 /\ s.onDisk[f] >= n THEN Block(f, n) ELSE <<>>)
              unread == ssd \/ f \in s.denied
          IN  [size |-> n,
               partial |-> ~unread /\ s.headerOnly,
               seen |-> IF unread THEN <<>>
                        ELSE IF s.headerOnly THEN ends
                        ELSE IF s.onDisk[f] >= n THEN whole ELSE <<>>]]]
Expected == ExpectedIn[setup]

(* The pipeline implements the contract of a scan: with all its threads it *)
(* finalizes each due file once, from the right bytes.                     *)
Contract == INSTANCE ScanContract
              WITH expected <- Expected,
                   reported <- [p \in Paths |->
                                  IF p \in MisfiledIn[setup] THEN <<>> ELSE reported[p]],
                   interrupted <- quit, over <- main = "done"

ImplementsContract == Contract!Spec

(* As many failed reads as there are buffers have emptied the pool, and a  *)
(* reader waits for one.                                                   *)
AllBuffersLost ==
  /\ Cardinality(Failing) >= NumBuffers
  /\ free = 0 /\ Holders = {}
  /\ \E r \in Readers : reader[r] \in {"acquire", "acquireFooter"}

(* An exited worker has left tasks in its queue (nobody drains it: the     *)
(* progress thread, a reader or the producer then waits for ever), or the  *)
(* producer is blocked on a reader queue that every reader has left.       *)
Stranded ==
  \/ \E w \in Workers : worker[w] = "exited" /\ workerQ[w] # <<>>
  \/ /\ producer = "push" /\ Len(readerQ) = Given.readerCap
     /\ \A r \in Readers : reader[r] = "exited"

(* A scan ends: every thread leaves its loop and is joined, unless every   *)
(* buffer of the pool has been lost to a failed read and a reader waits    *)
(* for one, or tasks or the producer have been stranded by SIGINT.         *)
(* Nothing else can stop it.                                               *)
EndsUnlessStuck ==
  <>(main = "done" \/ AllBuffersLost \/ (quit /\ Stranded))

=============================================================================
