------------------------- MODULE ScanPipelineProofs -------------------------
(***************************************************************************)
(* What holds of every scan, whatever its files, threads, queues and disk: *)
(* the types; that a queue is closed only after the last push to it; that  *)
(* the buffers of the pool are accounted for; and, in the second half,     *)
(* that the scan implements its contract.  The argument follows a file     *)
(* from thread to thread: a reader has a file in hand exactly while it is  *)
(* at work, a file is at one place on its way to and through the readers,  *)
(* and the main thread closes the worker queues behind the readers.        *)
(***************************************************************************)
EXTENDS ScanPipeline, FiniteSetTheorems, TLAPS

AtRest(r) == reader[r] \in {"check", "pop", "exited"}

(* What a reader has in hand in each of its states: a file while it is at  *)
(* work, tasks only between a read and the pushes that follow, and bytes   *)
(* left to read only of a file it could open.                              *)
ReaderHand(r) ==
  /\ AtRest(r) => rfile[r] = NoPath /\ outbox[r] = <<>> /\ left[r] = 0
  /\ ~AtRest(r) => rfile[r] \in Files
  /\ left[r] > 0 => left[r] <= Declared[rfile[r]] /\ rfile[r] \notin Given.denied
  /\ reader[r] \in {"acquire", "read"} =>
       /\ outbox[r] = <<>>
       /\ rfile[r] \notin Given.denied
       /\ left[r] = 0 => Declared[rfile[r]] = 0
  /\ reader[r] \in {"acquireFooter", "readFooter"} =>
       left[r] = 0 /\ Len(outbox[r]) = 1
  /\ reader[r] = "push" => outbox[r] # <<>>

WorkerHand(w) == worker[w] # "work" => wtask[w] = NoTask

(* The producer has a file in hand while it pushes, and the reader queue   *)
(* is closed by it after the last one.                                     *)
ProducerHand ==
  /\ IF producer = "push" THEN pushing \in Files ELSE pushing = NoPath
  /\ producer \in {"closeWorkers", "done"} => todo = {}
  /\ producer = "closeWorkers" => IsSsd
  /\ readerClosed <=> producer \in {"closeWorkers", "done"}

(* The main thread goes on only when those it joins have ended.            *)
MainOrder ==
  /\ main # "joinProducer" => producer = "done"
  /\ main \notin {"joinProducer", "joinReaders"} =>
       \A r \in Readers : reader[r] = "exited"

QueuedFiles == {readerQ[i] : i \in 1..Len(readerQ)}

(* A file is at one place on its way to and through the readers.           *)
AtOnePlace ==
  /\ pushing \notin todo
  /\ QueuedFiles \cap (todo \cup {pushing}) = {}
  /\ \A i, j \in 1..Len(readerQ) : readerQ[i] = readerQ[j] => i = j
  /\ \A r \in Readers : ~AtRest(r) =>
       /\ rfile[r] \notin todo \cup {pushing} \cup QueuedFiles
       /\ \A s \in Readers : rfile[s] = rfile[r] => s = r

Typed ==
  /\ setup \in DOMAIN Setups
  /\ quit \in BOOLEAN
  /\ ProducerTyped /\ ReadersTyped /\ WorkersTyped /\ MainTyped
  /\ free \in Nat

Control ==
  /\ ProducerHand /\ MainOrder
  /\ \A r \in Readers : ReaderHand(r)
  /\ \A w \in Workers : WorkerHand(w)

(* Files of which a read may still fail.                                   *)
Ahead ==
  todo \cup {pushing} \cup QueuedFiles
  \cup {rfile[r] : r \in {s \in Readers : reader[s] \in {"acquire", "read"}
                                            \/ left[s] > 0}}

(* The buffers held by threads T with this tag, H being what each holds.   *)
Held(tag, T, H) == UNION {{<<tag, t, i>> : i \in H[t]} : t \in T}
HeldByReaders == Held("reader", Readers, [r \in Readers |-> HeldByReader(r)])
HeldByWorkers == Held("worker", Workers, [w \in Workers |-> HeldByWorker(w)])

Balance == free + InUse

Buffered ==
  /\ Balance <= NumBuffers
  /\ Balance >= NumBuffers - Cardinality(Failing \ Ahead)

IInv == Typed /\ Control /\ AtOnePlace /\ CloseAfterLastPush /\ Buffered

-----------------------------------------------------------------------------
(* What the assumption says of the scan considered.                        *)
LEMMA ScanFacts ==
  ASSUME setup \in DOMAIN Setups
  PROVE  /\ IsFiniteSet(Files) /\ Files \subseteq AllFiles
         /\ IsFiniteSet(Workers) /\ Workers \subseteq AllWorkers
         /\ IsFiniteSet(Readers) /\ Readers \subseteq AllReaders
         /\ NoPath \notin Files
         /\ HeaderOnly \in BOOLEAN
         /\ Declared \in [Files -> Nat]
         /\ OnDisk \in [Files -> Nat]
         /\ Given.hashOf \in [Files -> Workers]
         /\ NumBuffers \in Nat
<1> USE PipelineAssumption DEF Given, Files, Workers, Readers
<1>1. /\ IsFiniteSet(Files) /\ Files \subseteq AllFiles
      /\ IsFiniteSet(Workers) /\ Workers \subseteq AllWorkers
      /\ IsFiniteSet(Readers) /\ Readers \subseteq AllReaders
  BY FS_Subset
<1>2. NumBuffers \in Nat
  BY <1>1, FS_CardinalityType DEF NumBuffers
<1>3. HeaderOnly \in BOOLEAN /\ NoPath \notin Files
  BY DEF HeaderOnly
<1>4. Declared \in [Files -> Nat] /\ OnDisk \in [Files -> Nat]
  BY DEF Declared, DeclaredIn, OnDisk
<1>5. Given.hashOf \in [Files -> Workers]
  OBVIOUS
<1> QED
  BY <1>1, <1>2, <1>3, <1>4, <1>5

(* A scan keeps what it was given.                                         *)
LEMMA SetupKept == [Next]_vars => setup' = setup
<1> SUFFICES ASSUME [Next]_vars PROVE setup' = setup
  OBVIOUS
<1>1. Producer => setup' = setup
  BY DEF Producer, Walk, ProducerPush, WalkEnds, ProducerCloses, ProducerEnds
<1>2. ASSUME NEW r \in AllReaders, Reader(r) PROVE setup' = setup
  BY <1>2 DEF Reader, ReaderCheck, ReaderPop, ReaderEnds, Acquire, ReadChunk,
     ReadNothing, ReadHeader, ReadFooter, ReaderPush
<1>3. ASSUME NEW w \in AllWorkers, Worker(w) PROVE setup' = setup
  BY <1>3 DEF Worker, WorkerCheck, WorkerPop, WorkerEnds, WorkerProcess
<1>4. Main => setup' = setup
  BY DEF Main, JoinProducer, JoinReaders, MainClosed, JoinWorkers, JoinProgress,
     MainGoes, MainCloses
<1>5. ProgressEnds \/ Sigint \/ UNCHANGED vars => setup' = setup
  BY DEF ProgressEnds, Sigint, vars
<1> QED
  BY <1>1, <1>2, <1>3, <1>4, <1>5 DEF Next, Threads, Done

LEMMA GivenKept ==
  ASSUME setup' = setup
  PROVE  /\ Given' = Given /\ Files' = Files /\ Workers' = Workers
         /\ Readers' = Readers /\ IsSsd' = IsSsd /\ HeaderOnly' = HeaderOnly
         /\ OnDisk' = OnDisk /\ Declared' = Declared /\ NumBuffers' = NumBuffers
         /\ Tasks' = Tasks /\ FileStates' = FileStates /\ Reports' = Reports
         /\ Failing' = Failing
BY DEF Given, Files, Workers, Readers, IsSsd, HeaderOnly, OnDisk, Declared,
   NumBuffers, Tasks, FileStates, Reports, Blocks, Failing

-----------------------------------------------------------------------------
(* What the threads pass on has the type of a task.                        *)
LEMMA TaskTypes ==
  ASSUME setup \in DOMAIN Setups
  PROVE  /\ NoContext \in Contexts /\ NoTask \in Tasks /\ NoState \in FileStates
         /\ \A f \in Files : Context(f) \in Contexts /\ WholeFileTask(f) \in Tasks
         /\ \A f \in Files, n \in Nat : Block(f, n) \in Seq(Blocks)
         /\ \A p \in Paths, fc \in Contexts, b, first, last \in BOOLEAN,
               d \in Seq(Blocks) : Task(p, fc, b, first, last, d) \in Tasks
         /\ \A f \in Files : f \in Paths
<1>1. /\ <<>> \in Seq(Blocks) /\ NoPath \in Paths
      /\ \A f \in Files : f \in Paths
  BY ScanFacts DEF Paths
<1>2. NoContext \in Contexts
  BY <1>1 DEF NoContext, Contexts
<1>3. \A p \in Paths, fc \in Contexts, b, first, last \in BOOLEAN,
        d \in Seq(Blocks) : Task(p, fc, b, first, last, d) \in Tasks
  BY DEF Task, Tasks
<1>4. NoTask \in Tasks
  BY <1>1, <1>2, <1>3 DEF NoTask
<1>5. NoState \in FileStates
  BY <1>1, <1>2 DEF NoState, FileStates
<1>6. ASSUME NEW f \in Files
      PROVE  /\ Context(f) \in Contexts
             /\ [Context(f) EXCEPT !.partial = FALSE] \in Contexts
  BY <1>1, ScanFacts DEF Context, Contexts
<1>7. \A f \in Files : WholeFileTask(f) \in Tasks
  BY <1>1, <1>3, <1>6 DEF WholeFileTask
<1>8. \A f \in Files, n \in Nat : Block(f, n) \in Seq(Blocks)
  BY DEF Block, Blocks
<1> QED
  BY <1>1, <1>2, <1>3, <1>4, <1>5, <1>6, <1>7, <1>8

(* A thread that is not scheduled keeps its types.                         *)
LEMMA TypesKept ==
  ASSUME Typed, setup' = setup
  PROVE  /\ UNCHANGED <<producerVars, readerQVars>> => ProducerTyped'
         /\ UNCHANGED readerVars => ReadersTyped'
         /\ UNCHANGED <<workerQVars, workerVars>> => WorkersTyped'
         /\ UNCHANGED mainVars => MainTyped'
         /\ (setup \in DOMAIN Setups)'
<1> USE GivenKept DEF Typed
<1>1. UNCHANGED <<producerVars, readerQVars>> => ProducerTyped'
  BY DEF ProducerTyped, producerVars, readerQVars
<1>2. UNCHANGED readerVars => ReadersTyped'
  BY DEF ReadersTyped, readerVars
<1>3. UNCHANGED <<workerQVars, workerVars>> => WorkersTyped'
  BY DEF WorkersTyped, workerQVars, workerVars
<1>4. UNCHANGED mainVars => MainTyped'
  BY DEF MainTyped, mainVars
<1> QED
  BY <1>1, <1>2, <1>3, <1>4

LEMMA PushedTyped ==
  ASSUME NEW S, NEW q \in Seq(S), NEW b, NEW v \in S
  PROVE  Pushed(q, b, v) \in Seq(S)
BY DEF Pushed

LEMMA TypedProducer ==
  ASSUME Typed, Control, setup' = setup, Producer
  PROVE  Typed'
<1> USE GivenKept, TypesKept, ScanFacts DEF Typed
<1>1. ASSUME NEW f \in Files, Walk(f) PROVE Typed'
  <2>1. f \in Paths
    BY TaskTypes
  <2>2. ProducerTyped'
    BY <1>1, <2>1 DEF Walk, ProducerTyped, readerQVars
  <2> QED
    BY <1>1, <2>2 DEF Walk
<1>2. CASE ProducerPush
  <2>1. pushing \in Files
    BY <1>2 DEF ProducerPush, Control, ProducerHand
  <2>2. WholeFileTask(pushing) \in Tasks /\ Given.hashOf[pushing] \in Workers
    BY <2>1, TaskTypes
  <2>3. readerQ' \in Seq(Files)
    BY <1>2, <2>1, PushedTyped DEF ProducerPush, ProducerTyped
  <2>4. workerQ' \in [Workers -> Seq(Tasks)]
    <3> DEFINE w == Given.hashOf[pushing]
               q == Pushed(workerQ[w], workerClosed[w], WholeFileTask(pushing))
    <3>1. q \in Seq(Tasks)
      BY <2>2, PushedTyped DEF WorkersTyped
    <3>2. workerQ' = workerQ \/ workerQ' = [workerQ EXCEPT ![w] = q]
      BY <1>2 DEF ProducerPush
    <3> HIDE DEF q, w
    <3> QED
      BY <3>1, <3>2 DEF WorkersTyped
  <2>5. ProducerTyped'
    BY <1>2, <2>3 DEF ProducerPush, ProducerTyped, Paths
  <2>6. WorkersTyped'
    BY <1>2, <2>4 DEF ProducerPush, WorkersTyped, workerVars
  <2> QED
    BY <1>2, <2>5, <2>6 DEF ProducerPush
<1>3. CASE WalkEnds
  <2>1. ProducerTyped'
    BY <1>3 DEF WalkEnds, ProducerTyped, AfterWalk, CloseReaderQueue
  <2> QED
    BY <1>3, <2>1 DEF WalkEnds
<1>4. ASSUME NEW w \in Workers, ProducerCloses(w) PROVE Typed'
  <2>1. WorkersTyped'
    BY <1>4 DEF ProducerCloses, CloseWorkerQueue, WorkersTyped, workerVars
  <2> QED
    BY <1>4, <2>1 DEF ProducerCloses
<1>5. CASE ProducerEnds
  <2>1. ProducerTyped'
    BY <1>5 DEF ProducerEnds, ProducerTyped, readerQVars
  <2> QED
    BY <1>5, <2>1 DEF ProducerEnds
<1> QED
  BY <1>1, <1>2, <1>3, <1>4, <1>5 DEF Producer

(* What a read puts into the outbox.                                       *)
LEMMA ReadTasks ==
  ASSUME Typed, Control, NEW r \in Readers, ~AtRest(r)
  PROVE  /\ rfile[r] \in Files /\ rfile[r] \in Paths
         /\ Remaining(r) \in Nat
         /\ ReadChunk(r) => outbox'[r] \in Seq(Tasks)
         /\ TasksOfFailure(r) \in Seq(Tasks)
         /\ ReadHeader(r) => outbox'[r] \in Seq(Tasks)
         /\ FooterTask(r) \in Tasks
<1> USE DEF Typed
<1>1. rfile[r] \in Files /\ rfile[r] \in Paths /\ rpath[r] \in Paths
  BY TaskTypes DEF Control, ReaderHand, ReadersTyped
<1>2. Remaining(r) \in Nat
  BY DEF Remaining, ReadersTyped
<1>3. /\ <<>> \in Seq(Blocks)
      /\ Declared[rfile[r]] \in Nat /\ OnDisk[rfile[r]] \in Nat
  BY <1>1, ScanFacts
<1>4. ASSUME ReadChunk(r) PROVE outbox'[r] \in Seq(Tasks)
  <2> DEFINE f == rfile[r]
             first == left[r] = Declared[f]
             next == Declared[f] - left[r] + 1
             fc == IF first THEN Context(f) ELSE NoContext
             data == IF left[r] > 0 THEN Block(f, next) ELSE <<>>
             task == Task(rpath[r], fc, TRUE, first, Remaining(r) = 0, data)
  <2>1. fc \in Contexts
    BY <1>1, TaskTypes
  <2>2. data \in Seq(Blocks)
    <3>1. left[r] > 0 => next \in Nat
      BY <1>3 DEF Control, ReaderHand, ReadersTyped
    <3> QED
      BY <1>1, <1>3, <3>1, TaskTypes
  <2>3. outbox' = [outbox EXCEPT ![r] = <<task>>]
    BY <1>4 DEF ReadChunk
  <2>4. first \in BOOLEAN /\ (Remaining(r) = 0) \in BOOLEAN
    OBVIOUS
  <2> HIDE DEF fc, data, first
  <2>5. task \in Tasks
    BY <1>1, <2>1, <2>2, <2>4, TaskTypes
  <2> HIDE DEF task
  <2> QED
    BY <2>3, <2>5 DEF ReadersTyped
<1>5. TasksOfFailure(r) \in Seq(Tasks)
  BY <1>1, TaskTypes DEF TasksOfFailure
<1>6. ASSUME ReadHeader(r) PROVE outbox'[r] \in Seq(Tasks)
  <2> DEFINE f == rfile[r]
             one == Declared[f] <= 1
             data == IF Declared[f] > 0 /\ OnDisk[f] > 0 THEN Block(f, 1) ELSE <<>>
             task == Task(f, Context(f), TRUE, TRUE, one, data)
  <2>1. data \in Seq(Blocks)
    BY <1>1, <1>3, TaskTypes
  <2>2. outbox' = [outbox EXCEPT ![r] = <<task>>]
    BY <1>6 DEF ReadHeader
  <2>3. one \in BOOLEAN
    OBVIOUS
  <2> HIDE DEF data, one
  <2>4. task \in Tasks
    BY <1>1, <2>1, <2>3, TaskTypes
  <2> HIDE DEF task
  <2> QED
    BY <2>2, <2>4 DEF ReadersTyped
<1>7. FooterTask(r) \in Tasks
  <2>1. LastBlock(rfile[r]) \in Seq(Blocks)
    BY <1>1, <1>3, TaskTypes DEF LastBlock
  <2> QED
    BY <1>1, <2>1, TaskTypes DEF FooterTask
<1> QED
  BY <1>1, <1>2, <1>4, <1>5, <1>6, <1>7

LEMMA TypedReader ==
  ASSUME Typed, Control, setup' = setup, NEW r \in Readers, Reader(r)
  PROVE  Typed'
<1> USE GivenKept, TypesKept, ScanFacts DEF Typed
<1>1. CASE ReaderCheck(r)
  <2>1. ReadersTyped'
    BY <1>1 DEF ReaderCheck, ReadersTyped
  <2> QED
    BY <1>1, <2>1 DEF ReaderCheck
<1>2. CASE ReaderPop(r)
  <2> DEFINE f == Head(readerQ)
  <2>1. readerQ # <<>> /\ readerQ \in Seq(Files)
    BY <1>2 DEF ReaderPop, ProducerTyped
  <2>2. f \in Files /\ Tail(readerQ) \in Seq(Files)
    BY <2>1
  <2>3. f \in Paths /\ Declared[f] \in Nat /\ <<WholeFileTask(f)>> \in Seq(Tasks)
    <3> HIDE DEF f
    <3> QED
      BY <2>2, TaskTypes
  <2>4. ProducerTyped'
    BY <1>2, <2>2 DEF ReaderPop, ProducerTyped, producerVars
  <2>5. CASE f \in Given.denied
    <3>1. ReadersTyped'
      BY <1>2, <2>3, <2>5 DEF ReaderPop, ReadersTyped
    <3> QED
      BY <1>2, <2>4, <3>1 DEF ReaderPop
  <2>6. CASE f \notin Given.denied
    <3>1. ReadersTyped'
      BY <1>2, <2>3, <2>6 DEF ReaderPop, ReadersTyped
    <3> QED
      BY <1>2, <2>4, <3>1 DEF ReaderPop
  <2> QED
    BY <2>5, <2>6
<1>3. CASE ReaderEnds(r)
  <2>1. ReadersTyped'
    BY <1>3 DEF ReaderEnds, ReadersTyped
  <2> QED
    BY <1>3, <2>1 DEF ReaderEnds
<1>4. CASE Acquire(r)
  <2>1. ReadersTyped' /\ free' \in Nat
    BY <1>4 DEF Acquire, ReadersTyped
  <2> QED
    BY <1>4, <2>1 DEF Acquire
<1>5. CASE ReadChunk(r)
  <2>1. outbox'[r] \in Seq(Tasks) /\ Remaining(r) \in Nat
    BY <1>5, ReadTasks DEF ReadChunk, AtRest
  <2>2. ReadersTyped'
    BY <1>5, <2>1 DEF ReadChunk, ReadersTyped, Paths
  <2> QED
    BY <1>5, <2>2 DEF ReadChunk
<1>6. CASE ReadNothing(r)
  <2>1. TasksOfFailure(r) \in Seq(Tasks)
    BY <1>6, ReadTasks DEF ReadNothing, AtRest
  <2>2. ReadersTyped'
    BY <1>6, <2>1 DEF ReadNothing, ReadersTyped, Paths
  <2> QED
    BY <1>6, <2>2 DEF ReadNothing
<1>7. CASE ReadHeader(r)
  <2>1. outbox'[r] \in Seq(Tasks)
    BY <1>7, ReadTasks DEF ReadHeader, AtRest
  <2>2. ReadersTyped'
    BY <1>7, <2>1 DEF ReadHeader, ReadersTyped, Paths
  <2> QED
    BY <1>7, <2>2 DEF ReadHeader
<1>8. CASE ReadFooter(r)
  <2>1. FooterTask(r) \in Tasks
    BY <1>8, ReadTasks DEF ReadFooter, AtRest
  <2>2. ReadersTyped'
    BY <1>8, <2>1 DEF ReadFooter, ReadersTyped
  <2> QED
    BY <1>8, <2>2 DEF ReadFooter
<1>9. CASE ReaderPush(r)
  <2>1. rfile[r] \in Files /\ outbox[r] # <<>> /\ outbox[r] \in Seq(Tasks)
    BY <1>9 DEF ReaderPush, Control, ReaderHand, AtRest, ReadersTyped
  <2>2. Head(outbox[r]) \in Tasks /\ Tail(outbox[r]) \in Seq(Tasks)
    BY <2>1
  <2>3. workerQ' \in [Workers -> Seq(Tasks)]
    <3> DEFINE w == Given.hashOf[rfile[r]]
               q == Pushed(workerQ[w], workerClosed[w], Head(outbox[r]))
    <3>1. w \in Workers
      BY <2>1
    <3>2. q \in Seq(Tasks)
      BY <2>2, <3>1, PushedTyped DEF WorkersTyped
    <3>3. workerQ' = [workerQ EXCEPT ![w] = q]
      BY <1>9 DEF ReaderPush
    <3> HIDE DEF q, w
    <3> QED
      BY <3>1, <3>2, <3>3 DEF WorkersTyped
  <2>4. WorkersTyped'
    BY <1>9, <2>3 DEF ReaderPush, WorkersTyped, workerVars
  <2>5. ReadersTyped'
    BY <1>9, <2>2 DEF ReaderPush, ReadersTyped, Paths
  <2> QED
    BY <1>9, <2>4, <2>5 DEF ReaderPush
<1> QED
  BY <1>1, <1>2, <1>3, <1>4, <1>5, <1>6, <1>7, <1>8, <1>9 DEF Reader

LEMMA TypedWorker ==
  ASSUME Typed, Control, setup' = setup, NEW w \in Workers, Worker(w)
  PROVE  Typed'
<1> USE GivenKept, TypesKept DEF Typed
<1>1. CASE WorkerCheck(w) \/ WorkerEnds(w)
  <2>1. WorkersTyped'
    BY <1>1 DEF WorkerCheck, WorkerEnds, WorkersTyped, workerQVars
  <2> QED
    BY <1>1, <2>1 DEF WorkerCheck, WorkerEnds
<1>2. CASE WorkerPop(w)
  <2>1. workerQ[w] # <<>> /\ workerQ[w] \in Seq(Tasks)
    BY <1>2 DEF WorkerPop, WorkersTyped
  <2>2. Head(workerQ[w]) \in Tasks /\ Tail(workerQ[w]) \in Seq(Tasks)
    BY <2>1
  <2>3. WorkersTyped'
    BY <1>2, <2>2 DEF WorkerPop, WorkersTyped
  <2> QED
    BY <1>2, <2>3 DEF WorkerPop
<1>3. CASE WorkerProcess(w)
  <2> DEFINE t == wtask[w]
             state == Updated(w, t)
             entry == [size |-> state.fc.size, partial |-> state.fc.partial,
                       seen |-> state.seen]
             next == IF t.last THEN NoState ELSE state
  <2>1. t \in Tasks
    BY DEF WorkersTyped
  <2>2. /\ t.path \in Paths /\ t.fc \in Contexts /\ t.data \in Seq(Blocks)
        /\ t.first \in BOOLEAN /\ t.last \in BOOLEAN /\ t.buf \in BOOLEAN
    BY <2>1 DEF Tasks
  <2>3. active[w][t.path] \in FileStates
    BY <2>2 DEF WorkersTyped
  <2>4. /\ active[w][t.path].fc \in Contexts
        /\ active[w][t.path].seen \in Seq(Blocks)
    BY <2>3 DEF FileStates
  <2>5. state \in FileStates
    BY <2>2, <2>4 DEF Updated, FileStates
  <2>6. state.fc \in Contexts /\ state.seen \in Seq(Blocks)
    BY <2>5 DEF FileStates
  <2>7. state.fc.path \in Paths /\ state.fc.size \in Nat /\ state.fc.partial \in BOOLEAN
    BY <2>6 DEF Contexts
  <2>8. entry \in Reports
    <3> HIDE DEF state
    <3> QED
      BY <2>6, <2>7 DEF Reports
  <2>9. next \in FileStates
    <3> HIDE DEF state
    <3> QED
      BY <2>2, <2>5, TaskTypes
  <2>10. /\ worker' = [worker EXCEPT ![w] = "check"]
         /\ wtask' = [wtask EXCEPT ![w] = NoTask]
         /\ active' = [active EXCEPT ![w][t.path] = next]
         /\ reported' \in {reported, Filed(state)}
         /\ free' = free + Freed(t)
         /\ UNCHANGED <<quit, producerVars, readerQVars, readerVars, workerQVars,
                        mainVars>>
    BY <1>3 DEF WorkerProcess
  <2>11. Filed(state) = [reported EXCEPT ![state.fc.path] = Append(@, entry)]
    BY DEF Filed
  <2> HIDE DEF state, entry, next
  <2>12. reported' \in [Paths -> Seq(Reports)]
    <3> DEFINE p == state.fc.path
    <3>1. reported \in [Paths -> Seq(Reports)] /\ p \in Paths
      BY <2>7 DEF WorkersTyped
    <3>2. Append(reported[p], entry) \in Seq(Reports)
      BY <2>8, <3>1
    <3>3. reported' \in {reported, [reported EXCEPT ![p] = Append(reported[p], entry)]}
      BY <2>10, <2>11
    <3> HIDE DEF p
    <3> QED
      BY <3>1, <3>2, <3>3
  <2>13. active' \in [Workers -> [Paths -> FileStates]]
    BY <2>2, <2>9, <2>10 DEF WorkersTyped
  <2>14. wtask' \in [Workers -> Tasks]
    BY <2>10, TaskTypes DEF WorkersTyped
  <2>15. free' \in Nat
    BY <2>2, <2>10 DEF Freed
  <2>16. WorkersTyped'
    BY <2>10, <2>12, <2>13, <2>14 DEF WorkersTyped, workerQVars
  <2> QED
    BY <2>10, <2>15, <2>16
<1> QED
  BY <1>1, <1>2, <1>3 DEF Worker

LEMMA TypedStep == Typed /\ Control /\ [Next]_vars => Typed'
<1> SUFFICES ASSUME Typed, Control, [Next]_vars PROVE Typed'
  OBVIOUS
<1>1. setup' = setup
  BY SetupKept
<1> USE <1>1, GivenKept, TypesKept DEF Typed
<1>2. CASE Producer
  BY <1>2, TypedProducer
<1>3. ASSUME NEW r \in AllReaders, Reader(r) PROVE Typed'
  BY <1>3, TypedReader DEF Reader
<1>4. ASSUME NEW w \in AllWorkers, Worker(w) PROVE Typed'
  BY <1>4, TypedWorker DEF Worker
<1>5. CASE JoinProducer \/ JoinReaders \/ MainClosed \/ JoinWorkers \/ JoinProgress
  <2>1. MainTyped'
    BY <1>5 DEF JoinProducer, JoinReaders, MainClosed, JoinWorkers, JoinProgress,
       MainGoes, AfterReaders, MainTyped
  <2> QED
    BY <1>5, <2>1 DEF JoinProducer, JoinReaders, MainClosed, JoinWorkers,
       JoinProgress, MainGoes
<1>6. ASSUME NEW w \in Workers, MainCloses(w) PROVE Typed'
  <2>1. WorkersTyped'
    BY <1>6 DEF MainCloses, CloseWorkerQueue, WorkersTyped, workerVars
  <2> QED
    BY <1>6, <2>1 DEF MainCloses
<1>7. CASE ProgressEnds
  <2>1. MainTyped'
    BY <1>7 DEF ProgressEnds, MainTyped
  <2> QED
    BY <1>7, <2>1 DEF ProgressEnds
<1>8. CASE Sigint \/ UNCHANGED vars
  BY <1>8 DEF Sigint, vars
<1> QED
  BY <1>2, <1>3, <1>4, <1>5, <1>6, <1>7, <1>8 DEF Next, Threads, Main, Done

-----------------------------------------------------------------------------
(* A reader moves on its own: nothing of another one changes.              *)
LEMMA OtherReaders ==
  ASSUME Typed, NEW r \in Readers, Reader(r), NEW s \in Readers, s # r
  PROVE  /\ reader'[s] = reader[s] /\ rfile'[s] = rfile[s] /\ rpath'[s] = rpath[s]
         /\ left'[s] = left[s] /\ outbox'[s] = outbox[s]
<1> USE DEF Typed, ReadersTyped
<1>1. CASE ReaderCheck(r) \/ ReaderEnds(r) \/ Acquire(r)
  BY <1>1 DEF ReaderCheck, ReaderEnds, Acquire
<1>2. CASE ReaderPop(r)
  BY <1>2 DEF ReaderPop
<1>3. CASE ReadChunk(r)
  BY <1>3 DEF ReadChunk
<1>4. CASE ReadNothing(r)
  BY <1>4 DEF ReadNothing
<1>5. CASE ReadHeader(r) \/ ReadFooter(r)
  BY <1>5 DEF ReadHeader, ReadFooter
<1>6. CASE ReaderPush(r)
  BY <1>6 DEF ReaderPush
<1> QED
  BY <1>1, <1>2, <1>3, <1>4, <1>5, <1>6 DEF Reader

(* The hand of the reader that moves.                                      *)
LEMMA HandOfReader ==
  ASSUME Typed, Control, setup' = setup, NEW r \in Readers, Reader(r)
  PROVE  ReaderHand(r)'
<1> USE ScanFacts, GivenKept DEF Typed, ReadersTyped
<1>0. ReaderHand(r)
  BY DEF Control
<1>1. CASE ReaderCheck(r)
  BY <1>0, <1>1 DEF ReaderCheck, ReaderHand, AtRest
<1>2. CASE ReaderPop(r)
  <2>1. Head(readerQ) \in Files
    BY <1>2 DEF ReaderPop, ProducerTyped
  <2>2. rfile'[r] = Head(readerQ)
    BY <1>2 DEF ReaderPop
  <2>3. CASE Head(readerQ) \in Given.denied
    <3>1. /\ reader'[r] = "push" /\ left'[r] = left[r] /\ left[r] = 0
          /\ outbox'[r] = <<WholeFileTask(Head(readerQ))>>
      BY <1>0, <1>2, <2>3 DEF ReaderPop, ReaderHand, AtRest
    <3> QED
      BY <2>1, <2>2, <3>1 DEF ReaderHand, AtRest
  <2>4. CASE Head(readerQ) \notin Given.denied
    <3>1. /\ reader'[r] = "acquire" /\ left'[r] = Declared[Head(readerQ)]
          /\ outbox'[r] = <<>>
      BY <1>0, <1>2, <2>4 DEF ReaderPop, ReaderHand, AtRest
    <3> QED
      BY <2>1, <2>2, <2>4, <3>1 DEF ReaderHand, AtRest
  <2> QED
    BY <2>3, <2>4
<1>3. CASE ReaderEnds(r)
  BY <1>0, <1>3 DEF ReaderEnds, ReaderHand, AtRest
<1>4. CASE Acquire(r)
  BY <1>0, <1>4 DEF Acquire, ReaderHand, AtRest
<1>5. CASE ReadChunk(r)
  <2>1. /\ reader'[r] = "push" /\ rfile'[r] = rfile[r] /\ Len(outbox'[r]) = 1
        /\ left'[r] = Remaining(r)
    BY <1>5 DEF ReadChunk
  <2>2. /\ Remaining(r) <= left[r] /\ Remaining(r) \in Nat
        /\ Remaining(r) > 0 => left[r] > 0
    BY DEF Remaining
  <2> QED
    BY <1>0, <1>5, <2>1, <2>2 DEF ReadChunk, ReaderHand, AtRest
<1>6. CASE ReadNothing(r)
  <2>1. /\ left'[r] = 0 /\ outbox'[r] = TasksOfFailure(r)
        /\ TasksOfFailure(r) = <<>> => reader'[r] = "check" /\ rfile'[r] = NoPath
        /\ TasksOfFailure(r) # <<>> => reader'[r] = "push" /\ rfile'[r] = rfile[r]
    BY <1>6 DEF ReadNothing
  <2>2. rfile[r] \in Files
    BY <1>0, <1>6 DEF ReadNothing, ReaderHand, AtRest
  <2> QED
    BY <2>1, <2>2 DEF ReaderHand, AtRest
<1>7. CASE ReadHeader(r)
  <2>1. /\ left'[r] = 0 /\ rfile'[r] = rfile[r] /\ Len(outbox'[r]) = 1
        /\ reader'[r] \in {"push", "acquireFooter"}
    BY <1>7 DEF ReadHeader
  <2> QED
    BY <1>0, <1>7, <2>1 DEF ReadHeader, ReaderHand, AtRest
<1>8. CASE ReadFooter(r)
  <2>1. /\ left'[r] = left[r] /\ rfile'[r] = rfile[r] /\ reader'[r] = "push"
        /\ outbox'[r] = Append(outbox[r], FooterTask(r))
    BY <1>8 DEF ReadFooter
  <2>2. outbox'[r] # <<>>
    BY <1>8, <2>1, ReadTasks DEF ReadFooter, AtRest
  <2> QED
    BY <1>0, <1>8, <2>1, <2>2 DEF ReadFooter, ReaderHand, AtRest
<1>9. CASE ReaderPush(r)
  <2>1. /\ left'[r] = left[r] /\ outbox'[r] = Tail(outbox[r])
        /\ reader'[r] = IF outbox'[r] # <<>> THEN "push"
                        ELSE IF left[r] = 0 THEN "check" ELSE "acquire"
        /\ rfile'[r] = IF outbox'[r] = <<>> /\ left[r] = 0 THEN NoPath ELSE rfile[r]
    BY <1>9 DEF ReaderPush
  <2>2. /\ reader[r] = "push" /\ rfile[r] \in Files /\ left[r] \in Nat
        /\ left[r] > 0 => left[r] <= Declared[rfile[r]] /\ rfile[r] \notin Given.denied
    BY <1>0, <1>9 DEF ReaderPush, ReaderHand, AtRest
  <2> QED
    BY <2>1, <2>2 DEF ReaderHand, AtRest
<1> QED
  BY <1>1, <1>2, <1>3, <1>4, <1>5, <1>6, <1>7, <1>8, <1>9 DEF Reader

LEMMA HandsKept ==
  ASSUME Control, setup' = setup
  PROVE  /\ UNCHANGED readerVars => \A r \in Readers : ReaderHand(r)'
         /\ UNCHANGED <<worker, wtask>> => \A w \in Workers : WorkerHand(w)'
         /\ UNCHANGED <<producerVars, readerClosed>> => ProducerHand'
BY GivenKept DEF Control, ReaderHand, AtRest, readerVars, WorkerHand, ProducerHand,
   producerVars

LEMMA ControlReader ==
  ASSUME Typed, Control, setup' = setup, NEW r \in Readers, Reader(r)
  PROVE  Control'
<1> USE GivenKept
<1>1. UNCHANGED <<producerVars, readerClosed, mainVars, workerVars, quit>>
  BY DEF Reader, ReaderCheck, ReaderPop, ReaderEnds, Acquire, ReadChunk, ReadNothing,
     ReadHeader, ReadFooter, ReaderPush, readerQVars
<1>2. ASSUME NEW s \in Readers PROVE ReaderHand(s)'
  <2>1. CASE s = r
    BY <2>1, HandOfReader
  <2>2. CASE s # r
    BY <2>2, OtherReaders DEF Control, ReaderHand, AtRest
  <2> QED
    BY <2>1, <2>2
<1>3. (\A w \in Workers : WorkerHand(w)') /\ ProducerHand'
  BY <1>1, HandsKept DEF workerVars
<1>4. reader[r] # "exited"
  BY DEF Reader, ReaderCheck, ReaderPop, ReaderEnds, Acquire, ReadChunk, ReadNothing,
     ReadHeader, ReadFooter, ReaderPush
<1>5. MainOrder'
  BY <1>1, <1>4 DEF MainOrder, Control, producerVars, mainVars
<1> QED
  BY <1>2, <1>3, <1>5 DEF Control

LEMMA ControlStep == Typed /\ Control /\ [Next]_vars => Control'
<1> SUFFICES ASSUME Typed, Control, [Next]_vars PROVE Control'
  OBVIOUS
<1>1. setup' = setup
  BY SetupKept
<1> USE <1>1, GivenKept, HandsKept DEF Control
<1>2. CASE Producer
  <2>1. UNCHANGED <<readerVars, worker, wtask, mainVars>>
    BY <1>2 DEF Producer, Walk, ProducerPush, WalkEnds, ProducerCloses,
       ProducerEnds, workerVars
  <2>2. ProducerHand'
    <3>1. ASSUME NEW f \in Files, Walk(f) PROVE ProducerHand'
      BY <3>1 DEF Walk, ProducerHand, readerQVars
    <3>2. CASE ProducerPush
      BY <3>2 DEF ProducerPush, ProducerHand
    <3>3. CASE WalkEnds
      BY <3>3 DEF WalkEnds, ProducerHand, AfterWalk, CloseReaderQueue
    <3>4. ASSUME NEW w \in Workers, ProducerCloses(w) PROVE ProducerHand'
      BY <3>4 DEF ProducerCloses, readerQVars
    <3>5. CASE ProducerEnds
      BY <3>5 DEF ProducerEnds, ProducerHand, readerQVars
    <3> QED
      BY <1>2, <3>1, <3>2, <3>3, <3>4, <3>5 DEF Producer
  <2>3. producer = "done" => producer' = "done"
    BY <1>2 DEF Producer, Walk, ProducerPush, WalkEnds, ProducerCloses,
       ProducerEnds, producerVars
  <2>4. MainOrder'
    BY <2>1, <2>3 DEF MainOrder, mainVars, readerVars
  <2> QED
    BY <2>1, <2>2, <2>4
<1>3. ASSUME NEW r \in AllReaders, Reader(r) PROVE Control'
  BY <1>3, ControlReader DEF Reader
<1>4. ASSUME NEW w \in AllWorkers, Worker(w) PROVE Control'
  <2>1. w \in Workers /\ UNCHANGED <<readerVars, producerVars, readerQVars, mainVars>>
    BY <1>4 DEF Worker, WorkerCheck, WorkerPop, WorkerEnds, WorkerProcess
  <2>2. ASSUME NEW v \in Workers PROVE WorkerHand(v)'
    BY <1>4, <2>1 DEF Worker, WorkerCheck, WorkerPop, WorkerEnds, WorkerProcess,
       WorkerHand, Typed, WorkersTyped
  <2>3. MainOrder'
    BY <2>1 DEF MainOrder, mainVars, readerVars, producerVars
  <2> QED
    BY <2>1, <2>2, <2>3 DEF readerQVars
<1>5. CASE Main
  <2>1. UNCHANGED <<readerVars, producerVars, readerQVars, worker, wtask>>
    BY <1>5 DEF Main, JoinProducer, JoinReaders, MainClosed, JoinWorkers,
       JoinProgress, MainGoes, MainCloses, workerVars
  <2>2. MainOrder'
    BY <1>5, <2>1 DEF Main, JoinProducer, JoinReaders, MainClosed, JoinWorkers,
       JoinProgress, MainGoes, MainCloses, MainOrder, readerVars, producerVars,
       ReadersJoined, AfterReaders, mainVars
  <2> QED
    BY <2>1, <2>2 DEF readerQVars
<1>6. CASE ProgressEnds \/ Sigint \/ UNCHANGED vars
  <2>1. UNCHANGED <<readerVars, producerVars, readerQVars, worker, wtask, main>>
    BY <1>6 DEF ProgressEnds, Sigint, vars, workerVars, mainVars
  <2>2. MainOrder'
    BY <2>1 DEF MainOrder, readerVars, producerVars
  <2> QED
    BY <2>1, <2>2 DEF readerQVars
<1> QED
  BY <1>2, <1>3, <1>4, <1>5, <1>6 DEF Next, Threads, Done

-----------------------------------------------------------------------------
(* A reader keeps its file until it puts it down; only pop() gives it one. *)
LEMMA FileInHand ==
  ASSUME Typed, Control, NEW r \in Readers, Reader(r), ~ReaderPop(r)
  PROVE  /\ UNCHANGED <<producerVars, readerQVars>>
         /\ ~AtRest(r)' => ~AtRest(r) /\ rfile'[r] = rfile[r]
         /\ rfile'[r] \in {rfile[r], NoPath}
<1> USE DEF Typed, ReadersTyped, AtRest
<1>1. CASE ReaderCheck(r) \/ ReaderEnds(r) \/ Acquire(r)
  BY <1>1 DEF ReaderCheck, ReaderEnds, Acquire
<1>2. CASE ReadChunk(r)
  BY <1>2 DEF ReadChunk
<1>3. CASE ReadNothing(r)
  BY <1>3 DEF ReadNothing
<1>4. CASE ReadHeader(r) \/ ReadFooter(r)
  BY <1>4 DEF ReadHeader, ReadFooter
<1>5. CASE ReaderPush(r)
  BY <1>5 DEF ReaderPush
<1> QED
  BY <1>1, <1>2, <1>3, <1>4, <1>5 DEF Reader

(* What pop() takes from the reader queue leaves it.                       *)
LEMMA PopLeaves ==
  ASSUME Typed, AtOnePlace, readerQ # <<>>, readerQ' = Tail(readerQ)
  PROVE  /\ Head(readerQ) \in QueuedFiles
         /\ QueuedFiles' = QueuedFiles \ {Head(readerQ)}
         /\ \A i, j \in 1..Len(readerQ') : readerQ'[i] = readerQ'[j] => i = j
<1>1. readerQ \in Seq(Files)
  BY DEF Typed, ProducerTyped
<1>2. /\ Len(readerQ) \in Nat \ {0} /\ Head(readerQ) = readerQ[1]
      /\ Len(readerQ') = Len(readerQ) - 1
      /\ \A i \in 1..Len(readerQ') : readerQ'[i] = readerQ[i + 1]
  BY <1>1
<1>3. \A i, j \in 1..Len(readerQ) : readerQ[i] = readerQ[j] => i = j
  BY DEF AtOnePlace
<1>4. \A i, j \in 1..Len(readerQ') : readerQ'[i] = readerQ'[j] => i = j
  BY <1>2, <1>3
<1>5. QueuedFiles' \subseteq QueuedFiles \ {Head(readerQ)}
  BY <1>2, <1>3 DEF QueuedFiles
<1>6. QueuedFiles \ {Head(readerQ)} \subseteq QueuedFiles'
  <2> SUFFICES ASSUME NEW f \in QueuedFiles, f # Head(readerQ)
               PROVE  f \in QueuedFiles'
    OBVIOUS
  <2>0. PICK i \in 1..Len(readerQ) : readerQ[i] = f
    BY DEF QueuedFiles
  <2>1. i - 1 \in 1..Len(readerQ') /\ readerQ'[i - 1] = f
    BY <1>2, <2>0
  <2> QED
    BY <2>1 DEF QueuedFiles
<1>7. Head(readerQ) \in QueuedFiles
  BY <1>2 DEF QueuedFiles
<1> QED
  BY <1>4, <1>5, <1>6, <1>7

LEMMA AtOnePlaceStep ==
  Typed /\ Control /\ AtOnePlace /\ Control' /\ [Next]_vars => AtOnePlace'
<1> SUFFICES ASSUME Typed, Control, AtOnePlace, Control', [Next]_vars
             PROVE  AtOnePlace'
  OBVIOUS
<1>1. setup' = setup /\ Readers' = Readers /\ Files' = Files
  BY SetupKept, GivenKept
<1>2. /\ NoPath \notin Files /\ todo \subseteq Files
      /\ readerQ \in Seq(Files)
      /\ \A r \in Readers : ~AtRest(r) => rfile[r] \in Files
  BY ScanFacts DEF Typed, ProducerTyped, Control, ReaderHand
<1>3. QueuedFiles \subseteq Files
  BY <1>2 DEF QueuedFiles
<1>4. CASE UNCHANGED <<producerVars, readerQ, readerVars>>
  BY <1>1, <1>4 DEF AtOnePlace, QueuedFiles, AtRest, producerVars, readerVars
<1>5. CASE Producer
  <2> USE <1>1, <1>2, <1>3
  <2>1. UNCHANGED readerVars
    BY <1>5 DEF Producer, Walk, ProducerPush, WalkEnds, ProducerCloses, ProducerEnds
  <2>2. ASSUME NEW f \in Files, Walk(f) PROVE AtOnePlace'
    <3>1. /\ UNCHANGED readerQ /\ f \in todo /\ todo' \subseteq todo \ {f}
          /\ pushing' \in {pushing, f}
      BY <2>2 DEF Walk, readerQVars
    <3>2. pushing = NoPath
      BY <2>2 DEF Walk, Control, ProducerHand
    <3> QED
      BY <2>1, <3>1, <3>2 DEF AtOnePlace, QueuedFiles, AtRest, readerVars
  <2>3. CASE ProducerPush
    <3>1. /\ pushing' = NoPath /\ todo' = todo /\ pushing \in Files
          /\ readerQ' \in {readerQ, Append(readerQ, pushing)}
      BY <2>3 DEF ProducerPush, Pushed, Control, ProducerHand
    <3>2. CASE readerQ' = readerQ
      BY <2>1, <3>1, <3>2 DEF AtOnePlace, QueuedFiles, AtRest, readerVars
    <3>3. CASE readerQ' = Append(readerQ, pushing)
      <4>1. /\ Len(readerQ') = Len(readerQ) + 1
            /\ \A i \in 1..Len(readerQ) : readerQ'[i] = readerQ[i]
            /\ readerQ'[Len(readerQ) + 1] = pushing
        BY <3>1, <3>3
      <4>2. QueuedFiles' = QueuedFiles \cup {pushing}
        BY <4>1 DEF QueuedFiles
      <4>3. pushing \notin QueuedFiles /\ pushing \notin todo
        BY DEF AtOnePlace
      <4>4. \A i, j \in 1..Len(readerQ') : readerQ'[i] = readerQ'[j] => i = j
        BY <4>1, <4>3 DEF QueuedFiles, AtOnePlace
      <4>5. \A r \in Readers : ~AtRest(r) <=> ~AtRest(r)'
        BY <2>1 DEF AtRest, readerVars
      <4> QED
        BY <2>1, <3>1, <4>2, <4>3, <4>4, <4>5 DEF AtOnePlace, readerVars
    <3> QED
      BY <3>1, <3>2, <3>3
  <2>4. CASE WalkEnds \/ ProducerEnds \/ \E w \in Workers : ProducerCloses(w)
    <3>1. UNCHANGED <<readerQ, todo, pushing>>
      BY <2>4 DEF WalkEnds, ProducerEnds, ProducerCloses, readerQVars, producerVars
    <3> QED
      BY <2>1, <3>1 DEF AtOnePlace, QueuedFiles, AtRest, readerVars
  <2> QED
    BY <1>5, <2>2, <2>3, <2>4 DEF Producer
<1>6. ASSUME NEW r \in Readers, Reader(r) PROVE AtOnePlace'
  <2>1. \A s \in Readers \ {r} : /\ rfile'[s] = rfile[s]
                                 /\ AtRest(s)' <=> AtRest(s)
    BY <1>6, OtherReaders DEF AtRest
  <2>2. CASE ReaderPop(r)
    <3> DEFINE f == Head(readerQ)
    <3>1. /\ readerQ # <<>> /\ readerQ' = Tail(readerQ) /\ rfile'[r] = f
          /\ UNCHANGED <<todo, pushing>>
      BY <2>2 DEF ReaderPop, producerVars, Typed, ReadersTyped
    <3>2. /\ f \in QueuedFiles /\ QueuedFiles' = QueuedFiles \ {f}
          /\ \A i, j \in 1..Len(readerQ') : readerQ'[i] = readerQ'[j] => i = j
      BY <3>1, PopLeaves
    <3> HIDE DEF f
    <3>3. \A s \in Readers \ {r} : rfile[s] # f
      BY <1>3, <3>2, ScanFacts DEF AtOnePlace, Control, ReaderHand, Typed
    <3>4. f \notin todo \cup {pushing}
      BY <3>2 DEF AtOnePlace
    <3> QED
      BY <1>1, <2>1, <3>1, <3>2, <3>3, <3>4 DEF AtOnePlace
  <2>3. CASE ~ReaderPop(r)
    <3>1. /\ UNCHANGED <<todo, pushing, readerQ>>
          /\ ~AtRest(r)' => ~AtRest(r) /\ rfile'[r] = rfile[r]
          /\ rfile'[r] \in {rfile[r], NoPath}
      BY <1>6, <2>3, FileInHand DEF producerVars, readerQVars
    <3>2. QueuedFiles' = QueuedFiles
      BY <3>1 DEF QueuedFiles
    <3> QED
      BY <1>1, <1>2, <2>1, <3>1, <3>2 DEF AtOnePlace
  <2> QED
    BY <2>2, <2>3
<1>7. ASSUME NEW w \in AllWorkers, Worker(w) PROVE AtOnePlace'
  BY <1>4, <1>7 DEF Worker, WorkerCheck, WorkerPop, WorkerEnds, WorkerProcess,
     readerQVars
<1>8. CASE Main
  BY <1>4, <1>8 DEF Main, JoinProducer, JoinReaders, MainClosed, JoinWorkers,
     JoinProgress, MainGoes, MainCloses, readerQVars
<1>9. CASE ProgressEnds \/ Sigint \/ UNCHANGED vars
  BY <1>4, <1>9 DEF ProgressEnds, Sigint, vars, readerQVars
<1> QED
  BY <1>5, <1>6, <1>7, <1>8, <1>9 DEF Next, Threads, Done, Reader

-----------------------------------------------------------------------------
(* Nobody pushes to a closed queue: the producer and the readers have      *)
(* ended when it is closed, and stay so.                                   *)
LEMMA CloseStep ==
  Typed /\ Control /\ CloseAfterLastPush /\ [Next]_vars => CloseAfterLastPush'
<1> SUFFICES ASSUME Typed, Control, CloseAfterLastPush, [Next]_vars
             PROVE  CloseAfterLastPush'
  OBVIOUS
<1>1. /\ setup' = setup /\ Readers' = Readers /\ Workers' = Workers
      /\ Given' = Given /\ Files' = Files
  BY SetupKept, GivenKept
<1> USE <1>1
<1>2. CASE /\ UNCHANGED <<producerVars, readerVars, workerQVars, worker>>
           /\ quit => quit'
  BY <1>2 DEF CloseAfterLastPush, producerVars, readerVars, workerQVars
<1>3. CASE Producer
  <2>1. UNCHANGED <<readerVars, worker, quit>>
    BY <1>3 DEF Producer, Walk, ProducerPush, WalkEnds, ProducerCloses,
       ProducerEnds, workerVars
  <2>2. CASE ProducerPush
    <3>1. \A w \in Workers : ~workerClosed[w]
      BY <2>2 DEF ProducerPush, CloseAfterLastPush
    <3>2. UNCHANGED workerClosed
      BY <2>2 DEF ProducerPush
    <3> QED
      BY <2>1, <3>1, <3>2 DEF CloseAfterLastPush
  <2>3. CASE (\E f \in Files : Walk(f)) \/ WalkEnds \/ ProducerEnds
    <3>1. /\ UNCHANGED workerQVars
          /\ producer \in {"closeWorkers", "done"} => producer' \in {"closeWorkers", "done"}
      BY <2>3 DEF Walk, WalkEnds, ProducerEnds, producerVars
    <3> QED
      BY <2>1, <3>1 DEF CloseAfterLastPush, workerQVars, readerVars
  <2>4. ASSUME NEW w \in Workers, ProducerCloses(w) PROVE CloseAfterLastPush'
    <3>1. producer = "closeWorkers" /\ Readers = {}
      BY <2>4 DEF ProducerCloses, Control, ProducerHand, IsSsd
    <3>2. /\ UNCHANGED <<producer, workerQ>>
          /\ workerClosed' = [workerClosed EXCEPT ![w] = TRUE]
      BY <2>4 DEF ProducerCloses, CloseWorkerQueue, producerVars
    <3> QED
      BY <2>1, <3>1, <3>2 DEF CloseAfterLastPush, Typed, WorkersTyped
  <2> QED
    BY <1>3, <2>2, <2>3, <2>4 DEF Producer
<1>4. ASSUME NEW r \in Readers, Reader(r) PROVE CloseAfterLastPush'
  <2>1. reader[r] # "exited"
    BY <1>4 DEF Reader, ReaderCheck, ReaderPop, ReaderEnds, Acquire, ReadChunk,
       ReadNothing, ReadHeader, ReadFooter, ReaderPush
  <2>2. \A w \in Workers : ~workerClosed[w]
    BY <2>1 DEF CloseAfterLastPush
  <2>3. UNCHANGED <<workerClosed, worker, quit>>
    BY <1>4 DEF Reader, ReaderCheck, ReaderPop, ReaderEnds, Acquire, ReadChunk,
       ReadNothing, ReadHeader, ReadFooter, ReaderPush, workerQVars, workerVars
  <2> QED
    BY <2>2, <2>3 DEF CloseAfterLastPush
<1>5. ASSUME NEW w \in Workers, Worker(w) PROVE CloseAfterLastPush'
  <2>1. UNCHANGED <<producerVars, readerVars, workerClosed, quit>>
    BY <1>5 DEF Worker, WorkerCheck, WorkerPop, WorkerEnds, WorkerProcess, workerQVars
  <2>2. ASSUME NEW v \in Workers \ {w}
        PROVE  worker'[v] = worker[v] /\ workerQ'[v] = workerQ[v]
    BY <1>5 DEF Worker, WorkerCheck, WorkerPop, WorkerEnds, WorkerProcess,
       workerQVars, Typed, WorkersTyped
  <2>3. worker'[w] = "exited" /\ ~quit =>
          workerClosed[w] /\ workerQ[w] = <<>> /\ workerQ' = workerQ
    BY <1>5 DEF Worker, WorkerCheck, WorkerPop, WorkerEnds, WorkerProcess, Drained,
       workerQVars, Typed, WorkersTyped
  <2> QED
    BY <2>1, <2>2, <2>3 DEF CloseAfterLastPush, producerVars, readerVars
<1>6. ASSUME NEW w \in Workers, MainCloses(w) PROVE CloseAfterLastPush'
  <2>1. producer = "done" /\ \A r \in Readers : reader[r] = "exited"
    BY <1>6 DEF MainCloses, Control, MainOrder
  <2>2. /\ UNCHANGED <<producer, reader, worker, workerQ, quit>>
        /\ workerClosed' = [workerClosed EXCEPT ![w] = TRUE]
    BY <1>6 DEF MainCloses, CloseWorkerQueue, producerVars, readerVars, workerVars
  <2> QED
    BY <2>1, <2>2 DEF CloseAfterLastPush, Typed, WorkersTyped
<1>7. CASE JoinProducer \/ JoinReaders \/ MainClosed \/ JoinWorkers \/ JoinProgress
  BY <1>2, <1>7 DEF JoinProducer, JoinReaders, MainClosed, JoinWorkers, JoinProgress,
     MainGoes, workerVars
<1>8. CASE ProgressEnds \/ Sigint \/ UNCHANGED vars
  BY <1>2, <1>8 DEF ProgressEnds, Sigint, vars, workerVars
<1> QED
  BY <1>3, <1>4, <1>5, <1>6, <1>7, <1>8 DEF Next, Threads, Main, Done, Reader, Worker

-----------------------------------------------------------------------------
(* Counting the buffers.  What one thread holds is counted by itself.      *)
LEMMA OneThread ==
  ASSUME NEW S, IsFiniteSet(S), NEW tag, NEW t
  PROVE  /\ IsFiniteSet({<<tag, t, i>> : i \in S})
         /\ Cardinality({<<tag, t, i>> : i \in S}) = Cardinality(S)
<1> DEFINE T == {<<tag, t, i>> : i \in S}
           f == [i \in S |-> <<tag, t, i>>]
<1>1. f \in Bijection(S, T)
  BY DEF Bijection, Injection, Surjection, IsInjective
<1>2. ExistsBijection(S, T)
  BY <1>1 DEF ExistsBijection
<1> HIDE DEF T
<1>3. IsFiniteSet(T) /\ Cardinality(T) = Cardinality(S)
  BY <1>2, FS_Bijection
<1> QED
  BY <1>3 DEF T

(* The count of all is that of one thread and that of the others.          *)
LEMMA CountApart ==
  ASSUME NEW T, IsFiniteSet(T), NEW tag, NEW t \in T,
         NEW H, \A u \in T : IsFiniteSet(H[u])
  PROVE  /\ IsFiniteSet(Held(tag, T, H)) /\ IsFiniteSet(Held(tag, T \ {t}, H))
         /\ Cardinality(Held(tag, T, H)) =
              Cardinality(Held(tag, T \ {t}, H)) + Cardinality(H[t])
<1> DEFINE Part(u) == {<<tag, u, i>> : i \in H[u]}
           Rest == Held(tag, T \ {t}, H)
<1>1. ASSUME NEW U \in SUBSET T PROVE IsFiniteSet(Held(tag, U, H))
  <2> DEFINE parts == {Part(u) : u \in U}
             f == [u \in U |-> Part(u)]
  <2>1. IsFiniteSet(U)
    BY FS_Subset
  <2>2. f \in Surjection(U, parts)
    BY DEF Surjection
  <2>3. ASSUME NEW P \in parts PROVE IsFiniteSet(P)
    <3>1. PICK u \in U : P = Part(u)
      OBVIOUS
    <3>2. u \in T /\ IsFiniteSet(H[u])
      OBVIOUS
    <3>3. IsFiniteSet({<<tag, u, i>> : i \in H[u]})
      BY <3>2, OneThread
    <3> QED
      BY <3>1, <3>3
  <2> HIDE DEF f, parts
  <2>4. IsFiniteSet(parts)
    BY <2>1, <2>2, FS_Surjection
  <2>5. IsFiniteSet(UNION parts)
    BY <2>3, <2>4, FS_UNION
  <2> QED
    BY <2>5 DEF parts, Held
<1>2. Held(tag, T, H) = Rest \cup Part(t)
  BY DEF Held
<1>3. Rest \cap Part(t) = {}
  BY DEF Held
<1>4. IsFiniteSet(Rest) /\ IsFiniteSet(Held(tag, T, H))
  BY <1>1
<1>5. IsFiniteSet(Part(t)) /\ Cardinality(Part(t)) = Cardinality(H[t])
  BY OneThread
<1> HIDE DEF Rest, Part
<1>6. Cardinality(Rest \cup Part(t)) = Cardinality(Rest) + Cardinality(Part(t)) - 0
  BY <1>3, <1>4, <1>5, FS_Union, FS_EmptySet
<1>7. Cardinality(Rest) \in Nat /\ Cardinality(Part(t)) \in Nat
  BY <1>4, <1>5, FS_CardinalityType
<1> QED
  BY <1>2, <1>4, <1>5, <1>6, <1>7 DEF Rest

(* When one thread moves, the count of all changes by its own.             *)
LEMMA CountMoves ==
  ASSUME NEW T, IsFiniteSet(T), NEW tag, NEW t \in T,
         NEW H, \A u \in T : IsFiniteSet(H[u]),
         NEW K, IsFiniteSet(K[t]), \A u \in T \ {t} : K[u] = H[u]
  PROVE  /\ Cardinality(Held(tag, T, H)) \in Nat
         /\ Cardinality(Held(tag, T, K)) \in Nat
         /\ Cardinality(H[t]) \in Nat /\ Cardinality(K[t]) \in Nat
         /\ Cardinality(Held(tag, T, K)) - Cardinality(K[t]) =
              Cardinality(Held(tag, T, H)) - Cardinality(H[t])
<1>1. ASSUME NEW J, \A u \in T : IsFiniteSet(J[u])
      PROVE  /\ Cardinality(Held(tag, T, J)) \in Nat
             /\ Cardinality(Held(tag, T \ {t}, J)) \in Nat
             /\ Cardinality(J[t]) \in Nat
             /\ Cardinality(Held(tag, T, J)) =
                  Cardinality(Held(tag, T \ {t}, J)) + Cardinality(J[t])
  BY <1>1, CountApart, FS_CardinalityType
<1>2. Held(tag, T \ {t}, K) = Held(tag, T \ {t}, H)
  BY DEF Held
<1>3. \A u \in T : IsFiniteSet(K[u])
  OBVIOUS
<1> QED
  BY <1>1, <1>2, <1>3

Weight(task) == IF task.buf THEN 1 ELSE 0

(* The tasks of a list that carry a buffer.                                *)
LEMMA CarryingFacts ==
  ASSUME NEW q \in Seq(Tasks)
  PROVE  /\ IsFiniteSet(Carrying(q)) /\ Cardinality(Carrying(q)) \in Nat
         /\ 0 \notin Carrying(q)
         /\ q = <<>> => Cardinality(Carrying(q)) = 0
<1>1. Len(q) \in Nat /\ Carrying(q) \in SUBSET (1..Len(q))
  BY DEF Carrying
<1>2. IsFiniteSet(Carrying(q))
  <2>1. IsFiniteSet(1..Len(q))
    BY <1>1, FS_Interval
  <2> QED
    BY <1>1, <2>1, FS_Subset
<1>3. q = <<>> => Carrying(q) = {}
  BY DEF Carrying
<1> QED
  BY <1>1, <1>2, <1>3, FS_CardinalityType, FS_EmptySet

LEMMA CarryingAppend ==
  ASSUME NEW q \in Seq(Tasks), NEW task \in Tasks
  PROVE  Cardinality(Carrying(Append(q, task))) =
           Cardinality(Carrying(q)) + Weight(task)
<1> DEFINE n == Len(q) + 1
           p == Append(q, task)
<1>1. Len(q) \in Nat /\ Len(p) = n /\ p[n] = task /\ \A i \in 1..Len(q) : p[i] = q[i]
  OBVIOUS
<1> HIDE DEF p
<1>2. Carrying(p) = Carrying(q) \cup (IF task.buf THEN {n} ELSE {})
  BY <1>1 DEF Carrying
<1>3. n \notin Carrying(q)
  BY <1>1 DEF Carrying
<1>4. IsFiniteSet(Carrying(q)) /\ Cardinality(Carrying(q)) \in Nat
  BY CarryingFacts
<1>5. Cardinality(Carrying(p)) = Cardinality(Carrying(q)) + Weight(task)
  <2> HIDE DEF n
  <2>1. CASE task.buf
    BY <1>2, <1>3, <1>4, <2>1, FS_AddElement DEF Weight
  <2>2. CASE ~task.buf
    BY <1>2, <1>4, <2>2 DEF Weight
  <2> QED
    BY <2>1, <2>2
<1> QED
  BY <1>5 DEF p

LEMMA CarryingTail ==
  ASSUME NEW q \in Seq(Tasks), q # <<>>
  PROVE  Cardinality(Carrying(Tail(q))) =
           Cardinality(Carrying(q)) - Weight(Head(q))
<1> DEFINE p == Tail(q)
           later == Carrying(q) \ {1}
           f == [i \in Carrying(p) |-> i + 1]
<1>1. /\ Len(q) \in Nat \ {0} /\ Len(p) = Len(q) - 1 /\ p \in Seq(Tasks)
      /\ \A i \in 1..Len(p) : p[i] = q[i + 1]
      /\ Head(q) = q[1]
  OBVIOUS
<1> HIDE DEF p
<1>2. f \in Bijection(Carrying(p), later)
  <2>1. f \in [Carrying(p) -> later]
    BY <1>1 DEF Carrying
  <2>2. \A a, b \in Carrying(p) : f[a] = f[b] => a = b
    BY <1>1 DEF Carrying
  <2>3. ASSUME NEW j \in later PROVE \E i \in Carrying(p) : f[i] = j
    <3>1. j - 1 \in 1..Len(p) /\ p[j - 1] = q[j] /\ q[j].buf
      BY <1>1 DEF Carrying
    <3>2. j - 1 \in Carrying(p) /\ j \in Int
      BY <1>1, <3>1 DEF Carrying
    <3> QED
      BY <3>2
  <2> QED
    BY <2>1, <2>2, <2>3 DEF Bijection, Injection, Surjection, IsInjective
<1>3. IsFiniteSet(Carrying(p)) /\ IsFiniteSet(Carrying(q))
      /\ Cardinality(Carrying(q)) \in Nat
  BY <1>1, CarryingFacts
<1>4. Cardinality(later) = Cardinality(Carrying(p))
  <2>1. ExistsBijection(Carrying(p), later)
    BY <1>2 DEF ExistsBijection
  <2> QED
    BY <1>3, <2>1, FS_Bijection
<1>5. 1 \in Carrying(q) <=> Head(q).buf
  BY <1>1 DEF Carrying
<1>6. Cardinality(later) = Cardinality(Carrying(q)) - Weight(Head(q))
  <2>1. Cardinality(Carrying(q) \ {1}) =
          IF 1 \in Carrying(q) THEN Cardinality(Carrying(q)) - 1
                               ELSE Cardinality(Carrying(q))
    BY <1>3, FS_RemoveElement
  <2> QED
    BY <1>3, <1>5, <2>1 DEF Weight
<1> QED
  BY <1>4, <1>6 DEF p

ReaderLoad(r) ==
  Cardinality(Carrying(outbox[r]))
    + (IF reader[r] \in {"read", "readFooter"} THEN 1 ELSE 0)
WorkerLoad(w) == Cardinality(Carrying(workerQ[w])) + Weight(wtask[w])

(* What is in use is what the readers hold and what the workers hold, each *)
(* of them the tasks of its list and the one at hand.                      *)
EachLoad ==
  /\ \A r \in Readers : /\ IsFiniteSet(HeldByReader(r))
                        /\ Cardinality(HeldByReader(r)) = ReaderLoad(r)
  /\ \A w \in Workers : /\ IsFiniteSet(HeldByWorker(w))
                        /\ Cardinality(HeldByWorker(w)) = WorkerLoad(w)

LEMMA Loads == Typed => EachLoad
<1> SUFFICES ASSUME Typed PROVE EachLoad
  OBVIOUS
<1>1. ASSUME NEW r \in Readers
      PROVE  IsFiniteSet(HeldByReader(r)) /\ Cardinality(HeldByReader(r)) = ReaderLoad(r)
  <2> DEFINE C == Carrying(outbox[r])
  <2>1. outbox[r] \in Seq(Tasks)
    BY DEF Typed, ReadersTyped
  <2>2. IsFiniteSet(C) /\ Cardinality(C) \in Nat /\ 0 \notin C
    BY <2>1, CarryingFacts
  <2> HIDE DEF C
  <2>3. IsFiniteSet(C \cup {0}) /\ Cardinality(C \cup {0}) = Cardinality(C) + 1
    BY <2>2, FS_AddElement
  <2>4. CASE reader[r] \in {"read", "readFooter"}
    <3>1. HeldByReader(r) = C \cup {0}
      BY <2>4 DEF HeldByReader, C
    <3> QED
      BY <2>3, <2>4, <3>1 DEF ReaderLoad, C
  <2>5. CASE reader[r] \notin {"read", "readFooter"}
    <3>1. HeldByReader(r) = C
      BY <2>5 DEF HeldByReader, C
    <3> QED
      BY <2>2, <2>5, <3>1 DEF ReaderLoad, C
  <2> QED
    BY <2>4, <2>5
<1>2. ASSUME NEW w \in Workers
      PROVE  IsFiniteSet(HeldByWorker(w)) /\ Cardinality(HeldByWorker(w)) = WorkerLoad(w)
  <2> DEFINE C == Carrying(workerQ[w])
  <2>1. workerQ[w] \in Seq(Tasks)
    BY DEF Typed, WorkersTyped
  <2>2. IsFiniteSet(C) /\ Cardinality(C) \in Nat /\ 0 \notin C
    BY <2>1, CarryingFacts
  <2> HIDE DEF C
  <2>3. IsFiniteSet(C \cup {0}) /\ Cardinality(C \cup {0}) = Cardinality(C) + 1
    BY <2>2, FS_AddElement
  <2>4. CASE wtask[w].buf
    <3>1. HeldByWorker(w) = C \cup {0}
      BY <2>4 DEF HeldByWorker, C
    <3> QED
      BY <2>3, <2>4, <3>1 DEF WorkerLoad, Weight, C
  <2>5. CASE ~wtask[w].buf
    <3>1. HeldByWorker(w) = C
      BY <2>5 DEF HeldByWorker, C
    <3> QED
      BY <2>2, <2>5, <3>1 DEF WorkerLoad, Weight, C
  <2> QED
    BY <2>4, <2>5
<1> QED
  BY <1>1, <1>2 DEF EachLoad

LEMMA HeldFinite ==
  ASSUME NEW T, IsFiniteSet(T), NEW tag, NEW H, \A u \in T : IsFiniteSet(H[u])
  PROVE  IsFiniteSet(Held(tag, T, H))
<1>1. CASE T = {}
  <2>1. Held(tag, T, H) = {}
    BY <1>1 DEF Held
  <2> QED
    BY <2>1, FS_EmptySet
<1>2. CASE T # {}
  <2>1. PICK t \in T : TRUE
    BY <1>2
  <2> QED
    BY <2>1, CountApart
<1> QED
  BY <1>1, <1>2

InReaders == Cardinality(HeldByReaders)
InWorkers == Cardinality(HeldByWorkers)

Counted ==
  /\ InReaders \in Nat /\ InWorkers \in Nat
  /\ InUse = InReaders + InWorkers
  /\ InUse \in Nat /\ Balance \in Nat

LEMMA InUseCounted == Typed => Counted
<1> SUFFICES ASSUME Typed PROVE Counted
  OBVIOUS
<1>1. IsFiniteSet(Readers) /\ IsFiniteSet(Workers)
  BY ScanFacts DEF Typed
<1>2. IsFiniteSet(HeldByReaders)
  <2> DEFINE H == [r \in Readers |-> HeldByReader(r)]
  <2>1. \A r \in Readers : IsFiniteSet(H[r])
    BY Loads DEF EachLoad
  <2> HIDE DEF H
  <2>2. IsFiniteSet(Held("reader", Readers, H))
    BY <1>1, <2>1, HeldFinite
  <2> QED
    BY <2>2 DEF HeldByReaders, H
<1>3. IsFiniteSet(HeldByWorkers)
  <2> DEFINE H == [w \in Workers |-> HeldByWorker(w)]
  <2>1. \A w \in Workers : IsFiniteSet(H[w])
    BY Loads DEF EachLoad
  <2> HIDE DEF H
  <2>2. IsFiniteSet(Held("worker", Workers, H))
    BY <1>1, <2>1, HeldFinite
  <2> QED
    BY <2>2 DEF HeldByWorkers, H
<1>4. Holders = HeldByReaders \cup HeldByWorkers
  BY DEF Holders, HeldByReaders, HeldByWorkers, Held
<1>5. HeldByReaders \cap HeldByWorkers = {}
  <2>1. \A x \in HeldByReaders : x[1] = "reader"
    BY DEF HeldByReaders, Held
  <2>2. \A x \in HeldByWorkers : x[1] = "worker"
    BY DEF HeldByWorkers, Held
  <2> QED
    BY <2>1, <2>2
<1>6. Cardinality(HeldByReaders) \in Nat /\ Cardinality(HeldByWorkers) \in Nat
  BY <1>2, <1>3, FS_CardinalityType
<1>7. Cardinality(HeldByReaders \cup HeldByWorkers) =
        Cardinality(HeldByReaders) + Cardinality(HeldByWorkers) - 0
  BY <1>2, <1>3, <1>5, FS_Union, FS_EmptySet
<1> QED
  BY <1>4, <1>6, <1>7 DEF InUse, Counted, InReaders, InWorkers, Balance, Typed

(* When one thread moves, its own load is all that changes of the count.   *)
LEMMA ReaderMoves ==
  ASSUME Typed, Typed', setup' = setup, NEW r \in Readers,
         \A s \in Readers \ {r} : reader'[s] = reader[s] /\ outbox'[s] = outbox[s]
  PROVE  InReaders' - ReaderLoad(r)' = InReaders - ReaderLoad(r)
<1> DEFINE H == [s \in Readers |-> HeldByReader(s)]
           K == [s \in Readers |-> HeldByReader(s)']
<1>1. Readers' = Readers /\ IsFiniteSet(Readers)
  BY GivenKept, ScanFacts DEF Typed
<1>2. /\ \A s \in Readers : IsFiniteSet(H[s])
      /\ Cardinality(H[r]) = ReaderLoad(r)
  BY Loads DEF EachLoad
<1>3. EachLoad'
  BY Loads, PTL
<1>4. IsFiniteSet(K[r]) /\ Cardinality(K[r]) = ReaderLoad(r)'
  BY <1>1, <1>3 DEF EachLoad
<1>5. \A s \in Readers \ {r} : K[s] = H[s]
  BY DEF HeldByReader
<1>6. HeldByReaders = Held("reader", Readers, H)
  BY DEF HeldByReaders
<1>7. HeldByReaders' = Held("reader", Readers, K)
  BY <1>1 DEF HeldByReaders, Held
<1> HIDE DEF H, K
<1>8. Cardinality(Held("reader", Readers, K)) - Cardinality(K[r]) =
        Cardinality(Held("reader", Readers, H)) - Cardinality(H[r])
  BY <1>1, <1>2, <1>4, <1>5, CountMoves
<1> QED
  BY <1>2, <1>4, <1>6, <1>7, <1>8 DEF InReaders, InWorkers

LEMMA WorkerMoves ==
  ASSUME Typed, Typed', setup' = setup, NEW w \in Workers,
         \A v \in Workers \ {w} : workerQ'[v] = workerQ[v] /\ wtask'[v] = wtask[v]
  PROVE  InWorkers' - WorkerLoad(w)' = InWorkers - WorkerLoad(w)
<1> DEFINE H == [v \in Workers |-> HeldByWorker(v)]
           K == [v \in Workers |-> HeldByWorker(v)']
<1>1. Workers' = Workers /\ IsFiniteSet(Workers)
  BY GivenKept, ScanFacts DEF Typed
<1>2. /\ \A v \in Workers : IsFiniteSet(H[v])
      /\ Cardinality(H[w]) = WorkerLoad(w)
  BY Loads DEF EachLoad
<1>3. EachLoad'
  BY Loads, PTL
<1>4. IsFiniteSet(K[w]) /\ Cardinality(K[w]) = WorkerLoad(w)'
  BY <1>1, <1>3 DEF EachLoad
<1>5. \A v \in Workers \ {w} : K[v] = H[v]
  BY DEF HeldByWorker
<1>6. HeldByWorkers = Held("worker", Workers, H)
  BY DEF HeldByWorkers
<1>7. HeldByWorkers' = Held("worker", Workers, K)
  BY <1>1 DEF HeldByWorkers, Held
<1> HIDE DEF H, K
<1>8. Cardinality(Held("worker", Workers, K)) - Cardinality(K[w]) =
        Cardinality(Held("worker", Workers, H)) - Cardinality(H[w])
  BY <1>1, <1>2, <1>4, <1>5, CountMoves
<1> QED
  BY <1>2, <1>4, <1>6, <1>7, <1>8 DEF InReaders, InWorkers

LEMMA HeldKept ==
  ASSUME Typed, setup' = setup
  PROVE  /\ UNCHANGED <<reader, outbox>> => InReaders' = InReaders
         /\ UNCHANGED <<workerQ, wtask>> => InWorkers' = InWorkers
<1>1. Readers' = Readers /\ Workers' = Workers
  BY GivenKept
<1>2. ASSUME UNCHANGED <<reader, outbox>> PROVE InReaders' = InReaders
  BY <1>1, <1>2 DEF InReaders, HeldByReaders, Held, HeldByReader
<1>3. ASSUME UNCHANGED <<workerQ, wtask>> PROVE InWorkers' = InWorkers
  BY <1>1, <1>3 DEF InWorkers, HeldByWorkers, Held, HeldByWorker
<1> QED
  BY <1>2, <1>3

LEMMA CarryingOne ==
  ASSUME NEW task \in Tasks
  PROVE  Cardinality(Carrying(<<task>>)) = Weight(task)
<1>1. <<>> \in Seq(Tasks) /\ Append(<<>>, task) = <<task>>
  OBVIOUS
<1>0. Cardinality(Carrying(<<>>)) = 0
  BY <1>1, CarryingFacts
<1>2. Cardinality(Carrying(Append(<<>>, task))) =
        Cardinality(Carrying(<<>>)) + Weight(task)
  BY <1>1, CarryingAppend
<1> QED
  BY <1>1, <1>0, <1>2 DEF Weight

(* What the load of a reader becomes by a step that reaches no worker.     *)
LEMMA LoadOfReader ==
  ASSUME Typed, Control, setup' = setup, NEW r \in Readers, Reader(r), ~ReaderPush(r)
  PROVE  /\ UNCHANGED <<workerQ, wtask>>
         /\ IF ReadNothing(r) THEN free' = free /\ ReaderLoad(r)' = ReaderLoad(r) - 1
                              ELSE free' + ReaderLoad(r)' = free + ReaderLoad(r)
<1> DEFINE C == Cardinality(Carrying(outbox[r]))
<1>1. /\ DOMAIN reader = Readers /\ outbox \in [Readers -> Seq(Tasks)]
      /\ outbox[r] \in Seq(Tasks) /\ free \in Nat
  BY DEF Typed, ReadersTyped
<1>2. C \in Nat /\ (outbox[r] = <<>> => C = 0)
  BY <1>1, CarryingFacts
<1>3. ReaderHand(r)
  BY DEF Control
<1>4. UNCHANGED <<workerQ, wtask>>
  BY DEF Reader, ReaderCheck, ReaderPop, ReaderEnds, Acquire, ReadChunk,
     ReadNothing, ReadHeader, ReadFooter, workerQVars, workerVars
<1>5. CASE ReaderCheck(r) \/ ReaderEnds(r)
  <2>1. /\ outbox' = outbox /\ free' = free /\ ~ReadNothing(r)
        /\ reader[r] \in {"check", "pop"} /\ reader'[r] \in {"exited", "pop"}
    BY <1>1, <1>5 DEF ReaderCheck, ReaderEnds, ReadNothing
  <2> QED
    BY <1>1, <1>2, <1>4, <2>1 DEF ReaderLoad
<1>6. CASE ReaderPop(r)
  <2>1. outbox[r] = <<>> /\ reader[r] = "pop" /\ reader'[r] \in {"push", "acquire"}
    BY <1>1, <1>3, <1>6 DEF ReaderPop, ReaderHand, AtRest
  <2>2. C' = 0
    <3>1. CASE Head(readerQ) \in Given.denied
      <4>1. Head(readerQ) \in Files
        BY <1>6 DEF ReaderPop, Typed, ProducerTyped
      <4>2. WholeFileTask(Head(readerQ)) \in Tasks
        BY <4>1, TaskTypes DEF Typed
      <4>3. outbox'[r] = <<WholeFileTask(Head(readerQ))>>
        BY <1>1, <1>6, <3>1 DEF ReaderPop
      <4> QED
        BY <4>2, <4>3, CarryingOne DEF WholeFileTask, Task, Weight
    <3>2. CASE Head(readerQ) \notin Given.denied
      BY <1>2, <1>6, <2>1, <3>2 DEF ReaderPop
    <3> QED
      BY <3>1, <3>2
  <2>3. free' = free /\ ~ReadNothing(r)
    BY <1>6 DEF ReaderPop, ReadNothing
  <2> QED
    BY <1>1, <1>2, <1>4, <2>1, <2>2, <2>3 DEF ReaderLoad
<1>7. CASE Acquire(r)
  <2>1. /\ outbox' = outbox /\ free' = free - 1 /\ ~ReadNothing(r)
        /\ reader[r] \notin {"read", "readFooter"}
        /\ reader'[r] \in {"read", "readFooter"}
    BY <1>1, <1>7 DEF Acquire, ReadNothing
  <2> QED
    BY <1>1, <1>2, <1>4, <2>1 DEF ReaderLoad
<1>8. CASE ReadChunk(r) \/ ReadHeader(r)
  <2>1. /\ reader[r] = "read" /\ outbox[r] = <<>> /\ free' = free
        /\ reader'[r] \in {"push", "acquireFooter"}
    BY <1>1, <1>3, <1>8 DEF ReadChunk, ReadHeader, ReaderHand, AtRest
  <2>4. ~ReadNothing(r)
    <3>1. /\ Declared[rfile[r]] \in Nat /\ OnDisk[rfile[r]] \in Nat
          /\ left[r] \in Nat
      BY <1>3, <2>1, ScanFacts DEF ReaderHand, AtRest, Typed, ReadersTyped
    <3>2. CASE ReadChunk(r)
      <4>1. Declared[rfile[r]] - left[r] + 1 <= OnDisk[rfile[r]]
        BY <3>2 DEF ReadChunk
      <4>2. ~(Declared[rfile[r]] - left[r] >= OnDisk[rfile[r]])
        BY <3>1, <4>1
      <4> QED
        BY <4>2 DEF ReadNothing
    <3>3. CASE ReadHeader(r)
      BY <3>3 DEF ReadHeader, ReadNothing
    <3> QED
      BY <1>8, <3>2, <3>3
  <2>2. \E task \in Tasks : outbox'[r] = <<task>> /\ task.buf
    <3>1. outbox'[r] \in Seq(Tasks)
      BY <1>8, <2>1, ReadTasks DEF AtRest
    <3>2. Len(outbox'[r]) = 1 /\ outbox'[r] = <<outbox'[r][1]>> /\ outbox'[r][1].buf
      BY <1>1, <1>8 DEF ReadChunk, ReadHeader, Task
    <3>3. outbox'[r][1] \in Tasks
      BY <3>1, <3>2
    <3> QED
      BY <3>2, <3>3
  <2>3. C' = 1
    BY <2>2, CarryingOne DEF Weight
  <2> QED
    BY <1>1, <1>2, <1>4, <2>1, <2>3, <2>4 DEF ReaderLoad
<1>9. CASE ReadNothing(r)
  <2>1. /\ reader[r] = "read" /\ outbox[r] = <<>> /\ free' = free
        /\ reader'[r] \in {"push", "check"}
        /\ outbox'[r] = TasksOfFailure(r)
    BY <1>1, <1>3, <1>9 DEF ReadNothing, ReaderHand, AtRest
  <2>2. WholeFileTask(rfile[r]) \in Tasks
    BY <1>3, <2>1, TaskTypes DEF ReaderHand, AtRest, Typed
  <2>3. C' = 0
    <3>1. Cardinality(Carrying(<<WholeFileTask(rfile[r])>>)) = 0
      BY <2>2, CarryingOne DEF WholeFileTask, Task, Weight
    <3>2. <<>> \in Seq(Tasks) /\ Cardinality(Carrying(<<>>)) = 0
      <4>1. <<>> \in Seq(Tasks)
        OBVIOUS
      <4> QED
        BY <4>1, CarryingFacts
    <3> QED
      BY <2>1, <3>1, <3>2 DEF TasksOfFailure
  <2> QED
    BY <1>2, <1>4, <1>9, <2>1, <2>3 DEF ReaderLoad
<1>10. CASE ReadFooter(r)
  <2>1. /\ reader[r] = "readFooter" /\ reader'[r] = "push" /\ free' = free
        /\ outbox'[r] = Append(outbox[r], FooterTask(r)) /\ ~ReadNothing(r)
    BY <1>1, <1>10 DEF ReadFooter, ReadNothing
  <2>2. FooterTask(r) \in Tasks
    BY <2>1, ReadTasks DEF AtRest
  <2>3. C' = C + 1
    BY <1>1, <2>1, <2>2, CarryingAppend DEF FooterTask, Task, Weight
  <2> QED
    BY <1>1, <1>2, <1>4, <2>1, <2>3 DEF ReaderLoad
<1> QED
  BY <1>4, <1>5, <1>6, <1>7, <1>8, <1>9, <1>10 DEF Reader

(* A push passes a buffer on, a worker gives it back.                      *)
LEMMA BalanceReader ==
  ASSUME Typed, Typed', Control, CloseAfterLastPush, setup' = setup,
         NEW r \in Readers, Reader(r)
  PROVE  IF ReadNothing(r) THEN Balance' = Balance - 1 ELSE Balance' = Balance
<1>1. /\ InReaders \in Nat /\ InWorkers \in Nat /\ InUse = InReaders + InWorkers
      /\ InReaders' \in Nat /\ InWorkers' \in Nat /\ InUse' = InReaders' + InWorkers'
  <2>1. Counted /\ Counted'
    BY InUseCounted, PTL
  <2> QED
    BY <2>1 DEF Counted
<1>2. InReaders' - ReaderLoad(r)' = InReaders - ReaderLoad(r)
  BY ReaderMoves, OtherReaders
<1>3. /\ free \in Nat /\ free' \in Nat /\ Workers' = Workers /\ Readers' = Readers
      /\ outbox[r] \in Seq(Tasks)
  BY GivenKept DEF Typed, ReadersTyped
<1>4. Cardinality(Carrying(outbox[r])) \in Nat /\ ReaderLoad(r) \in Nat
  BY <1>3, CarryingFacts DEF ReaderLoad
<1>5. ReaderLoad(r)' \in Nat
  <2>1. outbox'[r] \in Seq(Tasks)
    BY <1>3, GivenKept DEF Typed, ReadersTyped
  <2>2. Cardinality(Carrying(outbox'[r])) \in Nat
    BY <2>1, CarryingFacts
  <2> QED
    BY <2>2 DEF ReaderLoad, Carrying
<1>6. InUse \in Int /\ InUse' \in Int
  BY <1>1
<1>7. CASE ~ReaderPush(r)
  <2>1. UNCHANGED <<workerQ, wtask>>
    BY <1>7, LoadOfReader
  <2>2. InWorkers' = InWorkers
    BY <2>1, HeldKept
  <2>3. IF ReadNothing(r) THEN free' = free /\ ReaderLoad(r)' = ReaderLoad(r) - 1
                          ELSE free' + ReaderLoad(r)' = free + ReaderLoad(r)
    BY <1>7, LoadOfReader
  <2>4. InUse' = InUse + (InReaders' - InReaders)
    BY <1>1, <2>2
  <2>5. InReaders' - InReaders = ReaderLoad(r)' - ReaderLoad(r)
    BY <1>1, <1>2, <1>4, <1>5
  <2>6. InUse' = InUse + (ReaderLoad(r)' - ReaderLoad(r))
    BY <2>4, <2>5
  <2>7. CASE ReadNothing(r)
    <3>1. free' = free /\ ReaderLoad(r)' - ReaderLoad(r) = -1
      BY <1>4, <1>5, <2>3, <2>7
    <3> QED
      BY <1>3, <1>6, <2>6, <2>7, <3>1 DEF Balance
  <2>8. CASE ~ReadNothing(r)
    <3>1. free' = free - (ReaderLoad(r)' - ReaderLoad(r))
      BY <1>3, <1>4, <1>5, <2>3, <2>8
    <3> QED
      BY <1>3, <1>4, <1>5, <1>6, <2>6, <2>8, <3>1 DEF Balance
  <2> QED
    BY <2>7, <2>8
<1>8. CASE ReaderPush(r)
  <2>0. /\ reader[r] = "push" /\ outbox[r] # <<>>
        /\ Given.hashOf[rfile[r]] \in Workers /\ Head(outbox[r]) \in Tasks
    BY <1>3, <1>8, ScanFacts DEF ReaderPush, Control, ReaderHand, AtRest, Typed
  <2>1. PICK w \in Workers, t \in Tasks :
          w = Given.hashOf[rfile[r]] /\ t = Head(outbox[r])
    BY <2>0
  <2>2. ~workerClosed[w]
    BY <2>0 DEF CloseAfterLastPush
  <2>3. /\ workerQ' = [workerQ EXCEPT ![w] = Append(@, t)]
        /\ outbox'[r] = Tail(outbox[r])
        /\ reader'[r] \in {"push", "check", "acquire"}
        /\ wtask' = wtask /\ free' = free
    BY <1>8, <2>1, <2>2 DEF ReaderPush, Pushed, workerVars, Typed, ReadersTyped
  <2>4. t \in Tasks /\ workerQ[w] \in Seq(Tasks) /\ ~ReadNothing(r)
    BY <1>3, <2>0 DEF Typed, WorkersTyped, ReadNothing
  <2>5. workerQ'[w] = Append(workerQ[w], t) /\ \A v \in Workers \ {w} : workerQ'[v] = workerQ[v]
    BY <2>1, <2>3 DEF Typed, WorkersTyped
  <2>6. InWorkers' - WorkerLoad(w)' = InWorkers - WorkerLoad(w)
    BY <2>1, <2>3, <2>5, WorkerMoves
  <2>7. Weight(t) \in Nat /\ Weight(wtask[w]) \in Nat
    BY DEF Weight
  <2>8. Cardinality(Carrying(workerQ[w])) \in Nat
    BY <2>4, CarryingFacts
  <2>9. WorkerLoad(w)' = WorkerLoad(w) + Weight(t) /\ WorkerLoad(w) \in Nat
    <3>1. Cardinality(Carrying(workerQ'[w])) =
            Cardinality(Carrying(workerQ[w])) + Weight(t)
      BY <2>4, <2>5, CarryingAppend
    <3>2. WorkerLoad(w)' = Cardinality(Carrying(workerQ'[w])) + Weight(wtask[w])
      BY <2>3 DEF WorkerLoad, Carrying, Weight
    <3> QED
      BY <2>7, <2>8, <3>1, <3>2 DEF WorkerLoad
  <2>10. ReaderLoad(r)' = ReaderLoad(r) - Weight(t)
    <3>1. Cardinality(Carrying(outbox'[r])) =
            Cardinality(Carrying(outbox[r])) - Weight(t)
      BY <1>3, <2>0, <2>1, <2>3, CarryingTail
    <3>2. ReaderLoad(r)' = Cardinality(Carrying(outbox'[r]))
      <4>1. Cardinality(Carrying(outbox'[r])) + 0 = Cardinality(Carrying(outbox'[r]))
        BY <1>4, <2>7, <3>1
      <4>2. Carrying(outbox[r])' = Carrying(outbox'[r])
        BY DEF Carrying
      <4> QED
        BY <2>3, <4>1, <4>2 DEF ReaderLoad
    <3>3. ReaderLoad(r) = Cardinality(Carrying(outbox[r]))
      BY <1>4, <2>0 DEF ReaderLoad
    <3> QED
      BY <3>1, <3>2, <3>3
  <2>11. InReaders' = InReaders - Weight(t)
    BY <1>1, <1>2, <1>4, <1>5, <2>7, <2>10
  <2>12. InWorkers' = InWorkers + Weight(t)
    BY <1>1, <2>6, <2>7, <2>9
  <2>13. InUse' = InUse
    BY <1>1, <2>7, <2>11, <2>12
  <2> QED
    BY <1>3, <1>6, <2>3, <2>4, <2>13 DEF Balance
<1> QED
  BY <1>7, <1>8

LEMMA BalanceWorker ==
  ASSUME Typed, Typed', Control, setup' = setup, NEW w \in Workers, Worker(w)
  PROVE  Balance' = Balance
<1>1. /\ InReaders \in Nat /\ InWorkers \in Nat /\ InUse = InReaders + InWorkers
      /\ InReaders' \in Nat /\ InWorkers' \in Nat /\ InUse' = InReaders' + InWorkers'
  <2>1. Counted /\ Counted'
    BY InUseCounted, PTL
  <2> QED
    BY <2>1 DEF Counted
<1>2. UNCHANGED <<reader, outbox>>
  BY DEF Worker, WorkerCheck, WorkerPop, WorkerEnds, WorkerProcess, readerVars
<1>3. InReaders' = InReaders
  BY <1>2, HeldKept
<1>4. \A v \in Workers \ {w} : workerQ'[v] = workerQ[v] /\ wtask'[v] = wtask[v]
  BY DEF Worker, WorkerCheck, WorkerPop, WorkerEnds, WorkerProcess, workerQVars,
     Typed, WorkersTyped
<1>5. InWorkers' - WorkerLoad(w)' = InWorkers - WorkerLoad(w)
  BY <1>4, WorkerMoves
<1>6. workerQ[w] \in Seq(Tasks) /\ free \in Nat /\ free' \in Nat
  BY DEF Typed, WorkersTyped
<1>7. /\ Cardinality(Carrying(workerQ[w])) \in Nat
      /\ \A t : Weight(t) \in Nat /\ Weight(t) = Freed(t)
  BY <1>6, CarryingFacts DEF Weight, Freed
<1>8. WorkerLoad(w) \in Nat
  BY <1>7 DEF WorkerLoad
<1>9. free' + WorkerLoad(w)' = free + WorkerLoad(w) /\ WorkerLoad(w)' \in Int
  <2>1. CASE WorkerCheck(w) \/ WorkerEnds(w)
    <3>1. UNCHANGED <<workerQ, wtask, free>>
      BY <2>1 DEF WorkerCheck, WorkerEnds, workerQVars
    <3>2. WorkerLoad(w)' = WorkerLoad(w)
      BY <3>1 DEF WorkerLoad, Carrying, Weight
    <3> QED
      BY <1>6, <1>8, <3>1, <3>2
  <2>2. CASE WorkerPop(w)
    <3>1. /\ workerQ[w] # <<>> /\ workerQ'[w] = Tail(workerQ[w])
          /\ wtask'[w] = Head(workerQ[w]) /\ free' = free
      BY <2>2 DEF WorkerPop, Typed, WorkersTyped
    <3>2. Weight(wtask[w]) = 0
      BY <2>2 DEF WorkerPop, Control, WorkerHand, NoTask, Task, Weight
    <3>3. Cardinality(Carrying(workerQ'[w])) =
            Cardinality(Carrying(workerQ[w])) - Weight(Head(workerQ[w]))
      BY <1>6, <3>1, CarryingTail
    <3>4. WorkerLoad(w)' = Cardinality(Carrying(workerQ'[w])) + Weight(wtask'[w])
      BY DEF WorkerLoad, Carrying, Weight
    <3> QED
      BY <1>6, <1>7, <3>1, <3>2, <3>3, <3>4 DEF WorkerLoad
  <2>3. CASE WorkerProcess(w)
    <3>1. /\ UNCHANGED workerQ /\ wtask'[w] = NoTask
          /\ free' = free + Weight(wtask[w])
      BY <1>7, <2>3 DEF WorkerProcess, workerQVars, Typed, WorkersTyped
    <3>2. Weight(NoTask) = 0
      BY DEF NoTask, Task, Weight
    <3>3. WorkerLoad(w)' = Cardinality(Carrying(workerQ[w])) + Weight(wtask'[w])
      BY <3>1 DEF WorkerLoad, Carrying, Weight
    <3> QED
      BY <1>6, <1>7, <3>1, <3>2, <3>3 DEF WorkerLoad
  <2> QED
    BY <2>1, <2>2, <2>3 DEF Worker
<1>10. InUse' = InUse + (InWorkers' - InWorkers)
  BY <1>1, <1>3
<1>11. InWorkers' - InWorkers = WorkerLoad(w)' - WorkerLoad(w)
  BY <1>1, <1>5, <1>8, <1>9
<1>12. free' - free = WorkerLoad(w) - WorkerLoad(w)'
  BY <1>6, <1>8, <1>9
<1>13. InUse \in Int /\ InUse' \in Int
  BY <1>1
<1>14. InUse' = InUse + (WorkerLoad(w)' - WorkerLoad(w))
  BY <1>10, <1>11
<1>15. free' = free - (WorkerLoad(w)' - WorkerLoad(w))
  BY <1>6, <1>8, <1>9, <1>12
<1> QED
  BY <1>6, <1>8, <1>9, <1>13, <1>14, <1>15 DEF Balance

-----------------------------------------------------------------------------
(* A file is not ahead of the readers again once it has been.              *)
LEMMA AheadStep ==
  ASSUME Typed, Control, AtOnePlace, [Next]_vars
  PROVE  Ahead' \cap Files \subseteq Ahead
<1>1. setup' = setup /\ Readers' = Readers /\ Files' = Files /\ NoPath \notin Files
  BY SetupKept, GivenKept, ScanFacts DEF Typed
<1>2. CASE UNCHANGED <<producerVars, readerQ, readerVars>>
  BY <1>1, <1>2 DEF Ahead, QueuedFiles, producerVars, readerVars
<1>3. CASE Producer
  <2>1. UNCHANGED readerVars
    BY <1>3 DEF Producer, Walk, ProducerPush, WalkEnds, ProducerCloses, ProducerEnds
  <2>2. CASE \E f \in Files : Walk(f)
    <3>1. readerQ' = readerQ /\ todo' \cup {pushing'} \subseteq todo \cup {pushing}
      BY <2>2 DEF Walk, readerQVars
    <3> QED
      BY <1>1, <2>1, <3>1 DEF Ahead, QueuedFiles, readerVars
  <2>3. CASE ProducerPush
    <3>1. /\ pushing' = NoPath /\ todo' = todo /\ readerQ \in Seq(Files)
          /\ readerQ' \in {readerQ, Append(readerQ, pushing)}
      BY <2>3 DEF ProducerPush, Pushed, Typed, ProducerTyped
    <3>2. QueuedFiles' \subseteq QueuedFiles \cup {pushing}
      BY <3>1 DEF QueuedFiles
    <3> QED
      BY <1>1, <2>1, <3>1, <3>2 DEF Ahead, readerVars
  <2>4. CASE WalkEnds \/ ProducerEnds \/ \E w \in Workers : ProducerCloses(w)
    <3>1. UNCHANGED <<readerQ, todo, pushing>>
      BY <2>4 DEF WalkEnds, ProducerEnds, ProducerCloses, readerQVars, producerVars
    <3> QED
      BY <1>1, <2>1, <3>1 DEF Ahead, QueuedFiles, readerVars
  <2> QED
    BY <1>3, <2>2, <2>3, <2>4 DEF Producer
<1>4. ASSUME NEW r \in Readers, Reader(r) PROVE Ahead' \cap Files \subseteq Ahead
  <2>1. \A s \in Readers \ {r} : /\ reader'[s] = reader[s] /\ rfile'[s] = rfile[s]
                                 /\ left'[s] = left[s]
    BY <1>4, OtherReaders
  <2>2. CASE ReaderPop(r)
    <3>1. /\ readerQ # <<>> /\ readerQ' = Tail(readerQ)
          /\ rfile'[r] = Head(readerQ) /\ UNCHANGED <<todo, pushing>>
      BY <2>2 DEF ReaderPop, producerVars, Typed, ReadersTyped
    <3>2. Head(readerQ) \in QueuedFiles /\ QueuedFiles' \subseteq QueuedFiles
      BY <3>1, PopLeaves
    <3> QED
      BY <1>1, <2>1, <3>1, <3>2 DEF Ahead
  <2>3. CASE ~ReaderPop(r)
    <3>1. UNCHANGED <<todo, pushing, readerQ>> /\ rfile'[r] \in {rfile[r], NoPath}
      BY <1>4, <2>3, FileInHand DEF producerVars, readerQVars
    <3>2. \/ rfile'[r] = NoPath
          \/ reader'[r] \in {"acquire", "read"} \/ left'[r] > 0
               => reader[r] \in {"acquire", "read"} \/ left[r] > 0
      <4> USE DEF Typed, ReadersTyped
      <4>1. CASE ReaderCheck(r) \/ ReaderEnds(r) \/ Acquire(r)
        BY <4>1 DEF ReaderCheck, ReaderEnds, Acquire
      <4>2. CASE ReadChunk(r) \/ ReadHeader(r)
        BY <4>2 DEF ReadChunk, ReadHeader
      <4>3. CASE ReadNothing(r)
        BY <4>3 DEF ReadNothing
      <4>4. CASE ReadFooter(r)
        BY <4>4 DEF ReadFooter
      <4>5. CASE ReaderPush(r)
        BY <4>5 DEF ReaderPush
      <4> QED
        BY <1>4, <2>3, <4>1, <4>2, <4>3, <4>4, <4>5 DEF Reader
    <3>3. QueuedFiles' = QueuedFiles
      BY <3>1 DEF QueuedFiles
    <3> QED
      BY <1>1, <2>1, <3>1, <3>2, <3>3 DEF Ahead
  <2> QED
    BY <2>2, <2>3
<1>5. ASSUME NEW w \in AllWorkers, Worker(w) PROVE Ahead' \cap Files \subseteq Ahead
  BY <1>2, <1>5 DEF Worker, WorkerCheck, WorkerPop, WorkerEnds, WorkerProcess,
     readerQVars
<1>6. CASE Main
  BY <1>2, <1>6 DEF Main, JoinProducer, JoinReaders, MainClosed, JoinWorkers,
     JoinProgress, MainGoes, MainCloses, readerQVars
<1>7. CASE ProgressEnds \/ Sigint \/ UNCHANGED vars
  BY <1>2, <1>7 DEF ProgressEnds, Sigint, vars, readerQVars
<1> QED
  BY <1>3, <1>4, <1>5, <1>6, <1>7 DEF Next, Threads, Done, Reader

(* A read that fails is that of a failing file, and the last of it.        *)
LEMMA ReadNothingOnce ==
  ASSUME Typed, Control, AtOnePlace, NEW r \in Readers, ReadNothing(r), setup' = setup
  PROVE  rfile[r] \in Failing /\ rfile[r] \in Ahead /\ rfile[r] \notin Ahead'
<1> DEFINE f == rfile[r]
<1>1. /\ reader[r] = "read" /\ ~HeaderOnly /\ ~AtRest(r)
      /\ Declared[f] - left[r] >= OnDisk[f]
      /\ UNCHANGED <<todo, pushing, readerQ>>
  BY DEF ReadNothing, producerVars, readerQVars, AtRest
<1>2. /\ f \in Files /\ f \notin Given.denied /\ left[r] \in Nat
      /\ left[r] = 0 => Declared[f] = 0
  BY <1>1 DEF Control, ReaderHand, Typed, ReadersTyped
<1>3. Declared[f] \in Nat /\ OnDisk[f] \in Nat
  BY <1>2, ScanFacts DEF Typed
<1>4. OnDisk[f] < Declared[f] \/ OnDisk[f] = 0
  BY <1>1, <1>2, <1>3
<1>5. f \in Failing
  BY <1>1, <1>2, <1>4 DEF Failing
<1>6. f \in Ahead
  BY <1>1 DEF Ahead
<1>7. f \notin Ahead'
  <2>1. f \notin todo \cup {pushing} \cup QueuedFiles
    BY <1>1 DEF AtOnePlace
  <2>2. QueuedFiles' = QueuedFiles /\ Readers' = Readers
    BY <1>1, GivenKept DEF QueuedFiles
  <2>3. ASSUME NEW s \in Readers, reader'[s] \in {"acquire", "read"} \/ left'[s] > 0
        PROVE  rfile'[s] # f
    <3>1. CASE s = r
      BY <2>3, <3>1 DEF ReadNothing, Typed, ReadersTyped
    <3>2. CASE s # r
      <4>1. reader'[s] = reader[s] /\ rfile'[s] = rfile[s] /\ left'[s] = left[s]
        BY <3>2 DEF ReadNothing, Typed, ReadersTyped
      <4>2. rfile[s] # f
        BY <1>1, <3>2 DEF AtOnePlace
      <4> QED
        BY <4>1, <4>2
    <3> QED
      BY <3>1, <3>2
  <2> QED
    BY <1>1, <2>1, <2>2, <2>3 DEF Ahead
<1> QED
  BY <1>5, <1>6, <1>7

(* The sum of the free buffers and those in use changes only by a read     *)
(* that fails, and each failing file accounts for one of them.             *)
LEMMA BufferedStep ==
  Typed /\ Typed' /\ Control /\ AtOnePlace /\ CloseAfterLastPush /\ Buffered
    /\ [Next]_vars => Buffered'
<1> SUFFICES ASSUME Typed, Typed', Control, AtOnePlace, CloseAfterLastPush, Buffered,
                    [Next]_vars
             PROVE  Buffered'
  OBVIOUS
<1> DEFINE gone == Failing \ Ahead
<1>1. /\ setup' = setup /\ NumBuffers' = NumBuffers /\ Failing' = Failing
      /\ Readers' = Readers
  BY SetupKept, GivenKept
<1>2. NumBuffers \in Nat /\ Counted /\ Counted'
  <2>1. Counted /\ Counted'
    BY InUseCounted, PTL
  <2> QED
    BY <2>1, ScanFacts DEF Typed
<1>3. Balance \in Int /\ Balance' \in Int
  BY <1>2 DEF Counted
<1>4. IsFiniteSet(Failing) /\ Failing \subseteq Files
  <2>1. Failing \in SUBSET Files /\ IsFiniteSet(Files)
    BY ScanFacts DEF Failing, Typed
  <2> QED
    BY <2>1, FS_Subset
<1>5. gone \subseteq gone'
  BY <1>1, <1>4, AheadStep
<1>6. /\ IsFiniteSet(gone) /\ IsFiniteSet(gone')
      /\ Cardinality(gone) \in Nat /\ Cardinality(gone') \in Nat
      /\ Cardinality(gone) <= Cardinality(gone')
  <2>1. gone \in SUBSET Failing /\ gone' \in SUBSET Failing /\ gone \in SUBSET gone'
    BY <1>1, <1>5
  <2> HIDE DEF gone
  <2>2. IsFiniteSet(gone) /\ IsFiniteSet(gone')
    BY <1>4, <2>1, FS_Subset
  <2> QED
    BY <2>1, <2>2, FS_Subset, FS_CardinalityType
<1>7. ASSUME Balance' = Balance PROVE Buffered'
  <2>1. Balance <= NumBuffers /\ Balance >= NumBuffers - Cardinality(gone)
    BY DEF Buffered
  <2> HIDE DEF gone
  <2>2. Balance' >= NumBuffers - Cardinality(gone')
    BY <1>2, <1>6, <1>7, <1>3, <2>1
  <2> QED
    BY <1>1, <1>7, <2>1, <2>2 DEF Buffered, gone
<1>8. CASE UNCHANGED <<free, reader, outbox, workerQ, wtask>>
  <2>1. InReaders' = InReaders /\ InWorkers' = InWorkers
    BY <1>1, <1>8, HeldKept
  <2>2. Counted /\ Counted'
    BY InUseCounted, PTL
  <2>3. InUse' = InUse
    BY <2>1, <2>2 DEF Counted
  <2> QED
    BY <1>7, <1>8, <2>3 DEF Balance
<1>9. CASE ProducerPush
  <2>1. UNCHANGED <<free, reader, outbox, wtask>>
    BY <1>9 DEF ProducerPush, readerVars, workerVars
  <2>2. CASE UNCHANGED workerQ
    BY <1>8, <2>1, <2>2
  <2>3. CASE ~UNCHANGED workerQ
    <3>1. pushing \in Files /\ Given.hashOf[pushing] \in Workers
      BY <1>9, ScanFacts DEF ProducerPush, Control, ProducerHand, Typed
    <3>2. PICK w \in Workers, t \in Tasks :
            w = Given.hashOf[pushing] /\ t = WholeFileTask(pushing)
      BY <3>1, TaskTypes DEF Typed
    <3>3. workerQ' = [workerQ EXCEPT ![w] = Pushed(@, workerClosed[w], t)]
      BY <1>9, <2>3, <3>2 DEF ProducerPush
    <3>4. ~workerClosed[w]
      BY <1>9 DEF ProducerPush, CloseAfterLastPush
    <3>5. /\ workerQ[w] \in Seq(Tasks) /\ workerQ'[w] = Append(workerQ[w], t)
          /\ \A v \in Workers \ {w} : workerQ'[v] = workerQ[v]
      BY <3>3, <3>4 DEF Pushed, Typed, WorkersTyped
    <3>6. Cardinality(Carrying(workerQ'[w])) = Cardinality(Carrying(workerQ[w]))
      <4>1. Weight(t) = 0
        BY <3>2 DEF WholeFileTask, Task, Weight
      <4>2. Cardinality(Carrying(workerQ[w])) \in Nat
        BY <3>5, CarryingFacts
      <4> QED
        BY <3>5, <4>1, <4>2, CarryingAppend
    <3>7. WorkerLoad(w)' = WorkerLoad(w) /\ WorkerLoad(w) \in Nat
      <4>1. Carrying(workerQ[w])' = Carrying(workerQ'[w])
        BY DEF Carrying
      <4>2. Cardinality(Carrying(workerQ[w])) \in Nat /\ Weight(wtask[w]) \in Nat
        BY <3>5, CarryingFacts DEF Weight
      <4> QED
        BY <2>1, <3>6, <4>1, <4>2 DEF WorkerLoad, Weight
    <3>8. InWorkers' - WorkerLoad(w)' = InWorkers - WorkerLoad(w)
      BY <1>1, <2>1, <3>5, WorkerMoves
    <3>9. Counted /\ Counted' /\ InReaders' = InReaders
      <4>1. Counted /\ Counted'
        BY InUseCounted, PTL
      <4>2. InReaders' = InReaders
        BY <1>1, <2>1, HeldKept
      <4> QED
        BY <4>1, <4>2
    <3>10. InWorkers' = InWorkers
      BY <3>7, <3>8, <3>9 DEF Counted
    <3>11. InUse' = InUse
      BY <3>9, <3>10 DEF Counted
    <3> QED
      BY <1>7, <2>1, <3>11 DEF Balance
  <2> QED
    BY <2>2, <2>3
<1>10. CASE Producer
  <2>1. CASE (\E f \in Files : Walk(f)) \/ WalkEnds \/ ProducerEnds
               \/ \E w \in Workers : ProducerCloses(w)
    BY <1>8, <2>1 DEF Walk, WalkEnds, ProducerEnds, ProducerCloses, CloseWorkerQueue,
       readerVars, workerQVars, workerVars
  <2> QED
    BY <1>9, <1>10, <2>1 DEF Producer
<1>11. ASSUME NEW r \in Readers, Reader(r) PROVE Buffered'
  <2>1. IF ReadNothing(r) THEN Balance' = Balance - 1 ELSE Balance' = Balance
    BY <1>1, <1>11, BalanceReader
  <2>2. CASE ReadNothing(r)
    <3>1. /\ rfile[r] \in Failing /\ rfile[r] \in Ahead /\ rfile[r] \notin Ahead'
      BY <1>1, <2>2, ReadNothingOnce
    <3>2. rfile[r] \in gone' /\ rfile[r] \notin gone
      BY <1>1, <3>1
    <3>3. Cardinality(gone) + 1 <= Cardinality(gone')
      <4>1. gone # gone' /\ gone \in SUBSET gone'
        BY <1>5, <3>2
      <4> HIDE DEF gone
      <4>2. Cardinality(gone') # Cardinality(gone)
        BY <1>6, <4>1, FS_Subset
      <4> QED
        BY <1>6, <4>2
    <3>4. Balance' = Balance - 1
      BY <2>1, <2>2
    <3>5. Balance <= NumBuffers /\ Balance >= NumBuffers - Cardinality(gone)
      BY DEF Buffered
    <3> HIDE DEF gone
    <3>6. Balance' <= NumBuffers
      BY <1>2, <1>3, <3>4, <3>5
    <3>7. Balance' >= NumBuffers - Cardinality(gone')
      BY <1>2, <1>6, <1>3, <3>3, <3>4, <3>5
    <3> QED
      BY <1>1, <3>6, <3>7 DEF Buffered, gone
  <2>3. CASE ~ReadNothing(r)
    BY <1>7, <2>1, <2>3
  <2> QED
    BY <2>2, <2>3
<1>12. ASSUME NEW w \in Workers, Worker(w) PROVE Buffered'
  BY <1>1, <1>7, <1>12, BalanceWorker
<1>13. CASE Main
  BY <1>8, <1>13 DEF Main, JoinProducer, JoinReaders, MainClosed, JoinWorkers,
     JoinProgress, MainGoes, MainCloses, CloseWorkerQueue, readerVars, workerQVars,
     workerVars
<1>14. CASE ProgressEnds \/ Sigint \/ UNCHANGED vars
  BY <1>8, <1>14 DEF ProgressEnds, Sigint, vars, readerVars, workerQVars, workerVars
<1> QED
  BY <1>10, <1>11, <1>12, <1>13, <1>14 DEF Next, Threads, Done, Reader, Worker

-----------------------------------------------------------------------------
LEMMA InitBuffered ==
  ASSUME Init, Typed
  PROVE  Buffered
<1>1. Holders = {}
  <2>1. Carrying(<<>>) = {}
    BY DEF Carrying
  <2>2. ASSUME NEW r \in Readers PROVE HeldByReader(r) = {}
    BY <2>1 DEF Init, HeldByReader
  <2>3. ASSUME NEW w \in Workers PROVE HeldByWorker(w) = {}
    BY <2>1 DEF Init, HeldByWorker, NoTask, Task
  <2> QED
    BY <2>2, <2>3 DEF Holders
<1>2. InUse = 0
  BY <1>1, FS_EmptySet DEF InUse
<1>3. NumBuffers \in Nat /\ free = NumBuffers
  BY ScanFacts DEF Init, Typed
<1>4. Balance = NumBuffers
  BY <1>2, <1>3 DEF Balance
<1>5. Cardinality(Failing \ Ahead) \in Nat
  <2>1. Failing \ Ahead \in SUBSET Files /\ IsFiniteSet(Files)
    BY ScanFacts DEF Failing, Typed
  <2> HIDE DEF Init
  <2>2. IsFiniteSet(Failing \ Ahead)
    BY <2>1, FS_Subset
  <2> QED
    BY <2>2, FS_CardinalityType
<1> QED
  BY <1>3, <1>4, <1>5 DEF Buffered

LEMMA InitIInv == Init => IInv
<1> SUFFICES ASSUME Init PROVE IInv
  OBVIOUS
<1>1. setup \in DOMAIN Setups
  BY DEF Init
<1>2. Typed
  <2>1. ProducerTyped
    <3>1. todo = Files /\ producer = "walk" /\ pushing = NoPath
          /\ readerQ = <<>> /\ readerClosed = FALSE
      BY DEF Init
    <3>2. todo \in SUBSET Files /\ readerClosed \in BOOLEAN
      BY <3>1
    <3>3. readerQ \in Seq(Files)
      BY <3>1
    <3>4. pushing \in Paths
      BY <3>1 DEF Paths
    <3>5. producer \in {"walk", "push", "closeWorkers", "done"}
      BY <3>1
    <3> QED
      BY <3>2, <3>3, <3>4, <3>5 DEF ProducerTyped
  <2>2. ReadersTyped
    BY DEF Init, ReadersTyped, Paths
  <2>3. WorkersTyped
    BY <1>1, TaskTypes DEF Init, WorkersTyped
  <2>4. MainTyped
    BY DEF Init, MainTyped
  <2> QED
    BY <1>1, <2>1, <2>2, <2>3, <2>4, ScanFacts DEF Init, Typed
<1>3. Control
  <2>1. ProducerHand /\ MainOrder
    BY DEF Init, ProducerHand, MainOrder
  <2>2. \A r \in Readers : ReaderHand(r)
    BY DEF Init, ReaderHand, AtRest
  <2>3. \A w \in Workers : WorkerHand(w)
    BY DEF Init, WorkerHand
  <2> QED
    BY <2>1, <2>2, <2>3 DEF Control
<1>4. AtOnePlace
  BY <1>1, ScanFacts DEF Init, AtOnePlace, QueuedFiles, AtRest
<1>5. CloseAfterLastPush
  BY DEF Init, CloseAfterLastPush
<1>6. Buffered
  BY <1>2, InitBuffered
<1> QED
  BY <1>2, <1>3, <1>4, <1>5, <1>6 DEF IInv

LEMMA IInvStep == IInv /\ [Next]_vars => IInv'
<1> SUFFICES ASSUME IInv, [Next]_vars PROVE IInv'
  OBVIOUS
<1> USE DEF IInv
<1>1. Typed'
  BY TypedStep
<1>2. Control'
  BY ControlStep
<1>3. AtOnePlace'
  BY <1>2, AtOnePlaceStep
<1>4. CloseAfterLastPush'
  BY CloseStep
<1>5. Buffered'
  BY <1>1, BufferedStep
<1> QED
  BY <1>1, <1>2, <1>3, <1>4, <1>5

(* The inductive invariant of a scan: its threads stay typed, a file is    *)
(* at one place on its way through the readers, a queue is closed after    *)
(* the last push to it, and the buffers add up but for those of failed     *)
(* reads.                                                                  *)
THEOREM Invariance == Spec => []IInv
<1>1. Init => IInv
  BY InitIInv
<1>2. IInv /\ [Next]_vars => IInv'
  BY IInvStep
<1> QED
  BY <1>1, <1>2, PTL DEF Spec

(* Every variable of a scan has its type in every reachable state, however *)
(* many files, workers and readers there are; in particular the pool never *)
(* holds more buffers than run_scan put into it.                           *)
THEOREM TypeCorrect == Spec => []TypeOK
<1>1. IInv => TypeOK
  <2> SUFFICES ASSUME IInv PROVE TypeOK
    OBVIOUS
  <2>1. Typed /\ Counted /\ Balance <= NumBuffers
    BY InUseCounted DEF IInv, Buffered
  <2>2. free \in Nat /\ InUse \in Nat /\ NumBuffers \in Nat
    BY <2>1, ScanFacts DEF Typed, Counted
  <2>3. free <= NumBuffers
    BY <2>1, <2>2 DEF Balance
  <2> QED
    BY <2>1, <2>2, <2>3 DEF Typed, TypeOK
<1> QED
  BY <1>1, Invariance, PTL

(* No buffer of the pool is used twice or made up, and only a failed read  *)
(* loses one, at most one to each file that cannot be read to its end.     *)
THEOREM BuffersAddUp == Spec => []BuffersAccounted
<1>1. IInv => BuffersAccounted
  <2> SUFFICES ASSUME IInv PROVE BuffersAccounted
    OBVIOUS
  <2>1. /\ Counted /\ NumBuffers \in Nat
        /\ Balance <= NumBuffers
        /\ Balance >= NumBuffers - Cardinality(Failing \ Ahead)
    BY InUseCounted, ScanFacts DEF IInv, Typed, Buffered
  <2>2. IsFiniteSet(Failing)
    <3>1. Failing \in SUBSET Files /\ IsFiniteSet(Files)
      BY ScanFacts DEF Failing, IInv, Typed
    <3> QED
      BY <3>1, FS_Subset
  <2>3. Failing \ Ahead \in SUBSET Failing
    OBVIOUS
  <2>4. /\ Cardinality(Failing \ Ahead) <= Cardinality(Failing)
        /\ Cardinality(Failing) \in Nat /\ Cardinality(Failing \ Ahead) \in Nat
    BY <2>2, <2>3, FS_Subset, FS_CardinalityType
  <2>5. Balance \in Nat
    BY <2>1 DEF Counted
  <2>6. Balance >= NumBuffers - Cardinality(Failing)
    BY <2>1, <2>4, <2>5
  <2> QED
    BY <2>1, <2>6 DEF BuffersAccounted, Balance
<1> QED
  BY <1>1, Invariance, PTL

(* A worker queue is closed only when neither the producer nor a reader    *)
(* will push to it any more, and a worker that was not interrupted leaves  *)
(* nothing behind in it.                                                   *)
THEOREM QueuesClosedLast == Spec => []CloseAfterLastPush
<1>1. IInv => CloseAfterLastPush
  BY DEF IInv
<1> QED
  BY <1>1, Invariance, PTL

-----------------------------------------------------------------------------
(***************************************************************************)
(* The scan implements its contract (ScanContract): each due file is       *)
(* finalized at most once, from the bytes it should be judged by, and the  *)
(* scan ends only when all of them have been or the user has interrupted   *)
(* it.  The argument follows the one or two tasks that are made of a file, *)
(* from the outbox of its reader through the queue to the hand of its      *)
(* worker.                                                                 *)
(***************************************************************************)

(* A worker's tasks, the one in hand first: pop() changes nothing in it.   *)
Line(w) == IF worker[w] = "work" THEN <<wtask[w]>> \o workerQ[w] ELSE workerQ[w]

Misfiled == MisfiledIn[setup]

(* What the callback of the walk lets through.                             *)
Admitted(f) == Given.second \/ f \notin Given.unchanged

(* Files of which two tasks are made, for the first and the last block.    *)
Split(f) == ~IsSsd /\ HeaderOnly /\ f \notin Given.denied /\ Declared[f] > 1

FirstBlock(f) ==
  IF Declared[f] > 0 /\ OnDisk[f] > 0 THEN Block(f, 1) ELSE <<>>

(* What a file must be judged by, whether it is due or not.                *)
Unread(f) == IsSsd \/ f \in Given.denied
PartlySeen(f) == ~Unread(f) /\ HeaderOnly
AllBlocks(f) == [k \in 1..Declared[f] |-> [file |-> f, block |-> k]]
SeenOf(f) ==
  IF Unread(f) THEN <<>>
  ELSE IF HeaderOnly
         THEN FirstBlock(f) \o (IF Declared[f] > 1 THEN LastBlock(f) ELSE <<>>)
  ELSE IF OnDisk[f] >= Declared[f] THEN AllBlocks(f) ELSE <<>>

(* A task of f that belongs to the right report of f.                      *)
Right(f, t) ==
  /\ t.path = f
  /\ t.first => t.fc = [path |-> f, size |-> Declared[f], partial |-> PartlySeen(f)]
  /\ t.first /\ t.last => t.data = SeenOf(f)
  /\ t.first /\ ~t.last => Split(f) /\ t.data = FirstBlock(f)
  /\ ~t.first => Split(f) /\ t.last /\ t.data = LastBlock(f)

(* A task of a file whose chunks are torn apart, see Misfiled.             *)
Astray(t) == t.path \in Misfiled /\ (t.first => t.fc.path \in Misfiled)

Proper(w, t) ==
  \/ Astray(t)
  \/ /\ t.path \in Files \ Misfiled /\ Admitted(t.path)
     /\ Given.hashOf[t.path] = w
     /\ Right(t.path, t)

(* What a reader has made of the file in its hand.                         *)
OutboxRight(r) ==
  LET f == rfile[r]
      out == outbox[r]
  IN
  /\ Admitted(f)
  /\ f \in Misfiled => /\ reader[r] \in {"acquire", "read"} \/ left[r] > 0 =>
                            rpath[r] \in {f, NoPath}
                       /\ \A i \in 1..Len(out) : Astray(out[i])
  /\ f \notin Misfiled =>
       /\ \A i \in 1..Len(out) : Right(f, out[i])
       /\ reader[r] \in {"acquire", "read"} => rpath[r] = f /\ left[r] = Declared[f]
       /\ reader[r] \in {"acquireFooter", "readFooter"} =>
            out[1].first /\ ~out[1].last
       /\ reader[r] = "push" =>
            /\ left[r] = 0
            /\ \/ Len(out) = 1 /\ out[1].last
               \/ Len(out) = 2 /\ out[1].first /\ ~out[1].last /\ ~out[2].first

SendingEnd(r) == reader[r] = "push" /\ ~outbox[r][1].first
BeforeReaders == todo \cup {pushing} \cup QueuedFiles

(* The last task of f, or the first, is still to come to its worker.       *)
Waiting(f) ==
  f \in BeforeReaders \/ \E r \in Readers : ~AtRest(r) /\ rfile[r] = f
Unsent(f) ==
  \/ f \in BeforeReaders
  \/ \E r \in Readers : ~AtRest(r) /\ rfile[r] = f /\ ~SendingEnd(r)

(* Which tasks of f are still to come to its worker.                       *)
Due(f) == IF Unsent(f) THEN "all" ELSE IF Waiting(f) THEN "rest" ELSE "none"

Starts(line, f) == {i \in 1..Len(line) : line[i].path = f /\ line[i].first}
Ends(line, f) == {i \in 1..Len(line) : line[i].path = f /\ line[i].last}

Half(f) == [fc |-> Context(f), seen |-> FirstBlock(f)]

OnTrack(f, due, line, state, report) ==
  /\ due = "all" => Starts(line, f) = {} /\ state = NoState
  /\ due # "none" => Ends(line, f) = {} /\ report = <<>>
  /\ due = "rest" => state = Half(f) \/ Starts(line, f) # {}
  /\ \A i, j \in Starts(line, f) : i = j
  /\ \A i, j \in Ends(line, f) : i = j
  /\ state # NoState => state = Half(f) /\ Split(f) /\ Starts(line, f) = {}
  /\ report # <<>> => Ends(line, f) = {}
  /\ \A i \in Ends(line, f) :
       line[i].first \/ state = Half(f) \/ \E j \in Starts(line, f) : j < i

Tracked ==
  \A f \in Files \ Misfiled :
    LET w == Given.hashOf[f] IN
    OnTrack(f, Due(f), Line(w), active[w][f], reported[f])

NotLost ==
  ~quit => \A f \in DOMAIN Expected :
    Waiting(f) \/ Ends(Line(Given.hashOf[f]), f) # {} \/ reported[f] # <<>>

Admission ==
  \A f \in ({pushing} \cup QueuedFiles) \ {NoPath} : Admitted(f)

OutboxesRight == \A r \in Readers : ~AtRest(r) => OutboxRight(r)

LinesProper == \A w \in Workers : \A i \in 1..Len(Line(w)) : Proper(w, Line(w)[i])

(* A state under a path that is not to be trusted is reported under one.   *)
StatesAstray == \A w \in Workers, p \in Misfiled : active[w][p].fc.path \in Misfiled

(* A thread that was not interrupted leaves only when there is nothing to  *)
(* do for it any more, and the main thread goes on behind the workers.     *)
Joined ==
  /\ IsSsd => readerQ = <<>>
  /\ \A r \in Readers : reader[r] = "exited" /\ ~quit => readerClosed /\ readerQ = <<>>
  /\ main \in {"joinProgress", "done"} => \A w \in Workers : worker[w] = "exited"

RInv ==
  /\ IInv
  /\ Admission /\ OutboxesRight /\ LinesProper /\ StatesAstray
  /\ Tracked /\ NotLost /\ Joined

-----------------------------------------------------------------------------
(* Which files are misfiled, and what is expected of the others.           *)
LEMMA MisfiledFacts ==
  ASSUME setup \in DOMAIN Setups
  PROVE  /\ Misfiled \subseteq Files \cup {NoPath}
         /\ Misfiled # {} => NoPath \in Misfiled /\ ~IsSsd /\ ~HeaderOnly
         /\ \A f \in Files \ Misfiled : /\ f # NoPath /\ f \in Paths
                                        /\ ~IsSsd /\ ~HeaderOnly => Declared[f] <= 1
<1> USE DEF Misfiled, MisfiledIn, Given, Files, Readers, IsSsd, HeaderOnly, Declared
<1>1. /\ Misfiled \subseteq Files \cup {NoPath}
      /\ Misfiled # {} => NoPath \in Misfiled /\ ~IsSsd /\ ~HeaderOnly
  OBVIOUS
<1>2. \A f \in Files : f # NoPath /\ f \in Paths /\ Declared[f] \in Nat
  BY ScanFacts DEF Paths
<1>3. ASSUME NEW f \in Files \ Misfiled, ~IsSsd, ~HeaderOnly
      PROVE  Declared[f] <= 1
  <2>1. ~(Declared[f] > 1)
    BY <1>3
  <2> QED
    BY <1>2, <2>1
<1> QED
  BY <1>1, <1>2, <1>3

LEMMA ExpectedFacts ==
  ASSUME setup \in DOMAIN Setups
  PROVE  /\ DOMAIN Expected =
              {f \in Files \ Misfiled :
                 Admitted(f) /\ (Given.maxBlocks = 0 \/ Declared[f] <= Given.maxBlocks)}
         /\ \A f \in DOMAIN Expected :
              Expected[f] = [size |-> Declared[f], partial |-> PartlySeen(f),
                             seen |-> SeenOf(f)]
<1>1. DOMAIN Expected =
        {f \in Files \ Misfiled :
           Admitted(f) /\ (Given.maxBlocks = 0 \/ Declared[f] <= Given.maxBlocks)}
  BY DEF Expected, ExpectedIn, Declared, DeclaredIn, Given, Files, Misfiled, Admitted
<1>2. ASSUME NEW f \in DOMAIN Expected
      PROVE  Expected[f] = [size |-> Declared[f], partial |-> PartlySeen(f),
                            seen |-> SeenOf(f)]
  <2> DEFINE n == Declared[f]
             ends == (IF n > 0 /\ OnDisk[f] > 0 THEN Block(f, 1) ELSE <<>>)
                     \o (IF n > 1 /\ OnDisk[f] >= n THEN Block(f, n) ELSE <<>>)
             seen == IF Unread(f) THEN <<>> ELSE IF HeaderOnly THEN ends
                     ELSE IF OnDisk[f] >= n THEN AllBlocks(f) ELSE <<>>
  <2>1. Expected[f] = [size |-> n, partial |-> PartlySeen(f), seen |-> seen]
    BY DEF Expected, ExpectedIn, Declared, Given, Files, IsSsd, Readers, HeaderOnly,
           OnDisk, Unread, PartlySeen, AllBlocks
  <2>2. n \in Nat /\ OnDisk[f] \in Nat
    BY <1>1, ScanFacts
  <2>3. ends = FirstBlock(f) \o (IF n > 1 THEN LastBlock(f) ELSE <<>>)
    <3>1. (IF n > 1 /\ OnDisk[f] >= n THEN Block(f, n) ELSE <<>>)
            = (IF n > 1 THEN LastBlock(f) ELSE <<>>)
      BY <2>2 DEF LastBlock
    <3> QED
      BY <3>1 DEF FirstBlock
  <2>4. seen = SeenOf(f)
    BY <2>3 DEF SeenOf
  <2> QED
    BY <2>1, <2>4
<1> QED
  BY <1>1, <1>2

-----------------------------------------------------------------------------
(* The tasks that are made of a file are right.                            *)
LEMMA FewBlocks ==
  ASSUME NEW f \in Files, setup \in DOMAIN Setups
  PROVE  /\ Declared[f] = 0 => AllBlocks(f) = <<>>
         /\ Declared[f] = 1 => AllBlocks(f) = Block(f, 1)
<1>1. Declared[f] = 0 => AllBlocks(f) = <<>>
  BY DEF AllBlocks
<1>2. ASSUME Declared[f] = 1 PROVE AllBlocks(f) = Block(f, 1)
  <2>1. AllBlocks(f) = [k \in 1..1 |-> [file |-> f, block |-> k]]
    BY <1>2 DEF AllBlocks
  <2> DEFINE s == [k \in 1..1 |-> [file |-> f, block |-> k]]
             b == [file |-> f, block |-> 1]
  <2>2. s \in Seq({b}) /\ Len(s) = 1 /\ s[1] = b
    OBVIOUS
  <2> HIDE DEF s, b
  <2>3. s = <<b>>
    BY <2>2
  <2> QED
    BY <2>1, <2>3 DEF Block, s, b
<1> QED
  BY <1>1, <1>2

(* A file of which nothing is read: on an SSD, or one that cannot be       *)
(* opened, or whose first read fails.                                      *)
LEMMA WholeRight ==
  ASSUME setup \in DOMAIN Setups, NEW f \in Files
  PROVE  LET t == WholeFileTask(f) IN
         /\ t.path = f /\ t.first /\ t.last /\ t.fc.path = f
         /\ f \in Misfiled => Astray(t)
         /\ f \notin Misfiled /\ (Unread(f) \/ (~HeaderOnly /\ OnDisk[f] = 0)) =>
              Right(f, t)
<1> DEFINE t == WholeFileTask(f)
<1>1. /\ t.path = f /\ t.first = TRUE /\ t.last = TRUE /\ t.data = <<>>
      /\ t.fc = [path |-> f, size |-> Declared[f], partial |-> FALSE]
  BY DEF WholeFileTask, Task, Context
<1>2. t.fc.path = f
  BY <1>1
<1> HIDE DEF t
<1>3. f \in Misfiled => Astray(t)
  BY <1>1, <1>2 DEF Astray
<1>4. ASSUME f \notin Misfiled, Unread(f) \/ (~HeaderOnly /\ OnDisk[f] = 0)
      PROVE  Right(f, t)
  <2>1. PartlySeen(f) = FALSE
    BY <1>4 DEF PartlySeen
  <2>2. SeenOf(f) = <<>>
    <3>1. CASE Unread(f)
      BY <3>1 DEF SeenOf
    <3>2. CASE ~Unread(f)
      <4>1. ~HeaderOnly /\ OnDisk[f] = 0 /\ Declared[f] \in Nat
        BY <1>4, <3>2, ScanFacts
      <4> QED
        BY <3>2, <4>1, FewBlocks DEF SeenOf
    <3> QED
      BY <3>1, <3>2
  <2> QED
    BY <1>1, <2>1, <2>2 DEF Right
<1> QED
  BY <1>1, <1>2, <1>3, <1>4 DEF t

(* The one chunk of a small file.                                          *)
LEMMA ChunkRight ==
  ASSUME setup \in DOMAIN Setups, NEW f \in Files \ Misfiled,
         ~Unread(f), ~HeaderOnly, OnDisk[f] > 0,
         NEW d, d = (IF Declared[f] > 0 THEN Block(f, 1) ELSE <<>>)
  PROVE  Right(f, Task(f, Context(f), TRUE, TRUE, TRUE, d))
<1>1. Declared[f] <= 1 /\ Declared[f] \in Nat /\ OnDisk[f] \in Nat
  BY MisfiledFacts, ScanFacts DEF Unread
<1>2. SeenOf(f) = d
  BY <1>1, FewBlocks DEF SeenOf
<1>3. PartlySeen(f) = HeaderOnly
  BY ScanFacts DEF PartlySeen
<1> QED
  BY <1>2, <1>3 DEF Right, Task, Context

(* The header of a file, with the whole of a small one, and its footer.    *)
LEMMA EndsRight ==
  ASSUME setup \in DOMAIN Setups, NEW f \in Files \ Misfiled,
         ~Unread(f), HeaderOnly
  PROVE  /\ Right(f, Task(f, Context(f), TRUE, TRUE, Declared[f] <= 1, FirstBlock(f)))
         /\ Split(f) => Right(f, Task(f, NoContext, TRUE, FALSE, TRUE, LastBlock(f)))
<1>1. PartlySeen(f) = TRUE /\ HeaderOnly = TRUE
  BY ScanFacts DEF PartlySeen
<1>2. Declared[f] \in Nat /\ OnDisk[f] \in Nat
  BY ScanFacts
<1>3. Declared[f] <= 1 => SeenOf(f) = FirstBlock(f)
  <2> SUFFICES ASSUME Declared[f] <= 1 PROVE SeenOf(f) = FirstBlock(f)
    OBVIOUS
  <2>0. ~(Declared[f] > 1)
    BY <1>2
  <2>1. SeenOf(f) = FirstBlock(f) \o <<>>
    BY <2>0, Zenon DEF SeenOf
  <2>2. FirstBlock(f) \in Seq(Blocks)
    BY TaskTypes DEF FirstBlock
  <2> QED
    BY <2>1, <2>2
<1>4. ~(Declared[f] <= 1) => Split(f)
  BY <1>2 DEF Split, Unread
<1>5. Right(f, Task(f, Context(f), TRUE, TRUE, Declared[f] <= 1, FirstBlock(f)))
  BY <1>1, <1>3, <1>4 DEF Right, Task, Context
<1> QED
  BY <1>5 DEF Right, Task

-----------------------------------------------------------------------------
(* How the tasks of a file stand in a line that grows at its end and is    *)
(* served from its front.                                                  *)
LEMMA LineGrows ==
  ASSUME NEW S, NEW line \in Seq(S), NEW t \in S, NEW f
  PROVE  LET l == Append(line, t)
             n == Len(line) + 1
         IN
         /\ l[n] = t /\ \A i \in 1..Len(line) : l[i] = line[i]
         /\ Starts(l, f) = Starts(line, f) \cup (IF t.path = f /\ t.first THEN {n} ELSE {})
         /\ Ends(l, f) = Ends(line, f) \cup (IF t.path = f /\ t.last THEN {n} ELSE {})
         /\ t.path # f => Starts(l, f) = Starts(line, f) /\ Ends(l, f) = Ends(line, f)
         /\ \A i \in Starts(line, f) \cup Ends(line, f) : i \in 1..Len(line) /\ i < n
<1> DEFINE l == Append(line, t)
           n == Len(line) + 1
<1>1. /\ l[n] = t /\ \A i \in 1..Len(line) : l[i] = line[i]
      /\ Len(line) \in Nat /\ Len(l) = n
  OBVIOUS
<1> HIDE DEF l
<1>2. 1..Len(l) = 1..Len(line) \cup {n} /\ n \notin 1..Len(line)
  BY <1>1
<1>3. Starts(l, f) = Starts(line, f) \cup (IF t.path = f /\ t.first THEN {n} ELSE {})
  BY <1>1, <1>2 DEF Starts
<1>4. Ends(l, f) = Ends(line, f) \cup (IF t.path = f /\ t.last THEN {n} ELSE {})
  BY <1>1, <1>2 DEF Ends
<1>5. \A i \in Starts(line, f) \cup Ends(line, f) : i \in 1..Len(line) /\ i < n
  BY <1>1 DEF Starts, Ends
<1>6. t.path # f => Starts(l, f) = Starts(line, f) /\ Ends(l, f) = Ends(line, f)
  BY <1>3, <1>4
<1> QED
  BY <1>1, <1>3, <1>4, <1>5, <1>6 DEF l

LEMMA LineServed ==
  ASSUME NEW S, NEW line \in Seq(S), line # <<>>, NEW f
  PROVE  LET h == Head(line)
             l == Tail(line)
         IN
         /\ h = line[1] /\ h \in S /\ 1 \in 1..Len(line)
         /\ \A i \in 1..Len(l) : i + 1 \in 1..Len(line) /\ l[i] = line[i + 1]
         /\ \A i \in Starts(line, f) \cup Ends(line, f) : i \in Nat /\ i >= 1
         /\ 1 \in Starts(line, f) <=> h.path = f /\ h.first
         /\ 1 \in Ends(line, f) <=> h.path = f /\ h.last
         /\ \A i \in Starts(l, f) : i \in 1..Len(l) /\ i + 1 \in Starts(line, f)
         /\ \A i \in Ends(l, f) : i \in 1..Len(l) /\ i + 1 \in Ends(line, f)
         /\ \A i \in Starts(line, f) : i = 1 \/ i - 1 \in Starts(l, f)
         /\ \A i \in Ends(line, f) : i = 1 \/ i - 1 \in Ends(l, f)
<1> DEFINE h == Head(line)
           l == Tail(line)
<1>1. /\ h = line[1] /\ h \in S /\ Len(line) \in Nat /\ Len(line) >= 1
      /\ Len(l) = Len(line) - 1
      /\ \A i \in 1..Len(l) : l[i] = line[i + 1]
  OBVIOUS
<1> HIDE DEF h, l
<1>2. /\ 1 \in 1..Len(line)
      /\ \A i \in 1..Len(l) : i + 1 \in 1..Len(line) /\ l[i] = line[i + 1]
      /\ \A i \in Starts(line, f) \cup Ends(line, f) : i \in Nat /\ i >= 1
  BY <1>1 DEF Starts, Ends
<1>3. /\ 1 \in Starts(line, f) <=> h.path = f /\ h.first
      /\ 1 \in Ends(line, f) <=> h.path = f /\ h.last
  BY <1>1, <1>2 DEF Starts, Ends
<1>4. /\ \A i \in Starts(l, f) : i \in 1..Len(l) /\ i + 1 \in Starts(line, f)
      /\ \A i \in Ends(l, f) : i \in 1..Len(l) /\ i + 1 \in Ends(line, f)
  BY <1>2 DEF Starts, Ends
<1>5. \A i \in 1..Len(line) : i = 1 \/ (i - 1 \in 1..Len(l) /\ l[i - 1] = line[i])
  BY <1>1
<1>6. /\ \A i \in Starts(line, f) : i = 1 \/ i - 1 \in Starts(l, f)
      /\ \A i \in Ends(line, f) : i = 1 \/ i - 1 \in Ends(l, f)
  BY <1>5 DEF Starts, Ends
<1> QED
  BY <1>1, <1>2, <1>3, <1>4, <1>6 DEF h, l

(* A file may leave the scan on the way.                                   *)
LEMMA TrackWeaker ==
  ASSUME NEW f, NEW line, NEW state, NEW report, NEW due, NEW then,
         OnTrack(f, due, line, state, report), then \in {due, "none"}
  PROVE  OnTrack(f, then, line, state, report)
BY DEF OnTrack

LEMMA TrackOther ==
  ASSUME NEW S, NEW line \in Seq(S), NEW t \in S, NEW f, t.path # f,
         NEW state, NEW report, NEW due,
         OnTrack(f, due, line, state, report)
  PROVE  OnTrack(f, due, Append(line, t), state, report)
<1> DEFINE l == Append(line, t)
<1>1. /\ Starts(l, f) = Starts(line, f) /\ Ends(l, f) = Ends(line, f)
      /\ \A i \in Ends(l, f) : l[i] = line[i]
  <2>1. Starts(l, f) = Starts(line, f) /\ Ends(l, f) = Ends(line, f)
    BY LineGrows
  <2>2. \A i \in Ends(line, f) : i \in 1..Len(line) /\ l[i] = line[i]
    BY LineGrows
  <2> HIDE DEF l
  <2> QED
    BY <2>1, <2>2
<1> HIDE DEF l
<1>2. \A i \in Ends(l, f) :
        l[i].first \/ state = Half(f) \/ \E j \in Starts(l, f) : j < i
  BY <1>1 DEF OnTrack
<1>3. OnTrack(f, due, l, state, report)
  BY <1>1, <1>2 DEF OnTrack
<1> QED
  BY <1>3 DEF l

(* The tasks of a file arrive: the only one, the first, or the last of two *)
LEMMA TrackArrives ==
  ASSUME NEW S, NEW line \in Seq(S), NEW t \in S, NEW f, t.path = f,
         NEW state, NEW report, NEW due, NEW then,
         OnTrack(f, due, line, state, report),
         due # "none", t.first => due = "all", ~t.first => due = "rest" /\ t.last,
         then = IF t.last THEN "none" ELSE "rest"
  PROVE  OnTrack(f, then, Append(line, t), state, report)
<1> DEFINE l == Append(line, t)
           n == Len(line) + 1
<1>1. /\ l[n] = t
      /\ Starts(l, f) = Starts(line, f) \cup (IF t.first THEN {n} ELSE {})
      /\ Ends(l, f) = Ends(line, f) \cup (IF t.last THEN {n} ELSE {})
      /\ \A i \in Starts(line, f) : i < n
  BY LineGrows
<1> HIDE DEF l, n
<1>2. due = "all" => Starts(line, f) = {} /\ state = NoState
  BY DEF OnTrack
<1>3. Ends(line, f) = {} /\ report = <<>>
  BY DEF OnTrack
<1>4. ASSUME t.first, t.last
      PROVE  OnTrack(f, then, l, state, report)
  <2>1. Starts(l, f) = {n} /\ Ends(l, f) = {n} /\ state = NoState
    BY <1>1, <1>2, <1>3, <1>4
  <2> QED
    BY <1>1, <1>3, <1>4, <2>1 DEF OnTrack
<1>5. ASSUME t.first, ~t.last
      PROVE  OnTrack(f, then, l, state, report)
  <2>1. Starts(l, f) = {n} /\ Ends(l, f) = {} /\ state = NoState
    BY <1>1, <1>2, <1>3, <1>5
  <2> QED
    BY <1>3, <1>5, <2>1 DEF OnTrack
<1>6. ASSUME ~t.first
      PROVE  OnTrack(f, then, l, state, report)
  <2>1. Starts(l, f) = Starts(line, f) /\ Ends(l, f) = {n} /\ then = "none"
    BY <1>1, <1>3, <1>6
  <2>2. state = Half(f) \/ \E j \in Starts(l, f) : j < n
    BY <1>1, <1>6, <2>1 DEF OnTrack
  <2>3. /\ \A i, j \in Starts(l, f) : i = j
        /\ state # NoState => state = Half(f) /\ Split(f) /\ Starts(l, f) = {}
    BY <2>1 DEF OnTrack
  <2> QED
    BY <1>3, <1>6, <2>1, <2>2, <2>3 DEF OnTrack
<1> QED
  BY <1>4, <1>5, <1>6 DEF l

(* The worker is done with a task of another file.                         *)
LEMMA TrackPassed ==
  ASSUME NEW S, NEW line \in Seq(S), line # <<>>, NEW f, Head(line).path # f,
         NEW state, NEW report, NEW due,
         OnTrack(f, due, line, state, report)
  PROVE  OnTrack(f, due, Tail(line), state, report)
<1> DEFINE l == Tail(line)
<1>1. /\ \A i \in 1..Len(l) : i + 1 \in 1..Len(line) /\ l[i] = line[i + 1]
      /\ \A i \in Starts(line, f) \cup Ends(line, f) : i \in Nat /\ i >= 1
      /\ \A i \in Starts(l, f) : i \in 1..Len(l) /\ i + 1 \in Starts(line, f)
      /\ \A i \in Ends(l, f) : i \in 1..Len(l) /\ i + 1 \in Ends(line, f)
      /\ \A i \in Starts(line, f) : i - 1 \in Starts(l, f)
  BY LineServed
<1> HIDE DEF l
<1>2. /\ Starts(line, f) = {} => Starts(l, f) = {}
      /\ Ends(line, f) = {} => Ends(l, f) = {}
      /\ Starts(line, f) # {} => Starts(l, f) # {}
  BY <1>1
<1>3. /\ \A i, j \in Starts(line, f) : i = j
      /\ \A i, j \in Ends(line, f) : i = j
      /\ \A i \in Ends(line, f) :
           line[i].first \/ state = Half(f) \/ \E j \in Starts(line, f) : j < i
  BY DEF OnTrack
<1>4. /\ \A i, j \in Starts(l, f) : i = j
      /\ \A i, j \in Ends(l, f) : i = j
  <2>1. ASSUME NEW i \in Starts(l, f), NEW j \in Starts(l, f) PROVE i = j
    <3>1. i + 1 = j + 1 /\ i \in Int /\ j \in Int
      BY <1>1, <1>3
    <3> QED
      BY <3>1
  <2>2. ASSUME NEW i \in Ends(l, f), NEW j \in Ends(l, f) PROVE i = j
    <3>1. i + 1 = j + 1 /\ i \in Int /\ j \in Int
      BY <1>1, <1>3
    <3> QED
      BY <3>1
  <2> QED
    BY <2>1, <2>2
<1>5. ASSUME NEW i \in Ends(l, f)
      PROVE  l[i].first \/ state = Half(f) \/ \E j \in Starts(l, f) : j < i
  <2>1. i \in 1..Len(l) /\ i + 1 \in Ends(line, f) /\ l[i] = line[i + 1]
    BY <1>1
  <2>2. CASE line[i + 1].first \/ state = Half(f)
    BY <2>1, <2>2
  <2>3. ASSUME NEW j \in Starts(line, f), j < i + 1
        PROVE  \E k \in Starts(l, f) : k < i
    <3>1. j - 1 \in Starts(l, f) /\ j \in Nat /\ j - 1 < i
      BY <1>1, <2>1, <2>3
    <3> QED
      BY <3>1
  <2> QED
    BY <1>3, <2>1, <2>2, <2>3
<1>6. OnTrack(f, due, l, state, report)
  BY <1>2, <1>4, <1>5 DEF OnTrack
<1> QED
  BY <1>6 DEF l

(* The worker is done with a task of the file.  What it has collected when *)
(* the last one is there is complete, and nothing has been reported yet.   *)
LEMMA TrackServed ==
  ASSUME NEW S, NEW line \in Seq(S), line # <<>>, NEW f, Head(line).path = f,
         NEW state, NEW report, NEW due,
         OnTrack(f, due, line, state, report),
         Right(f, Head(line)), f # NoPath
  PROVE  LET t == Head(line) IN
         /\ t.first => state = NoState
         /\ ~t.first => t.last /\ state = Half(f)
         /\ t.last => /\ report = <<>>
                      /\ \A r : OnTrack(f, due, Tail(line), NoState, r)
         /\ ~t.last => OnTrack(f, due, Tail(line), Half(f), report)
<1> DEFINE l == Tail(line)
           t == Head(line)
<1>1. /\ t = line[1]
      /\ \A i \in 1..Len(l) : i + 1 \in 1..Len(line) /\ l[i] = line[i + 1]
      /\ \A i \in Starts(line, f) \cup Ends(line, f) : i \in Nat /\ i >= 1
      /\ \A i \in Starts(l, f) : i \in 1..Len(l) /\ i + 1 \in Starts(line, f)
      /\ \A i \in Ends(l, f) : i \in 1..Len(l) /\ i + 1 \in Ends(line, f)
      /\ 1 \in Starts(line, f) <=> t.first
      /\ 1 \in Ends(line, f) <=> t.last
  BY LineServed
<1>2. ~t.first => t.last /\ Split(f)
  BY DEF Right
<1>3. t.first /\ ~t.last => Split(f)
  BY DEF Right
<1> HIDE DEF l, t
<1>4. /\ \A i, j \in Starts(line, f) : i = j
      /\ \A i, j \in Ends(line, f) : i = j
      /\ state # NoState => state = Half(f) /\ Starts(line, f) = {}
      /\ \A i \in Ends(line, f) :
           line[i].first \/ state = Half(f) \/ \E j \in Starts(line, f) : j < i
      /\ due # "none" => Ends(line, f) = {} /\ report = <<>>
      /\ due = "all" => Starts(line, f) = {}
      /\ report # <<>> => Ends(line, f) = {}
  BY DEF OnTrack
<1>5. due # "all"
  BY <1>1, <1>2, <1>4
<1>6. t.first => state = NoState
  BY <1>1, <1>4
<1>7. t.first => Starts(l, f) = {}
  <2> SUFFICES ASSUME t.first, NEW i \in Starts(l, f) PROVE FALSE
    OBVIOUS
  <2>1. i + 1 = 1 /\ i \in 1..Len(l)
    BY <1>1, <1>4
  <2> QED
    BY <2>1
<1>8. t.last => Ends(l, f) = {} /\ due = "none" /\ report = <<>>
  <2>1. ASSUME t.last, NEW i \in Ends(l, f) PROVE FALSE
    <3>1. i + 1 = 1 /\ i \in 1..Len(l)
      BY <1>1, <1>4, <2>1
    <3> QED
      BY <3>1
  <2> QED
    BY <1>1, <1>4, <2>1
<1>9. ASSUME ~t.first PROVE t.last /\ state = Half(f) /\ Starts(l, f) = {}
  <2>1. t.last /\ 1 \in Ends(line, f) /\ ~line[1].first
    BY <1>1, <1>2, <1>9
  <2>2. state = Half(f)
    BY <1>1, <1>4, <2>1
  <2>3. Half(f) # NoState
    BY DEF Half, Context, NoState, NoContext
  <2>4. Starts(line, f) = {}
    BY <1>4, <2>2, <2>3
  <2> QED
    BY <1>1, <2>1, <2>2, <2>4
<1>10. ASSUME t.last, NEW r PROVE OnTrack(f, due, l, NoState, r)
  <2>1. Starts(l, f) = {} /\ Ends(l, f) = {} /\ due = "none"
    BY <1>7, <1>8, <1>9, <1>10
  <2> QED
    BY <1>5, <2>1 DEF OnTrack
<1>11. ASSUME ~t.last PROVE OnTrack(f, due, l, Half(f), report)
  <2>1. Starts(l, f) = {} /\ Split(f)
    BY <1>3, <1>7, <1>9, <1>11
  <2>2. /\ due # "none" => Ends(l, f) = {} /\ report = <<>>
        /\ report # <<>> => Ends(l, f) = {}
        /\ \A i, j \in Ends(l, f) : i = j
    <3>1. Ends(line, f) = {} => Ends(l, f) = {}
      BY <1>1
    <3>2. ASSUME NEW i \in Ends(l, f), NEW j \in Ends(l, f) PROVE i = j
      <4>1. i + 1 = j + 1 /\ i \in Int /\ j \in Int
        BY <1>1, <1>4
      <4> QED
        BY <4>1
    <3> QED
      BY <1>4, <3>1, <3>2
  <2> QED
    BY <1>5, <2>1, <2>2 DEF OnTrack
<1> QED
  BY <1>5, <1>6, <1>8, <1>9, <1>10, <1>11 DEF l, t

-----------------------------------------------------------------------------
(* What is given stays, and so does what is said in terms of it.           *)
LEMMA ContractKept ==
  ASSUME setup' = setup
  PROVE  /\ Misfiled' = Misfiled /\ Expected' = Expected
         /\ \A f : /\ Admitted(f)' <=> Admitted(f)
                   /\ Split(f)' <=> Split(f)
                   /\ Half(f)' = Half(f)
         /\ \A f, t : Right(f, t)' <=> Right(f, t)
         /\ \A t : Astray(t)' <=> Astray(t)
         /\ \A w, t : Proper(w, t)' <=> Proper(w, t)
<1> USE GivenKept
<1>1. Misfiled' = Misfiled /\ Expected' = Expected
  BY DEF Misfiled, Expected
<1>2. ASSUME NEW f
      PROVE  /\ Admitted(f)' <=> Admitted(f)
             /\ Split(f)' <=> Split(f)
             /\ Half(f)' = Half(f)
             /\ FirstBlock(f)' = FirstBlock(f) /\ LastBlock(f)' = LastBlock(f)
  BY DEF Admitted, Split, Half, FirstBlock, LastBlock, Context
<1>3. ASSUME NEW f
      PROVE  PartlySeen(f)' = PartlySeen(f) /\ SeenOf(f)' = SeenOf(f)
  <2>1. (Unread(f)' <=> Unread(f)) /\ AllBlocks(f)' = AllBlocks(f)
    BY DEF Unread, AllBlocks
  <2> QED
    BY <1>2, <2>1 DEF PartlySeen, SeenOf
<1>4. ASSUME NEW f, NEW t PROVE Right(f, t)' <=> Right(f, t)
  BY <1>2, <1>3 DEF Right
<1>5. \A t : Astray(t)' <=> Astray(t)
  BY <1>1 DEF Astray
<1>6. \A w, t : Proper(w, t)' <=> Proper(w, t)
  BY <1>1, <1>2, <1>4, <1>5 DEF Proper
<1> QED
  BY <1>1, <1>2, <1>4, <1>5, <1>6

(* What the moving reader makes of the file in its hand.                   *)
LEMMA OutboxStep ==
  ASSUME Typed, Control, Admission, OutboxesRight, setup' = setup,
         NEW r \in Readers, Reader(r), ~AtRest(r)'
  PROVE  OutboxRight(r)'
<1> DEFINE f == rfile'[r]
           out == outbox'[r]
<1>0. /\ setup \in DOMAIN Setups /\ ~IsSsd
      /\ f \in Files \ Misfiled => f # NoPath
  BY MisfiledFacts DEF Typed, IsSsd
<1> SUFFICES
      /\ Admitted(f)
      /\ f \in Misfiled => /\ reader'[r] \in {"acquire", "read"} \/ left'[r] > 0 =>
                                rpath'[r] \in {f, NoPath}
                           /\ \A i \in 1..Len(out) : Astray(out[i])
      /\ f \notin Misfiled =>
           /\ \A i \in 1..Len(out) : Right(f, out[i])
           /\ reader'[r] \in {"acquire", "read"} => rpath'[r] = f /\ left'[r] = Declared[f]
           /\ reader'[r] \in {"acquireFooter", "readFooter"} =>
                out[1].first /\ ~out[1].last
           /\ reader'[r] = "push" =>
                /\ left'[r] = 0
                /\ \/ Len(out) = 1 /\ out[1].last
                   \/ Len(out) = 2 /\ out[1].first /\ ~out[1].last /\ ~out[2].first
  <2> HIDE DEF f, out
  <2>1. /\ \A g : Admitted(g)' <=> Admitted(g)
        /\ \A g, t : Right(g, t)' <=> Right(g, t)
        /\ \A t : Astray(t)' <=> Astray(t)
        /\ Misfiled' = Misfiled /\ Declared' = Declared
    BY ContractKept, GivenKept
  <2> QED
    BY <2>1 DEF OutboxRight, f, out
<1> USE DEF Typed, ReadersTyped
<1> HIDE DEF f, out
<1>1. ~AtRest(r) => /\ rfile[r] \in Files /\ OutboxRight(r) /\ ReaderHand(r)
                    /\ OnDisk[rfile[r]] \in Nat /\ Declared[rfile[r]] \in Nat
  BY <1>0, ScanFacts DEF Control, ReaderHand, OutboxesRight
<1>2. CASE ReaderCheck(r) \/ ReaderEnds(r)
  BY <1>2 DEF ReaderCheck, ReaderEnds, AtRest
<1>3. CASE ReaderPop(r)
  <2>1. /\ f = Head(readerQ) /\ readerQ # <<>> /\ readerQ \in Seq(Files)
        /\ left[r] = 0 /\ outbox[r] = <<>>
    BY <1>3 DEF ReaderPop, ProducerTyped, Control, ReaderHand, AtRest, f
  <2>2. f \in Files /\ f \in QueuedFiles /\ f # NoPath /\ Admitted(f)
    <3>1. f \in Files /\ f \in QueuedFiles
      BY <2>1 DEF QueuedFiles
    <3> QED
      BY <1>0, <3>1, ScanFacts DEF Admission
  <2>3. CASE f \in Given.denied
    <3>1. /\ reader'[r] = "push" /\ left'[r] = 0
          /\ out = <<WholeFileTask(f)>>
      BY <1>3, <2>1, <2>3 DEF ReaderPop, out
    <3>2. /\ f \in Misfiled => Astray(WholeFileTask(f))
          /\ f \notin Misfiled => Right(f, WholeFileTask(f))
          /\ WholeFileTask(f).last
      BY <1>0, <2>2, <2>3, WholeRight DEF Unread
    <3> QED
      BY <2>2, <3>1, <3>2
  <2>4. CASE f \notin Given.denied
    <3>1. /\ reader'[r] = "acquire" /\ left'[r] = Declared[f]
          /\ out = <<>> /\ rpath'[r] = f
      BY <1>3, <2>1, <2>4 DEF ReaderPop, out
    <3> QED
      BY <2>2, <3>1
  <2> QED
    BY <2>3, <2>4
<1>4. CASE Acquire(r)
  <2>1. /\ f = rfile[r] /\ out = outbox[r] /\ ~AtRest(r)
        /\ rpath'[r] = rpath[r] /\ left'[r] = left[r]
        /\ \/ reader[r] = "acquire" /\ reader'[r] = "read"
           \/ reader[r] = "acquireFooter" /\ reader'[r] = "readFooter"
    BY <1>4 DEF Acquire, AtRest, f, out
  <2> QED
    BY <1>1, <2>1 DEF OutboxRight
<1>5. CASE ReadChunk(r)
  <2> DEFINE first == left[r] = Declared[f]
             next == Declared[f] - left[r] + 1
             fc == IF first THEN Context(f) ELSE NoContext
             data == IF left[r] > 0 THEN Block(f, next) ELSE <<>>
             task == Task(rpath[r], fc, TRUE, first, Remaining(r) = 0, data)
  <2>1. /\ f = rfile[r] /\ ~AtRest(r) /\ reader[r] = "read" /\ ~HeaderOnly
        /\ out = <<task>> /\ next <= OnDisk[f]
        /\ rpath'[r] = NoPath /\ left'[r] = Remaining(r) /\ reader'[r] = "push"
    BY <1>5 DEF ReadChunk, AtRest, f, out
  <2>2. Admitted(f) /\ f \in Files /\ f \notin Given.denied /\ left[r] \in Nat
    BY <1>1, <2>1 DEF OutboxRight, ReaderHand
  <2>3. ASSUME f \in Misfiled PROVE Astray(task)
    <3>1. rpath[r] \in Misfiled /\ task.path = rpath[r]
      BY <1>0, <1>1, <2>1, <2>3, MisfiledFacts DEF OutboxRight, Task
    <3>2. task.first => task.fc.path = f
      BY DEF Task, Context
    <3> QED
      BY <2>3, <3>1, <3>2 DEF Astray
  <2>4. ASSUME f \notin Misfiled
        PROVE  left'[r] = 0 /\ Right(f, task) /\ task.last
    <3>1. rpath[r] = f /\ left[r] = Declared[f] /\ Declared[f] <= 1
      BY <1>0, <1>1, <2>1, <2>2, <2>4, MisfiledFacts DEF OutboxRight
    <3>2. first = TRUE /\ next = 1 /\ (Remaining(r) = 0) = TRUE /\ fc = Context(f)
      BY <2>2, <3>1 DEF Remaining
    <3>3. OnDisk[f] > 0
      BY <1>1, <2>1, <3>2
    <3>4. data = (IF Declared[f] > 0 THEN Block(f, 1) ELSE <<>>)
      BY <3>1, <3>2
    <3> HIDE DEF data, fc, first, next
    <3>5. task = Task(f, Context(f), TRUE, TRUE, TRUE, data)
      BY <3>1, <3>2
    <3>6. Right(f, task)
      BY <1>0, <2>1, <2>2, <2>4, <3>3, <3>4, <3>5, ChunkRight DEF Unread
    <3> QED
      BY <2>1, <3>2, <3>5, <3>6 DEF Task
  <2> HIDE DEF task
  <2> QED
    BY <2>1, <2>2, <2>3, <2>4
<1>6. CASE ReadNothing(r)
  <2>1. /\ reader[r] = "read" /\ ~AtRest(r) /\ ~HeaderOnly
        /\ Declared[rfile[r]] - left[r] >= OnDisk[rfile[r]]
        /\ out = TasksOfFailure(r) /\ left'[r] = 0
        /\ out # <<>> => reader'[r] = "push" /\ f = rfile[r]
        /\ out = <<>> => reader'[r] = "check"
    BY <1>6 DEF ReadNothing, AtRest, f, out
  <2>2. out = <<WholeFileTask(f)>> /\ reader'[r] = "push" /\ f = rfile[r]
        /\ left[r] = Declared[f]
    BY <2>1 DEF TasksOfFailure, AtRest
  <2>3. Admitted(f) /\ f \in Files
    BY <1>1, <2>1, <2>2 DEF OutboxRight
  <2>4. OnDisk[f] = 0
    BY <1>1, <2>1, <2>2
  <2>5. /\ f \in Misfiled => Astray(WholeFileTask(f))
        /\ f \notin Misfiled => Right(f, WholeFileTask(f))
        /\ WholeFileTask(f).last
    BY <1>0, <2>1, <2>3, <2>4, WholeRight
  <2> QED
    BY <2>1, <2>2, <2>3, <2>5
<1>7. CASE ReadHeader(r)
  <2> DEFINE one == Declared[f] <= 1
             task == Task(f, Context(f), TRUE, TRUE, one, FirstBlock(f))
  <2>1. /\ f = rfile[r] /\ ~AtRest(r) /\ reader[r] = "read" /\ HeaderOnly
        /\ out = <<task>> /\ left'[r] = 0
        /\ reader'[r] = IF one THEN "push" ELSE "acquireFooter"
    BY <1>7 DEF ReadHeader, AtRest, f, out, FirstBlock
  <2>2. Admitted(f) /\ f \in Files /\ f \notin Given.denied /\ f \notin Misfiled
    BY <1>0, <1>1, <2>1, MisfiledFacts DEF OutboxRight, ReaderHand
  <2>3. Right(f, task)
    BY <1>0, <2>1, <2>2, EndsRight DEF Unread
  <2>4. task.first /\ (task.last <=> one)
    BY DEF Task
  <2> HIDE DEF task, one
  <2> QED
    BY <2>1, <2>2, <2>3, <2>4
<1>8. CASE ReadFooter(r)
  <2>1. /\ f = rfile[r] /\ ~AtRest(r) /\ reader[r] = "readFooter"
        /\ out = Append(outbox[r], FooterTask(r))
        /\ reader'[r] = "push" /\ left'[r] = left[r] /\ rpath'[r] = rpath[r]
    BY <1>8 DEF ReadFooter, AtRest, f, out
  <2>2. /\ Admitted(f) /\ f \in Files /\ left[r] = 0 /\ Len(outbox[r]) = 1
        /\ outbox[r] \in Seq(Tasks)
    BY <1>1, <2>1 DEF OutboxRight, ReaderHand
  <2>3. Len(out) = 2 /\ out[1] = outbox[r][1] /\ out[2] = FooterTask(r)
    <3>1. FooterTask(r) \in Tasks
      BY <2>1, ReadTasks
    <3>2. PICK q \in Seq(Tasks) : q = outbox[r]
      BY <2>2
    <3>3. PICK t \in Tasks : t = FooterTask(r)
      BY <3>1
    <3>4. out = Append(q, t) /\ Len(q) = 1
      BY <2>1, <2>2, <3>2, <3>3
    <3> HIDE DEF Typed, ReadersTyped
    <3>5. /\ Len(Append(q, t)) = Len(q) + 1 /\ Append(q, t)[Len(q) + 1] = t
          /\ 1 \in 1..Len(q) => Append(q, t)[1] = q[1]
      OBVIOUS
    <3>6. Len(out) = 2 /\ out[1] = q[1] /\ out[2] = t
      BY <3>4, <3>5
    <3> QED
      BY <3>2, <3>3, <3>6
  <2>4. /\ FooterTask(r).path = f /\ FooterTask(r).first = FALSE
        /\ FooterTask(r) = Task(f, NoContext, TRUE, FALSE, TRUE, LastBlock(f))
    BY <2>1 DEF FooterTask, Task
  <2>5. ASSUME f \in Misfiled, NEW i \in 1..Len(out) PROVE Astray(out[i])
    <3>1. Astray(FooterTask(r))
      BY <2>4, <2>5 DEF Astray
    <3>2. Astray(outbox[r][1])
      BY <1>1, <2>1, <2>2, <2>5 DEF OutboxRight
    <3>3. i = 1 \/ i = 2
      BY <2>3
    <3> QED
      BY <2>3, <3>1, <3>2, <3>3
  <2>6. ASSUME f \notin Misfiled
        PROVE  /\ out[1].first /\ ~out[1].last /\ Right(f, out[1])
               /\ Right(f, out[2]) /\ ~out[2].first
    <3>1. out[1].first /\ ~out[1].last /\ Right(f, out[1])
      BY <1>1, <2>1, <2>2, <2>3, <2>6 DEF OutboxRight
    <3>2. Split(f) /\ ~Unread(f) /\ HeaderOnly
      BY <3>1 DEF Right, Split, Unread
    <3> QED
      BY <1>0, <2>2, <2>3, <2>4, <2>6, <3>1, <3>2, EndsRight
  <2> QED
    BY <2>1, <2>2, <2>3, <2>5, <2>6
<1>9. CASE ReaderPush(r)
  <2>1. /\ reader[r] = "push" /\ ~AtRest(r) /\ out = Tail(outbox[r])
        /\ rpath'[r] = rpath[r] /\ left'[r] = left[r]
        /\ \/ out # <<>> /\ reader'[r] = "push"
           \/ out = <<>> /\ left[r] # 0 /\ reader'[r] = "acquire"
           \/ out = <<>> /\ reader'[r] = "check"
        /\ reader'[r] # "check" => f = rfile[r]
    BY <1>9 DEF ReaderPush, AtRest, f, out
  <2>2. /\ f = rfile[r] /\ Admitted(f) /\ f \in Files
        /\ outbox[r] \in Seq(Tasks) /\ outbox[r] # <<>> /\ left[r] \in Nat
    BY <1>1, <2>1 DEF AtRest, OutboxRight, ReaderHand
  <2>3. /\ Len(out) = Len(outbox[r]) - 1 /\ Len(out) \in Nat
        /\ \A i \in 1..Len(out) : out[i] = outbox[r][i + 1]
                                  /\ i + 1 \in 1..Len(outbox[r])
    BY <2>1, <2>2
  <2>4. CASE f \in Misfiled
    <3>1. \A i \in 1..Len(out) : Astray(out[i])
      BY <1>1, <2>1, <2>2, <2>3, <2>4 DEF OutboxRight
    <3> QED
      BY <1>1, <2>1, <2>2, <2>4, <3>1 DEF OutboxRight, AtRest
  <2>5. CASE f \notin Misfiled
    <3>1. /\ left[r] = 0 /\ out # <<>>
          /\ Len(outbox[r]) = 2 /\ ~outbox[r][2].first /\ Right(f, outbox[r][2])
      <4>1. out # <<>> /\ left[r] = 0
        BY <1>1, <2>1, <2>2, <2>5 DEF OutboxRight, AtRest
      <4>2. Len(outbox[r]) # 1
        BY <2>1, <2>2, <4>1
      <4>3. Len(outbox[r]) = 2 /\ ~outbox[r][2].first
        BY <1>1, <2>1, <2>2, <2>5, <4>2 DEF OutboxRight
      <4> QED
        BY <1>1, <2>1, <2>2, <2>5, <4>1, <4>3 DEF OutboxRight
    <3>2. Len(out) = 1 /\ out[1] = outbox[r][2] /\ out[1].last
      BY <2>3, <3>1 DEF Right
    <3> QED
      BY <2>1, <2>2, <2>5, <3>1, <3>2
  <2> QED
    BY <2>4, <2>5
<1> QED
  BY <1>2, <1>3, <1>4, <1>5, <1>6, <1>7, <1>8, <1>9 DEF Reader


LEMMA OutboxesStep ==
  ASSUME Typed, Control, Admission, OutboxesRight, [Next]_vars
  PROVE  OutboxesRight'
<1>1. setup' = setup /\ Readers' = Readers
  BY SetupKept, GivenKept
<1>2. ASSUME NEW r \in Readers, OutboxesRight, ~AtRest(r)',
             reader'[r] = reader[r], rfile'[r] = rfile[r], rpath'[r] = rpath[r],
             left'[r] = left[r], outbox'[r] = outbox[r]
      PROVE  OutboxRight(r)'
  <2>1. ~AtRest(r)
    BY <1>2 DEF AtRest
  <2>2. OutboxRight(r)
    BY <1>2, <2>1 DEF OutboxesRight
  <2>3. /\ \A g : Admitted(g)' <=> Admitted(g)
        /\ \A g, t : Right(g, t)' <=> Right(g, t)
        /\ \A t : Astray(t)' <=> Astray(t)
        /\ Misfiled' = Misfiled /\ Declared' = Declared
    BY <1>1, ContractKept, GivenKept
  <2> QED
    BY <1>2, <2>2, <2>3 DEF OutboxRight
<1>3. CASE UNCHANGED readerVars
  BY <1>1, <1>2, <1>3 DEF OutboxesRight, readerVars
<1>4. ASSUME NEW r \in Readers, Reader(r) PROVE OutboxesRight'
  BY <1>1, <1>2, <1>4, OtherReaders, OutboxStep DEF OutboxesRight
<1>5. CASE Producer
  BY <1>3, <1>5 DEF Producer, Walk, ProducerPush, WalkEnds, ProducerCloses, ProducerEnds
<1>6. ASSUME NEW w \in AllWorkers, Worker(w) PROVE OutboxesRight'
  BY <1>3, <1>6 DEF Worker, WorkerCheck, WorkerPop, WorkerEnds, WorkerProcess
<1>7. CASE Main
  BY <1>3, <1>7 DEF Main, JoinProducer, JoinReaders, MainClosed, JoinWorkers,
     JoinProgress, MainGoes, MainCloses
<1>8. CASE ProgressEnds \/ Sigint \/ UNCHANGED vars
  BY <1>3, <1>8 DEF ProgressEnds, Sigint, vars
<1> QED
  BY <1>4, <1>5, <1>6, <1>7, <1>8 DEF Next, Threads, Done, Reader

(* Only what the callback lets through gets to the readers.                *)
LEMMA AdmissionStep ==
  ASSUME Typed, Control, AtOnePlace, Admission, [Next]_vars
  PROVE  Admission'
<1>1. setup' = setup
  BY SetupKept
<1>2. \A f : Admitted(f)' <=> Admitted(f)
  BY <1>1, ContractKept
<1>3. ASSUME pushing' \in {pushing, NoPath}, QueuedFiles' \subseteq QueuedFiles \cup {pushing}
      PROVE  Admission'
  BY <1>2, <1>3 DEF Admission
<1>4. CASE UNCHANGED <<pushing, readerQ>>
  BY <1>3, <1>4 DEF QueuedFiles
<1>5. ASSUME NEW f \in Files, Walk(f) PROVE Admission'
  <2>1. /\ UNCHANGED readerQ
        /\ pushing' = pushing \/ (pushing' = f /\ Admitted(f))
    BY <1>5 DEF Walk, readerQVars, Admitted
  <2> QED
    BY <1>2, <2>1 DEF Admission, QueuedFiles
<1>6. CASE ProducerPush
  <2>1. /\ pushing' = NoPath /\ pushing \in Files /\ readerQ \in Seq(Files)
        /\ readerQ' = readerQ \/ readerQ' = Append(readerQ, pushing)
    BY <1>6 DEF ProducerPush, Pushed, Control, ProducerHand, Typed, ProducerTyped
  <2>2. QueuedFiles' \subseteq QueuedFiles \cup {pushing}
    BY <2>1 DEF QueuedFiles
  <2> QED
    BY <1>3, <2>1, <2>2
<1>7. CASE WalkEnds \/ ProducerEnds \/ \E w \in Workers : ProducerCloses(w)
  BY <1>4, <1>7 DEF WalkEnds, ProducerEnds, ProducerCloses, readerQVars, producerVars
<1>8. ASSUME NEW r \in AllReaders, Reader(r) PROVE Admission'
  <2>1. CASE ReaderPop(r)
    <3>1. pushing' = pushing /\ readerQ # <<>> /\ readerQ' = Tail(readerQ)
      BY <2>1 DEF ReaderPop, producerVars
    <3>2. QueuedFiles' \subseteq QueuedFiles
      BY <3>1, PopLeaves
    <3> QED
      BY <1>3, <3>1, <3>2
  <2>2. CASE ~ReaderPop(r)
    BY <1>4, <1>8, <2>2, FileInHand DEF Reader, producerVars, readerQVars
  <2> QED
    BY <2>1, <2>2
<1>9. ASSUME NEW w \in AllWorkers, Worker(w) PROVE Admission'
  BY <1>4, <1>9 DEF Worker, WorkerCheck, WorkerPop, WorkerEnds, WorkerProcess,
     readerQVars, producerVars
<1>10. CASE Main \/ ProgressEnds \/ Sigint \/ UNCHANGED vars
  BY <1>4, <1>10 DEF Main, JoinProducer, JoinReaders, MainClosed, JoinWorkers,
     JoinProgress, MainGoes, MainCloses, ProgressEnds, Sigint, vars, readerQVars,
     producerVars
<1> QED
  BY <1>5, <1>6, <1>7, <1>8, <1>9, <1>10 DEF Next, Threads, Done, Producer

-----------------------------------------------------------------------------
(* What a step does to the lines of the workers.                           *)
LEMMA LineTyped == ASSUME Typed, NEW w \in Workers PROVE Line(w) \in Seq(Tasks)
<1>1. workerQ[w] \in Seq(Tasks) /\ wtask[w] \in Tasks
  BY DEF Typed, WorkersTyped
<1> QED
  BY <1>1 DEF Line

LEMMA LineKept ==
  ASSUME NEW w, worker'[w] = worker[w], wtask'[w] = wtask[w], workerQ'[w] = workerQ[w]
  PROVE  Line(w)' = Line(w)
BY DEF Line

LEMMA LinePush ==
  ASSUME Typed, NEW w \in Workers, ~workerClosed[w], NEW t \in Tasks,
         workerQ' = [workerQ EXCEPT ![w] = Pushed(@, workerClosed[w], t)],
         UNCHANGED <<worker, wtask>>
  PROVE  /\ Line(w)' = Append(Line(w), t)
         /\ \A v \in Workers : v # w => Line(v)' = Line(v)
<1>1. /\ workerQ \in [Workers -> Seq(Tasks)] /\ wtask[w] \in Tasks
  BY DEF Typed, WorkersTyped
<1>2. workerQ' = [workerQ EXCEPT ![w] = Append(workerQ[w], t)]
  BY DEF Pushed
<1>3. \A v \in Workers : v # w => workerQ'[v] = workerQ[v]
  BY <1>1, <1>2
<1>4. workerQ'[w] = Append(workerQ[w], t)
  BY <1>1, <1>2
<1>5. \A q \in Seq(Tasks), h \in Tasks : <<h>> \o Append(q, t) = Append(<<h>> \o q, t)
  <2> SUFFICES ASSUME NEW q \in Seq(Tasks), NEW h \in Tasks
               PROVE  <<h>> \o Append(q, t) = Append(<<h>> \o q, t)
    OBVIOUS
  <2> DEFINE a == <<h>> \o Append(q, t)
             b == Append(<<h>> \o q, t)
  <2>1. a \in Seq(Tasks) /\ b \in Seq(Tasks)
    OBVIOUS
  <2>2. Len(a) = Len(q) + 2 /\ Len(b) = Len(q) + 2 /\ Len(q) \in Nat
    OBVIOUS
  <2>3. \A i \in 1..Len(q) + 2 : a[i] = b[i]
    OBVIOUS
  <2> HIDE DEF a, b
  <2>4. a = b
    BY <2>1, <2>2, <2>3
  <2> QED
    BY <2>4 DEF a, b
<1>6. Line(w)' = Append(Line(w), t)
  BY <1>1, <1>4, <1>5 DEF Line
<1> QED
  BY <1>3, <1>6, LineKept

LEMMA LineWorker ==
  ASSUME Typed, Control, NEW w \in Workers, Worker(w)
  PROVE  /\ \A v \in Workers : v # w => Line(v)' = Line(v)
         /\ ~WorkerProcess(w) => Line(w)' = Line(w)
         /\ WorkerProcess(w) => /\ Line(w) # <<>> /\ Head(Line(w)) = wtask[w]
                                /\ Line(w)' = Tail(Line(w))
<1> USE DEF Typed, WorkersTyped
<1>1. ASSUME NEW v \in Workers, v # w PROVE Line(v)' = Line(v)
  <2>1. worker'[v] = worker[v] /\ wtask'[v] = wtask[v] /\ workerQ'[v] = workerQ[v]
    BY <1>1 DEF Worker, WorkerCheck, WorkerPop, WorkerEnds, WorkerProcess, workerQVars
  <2> QED
    BY <2>1, LineKept
<1>2. CASE WorkerCheck(w) \/ WorkerEnds(w)
  <2>1. /\ UNCHANGED <<workerQ, wtask>>
        /\ worker[w] # "work" /\ worker'[w] # "work"
    BY <1>2 DEF WorkerCheck, WorkerEnds, workerQVars
  <2> QED
    BY <1>1, <1>2, <2>1 DEF Line, WorkerCheck, WorkerEnds, WorkerProcess
<1>3. CASE WorkerPop(w)
  <2>1. /\ worker[w] = "pop" /\ worker'[w] = "work" /\ workerQ[w] # <<>>
        /\ workerQ'[w] = Tail(workerQ[w]) /\ wtask'[w] = Head(workerQ[w])
        /\ workerQ[w] \in Seq(Tasks)
    BY <1>3 DEF WorkerPop
  <2>2. \A q \in Seq(Tasks) : q # <<>> => <<Head(q)>> \o Tail(q) = q
    OBVIOUS
  <2>3. Line(w)' = Line(w)
    BY <2>1, <2>2 DEF Line
  <2> QED
    BY <1>1, <2>1, <2>3 DEF WorkerProcess
<1>4. CASE WorkerProcess(w)
  <2>1. /\ worker[w] = "work" /\ worker'[w] = "check"
        /\ workerQ'[w] = workerQ[w] /\ workerQ[w] \in Seq(Tasks) /\ wtask[w] \in Tasks
    BY <1>4 DEF WorkerProcess, workerQVars
  <2>2. \A q \in Seq(Tasks), h \in Tasks :
          /\ <<h>> \o q # <<>> /\ Head(<<h>> \o q) = h /\ Tail(<<h>> \o q) = q
    OBVIOUS
  <2>3. Line(w) = <<wtask[w]>> \o workerQ[w] /\ Line(w)' = workerQ[w]
    BY <2>1 DEF Line
  <2> QED
    BY <1>1, <1>4, <2>1, <2>2, <2>3
<1> QED
  BY <1>1, <1>2, <1>3, <1>4 DEF Worker

-----------------------------------------------------------------------------
(* The kinds of steps.  One that only moves a file towards the workers, or *)
(* drops it, or has nothing to do with files.                              *)
Quiet ==
  /\ \A w \in Workers : Line(w)' = Line(w)
  /\ UNCHANGED <<active, reported>>
  /\ quit => quit'
  /\ \A f \in Files \ Misfiled : /\ Waiting(f)' => Waiting(f)
                                 /\ Unsent(f)' => Unsent(f)
                                 /\ Waiting(f)' /\ ~Unsent(f)' => ~Unsent(f)
  /\ ~quit' => \A f \in DOMAIN Expected : Waiting(f) => Waiting(f)'

(* One that hands w, the worker of f, a task.                              *)
Pushes(f, w, t) ==
  /\ f \in Files /\ w = Given.hashOf[f] /\ t \in Tasks
  /\ Line(w)' = Append(Line(w), t)
  /\ \A v \in Workers : v # w => Line(v)' = Line(v)
  /\ UNCHANGED <<active, reported, quit>>
  /\ Proper(w, t)
  /\ t.path = f \/ (f \in Misfiled /\ t.path \in Misfiled)
  /\ f \notin Misfiled => /\ Right(f, t)
                          /\ Waiting(f) /\ (Unsent(f) <=> t.first)
                          /\ ~Unsent(f)' /\ (Waiting(f)' <=> ~t.last)
  /\ \A g \in Files \ Misfiled : g # f => /\ Waiting(g)' <=> Waiting(g)
                                          /\ Unsent(g)' <=> Unsent(g)

Moved == Typed /\ Control /\ AtOnePlace /\ CloseAfterLastPush
         /\ Admission /\ OutboxesRight

(* The producer goes through the files.                                    *)
LEMMA WaitingBefore ==
  ASSUME Moved, setup' = setup, UNCHANGED readerVars, NEW g \in Files,
         g \in BeforeReaders' => g \in BeforeReaders
  PROVE  /\ Waiting(g)' => Waiting(g)
         /\ Unsent(g)' => Unsent(g)
         /\ Waiting(g)' /\ ~Unsent(g)' => ~Unsent(g)
         /\ (g \in BeforeReaders => g \in BeforeReaders') =>
              (Waiting(g) => Waiting(g)')
<1>1. \A r \in Readers : /\ AtRest(r)' <=> AtRest(r)
                         /\ rfile'[r] = rfile[r]
                         /\ SendingEnd(r)' <=> SendingEnd(r)
  BY DEF readerVars, AtRest, SendingEnd
<1>2. Readers' = Readers
  BY GivenKept
<1>3. \A r \in Readers : ~AtRest(r) => rfile[r] \notin BeforeReaders
  BY DEF Moved, AtOnePlace, BeforeReaders
<1> QED
  BY <1>1, <1>2, <1>3 DEF Waiting, Unsent

LEMMA QuietProducer ==
  ASSUME Moved, setup' = setup, Producer, ~(ProducerPush /\ IsSsd)
  PROVE  Quiet
<1> USE DEF Moved
<1>1. UNCHANGED <<quit, readerVars, worker, wtask, active, reported>>
  BY DEF Producer, Walk, ProducerPush, WalkEnds, ProducerCloses, ProducerEnds, workerVars
<1>2. UNCHANGED workerQ
  BY DEF Producer, Walk, ProducerPush, WalkEnds, ProducerCloses, ProducerEnds,
     workerQVars, CloseWorkerQueue
<1>3. \A w : Line(w)' = Line(w)
  BY <1>1, <1>2, LineKept
<1>4. DOMAIN Expected \subseteq Files \ Misfiled
      /\ \A f \in DOMAIN Expected : Admitted(f)
  BY ExpectedFacts DEF Typed
<1>5. NoPath \notin Files
  BY ScanFacts DEF Typed
<1> SUFFICES /\ \A g \in Files : g \in BeforeReaders' => g \in BeforeReaders
             /\ ~quit => \A g \in DOMAIN Expected :
                           g \in BeforeReaders => g \in BeforeReaders'
  BY <1>1, <1>3, <1>4, WaitingBefore DEF Quiet
<1>6. ASSUME NEW f \in Files, Walk(f)
      PROVE  /\ \A g \in Files : g \in BeforeReaders' => g \in BeforeReaders
             /\ ~quit => \A g \in DOMAIN Expected :
                           g \in BeforeReaders => g \in BeforeReaders'
  <2>1. /\ QueuedFiles' = QueuedFiles /\ pushing = NoPath
        /\ f \in todo /\ todo' \subseteq todo /\ pushing' \in {pushing, f}
        /\ ~quit => todo' = todo \ {f} /\ (Admitted(f) => pushing' = f)
    BY <1>6 DEF Walk, readerQVars, QueuedFiles, Control, ProducerHand, Admitted
  <2> QED
    BY <1>4, <1>5, <2>1 DEF BeforeReaders
<1>7. CASE ProducerPush
  <2>1. /\ ~IsSsd /\ todo' = todo /\ pushing' = NoPath /\ pushing \in Files
        /\ ~readerClosed /\ readerQ \in Seq(Files)
    BY <1>7 DEF ProducerPush, Control, ProducerHand, Typed, ProducerTyped
  <2>2. readerQ' = Append(readerQ, pushing)
    BY <1>7, <2>1 DEF ProducerPush, Pushed
  <2>3. QueuedFiles' = QueuedFiles \cup {pushing}
    <3>1. /\ Len(readerQ') = Len(readerQ) + 1 /\ Len(readerQ) \in Nat
          /\ \A i \in 1..Len(readerQ) : readerQ'[i] = readerQ[i]
          /\ readerQ'[Len(readerQ) + 1] = pushing
      BY <2>1, <2>2
    <3> QED
      BY <3>1 DEF QueuedFiles
  <2> QED
    BY <1>4, <1>5, <2>1, <2>3 DEF BeforeReaders
<1>8. CASE WalkEnds \/ ProducerEnds \/ \E w \in Workers : ProducerCloses(w)
  <2>1. UNCHANGED <<readerQ, todo, pushing>>
    BY <1>8 DEF WalkEnds, ProducerEnds, ProducerCloses, readerQVars, producerVars
  <2> QED
    BY <2>1 DEF BeforeReaders, QueuedFiles
<1> QED
  BY <1>6, <1>7, <1>8 DEF Producer

(* A reader goes on with the file in its hand.                             *)
LEMMA HandGoesOn ==
  ASSUME Moved, setup' = setup, NEW r \in Readers, Reader(r), ~ReaderPop(r),
         ~ReaderPush(r), NEW g \in Files \ Misfiled
  PROVE  /\ (~AtRest(r)' /\ rfile'[r] = g) <=> (~AtRest(r) /\ rfile[r] = g)
         /\ ~AtRest(r) /\ rfile[r] = g => ~SendingEnd(r) /\ ~SendingEnd(r)'
<1> USE DEF Moved, Typed, ReadersTyped
<1>1. ~AtRest(r)' => ~AtRest(r) /\ rfile'[r] = rfile[r]
  BY FileInHand
<1>2. CASE ReaderCheck(r) \/ ReaderEnds(r)
  BY <1>2 DEF ReaderCheck, ReaderEnds, AtRest
<1>3. ASSUME ~AtRest(r), rfile[r] = g
      PROVE  ~AtRest(r)' /\ rfile'[r] = g /\ ~SendingEnd(r) /\ ~SendingEnd(r)'
  <2>0. OutboxRight(r) /\ g \in Files
    BY <1>3 DEF OutboxesRight
  <2>1. reader[r] # "push" /\ ~SendingEnd(r)
    BY <1>3 DEF Reader, ReaderCheck, ReaderEnds, Acquire, ReadChunk, ReadNothing,
       ReadHeader, ReadFooter, AtRest, SendingEnd
  <2>2. CASE ReaderCheck(r) \/ ReaderEnds(r)
    BY <1>3, <2>2 DEF ReaderCheck, ReaderEnds, AtRest
  <2>3. CASE Acquire(r)
    BY <1>3, <2>1, <2>3 DEF Acquire, AtRest, SendingEnd
  <2>4. CASE ReadChunk(r)
    <3> DEFINE first == left[r] = Declared[g]
    <3>1. /\ reader'[r] = "push" /\ rfile'[r] = g /\ reader[r] = "read"
          /\ \E p, fc, last, d : outbox'[r][1] = Task(p, fc, TRUE, first, last, d)
      BY <1>3, <2>4 DEF ReadChunk
    <3>2. first = TRUE
      BY <1>3, <2>0, <3>1 DEF OutboxRight
    <3> HIDE DEF first
    <3>3. outbox'[r][1].first
      BY <3>1, <3>2 DEF Task
    <3> QED
      BY <2>1, <3>1, <3>3 DEF AtRest, SendingEnd
  <2>5. CASE ReadNothing(r)
    <3>1. left[r] = Declared[g]
      BY <1>3, <2>0, <2>5 DEF OutboxRight, ReadNothing
    <3>2. TasksOfFailure(r) = <<WholeFileTask(g)>>
      BY <1>3, <3>1 DEF TasksOfFailure
    <3>3. /\ reader'[r] = "push" /\ rfile'[r] = g /\ outbox'[r][1] = WholeFileTask(g)
      BY <1>3, <2>5, <3>2 DEF ReadNothing
    <3>4. outbox'[r][1].first
      BY <3>3 DEF WholeFileTask, Task
    <3> QED
      BY <2>1, <3>3, <3>4 DEF AtRest, SendingEnd
  <2>6. CASE ReadHeader(r)
    <3>1. /\ reader'[r] \in {"push", "acquireFooter"} /\ rfile'[r] = g
          /\ \E p, fc, last, d : outbox'[r][1] = Task(p, fc, TRUE, TRUE, last, d)
      BY <1>3, <2>6 DEF ReadHeader
    <3>2. outbox'[r][1].first
      BY <3>1 DEF Task
    <3> QED
      BY <2>1, <3>1, <3>2 DEF AtRest, SendingEnd
  <2>7. CASE ReadFooter(r)
    <3>1. /\ reader[r] = "readFooter" /\ reader'[r] = "push" /\ rfile'[r] = g
          /\ outbox'[r] = Append(outbox[r], FooterTask(r))
      BY <1>3, <2>7 DEF ReadFooter
    <3>2. outbox[r][1].first /\ Len(outbox[r]) = 1 /\ outbox[r] \in Seq(Tasks)
      BY <1>3, <2>0, <3>1 DEF OutboxRight, Control, ReaderHand
    <3>3. FooterTask(r) \in Tasks
      BY <1>3, ReadTasks
    <3>4. outbox'[r][1] = outbox[r][1]
      <4> HIDE DEF Moved, Typed, ReadersTyped
      <4>1. \A q \in Seq(Tasks), t \in Tasks : 1 \in 1..Len(q) => Append(q, t)[1] = q[1]
        OBVIOUS
      <4> QED
        BY <3>1, <3>2, <3>3, <4>1
    <3> QED
      BY <3>1, <3>2, <3>4 DEF AtRest, SendingEnd
  <2> QED
    BY <2>1, <2>2, <2>3, <2>4, <2>5, <2>6, <2>7 DEF Reader
<1> QED
  BY <1>1, <1>3

(* A reader takes a file, reads it, or finds nothing to do.                *)
LEMMA QuietReader ==
  ASSUME Moved, setup' = setup, NEW r \in Readers, Reader(r), ~ReaderPush(r)
  PROVE  Quiet
<1> USE DEF Moved
<1>1. UNCHANGED <<quit, worker, wtask, workerQ, active, reported, todo, pushing>>
  BY DEF Reader, ReaderCheck, ReaderPop, ReaderEnds, Acquire, ReadChunk, ReadNothing,
     ReadHeader, ReadFooter, workerVars, workerQVars, producerVars
<1>2. \A w : Line(w)' = Line(w)
  BY <1>1, LineKept
<1>3. DOMAIN Expected \subseteq Files \ Misfiled
  BY ExpectedFacts DEF Typed
<1> SUFFICES ASSUME NEW g \in Files \ Misfiled
             PROVE  (Waiting(g)' <=> Waiting(g)) /\ (Unsent(g)' <=> Unsent(g))
  BY <1>1, <1>2, <1>3 DEF Quiet
<1>4. /\ Readers' = Readers
      /\ \A s \in Readers : s # r => /\ AtRest(s)' <=> AtRest(s)
                                     /\ rfile'[s] = rfile[s]
                                     /\ SendingEnd(s)' <=> SendingEnd(s)
  BY GivenKept, OtherReaders DEF AtRest, SendingEnd
<1>5. CASE ~ReaderPop(r)
  <2>1. BeforeReaders' = BeforeReaders
    BY <1>5, FileInHand DEF BeforeReaders, QueuedFiles, producerVars, readerQVars
  <2>2. /\ (~AtRest(r)' /\ rfile'[r] = g) <=> (~AtRest(r) /\ rfile[r] = g)
        /\ ~AtRest(r) /\ rfile[r] = g => ~SendingEnd(r) /\ ~SendingEnd(r)'
    BY <1>5, HandGoesOn
  <2> QED
    BY <1>4, <2>1, <2>2 DEF Waiting, Unsent
<1>6. CASE ReaderPop(r)
  <2>1. /\ reader[r] = "pop" /\ readerQ # <<>> /\ readerQ' = Tail(readerQ)
        /\ rfile'[r] = Head(readerQ)
        /\ \/ reader'[r] = "acquire"
           \/ reader'[r] = "push" /\ outbox'[r] = <<WholeFileTask(Head(readerQ))>>
    BY <1>6 DEF ReaderPop, Typed, ReadersTyped
  <2>2. PICK f : f = Head(readerQ)
    OBVIOUS
  <2>3. AtRest(r) /\ ~AtRest(r)' /\ rfile'[r] = f /\ ~SendingEnd(r)'
    <3>1. \A h : <<WholeFileTask(h)>>[1].first
      BY DEF WholeFileTask, Task
    <3> QED
      BY <2>1, <2>2, <3>1 DEF AtRest, SendingEnd
  <2>4. f \in QueuedFiles /\ QueuedFiles' = QueuedFiles \ {f}
    BY <2>1, <2>2, PopLeaves
  <2>5. CASE g = f
    BY <1>4, <2>3, <2>4, <2>5 DEF Waiting, Unsent, BeforeReaders
  <2>6. CASE g # f
    <3>1. g \in BeforeReaders' <=> g \in BeforeReaders
      BY <1>1, <2>4, <2>6 DEF BeforeReaders
    <3> QED
      BY <1>4, <2>3, <2>6, <3>1 DEF Waiting, Unsent
  <2> QED
    BY <2>5, <2>6
<1> QED
  BY <1>5, <1>6

(* The other threads have nothing to do with the way of a file, but for a  *)
(* worker that serves its line.                                            *)
LEMMA QuietRest ==
  ASSUME Moved, setup' = setup,
         \/ \E w \in Workers : Worker(w) /\ ~WorkerProcess(w)
         \/ Main \/ ProgressEnds \/ Sigint \/ UNCHANGED vars
  PROVE  Quiet
<1> USE DEF Moved
<1>1. UNCHANGED <<todo, pushing, readerQ, readerVars, active, reported>> /\ (quit => quit')
  <2>1. ASSUME NEW w \in Workers, Worker(w), ~WorkerProcess(w)
        PROVE  UNCHANGED <<todo, pushing, readerQ, readerVars, active, reported, quit>>
    BY <2>1 DEF Worker, WorkerCheck, WorkerPop, WorkerEnds, producerVars, readerQVars
  <2>2. CASE Main
    BY <2>2 DEF Main, JoinProducer, JoinReaders, MainClosed, JoinWorkers, JoinProgress,
       MainGoes, MainCloses, producerVars, readerQVars, workerVars
  <2>3. CASE ProgressEnds \/ Sigint \/ UNCHANGED vars
    BY <2>3 DEF ProgressEnds, Sigint, vars, producerVars, readerQVars, workerVars
  <2> QED
    BY <2>1, <2>2, <2>3
<1>2. ASSUME NEW v \in Workers PROVE Line(v)' = Line(v)
  <2>1. ASSUME NEW w \in Workers, Worker(w), ~WorkerProcess(w) PROVE Line(v)' = Line(v)
    BY <2>1, LineWorker
  <2>2. CASE Main \/ ProgressEnds \/ Sigint \/ UNCHANGED vars
    <3>1. UNCHANGED <<worker, wtask, workerQ>>
      BY <2>2 DEF Main, JoinProducer, JoinReaders, MainClosed, JoinWorkers, JoinProgress,
         MainGoes, MainCloses, CloseWorkerQueue, ProgressEnds, Sigint, vars,
         workerQVars, workerVars
    <3> QED
      BY <3>1, LineKept
  <2> QED
    BY <2>1, <2>2
<1>3. DOMAIN Expected \subseteq Files
  BY ExpectedFacts DEF Typed
<1>4. BeforeReaders' = BeforeReaders
  BY <1>1 DEF BeforeReaders, QueuedFiles
<1> QED
  BY <1>1, <1>2, <1>3, <1>4, WaitingBefore DEF Quiet

(* The producer of an SSD scan hands the worker the task of a whole file.  *)
LEMMA PushSsd ==
  ASSUME Moved, setup' = setup, ProducerPush, IsSsd,
         NEW f, f = pushing, NEW w, w = Given.hashOf[f], NEW t, t = WholeFileTask(f)
  PROVE  Pushes(f, w, t)
<1> USE DEF Moved
<1>1. /\ producer = "push" /\ f \in Files /\ pushing' = NoPath
      /\ workerQ' = [workerQ EXCEPT ![w] = Pushed(@, workerClosed[w], t)]
      /\ UNCHANGED <<quit, todo, readerQ, worker, wtask, active, reported>>
  BY DEF ProducerPush, Control, ProducerHand, Typed, workerVars
<1>2. /\ w \in Workers /\ ~workerClosed[w] /\ t \in Tasks
      /\ setup \in DOMAIN Setups /\ NoPath \notin Files
  <2>1. w \in Workers
    BY <1>1, ScanFacts DEF Typed
  <2> QED
    BY <1>1, <2>1, TaskTypes, ScanFacts DEF CloseAfterLastPush, Typed
<1>3. f \notin Misfiled /\ Unread(f) /\ Readers = {} /\ Readers' = {}
  BY <1>2, MisfiledFacts, GivenKept DEF Unread, IsSsd
<1>4. Right(f, t) /\ t.path = f /\ t.first /\ t.last
  BY <1>1, <1>2, <1>3, WholeRight
<1>5. /\ Line(w)' = Append(Line(w), t)
      /\ \A v \in Workers : v # w => Line(v)' = Line(v)
  BY <1>1, <1>2, LinePush
<1>6. Proper(w, t)
  BY <1>1, <1>2, <1>3, <1>4 DEF Proper, Admission
<1>7. /\ Waiting(f) /\ Unsent(f)
      /\ ~Waiting(f)' /\ ~Unsent(f)'
      /\ \A g \in Files : g # f => /\ Waiting(g)' <=> Waiting(g)
                                   /\ Unsent(g)' <=> Unsent(g)
  <2>1. f \notin todo /\ f \notin QueuedFiles
    BY DEF AtOnePlace
  <2>2. BeforeReaders' = todo \cup {NoPath} \cup QueuedFiles
    BY <1>1 DEF BeforeReaders, QueuedFiles
  <2>3. \A g : /\ Waiting(g) <=> g \in BeforeReaders
               /\ Unsent(g) <=> g \in BeforeReaders
               /\ Waiting(g)' <=> g \in BeforeReaders'
               /\ Unsent(g)' <=> g \in BeforeReaders'
    BY <1>3 DEF Waiting, Unsent
  <2> QED
    BY <1>1, <1>2, <2>1, <2>2, <2>3 DEF BeforeReaders
<1> QED
  BY <1>1, <1>2, <1>3, <1>4, <1>5, <1>6, <1>7 DEF Pushes

LEMMA TailOfFew ==
  ASSUME NEW S, NEW q \in Seq(S), q # <<>>
  PROVE  /\ Len(Tail(q)) = Len(q) - 1
         /\ Len(q) = 1 => Tail(q) = <<>>
         /\ Len(q) = 2 => Tail(q) # <<>> /\ Tail(q)[1] = q[2]
<1> DEFINE p == Tail(q)
<1>1. /\ Len(q) \in Nat \ {0} /\ Len(p) = Len(q) - 1 /\ p \in Seq(S)
      /\ \A i \in 1..Len(p) : p[i] = q[i + 1]
  OBVIOUS
<1> HIDE DEF p
<1>2. Len(p) = 0 => p = <<>>
  BY <1>1
<1>3. Len(p) = 1 => p # <<>> /\ p[1] = q[2]
  BY <1>1
<1> QED
  BY <1>1, <1>2, <1>3 DEF p

(* A reader hands the worker the first task in its outbox.                 *)
LEMMA PushHdd ==
  ASSUME Moved, setup' = setup, NEW r \in Readers, ReaderPush(r),
         NEW f, f = rfile[r], NEW w, w = Given.hashOf[f], NEW t, t = Head(outbox[r])
  PROVE  Pushes(f, w, t)
<1> DEFINE rest == Tail(outbox[r])
<1> USE DEF Moved
<1>0. setup \in DOMAIN Setups
  BY DEF Typed
<1>1. reader[r] = "push" /\ ~AtRest(r)
  BY DEF ReaderPush, AtRest
<1>2. f \in Files /\ outbox[r] # <<>> /\ outbox[r] \in Seq(Tasks) /\ left[r] \in Nat
  BY <1>1 DEF Control, ReaderHand, Typed, ReadersTyped
<1>3. t = outbox[r][1] /\ t \in Tasks /\ 1 \in 1..Len(outbox[r])
  <2>1. \A q \in Seq(Tasks) : q # <<>> =>
          Head(q) = q[1] /\ Head(q) \in Tasks /\ 1 \in 1..Len(q)
    OBVIOUS
  <2> QED
    BY <1>2, <2>1
<1>4. /\ workerQ' = [workerQ EXCEPT ![w] = Pushed(@, workerClosed[w], t)]
      /\ outbox'[r] = rest
      /\ rfile'[r] \in {f, NoPath} /\ (rest # <<>> => rfile'[r] = f)
      /\ rest # <<>> => reader'[r] = "push"
      /\ rest = <<>> /\ left[r] = 0 => reader'[r] = "check"
      /\ UNCHANGED <<quit, todo, pushing, readerQ, worker, wtask, active, reported>>
  BY DEF ReaderPush, workerVars, producerVars, readerQVars, Typed, ReadersTyped
<1>5. w \in Workers /\ ~workerClosed[w]
  <2>1. w \in Workers
    BY <1>0, <1>2, ScanFacts
  <2> QED
    BY <1>1, <2>1 DEF CloseAfterLastPush
<1>6. OutboxRight(r)
  BY <1>1 DEF OutboxesRight
<1>7. /\ Line(w)' = Append(Line(w), t)
      /\ \A v \in Workers : v # w => Line(v)' = Line(v)
  BY <1>3, <1>4, <1>5, LinePush
<1>8. /\ Admitted(f) /\ (f \in Misfiled => Astray(t))
      /\ f \notin Misfiled =>
           /\ Right(f, t) /\ left[r] = 0
           /\ \/ Len(outbox[r]) = 1 /\ t.last
              \/ Len(outbox[r]) = 2 /\ t.first /\ ~t.last /\ ~outbox[r][2].first
  BY <1>1, <1>3, <1>6 DEF OutboxRight
<1>9. Proper(w, t)
  BY <1>2, <1>8 DEF Proper, Right
<1>10. f \in Misfiled => t.path \in Misfiled
  BY <1>8 DEF Astray
<1>11. /\ BeforeReaders' = BeforeReaders /\ f \notin BeforeReaders
       /\ \A s \in Readers : rfile[s] = f => s = r
       /\ Readers' = Readers
  BY <1>1, <1>4, GivenKept DEF BeforeReaders, QueuedFiles, AtOnePlace
<1>12. \A s \in Readers : s # r => /\ AtRest(s)' <=> AtRest(s)
                                   /\ rfile'[s] = rfile[s]
                                   /\ SendingEnd(s)' <=> SendingEnd(s)
  BY OtherReaders DEF AtRest, SendingEnd, Reader
<1>13. ASSUME NEW g \in Files, g # f
       PROVE  (Waiting(g)' <=> Waiting(g)) /\ (Unsent(g)' <=> Unsent(g))
  <2>1. rfile'[r] # g /\ rfile[r] # g
    BY <1>0, <1>4, <1>13, ScanFacts
  <2> QED
    BY <1>11, <1>12, <2>1 DEF Waiting, Unsent
<1>14. Waiting(f) /\ (Unsent(f) <=> t.first)
  BY <1>1, <1>3, <1>11 DEF Waiting, Unsent, SendingEnd
<1>15. ASSUME f \notin Misfiled
       PROVE  ~Unsent(f)' /\ (Waiting(f)' <=> ~t.last)
  <2>1. /\ Len(rest) = Len(outbox[r]) - 1
        /\ Len(outbox[r]) = 1 => rest = <<>>
        /\ Len(outbox[r]) = 2 => rest # <<>> /\ rest[1] = outbox[r][2]
    BY <1>2, TailOfFew
  <2> HIDE DEF rest
  <2>2. CASE Len(outbox[r]) = 1 /\ t.last
    <3>1. AtRest(r)'
      BY <1>4, <1>8, <1>15, <2>1, <2>2 DEF AtRest
    <3> QED
      BY <1>11, <1>12, <2>2, <3>1 DEF Waiting, Unsent
  <2>3. CASE Len(outbox[r]) = 2 /\ ~t.last /\ ~outbox[r][2].first
    <3>1. ~AtRest(r)' /\ rfile'[r] = f /\ SendingEnd(r)'
      BY <1>4, <2>1, <2>3 DEF AtRest, SendingEnd
    <3> QED
      BY <1>11, <1>12, <2>3, <3>1 DEF Waiting, Unsent
  <2> QED
    BY <1>8, <1>15, <2>2, <2>3
<1>16. f \notin Misfiled => t.path = f
  BY <1>8 DEF Right
<1> QED
  BY <1>2, <1>3, <1>4, <1>7, <1>8, <1>9, <1>10, <1>13, <1>14, <1>15, <1>16 DEF Pushes

(* There are no other kinds of steps.                                      *)
LEMMA Kinds ==
  ASSUME Moved, [Next]_vars
  PROVE  \/ Quiet
         \/ \E f, w, t : Pushes(f, w, t)
         \/ \E w \in Workers : WorkerProcess(w)
<1>1. setup' = setup
  BY SetupKept
<1>2. ASSUME Producer PROVE Quiet \/ \E f, w, t : Pushes(f, w, t)
  <2>1. CASE ProducerPush /\ IsSsd
    <3>1. PICK f, w, t : f = pushing /\ w = Given.hashOf[f] /\ t = WholeFileTask(f)
      OBVIOUS
    <3> QED
      BY <1>1, <2>1, <3>1, PushSsd
  <2> QED
    BY <1>1, <1>2, <2>1, QuietProducer
<1>3. ASSUME NEW r \in Readers, Reader(r) PROVE Quiet \/ \E f, w, t : Pushes(f, w, t)
  <2>1. CASE ReaderPush(r)
    <3>1. PICK f, w, t : f = rfile[r] /\ w = Given.hashOf[f] /\ t = Head(outbox[r])
      OBVIOUS
    <3> QED
      BY <1>1, <2>1, <3>1, PushHdd
  <2> QED
    BY <1>1, <1>3, <2>1, QuietReader
<1> QED
  BY <1>1, <1>2, <1>3, QuietRest DEF Next, Threads, Done, Reader, Worker

-----------------------------------------------------------------------------
(* A worker is done with a task: it keeps what it has collected of the     *)
(* file or, after the last one, reports it.                                *)
Served(w, f, t) ==
  /\ active'[w][f] = IF t.last THEN NoState ELSE Half(f)
  /\ \/ reported' = reported /\ (t.last => f \notin DOMAIN Expected)
     \/ /\ t.last /\ f \in DOMAIN Expected /\ reported[f] = <<>>
        /\ reported' = [reported EXCEPT ![f] = <<Expected[f]>>]

LEMMA ServedWell ==
  ASSUME Typed, Control, LinesProper, Tracked,
         NEW w \in Workers, WorkerProcess(w),
         NEW t, t = wtask[w], NEW f, f = t.path, f \notin Misfiled
  PROVE  /\ f \in Files /\ w = Given.hashOf[f] /\ Right(f, t)
         /\ Served(w, f, t)
<1> USE DEF Typed
<1>1. /\ Line(w) # <<>> /\ Head(Line(w)) = t /\ Line(w) \in Seq(Tasks)
      /\ t \in Tasks /\ active \in [Workers -> [Paths -> FileStates]]
      /\ reported \in [Paths -> Seq(Reports)]
  BY LineWorker, LineTyped DEF Worker, WorkersTyped
<1>2. Proper(w, t)
  <2>1. \A q \in Seq(Tasks) : q # <<>> => 1 \in 1..Len(q) /\ q[1] = Head(q)
    OBVIOUS
  <2> QED
    BY <1>1, <2>1 DEF LinesProper
<1>3. /\ f \in Files \ Misfiled /\ Admitted(f) /\ w = Given.hashOf[f] /\ Right(f, t)
      /\ f # NoPath /\ f \in Paths /\ Declared[f] \in Nat
  BY <1>2, MisfiledFacts, ScanFacts DEF Proper, Astray
<1>4. OnTrack(f, Due(f), Line(w), active[w][f], reported[f])
  BY <1>3 DEF Tracked
<1>5. /\ t.first => active[w][f] = NoState
      /\ ~t.first => t.last /\ active[w][f] = Half(f)
      /\ t.last => reported[f] = <<>>
  <2>1. PICK line, state, report, due :
          line = Line(w) /\ state = active[w][f] /\ report = reported[f] /\ due = Due(f)
    OBVIOUS
  <2>2. /\ line \in Seq(Tasks) /\ line # <<>> /\ Head(line) = t
        /\ Head(line).path = f /\ Right(f, Head(line)) /\ f # NoPath
        /\ OnTrack(f, due, line, state, report)
    BY <1>1, <1>3, <1>4, <2>1
  <2>3. /\ Head(line).first => state = NoState
        /\ ~Head(line).first => Head(line).last /\ state = Half(f)
        /\ Head(line).last => report = <<>>
    BY <2>2, TrackServed
  <2> QED
    BY <2>1, <2>2, <2>3
<1> DEFINE state == Updated(w, t)
<1>6. /\ active'[w][f] = (IF t.last THEN NoState ELSE state)
      /\ reported' = IF t.last /\ ~Capped(state) THEN Filed(state) ELSE reported
  BY <1>1, <1>3 DEF WorkerProcess
<1>7. Split(f) => PartlySeen(f) = TRUE /\ HeaderOnly = TRUE /\ ~Unread(f) /\ Declared[f] > 1
  BY ScanFacts DEF Split, PartlySeen, Unread
<1>8. ASSUME t.first
      PROVE  state = [fc |-> [path |-> f, size |-> Declared[f], partial |-> PartlySeen(f)],
                      seen |-> t.data]
  <2>1. t.data \in Seq(Blocks)
    BY <1>1 DEF Tasks
  <2>2. <<>> \o t.data = t.data
    BY <2>1
  <2>3. active[w][f].seen = <<>>
    BY <1>5, <1>8 DEF NoState
  <2> QED
    BY <1>3, <1>8, <2>2, <2>3 DEF Updated, Right
<1>9. ASSUME ~t.last PROVE state = Half(f)
  BY <1>3, <1>5, <1>7, <1>8, <1>9 DEF Right, Half, Context
<1>10. ASSUME t.last
       PROVE  state = [fc |-> [path |-> f, size |-> Declared[f], partial |-> PartlySeen(f)],
                       seen |-> SeenOf(f)]
  <2>1. CASE t.first
    BY <1>3, <1>8, <1>10, <2>1 DEF Right
  <2>2. CASE ~t.first
    <3>1. Split(f) /\ t.data = LastBlock(f) /\ active[w][f] = Half(f)
      BY <1>3, <1>5, <2>2 DEF Right
    <3>0. Half(f).fc = Context(f) /\ Half(f).seen = FirstBlock(f)
      BY DEF Half
    <3>2. state = [fc |-> Context(f), seen |-> FirstBlock(f) \o LastBlock(f)]
      BY <1>3, <2>2, <3>0, <3>1 DEF Updated
    <3>3. SeenOf(f) = FirstBlock(f) \o LastBlock(f)
      BY <1>7, <3>1 DEF SeenOf
    <3> QED
      BY <1>7, <3>1, <3>2, <3>3 DEF Context
  <2> QED
    BY <2>1, <2>2
<1> HIDE DEF state
<1>11. t.last => /\ state.fc.path = f /\ state.fc.size = Declared[f]
                 /\ state.fc.partial = PartlySeen(f) /\ state.seen = SeenOf(f)
  BY <1>10
<1>12. Given.maxBlocks \in Nat
  BY PipelineAssumption DEF Given
<1>13. ASSUME t.last, Capped(state) PROVE f \notin DOMAIN Expected
  <2>1. PICK n, max \in Nat : n = Declared[f] /\ max = Given.maxBlocks
    BY <1>3, <1>12
  <2>2. max > 0 /\ n > max
    BY <1>11, <1>13, <2>1 DEF Capped
  <2>3. ~(max = 0 \/ n <= max)
    BY <2>2
  <2> QED
    BY <2>1, <2>3, ExpectedFacts
<1>14. ASSUME t.last, ~Capped(state)
       PROVE  /\ f \in DOMAIN Expected
              /\ reported' = [reported EXCEPT ![f] = <<Expected[f]>>]
  <2>1. Given.maxBlocks = 0 \/ Declared[f] <= Given.maxBlocks
    <3>1. PICK n, max \in Nat : n = Declared[f] /\ max = Given.maxBlocks
      BY <1>3, <1>12
    <3>2. ~(max > 0 /\ n > max)
      BY <1>11, <1>14, <3>1 DEF Capped
    <3>3. max = 0 \/ n <= max
      BY <3>2
    <3> QED
      BY <3>1, <3>3
  <2>2. f \in DOMAIN Expected
    BY <1>3, <2>1, ExpectedFacts
  <2>3. Expected[f] = [size |-> Declared[f], partial |-> PartlySeen(f), seen |-> SeenOf(f)]
    BY <2>2, ExpectedFacts
  <2>4. Filed(state) = [reported EXCEPT ![f] = Append(@, Expected[f])]
    BY <1>11, <1>14, <2>3 DEF Filed
  <2>5. \A e : Append(<<>>, e) = <<e>>
    OBVIOUS
  <2>6. Filed(state) = [reported EXCEPT ![f] = <<Expected[f]>>]
    <3>1. PICK e : e = Expected[f]
      OBVIOUS
    <3>2. Append(reported[f], e) = <<e>>
      BY <1>5, <1>14, <2>5
    <3> QED
      BY <2>4, <3>1, <3>2
  <2>7. reported' = Filed(state)
    BY <1>6, <1>14
  <2> QED
    BY <2>2, <2>6, <2>7
<1>15. Served(w, f, t)
  BY <1>5, <1>6, <1>9, <1>13, <1>14 DEF Served
<1> QED
  BY <1>3, <1>15

(* What it does under the path of another file: nothing.                   *)
LEMMA ServedOthers ==
  ASSUME Typed, Control, LinesProper, StatesAstray, Tracked,
         NEW w \in Workers, WorkerProcess(w),
         NEW t, t = wtask[w], NEW f, f = t.path
  PROVE  /\ Proper(w, t) /\ Line(w) # <<>> /\ Head(Line(w)) = t
         /\ \A v \in Workers : \A p : v # w \/ p # f => active'[v][p] = active[v][p]
         /\ f \in Misfiled => active'[w][f].fc.path \in Misfiled
         /\ \A g \in Paths \ Misfiled : g # f => reported'[g] = reported[g]
<1> USE DEF Typed
<1>1. /\ Line(w) # <<>> /\ Head(Line(w)) = t /\ Line(w) \in Seq(Tasks)
      /\ t \in Tasks /\ active \in [Workers -> [Paths -> FileStates]]
      /\ reported \in [Paths -> Seq(Reports)]
  BY LineWorker, LineTyped DEF Worker, WorkersTyped
<1>2. Proper(w, t)
  <2>1. \A q \in Seq(Tasks) : q # <<>> => 1 \in 1..Len(q) /\ q[1] = Head(q)
    OBVIOUS
  <2> QED
    BY <1>1, <2>1 DEF LinesProper
<1> DEFINE state == Updated(w, t)
<1>3. /\ active' = [active EXCEPT ![w][f] = IF t.last THEN NoState ELSE state]
      /\ reported' = IF t.last /\ ~Capped(state) THEN Filed(state) ELSE reported
      /\ f \in Paths
  BY <1>1 DEF WorkerProcess, Tasks
<1>4. state.fc = IF t.first THEN t.fc ELSE active[w][f].fc
  BY DEF Updated
<1> HIDE DEF state
<1>5. \A v \in Workers : \A p : v # w \/ p # f => active'[v][p] = active[v][p]
  BY <1>1, <1>3
<1>6. ASSUME f \in Misfiled
      PROVE  /\ active'[w][f].fc.path \in Misfiled
             /\ \A g \in Paths \ Misfiled : reported'[g] = reported[g]
  <2>1. Astray(t)
    BY <1>2, <1>6 DEF Proper
  <2>2. state.fc.path \in Misfiled
    BY <1>4, <1>6, <2>1 DEF Astray, StatesAstray
  <2>3. NoState.fc.path \in Misfiled
    BY <1>6, MisfiledFacts DEF NoState, NoContext
  <2>4. active'[w][f] = NoState \/ active'[w][f] = state
    BY <1>1, <1>3
  <2>5. \A g \in Paths \ Misfiled : Filed(state)[g] = reported[g]
    BY <1>1, <2>2 DEF Filed
  <2> QED
    BY <1>3, <2>2, <2>3, <2>4, <2>5
<1>7. ASSUME f \notin Misfiled, NEW g \in Paths \ Misfiled, g # f
      PROVE  reported'[g] = reported[g]
  BY <1>1, <1>7, ServedWell DEF Served
<1> QED
  BY <1>1, <1>2, <1>5, <1>6, <1>7

-----------------------------------------------------------------------------
(* Every kind of step keeps what is said of the lines and of the files.    *)
LEMMA LinesStep ==
  ASSUME Moved, LinesProper, StatesAstray, Tracked, [Next]_vars
  PROVE  LinesProper'
<1>1. /\ setup' = setup /\ Workers' = Workers
      /\ \A w, t : Proper(w, t)' <=> Proper(w, t)
  BY SetupKept, GivenKept, ContractKept
<1>2. SUFFICES ASSUME NEW v \in Workers, NEW i \in 1..Len(Line(v)')
               PROVE  Proper(v, Line(v)'[i])
  BY <1>1 DEF LinesProper
<1>3. CASE Line(v)' = Line(v)
  BY <1>2, <1>3 DEF LinesProper
<1>4. CASE Quiet
  BY <1>3, <1>4 DEF Quiet
<1>5. ASSUME NEW f, NEW w, NEW t, Pushes(f, w, t) PROVE Proper(v, Line(v)'[i])
  <2>1. CASE v = w
    <3>1. PICK q \in Seq(Tasks) : q = Line(v)
      BY LineTyped DEF Moved
    <3>2. Line(v)' = Append(q, t) /\ t \in Tasks /\ Proper(v, t)
      BY <1>5, <2>1, <3>1 DEF Pushes
    <3>3. /\ Append(q, t)[Len(q) + 1] = t
          /\ \A j \in 1..Len(q) : Append(q, t)[j] = q[j]
          /\ 1..Len(Append(q, t)) = 1..Len(q) \cup {Len(q) + 1}
      BY <3>2
    <3>4. i \in 1..Len(q) \/ i = Len(q) + 1
      BY <1>2, <3>2, <3>3
    <3> QED
      BY <3>1, <3>2, <3>3, <3>4 DEF LinesProper
  <2> QED
    BY <1>3, <1>5, <2>1 DEF Pushes
<1>6. ASSUME NEW w \in Workers, WorkerProcess(w) PROVE Proper(v, Line(v)'[i])
  <2>1. CASE v = w
    <3>1. PICK q \in Seq(Tasks) : q = Line(v)
      BY LineTyped DEF Moved
    <3>2. q # <<>> /\ Line(v)' = Tail(q)
      BY <1>6, <2>1, <3>1, LineWorker DEF Moved, Worker
    <3>3. \A j \in 1..Len(Tail(q)) : j + 1 \in 1..Len(q) /\ Tail(q)[j] = q[j + 1]
      BY <3>2
    <3>4. i + 1 \in 1..Len(q) /\ Line(v)'[i] = q[i + 1]
      BY <1>2, <3>2, <3>3
    <3> QED
      BY <3>1, <3>4 DEF LinesProper
  <2> QED
    BY <1>3, <1>6, <2>1, LineWorker DEF Moved, Worker
<1> QED
  BY <1>4, <1>5, <1>6, Kinds

LEMMA StatesStep ==
  ASSUME Moved, LinesProper, StatesAstray, Tracked, [Next]_vars
  PROVE  StatesAstray'
<1>1. setup' = setup /\ Workers' = Workers /\ Misfiled' = Misfiled
  BY SetupKept, GivenKept, ContractKept
<1>2. CASE active' = active
  BY <1>1, <1>2 DEF StatesAstray
<1>3. ASSUME NEW w \in Workers, WorkerProcess(w) PROVE StatesAstray'
  <2>1. PICK t, f : t = wtask[w] /\ f = t.path
    OBVIOUS
  <2>2. /\ \A v \in Workers : \A p : v # w \/ p # f => active'[v][p] = active[v][p]
        /\ f \in Misfiled => active'[w][f].fc.path \in Misfiled
    BY <1>3, <2>1, ServedOthers DEF Moved
  <2> QED
    BY <1>1, <2>2 DEF StatesAstray
<1> QED
  BY <1>2, <1>3, Kinds DEF Quiet, Pushes

LEMMA WaitingServed ==
  ASSUME NEW w, WorkerProcess(w)
  PROVE  \A f : (Waiting(f)' <=> Waiting(f)) /\ (Unsent(f)' <=> Unsent(f))
<1>1. UNCHANGED <<setup, todo, pushing, readerQ, reader, rfile, outbox>>
  BY DEF WorkerProcess, producerVars, readerQVars, readerVars
<1>2. Readers' = Readers /\ BeforeReaders' = BeforeReaders
  BY <1>1, GivenKept DEF BeforeReaders, QueuedFiles
<1> QED
  BY <1>1, <1>2 DEF Waiting, Unsent, AtRest, SendingEnd

LEMMA DueMoves ==
  /\ Quiet => \A f \in Files \ Misfiled : Due(f)' \in {Due(f), "none"}
  /\ \A f, w, t : Pushes(f, w, t) =>
       /\ f \notin Misfiled => /\ Due(f) = IF t.first THEN "all" ELSE "rest"
                              /\ Due(f)' = IF t.last THEN "none" ELSE "rest"
       /\ \A g \in Files \ Misfiled : g # f => Due(g)' = Due(g)
  /\ \A w, f : WorkerProcess(w) => Due(f)' = Due(f)
<1>1. Quiet => \A f \in Files \ Misfiled : Due(f)' \in {Due(f), "none"}
  BY DEF Quiet, Due
<1>2. ASSUME NEW f, NEW w, NEW t, Pushes(f, w, t)
      PROVE  /\ f \notin Misfiled => /\ Due(f) = IF t.first THEN "all" ELSE "rest"
                                    /\ Due(f)' = IF t.last THEN "none" ELSE "rest"
             /\ \A g \in Files \ Misfiled : g # f => Due(g)' = Due(g)
  BY <1>2 DEF Pushes, Due
<1>3. ASSUME NEW w, NEW f, WorkerProcess(w) PROVE Due(f)' = Due(f)
  BY <1>3, WaitingServed DEF Due
<1> QED
  BY <1>1, <1>2, <1>3

LEMMA TrackedStep ==
  ASSUME Moved, LinesProper, StatesAstray, Tracked, [Next]_vars
  PROVE  Tracked'
<1>1. /\ setup' = setup /\ Files' = Files /\ Given' = Given /\ Misfiled' = Misfiled
      /\ setup \in DOMAIN Setups
      /\ \A f : Half(f)' = Half(f) /\ (Split(f)' <=> Split(f))
  BY SetupKept, GivenKept, ContractKept DEF Moved, Typed
<1>2. \A f, due, line, state, report :
        OnTrack(f, due, line, state, report)' <=> OnTrack(f, due, line, state, report)
  BY <1>1 DEF OnTrack, Starts, Ends
<1> SUFFICES ASSUME NEW f \in Files \ Misfiled, NEW v, v = Given.hashOf[f],
                    NEW then, then = Due(f)', NEW now, now = Line(v)',
                    NEW next, next = active'[v][f], NEW files, files = reported'[f]
             PROVE  OnTrack(f, then, now, next, files)
  BY <1>1, <1>2 DEF Tracked
<1>3. PICK line, state, report, due :
        line = Line(v) /\ state = active[v][f] /\ report = reported[f] /\ due = Due(f)
  OBVIOUS
<1>4. OnTrack(f, due, line, state, report)
  BY <1>3 DEF Tracked
<1>5. v \in Workers /\ line \in Seq(Tasks) /\ f \in Paths /\ f # NoPath
  <2>1. v \in Workers /\ f \in Paths /\ f # NoPath
    BY <1>1, ScanFacts, MisfiledFacts
  <2> QED
    BY <1>3, <2>1, LineTyped DEF Moved
<1>6. CASE Quiet
  <2>1. now = line /\ next = state /\ files = report
    BY <1>3, <1>5, <1>6 DEF Quiet
  <2>2. then \in {due, "none"}
    BY <1>3, <1>6, DueMoves
  <2> QED
    BY <1>4, <2>1, <2>2, TrackWeaker
<1>7. ASSUME NEW g, NEW w, NEW t, Pushes(g, w, t)
      PROVE  OnTrack(f, then, now, next, files)
  <2>1. next = state /\ files = report /\ t \in Tasks /\ w = Given.hashOf[g]
    BY <1>3, <1>7 DEF Pushes
  <2>2. CASE g = f
    <3>1. now = Append(line, t) /\ t.path = f /\ (~t.first => t.last)
      BY <1>3, <1>7, <2>2 DEF Pushes, Right
    <3>2. /\ due = IF t.first THEN "all" ELSE "rest"
          /\ then = IF t.last THEN "none" ELSE "rest"
      BY <1>3, <1>7, <2>2, DueMoves
    <3>3. OnTrack(f, then, Append(line, t), state, report)
      BY <1>4, <1>5, <2>1, <3>1, <3>2, TrackArrives
    <3> QED
      BY <2>1, <3>1, <3>3
  <2>3. CASE g # f
    <3>1. then = due /\ t.path # f
      BY <1>3, <1>7, <2>3, DueMoves DEF Pushes
    <3>2. now = line \/ now = Append(line, t)
      BY <1>3, <1>5, <1>7 DEF Pushes
    <3> QED
      BY <1>4, <1>5, <2>1, <3>1, <3>2, TrackOther
  <2> QED
    BY <2>2, <2>3
<1>8. ASSUME NEW w \in Workers, WorkerProcess(w)
      PROVE  OnTrack(f, then, now, next, files)
  <2>1. PICK t, g : t = wtask[w] /\ g = t.path
    OBVIOUS
  <2>2. /\ Proper(w, t) /\ Line(w) # <<>> /\ Head(Line(w)) = t
        /\ \A u \in Workers : \A p : u # w \/ p # g => active'[u][p] = active[u][p]
        /\ \A h \in Paths \ Misfiled : h # g => reported'[h] = reported[h]
    BY <1>8, <2>1, ServedOthers DEF Moved
  <2>3. /\ Line(w)' = Tail(Line(w))
        /\ \A u \in Workers : u # w => Line(u)' = Line(u)
    BY <1>8, LineWorker DEF Moved, Worker
  <2>4. then = due
    BY <1>3, <1>8, DueMoves
  <2>5. CASE g = f
    <3>1. Typed /\ Control /\ t = wtask[w] /\ f = t.path /\ f \notin Misfiled
      BY <2>1, <2>5 DEF Moved
    <3>2. w = v /\ Right(f, t) /\ Served(w, f, t)
      BY <1>8, <3>1, ServedWell
    <3>3. /\ now = Tail(line) /\ line # <<>> /\ Head(line) = t
          /\ Head(line).path = f /\ Right(f, Head(line))
      BY <1>3, <2>1, <2>2, <2>3, <2>5, <3>2
    <3>4. /\ next = IF t.last THEN NoState ELSE Half(f)
          /\ ~t.last => files = report
      BY <1>3, <3>2 DEF Served
    <3>5. /\ Head(line).last => \A r : OnTrack(f, due, Tail(line), NoState, r)
          /\ ~Head(line).last => OnTrack(f, due, Tail(line), Half(f), report)
      BY <1>4, <1>5, <3>3, TrackServed
    <3> QED
      BY <2>4, <3>3, <3>4, <3>5
  <2>6. CASE g # f
    <3>1. next = state /\ files = report
      BY <1>3, <1>5, <2>2, <2>6
    <3>2. \/ now = line
          \/ now = Tail(line) /\ line # <<>> /\ Head(line).path # f
      BY <1>3, <1>5, <2>1, <2>2, <2>3, <2>6
    <3> QED
      BY <1>4, <1>5, <2>4, <3>1, <3>2, TrackPassed
  <2> QED
    BY <2>5, <2>6
<1> QED
  BY <1>6, <1>7, <1>8, Kinds

(* Nothing that is due is lost on the way.                                 *)
LEMMA NotLostStep ==
  ASSUME Moved, LinesProper, StatesAstray, Tracked, NotLost, [Next]_vars
  PROVE  NotLost'
<1>1. /\ setup' = setup /\ Given' = Given /\ Expected' = Expected
      /\ setup \in DOMAIN Setups
  BY SetupKept, GivenKept, ContractKept DEF Moved, Typed
<1>2. \A f, l : Ends(l, f)' = Ends(l, f)
  BY DEF Ends
<1> SUFFICES ASSUME ~quit', NEW f \in DOMAIN Expected, NEW v, v = Given.hashOf[f],
                    ~Waiting(f)', Ends(Line(v)', f) = {}, reported'[f] = <<>>
             PROVE  FALSE
  <2>1. ASSUME ~quit', NEW f \in DOMAIN Expected, NEW v, v = Given.hashOf[f]
        PROVE  Waiting(f)' \/ Ends(Line(v)', f) # {} \/ reported'[f] # <<>>
    BY <2>1
  <2> QED
    BY <1>1, <1>2, <2>1 DEF NotLost
<1>3. /\ f \in Files \ Misfiled /\ v \in Workers /\ f \in Paths
      /\ Line(v) \in Seq(Tasks) /\ reported \in [Paths -> Seq(Reports)]
  <2>1. f \in Files \ Misfiled
    BY <1>1, ExpectedFacts
  <2> QED
    BY <1>1, <2>1, ScanFacts, MisfiledFacts, LineTyped DEF Moved, Typed, WorkersTyped
<1>4. ~quit => Waiting(f) \/ Ends(Line(v), f) # {} \/ reported[f] # <<>>
  BY DEF NotLost
<1>5. CASE Quiet
  BY <1>3, <1>4, <1>5 DEF Quiet
<1>6. ASSUME NEW g, NEW w, NEW t, Pushes(g, w, t) PROVE FALSE
  <2>1. reported' = reported /\ quit' = quit /\ t \in Tasks /\ w = Given.hashOf[g]
    BY <1>6 DEF Pushes
  <2>2. Line(v)' = Line(v) \/ (w = v /\ Line(v)' = Append(Line(v), t))
    BY <1>3, <1>6 DEF Pushes
  <2>3. PICK q \in Seq(Tasks) : q = Line(v)
    BY <1>3
  <2>4. Ends(Append(q, t), f) = Ends(q, f)
                                  \cup (IF t.path = f /\ t.last THEN {Len(q) + 1} ELSE {})
    BY <2>1, LineGrows
  <2>5. Ends(Line(v), f) = {}
    BY <2>2, <2>3, <2>4
  <2>6. Waiting(f)
    BY <1>4, <2>1, <2>5
  <2>7. g = f
    BY <1>3, <1>6, <2>6 DEF Pushes
  <2>8. t.path = f /\ t.last /\ Line(v)' = Append(q, t)
    BY <1>3, <1>6, <2>1, <2>3, <2>7 DEF Pushes, Right
  <2> QED
    BY <2>4, <2>8
<1>7. ASSUME NEW w \in Workers, WorkerProcess(w) PROVE FALSE
  <2>1. PICK t, g : t = wtask[w] /\ g = t.path
    OBVIOUS
  <2>2. Typed /\ Control
    BY DEF Moved
  <2>3. /\ Line(w) # <<>> /\ Head(Line(w)) = t
        /\ \A h \in Paths \ Misfiled : h # g => reported'[h] = reported[h]
    BY <1>7, <2>1, <2>2, ServedOthers
  <2>4. quit' = quit /\ ~Waiting(f)
    BY <1>7, WaitingServed DEF WorkerProcess
  <2>5. /\ Line(w)' = Tail(Line(w))
        /\ \A u \in Workers : u # w => Line(u)' = Line(u)
    BY <1>7, <2>2, LineWorker DEF Worker
  <2>6. PICK q \in Seq(Tasks) : q = Line(v)
    BY <1>3
  <2>7. q # <<>> => /\ Head(q).path # f \/ ~Head(q).last => 1 \notin Ends(q, f)
                    /\ \A i \in Ends(q, f) : i = 1 \/ i - 1 \in Ends(Tail(q), f)
    BY LineServed
  <2>8. CASE g = f
    <3>0. t = wtask[w] /\ f = t.path /\ f \notin Misfiled
      BY <1>3, <2>1, <2>8
    <3>1. w = v /\ Served(w, f, t)
      BY <1>7, <2>2, <3>0, ServedWell
    <3>2. ~t.last /\ reported' = reported
      <4>1. \A e : reported'[f] # <<e>>
        OBVIOUS
      <4> QED
        BY <1>3, <3>1, <4>1 DEF Served
    <3> QED
      BY <1>4, <2>3, <2>4, <2>5, <2>6, <2>7, <3>1, <3>2
  <2>9. CASE g # f
    <3>1. reported'[f] = reported[f]
      BY <1>3, <2>3, <2>9
    <3>2. Ends(Line(v), f) # {}
      BY <1>4, <2>4, <3>1
    <3> QED
      BY <1>3, <2>1, <2>3, <2>5, <2>6, <2>7, <2>9, <3>2
  <2> QED
    BY <2>8, <2>9
<1> QED
  BY <1>5, <1>6, <1>7, Kinds


(* The threads leave behind nothing to do.                                 *)
LEMMA JoinedStep ==
  ASSUME Typed, Control, Joined, [Next]_vars
  PROVE  Joined'
<1>1. /\ setup' = setup /\ Readers' = Readers /\ Workers' = Workers
      /\ (IsSsd' <=> IsSsd)
  BY SetupKept, GivenKept
<1>2. CASE /\ UNCHANGED <<readerQ, reader, worker>>
           /\ readerClosed => readerClosed'
           /\ quit => quit'
           /\ main' \in {"joinProgress", "done"} => main \in {"joinProgress", "done"}
  BY <1>1, <1>2 DEF Joined
<1>3. CASE Producer
  <2>1. /\ UNCHANGED <<reader, worker, quit, main>> /\ (readerClosed => readerClosed')
    BY <1>3 DEF Producer, Walk, ProducerPush, WalkEnds, ProducerCloses, ProducerEnds,
       CloseReaderQueue, readerVars, workerVars, mainVars, readerQVars
  <2>2. CASE ProducerPush
    <3>1. ~readerClosed /\ (IsSsd => readerQ' = readerQ)
      BY <2>2 DEF ProducerPush, Control, ProducerHand
    <3> QED
      BY <1>1, <2>1, <3>1 DEF Joined
  <2>3. CASE ~ProducerPush
    <3>1. readerQ' = readerQ
      BY <1>3, <2>3 DEF Producer, Walk, WalkEnds, ProducerCloses, ProducerEnds, readerQVars
    <3> QED
      BY <1>2, <2>1, <3>1
  <2> QED
    BY <2>2, <2>3
<1>4. ASSUME NEW r \in Readers, Reader(r) PROVE Joined'
  <2>1. /\ UNCHANGED <<worker, quit, main, readerClosed>>
        /\ \A s \in Readers : s # r => reader'[s] = reader[s]
        /\ ~IsSsd
    BY <1>4, OtherReaders DEF Reader, ReaderCheck, ReaderPop, ReaderEnds, Acquire,
       ReadChunk, ReadNothing, ReadHeader, ReadFooter, ReaderPush, workerVars, mainVars,
       readerQVars, IsSsd
  <2>2. CASE ReaderPop(r)
    <3>1. readerQ # <<>> /\ reader'[r] # "exited"
      BY <2>2 DEF ReaderPop, Typed, ReadersTyped
    <3> QED
      BY <1>1, <2>1, <3>1 DEF Joined
  <2>3. CASE ~ReaderPop(r)
    <3>1. readerQ' = readerQ
      BY <1>4, <2>3, FileInHand DEF readerQVars
    <3>2. reader'[r] = "exited" /\ ~quit => readerClosed /\ readerQ = <<>>
      BY <1>4, <2>3 DEF Reader, ReaderCheck, ReaderEnds, Acquire, ReadChunk, ReadNothing,
         ReadHeader, ReadFooter, ReaderPush, Typed, ReadersTyped
    <3> QED
      BY <1>1, <2>1, <3>1, <3>2 DEF Joined
  <2> QED
    BY <2>2, <2>3
<1>5. ASSUME NEW w \in Workers, Worker(w) PROVE Joined'
  <2>1. /\ UNCHANGED <<readerQ, readerClosed, reader, quit, main>>
        /\ worker[w] # "exited" /\ \A v \in Workers : v # w => worker'[v] = worker[v]
    BY <1>5 DEF Worker, WorkerCheck, WorkerPop, WorkerEnds, WorkerProcess, readerQVars,
       readerVars, mainVars, Typed, WorkersTyped
  <2> QED
    BY <1>1, <2>1 DEF Joined
<1>6. CASE JoinWorkers
  <2>1. UNCHANGED <<readerQ, readerClosed, reader, quit, worker>>
    BY <1>6 DEF JoinWorkers, MainGoes, readerQVars, readerVars, workerVars
  <2> QED
    BY <1>1, <1>6, <2>1 DEF Joined, JoinWorkers
<1>7. CASE JoinProducer \/ JoinReaders \/ MainClosed \/ JoinProgress
  BY <1>2, <1>7 DEF JoinProducer, JoinReaders, MainClosed, JoinProgress, MainGoes,
     AfterReaders, readerQVars, readerVars, workerVars
<1>8. CASE \/ \E w \in Workers : MainCloses(w)
           \/ ProgressEnds \/ Sigint \/ UNCHANGED vars
  BY <1>2, <1>8 DEF MainCloses, ProgressEnds, Sigint, vars, readerQVars, readerVars,
     workerVars, mainVars
<1> QED
  BY <1>3, <1>4, <1>5, <1>6, <1>7, <1>8 DEF Next, Threads, Done, Main, Reader, Worker

-----------------------------------------------------------------------------
LEMMA InitRInv == Init => RInv
<1> SUFFICES ASSUME Init PROVE RInv
  OBVIOUS
<1>1. IInv /\ setup \in DOMAIN Setups
  BY InitIInv DEF Init
<1>2. /\ todo = Files /\ pushing = NoPath /\ readerQ = <<>> /\ main = "joinProducer"
      /\ \A r \in Readers : AtRest(r) /\ reader[r] = "check"
      /\ \A w \in Workers : /\ Line(w) = <<>>
                            /\ \A p \in Paths : active[w][p] = NoState
      /\ \A p \in Paths : reported[p] = <<>>
  BY DEF Init, AtRest, Line
<1>3. QueuedFiles = {}
  BY <1>2 DEF QueuedFiles
<1>4. Admission /\ OutboxesRight /\ Joined
  BY <1>2, <1>3 DEF Admission, OutboxesRight, Joined
<1>5. LinesProper
  BY <1>2 DEF LinesProper
<1>6. StatesAstray
  <2>1. \A p \in Misfiled : p \in Paths /\ NoPath \in Misfiled
    BY <1>1, MisfiledFacts, ScanFacts DEF Paths
  <2>2. NoState.fc.path = NoPath
    BY DEF NoState, NoContext
  <2> QED
    BY <1>2, <2>1, <2>2 DEF StatesAstray
<1>7. ASSUME NEW f \in Files \ Misfiled
      PROVE  /\ Given.hashOf[f] \in Workers /\ f \in Paths
             /\ Due(f) = "all" /\ Waiting(f)
  BY <1>1, <1>2, ScanFacts, MisfiledFacts DEF Due, Unsent, Waiting, BeforeReaders
<1>8. Tracked
  <2>1. \A f : Starts(<<>>, f) = {} /\ Ends(<<>>, f) = {}
    BY DEF Starts, Ends
  <2>2. \A f : OnTrack(f, "all", <<>>, NoState, <<>>)
    BY <2>1 DEF OnTrack
  <2> QED
    BY <1>2, <1>7, <2>2 DEF Tracked
<1>9. NotLost
  BY <1>1, <1>7, ExpectedFacts DEF NotLost
<1> QED
  BY <1>1, <1>4, <1>5, <1>6, <1>8, <1>9 DEF RInv

LEMMA RInvStep == RInv /\ [Next]_vars => RInv'
<1> SUFFICES ASSUME RInv, [Next]_vars PROVE RInv'
  OBVIOUS
<1>1. /\ IInv /\ Typed /\ Control /\ AtOnePlace /\ Moved
      /\ Admission /\ OutboxesRight /\ LinesProper /\ StatesAstray
      /\ Tracked /\ NotLost /\ Joined
  BY DEF RInv, IInv, Moved
<1>2. IInv'
  BY <1>1, IInvStep
<1>3. Admission' /\ OutboxesRight'
  BY <1>1, AdmissionStep, OutboxesStep
<1>4. LinesProper' /\ StatesAstray' /\ Tracked' /\ NotLost'
  BY <1>1, LinesStep, StatesStep, TrackedStep, NotLostStep
<1>5. Joined'
  BY <1>1, JoinedStep
<1> QED
  BY <1>2, <1>3, <1>4, <1>5 DEF RInv


(* When the main thread has joined everyone, everything that is due has    *)
(* been reported, or the user has interrupted the scan.                    *)
LEMMA AllReported ==
  ASSUME RInv, main \in {"joinProgress", "done"}, ~quit, NEW f \in DOMAIN Expected
  PROVE  reported[f] # <<>>
<1>1. /\ Typed /\ Control /\ CloseAfterLastPush /\ Joined /\ NotLost
      /\ setup \in DOMAIN Setups
  BY DEF RInv, IInv, Typed
<1>2. f \in Files /\ f # NoPath /\ Given.hashOf[f] \in Workers
  BY <1>1, ExpectedFacts, MisfiledFacts, ScanFacts
<1>3. /\ producer = "done" /\ todo = {} /\ pushing = NoPath
      /\ \A r \in Readers : reader[r] = "exited" /\ AtRest(r)
  BY <1>1 DEF Control, MainOrder, ProducerHand, AtRest
<1>4. readerQ = <<>>
  BY <1>1, <1>3 DEF Joined, IsSsd
<1>5. ~Waiting(f)
  <2>1. QueuedFiles = {}
    BY <1>4 DEF QueuedFiles
  <2> QED
    BY <1>2, <1>3, <2>1 DEF Waiting, BeforeReaders
<1>6. \A w \in Workers : Line(w) = <<>>
  <2>1. \A w \in Workers : worker[w] = "exited" /\ workerQ[w] = <<>>
    BY <1>1 DEF Joined, CloseAfterLastPush
  <2> QED
    BY <2>1 DEF Line
<1>7. Ends(<<>>, f) = {}
  BY DEF Ends
<1> QED
  BY <1>1, <1>2, <1>5, <1>6, <1>7 DEF NotLost

(* What the user of the contract sees of the reports.                      *)
Seen == [p \in Paths |-> IF p \in MisfiledIn[setup] THEN <<>> ELSE reported[p]]

(* A finalized file is one step of the contract.                           *)
LEMMA ReportStep ==
  ASSUME RInv, NEW w \in Workers, WorkerProcess(w)
  PROVE  /\ UNCHANGED <<Expected, quit, main>> /\ main # "done"
         /\ \/ Seen' = Seen
            \/ \E f \in DOMAIN Expected : /\ Seen[f] = <<>>
                                          /\ Seen' = [Seen EXCEPT ![f] = <<Expected[f]>>]
<1>1. /\ Typed /\ Control /\ LinesProper /\ StatesAstray /\ Tracked /\ Joined
      /\ reported \in [Paths -> Seq(Reports)] /\ setup \in DOMAIN Setups
  BY DEF RInv, IInv, Typed, WorkersTyped
<1>2. UNCHANGED <<setup, quit, main>> /\ worker[w] # "exited"
  BY DEF WorkerProcess, mainVars
<1>3. Expected' = Expected /\ Misfiled' = Misfiled
  BY <1>2, ContractKept
<1>4. main # "done"
  BY <1>1, <1>2 DEF Joined
<1>5. PICK t, f : t = wtask[w] /\ f = t.path
  OBVIOUS
<1>6. /\ Seen = [p \in Paths |-> IF p \in Misfiled THEN <<>> ELSE reported[p]]
      /\ Seen' = [p \in Paths |-> IF p \in Misfiled THEN <<>> ELSE reported'[p]]
  BY <1>2, <1>3 DEF Seen, Misfiled
<1>7. CASE f \in Misfiled
  <2>1. \A g \in Paths \ Misfiled : reported'[g] = reported[g]
    BY <1>1, <1>5, <1>7, ServedOthers
  <2>2. Seen' = Seen
    BY <1>6, <2>1
  <2> QED
    BY <1>2, <1>3, <1>4, <2>2
<1>8. CASE f \notin Misfiled
  <2>1. Served(w, f, t) /\ f \in Files
    BY <1>1, <1>5, <1>8, ServedWell
  <2>2. CASE reported' = reported
    BY <1>2, <1>3, <1>4, <1>6, <2>2
  <2>3. CASE /\ f \in DOMAIN Expected /\ reported[f] = <<>>
             /\ reported' = [reported EXCEPT ![f] = <<Expected[f]>>]
    <3>1. PICK report : report = <<Expected[f]>>
      OBVIOUS
    <3>2. f \in Paths
      BY <1>1, <2>1, ScanFacts DEF Paths
    <3>3. Seen[f] = <<>> /\ Seen' = [Seen EXCEPT ![f] = report]
      BY <1>1, <1>6, <1>8, <2>3, <3>1, <3>2
    <3> QED
      BY <1>2, <1>3, <1>4, <2>3, <3>1, <3>3
  <2> QED
    BY <2>1, <2>2, <2>3 DEF Served
<1> QED
  BY <1>7, <1>8

(* No other step reports anything; only SIGINT and the last join are seen. *)
LEMMA OtherStep ==
  ASSUME RInv, [Next]_vars, ~\E w \in Workers : WorkerProcess(w)
  PROVE  /\ UNCHANGED <<Expected, Seen>>
         /\ \/ quit' = quit /\ (main' = "done" <=> main = "done")
            \/ quit' = TRUE /\ main' = main
            \/ main = "joinProgress" /\ main' = "done" /\ quit' = quit
<1>1. setup' = setup /\ Expected' = Expected
  BY SetupKept, ContractKept
<1> SUFFICES /\ reported' = reported
             /\ \/ quit' = quit /\ (main' = "done" <=> main = "done")
                \/ quit' = TRUE /\ main' = main
                \/ main = "joinProgress" /\ main' = "done" /\ quit' = quit
  BY <1>1 DEF Seen
<1>2. CASE Producer
  BY <1>2 DEF Producer, Walk, ProducerPush, WalkEnds, ProducerCloses, ProducerEnds,
     workerVars, mainVars
<1>3. CASE \E r \in AllReaders : Reader(r)
  BY <1>3 DEF Reader, ReaderCheck, ReaderPop, ReaderEnds, Acquire, ReadChunk,
     ReadNothing, ReadHeader, ReadFooter, ReaderPush, workerVars, mainVars
<1>4. CASE \E w \in AllWorkers : Worker(w)
  BY <1>4 DEF Worker, WorkerCheck, WorkerPop, WorkerEnds, mainVars
<1>5. CASE Main
  BY <1>5 DEF Main, JoinProducer, JoinReaders, MainClosed, JoinWorkers, JoinProgress,
     MainGoes, MainCloses, AfterReaders, workerVars, mainVars
<1>6. CASE ProgressEnds \/ Sigint \/ UNCHANGED vars
  BY <1>6 DEF ProgressEnds, Sigint, vars, workerVars, mainVars
<1> QED
  BY <1>2, <1>3, <1>4, <1>5, <1>6 DEF Next, Threads, Done

(* Every scan, of whatever files with whatever threads and queues, does    *)
(* what ScanContract asks for: each due file is finalized at most once and *)
(* from the right bytes, although several threads pass it on in parts, and *)
(* the scan ends only after all of them or after SIGINT.                   *)
THEOREM ScanImplementsContract == Spec => ImplementsContract
<1>1. Init => Contract!Init
  <2> SUFFICES ASSUME Init PROVE Contract!Init
    OBVIOUS
  <2>1. DOMAIN Expected \subseteq Paths
    BY ExpectedFacts, ScanFacts DEF Init, Paths
  <2>2. Seen = [p \in Paths |-> <<>>]
    BY DEF Init, Seen
  <2> QED
    BY <2>1, <2>2 DEF Contract!Init, Init, Seen
<1>2. RInv /\ [Next]_vars => [Contract!Next]_Contract!vars
  <2> SUFFICES ASSUME RInv, [Next]_vars PROVE [Contract!Next]_Contract!vars
    OBVIOUS
  <2>1. ASSUME NEW w \in Workers, WorkerProcess(w)
        PROVE  [Contract!Next]_Contract!vars
    BY <2>1, ReportStep DEF Contract!Next, Contract!Report, Contract!vars, Seen
  <2>2. CASE ~\E w \in Workers : WorkerProcess(w)
    <3>1. /\ UNCHANGED <<Expected, Seen>>
          /\ \/ quit' = quit /\ (main' = "done" <=> main = "done")
             \/ quit' = TRUE /\ main' = main
             \/ main = "joinProgress" /\ main' = "done" /\ quit' = quit
      BY <2>2, OtherStep
    <3>2. CASE quit' = quit /\ (main' = "done" <=> main = "done")
      BY <3>1, <3>2 DEF Contract!vars, Seen
    <3>3. CASE quit' = TRUE /\ main' = main
      BY <3>1, <3>3 DEF Contract!Next, Contract!Interrupt, Seen
    <3>4. CASE main = "joinProgress" /\ main' = "done" /\ quit' = quit
      <4>1. ASSUME ~quit, NEW f \in DOMAIN Expected
            PROVE  Seen[f] # <<>>
        <5>1. reported[f] # <<>>
          BY <3>4, <4>1, AllReported
        <5>2. setup \in DOMAIN Setups
          BY DEF RInv, IInv, Typed
        <5>3. f \in Files \ Misfiled
          BY <4>1, <5>2, ExpectedFacts
        <5> QED
          BY <5>1, <5>2, <5>3, ScanFacts DEF Seen, Paths, Misfiled
      <4> QED
        BY <3>1, <3>4, <4>1 DEF Contract!Next, Contract!Finish, Seen
    <3> QED
      BY <3>1, <3>2, <3>3, <3>4
  <2> QED
    BY <2>1, <2>2
<1> QED
  BY <1>1, <1>2, InitRInv, RInvStep, PTL DEF Spec, ImplementsContract, Contract!Spec

=============================================================================
