----------------------------- MODULE BufferPool -----------------------------
(***************************************************************************)
(* BufferPool of BufferPool.hpp at the grain of its mutex.  A reader calls *)
(* acquire(), fills the buffer and hands it to a worker in a WorkTask; the *)
(* worker calls release().  A reader may lose a buffer: when a read fails  *)
(* or yields nothing, the read loop of main.cpp is left without release(). *)
(***************************************************************************)
EXTENDS Integers, Sequences, FiniteSets, CondVar

CONSTANTS
  Takers,     \* threads that call acquire(): the readers of the scan
  Buffers,    \* the buffers the constructor allocates
  MayLose     \* whether some read fails or yields nothing

ASSUME PoolAssumption ==
  /\ IsFiniteSet(Takers)
  /\ IsFiniteSet(Buffers)
  /\ MayLose \in BOOLEAN

VARIABLES
  pool,       \* pool_, a stack whose top is its last element
  taker,      \* state of every acquiring thread; "waiting" is on cv_
  hand,       \* the buffers a taker has acquired and not passed on
  sent        \* buffers in a task: in a worker's queue or in its hands

vars == <<pool, taker, hand, sent>>

TakerStates == {"idle", "ready", "waiting"}

TypeOK ==
  /\ pool \in Seq(Buffers)
  /\ taker \in [Takers -> TakerStates]
  /\ hand \in [Takers -> SUBSET Buffers]
  /\ sent \in SUBSET Buffers

Stacked == {pool[i] : i \in 1..Len(pool)}

(* The constructor pushes every buffer once.                               *)
Init ==
  /\ pool \in [1..Cardinality(Buffers) -> Buffers]
  /\ Stacked = Buffers
  /\ taker = [t \in Takers |-> "idle"]
  /\ hand = [t \in Takers |-> {}]
  /\ sent = {}

-----------------------------------------------------------------------------
(* uint8_t* acquire(): a reader needs one buffer, in a header pass two.    *)

CallAcquire(t) ==
  /\ taker[t] = "idle"
  /\ Cardinality(hand[t]) < 2
  /\ taker' = [taker EXCEPT ![t] = "ready"]
  /\ UNCHANGED <<pool, hand, sent>>

(* Faulty: an empty pool yields a null pointer.                            *)
AcquireNull(t) ==
  /\ taker[t] = "ready"
  /\ pool = <<>>
  /\ hand' = [hand EXCEPT ![t] = @ \cup {"nullptr"}]
  /\ taker' = [taker EXCEPT ![t] = "idle"]
  /\ UNCHANGED <<pool, sent>>

AcquireWait(t) ==
  /\ taker[t] = "ready"
  /\ pool = <<>>
  /\ taker' = [taker EXCEPT ![t] = "waiting"]
  /\ UNCHANGED <<pool, hand, sent>>

(* Faulty: pop_back is missing.                                            *)
AcquireKeep(t) ==
  /\ taker[t] = "ready"
  /\ pool # <<>>
  /\ hand' = [hand EXCEPT ![t] = @ \cup {pool[Len(pool)]}]
  /\ taker' = [taker EXCEPT ![t] = "idle"]
  /\ UNCHANGED <<pool, sent>>

AcquireTake(t) ==
  /\ taker[t] = "ready"
  /\ pool # <<>>
  /\ pool' = SubSeq(pool, 1, Len(pool) - 1)
  /\ hand' = [hand EXCEPT ![t] = @ \cup {pool[Len(pool)]}]
  /\ taker' = [taker EXCEPT ![t] = "idle"]
  /\ UNCHANGED sent

-----------------------------------------------------------------------------
(* What the callers do with a buffer.                                      *)

Send(t, b) ==
  /\ taker[t] = "idle"
  /\ b \in hand[t]
  /\ hand' = [hand EXCEPT ![t] = @ \ {b}]
  /\ sent' = sent \cup {b}
  /\ UNCHANGED <<pool, taker>>

(* The loop is left and the pointer goes out of scope.                     *)
Lose(t, b) ==
  /\ MayLose
  /\ taker[t] = "idle"
  /\ b \in hand[t]
  /\ hand' = [hand EXCEPT ![t] = @ \ {b}]
  /\ UNCHANGED <<pool, taker, sent>>

(* Faulty: notifies only when the pool was empty.                          *)
ReleaseNotifyFirst(b) ==
  /\ b \in sent
  /\ sent' = sent \ {b}
  /\ pool' = Append(pool, b)
  /\ IF pool = <<>> THEN taker' \in NotifyOne(taker) ELSE taker' = taker
  /\ UNCHANGED hand

(* Faulty: notify_one is missing.                                          *)
ReleaseSilent(b) ==
  /\ b \in sent
  /\ sent' = sent \ {b}
  /\ pool' = Append(pool, b)
  /\ UNCHANGED <<hand, taker>>

(* void release(uint8_t* buf), called by a worker.                         *)
Release(b) ==
  /\ b \in sent
  /\ sent' = sent \ {b}
  /\ pool' = Append(pool, b)
  /\ taker' \in NotifyOne(taker)
  /\ UNCHANGED hand

Spurious ==
  /\ taker' \in SpuriousWakeup(taker)
  /\ UNCHANGED <<pool, hand, sent>>

AcquireStep(t) == AcquireWait(t) \/ AcquireTake(t)

Next ==
  \/ \E t \in Takers : CallAcquire(t) \/ AcquireStep(t)
  \/ \E t \in Takers, b \in Buffers : Send(t, b) \/ Lose(t, b)
  \/ \E b \in Buffers : Release(b)
  \/ Spurious

(* A thread inside acquire() is scheduled and gets the mutex again.        *)
Fairness == \A t \in Takers : WF_vars(AcquireStep(t))

Spec == Init /\ [][Next]_vars /\ Fairness

-----------------------------------------------------------------------------
(* A buffer has one owner: it is on the stack once, or in one reader's     *)
(* hands, or in one task, or lost; so a worker never reads a buffer that a *)
(* reader is filling.                                                      *)
OneOwner ==
  /\ \A i, j \in 1..Len(pool) : pool[i] = pool[j] => i = j
  /\ Stacked \cap sent = {}
  /\ \A t \in Takers : hand[t] \cap (Stacked \cup sent) = {}
  /\ \A t, u \in Takers : t # u => hand[t] \cap hand[u] = {}

(* No lost wake-up: while a reader waits, every free buffer has an awake   *)
(* reader that will take it.                                               *)
NoLostWakeup ==
  Waiting(taker) # {} => Len(pool) <= Cardinality(Ready(taker))

(* A free buffer does not stay on the stack while a reader waits for one.  *)
FreeBufferIsTaken ==
  (pool # <<>> /\ Waiting(taker) # {}) ~> (pool = <<>> \/ Waiting(taker) = {})

=============================================================================
