---------------------------- MODULE CondVarProofs ----------------------------
(***************************************************************************)
(* How the steps of a thread and of a notification change the numbers of   *)
(* waiting and of awake threads of a condition variable.  Cited by the     *)
(* proofs about BoundedQueue and BufferPool.                               *)
(***************************************************************************)
EXTENDS CondVar, Integers, FiniteSets, FiniteSetTheorems, TLAPS

(* The awake threads of a finite set of threads can be counted.            *)
LEMMA ReadyIsFinite ==
  ASSUME NEW T, IsFiniteSet(T), NEW f, DOMAIN f = T
  PROVE  IsFiniteSet(Ready(f)) /\ Cardinality(Ready(f)) \in Nat
BY FS_Subset, FS_CardinalityType DEF Ready

(* A thread that becomes awake adds one to the awake threads, and nobody   *)
(* starts to wait by it.                                                   *)
LEMMA BecomesReady ==
  ASSUME NEW T, IsFiniteSet(T), NEW S, NEW f \in [T -> S],
         NEW t \in T, f[t] # "ready",
         NEW g, g = [f EXCEPT ![t] = "ready"]
  PROVE  /\ Cardinality(Ready(g)) = Cardinality(Ready(f)) + 1
         /\ Waiting(g) \subseteq Waiting(f)
<1>1. t \notin Ready(f)
  BY DEF Ready
<1>2. Ready(g) = Ready(f) \cup {t}
  BY DEF Ready
<1>3. Waiting(g) \subseteq Waiting(f)
  BY DEF Waiting
<1>4. IsFiniteSet(Ready(f)) /\ Cardinality(Ready(f)) \in Nat
  BY ReadyIsFinite
<1> QED
  BY <1>1, <1>2, <1>3, <1>4, FS_AddElement

(* A thread that leaves the awake ones without waiting takes one from them *)
(* and changes nothing for those that wait.                                *)
LEMMA LeavesReady ==
  ASSUME NEW f, IsFiniteSet(DOMAIN f),
         NEW t \in DOMAIN f, f[t] = "ready",
         NEW s, s # "ready", s # "waiting",
         NEW g, g = [f EXCEPT ![t] = s]
  PROVE  /\ Cardinality(Ready(g)) = Cardinality(Ready(f)) - 1
         /\ Waiting(g) = Waiting(f)
<1>1. t \in Ready(f)
  BY DEF Ready
<1>2. Ready(g) = Ready(f) \ {t}
  BY DEF Ready
<1>3. Waiting(g) = Waiting(f)
  BY DEF Waiting
<1>4. IsFiniteSet(Ready(f)) /\ Cardinality(Ready(f)) \in Nat
  BY ReadyIsFinite
<1>5. Cardinality(Ready(f) \ {t}) = Cardinality(Ready(f)) - 1
  BY <1>1, <1>4, FS_RemoveElement
<1> QED
  BY <1>2, <1>3, <1>5

(* notify_one wakes exactly one thread when some thread waits, nobody      *)
(* otherwise, and touches no thread that does not wait.                    *)
LEMMA NotifyOneEffect ==
  ASSUME NEW T, IsFiniteSet(T), NEW S, "ready" \in S,
         NEW f \in [T -> S], NEW g \in NotifyOne(f)
  PROVE  /\ g \in [T -> S]
         /\ Waiting(g) \subseteq Waiting(f)
         /\ Waiting(f) # {} => Cardinality(Ready(g)) = Cardinality(Ready(f)) + 1
         /\ \A t \in T : f[t] # "waiting" => g[t] = f[t]
         /\ \A t \in T : f[t] = "waiting" => g[t] \in {"waiting", "ready"}
<1>1. CASE Waiting(f) = {}
  <2>1. g = f
    BY <1>1 DEF NotifyOne
  <2>2. \A t \in T : f[t] # "waiting"
    BY <1>1 DEF Waiting
  <2> QED
    BY <1>1, <2>1, <2>2
<1>2. CASE Waiting(f) # {}
  <2>1. PICK t \in Waiting(f) : g = [f EXCEPT ![t] = "ready"]
    BY <1>2 DEF NotifyOne
  <2>2. t \in T /\ f[t] = "waiting"
    BY DEF Waiting
  <2>3. /\ Cardinality(Ready(g)) = Cardinality(Ready(f)) + 1
        /\ Waiting(g) \subseteq Waiting(f)
    BY <2>1, <2>2, BecomesReady
  <2> QED
    BY <2>1, <2>2, <2>3
<1> QED
  BY <1>1, <1>2

(* A spurious wake-up acts as a notification that finds a waiter.          *)
LEMMA SpuriousEffect ==
  ASSUME NEW T, IsFiniteSet(T), NEW S, "ready" \in S,
         NEW f \in [T -> S], NEW g \in SpuriousWakeup(f)
  PROVE  g \in NotifyOne(f) /\ Waiting(f) # {}
BY DEF SpuriousWakeup, NotifyOne

(* notify_all leaves nobody waiting.                                       *)
LEMMA NotifyAllEffect ==
  ASSUME NEW T, NEW S, "ready" \in S, NEW f \in [T -> S]
  PROVE  /\ NotifyAll(f) \in [T -> S]
         /\ Waiting(NotifyAll(f)) = {}
         /\ \A t \in T : f[t] # "waiting" => NotifyAll(f)[t] = f[t]
         /\ \A t \in T : f[t] = "waiting" => NotifyAll(f)[t] = "ready"
BY DEF NotifyAll, Waiting

(* No notification brings a thread into, or out of, a state that is        *)
(* neither waiting nor awake.                                              *)
LEMMA NotifyKeepsOthers ==
  ASSUME NEW T, IsFiniteSet(T), NEW S, "ready" \in S,
         NEW f \in [T -> S],
         NEW g \in NotifyOne(f) \cup SpuriousWakeup(f) \cup {NotifyAll(f)},
         NEW s, s \notin {"waiting", "ready"}
  PROVE  {t \in T : g[t] = s} = {t \in T : f[t] = s}
<1>1. /\ \A t \in T : f[t] # "waiting" => g[t] = f[t]
      /\ \A t \in T : f[t] = "waiting" => g[t] \in {"waiting", "ready"}
  <2>1. CASE g \in NotifyOne(f)
    BY <2>1, NotifyOneEffect
  <2>2. CASE g \in SpuriousWakeup(f)
    BY <2>2, SpuriousEffect, NotifyOneEffect
  <2>3. CASE g = NotifyAll(f)
    BY <2>3, NotifyAllEffect
  <2> QED
    BY <2>1, <2>2, <2>3
<1> QED
  BY <1>1

=============================================================================
