-------------------------- MODULE BufferPoolProofs --------------------------
(***************************************************************************)
(* Proofs that BufferPool keeps its type, gives every buffer one owner and *)
(* loses no wake-up, for every finite set of readers and of buffers.       *)
(***************************************************************************)
EXTENDS BufferPool, CondVarProofs, SequenceTheorems

(* OneOwner and the types are inductive together, and so are NoLostWakeup  *)
(* and the types.                                                          *)
IInv == TypeOK /\ OneOwner /\ NoLostWakeup

(* The pool the constructor fills satisfies the invariant.                 *)
LEMMA InitIInv == Init => IInv
<1> SUFFICES ASSUME Init PROVE IInv
  OBVIOUS
<1> USE DEF Init
<1>1. Cardinality(Buffers) \in Nat
  BY PoolAssumption, FS_CardinalityType
<1>2. pool \in Seq(Buffers) /\ Len(pool) = Cardinality(Buffers)
  BY <1>1
<1>3. TypeOK
  BY <1>2 DEF TypeOK, TakerStates
<1>4. Waiting(taker) = {}
  BY DEF Waiting
<1>5. \A i, j \in 1..Len(pool) : pool[i] = pool[j] => i = j
  <2>1. pool \in Surjection(1..Cardinality(Buffers), Buffers)
    BY <1>2 DEF Surjection, Stacked
  <2>2. IsFiniteSet(1..Cardinality(Buffers))
        /\ Cardinality(1..Cardinality(Buffers)) = Cardinality(Buffers)
    BY <1>1, FS_Interval
  <2> QED
    BY <1>2, <2>1, <2>2, FS_SurjSameCardinalityImpliesInj, PoolAssumption
       DEF Injection, IsInjective
<1>6. OneOwner
  BY <1>5 DEF OneOwner
<1> QED
  BY <1>3, <1>4, <1>6 DEF IInv, NoLostWakeup

(* What SubSeq leaves of a sequence.                                       *)
LEMMA Prefix ==
  ASSUME NEW S, NEW s \in Seq(S), NEW n \in Nat, n <= Len(s)
  PROVE  /\ SubSeq(s, 1, n) \in Seq(S)
         /\ Len(SubSeq(s, 1, n)) = n
         /\ \A i \in 1..n : SubSeq(s, 1, n)[i] = s[i]
OBVIOUS

(* Popping the top of the stack removes one element, the top.              *)
LEMMA PopTop ==
  ASSUME pool \in Seq(Buffers), pool # <<>>,
         pool' = SubSeq(pool, 1, Len(pool) - 1)
  PROVE  /\ pool' \in Seq(Buffers)
         /\ Len(pool') = Len(pool) - 1
         /\ Len(pool) \in 1..Len(pool)
         /\ pool[Len(pool)] \in Buffers
         /\ \A i \in 1..Len(pool') : pool'[i] = pool[i]
<1>1. Len(pool) \in Nat /\ Len(pool) > 0
  BY EmptySeq, LenProperties
<1>2. Len(pool) - 1 \in Nat /\ Len(pool) - 1 <= Len(pool)
  BY <1>1
<1>3. /\ pool' \in Seq(Buffers)
      /\ Len(pool') = Len(pool) - 1
      /\ \A i \in 1..(Len(pool) - 1) : pool'[i] = pool[i]
  BY <1>2, Prefix, Zenon
<1> QED
  BY <1>1, <1>3, ElementOfSeq

(* Every step of acquire, release and their callers keeps the types.       *)
LEMMA TypeStep == TypeOK /\ [Next]_vars => TypeOK'
<1> SUFFICES ASSUME TypeOK, [Next]_vars PROVE TypeOK'
  OBVIOUS
<1> USE DEF TypeOK
<1>r. "ready" \in TakerStates
  BY DEF TakerStates
<1>1. ASSUME NEW t \in Takers, CallAcquire(t) PROVE TypeOK'
  BY <1>1 DEF CallAcquire, TakerStates
<1>2. ASSUME NEW t \in Takers, AcquireWait(t) PROVE TypeOK'
  BY <1>2 DEF AcquireWait, TakerStates
<1>3. ASSUME NEW t \in Takers, AcquireTake(t) PROVE TypeOK'
  <2>1. pool' \in Seq(Buffers) /\ pool[Len(pool)] \in Buffers
    BY <1>3, PopTop DEF AcquireTake
  <2> QED
    BY <1>3, <2>1 DEF AcquireTake, TakerStates
<1>4. ASSUME NEW t \in Takers, NEW b \in Buffers, Send(t, b) PROVE TypeOK'
  BY <1>4 DEF Send
<1>5. ASSUME NEW t \in Takers, NEW b \in Buffers, Lose(t, b) PROVE TypeOK'
  BY <1>5 DEF Lose
<1>6. ASSUME NEW b \in Buffers, Release(b) PROVE TypeOK'
  <2>1. taker' \in [Takers -> TakerStates]
    BY <1>r, <1>6, PoolAssumption, NotifyOneEffect DEF Release
  <2>2. pool' \in Seq(Buffers)
    BY <1>6, AppendProperties DEF Release
  <2> QED
    BY <1>6, <2>1, <2>2 DEF Release
<1>7. CASE Spurious
  <2>1. taker' \in [Takers -> TakerStates]
    BY <1>r, <1>7, PoolAssumption, SpuriousEffect, NotifyOneEffect DEF Spurious
  <2> QED
    BY <1>7, <2>1 DEF Spurious
<1>8. CASE UNCHANGED vars
  BY <1>8 DEF vars
<1> QED
  BY <1>1, <1>2, <1>3, <1>4, <1>5, <1>6, <1>7, <1>8 DEF Next, AcquireStep

(* A buffer moves from one place to one other.                             *)
LEMMA OneOwnerStep == TypeOK /\ OneOwner /\ [Next]_vars => OneOwner'
<1> SUFFICES ASSUME TypeOK, OneOwner, [Next]_vars PROVE OneOwner'
  OBVIOUS
<1> USE DEF TypeOK, OneOwner
<1>1. ASSUME NEW t \in Takers, AcquireTake(t) PROVE OneOwner'
  <2>1. /\ Len(pool) \in Nat
        /\ Len(pool') = Len(pool) - 1
        /\ Len(pool) \in 1..Len(pool)
        /\ \A i \in 1..Len(pool') : pool'[i] = pool[i]
    BY <1>1, PopTop, LenProperties DEF AcquireTake
  <2> DEFINE top == pool[Len(pool)]
  <2>2. Stacked' \subseteq Stacked \ {top} /\ top \in Stacked
    <3>1. ASSUME NEW i \in 1..Len(pool')
          PROVE  pool'[i] \in Stacked /\ pool'[i] # top
      BY <2>1 DEF Stacked
    <3> QED
      BY <2>1, <3>1 DEF Stacked
  <2>3. \A i, j \in 1..Len(pool') : pool'[i] = pool'[j] => i = j
    BY <2>1
  <2>4. sent' = sent /\ hand' = [hand EXCEPT ![t] = @ \cup {top}]
    BY <1>1 DEF AcquireTake
  <2> HIDE DEF top
  <2>5. \A u \in Takers : hand'[u] \cap (Stacked' \cup sent') = {}
    BY <2>2, <2>4
  <2>6. \A u, v \in Takers : u # v => hand'[u] \cap hand'[v] = {}
    BY <2>2, <2>4
  <2> QED
    BY <2>2, <2>3, <2>4, <2>5, <2>6
<1>2. ASSUME NEW t \in Takers, NEW b \in Buffers, Send(t, b) PROVE OneOwner'
  BY <1>2 DEF Send, Stacked
<1>3. ASSUME NEW t \in Takers, NEW b \in Buffers, Lose(t, b) PROVE OneOwner'
  BY <1>3 DEF Lose, Stacked
<1>4. ASSUME NEW b \in Buffers, Release(b) PROVE OneOwner'
  <2>1. /\ Len(pool) \in Nat
        /\ Len(pool') = Len(pool) + 1
        /\ pool'[Len(pool) + 1] = b
        /\ \A i \in 1..Len(pool) : pool'[i] = pool[i]
    BY <1>4, AppendProperties, LenProperties DEF Release
  <2>2. Stacked' = Stacked \cup {b}
    BY <2>1 DEF Stacked
  <2>3. b \notin Stacked /\ b \in sent /\ sent' = sent \ {b} /\ hand' = hand
    BY <1>4 DEF Release
  <2>4. \A i, j \in 1..Len(pool') : pool'[i] = pool'[j] => i = j
    BY <2>1, <2>3 DEF Stacked
  <2> QED
    BY <2>2, <2>3, <2>4
<1>5. CASE UNCHANGED <<pool, hand, sent>>
  BY <1>5 DEF Stacked
<1> QED
  BY <1>1, <1>2, <1>3, <1>4, <1>5
     DEF Next, vars, CallAcquire, AcquireStep, AcquireWait, Spurious

(* A reader that takes a buffer is no longer among the awake ones.         *)
LEMMA TakerReturns ==
  ASSUME TypeOK, NEW t \in Takers, taker[t] = "ready",
         taker' = [taker EXCEPT ![t] = "idle"]
  PROVE  /\ Cardinality(Ready(taker')) = Cardinality(Ready(taker)) - 1
         /\ Waiting(taker') = Waiting(taker)
<1>1. IsFiniteSet(DOMAIN taker) /\ t \in DOMAIN taker
  BY PoolAssumption DEF TypeOK
<1>2. "idle" # "ready" /\ "idle" # "waiting"
  OBVIOUS
<1> QED
  BY <1>1, <1>2, LeavesReady, Zenon

(* Every release() wakes a waiting reader, and a reader goes to sleep only *)
(* on an empty stack.                                                      *)
LEMMA NoLostWakeupStep ==
  TypeOK /\ NoLostWakeup /\ [Next]_vars => NoLostWakeup'
<1> SUFFICES ASSUME TypeOK, NoLostWakeup, [Next]_vars PROVE NoLostWakeup'
  OBVIOUS
<1> USE DEF NoLostWakeup
<1>t. /\ pool \in Seq(Buffers) /\ Len(pool) \in Nat
      /\ taker \in [Takers -> TakerStates]
      /\ taker' \in [Takers -> TakerStates]
      /\ "ready" \in TakerStates
      /\ IsFiniteSet(Takers)
  BY TypeStep, PoolAssumption, LenProperties DEF TypeOK, TakerStates
<1>f. Cardinality(Ready(taker)) \in Nat /\ Cardinality(Ready(taker')) \in Nat
  BY <1>t, ReadyIsFinite
<1>1. ASSUME NEW t \in Takers, CallAcquire(t) PROVE NoLostWakeup'
  <2>1. /\ Cardinality(Ready(taker')) = Cardinality(Ready(taker)) + 1
        /\ Waiting(taker') \subseteq Waiting(taker)
    BY <1>1, <1>t, BecomesReady DEF CallAcquire
  <2>2. pool' = pool
    BY <1>1 DEF CallAcquire
  <2> QED
    BY <1>t, <1>f, <2>1, <2>2
<1>2. ASSUME NEW t \in Takers, AcquireWait(t) PROVE NoLostWakeup'
  <2>1. Len(pool') = 0
    BY <1>2, EmptySeq DEF AcquireWait
  <2> QED
    BY <1>f, <2>1
<1>3. ASSUME NEW t \in Takers, AcquireTake(t) PROVE NoLostWakeup'
  <2>1. /\ Cardinality(Ready(taker')) = Cardinality(Ready(taker)) - 1
        /\ Waiting(taker') = Waiting(taker)
    BY <1>3, TakerReturns DEF AcquireTake
  <2>2. Len(pool') = Len(pool) - 1
    BY <1>3, <1>t, PopTop DEF AcquireTake
  <2> QED
    BY <1>t, <1>f, <2>1, <2>2
<1>4. ASSUME NEW b \in Buffers, Release(b) PROVE NoLostWakeup'
  <2>1. /\ Waiting(taker') \subseteq Waiting(taker)
        /\ Waiting(taker) # {} =>
             Cardinality(Ready(taker')) = Cardinality(Ready(taker)) + 1
    BY <1>4, <1>t, NotifyOneEffect DEF Release
  <2>2. Len(pool') = Len(pool) + 1
    BY <1>4, <1>t, AppendProperties DEF Release
  <2> QED
    BY <1>t, <1>f, <2>1, <2>2
<1>5. CASE Spurious
  <2>1. /\ Waiting(taker') \subseteq Waiting(taker)
        /\ Waiting(taker) # {}
        /\ Cardinality(Ready(taker')) = Cardinality(Ready(taker)) + 1
    BY <1>5, <1>t, SpuriousEffect, NotifyOneEffect DEF Spurious
  <2>2. pool' = pool
    BY <1>5 DEF Spurious
  <2> QED
    BY <1>t, <1>f, <2>1, <2>2
<1>6. CASE UNCHANGED <<pool, taker>>
  BY <1>6
<1> QED
  BY <1>1, <1>2, <1>3, <1>4, <1>5, <1>6
     DEF Next, vars, AcquireStep, Send, Lose

-----------------------------------------------------------------------------
(* The invariant is inductive.                                             *)
THEOREM Invariance == Spec => []IInv
<1>1. Init => IInv
  BY InitIInv
<1>2. IInv /\ [Next]_vars => IInv'
  BY TypeStep, OneOwnerStep, NoLostWakeupStep DEF IInv
<1> QED
  BY <1>1, <1>2, PTL DEF Spec

(* The variables of BufferPool have their types.                           *)
THEOREM TypeCorrect == Spec => []TypeOK
<1>1. IInv => TypeOK
  BY DEF IInv
<1> QED
  BY <1>1, Invariance, PTL

(* acquire() never hands out a buffer that somebody still uses.            *)
THEOREM Exclusive == Spec => []OneOwner
<1>1. IInv => OneOwner
  BY DEF IInv
<1> QED
  BY <1>1, Invariance, PTL

(* One notify_one per release() is enough.                                 *)
THEOREM WakeupsSuffice == Spec => []NoLostWakeup
<1>1. IInv => NoLostWakeup
  BY DEF IInv
<1> QED
  BY <1>1, Invariance, PTL

=============================================================================
