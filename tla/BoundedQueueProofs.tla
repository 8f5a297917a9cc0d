------------------------- MODULE BoundedQueueProofs -------------------------
(***************************************************************************)
(* Proofs that BoundedQueue keeps its type, conserves its values, loses no *)
(* wake-up and implements BoundedFifo, for every finite set of threads,    *)
(* every set of values and every capacity.                                 *)
(***************************************************************************)
EXTENDS BoundedQueue, CondVarProofs, SequenceTheorems

(* The invariant that is inductive: the three safety properties need only  *)
(* each other and the types.                                               *)
IInv == TypeOK /\ Conserved /\ NoLostWakeup /\ EndedMeansDrained

(* Popping the front of a sequence that continues another one moves the    *)
(* border between them by one.                                             *)
LEMMA MoveFront ==
  ASSUME NEW S, NEW d \in Seq(S), NEW r \in Seq(S), r # <<>>
  PROVE  /\ d \o r = Append(d, Head(r)) \o Tail(r)
         /\ (d \o r)[Len(d) + 1] = Head(r)
         /\ Len(d) < Len(d \o r)
<1>1. Head(r) \in S /\ Tail(r) \in Seq(S) /\ r = <<Head(r)>> \o Tail(r)
  BY HeadTailProperties, SeqEqual, ConcatProperties
<1>2. Append(d, Head(r)) = d \o <<Head(r)>>
  BY <1>1, AppendIsConcat
<1>3. <<Head(r)>> \in Seq(S)
  BY <1>1
<1>4. d \o r = Append(d, Head(r)) \o Tail(r)
  BY <1>1, <1>2, <1>3, ConcatAssociative
<1>5. Len(r) > 0 /\ Len(d) \in Nat /\ Len(r) \in Nat
  BY EmptySeq, LenProperties
<1>6. Len(d \o r) = Len(d) + Len(r) /\ (d \o r)[Len(d) + 1] = r[1]
  BY <1>5, ConcatProperties
<1> QED
  BY <1>4, <1>5, <1>6, HeadTailProperties

(* What is appended to a sequence ends up behind all that precedes it.     *)
LEMMA AppendBehind ==
  ASSUME NEW d \in Seq(Items), NEW r \in Seq(Items), NEW v \in Items
  PROVE  Append(d \o r, v) = d \o Append(r, v)
<1>1. <<v>> \in Seq(Items) /\ d \o r \in Seq(Items)
  BY ConcatProperties
<1>2. Append(d \o r, v) = (d \o r) \o <<v>>
  BY <1>1, AppendIsConcat
<1>3. Append(r, v) = r \o <<v>>
  BY AppendIsConcat
<1> QED
  BY <1>1, <1>2, <1>3, ConcatAssociative

(* An open, empty queue on which nobody waits satisfies the invariant.     *)
LEMMA InitIInv == Init => IInv
<1> SUFFICES ASSUME Init PROVE IInv
  OBVIOUS
<1> USE DEF Init
<1>1. TypeOK
  BY EmptySeq DEF TypeOK, PusherStates, PopperStates
<1>2. Conserved
  BY QueueAssumption, ConcatEmptySeq, EmptySeq DEF Conserved
<1>3. Waiting(pusher) = {} /\ Waiting(popper) = {}
  BY DEF Waiting
<1>4. NoLostWakeup
  BY <1>3 DEF NoLostWakeup
<1>5. EndedMeansDrained
  BY DEF EndedMeansDrained
<1> QED
  BY <1>1, <1>2, <1>4, <1>5 DEF IInv

(* Every step keeps the types.                                             *)
LEMMA TypeStep == TypeOK /\ [Next]_vars => TypeOK'
<1> SUFFICES ASSUME TypeOK, [Next]_vars PROVE TypeOK'
  OBVIOUS
<1> USE DEF TypeOK, history
<1>0. "ready" \in PusherStates /\ "ready" \in PopperStates
  BY DEF PusherStates, PopperStates
<1>1. ASSUME NEW p \in Pushers, NEW v \in Items, CallPush(p, v) PROVE TypeOK'
  BY <1>0, <1>1 DEF CallPush
<1>2. ASSUME NEW p \in Pushers, PushWait(p) PROVE TypeOK'
  BY <1>2 DEF PushWait, PusherStates
<1>3. ASSUME NEW p \in Pushers, PushRefused(p) PROVE TypeOK'
  BY <1>3 DEF PushRefused, PusherStates
<1>4. ASSUME NEW p \in Pushers, PushAccept(p) PROVE TypeOK'
  <2>1. popper' \in [Poppers -> PopperStates]
    BY <1>0, <1>4, QueueAssumption, NotifyOneEffect DEF PushAccept
  <2>2. pusher' \in [Pushers -> PusherStates]
    BY <1>4 DEF PushAccept, PusherStates
  <2>3. q' \in Seq(Items) /\ accepted' \in Seq(Items)
    BY <1>4, AppendProperties DEF PushAccept
  <2> QED
    BY <1>4, <2>1, <2>2, <2>3 DEF PushAccept
<1>5. ASSUME NEW c \in Poppers, CallPop(c) PROVE TypeOK'
  BY <1>0, <1>5 DEF CallPop
<1>6. ASSUME NEW c \in Poppers, PopWait(c) PROVE TypeOK'
  BY <1>6 DEF PopWait, PopperStates
<1>7. ASSUME NEW c \in Poppers, PopTake(c) PROVE TypeOK'
  <2>1. pusher' \in [Pushers -> PusherStates]
    BY <1>0, <1>7, QueueAssumption, NotifyOneEffect DEF PopTake
  <2>2. popper' \in [Poppers -> PopperStates]
    BY <1>7 DEF PopTake, PopperStates
  <2>3. q' \in Seq(Items) /\ delivered' \in Seq(Items)
    BY <1>7, HeadTailProperties, AppendProperties DEF PopTake
  <2> QED
    BY <1>7, <2>1, <2>2, <2>3 DEF PopTake
<1>8. ASSUME NEW c \in Poppers, PopEnd(c) PROVE TypeOK'
  BY <1>8 DEF PopEnd, PopperStates
<1>9. CASE Close
  BY <1>0, <1>9, NotifyAllEffect DEF Close
<1>10. CASE Spurious
  BY <1>0, <1>10, QueueAssumption, SpuriousEffect, NotifyOneEffect DEF Spurious
<1>11. CASE UNCHANGED vars
  BY <1>11 DEF vars
<1> QED
  BY <1>1, <1>2, <1>3, <1>4, <1>5, <1>6, <1>7, <1>8, <1>9, <1>10, <1>11
     DEF Next, PushStep, PopStep, Finished

(* A value pushed behind the queued ones comes behind every accepted one.  *)
LEMMA AppendedLast ==
  ASSUME TypeOK, NEW p \in Pushers
  PROVE  Append(delivered \o q, arg[p]) = delivered \o Append(q, arg[p])
<1>1. delivered \in Seq(Items) /\ q \in Seq(Items) /\ arg[p] \in Items
  BY DEF TypeOK
<1> QED
  BY <1>1, AppendBehind, Zenon

(* Only an accepting push and a taking pop touch the values.               *)
LEMMA ConservedStep == TypeOK /\ Conserved /\ [Next]_vars => Conserved'
<1> SUFFICES ASSUME TypeOK, Conserved, [Next]_vars PROVE Conserved'
  OBVIOUS
<1> USE DEF TypeOK, Conserved, history
<1>1. ASSUME NEW p \in Pushers, PushAccept(p) PROVE Conserved'
  <2>1. Len(q') = Len(q) + 1
    BY <1>1, AppendProperties DEF PushAccept
  <2>2. Append(delivered \o q, arg[p]) = delivered \o Append(q, arg[p])
    BY AppendedLast
  <2> QED
    BY <1>1, <2>1, <2>2, QueueAssumption, LenProperties DEF PushAccept
<1>2. ASSUME NEW c \in Poppers, PopTake(c) PROVE Conserved'
  <2>1. Len(q') = Len(q) - 1
    BY <1>2, HeadTailProperties, EmptySeq, LenProperties DEF PopTake
  <2>2. accepted = Append(delivered, Head(q)) \o Tail(q)
    BY <1>2, MoveFront DEF PopTake
  <2> QED
    BY <1>2, <2>1, <2>2, QueueAssumption, LenProperties DEF PopTake
<1>3. CASE UNCHANGED <<q, history>>
  BY <1>3
<1> QED
  BY <1>1, <1>2, <1>3
     DEF Next, vars, CallPush, PushStep, PushWait, PushRefused, CallPop,
         PopStep, PopWait, PopEnd, Close, Spurious, Finished

(* A producer that returns from push takes one from the awake producers.   *)
LEMMA PusherReturns ==
  ASSUME TypeOK, NEW p \in Pushers, pusher[p] = "ready",
         pusher' = [pusher EXCEPT ![p] = "idle"]
  PROVE  /\ Cardinality(Ready(pusher')) = Cardinality(Ready(pusher)) - 1
         /\ Waiting(pusher') = Waiting(pusher)
<1>1. IsFiniteSet(DOMAIN pusher) /\ p \in DOMAIN pusher
  BY QueueAssumption DEF TypeOK
<1>2. "idle" # "ready" /\ "idle" # "waiting"
  OBVIOUS
<1> QED
  BY <1>1, <1>2, LeavesReady, Zenon

(* The same of a consumer that returns from pop with a value.              *)
LEMMA PopperReturns ==
  ASSUME TypeOK, NEW c \in Poppers, popper[c] = "ready",
         popper' = [popper EXCEPT ![c] = "idle"]
  PROVE  /\ Cardinality(Ready(popper')) = Cardinality(Ready(popper)) - 1
         /\ Waiting(popper') = Waiting(popper)
<1>1. IsFiniteSet(DOMAIN popper) /\ c \in DOMAIN popper
  BY QueueAssumption DEF TypeOK
<1>2. "idle" # "ready" /\ "idle" # "waiting"
  OBVIOUS
<1> QED
  BY <1>1, <1>2, LeavesReady, Zenon

(* The same of a consumer that leaves its loop for good.                   *)
LEMMA PopperEnds ==
  ASSUME TypeOK, NEW c \in Poppers, popper[c] = "ready",
         popper' = [popper EXCEPT ![c] = "ended"]
  PROVE  Waiting(popper') = Waiting(popper)
<1>1. IsFiniteSet(DOMAIN popper) /\ c \in DOMAIN popper
  BY QueueAssumption DEF TypeOK
<1>2. "ended" # "ready" /\ "ended" # "waiting"
  OBVIOUS
<1> QED
  BY <1>1, <1>2, LeavesReady, Zenon

(* The counts of awake threads keep up with the queue: every step that     *)
(* adds a value or frees a place wakes a waiter, and every thread that     *)
(* goes to sleep has just seen that it has nothing to do.                  *)
LEMMA NoLostWakeupStep ==
  TypeOK /\ NoLostWakeup /\ [Next]_vars => NoLostWakeup'
<1> SUFFICES ASSUME TypeOK, NoLostWakeup, [Next]_vars PROVE NoLostWakeup'
  OBVIOUS
<1> USE DEF NoLostWakeup, history
<1>t. /\ q \in Seq(Items) /\ Len(q) \in Nat /\ Cap \in Nat
      /\ closed \in BOOLEAN /\ closed' \in BOOLEAN
  BY TypeStep, QueueAssumption, LenProperties DEF TypeOK
<1>p. /\ pusher \in [Pushers -> PusherStates]
      /\ pusher' \in [Pushers -> PusherStates]
      /\ "ready" \in PusherStates
      /\ IsFiniteSet(Pushers)
  BY TypeStep, QueueAssumption DEF TypeOK, PusherStates
<1>c. /\ popper \in [Poppers -> PopperStates]
      /\ popper' \in [Poppers -> PopperStates]
      /\ "ready" \in PopperStates
      /\ IsFiniteSet(Poppers)
  BY TypeStep, QueueAssumption DEF TypeOK, PopperStates
<1>f. /\ Cardinality(Ready(pusher)) \in Nat
      /\ Cardinality(Ready(popper)) \in Nat
  BY <1>p, <1>c, ReadyIsFinite
<1>1. ASSUME NEW p \in Pushers, NEW v \in Items, CallPush(p, v)
      PROVE  NoLostWakeup'
  <2>1. /\ Cardinality(Ready(pusher')) = Cardinality(Ready(pusher)) + 1
        /\ Waiting(pusher') \subseteq Waiting(pusher)
    BY <1>1, <1>p, BecomesReady DEF CallPush
  <2>2. UNCHANGED <<q, closed, popper>>
    BY <1>1 DEF CallPush
  <2> QED
    BY <1>t, <1>f, <2>1, <2>2
<1>2. ASSUME NEW p \in Pushers, PushWait(p) PROVE NoLostWakeup'
  <2>1. Cardinality(Ready(pusher')) \in Nat
    BY <1>2, <1>p, ReadyIsFinite DEF PushWait
  <2> QED
    BY <1>2, <1>t, <1>f, <2>1 DEF PushWait
<1>3. ASSUME NEW p \in Pushers, PushRefused(p) PROVE NoLostWakeup'
  <2>1. Waiting(pusher') = Waiting(pusher)
    BY <1>3, PusherReturns DEF PushRefused
  <2> QED
    BY <1>3, <2>1 DEF PushRefused
<1>4. ASSUME NEW p \in Pushers, PushAccept(p) PROVE NoLostWakeup'
  <2>1. /\ Cardinality(Ready(pusher')) = Cardinality(Ready(pusher)) - 1
        /\ Waiting(pusher') = Waiting(pusher)
    BY <1>4, PusherReturns DEF PushAccept
  <2>2. /\ Waiting(popper') \subseteq Waiting(popper)
        /\ Waiting(popper) # {} =>
             Cardinality(Ready(popper')) = Cardinality(Ready(popper)) + 1
    BY <1>4, <1>c, NotifyOneEffect DEF PushAccept
  <2>3. Len(q') = Len(q) + 1
    BY <1>4, AppendProperties DEF PushAccept, TypeOK
  <2> QED
    BY <1>4, <1>t, <1>f, <2>1, <2>2, <2>3 DEF PushAccept
<1>5. ASSUME NEW c \in Poppers, CallPop(c) PROVE NoLostWakeup'
  <2>1. /\ Cardinality(Ready(popper')) = Cardinality(Ready(popper)) + 1
        /\ Waiting(popper') \subseteq Waiting(popper)
    BY <1>5, <1>c, BecomesReady DEF CallPop
  <2>2. UNCHANGED <<q, closed, pusher>>
    BY <1>5 DEF CallPop
  <2> QED
    BY <1>t, <1>f, <2>1, <2>2
<1>6. ASSUME NEW c \in Poppers, PopWait(c) PROVE NoLostWakeup'
  <2>1. Cardinality(Ready(popper')) \in Nat
    BY <1>6, <1>c, ReadyIsFinite DEF PopWait
  <2>2. Len(q) = 0
    BY <1>6, EmptySeq DEF PopWait
  <2> QED
    BY <1>6, <1>t, <1>f, <2>1, <2>2 DEF PopWait
<1>7. ASSUME NEW c \in Poppers, PopTake(c) PROVE NoLostWakeup'
  <2>1. /\ Cardinality(Ready(popper')) = Cardinality(Ready(popper)) - 1
        /\ Waiting(popper') = Waiting(popper)
    BY <1>7, PopperReturns DEF PopTake
  <2>2. /\ Waiting(pusher') \subseteq Waiting(pusher)
        /\ Waiting(pusher) # {} =>
             Cardinality(Ready(pusher')) = Cardinality(Ready(pusher)) + 1
    BY <1>7, <1>p, NotifyOneEffect DEF PopTake
  <2>3. Len(q') = Len(q) - 1
    BY <1>7, <1>t, HeadTailProperties, EmptySeq DEF PopTake
  <2>4. closed' = closed
    BY <1>7 DEF PopTake
  <2> QED
    BY <1>t, <1>f, <2>1, <2>2, <2>3, <2>4
<1>8. ASSUME NEW c \in Poppers, PopEnd(c) PROVE NoLostWakeup'
  <2>1. Waiting(popper') = Waiting(popper)
    BY <1>8, PopperEnds DEF PopEnd
  <2> QED
    BY <1>8, <2>1 DEF PopEnd
<1>9. CASE Close
  BY <1>9, <1>p, <1>c, NotifyAllEffect DEF Close
<1>10. CASE Spurious
  <2>1. CASE pusher' \in SpuriousWakeup(pusher) /\ UNCHANGED popper
    <3>1. /\ Waiting(pusher') \subseteq Waiting(pusher)
          /\ Waiting(pusher) # {}
          /\ Cardinality(Ready(pusher')) = Cardinality(Ready(pusher)) + 1
      BY <2>1, <1>p, SpuriousEffect, NotifyOneEffect
    <3> QED
      BY <1>10, <1>t, <1>f, <2>1, <3>1 DEF Spurious
  <2>2. CASE popper' \in SpuriousWakeup(popper) /\ UNCHANGED pusher
    <3>1. /\ Waiting(popper') \subseteq Waiting(popper)
          /\ Waiting(popper) # {}
          /\ Cardinality(Ready(popper')) = Cardinality(Ready(popper)) + 1
      BY <2>2, <1>c, SpuriousEffect, NotifyOneEffect
    <3> QED
      BY <1>10, <1>t, <1>f, <2>2, <3>1 DEF Spurious
  <2> QED
    BY <1>10, <2>1, <2>2 DEF Spurious
<1>11. CASE UNCHANGED vars
  BY <1>11 DEF vars
<1> QED
  BY <1>1, <1>2, <1>3, <1>4, <1>5, <1>6, <1>7, <1>8, <1>9, <1>10, <1>11
     DEF Next, PushStep, PopStep, Finished

(* No notification ends a consumer or brings an ended one back.            *)
LEMMA EndedKept ==
  ASSUME TypeOK,
         \/ popper' \in NotifyOne(popper)
         \/ popper' \in SpuriousWakeup(popper)
         \/ popper' = NotifyAll(popper)
         \/ popper' = popper
  PROVE  {c \in Poppers : popper[c] = "ended"}' =
           {c \in Poppers : popper[c] = "ended"}
<1>1. "ready" \in PopperStates /\ popper \in [Poppers -> PopperStates]
  BY DEF PopperStates, TypeOK
<1>2. CASE popper' = popper
  BY <1>2
<1>3. CASE popper' \in NotifyOne(popper) \cup SpuriousWakeup(popper)
                       \cup {NotifyAll(popper)}
  <2> DEFINE same(g) == {t \in Poppers : g[t] = "ended"} =
                           {t \in Poppers : popper[t] = "ended"}
  <2>1. \A g \in NotifyOne(popper) \cup SpuriousWakeup(popper)
                  \cup {NotifyAll(popper)} : same(g)
    <3>1. "ended" \notin {"waiting", "ready"}
      OBVIOUS
    <3> QED
      BY <1>1, <3>1, QueueAssumption, NotifyKeepsOthers
  <2>2. same(popper')
    BY <1>3, <2>1
  <2> QED
    BY <2>2
<1> QED
  BY <1>2, <1>3

(* A step makes a consumer end only after close() and on an empty queue,   *)
(* and afterwards no push is accepted.                                     *)
LEMMA EndedStep ==
  TypeOK /\ EndedMeansDrained /\ [Next]_vars => EndedMeansDrained'
<1> SUFFICES ASSUME TypeOK, EndedMeansDrained, [Next]_vars
             PROVE  EndedMeansDrained'
  OBVIOUS
<1> DEFINE ended == {c \in Poppers : popper[c] = "ended"}
<1> USE DEF history
<1>d. /\ EndedMeansDrained <=> (ended # {} => closed /\ q = <<>>)
      /\ EndedMeansDrained' <=> (ended' # {} => closed' /\ q' = <<>>)
  BY DEF EndedMeansDrained
<1>1. ASSUME NEW p \in Pushers, PushAccept(p) PROVE EndedMeansDrained'
  <2>1. ended' = ended
    BY <1>1, EndedKept DEF PushAccept
  <2> QED
    BY <1>1, <1>d, <2>1 DEF PushAccept
<1>2. ASSUME NEW c \in Poppers, PopTake(c) PROVE EndedMeansDrained'
  <2>1. ended' = ended
    BY <1>2 DEF PopTake, TypeOK
  <2> QED
    BY <1>2, <1>d, <2>1 DEF PopTake
<1>3. ASSUME NEW c \in Poppers, PopEnd(c) PROVE EndedMeansDrained'
  BY <1>3 DEF PopEnd, EndedMeansDrained
<1>4. CASE Close
  <2>1. ended' = ended
    BY <1>4, EndedKept DEF Close
  <2> QED
    BY <1>4, <1>d, <2>1 DEF Close
<1>5. CASE Spurious
  <2>1. ended' = ended
    BY <1>5, EndedKept DEF Spurious
  <2> QED
    BY <1>5, <1>d, <2>1 DEF Spurious
<1>6. ASSUME NEW c \in Poppers, CallPop(c) \/ PopWait(c)
      PROVE  EndedMeansDrained'
  <2>1. ended' = ended
    BY <1>6 DEF CallPop, PopWait, TypeOK
  <2> QED
    BY <1>6, <1>d, <2>1 DEF CallPop, PopWait
<1>7. CASE UNCHANGED <<q, closed, popper>>
  BY <1>7 DEF EndedMeansDrained
<1> QED
  BY <1>1, <1>2, <1>3, <1>4, <1>5, <1>6, <1>7
     DEF Next, vars, CallPush, PushStep, PushWait, PushRefused, PopStep, Finished

-----------------------------------------------------------------------------
(* The invariant is inductive.                                             *)
THEOREM Invariance == Spec => []IInv
<1>1. Init => IInv
  BY InitIInv
<1>2. IInv /\ [Next]_vars => IInv'
  BY TypeStep, ConservedStep, NoLostWakeupStep, EndedStep DEF IInv
<1> QED
  BY <1>1, <1>2, PTL DEF Spec

(* The variables of BoundedQueue have their types.                         *)
THEOREM TypeCorrect == Spec => []TypeOK
<1>1. IInv => TypeOK
  BY DEF IInv
<1> QED
  BY <1>1, Invariance, PTL

(* push and pop lose, duplicate and reorder no value and keep to cap_.     *)
THEOREM ValuesConserved == Spec => []Conserved
<1>1. IInv => Conserved
  BY DEF IInv
<1> QED
  BY <1>1, Invariance, PTL

(* One notify_one per push and per pop is enough: no thread sleeps while   *)
(* there is work or room that no awake thread will take.                   *)
THEOREM WakeupsSuffice == Spec => []NoLostWakeup
<1>1. IInv => NoLostWakeup
  BY DEF IInv
<1> QED
  BY <1>1, Invariance, PTL

(* nullopt means closed and drained, for good.                             *)
THEOREM EndIsFinal == Spec => []EndedMeansDrained
<1>1. IInv => EndedMeansDrained
  BY DEF IInv
<1> QED
  BY <1>1, Invariance, PTL

-----------------------------------------------------------------------------
(* An empty queue is an empty channel.                                     *)
LEMMA InitRefines == Init => Fifo!Init
BY DEF Init, Fifo!Init

(* An accepting push is a Send, a taking pop a Receive, a pop that returns *)
(* nullopt an EndOfStream; all the waiting and waking stutters.            *)
LEMMA StepRefines == IInv /\ [Next]_vars => [Fifo!Next]_(Fifo!vars)
<1> SUFFICES ASSUME IInv, [Next]_vars PROVE [Fifo!Next]_(Fifo!vars)
  OBVIOUS
<1> DEFINE ended == {c \in Poppers : popper[c] = "ended"}
<1> USE DEF IInv, history
<1>t. /\ q \in Seq(Items) /\ delivered \in Seq(Items)
      /\ accepted \in Seq(Items)
      /\ Len(q) \in Nat /\ Len(delivered) \in Nat /\ Cap \in Nat
      /\ Len(accepted) = Len(delivered) + Len(q)
      /\ "ready" \in PusherStates /\ "ready" \in PopperStates
  BY QueueAssumption, LenProperties, ConcatProperties
     DEF TypeOK, Conserved, PusherStates, PopperStates
<1>1. ASSUME NEW p \in Pushers, PushAccept(p) PROVE Fifo!Next
  <2>1. ended' = ended
    BY <1>1, EndedKept DEF PushAccept
  <2>2. Len(accepted) < Len(delivered) + Cap /\ arg[p] \in Items
    BY <1>1, <1>t DEF PushAccept, TypeOK
  <2>3. Fifo!Send(arg[p])
    BY <1>1, <2>1, <2>2 DEF PushAccept, Fifo!Send
  <2> QED
    BY <2>2, <2>3 DEF Fifo!Next
<1>2. ASSUME NEW c \in Poppers, PopTake(c) PROVE Fifo!Next
  <2>1. ended' = ended /\ c \notin ended
    BY <1>2 DEF PopTake, TypeOK
  <2>2. /\ Len(delivered) < Len(accepted)
        /\ accepted[Len(delivered) + 1] = Head(q)
    BY <1>2, <1>t, MoveFront DEF PopTake, Conserved
  <2>3. Fifo!Receive(c)
    BY <1>2, <2>1, <2>2 DEF PopTake, Fifo!Receive
  <2> QED
    BY <2>3 DEF Fifo!Next
<1>3. ASSUME NEW c \in Poppers, PopEnd(c) PROVE Fifo!Next
  <2>1. ended' = ended \cup {c}
    BY <1>3 DEF PopEnd, TypeOK
  <2>2. Len(accepted) = Len(delivered)
    BY <1>3, <1>t, EmptySeq DEF PopEnd
  <2>3. Fifo!EndOfStream(c)
    BY <1>3, <2>1, <2>2 DEF PopEnd, Fifo!EndOfStream
  <2> QED
    BY <2>3 DEF Fifo!Next
<1>4. CASE Close
  <2>1. ended' = ended
    BY <1>4, EndedKept DEF Close
  <2> QED
    BY <1>4, <2>1 DEF Close, Fifo!Close, Fifo!Next
<1>5. CASE Spurious
  <2>1. ended' = ended
    BY <1>5, EndedKept DEF Spurious
  <2> QED
    BY <1>5, <2>1 DEF Spurious, Fifo!vars
<1>6. ASSUME NEW c \in Poppers, CallPop(c) \/ PopWait(c)
      PROVE  UNCHANGED Fifo!vars
  <2>1. ended' = ended
    BY <1>6 DEF CallPop, PopWait, TypeOK
  <2> QED
    BY <1>6, <2>1 DEF CallPop, PopWait, Fifo!vars
<1>7. CASE UNCHANGED <<closed, popper, history>>
  BY <1>7 DEF Fifo!vars
<1> QED
  BY <1>1, <1>2, <1>3, <1>4, <1>5, <1>6, <1>7
     DEF Next, vars, CallPush, PushStep, PushWait, PushRefused, PopStep, Finished

(* The monitor of BoundedQueue.hpp implements the bounded channel.         *)
THEOREM Refinement == Spec => ImplementsFifo
<1>1. Init => Fifo!Init
  BY InitRefines
<1>2. IInv /\ [Next]_vars => [Fifo!Next]_(Fifo!vars)
  BY StepRefines
<1> QED
  BY <1>1, <1>2, Invariance, PTL DEF Spec, ImplementsFifo, Fifo!Spec

=============================================================================
