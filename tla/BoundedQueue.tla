---------------------------- MODULE BoundedQueue ----------------------------
(***************************************************************************)
(* BoundedQueue<T> of BoundedQueue.hpp at the grain of its mutex: push,    *)
(* pop and close, the two condition variables notFull_ and notEmpty_, and  *)
(* the clients the scan gives it: producers that push, consumers that pop  *)
(* until they are told the end of the stream, and one call of close().     *)
(***************************************************************************)
EXTENDS Integers, Sequences, FiniteSets, CondVar

CONSTANTS
  Pushers,   \* threads that call push()
  Poppers,   \* threads that call pop() in a loop
  Items,     \* the values, each pushed at most once
  Cap        \* cap_: 64 for a worker queue, threads * 64 for the reader queue

ASSUME QueueAssumption ==
  /\ Cap \in Nat \ {0}
  /\ IsFiniteSet(Pushers)
  /\ IsFiniteSet(Poppers)

VARIABLES
  q,          \* q_
  closed,     \* closed_
  pusher,     \* state of every pushing thread; "waiting" is on notFull_
  popper,     \* state of every popping thread; "waiting" is on notEmpty_
  arg,        \* the argument of a pusher's latest call
  unsent,     \* values no thread has pushed yet
  accepted,   \* history: values put in q_, in order
  delivered   \* history: values returned by pop(), in order

vars == <<q, closed, pusher, popper, arg, unsent, accepted, delivered>>
history == <<accepted, delivered>>

PusherStates == {"idle", "ready", "waiting"}
PopperStates == {"idle", "ready", "waiting", "ended"}

TypeOK ==
  /\ q \in Seq(Items)
  /\ closed \in BOOLEAN
  /\ pusher \in [Pushers -> PusherStates]
  /\ popper \in [Poppers -> PopperStates]
  /\ arg \in [Pushers -> Items]
  /\ unsent \in SUBSET Items
  /\ accepted \in Seq(Items)
  /\ delivered \in Seq(Items)

Init ==
  /\ q = <<>>
  /\ closed = FALSE
  /\ pusher = [p \in Pushers |-> "idle"]
  /\ popper = [c \in Poppers |-> "idle"]
  /\ arg \in [Pushers -> Items]
  /\ unsent = Items
  /\ accepted = <<>>
  /\ delivered = <<>>

-----------------------------------------------------------------------------
(* void push(T v)                                                          *)

CallPush(p, v) ==
  /\ pusher[p] = "idle"
  /\ v \in unsent
  /\ pusher' = [pusher EXCEPT ![p] = "ready"]
  /\ arg' = [arg EXCEPT ![p] = v]
  /\ unsent' = unsent \ {v}
  /\ UNCHANGED <<q, closed, popper, history>>

PushWait(p) ==
  /\ pusher[p] = "ready"
  /\ ~(Len(q) < Cap \/ closed)
  /\ pusher' = [pusher EXCEPT ![p] = "waiting"]
  /\ UNCHANGED <<q, closed, popper, arg, unsent, history>>

PushRefused(p) ==
  /\ pusher[p] = "ready"
  /\ closed
  /\ pusher' = [pusher EXCEPT ![p] = "idle"]
  /\ UNCHANGED <<q, closed, popper, arg, unsent, history>>

(* Faulty: one value too many fits.                                        *)
PushAcceptOffByOne(p) ==
  /\ pusher[p] = "ready"
  /\ Len(q) <= Cap
  /\ ~closed
  /\ q' = Append(q, arg[p])
  /\ accepted' = Append(accepted, arg[p])
  /\ pusher' = [pusher EXCEPT ![p] = "idle"]
  /\ popper' \in NotifyOne(popper)
  /\ UNCHANGED <<closed, arg, unsent, delivered>>

(* Faulty: notifies the producers.                                         *)
PushAcceptNotFull(p) ==
  /\ pusher[p] = "ready"
  /\ Len(q) < Cap
  /\ ~closed
  /\ q' = Append(q, arg[p])
  /\ accepted' = Append(accepted, arg[p])
  /\ pusher' \in NotifyOne([pusher EXCEPT ![p] = "idle"])
  /\ UNCHANGED <<closed, popper, arg, unsent, delivered>>

(* Faulty: `if (closed_) return' is missing.                               *)
PushAcceptClosed(p) ==
  /\ pusher[p] = "ready"
  /\ Len(q) < Cap
  /\ q' = Append(q, arg[p])
  /\ accepted' = Append(accepted, arg[p])
  /\ pusher' = [pusher EXCEPT ![p] = "idle"]
  /\ popper' \in NotifyOne(popper)
  /\ UNCHANGED <<closed, arg, unsent, delivered>>

(* Faulty: notify_one is missing.                                          *)
PushAcceptSilent(p) ==
  /\ pusher[p] = "ready"
  /\ Len(q) < Cap
  /\ ~closed
  /\ q' = Append(q, arg[p])
  /\ accepted' = Append(accepted, arg[p])
  /\ pusher' = [pusher EXCEPT ![p] = "idle"]
  /\ UNCHANGED <<closed, popper, arg, unsent, delivered>>

PushAccept(p) ==
  /\ pusher[p] = "ready"
  /\ Len(q) < Cap
  /\ ~closed
  /\ q' = Append(q, arg[p])
  /\ accepted' = Append(accepted, arg[p])
  /\ pusher' = [pusher EXCEPT ![p] = "idle"]
  /\ popper' \in NotifyOne(popper)
  /\ UNCHANGED <<closed, arg, unsent, delivered>>

-----------------------------------------------------------------------------
(* std::optional<T> pop()                                                  *)

CallPop(c) ==
  /\ popper[c] = "idle"
  /\ popper' = [popper EXCEPT ![c] = "ready"]
  /\ UNCHANGED <<q, closed, pusher, arg, unsent, history>>

(* Faulty: an empty queue yields a default-constructed value.              *)
PopWaitNever(c) ==
  /\ popper[c] = "ready"
  /\ ~(q # <<>> \/ closed)
  /\ Len(delivered) < Cap
  /\ popper' = [popper EXCEPT ![c] = "idle"]
  /\ delivered' = Append(delivered, "default")
  /\ UNCHANGED <<q, closed, pusher, arg, unsent, accepted>>

PopWait(c) ==
  /\ popper[c] = "ready"
  /\ ~(q # <<>> \/ closed)
  /\ popper' = [popper EXCEPT ![c] = "waiting"]
  /\ UNCHANGED <<q, closed, pusher, arg, unsent, history>>

PopTake(c) ==
  /\ popper[c] = "ready"
  /\ q # <<>>
  /\ q' = Tail(q)
  /\ delivered' = Append(delivered, Head(q))
  /\ popper' = [popper EXCEPT ![c] = "idle"]
  /\ pusher' \in NotifyOne(pusher)
  /\ UNCHANGED <<closed, arg, unsent, accepted>>

(* Faulty: looks at closed_ before it looks at the queue.                  *)
PopEndEarly(c) ==
  /\ popper[c] = "ready"
  /\ closed
  /\ popper' = [popper EXCEPT ![c] = "ended"]
  /\ UNCHANGED <<q, closed, pusher, arg, unsent, history>>

(* pop() returns nullopt and the caller leaves its loop.                   *)
PopEnd(c) ==
  /\ popper[c] = "ready"
  /\ q = <<>>
  /\ closed
  /\ popper' = [popper EXCEPT ![c] = "ended"]
  /\ UNCHANGED <<q, closed, pusher, arg, unsent, history>>

-----------------------------------------------------------------------------

(* Faulty: wakes the consumers only.                                       *)
CloseForConsumers ==
  /\ ~closed
  /\ closed' = TRUE
  /\ popper' = NotifyAll(popper)
  /\ UNCHANGED <<q, pusher, arg, unsent, history>>

Close ==
  /\ ~closed
  /\ closed' = TRUE
  /\ popper' = NotifyAll(popper)
  /\ pusher' = NotifyAll(pusher)
  /\ UNCHANGED <<q, arg, unsent, history>>

Spurious ==
  /\ \/ pusher' \in SpuriousWakeup(pusher) /\ UNCHANGED popper
     \/ popper' \in SpuriousWakeup(popper) /\ UNCHANGED pusher
  /\ UNCHANGED <<q, closed, arg, unsent, history>>

PushStep(p) == PushWait(p) \/ PushRefused(p) \/ PushAccept(p)
PopStep(c) == PopWait(c) \/ PopTake(c) \/ PopEnd(c)

(* Every call has returned and every consumer has left its loop.           *)
Finished ==
  /\ closed
  /\ unsent = {}
  /\ \A p \in Pushers : pusher[p] = "idle"
  /\ \A c \in Poppers : popper[c] = "ended"
  /\ UNCHANGED vars

Next ==
  \/ \E p \in Pushers, v \in Items : CallPush(p, v)
  \/ \E p \in Pushers : PushStep(p)
  \/ \E c \in Poppers : CallPop(c)
  \/ \E c \in Poppers : PopStep(c)
  \/ Close
  \/ Spurious
  \/ Finished

(* A thread inside a call is scheduled again and gets the mutex again; a   *)
(* consumer calls pop() again after each value.  Nothing is assumed of the *)
(* callers of push() and close(), nor of spurious wake-ups.                *)
Fairness ==
  /\ \A p \in Pushers : WF_vars(PushStep(p))
  /\ \A c \in Poppers : WF_vars(PopStep(c)) /\ WF_vars(CallPop(c))

Spec == Init /\ [][Next]_vars /\ Fairness

-----------------------------------------------------------------------------
(* The queue never holds more than cap_ values and loses, duplicates and   *)
(* reorders none between push and pop, whatever the interleaving.          *)
Conserved ==
  /\ Len(q) <= Cap
  /\ accepted = delivered \o q

(* No lost wake-up.  push and pop notify one waiter each, so while some    *)
(* consumer waits there must be at least as many awake consumers as queued *)
(* values (and dually for producers and free places); after close() nobody *)
(* waits at all.  A notify issued under the wrong condition breaks this    *)
(* several steps before any thread is stuck.                               *)
NoLostWakeup ==
  /\ Waiting(popper) # {} => Len(q) <= Cardinality(Ready(popper))
  /\ Waiting(pusher) # {} => Cap - Len(q) <= Cardinality(Ready(pusher))
  /\ closed => Waiting(popper) = {} /\ Waiting(pusher) = {}

(* pop() returns nullopt only when the queue is "closed & drained"         *)
(* (BoundedQueue.hpp:25), and it stays so: no value is left behind a       *)
(* consumer that has gone.                                                 *)
EndedMeansDrained ==
  (\E c \in Poppers : popper[c] = "ended") => closed /\ q = <<>>

(* Every accepted value is returned by some pop() call in the end.         *)
AcceptedIsDelivered ==
  \A v \in Items :
    (\E i \in 1..Len(accepted) : accepted[i] = v)
      ~> (\E i \in 1..Len(delivered) : delivered[i] = v)

(* close() releases everybody: each consumer ends and no producer stays    *)
(* blocked in push().                                                      *)
CloseReleases ==
  /\ \A c \in Poppers : closed ~> popper[c] = "ended"
  /\ \A p \in Pushers : (closed /\ pusher[p] # "idle") ~> pusher[p] = "idle"

(* The monitor implements the bounded channel.                             *)
Fifo == INSTANCE BoundedFifo
          WITH sent <- accepted,
               rcvd <- delivered,
               ended <- {c \in Poppers : popper[c] = "ended"}

ImplementsFifo == Fifo!Spec

=============================================================================
