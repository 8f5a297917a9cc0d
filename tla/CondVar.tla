------------------------------- MODULE CondVar -------------------------------
(***************************************************************************)
(* std::condition_variable as BoundedQueue.hpp and BufferPool.hpp use it.  *)
(* A program-counter function f gives the state of the threads that may    *)
(* wait on one condition variable.  A thread blocked in wait() is          *)
(* "waiting"; a thread that holds no mutex and is about to take it and     *)
(* (re-)evaluate its predicate is "ready".  The mutex makes every          *)
(* evaluation of a predicate, with what follows it up to the next wait()   *)
(* or to the unlock, one atomic step of the modules that use this one.     *)
(***************************************************************************)

Waiting(f) == {t \in DOMAIN f : f[t] = "waiting"}

Ready(f) == {t \in DOMAIN f : f[t] = "ready"}

(* notify_one: one waiter, any one, is woken; nothing happens when there   *)
(* is none.  The set of the program counters that may result.              *)
NotifyOne(f) ==
  IF Waiting(f) = {}
    THEN {f}
    ELSE {[f EXCEPT ![t] = "ready"] : t \in Waiting(f)}

(* notify_all.                                                             *)
NotifyAll(f) ==
  [t \in DOMAIN f |-> IF f[t] = "waiting" THEN "ready" ELSE f[t]]

(* wait() may also return without any notification.                        *)
SpuriousWakeup(f) == {[f EXCEPT ![t] = "ready"] : t \in Waiting(f)}

=============================================================================
