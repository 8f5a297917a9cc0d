---------------------------- MODULE ScanContract ----------------------------
(***************************************************************************)
(* What a scan owes its user, without threads, queues or buffers: every    *)
(* file is finalized at most once, from exactly the bytes it should be     *)
(* judged by, nothing else is, and the scan is over only when every file   *)
(* that is due has been finalized or the user has interrupted it.          *)
(***************************************************************************)
CONSTANTS Paths      \* the paths a report may be filed under

VARIABLES
  expected,           \* the right report of each file that is due; fixed
  reported, interrupted, over

vars == <<expected, reported, interrupted, over>>

Init ==
  /\ reported = [p \in Paths |-> <<>>]
  /\ DOMAIN expected \subseteq Paths
  /\ interrupted = FALSE
  /\ over = FALSE

Report(f) ==
  /\ ~over
  /\ reported[f] = <<>>
  /\ reported' = [reported EXCEPT ![f] = <<expected[f]>>]
  /\ UNCHANGED <<expected, interrupted, over>>

Interrupt ==
  /\ interrupted' = TRUE
  /\ UNCHANGED <<expected, reported, over>>

Finish ==
  /\ interrupted \/ \A f \in DOMAIN expected : reported[f] # <<>>
  /\ over' = TRUE
  /\ UNCHANGED <<expected, reported, interrupted>>

Next == (\E f \in DOMAIN expected : Report(f)) \/ Interrupt \/ Finish

Spec == Init /\ [][Next]_vars

=============================================================================
