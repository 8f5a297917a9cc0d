----------------------------- MODULE BoundedFifo -----------------------------
(***************************************************************************)
(* What BoundedQueue<T> promises to the threads of the scan, without       *)
(* mutex, condition variables or a queue: a bounded channel that can be    *)
(* closed.  `sent' is the history of the accepted values and `rcvd' of the *)
(* values handed to consumers.  A consumer is told the end of the stream   *)
(* only when the channel is "closed & drained".                            *)
(***************************************************************************)
EXTENDS Naturals, Sequences

CONSTANTS Poppers, Items, Cap

VARIABLES sent, rcvd, closed, ended

vars == <<sent, rcvd, closed, ended>>

Init ==
  /\ sent = <<>>
  /\ rcvd = <<>>
  /\ closed = FALSE
  /\ ended = {}

Send(v) ==
  /\ ~closed
  /\ Len(sent) < Len(rcvd) + Cap
  /\ sent' = Append(sent, v)
  /\ UNCHANGED <<rcvd, closed, ended>>

Receive(c) ==
  /\ c \notin ended
  /\ Len(rcvd) < Len(sent)
  /\ rcvd' = Append(rcvd, sent[Len(rcvd) + 1])
  /\ UNCHANGED <<sent, closed, ended>>

EndOfStream(c) ==
  /\ closed
  /\ Len(rcvd) = Len(sent)
  /\ ended' = ended \cup {c}
  /\ UNCHANGED <<sent, rcvd, closed>>

Close ==
  /\ closed' = TRUE
  /\ UNCHANGED <<sent, rcvd, ended>>

Next ==
  \/ \E v \in Items : Send(v)
  \/ \E c \in Poppers : Receive(c) \/ EndOfStream(c)
  \/ Close

Spec == Init /\ [][Next]_vars

=============================================================================
