----------------------------- MODULE MCReviewUI -----------------------------
EXTENDS ReviewUI

(* In path order: the suspect sorts first but is listed last, so that it   *)
(* and the others move when it is shown or hidden.                         *)
Verdict4 == <<"Suspect", "Corrupt", "Unreadable", "Corrupt">>

=============================================================================
