------------------------- MODULE ClaimStatusMachine -------------------------
(***************************************************************************)
(* What the claims service promises about the status of a claim, whatever  *)
(* the number of requests in flight: every claim goes forward through the  *)
(* four stages of its life one stage at a time.  It is reported, put under *)
(* review, decided once (approved or rejected) and resolved for good.      *)
(*                                                                         *)
(* The promise is stated by stages and not by the table of transitions of  *)
(* the code, so that an edge added to the table or an overwritten status   *)
(* is caught by the refinement and not copied into it.                     *)
(***************************************************************************)
EXTENDS Naturals

CONSTANT Claims

VARIABLE status     \* status[c]: what the claims table shows for claim c

Status == {"FILED", "UNDER_REVIEW", "APPROVED", "REJECTED", "RESOLVED"}

Stage == [s \in Status |->
            CASE s = "FILED"                   -> 1
              [] s = "UNDER_REVIEW"            -> 2
              [] s \in {"APPROVED", "REJECTED"} -> 3
              [] s = "RESOLVED"                -> 4]

Init == status = [c \in Claims |-> "FILED"]

Advance(c) ==
    \E to \in Status :
        /\ Stage[to] = Stage[status[c]] + 1
        /\ status' = [status EXCEPT ![c] = to]

Next == \E c \in Claims : Advance(c)

Spec == Init /\ [][Next]_status
=============================================================================
