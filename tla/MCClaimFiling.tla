--------------------------- MODULE MCClaimFiling ---------------------------
(* Bodies of PATCH that change one date, in and out of order, or both; two  *)
(* threads of claims-service in one worker process.                         *)
EXTENDS ClaimFiling, TLC

MCDates == {1, 2}
MCPatches == {[start |-> 2], [end |-> 1], [start |-> 1, end |-> 2], [start |-> 2, end |-> 1]}
MCProcessOf == [f \in Filers |-> CHOOSE q \in Processes : TRUE]

Alike == Permutations(Callers) \cup Permutations(Filers)
=============================================================================
