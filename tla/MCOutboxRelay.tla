--------------------------- MODULE MCOutboxRelay ---------------------------
(* Instances of OutboxRelay for TLC: three rows, two of them in one stream. *)
EXTENDS OutboxRelay, TLC

MCEvents == 1..3
MCStreams == {"claim-A", "claim-B"}
MCStreamOf == (1 :> "claim-A" @@ 2 :> "claim-B" @@ 3 :> "claim-A")

MCSymmetry == Permutations(Relays)
=============================================================================
