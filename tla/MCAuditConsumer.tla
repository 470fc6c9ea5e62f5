-------------------------- MODULE MCAuditConsumer --------------------------
(* Instances of AuditConsumer for TLC: two partitions, the first of which   *)
(* has the events of one policy, the second those of another.               *)
EXTENDS AuditConsumer, TLC

MCEvents == {"created-A", "created-B", "cancelled-B"}
MCPartitions == {"p0", "p1"}
MCPartitionOf == ("created-A" :> "p0" @@ "created-B" :> "p1" @@ "cancelled-B" :> "p1")
=============================================================================
