\* Every kind of fault, at most two faults.
SPECIFICATION FairSpec
CONSTANTS
    Events <- MCEvents
    Partitions <- MCPartitions
    PartitionOf <- MCPartitionOf
    Garbage = Garbage
    MaxLength = 2
    Faults = {"database", "connection", "redis", "commit", "crash"}
    MaxFaults = 2
INVARIANTS
    TypeOK
    PassedIsSavedOrFailed
    FeedFollowsTable
PROPERTIES
    EveryEventIsAuditedOrFailed
