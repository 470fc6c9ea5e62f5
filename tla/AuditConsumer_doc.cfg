\* One statement of the database fails: is the event delivered again?
SPECIFICATION Spec
CONSTANTS
    Events <- MCEvents
    Partitions <- MCPartitions
    PartitionOf <- MCPartitionOf
    Garbage = Garbage
    MaxLength = 2
    Faults = {"database"}
    MaxFaults = 1
INVARIANTS
    CommittedIsAudited
