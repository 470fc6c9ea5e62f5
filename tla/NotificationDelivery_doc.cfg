\* No fault at all: the task may run before the row is committed.
SPECIFICATION Spec
CONSTANTS
    Events = {e1}
    Garbage = Garbage
    Ids <- MCIds
    NoRow = NoRow
    Workers = {w1}
    NoTask = NoTask
    MaxRetries = 1
    MaxLength = 1
    Faults = {}
    MaxFaults = 0
INVARIANTS
    TaskFindsItsRow
