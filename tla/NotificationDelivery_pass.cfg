\* One event, delivered twice at least; two workers, every kind of fault, at most two.
SPECIFICATION FairSpec
CONSTANTS
    Events = {e1}
    Garbage = Garbage
    Ids <- MCIds
    NoRow = NoRow
    Workers = {w1, w2}
    NoTask = NoTask
    MaxRetries = 1
    MaxLength = 2
    Faults = {"database", "redis", "commit", "crash", "smtp", "timeout", "worker", "child"}
    MaxFaults = 2
INVARIANTS
    TypeOK
    MailIsForOneRowPerEvent
    RecordsAreTrue
    OneMailUnlessRedone
    PassedIsStoredOrFailed
PROPERTIES
    StoredIsSentOrGivenUp
