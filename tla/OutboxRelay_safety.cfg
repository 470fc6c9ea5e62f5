\* Two relays, every kind of fault, at most three faults.
SPECIFICATION Spec
CONSTANTS
    Events <- MCEvents
    Streams <- MCStreams
    StreamOf <- MCStreamOf
    Relays = {r1, r2}
    BatchSize = 2
    MaxAttempts = 2
    Faults = {"produce", "crash", "outage", "expire", "resend", "reorder"}
    MaxFaults = 3
SYMMETRY MCSymmetry
INVARIANTS
    TypeOK
    FailedAfterAllAttempts
    PublishedIsAccountedFor
    OneCopyUnlessAgain
