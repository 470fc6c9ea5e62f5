\* One relay, as docker-compose starts it; every kind of fault, at most three.
SPECIFICATION FairSpec
CONSTANTS
    Events <- MCEvents
    Streams <- MCStreams
    StreamOf <- MCStreamOf
    Relays = {r1}
    BatchSize = 2
    MaxAttempts = 2
    Faults = {"produce", "crash", "outage", "expire", "resend", "reorder"}
    MaxFaults = 3
INVARIANTS
    StreamsKeepOrder
PROPERTIES
    EveryRowIsDecided
    PublishedArrivesOrIsLost
