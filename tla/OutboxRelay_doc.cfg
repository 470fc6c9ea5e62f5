\* One relay, an outage longer than message.timeout.ms.
SPECIFICATION FairSpec
CONSTANTS
    Events <- MCEvents
    Streams <- MCStreams
    StreamOf <- MCStreamOf
    Relays = {r1}
    BatchSize = 2
    MaxAttempts = 2
    Faults = {"outage", "expire"}
    MaxFaults = 2
PROPERTIES
    EveryEventArrives
