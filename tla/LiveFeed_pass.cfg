\* Two clients of one tab, and three broadcasts more than the store holds.
SPECIFICATION FairSpec
CONSTANTS
    Clients = {k1, k2}
    NoClient = NoClient
    MaxFeed = 2
    MaxAired = 5
INVARIANTS
    TypeOK
    FeedInBroadcastOrder
    LiveMissesNothing
PROPERTIES
    ReopensWhileMounted
