\* One policy, two writers of it, two threads that file claims on it.
SPECIFICATION Spec
CONSTANTS
    Policies = {p1}
    Callers = {t1, t2}
    Dates <- MCDates
    Patches <- MCPatches
    NoPolicy = NoPolicy
    NoRequest = NoRequest
    MaxEvents = 2
    Filers = {f1, f2}
    Processes = {q1}
    ProcessOf <- MCProcessOf
    FailMax = 2
    MaxClaims = 2
SYMMETRY Alike
INVARIANTS
    TypeOK
    CancelledOnce
    FieldsKeepLastPatch
    NumbersAreConsecutive
    NoClaimOnKnownCancellation
PROPERTIES
    EventsDescribeTheRow
    OpensOnFailuresOnly
