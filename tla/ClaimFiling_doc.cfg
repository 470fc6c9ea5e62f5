\* A PATCH of one date.
SPECIFICATION Spec
CONSTANTS
    Policies = {p1}
    Callers = {t1}
    Dates <- MCDates
    Patches <- MCPatches
    NoPolicy = NoPolicy
    NoRequest = NoRequest
    MaxEvents = 1
    Filers = {f1}
    Processes = {q1}
    ProcessOf <- MCProcessOf
    FailMax = 2
    MaxClaims = 1
INVARIANTS
    DatesInOrder

