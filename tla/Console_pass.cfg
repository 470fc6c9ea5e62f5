\* One tab and other clients on one claim; two windows of one browser; two lists;
\* three rows of the overview.
SPECIFICATION ConsoleSpec
CONSTANTS
    Claims = {c1}
    Workers = {w1, w2}
    Amounts = {low}
    NoAmount = NoAmount
    NoJob = NoJob
    MaxRows = 5
    Tabs = {t1}
    NoPage = NoPage
    NoForm = NoForm
    NoRender = NoRender
    NoPost = NoPost
    Windows = {v1, v2}
    Fetches = {f1, f2}
    Users = {u1, u2}
    Nobody = Nobody
    MaxLogins = 2
    Writers = {a1, a2}
    Readers = {r1, r2}
    CursorReaders = {r1}
    PageSize = 2
    MaxStamps = 4
    Items = {i1, i2, i3}
    Absent = Absent
SYMMETRY MCSymmetry
INVARIANTS
    ConsoleTypeOK
    ClaimFollowsHistory
    OutboxFollowsHistory
    SavingMeansOneRequest
    ToastsAreTrue
    PageExplainsItsStatus
    StaleFormMovesNothing
    LogoutsAfter401AreLate
    WrongNameIsFromBefore
    NothingIsSkipped
    NumbersAgree
PROPERTY
    ForwardUnlessOvertaken
