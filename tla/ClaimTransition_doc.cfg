\* Two threads race on one claim: what the documentation says of the table.
SPECIFICATION Spec
CONSTANTS
    Claims = {c1}
    Workers = {w1, w2}
    Amounts = {low}
    NoAmount = NoAmount
    NoJob = NoJob
    MaxRows = 6
PROPERTY
    StatusFollowsTable
