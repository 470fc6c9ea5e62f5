-------------------------- MODULE ClaimTransition --------------------------
(***************************************************************************)
(* POST /api/claims/claims/<id>/transition/ of claims-service, executed by *)
(* several request threads over the same claims, history and outbox tables.*)
(*                                                                         *)
(* One request goes through                                                *)
(*   Load      the view reads the claim (no lock, no transaction);         *)
(*   Refuse    the serializer, or the table of transitions, answers 400    *)
(*             from what was loaded;                                       *)
(*   Lock      the transaction starts and SELECT ... FOR UPDATE reads the  *)
(*             row again, waiting for any transaction that holds it;       *)
(*   Commit    status, amount, history row and outbox rows become visible  *)
(*             together;                                                   *)
(*   Abandon   the thread dies or the transaction fails: nothing happened. *)
(*                                                                         *)
(* The writes of a transaction are invisible until it commits (PostgreSQL  *)
(* READ COMMITTED), so they are one step; what another thread may do       *)
(* between Load and Lock is the point of the module.                       *)
(***************************************************************************)
EXTENDS Naturals, Sequences, FiniteSets

CONSTANTS
    Claims,         \* claims already filed
    Workers,        \* request threads of gunicorn, over all its processes
    Amounts,        \* non-zero amounts an adjuster may approve
    NoAmount,       \* null, absent or zero in a request; NULL in the table
    NoJob,          \* a thread that serves no request
    MaxRows         \* bound of the model: history rows after which a claim is no longer locked

ASSUME AmountAssumption == NoAmount \notin Amounts

VARIABLES
    claim,      \* claim[c]: the committed row of the claims table
    history,    \* history[c]: the rows of claim_status_history in commit order
    changed,    \* changed[c]: outbox rows of topic claim.status_changed
    resolved,   \* resolved[c]: outbox rows of topic claim.resolved
    pc,         \* pc[w]: where thread w is in the handler
    job         \* job[w]: the local variables of the handler in thread w

vars == <<claim, history, changed, resolved, pc, job>>

----------------------------------------------------------------------------
(* The tables.                                                             *)

Status == {"FILED", "UNDER_REVIEW", "APPROVED", "REJECTED", "RESOLVED"}

(* Mutated form: the table lets a rejected claim be reviewed again. *)
ReopeningTransitions ==
    [s \in Status |->
        CASE s = "FILED"        -> {"UNDER_REVIEW"}
          [] s = "UNDER_REVIEW" -> {"APPROVED", "REJECTED"}
          [] s = "REJECTED"     -> {"RESOLVED", "UNDER_REVIEW"}
          [] s = "APPROVED"     -> {"RESOLVED"}
          [] s = "RESOLVED"     -> {}]

ValidTransitions ==
    [s \in Status |->
        CASE s = "FILED"                   -> {"UNDER_REVIEW"}
          [] s = "UNDER_REVIEW"            -> {"APPROVED", "REJECTED"}
          [] s \in {"APPROVED", "REJECTED"} -> {"RESOLVED"}
          [] s = "RESOLVED"                -> {}]

Legal(from, to) == to \in ValidTransitions[from]

ClaimRow   == [status : Status, amount : Amounts \cup {NoAmount}]
HistoryRow == [from : Status \cup {""}, to : Status]
ChangedEvent  == [status : Status, from : Status, to : Status, amount : Amounts \cup {NoAmount}]
ResolvedEvent == [status : Status, amount : Amounts \cup {NoAmount}]

(* The locals of one request: the claim asked for, new_status and           *)
(* approved_amount of the body, current_status, the claim object in memory, *)
(* and (of the model only) how many history rows the claim had when it was  *)
(* loaded.                                                                  *)
Job == [claim : Claims, to : Status, amount : Amounts \cup {NoAmount},
        current : Status, row : ClaimRow, seen : Nat]

Init ==
    /\ claim = [c \in Claims |-> [status |-> "FILED", amount |-> NoAmount]]
    /\ history = [c \in Claims |-> <<[from |-> "", to |-> "FILED"]>>]
    /\ changed = [c \in Claims |-> <<>>]
    /\ resolved = [c \in Claims |-> <<>>]
    /\ pc = [w \in Workers |-> "idle"]
    /\ job = [w \in Workers |-> NoJob]

----------------------------------------------------------------------------
(* The handler.                                                            *)

tables == <<claim, history, changed, resolved>>

(* Mutated form: the request ends and its state is not reset. *)
AnswerKeepingState(w) ==
    /\ pc' = pc
    /\ job' = [job EXCEPT ![w] = NoJob]

Answer(w) ==
    /\ pc' = [pc EXCEPT ![w] = "idle"]
    /\ job' = [job EXCEPT ![w] = NoJob]

Load(w, c, to, amount) ==
    /\ pc[w] = "idle"
    /\ pc' = [pc EXCEPT ![w] = "loaded"]
    /\ job' = [job EXCEPT ![w] =
                 [claim |-> c, to |-> to, amount |-> amount,
                  current |-> claim[c].status, row |-> claim[c],
                  seen |-> Len(history[c])]]
    /\ UNCHANGED tables

(* The serializer's rule on the amount, then the table of transitions,      *)
(* both on values read before the transaction.                              *)
Acceptable(j) ==
    /\ j.to = "APPROVED" => j.amount # NoAmount
    /\ Legal(j.current, j.to)

Refuse(w) ==
    /\ pc[w] = "loaded"
    /\ ~Acceptable(job[w])
    /\ Answer(w)
    /\ UNCHANGED tables

RowFree(c) == \A v \in Workers : pc[v] = "locked" => job[v].claim # c

Lock(w) ==
    LET c == job[w].claim IN
    /\ pc[w] = "loaded"
    /\ Acceptable(job[w])
    /\ RowFree(c)
    /\ Len(history[c]) < MaxRows
    /\ pc' = [pc EXCEPT ![w] = "locked"]
    /\ job' = [job EXCEPT ![w].row = claim[c]]
    /\ UNCHANGED tables

(* Mutated form: the check is repeated under the lock, for the row alone. *)
WrittenIfStillLegal(j) ==
    IF Legal(j.row.status, j.to)
    THEN [status |-> j.to, amount |-> IF j.to = "APPROVED" THEN j.amount ELSE j.row.amount]
    ELSE j.row

(* The claim object after its assignments: approved_amount is assigned only *)
(* when the new status is APPROVED.                                         *)
Written(j) == [status |-> j.to,
               amount |-> IF j.to = "APPROVED" THEN j.amount ELSE j.row.amount]

HistoryOf(j) == [from |-> j.current, to |-> j.to]

ChangedOf(j) == [status |-> Written(j).status, from |-> j.current,
                 to |-> j.to, amount |-> Written(j).amount]

(* Mutated form: claim.resolved goes out for every decision too. *)
ResolvedForDecisions(j) == j.to \in {"RESOLVED", "APPROVED", "REJECTED"}

EmitsResolved(j) == j.to = "RESOLVED"

Commit(w) ==
    LET j == job[w]
        c == j.claim
    IN  /\ pc[w] = "locked"
        /\ claim' = [claim EXCEPT ![c] = Written(j)]
        /\ history' = [history EXCEPT ![c] = Append(@, HistoryOf(j))]
        /\ changed' = [changed EXCEPT ![c] = Append(@, ChangedOf(j))]
        /\ resolved' = [resolved EXCEPT ![c] =
                          IF EmitsResolved(j) THEN Append(@, Written(j)) ELSE @]
        /\ Answer(w)

Abandon(w) ==
    /\ pc[w] \in {"loaded", "locked"}
    /\ Answer(w)
    /\ UNCHANGED tables

Next ==
    \E w \in Workers :
        \/ \E c \in Claims, to \in Status, amount \in Amounts \cup {NoAmount} :
              Load(w, c, to, amount)
        \/ Refuse(w)
        \/ Lock(w)
        \/ Commit(w)
        \/ Abandon(w)

Spec == Init /\ [][Next]_vars

----------------------------------------------------------------------------
(* Properties.                                                             *)

TypeOK ==
    /\ claim \in [Claims -> ClaimRow]
    /\ history \in [Claims -> Seq(HistoryRow)]
    /\ changed \in [Claims -> Seq(ChangedEvent)]
    /\ resolved \in [Claims -> Seq(ResolvedEvent)]
    /\ pc \in [Workers -> {"idle", "loaded", "locked"}]
    /\ job \in [Workers -> Job \cup {NoJob}]
    /\ \A w \in Workers : pc[w] # "idle" => job[w] \in Job

(* The history of a claim ends in the status the claim has: however the     *)
(* requests overlap, the status and the row that records it are those of    *)
(* the same transaction (the writes of transition_status).                  *)
HistoryEndsInStatus ==
    \A c \in Claims :
        /\ Len(history[c]) >= 1
        /\ history[c][Len(history[c])].to = claim[c].status

(* The events a claim has in the outbox tell its history, row by row and in *)
(* the order of the commits, and each says the status the claim had right   *)
(* after that transition: what the consumers can rebuild is what the table  *)
(* went through.                                                            *)
OutboxTellsHistory ==
    \A c \in Claims :
        /\ Len(history[c]) = Len(changed[c]) + 1
        /\ \A i \in DOMAIN changed[c] :
              /\ changed[c][i].from = history[c][i + 1].from
              /\ changed[c][i].to = history[c][i + 1].to
              /\ changed[c][i].status = changed[c][i].to

(* A claim.resolved event is emitted exactly once per resolution.           *)
ResolvedOncePerResolution ==
    \A c \in Claims :
        Len(resolved[c]) =
            Cardinality({i \in DOMAIN history[c] : history[c][i].to = "RESOLVED"})

ApprovalsOf(c) == {i \in DOMAIN changed[c] : changed[c][i].to = "APPROVED"}

(* The amount of a claim is the one of its latest approval, and there is    *)
(* none before the first: no refusal, rejection or resolution, and no       *)
(* request that overtook or was overtaken, changes it.                      *)
AmountFromLatestApproval ==
    \A c \in Claims :
        /\ ApprovalsOf(c) = {} => claim[c].amount = NoAmount
        /\ \A i \in ApprovalsOf(c) :
              (\A k \in ApprovalsOf(c) : k <= i) =>
                  /\ claim[c].amount = changed[c][i].amount
                  /\ claim[c].amount # NoAmount

(* Every row of the history taken alone is an edge of the table, since      *)
(* from_status is the status that was checked; overlapping requests can     *)
(* break the chain of rows, never a row.                                    *)
EveryRowIsAnEdge ==
    \A c \in Claims : \A i \in DOMAIN history[c] :
        i > 1 => Legal(history[c][i].from, history[c][i].to)

(* The row of a claim is what its history, an edge of the table at a time,  *)
(* makes of it, although status, amount, history and events are written by  *)
(* statements of their own and requests overlap.                            *)
ClaimFollowsHistory == HistoryEndsInStatus /\ EveryRowIsAnEdge /\ AmountFromLatestApproval

(* The outbox has the events of that history: one claim.status_changed for  *)
(* each transition, and one claim.resolved for each resolution.             *)
OutboxFollowsHistory == OutboxTellsHistory /\ ResolvedOncePerResolution

(* The row a transaction read under its lock is still the committed row:    *)
(* what it leaves untouched (the amount it copies into its events) is not   *)
(* stale, unlike current_status.                                            *)
LockedRowIsCurrent ==
    \A w \in Workers : pc[w] = "locked" => job[w].row = claim[job[w].claim]

(* The status checked before the transaction is the status of the claim     *)
(* unless another request committed on the same claim after the load: the   *)
(* unlocked read is wrong only for a request that was overtaken.            *)
StaleOnlyIfOvertaken ==
    \A w \in Workers : pc[w] # "idle" =>
        /\ job[w].seen <= Len(history[job[w].claim])
        /\ job[w].seen = Len(history[job[w].claim]) =>
              job[w].current = claim[job[w].claim].status

Overtaken(c) == \E w \in Workers :
    pc[w] = "locked" /\ job[w].claim = c /\ job[w].seen < Len(history[c])

(* What the documentation says of the endpoint: a transition that is not in *)
(* the table is answered 400 and changes nothing.                           *)
StatusFollowsTable ==
    [][\A c \in Claims :
          claim'[c].status # claim[c].status =>
              Legal(claim[c].status, claim'[c].status)]_vars

Statuses == [c \in Claims |-> claim[c].status]

Machine == INSTANCE ClaimStatusMachine WITH status <- Statuses

ForwardOrOvertaken ==
    \E c \in Claims :
        /\ claim'[c].status # claim[c].status
        /\ \/ Machine!Advance(c)
           \/ Overtaken(c) /\ \A d \in Claims \ {c} : claim'[d].status = claim[d].status

(* The service implements ClaimStatusMachine, one stage at a time, one      *)
(* decision, resolved for good, but for one kind of step: the commit of a   *)
(* request that was overtaken between its load and its lock, and that       *)
(* touches no other claim.  Without overlap it keeps the whole promise.     *)
ForwardUnlessOvertaken == Machine!Init /\ [][ForwardOrOvertaken]_Statuses
=============================================================================
