--------------------------- MODULE PolicyService ---------------------------
(***************************************************************************)
(* The policies of policy-service and the API that writes them: POST       *)
(* (create), PATCH (update) and POST cancel, executed by several threads   *)
(* over the tables of policies and of outbox events.                       *)
(*                                                                         *)
(* PATCH and cancel read the policy without a lock (Load) and decide on    *)
(* what they read.  Then they differ: cancel reads the row again under     *)
(* SELECT ... FOR UPDATE and repeats its check; update assigns the fields  *)
(* of the body to the object it has in memory, saves those fields only and *)
(* describes that object in its event.  A transaction holds the row from   *)
(* its first lock or write to its commit and nothing reads what it has not *)
(* committed, so the whole of it is one step.                              *)
(*                                                                         *)
(* The two dates stand for the fields a PATCH may carry.  SUSPENDED and    *)
(* EXPIRED are only ever set by hand in the admin site, which is not       *)
(* modelled: policies may have them at the start.                          *)
(***************************************************************************)
EXTENDS Naturals, Sequences

CONSTANTS
    Policies,       \* identifiers of policies, existing or not
    Callers,        \* threads of policy-service that serve PATCH and cancel
    Dates,          \* the dates of the model, ordered as numbers
    Patches,        \* the bodies a PATCH may have: functions from fields to dates
    NoPolicy,       \* the row of an identifier without a policy
    NoRequest,      \* a thread that serves no request
    MaxEvents       \* bound of the model: events after which a policy is no longer written

Fields == {"start", "end"}

ASSUME DatesAssumption == Dates \subseteq Nat
ASSUME PatchesAssumption == Patches \subseteq UNION {[fs -> Dates] : fs \in (SUBSET Fields) \ {{}}}

VARIABLES
    policy,     \* policy[p]: the committed row of p
    events,     \* events[p]: the outbox rows of p in the order of the commits
    patched,    \* history of the model: the bodies of the updates of p that committed
    request     \* request[t]: the local variables of the handler in thread t

policyVars == <<policy, events, patched, request>>

----------------------------------------------------------------------------
PolicyStatus == {"ACTIVE", "SUSPENDED", "CANCELLED", "EXPIRED"}
PolicyRow == [status : PolicyStatus, start : Dates, end : Dates]

ASSUME NoPolicyAssumption == NoPolicy \notin PolicyRow

(* CANCELABLE_STATUSES and UPDATABLE_STATUSES are the same set.             *)
Live(row) == row.status \in {"ACTIVE", "SUSPENDED"}

(* _base: what every event says of the policy object it is built from.      *)
EventOf(type, row) == [type |-> type, status |-> row.status, start |-> row.start, end |-> row.end]
PolicyEvent == [type : {"policy.created", "policy.updated", "policy.cancelled"},
                status : PolicyStatus, start : Dates, end : Dates]

(* A request: the policy, what is asked, the body of a PATCH, the row as it *)
(* was loaded, and (of the model only) how many events p had at that time.  *)
PolicyRequest == [policy : Policies, op : {"update", "cancel"}, body : Patches \cup {<<>>},
                  row : PolicyRow, seen : Nat]

PolicyInit ==
    /\ policy \in [Policies -> {NoPolicy} \cup
          {r \in PolicyRow : r.start < r.end /\ r.status # "CANCELLED"}]
    /\ events = [p \in Policies |-> <<>>]
    /\ patched = [p \in Policies |-> <<>>]
    /\ request = [t \in Callers |-> NoRequest]

Exists(p) == policy[p] # NoPolicy
Writable(p) == Len(events[p]) < MaxEvents

----------------------------------------------------------------------------
(* create_policy, after the serializer has compared the dates.              *)
CreatePolicy(p, start, end) ==
    LET row == [status |-> "ACTIVE", start |-> start, end |-> end] IN
    /\ ~Exists(p)
    /\ start < end
    /\ policy' = [policy EXCEPT ![p] = row]
    /\ events' = [events EXCEPT ![p] = Append(@, EventOf("policy.created", row))]
    /\ UNCHANGED <<patched, request>>

LoadPolicy(t, p, op, body) ==
    /\ request[t] = NoRequest
    /\ Exists(p)
    /\ request' = [request EXCEPT ![t] =
          [policy |-> p, op |-> op, body |-> body, row |-> policy[p], seen |-> Len(events[p])]]
    /\ UNCHANGED <<policy, events, patched>>

(* validate() compares the dates of the body when it carries both; the      *)
(* service then asks for a live policy, in the row that was loaded.         *)
AcceptablePolicyRequest(q) ==
    /\ DOMAIN q.body = Fields => q.body["start"] < q.body["end"]
    /\ Live(q.row)

Finish(t) == request' = [request EXCEPT ![t] = NoRequest]

RefusePolicyRequest(t) ==
    /\ request[t] # NoRequest
    /\ ~AcceptablePolicyRequest(request[t])
    /\ Finish(t)
    /\ UNCHANGED <<policy, events, patched>>

Patched(row, body) ==
    [status |-> row.status,
     start |-> IF "start" \in DOMAIN body THEN body["start"] ELSE row.start,
     end |-> IF "end" \in DOMAIN body THEN body["end"] ELSE row.end]

(* Mutated form: save() without update_fields writes the object as loaded.  *)
SavedWhole(q) == Patched(q.row, q.body)

(* save(update_fields = the fields of the body): the rest of the row is     *)
(* what the table has by then.                                              *)
Saved(q) == Patched(policy[q.policy], q.body)

UpdatePolicy(t) ==
    LET q == request[t]
        p == q.policy
    IN  /\ q # NoRequest /\ q.op = "update"
        /\ AcceptablePolicyRequest(q)
        /\ Writable(p)
        /\ policy' = [policy EXCEPT ![p] = Saved(q)]
        /\ events' = [events EXCEPT ![p] = Append(@, EventOf("policy.updated", Patched(q.row, q.body)))]
        /\ patched' = [patched EXCEPT ![p] = Append(@, q.body)]
        /\ Finish(t)

(* Mutated form: the status is not checked again under the lock.            *)
CancellableUnchecked(p) == Exists(p)

Cancellable(p) == Live(policy[p])

(* Mutated form: the event is built from the object that was loaded.        *)
CancelledEventEarly(q) == EventOf("policy.cancelled", q.row)

CancelledEvent(q) == EventOf("policy.cancelled", [policy[q.policy] EXCEPT !.status = "CANCELLED"])

CancelPolicy(t) ==
    LET q == request[t]
        p == q.policy
    IN  /\ q # NoRequest /\ q.op = "cancel"
        /\ AcceptablePolicyRequest(q)
        /\ Cancellable(p)
        /\ Writable(p)
        /\ policy' = [policy EXCEPT ![p].status = "CANCELLED"]
        /\ events' = [events EXCEPT ![p] = Append(@, CancelledEvent(q))]
        /\ Finish(t)
        /\ UNCHANGED patched

(* The check under the lock fails, or the transaction of either handler     *)
(* does: it is rolled back.                                                 *)
AbandonPolicyRequest(t) ==
    /\ request[t] # NoRequest
    /\ AcceptablePolicyRequest(request[t])
    /\ Finish(t)
    /\ UNCHANGED <<policy, events, patched>>

ServePolicy(t) ==
    \/ \E p \in Policies : LoadPolicy(t, p, "cancel", <<>>)
    \/ \E p \in Policies, body \in Patches : LoadPolicy(t, p, "update", body)
    \/ RefusePolicyRequest(t)
    \/ UpdatePolicy(t)
    \/ CancelPolicy(t)
    \/ AbandonPolicyRequest(t)

PolicyNext ==
    \/ \E p \in Policies, start, end \in Dates : CreatePolicy(p, start, end)
    \/ \E t \in Callers : ServePolicy(t)

PolicySpec == PolicyInit /\ [][PolicyNext]_policyVars

----------------------------------------------------------------------------
(* Properties.                                                             *)

PolicyTypeOK ==
    /\ policy \in [Policies -> PolicyRow \cup {NoPolicy}]
    /\ events \in [Policies -> Seq(PolicyEvent)]
    /\ patched \in [Policies -> Seq(Patches)]
    /\ request \in [Callers -> PolicyRequest \cup {NoRequest}]

Cancellations(p) == {i \in DOMAIN events[p] : events[p][i].type = "policy.cancelled"}

(* However many cancellations of a policy overlap, it is cancelled and      *)
(* announced once: a cancelled policy has exactly one policy.cancelled      *)
(* event and any other has none (the second check of cancel_policy).  The   *)
(* event stays, so nothing the API does later brings the policy back.       *)
CancelledOnce ==
    \A p \in Policies :
        /\ \A i, j \in Cancellations(p) : i = j
        /\ Cancellations(p) # {} <=> Exists(p) /\ policy[p].status = "CANCELLED"

(* Updates that overlap do not undo each other: each field of a policy has  *)
(* the value of the last committed PATCH that carried it, although every    *)
(* handler saves an object that may be older than that.                     *)
FieldsKeepLastPatch ==
    \A p \in Policies : \A i \in DOMAIN patched[p] : \A f \in DOMAIN patched[p][i] :
        (\A k \in DOMAIN patched[p] : f \in DOMAIN patched[p][k] => k <= i)
            => policy[p][f] = patched[p][i][f]

OvertakenUpdate(p) == \E t \in Callers :
    /\ request[t] # NoRequest /\ request'[t] = NoRequest
    /\ request[t].policy = p /\ request[t].op = "update" /\ request[t].seen < Len(events[p])

(* Every event describes the row its transaction committed, except that of  *)
(* an update that was overtaken by another write after its load: only such  *)
(* an update announces a status or a field the policy does not have.        *)
EventsDescribeTheRow ==
    [][\A p \in Policies : events'[p] # events[p] =>
          LET e == events'[p][Len(events'[p])] IN
          EventOf(e.type, policy'[p]) = e \/ OvertakenUpdate(p)]_policyVars

(* What the serializer tells the client of every policy: "La fecha de fin   *)
(* debe ser posterior a la fecha de inicio".                                *)
DatesInOrder == \A p \in Policies : Exists(p) => policy[p].start < policy[p].end
=============================================================================
