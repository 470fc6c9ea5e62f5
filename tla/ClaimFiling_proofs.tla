------------------------- MODULE ClaimFiling_proofs -------------------------
(***************************************************************************)
(* Theorems of ClaimFiling and of the policies it is built on, for any     *)
(* number of policies, threads and processes, any dates and bodies.  The   *)
(* first part is about PolicyService alone: its variables and its steps    *)
(* are those of ClaimFiling, which adds the claims.                        *)
(***************************************************************************)
EXTENDS ClaimFiling, SequenceTheorems, TLAPS

USE DatesAssumption, PatchesAssumption, NoPolicyAssumption

(* Every step adds at most one event, to one policy, at the end.            *)
LEMMA Appended ==
    ASSUME NEW S, NEW s \in Seq(S), NEW e \in S
    PROVE  /\ Append(s, e) \in Seq(S) /\ Len(s) \in Nat
           /\ Len(Append(s, e)) = Len(s) + 1
           /\ DOMAIN s = 1..Len(s)
           /\ DOMAIN Append(s, e) = DOMAIN s \cup {Len(s) + 1}
           /\ Len(s) + 1 \notin DOMAIN s
           /\ \A i \in DOMAIN s : i < Len(s) + 1 /\ Append(s, e)[i] = s[i]
           /\ Append(s, e)[Len(s) + 1] = e
<1>1. /\ Append(s, e) \in Seq(S) /\ Len(Append(s, e)) = Len(s) + 1
      /\ \A i \in 1..Len(s) : Append(s, e)[i] = s[i]
      /\ Append(s, e)[Len(s) + 1] = e
  BY AppendProperties
<1>2. /\ Len(s) \in Nat /\ DOMAIN s = 1..Len(s)
      /\ DOMAIN Append(s, e) = 1..Len(Append(s, e))
  BY <1>1, LenProperties
<1>3. QED
  BY <1>1, <1>2

(* A body holds dates under some of the fields.                             *)
LEMMA Bodies ==
    ASSUME NEW body \in Patches
    PROVE  /\ DOMAIN body \subseteq Fields
           /\ \A f \in DOMAIN body : body[f] \in Dates
<1>1. PICK fs \in SUBSET Fields : body \in [fs -> Dates]
  BY Zenon
<1>2. QED
  BY <1>1

(* A patched row is a row with the same status, the fields of the body and  *)
(* the rest as it was.                                                      *)
LEMMA PatchedRow ==
    ASSUME NEW row \in PolicyRow, NEW body \in Patches
    PROVE  /\ Patched(row, body) \in PolicyRow
           /\ Patched(row, body).status = row.status
           /\ \A f \in DOMAIN body : Patched(row, body)[f] = body[f]
           /\ \A f \in Fields \ DOMAIN body : Patched(row, body)[f] = row[f]
BY Bodies DEF Patched, PolicyRow, Fields

(* What is known of a request that is under way.                            *)
RequestsAreSound ==
    \A t \in Callers : request[t] # NoRequest =>
        LET q == request[t] IN
        /\ Exists(q.policy)
        /\ q.op = "update" => q.body \in Patches
        /\ q.seen <= Len(events[q.policy])
        /\ q.seen = Len(events[q.policy]) => q.row = policy[q.policy]

(* An identifier without a policy has no past.                              *)
NoPastWithoutPolicy ==
    \A p \in Policies : ~Exists(p) => patched[p] = <<>>

IInv ==
    /\ PolicyTypeOK
    /\ RequestsAreSound
    /\ NoPastWithoutPolicy
    /\ CancelledOnce
    /\ FieldsKeepLastPatch

(* The tables start well typed, with no event and no request.               *)
LEMMA TypeInit == PolicyInit => PolicyTypeOK
BY EmptySeq DEF PolicyInit, PolicyTypeOK

(* The steps that write a policy: what they leave alone, and the event.     *)
LEMMA WritesOnePolicy ==
    ASSUME PolicyTypeOK, NEW p \in Policies, NEW row \in PolicyRow, NEW e \in PolicyEvent,
           policy' = [policy EXCEPT ![p] = row],
           events' = [events EXCEPT ![p] = Append(@, e)]
    PROVE  /\ policy' \in [Policies -> PolicyRow \cup {NoPolicy}]
           /\ events' \in [Policies -> Seq(PolicyEvent)]
           /\ policy'[p] = row /\ events'[p] = Append(events[p], e)
           /\ \A o \in Policies \ {p} : policy'[o] = policy[o] /\ events'[o] = events[o]
<1>1. events[p] \in Seq(PolicyEvent)
  BY DEF PolicyTypeOK
<1>2. Append(events[p], e) \in Seq(PolicyEvent)
  BY <1>1, Appended
<1>3. QED
  BY <1>2 DEF PolicyTypeOK

(* Requests of other threads stay sound: what they saw is older than the    *)
(* new event.                                                               *)
LEMMA RequestsAfterWrite ==
    ASSUME PolicyTypeOK, RequestsAreSound,
           NEW p \in Policies, NEW row \in PolicyRow, NEW e \in PolicyEvent,
           policy' = [policy EXCEPT ![p] = row],
           events' = [events EXCEPT ![p] = Append(@, e)],
           \A t \in Callers : request'[t] \in {request[t], NoRequest}
    PROVE  RequestsAreSound'
<1> SUFFICES ASSUME NEW t \in Callers, request'[t] # NoRequest
             PROVE  LET q == request[t] IN
                    /\ Exists(q.policy)'
                    /\ q.op = "update" => q.body \in Patches
                    /\ q.seen <= Len(events'[q.policy])
                    /\ q.seen = Len(events'[q.policy]) => q.row = policy'[q.policy]
  BY DEF RequestsAreSound, Exists
<1> DEFINE q == request[t]
<1>1. /\ request[t] # NoRequest /\ q \in PolicyRequest
      /\ q.policy \in Policies /\ q.seen \in Nat
  BY DEF PolicyTypeOK, PolicyRequest
<1>2. /\ Exists(q.policy)
      /\ q.op = "update" => q.body \in Patches
      /\ q.seen <= Len(events[q.policy])
      /\ q.seen = Len(events[q.policy]) => q.row = policy[q.policy]
  BY <1>1 DEF RequestsAreSound
<1>3. CASE q.policy # p
  BY <1>1, <1>2, <1>3, WritesOnePolicy DEF Exists
<1>4. CASE q.policy = p
  <2>1. /\ Len(events'[p]) = Len(events[p]) + 1 /\ Len(events[p]) \in Nat
        /\ policy'[p] = row
    <3>1. events[p] \in Seq(PolicyEvent)
      BY DEF PolicyTypeOK
    <3>2. Len(Append(events[p], e)) = Len(events[p]) + 1 /\ Len(events[p]) \in Nat
      BY <3>1, Appended
    <3>3. QED
      BY <3>2, WritesOnePolicy
  <2>2. QED
    BY <1>1, <1>2, <1>4, <2>1 DEF Exists
<1>5. QED
  BY <1>3, <1>4

(* Only an event of type policy.cancelled adds to the cancellations, and    *)
(* the row has to tell.                                                     *)
LEMMA CancellationsAfterWrite ==
    ASSUME PolicyTypeOK, CancelledOnce,
           NEW p \in Policies, NEW row \in PolicyRow, NEW e \in PolicyEvent,
           policy' = [policy EXCEPT ![p] = row],
           events' = [events EXCEPT ![p] = Append(@, e)],
           \/ e.type # "policy.cancelled" /\ (row.status = "CANCELLED" <=> Exists(p) /\ policy[p].status = "CANCELLED")
           \/ e.type = "policy.cancelled" /\ row.status = "CANCELLED" /\ ~(Exists(p) /\ policy[p].status = "CANCELLED")
    PROVE  CancelledOnce'
<1> SUFFICES ASSUME NEW o \in Policies
             PROVE  /\ \A i, j \in Cancellations(o)' : i = j
                    /\ Cancellations(o)' # {} <=> Exists(o)' /\ policy'[o].status = "CANCELLED"
  BY DEF CancelledOnce
<1>1. CASE o # p
  <2>1. policy'[o] = policy[o] /\ events'[o] = events[o]
    BY <1>1, WritesOnePolicy
  <2>2. Cancellations(o)' = Cancellations(o) /\ (Exists(o)' <=> Exists(o))
    BY <2>1 DEF Cancellations, Exists
  <2>3. QED
    BY <2>1, <2>2 DEF CancelledOnce
<1>2. CASE o = p
  <2>1. /\ policy'[p] = row /\ events'[p] = Append(events[p], e)
        /\ events[p] \in Seq(PolicyEvent)
    BY WritesOnePolicy DEF PolicyTypeOK
  <2>2. Cancellations(p)' = Cancellations(p) \cup
           (IF e.type = "policy.cancelled" THEN {Len(events[p]) + 1} ELSE {})
    BY <2>1, Appended DEF Cancellations
  <2>3. Exists(p)'
    BY <2>1 DEF Exists
  <2>4. QED
    BY <1>2, <2>1, <2>2, <2>3 DEF CancelledOnce
<1>3. QED
  BY <1>1, <1>2

----------------------------------------------------------------------------
(* The actions.                                                            *)

(* A new policy has no PATCH to keep and no cancellation to account for.    *)
LEMMA CreateStep ==
    ASSUME IInv, NEW p \in Policies, NEW start \in Dates, NEW end \in Dates, CreatePolicy(p, start, end)
    PROVE  IInv'
<1> DEFINE row == [status |-> "ACTIVE", start |-> start, end |-> end]
           e == EventOf("policy.created", row)
<1>1. row \in PolicyRow /\ e \in PolicyEvent /\ e.type = "policy.created" /\ row.status = "ACTIVE"
  BY DEF PolicyRow, PolicyEvent, EventOf, PolicyStatus
<1>2. /\ ~Exists(p)
      /\ policy' = [policy EXCEPT ![p] = row]
      /\ events' = [events EXCEPT ![p] = Append(@, e)]
      /\ patched' = patched /\ request' = request
  BY DEF CreatePolicy
<1> HIDE DEF row, e
<1>3. PolicyTypeOK'
  BY <1>1, <1>2, WritesOnePolicy DEF IInv, PolicyTypeOK
<1>4. RequestsAreSound'
  BY <1>1, <1>2, RequestsAfterWrite DEF IInv
<1>5. CancelledOnce'
  BY <1>1, <1>2, CancellationsAfterWrite DEF IInv
<1>6. NoPastWithoutPolicy'
  BY <1>1, <1>2, WritesOnePolicy DEF IInv, NoPastWithoutPolicy, Exists
<1>7. FieldsKeepLastPatch'
  <2>1. patched[p] = <<>> /\ DOMAIN patched[p] = {}
    BY <1>2 DEF IInv, NoPastWithoutPolicy
  <2>2. \A o \in Policies \ {p} : policy'[o] = policy[o]
    BY <1>1, <1>2, WritesOnePolicy DEF IInv
  <2>3. QED
    BY <1>2, <2>1, <2>2 DEF IInv, FieldsKeepLastPatch
<1>8. QED
  BY <1>3, <1>4, <1>5, <1>6, <1>7 DEF IInv

(* An update assigns the fields of its body and leaves the status alone,    *)
(* also when the object it loaded had another one.                          *)
LEMMA UpdateStep ==
    ASSUME IInv, NEW t \in Callers, UpdatePolicy(t)
    PROVE  IInv'
<1> DEFINE q == request[t]
           p == q.policy
           row == Saved(q)
           e == EventOf("policy.updated", Patched(q.row, q.body))
<1>1. q \in PolicyRequest /\ q.body \in Patches /\ p \in Policies /\ Exists(p)
      /\ policy[p] \in PolicyRow /\ q.row \in PolicyRow
  BY DEF UpdatePolicy, IInv, PolicyTypeOK, RequestsAreSound, PolicyRequest, Exists
<1>2. /\ row \in PolicyRow /\ row.status = policy[p].status
      /\ \A f \in DOMAIN q.body : row[f] = q.body[f]
      /\ \A f \in Fields \ DOMAIN q.body : row[f] = policy[p][f]
  BY <1>1, PatchedRow DEF Saved
<1>3. e \in PolicyEvent /\ e.type = "policy.updated"
  <2>1. Patched(q.row, q.body) \in PolicyRow
    BY <1>1, PatchedRow
  <2>2. QED
    BY <2>1 DEF EventOf, PolicyEvent, PolicyRow
<1>4. /\ policy' = [policy EXCEPT ![p] = row]
      /\ events' = [events EXCEPT ![p] = Append(@, e)]
      /\ patched' = [patched EXCEPT ![p] = Append(@, q.body)]
      /\ request' = [request EXCEPT ![t] = NoRequest]
  BY DEF UpdatePolicy, Finish
<1>5. patched[p] \in Seq(Patches)
  BY <1>1 DEF IInv, PolicyTypeOK
<1> HIDE DEF row, e, p
<1>6. /\ patched' \in [Policies -> Seq(Patches)]
      /\ patched'[p] = Append(patched[p], q.body)
      /\ \A o \in Policies \ {p} : patched'[o] = patched[o]
  BY <1>1, <1>4, <1>5, AppendProperties DEF IInv, PolicyTypeOK
<1>7. PolicyTypeOK'
  BY <1>1, <1>2, <1>3, <1>4, <1>6, WritesOnePolicy DEF IInv, PolicyTypeOK
<1>8. RequestsAreSound'
  BY <1>1, <1>2, <1>3, <1>4, RequestsAfterWrite DEF IInv, PolicyTypeOK
<1>9. CancelledOnce'
  BY <1>1, <1>2, <1>3, <1>4, CancellationsAfterWrite DEF IInv
<1>10. NoPastWithoutPolicy'
  BY <1>1, <1>2, <1>3, <1>4, <1>6, WritesOnePolicy DEF IInv, NoPastWithoutPolicy, Exists
<1>11. FieldsKeepLastPatch'
  <2> SUFFICES ASSUME NEW o \in Policies, NEW i \in DOMAIN patched'[o], NEW f \in DOMAIN patched'[o][i],
                      \A k \in DOMAIN patched'[o] : f \in DOMAIN patched'[o][k] => k <= i
               PROVE  policy'[o][f] = patched'[o][i][f]
    BY DEF FieldsKeepLastPatch
  <2>1. CASE o # p
    BY <1>1, <1>2, <1>3, <1>4, <1>6, <2>1, WritesOnePolicy DEF IInv, FieldsKeepLastPatch
  <2>2. CASE o = p
    <3>1. /\ DOMAIN patched'[p] = DOMAIN patched[p] \cup {Len(patched[p]) + 1}
          /\ Len(patched[p]) \in Nat /\ DOMAIN patched[p] = 1..Len(patched[p])
          /\ \A k \in DOMAIN patched[p] : patched'[p][k] = patched[p][k] /\ patched[p][k] \in Patches
          /\ patched'[p][Len(patched[p]) + 1] = q.body
      BY <1>1, <1>5, <1>6, Appended, ElementOfSeq
    <3>2. policy'[p] = row
      BY <1>1, <1>2, <1>3, <1>4, WritesOnePolicy DEF IInv
    <3>3. CASE i = Len(patched[p]) + 1
      BY <1>2, <2>2, <3>1, <3>2, <3>3
    <3>4. CASE i \in DOMAIN patched[p]
      <4>1. f \notin DOMAIN q.body
        BY <2>2, <3>1, <3>4
      <4>2. f \in Fields
        BY <2>2, <3>1, <3>4, Bodies
      <4>3. policy[p][f] = patched[p][i][f]
        BY <1>1, <2>2, <3>1, <3>4 DEF IInv, FieldsKeepLastPatch
      <4>4. QED
        BY <1>2, <2>2, <3>1, <3>2, <3>4, <4>1, <4>2, <4>3
    <3>5. QED
      BY <2>2, <3>1, <3>3, <3>4
  <2>3. QED
    BY <2>1, <2>2
<1>12. QED
  BY <1>7, <1>8, <1>9, <1>10, <1>11 DEF IInv

(* A cancellation finds a live policy under the lock, so it is the first.   *)
LEMMA CancelStep ==
    ASSUME IInv, NEW t \in Callers, CancelPolicy(t)
    PROVE  IInv'
<1> DEFINE q == request[t]
           p == q.policy
           row == [policy[p] EXCEPT !.status = "CANCELLED"]
           e == EventOf("policy.cancelled", row)
<1>1. q \in PolicyRequest /\ p \in Policies /\ Exists(p) /\ policy[p] \in PolicyRow
      /\ policy[p].status # "CANCELLED"
  BY DEF CancelPolicy, Cancellable, Live, IInv, PolicyTypeOK, RequestsAreSound, PolicyRequest, Exists
<1>2. /\ row \in PolicyRow /\ row.status = "CANCELLED"
      /\ \A f \in Fields : row[f] = policy[p][f]
      /\ e \in PolicyEvent /\ e.type = "policy.cancelled"
  BY <1>1 DEF PolicyRow, PolicyStatus, EventOf, PolicyEvent, Fields
<1>3. /\ policy' = [policy EXCEPT ![p] = row]
      /\ events' = [events EXCEPT ![p] = Append(@, e)]
      /\ patched' = patched
      /\ request' = [request EXCEPT ![t] = NoRequest]
  BY DEF CancelPolicy, CancelledEvent, Finish
<1> HIDE DEF row, e, p
<1>4. PolicyTypeOK'
  BY <1>1, <1>2, <1>3, WritesOnePolicy DEF IInv, PolicyTypeOK
<1>5. RequestsAreSound'
  BY <1>1, <1>2, <1>3, RequestsAfterWrite DEF IInv, PolicyTypeOK
<1>6. CancelledOnce'
  BY <1>1, <1>2, <1>3, CancellationsAfterWrite DEF IInv
<1>7. NoPastWithoutPolicy'
  BY <1>1, <1>2, <1>3, WritesOnePolicy DEF IInv, NoPastWithoutPolicy, Exists
<1>8. FieldsKeepLastPatch'
  <2>1. \A o \in Policies : \A f \in Fields : policy'[o][f] = policy[o][f]
    BY <1>1, <1>2, <1>3, WritesOnePolicy DEF IInv
  <2>2. \A o \in Policies : \A i \in DOMAIN patched[o] : DOMAIN patched[o][i] \subseteq Fields
    <3> SUFFICES ASSUME NEW o \in Policies, NEW i \in DOMAIN patched[o]
                 PROVE  patched[o][i] \in Patches
      BY Bodies
    <3>1. patched[o] \in Seq(Patches)
      BY DEF IInv, PolicyTypeOK
    <3>2. QED
      BY <3>1, LenProperties, ElementOfSeq
  <2>3. QED
    BY <1>3, <2>1, <2>2 DEF IInv, FieldsKeepLastPatch
<1>9. QED
  BY <1>4, <1>5, <1>6, <1>7, <1>8 DEF IInv

(* A request starts with the row and the number of events of the moment.    *)
LEMMA LoadStep ==
    ASSUME IInv, NEW t \in Callers, NEW p \in Policies, NEW op \in {"update", "cancel"},
           NEW body \in Patches \cup {<<>>}, op = "update" => body \in Patches, LoadPolicy(t, p, op, body)
    PROVE  IInv'
<1>1. /\ Exists(p) /\ policy[p] \in PolicyRow
      /\ events[p] \in Seq(PolicyEvent) /\ Len(events[p]) \in Nat
  BY LenProperties DEF LoadPolicy, IInv, PolicyTypeOK, Exists
<1> DEFINE q == [policy |-> p, op |-> op, body |-> body, row |-> policy[p], seen |-> Len(events[p])]
<1>2. q \in PolicyRequest
  BY <1>1 DEF PolicyRequest
<1>3. request' = [request EXCEPT ![t] = q] /\ UNCHANGED <<policy, events, patched>>
  BY DEF LoadPolicy
<1>4. PolicyTypeOK'
  BY <1>2, <1>3 DEF IInv, PolicyTypeOK
<1>5. RequestsAreSound'
  <2> SUFFICES ASSUME NEW u \in Callers, request'[u] # NoRequest
               PROVE  LET r == request'[u] IN
                      /\ Exists(r.policy)
                      /\ r.op = "update" => r.body \in Patches
                      /\ r.seen <= Len(events[r.policy])
                      /\ r.seen = Len(events[r.policy]) => r.row = policy[r.policy]
    BY <1>3 DEF RequestsAreSound, Exists
  <2>1. CASE u = t
    BY <1>1, <1>3, <2>1 DEF IInv, PolicyTypeOK
  <2>2. CASE u # t
    BY <1>3, <2>2 DEF IInv, RequestsAreSound, PolicyTypeOK
  <2>3. QED
    BY <2>1, <2>2
<1>6. NoPastWithoutPolicy' /\ CancelledOnce' /\ FieldsKeepLastPatch'
  BY <1>3 DEF IInv, NoPastWithoutPolicy, CancelledOnce, Cancellations, FieldsKeepLastPatch, Exists
<1>7. QED
  BY <1>4, <1>5, <1>6 DEF IInv

(* Refused and rolled back requests change nothing but themselves.          *)
LEMMA QuietStep ==
    ASSUME IInv, UNCHANGED <<policy, events, patched>>,
           \/ request' = request
           \/ \E t \in Callers : request' = [request EXCEPT ![t] = NoRequest]
    PROVE  IInv'
<1>1. PolicyTypeOK'
  BY DEF IInv, PolicyTypeOK
<1>2. RequestsAreSound'
  BY DEF IInv, PolicyTypeOK, RequestsAreSound, Exists
<1>3. NoPastWithoutPolicy' /\ CancelledOnce' /\ FieldsKeepLastPatch'
  BY DEF IInv, NoPastWithoutPolicy, CancelledOnce, Cancellations, FieldsKeepLastPatch, Exists
<1>4. QED
  BY <1>1, <1>2, <1>3 DEF IInv
----------------------------------------------------------------------------
(* The invariant.                                                          *)

(* Before the first step no policy is cancelled and nothing was patched.    *)
LEMMA InvInit == PolicyInit => IInv
<1> SUFFICES ASSUME PolicyInit PROVE IInv
  OBVIOUS
<1>1. \A p \in Policies : events[p] = <<>> /\ patched[p] = <<>>
  BY DEF PolicyInit
<1>2. \A p \in Policies : policy[p] # NoPolicy => policy[p].status # "CANCELLED"
  BY DEF PolicyInit
<1>3. \A t \in Callers : request[t] = NoRequest
  BY DEF PolicyInit
<1>4. CancelledOnce
  <2>1. \A p \in Policies : Cancellations(p) = {}
    <3>1. \A p \in Policies : DOMAIN events[p] = {}
      <4> TAKE p \in Policies
      <4>1. events[p] \in Seq(PolicyEvent) /\ Len(events[p]) = 0
        BY <1>1, EmptySeq
      <4>2. DOMAIN events[p] = 1..Len(events[p])
        BY <4>1, LenProperties
      <4>3. QED
        BY <4>1, <4>2
    <3>2. QED
      BY <3>1 DEF Cancellations
  <2>2. QED
    BY <1>2, <2>1 DEF CancelledOnce, Exists
<1>5. FieldsKeepLastPatch /\ NoPastWithoutPolicy
  BY <1>1 DEF FieldsKeepLastPatch, NoPastWithoutPolicy
<1>6. RequestsAreSound
  BY <1>3 DEF RequestsAreSound
<1>7. QED
  BY <1>4, <1>5, <1>6, TypeInit DEF IInv

(* Every step of the service keeps it.                                      *)
LEMMA InvStep == IInv /\ [PolicyNext]_policyVars => IInv'
<1> SUFFICES ASSUME IInv, [PolicyNext]_policyVars PROVE IInv'
  OBVIOUS
<1>1. CASE \E p \in Policies, start, end \in Dates : CreatePolicy(p, start, end)
  BY <1>1, CreateStep
<1>2. ASSUME NEW t \in Callers, ServePolicy(t) PROVE IInv'
  <2>1. CASE \E p \in Policies : LoadPolicy(t, p, "cancel", <<>>)
    BY <2>1, LoadStep
  <2>2. CASE \E p \in Policies, body \in Patches : LoadPolicy(t, p, "update", body)
    BY <2>2, LoadStep
  <2>3. CASE RefusePolicyRequest(t)
    BY <2>3, QuietStep DEF RefusePolicyRequest, Finish
  <2>4. CASE UpdatePolicy(t)
    BY <2>4, UpdateStep
  <2>5. CASE CancelPolicy(t)
    BY <2>5, CancelStep
  <2>6. CASE AbandonPolicyRequest(t)
    BY <2>6, QuietStep DEF AbandonPolicyRequest, Finish
  <2>7. QED
    BY <1>2, <2>1, <2>2, <2>3, <2>4, <2>5, <2>6 DEF ServePolicy
<1>3. CASE UNCHANGED policyVars
  BY <1>3, QuietStep DEF policyVars
<1>4. QED
  BY <1>1, <1>2, <1>3 DEF PolicyNext

(* So it holds always.                                                      *)
LEMMA Invariance == PolicySpec => []IInv
BY InvInit, InvStep, PTL DEF PolicySpec

----------------------------------------------------------------------------
(* The theorems.                                                           *)

(* The tables and the requests of policy-service keep their types.          *)
THEOREM TypeCorrect == PolicySpec => []PolicyTypeOK
<1>1. IInv => PolicyTypeOK
  BY DEF IInv
<1>2. QED
  BY <1>1, Invariance, PTL

(* A policy is cancelled and announced as cancelled at most once, however   *)
(* many cancellations overlap, and the two always go together.              *)
THEOREM CancellationIsUnique == PolicySpec => []CancelledOnce
<1>1. IInv => CancelledOnce
  BY DEF IInv
<1>2. QED
  BY <1>1, Invariance, PTL

(* No update undoes a field that a later or an overlapping PATCH wrote:     *)
(* save(update_fields) writes the body and not the object it was loaded in. *)
THEOREM PatchesAreKept == PolicySpec => []FieldsKeepLastPatch
<1>1. IInv => FieldsKeepLastPatch
  BY DEF IInv
<1>2. QED
  BY <1>1, Invariance, PTL

(* One step: an event that does not describe the row its transaction left   *)
(* is that of an update another write overtook.                             *)
LEMMA EventOfStep ==
    ASSUME IInv, PolicyNext, NEW p \in Policies, events'[p] # events[p]
    PROVE  LET e == events'[p][Len(events'[p])] IN
           EventOf(e.type, policy'[p]) = e \/ OvertakenUpdate(p)
<1> DEFINE last == events'[p][Len(events'[p])]
<1>1. events[p] \in Seq(PolicyEvent)
  BY DEF IInv, PolicyTypeOK
<1>2. ASSUME NEW o \in Policies, NEW e \in PolicyEvent, NEW row \in PolicyRow,
             policy' = [policy EXCEPT ![o] = row],
             events' = [events EXCEPT ![o] = Append(@, e)]
      PROVE  o = p /\ last = e /\ policy'[p] = row
  <2>1. o = p /\ policy'[p] = row /\ events'[p] = Append(events[p], e)
    BY <1>2, WritesOnePolicy DEF IInv
  <2>2. last = e
    BY <1>1, <2>1, Appended
  <2>3. QED
    BY <2>1, <2>2
<1>3. ASSUME NEW o \in Policies, NEW start \in Dates, NEW end \in Dates, CreatePolicy(o, start, end)
      PROVE  EventOf(last.type, policy'[p]) = last
  <2> DEFINE row == [status |-> "ACTIVE", start |-> start, end |-> end]
  <2>1. row \in PolicyRow /\ EventOf("policy.created", row) \in PolicyEvent
    BY DEF PolicyRow, PolicyEvent, EventOf, PolicyStatus
  <2>2. last = EventOf("policy.created", row) /\ policy'[p] = row
    BY <1>2, <1>3, <2>1 DEF CreatePolicy
  <2>3. QED
    BY <2>2 DEF EventOf
<1>4. ASSUME NEW t \in Callers, UpdatePolicy(t)
      PROVE  EventOf(last.type, policy'[p]) = last \/ OvertakenUpdate(p)
  <2> DEFINE q == request[t]
             row == Saved(q)
             e == EventOf("policy.updated", Patched(q.row, q.body))
  <2>1. /\ q \in PolicyRequest /\ q.body \in Patches /\ q.policy \in Policies
        /\ policy[q.policy] \in PolicyRow /\ q.row \in PolicyRow
        /\ q # NoRequest /\ q.op = "update" /\ q.seen \in Nat
        /\ q.seen <= Len(events[q.policy])
        /\ q.seen = Len(events[q.policy]) => q.row = policy[q.policy]
    BY <1>4 DEF UpdatePolicy, IInv, PolicyTypeOK, RequestsAreSound, PolicyRequest, Exists
  <2>2. row \in PolicyRow /\ Patched(q.row, q.body) \in PolicyRow
    BY <2>1, PatchedRow DEF Saved
  <2>3. e \in PolicyEvent /\ e.type = "policy.updated"
    BY <2>2 DEF EventOf, PolicyEvent, PolicyRow
  <2>4. /\ policy' = [policy EXCEPT ![q.policy] = row]
        /\ events' = [events EXCEPT ![q.policy] = Append(@, e)]
        /\ request'[t] = NoRequest
    BY <1>4 DEF UpdatePolicy, Finish, IInv, PolicyTypeOK
  <2> HIDE DEF row, e
  <2>5. q.policy = p /\ last = e /\ policy'[p] = row
    BY <1>2, <2>1, <2>2, <2>3, <2>4
  <2>6. CASE q.seen = Len(events[p])
    <3>1. row = Patched(q.row, q.body)
      BY <2>1, <2>5, <2>6 DEF row, Saved
    <3>2. EventOf("policy.updated", row) = e
      BY <3>1 DEF e
    <3>3. QED
      BY <2>3, <2>5, <3>2
  <2>7. CASE q.seen < Len(events[p])
    BY <2>1, <2>4, <2>5, <2>7 DEF OvertakenUpdate
  <2>8. QED
    <3>1. Len(events[p]) \in Nat
      BY <1>1, LenProperties
    <3>2. QED
      BY <2>1, <2>5, <2>6, <2>7, <3>1
<1>5. ASSUME NEW t \in Callers, CancelPolicy(t)
      PROVE  EventOf(last.type, policy'[p]) = last
  <2> DEFINE o == request[t].policy
             row == [policy[o] EXCEPT !.status = "CANCELLED"]
             e == EventOf("policy.cancelled", row)
  <2>1. o \in Policies /\ policy[o] \in PolicyRow
    BY <1>5 DEF CancelPolicy, IInv, PolicyTypeOK, RequestsAreSound, PolicyRequest, Exists
  <2>2. row \in PolicyRow /\ e \in PolicyEvent /\ e = EventOf(e.type, row)
    BY <2>1 DEF PolicyRow, PolicyStatus, EventOf, PolicyEvent
  <2>3. /\ policy' = [policy EXCEPT ![o] = row]
        /\ events' = [events EXCEPT ![o] = Append(@, e)]
    BY <1>5 DEF CancelPolicy, CancelledEvent
  <2> HIDE DEF row, e, o
  <2>4. last = e /\ policy'[p] = row
    BY <1>2, <2>1, <2>2, <2>3
  <2>5. QED
    BY <2>2, <2>4
<1>6. QED
  BY <1>3, <1>4, <1>5
     DEF PolicyNext, ServePolicy, LoadPolicy, RefusePolicyRequest, AbandonPolicyRequest

(* Policy-service announces what it committed, except when an update was    *)
(* overtaken between its load and its save: no other event may mislead.     *)
THEOREM EventsAreTrue == PolicySpec => EventsDescribeTheRow
<1> DEFINE Honest == \A p \in Policies : events'[p] # events[p] =>
          LET e == events'[p][Len(events'[p])] IN
          EventOf(e.type, policy'[p]) = e \/ OvertakenUpdate(p)
<1>1. IInv /\ [PolicyNext]_policyVars => [Honest]_policyVars
  BY EventOfStep
<1>2. PolicySpec => [][Honest]_policyVars
  BY <1>1, Invariance, PTL DEF PolicySpec
<1>3. QED
  BY <1>2 DEF EventsDescribeTheRow

----------------------------------------------------------------------------
(* Filing claims.                                                          *)

USE ProcessAssumption, FailMaxAssumption

(* A request beyond Call knows its policy.                                  *)
FilersKnowPolicy == \A f \in Filers : step[f] # "idle" => filing[f].policy \in Policies

Answered(f) == step[f] \in {"verified", "waiting", "locked"}

(* What verify knew: the events of then, none of them a cancellation.       *)
AnswerPrecedesCancellation(p, seen) ==
    seen <= Len(events[p]) /\ \A k \in Cancellations(p) : seen < k

AnswersPrecedeCancellations ==
    /\ \A i \in DOMAIN claims : AnswerPrecedesCancellation(claims[i].policy, claims[i].seen)
    /\ \A f \in Filers : Answered(f) => AnswerPrecedesCancellation(filing[f].policy, filing[f].seen)

(* The counter of a closed breaker counts failures in a row.                *)
CountersAreStreaks ==
    \A q \in Processes : breaker[q].state = "closed" => breaker[q].failures <= streak[q]

FilingIInv ==
    /\ TypeOK
    /\ FilersKnowPolicy
    /\ NumbersAreConsecutive
    /\ AnswersPrecedeCancellations
    /\ CountersAreStreaks

----------------------------------------------------------------------------
(* Policy-service does not depend on the claims.                           *)

(* Filing claims is invisible to the policies: whatever PolicyService       *)
(* promises holds while claims are filed.                                   *)
THEOREM PoliciesAreUnaffected == Spec => PolicySpec
<1>1. Init => PolicyInit
  BY DEF Init
<1>2. [Next]_vars => [PolicyNext]_policyVars
  BY DEF Next, vars
<1>3. QED
  BY <1>1, <1>2, PTL DEF Spec, PolicySpec

(* Events are only added, at the end: the cancellations of a policy after a *)
(* step are those before it, or newer than all its events.                  *)
LEMMA EventsGrow ==
    ASSUME IInv, PolicyNext, NEW p \in Policies
    PROVE  /\ Len(events[p]) \in Nat /\ Len(events'[p]) \in Nat
           /\ Len(events[p]) <= Len(events'[p])
           /\ \A k \in Cancellations(p)' : k \in Cancellations(p) \/ k > Len(events[p])
<1>1. events[p] \in Seq(PolicyEvent) /\ Len(events[p]) \in Nat
  BY LenProperties DEF IInv, PolicyTypeOK
<1>2. CASE events'[p] = events[p]
  BY <1>1, <1>2 DEF Cancellations
<1>3. ASSUME NEW e \in PolicyEvent, events'[p] = Append(events[p], e)
      PROVE  /\ Len(events'[p]) \in Nat /\ Len(events[p]) <= Len(events'[p])
             /\ \A k \in Cancellations(p)' : k \in Cancellations(p) \/ k > Len(events[p])
  <2>1. /\ Len(events'[p]) = Len(events[p]) + 1
        /\ DOMAIN events'[p] = DOMAIN events[p] \cup {Len(events[p]) + 1}
        /\ \A i \in DOMAIN events[p] : events'[p][i] = events[p][i]
    BY <1>1, <1>3, Appended
  <2>2. QED
    BY <1>1, <2>1 DEF Cancellations
<1>4. events'[p] = events[p] \/ \E e \in PolicyEvent : events'[p] = Append(events[p], e)
  <2>1. events \in [Policies -> Seq(PolicyEvent)]
    BY DEF IInv, PolicyTypeOK
  <2>2. ASSUME NEW o \in Policies, NEW e \in PolicyEvent, events' = [events EXCEPT ![o] = Append(@, e)]
        PROVE  events'[p] = events[p] \/ \E d \in PolicyEvent : events'[p] = Append(events[p], d)
    BY <2>1, <2>2
  <2>3. ASSUME NEW o \in Policies, NEW start \in Dates, NEW end \in Dates, CreatePolicy(o, start, end)
        PROVE  events'[p] = events[p] \/ \E d \in PolicyEvent : events'[p] = Append(events[p], d)
    <3>1. EventOf("policy.created", [status |-> "ACTIVE", start |-> start, end |-> end]) \in PolicyEvent
      BY DEF EventOf, PolicyEvent, PolicyStatus
    <3>2. QED
      BY <2>2, <2>3, <3>1 DEF CreatePolicy
  <2>4. ASSUME NEW t \in Callers, request[t] # NoRequest
        PROVE  /\ request[t].policy \in Policies
               /\ policy[request[t].policy] \in PolicyRow
               /\ request[t].row \in PolicyRow
               /\ request[t].op = "update" => request[t].body \in Patches
    BY <2>4 DEF IInv, PolicyTypeOK, RequestsAreSound, PolicyRequest, Exists
  <2>5. ASSUME NEW t \in Callers, UpdatePolicy(t)
        PROVE  events'[p] = events[p] \/ \E d \in PolicyEvent : events'[p] = Append(events[p], d)
    <3>1. Patched(request[t].row, request[t].body) \in PolicyRow
      BY <2>4, <2>5, PatchedRow DEF UpdatePolicy
    <3>2. EventOf("policy.updated", Patched(request[t].row, request[t].body)) \in PolicyEvent
      BY <3>1 DEF EventOf, PolicyEvent, PolicyRow
    <3>3. QED
      BY <2>2, <2>4, <2>5, <3>2 DEF UpdatePolicy
  <2>6. ASSUME NEW t \in Callers, CancelPolicy(t)
        PROVE  events'[p] = events[p] \/ \E d \in PolicyEvent : events'[p] = Append(events[p], d)
    <3>1. CancelledEvent(request[t]) \in PolicyEvent
      BY <2>4, <2>6 DEF CancelPolicy, CancelledEvent, EventOf, PolicyEvent, PolicyRow, PolicyStatus
    <3>2. QED
      BY <2>2, <2>4, <2>6, <3>1 DEF CancelPolicy
  <2>7. QED
    BY <2>3, <2>5, <2>6
       DEF PolicyNext, ServePolicy, LoadPolicy, RefusePolicyRequest, AbandonPolicyRequest
<1>5. QED
  BY <1>1, <1>2, <1>3, <1>4
----------------------------------------------------------------------------
(* The actions.                                                            *)

(* Before the first step there is no claim and no failure.                  *)
LEMMA FilingInvInit == Init => FilingIInv
<1> SUFFICES ASSUME Init PROVE FilingIInv
  OBVIOUS
<1>1. claims = <<>> /\ claims \in Seq(ClaimRow) /\ Len(claims) = 0 /\ DOMAIN claims = {}
  <2>1. claims = <<>> /\ claims \in Seq(ClaimRow) /\ Len(claims) = 0
    BY EmptySeq DEF Init, FilingInit
  <2>2. DOMAIN claims = 1..Len(claims)
    BY <2>1, LenProperties
  <2>3. QED
    BY <2>1, <2>2
<1>2. TypeOK
  BY <1>1, TypeInit DEF Init, FilingInit, TypeOK, NoFiling
<1>3. FilersKnowPolicy /\ NumbersAreConsecutive /\ AnswersPrecedeCancellations /\ CountersAreStreaks
  BY <1>1 DEF Init, FilingInit, FilersKnowPolicy, NumbersAreConsecutive,
              AnswersPrecedeCancellations, Answered, CountersAreStreaks
<1>4. QED
  BY <1>2, <1>3 DEF FilingIInv

(* A step of policy-service adds at most cancellations that are newer than  *)
(* what any answer of verify had seen.                                      *)
LEMMA PolicyStep ==
    ASSUME IInv, IInv', FilingIInv, PolicyNext, UNCHANGED filingVars
    PROVE  FilingIInv'
<1>1. UNCHANGED <<claims, breaker, streak, step, filing>>
  BY DEF filingVars
<1>2. TypeOK'
  BY <1>1 DEF FilingIInv, TypeOK, IInv
<1>3. FilersKnowPolicy' /\ NumbersAreConsecutive' /\ CountersAreStreaks'
  BY <1>1 DEF FilingIInv, FilersKnowPolicy, NumbersAreConsecutive, CountersAreStreaks
<1>4. ASSUME NEW p \in Policies, NEW seen \in Nat, AnswerPrecedesCancellation(p, seen)
      PROVE  AnswerPrecedesCancellation(p, seen)'
  <2>1. ASSUME NEW k \in Cancellations(p)' PROVE k \in Nat
    <3>1. events'[p] \in Seq(PolicyEvent)
      BY DEF IInv, PolicyTypeOK
    <3>2. QED
      BY <3>1, LenProperties DEF Cancellations
  <2>2. QED
    BY <1>4, <2>1, EventsGrow DEF AnswerPrecedesCancellation
<1>5. ASSUME NEW i \in DOMAIN claims PROVE claims[i].policy \in Policies /\ claims[i].seen \in Nat
  <2>1. claims[i] \in ClaimRow
    BY ElementOfSeq, LenProperties DEF FilingIInv, TypeOK
  <2>2. QED
    BY <2>1 DEF ClaimRow
<1>6. ASSUME NEW f \in Filers, Answered(f) PROVE filing[f].policy \in Policies /\ filing[f].seen \in Nat
  BY <1>6 DEF FilingIInv, TypeOK, FilersKnowPolicy, Answered
<1>7. AnswersPrecedeCancellations'
  BY <1>1, <1>4, <1>5, <1>6 DEF FilingIInv, AnswersPrecedeCancellations, Answered
<1>8. QED
  BY <1>2, <1>3, <1>7 DEF FilingIInv

(* The breaker after a success, or after a failure, is well typed, and its  *)
(* counter is a streak; it opens on a long enough streak only.              *)
LEMMA BreakerStep ==
    ASSUME TypeOK, CountersAreStreaks, NEW q \in Processes, CallSucceeded(q) \/ CallFailed(q)
    PROVE  /\ breaker' \in [Processes -> [state : {"closed", "open", "half-open"}, failures : 0..FailMax]]
           /\ streak' \in [Processes -> 0..FailMax]
           /\ CountersAreStreaks'
           /\ \A r \in Processes : breaker[r].state = "closed" /\ breaker'[r].state = "open"
                 => streak'[r] >= FailMax
<1>1. CASE CallSucceeded(q)
  BY <1>1 DEF CallSucceeded, TypeOK, CountersAreStreaks
<1>2. CASE CallFailed(q)
  BY <1>2 DEF CallFailed, Opens, TypeOK, CountersAreStreaks
<1>3. QED
  BY <1>1, <1>2

(* Steps that touch neither the claims nor any policy: what the others had  *)
(* heard is still so.                                                       *)
LEMMA RequestStep ==
    ASSUME FilingIInv, UNCHANGED policyVars, UNCHANGED claims, NEW f \in Filers,
           NEW place \in {"idle", "calling", "verified", "waiting", "locked"},
           NEW local \in [policy : Policies \cup {NoPolicy}, seen : Nat, last : 0..Len(claims)],
           step' = [step EXCEPT ![f] = place],
           filing' = [filing EXCEPT ![f] = local],
           place # "idle" => local.policy \in Policies,
           place \in {"verified", "waiting", "locked"} =>
               AnswerPrecedesCancellation(local.policy, local.seen)
    PROVE  /\ step' \in [Filers -> {"idle", "calling", "verified", "waiting", "locked"}]
           /\ filing' \in [Filers -> [policy : Policies \cup {NoPolicy}, seen : Nat, last : 0..Len(claims)]]
           /\ FilersKnowPolicy' /\ NumbersAreConsecutive' /\ AnswersPrecedeCancellations'
<1>1. /\ step \in [Filers -> {"idle", "calling", "verified", "waiting", "locked"}]
      /\ filing \in [Filers -> [policy : Policies \cup {NoPolicy}, seen : Nat, last : 0..Len(claims)]]
  BY DEF FilingIInv, TypeOK
<1>2. \A p, seen : AnswerPrecedesCancellation(p, seen)' <=> AnswerPrecedesCancellation(p, seen)
  BY DEF AnswerPrecedesCancellation, Cancellations, policyVars
<1>3. FilersKnowPolicy' /\ NumbersAreConsecutive'
  BY <1>1 DEF FilingIInv, FilersKnowPolicy, NumbersAreConsecutive
<1>4. AnswersPrecedeCancellations'
  BY <1>1, <1>2 DEF FilingIInv, AnswersPrecedeCancellations, Answered
<1>5. QED
  BY <1>1, <1>3, <1>4
(* Back to idle, the request keeps nothing.                                 *)
LEMMA RespondStep ==
    ASSUME FilingIInv, UNCHANGED policyVars, UNCHANGED claims, NEW f \in Filers, Respond(f)
    PROVE  /\ step' \in [Filers -> {"idle", "calling", "verified", "waiting", "locked"}]
           /\ filing' \in [Filers -> [policy : Policies \cup {NoPolicy}, seen : Nat, last : 0..Len(claims)]]
           /\ FilersKnowPolicy' /\ NumbersAreConsecutive' /\ AnswersPrecedeCancellations'
<1>1. Len(claims) \in Nat
  BY LenProperties DEF FilingIInv, TypeOK
<1>2. NoFiling \in [policy : Policies \cup {NoPolicy}, seen : Nat, last : 0..Len(claims)]
  BY <1>1 DEF NoFiling
<1>3. QED
  BY <1>2, RequestStep DEF Respond

(* While the answer is valid the policy is ACTIVE, so that no event of it   *)
(* is a cancellation.                                                       *)
LEMMA ValidAnswer ==
    ASSUME IInv, NEW p \in Policies, Accepted(p)
    PROVE  Len(events[p]) \in Nat /\ AnswerPrecedesCancellation(p, Len(events[p]))
<1>1. Len(events[p]) \in Nat
  BY LenProperties DEF IInv, PolicyTypeOK
<1>2. Cancellations(p) = {}
  BY DEF Accepted, IsValid, IInv, CancelledOnce
<1>3. QED
  BY <1>1, <1>2 DEF AnswerPrecedesCancellation

(* The number of an inserted claim is the next one: the unique index has    *)
(* none between the claim of the snapshot and the last one.                 *)
LEMMA InsertStep ==
    ASSUME FilingIInv, UNCHANGED policyVars, NEW f \in Filers, Insert(f)
    PROVE  FilingIInv'
<1> DEFINE n == NextNumber(f)
           c == [number |-> n, policy |-> filing[f].policy, seen |-> filing[f].seen]
<1>1. /\ claims \in Seq(ClaimRow) /\ Len(claims) \in Nat /\ DOMAIN claims = 1..Len(claims)
      /\ filing[f].policy \in Policies /\ filing[f].seen \in Nat /\ filing[f].last \in 0..Len(claims)
      /\ \A i \in 1..Len(claims) : claims[i].number = i
  BY LenProperties DEF Insert, FilingIInv, TypeOK, FilersKnowPolicy, NumbersAreConsecutive
<1>2. n = filing[f].last + 1
  BY <1>1 DEF NextNumber
<1>3. n = Len(claims) + 1
  <2>1. \A i \in 1..Len(claims) : i # n
    BY <1>1 DEF Insert, Unique
  <2>2. QED
    BY <1>1, <1>2, <2>1
<1>4. c \in ClaimRow /\ claims' = Append(claims, c) /\ Respond(f) /\ UNCHANGED <<breaker, streak>>
  BY <1>1, <1>3 DEF Insert, ClaimRow
<1>5. /\ claims' \in Seq(ClaimRow) /\ Len(claims') = Len(claims) + 1
      /\ DOMAIN claims' = DOMAIN claims \cup {Len(claims) + 1}
      /\ \A i \in DOMAIN claims : claims'[i] = claims[i]
      /\ claims'[Len(claims) + 1] = c
  BY <1>1, <1>4, Appended
<1>6. /\ step' = [step EXCEPT ![f] = "idle"] /\ filing' = [filing EXCEPT ![f] = NoFiling]
      /\ \A g \in Filers \ {f} : step'[g] = step[g] /\ filing'[g] = filing[g]
      /\ step'[f] = "idle"
  BY <1>4 DEF Respond, FilingIInv, TypeOK
<1>7. TypeOK'
  <2>1. PolicyTypeOK'
    BY DEF FilingIInv, TypeOK, PolicyTypeOK, policyVars
  <2>2. 0..Len(claims) \subseteq 0..Len(claims')
    BY <1>1, <1>5
  <2>3. NoFiling \in [policy : Policies \cup {NoPolicy}, seen : Nat, last : 0..Len(claims')]
    BY <1>1, <1>5 DEF NoFiling
  <2>4. filing' \in [Filers -> [policy : Policies \cup {NoPolicy}, seen : Nat, last : 0..Len(claims')]]
    BY <1>6, <2>2, <2>3 DEF FilingIInv, TypeOK
  <2>5. QED
    BY <1>4, <1>5, <1>6, <2>1, <2>4 DEF FilingIInv, TypeOK
<1>8. FilersKnowPolicy' /\ CountersAreStreaks'
  BY <1>4, <1>6 DEF FilingIInv, FilersKnowPolicy, CountersAreStreaks
<1>9. NumbersAreConsecutive'
  BY <1>1, <1>3, <1>5 DEF NumbersAreConsecutive
<1>10. AnswersPrecedeCancellations'
  <2>1. \A p, seen : AnswerPrecedesCancellation(p, seen)' <=> AnswerPrecedesCancellation(p, seen)
    BY DEF AnswerPrecedesCancellation, Cancellations, policyVars
  <2>2. AnswerPrecedesCancellation(filing[f].policy, filing[f].seen)
    BY DEF Insert, FilingIInv, AnswersPrecedeCancellations, Answered
  <2>3. \A i \in DOMAIN claims' : AnswerPrecedesCancellation(claims'[i].policy, claims'[i].seen)
    BY <1>5, <2>2 DEF FilingIInv, AnswersPrecedeCancellations
  <2>4. \A g \in Filers : Answered(g)' => AnswerPrecedesCancellation(filing'[g].policy, filing'[g].seen)
    BY <1>6 DEF FilingIInv, AnswersPrecedeCancellations, Answered
  <2>5. QED
    BY <2>1, <2>3, <2>4 DEF AnswersPrecedeCancellations
<1>11. QED
  BY <1>7, <1>8, <1>9, <1>10 DEF FilingIInv

(* The steps of a filing request.                                           *)
LEMMA FileStep ==
    ASSUME IInv, FilingIInv, UNCHANGED policyVars, NEW f \in Filers, File(f)
    PROVE  FilingIInv'
<1> DEFINE Steps == {"idle", "calling", "verified", "waiting", "locked"}
           Locals == [policy : Policies \cup {NoPolicy}, seen : Nat, last : 0..Len(claims)]
           Rest == /\ step' \in [Filers -> Steps] /\ filing' \in [Filers -> Locals]
                   /\ FilersKnowPolicy' /\ NumbersAreConsecutive' /\ AnswersPrecedeCancellations'
<1>1. /\ step[f] \in Steps /\ filing[f] \in Locals /\ Len(claims) \in Nat
      /\ step[f] # "idle" => filing[f].policy \in Policies
      /\ step[f] \in {"verified", "waiting", "locked"} =>
            AnswerPrecedesCancellation(filing[f].policy, filing[f].seen)
      /\ step \in [Filers -> Steps] /\ filing \in [Filers -> Locals]
  BY LenProperties DEF FilingIInv, TypeOK, FilersKnowPolicy, AnswersPrecedeCancellations, Answered
<1>2. PolicyTypeOK'
  BY DEF FilingIInv, TypeOK, PolicyTypeOK, policyVars
<1>3. ASSUME UNCHANGED <<claims, breaker, streak>>, Rest PROVE FilingIInv'
  BY <1>2, <1>3 DEF FilingIInv, TypeOK, CountersAreStreaks
<1>4. ASSUME UNCHANGED claims, CallSucceeded(ProcessOf[f]) \/ CallFailed(ProcessOf[f]), Rest
      PROVE  FilingIInv'
  BY <1>2, <1>4, BreakerStep DEF FilingIInv, TypeOK
<1>5. ASSUME NEW p \in Policies, Call(f, p) PROVE FilingIInv'
  <2>1. filing' = [filing EXCEPT ![f] = [filing[f] EXCEPT !.policy = p]]
    BY <1>1, <1>5 DEF Call
  <2>2. [filing[f] EXCEPT !.policy = p] \in Locals /\ [filing[f] EXCEPT !.policy = p].policy = p
    BY <1>1
  <2>3. Rest
    BY <1>5, <2>1, <2>2, RequestStep DEF Call
  <2>4. QED
    BY <1>3, <1>5, <2>3 DEF Call
<1>6. CASE AnswerValid(f)
  <2> DEFINE p == filing[f].policy
             form == [filing[f] EXCEPT !.seen = Len(events[p])]
  <2>1. p \in Policies /\ Len(events[p]) \in Nat /\ AnswerPrecedesCancellation(p, Len(events[p]))
    BY <1>1, <1>6, ValidAnswer DEF AnswerValid
  <2>2. form \in Locals /\ form.policy = p /\ form.seen = Len(events[p])
    BY <1>1, <2>1
  <2>3. filing' = [filing EXCEPT ![f] = form] /\ step' = [step EXCEPT ![f] = "verified"] /\ claims' = claims
    BY <1>1, <1>6 DEF AnswerValid
  <2> HIDE DEF form
  <2>4. Rest
    BY <2>1, <2>2, <2>3, RequestStep
  <2>5. QED
    BY <1>4, <1>6, <2>4 DEF AnswerValid
<1>7. CASE AnswerInvalid(f) \/ AnswerUnknown(f) \/ AnswerRefused(f) \/ CallFails(f)
  BY <1>4, <1>7, RespondStep
     DEF AnswerInvalid, AnswerUnknown, AnswerRefused, BusinessErrorExcluded, CallFails
<1>8. CASE ReadLast(f)
  <2> DEFINE form == [filing[f] EXCEPT !.last = Len(claims)]
  <2>1. form \in Locals /\ form.policy = filing[f].policy /\ form.seen = filing[f].seen
    <3>1. Len(claims) \in 0..Len(claims) /\ filing[f] \in Locals
      BY <1>1
    <3>2. \A l \in 0..Len(claims) :
             /\ [filing[f] EXCEPT !.last = l] \in Locals
             /\ [filing[f] EXCEPT !.last = l].policy = filing[f].policy
             /\ [filing[f] EXCEPT !.last = l].seen = filing[f].seen
      BY <3>1
    <3>3. QED
      BY <3>1, <3>2
  <2>2. filing' = [filing EXCEPT ![f] = form] /\ step' = [step EXCEPT ![f] = "waiting"]
    BY <1>8 DEF ReadLast
  <2>3. /\ claims' = claims /\ form.policy \in Policies
        /\ AnswerPrecedesCancellation(form.policy, form.seen)
    BY <1>1, <1>8, <2>1 DEF ReadLast
  <2> HIDE DEF form
  <2>4. Rest
    BY <2>1, <2>2, <2>3, RequestStep
  <2>5. QED
    BY <1>3, <1>8, <2>4 DEF ReadLast
<1>9. CASE LockLast(f)
  <2>1. filing' = [filing EXCEPT ![f] = filing[f]]
    BY <1>1, <1>9 DEF LockLast
  <2>2. /\ claims' = claims /\ step' = [step EXCEPT ![f] = "locked"]
        /\ filing[f].policy \in Policies
        /\ AnswerPrecedesCancellation(filing[f].policy, filing[f].seen)
    BY <1>1, <1>9 DEF LockLast
  <2>3. Rest
    BY <1>1, <2>1, <2>2, RequestStep
  <2>4. QED
    BY <1>3, <1>9, <2>3 DEF LockLast
<1>10. CASE Insert(f)
  BY <1>10, InsertStep
<1>11. CASE Collide(f) \/ AbandonFiling(f)
  BY <1>3, <1>11, RespondStep DEF Collide, AbandonFiling
<1>12. QED
  BY <1>5, <1>6, <1>7, <1>8, <1>9, <1>10, <1>11 DEF File
(* reset_timeout passes: a breaker that is not closed counts for nothing.   *)
LEMMA HalfOpenStep ==
    ASSUME FilingIInv, UNCHANGED policyVars, NEW q \in Processes, HalfOpen(q)
    PROVE  FilingIInv'
<1>1. TypeOK'
  BY DEF HalfOpen, FilingIInv, TypeOK, PolicyTypeOK, policyVars
<1>2. FilersKnowPolicy' /\ NumbersAreConsecutive' /\ CountersAreStreaks'
  BY DEF HalfOpen, FilingIInv, TypeOK, FilersKnowPolicy, NumbersAreConsecutive, CountersAreStreaks
<1>3. AnswersPrecedeCancellations'
  BY DEF HalfOpen, FilingIInv, AnswersPrecedeCancellations, Answered,
         AnswerPrecedesCancellation, Cancellations, policyVars
<1>4. QED
  BY <1>1, <1>2, <1>3 DEF FilingIInv

(* Every step of the two services keeps the invariant.                      *)
LEMMA FilingInvStep == IInv /\ IInv' /\ FilingIInv /\ [Next]_vars => FilingIInv'
<1> SUFFICES ASSUME IInv, IInv', FilingIInv, [Next]_vars PROVE FilingIInv'
  OBVIOUS
<1>1. CASE PolicyNext /\ UNCHANGED filingVars
  BY <1>1, PolicyStep
<1>2. CASE FilingNext /\ UNCHANGED policyVars
  BY <1>2, FileStep, HalfOpenStep DEF FilingNext
<1>3. CASE UNCHANGED vars
  <2>1. UNCHANGED <<policy, events, patched, request, claims, breaker, streak, step, filing>>
    BY <1>3 DEF vars, policyVars, filingVars
  <2>2. QED
    BY <2>1 DEF FilingIInv, TypeOK, PolicyTypeOK, FilersKnowPolicy, NumbersAreConsecutive,
                CountersAreStreaks, AnswersPrecedeCancellations, Answered,
                AnswerPrecedesCancellation, Cancellations
<1>4. QED
  BY <1>1, <1>2, <1>3 DEF Next

(* So both invariants hold always.                                          *)
LEMMA FilingInvariance == Spec => [](IInv /\ FilingIInv)
<1>1. Spec => []IInv
  BY PoliciesAreUnaffected, Invariance, PTL
<1>2. QED
  BY <1>1, FilingInvInit, FilingInvStep, PTL DEF Spec

----------------------------------------------------------------------------
(* The theorems.                                                           *)

(* The variables of both services keep their types; the number of a claim   *)
(* is never 0 and a counter never beyond fail_max.                          *)
THEOREM FilingTypeCorrect == Spec => []TypeOK
<1>1. FilingIInv => TypeOK
  BY DEF FilingIInv
<1>2. QED
  BY <1>1, FilingInvariance, PTL

(* Claim numbers are 1, 2, 3, ... in the order of the commits, however many *)
(* requests compute theirs from an old snapshot.                            *)
THEOREM ClaimNumbersHaveNoHoles == Spec => []NumbersAreConsecutive
<1>1. FilingIInv => NumbersAreConsecutive
  BY DEF FilingIInv
<1>2. QED
  BY <1>1, FilingInvariance, PTL

(* No claim is filed on a policy that was cancelled when verify answered.   *)
THEOREM VerifyIsHeeded == Spec => []NoClaimOnKnownCancellation
<1>1. FilingIInv => NoClaimOnKnownCancellation
  BY DEF FilingIInv, AnswersPrecedeCancellations, AnswerPrecedesCancellation, NoClaimOnKnownCancellation
<1>2. QED
  BY <1>1, FilingInvariance, PTL

(* A closed breaker opens only in the step of the FailMax-th call in a row  *)
(* that had no answer.                                                      *)
THEOREM BreakerOpensOnFailures == Spec => OpensOnFailuresOnly
<1> DEFINE Justified == \A q \in Processes : breaker[q].state = "closed" /\ breaker'[q].state = "open"
                            => streak'[q] >= FailMax
<1>1. ASSUME FilingIInv, Next PROVE Justified
  <2>1. CASE PolicyNext /\ UNCHANGED filingVars
    BY <2>1 DEF filingVars
  <2>2. ASSUME NEW f \in Filers, File(f) PROVE Justified
    <3>1. CASE CallSucceeded(ProcessOf[f]) \/ CallFailed(ProcessOf[f])
      BY <1>1, <3>1, BreakerStep DEF FilingIInv
    <3>2. CASE UNCHANGED breaker
      BY <3>2
    <3>3. QED
      BY <2>2, <3>1, <3>2
         DEF File, Call, AnswerValid, AnswerInvalid, AnswerUnknown, AnswerRefused,
             BusinessErrorExcluded, CallFails,
             ReadLast, LockLast, Insert, Collide, AbandonFiling
  <2>3. ASSUME NEW q \in Processes, HalfOpen(q) PROVE Justified
    BY <1>1, <2>3 DEF HalfOpen, FilingIInv, TypeOK
  <2>4. QED
    BY <1>1, <2>1, <2>2, <2>3 DEF Next, FilingNext
<1>2. FilingIInv /\ [Next]_vars => [Justified]_vars
  BY <1>1
<1>3. Spec => [][Justified]_vars
  BY <1>2, FilingInvariance, PTL DEF Spec
<1>4. QED
  BY <1>3 DEF OpensOnFailuresOnly
=============================================================================
