---------------------------- MODULE ClaimFiling ----------------------------
(***************************************************************************)
(* POST /api/claims/claims/ of claims-service, over the policies of        *)
(* PolicyService: the call to verify through the circuit breaker of the    *)
(* process, the claim number computed from the last claim, the insert.     *)
(*                                                                         *)
(* One request goes through                                                *)
(*   Call       the breaker lets the HTTP call start (else 503 at once);   *)
(*   Answer...  policy-service reads the policy and the answer arrives, or *)
(*              the call fails (400 or 503);                               *)
(*   ReadLast   the transaction starts and the SELECT for the last claim   *)
(*              takes its snapshot;                                        *)
(*   LockLast   FOR UPDATE has waited for the lock of that row; what was   *)
(*              committed meanwhile is not in the snapshot;                *)
(*   Insert     claim, history row and claim.filed become visible, or      *)
(*   Collide    the unique index refuses the number and the answer is 500. *)
(*                                                                         *)
(* pybreaker and PostgreSQL are external.  The breaker is modelled as it   *)
(* is configured in clients.py; calls of one process may overlap.          *)
(***************************************************************************)
EXTENDS PolicyService

CONSTANTS
    Filers,         \* threads of claims-service that serve the POST
    Processes,      \* worker processes of gunicorn, each with its breaker
    ProcessOf,      \* the process of each thread
    FailMax,        \* fail_max of the breaker
    MaxClaims       \* bound of the model: claims after which no request starts

ASSUME ProcessAssumption == ProcessOf \in [Filers -> Processes]
ASSUME FailMaxAssumption == FailMax \in Nat \ {0}

VARIABLES
    claims,     \* the committed claims in the order of the commits
    breaker,    \* breaker[q]: state and failure counter of process q
    streak,     \* history of the model: failed calls of q since its last answer
    step,       \* step[f]: where thread f is in file_claim
    filing      \* filing[f]: the local variables of file_claim in thread f

filingVars == <<claims, breaker, streak, step, filing>>
vars == <<policyVars, filingVars>>

----------------------------------------------------------------------------
NoFiling == [policy |-> NoPolicy, seen |-> 0, last |-> 0]

FilingInit ==
    /\ claims = <<>>
    /\ breaker = [q \in Processes |-> [state |-> "closed", failures |-> 0]]
    /\ streak = [q \in Processes |-> 0]
    /\ step = [f \in Filers |-> "idle"]
    /\ filing = [f \in Filers |-> NoFiling]

Respond(f) ==
    /\ step' = [step EXCEPT ![f] = "idle"]
    /\ filing' = [filing EXCEPT ![f] = NoFiling]

(* pybreaker: a success resets the counter and closes a half-open breaker.  *)
CallSucceeded(q) ==
    /\ breaker' = [breaker EXCEPT ![q] =
          IF @.state = "open" THEN @ ELSE [state |-> "closed", failures |-> 0]]
    /\ streak' = [streak EXCEPT ![q] = 0]

(* pybreaker: the failure that reaches fail_max, and any failure of a       *)
(* half-open breaker, opens it.                                             *)
Opens(q) == breaker[q].state # "closed" \/ breaker[q].failures + 1 >= FailMax

CallFailed(q) ==
    /\ breaker' = [breaker EXCEPT ![q] =
          [state |-> IF Opens(q) THEN "open" ELSE "closed",
           failures |-> IF @.failures < FailMax THEN @.failures + 1 ELSE FailMax]]
    /\ streak' = [streak EXCEPT ![q] = IF @ < FailMax THEN @ + 1 ELSE FailMax]

(* pybreaker: reset_timeout has passed.                                     *)
HalfOpen(q) ==
    /\ breaker[q].state = "open"
    /\ breaker' = [breaker EXCEPT ![q].state = "half-open"]
    /\ UNCHANGED <<claims, streak, step, filing>>

----------------------------------------------------------------------------
(* verify_policy.                                                          *)

Call(f, p) ==
    /\ step[f] = "idle"
    /\ Len(claims) < MaxClaims
    /\ breaker[ProcessOf[f]].state # "open"
    /\ step' = [step EXCEPT ![f] = "calling"]
    /\ filing' = [filing EXCEPT ![f].policy = p]
    /\ UNCHANGED <<claims, breaker, streak>>

(* The view of policy-service, at the moment it reads the policy.           *)
IsValid(p) == Exists(p) /\ policy[p].status = "ACTIVE"

(* Mutated form: is_valid is not looked at.                                 *)
AcceptedUnlooked(p) == Exists(p)

Accepted(p) == IsValid(p)

AnswerValid(f) ==
    /\ step[f] = "calling"
    /\ Accepted(filing[f].policy)
    /\ CallSucceeded(ProcessOf[f])
    /\ step' = [step EXCEPT ![f] = "verified"]
    /\ filing' = [filing EXCEPT ![f].seen = Len(events[filing[f].policy])]
    /\ UNCHANGED claims

(* 200 with is_valid false: a success for the breaker, 400 for the client.  *)
AnswerInvalid(f) ==
    /\ step[f] = "calling"
    /\ Exists(filing[f].policy)
    /\ ~Accepted(filing[f].policy)
    /\ CallSucceeded(ProcessOf[f])
    /\ Respond(f)
    /\ UNCHANGED claims

(* Mutated form: a 4xx is not excluded and counts as a failure.             *)
BusinessErrorCounts(q) ==
    /\ breaker' = [breaker EXCEPT ![q] =
          [state |-> IF Opens(q) THEN "open" ELSE "closed", failures |-> breaker[q].failures + 1]]
    /\ streak' = [streak EXCEPT ![q] = 0]

(* _ClientBusinessError is excluded from the failures of the breaker.       *)
BusinessErrorExcluded(q) == CallSucceeded(q)

AnswerUnknown(f) ==
    /\ step[f] = "calling"
    /\ ~Exists(filing[f].policy)
    /\ BusinessErrorExcluded(ProcessOf[f])
    /\ Respond(f)
    /\ UNCHANGED claims

(* Any other 4xx: the request itself is refused, whether the policy exists  *)
(* or not.  503, and for the breaker an answer like a 404.                  *)
AnswerRefused(f) ==
    /\ step[f] = "calling"
    /\ BusinessErrorExcluded(ProcessOf[f])
    /\ Respond(f)
    /\ UNCHANGED claims

(* 5xx, time-out or no connection: 503.  An answer, a 4xx included, whose   *)
(* body is not JSON: response.json() raises inside the breaker, a 500.      *)
CallFails(f) ==
    /\ step[f] = "calling"
    /\ CallFailed(ProcessOf[f])
    /\ Respond(f)
    /\ UNCHANGED claims

----------------------------------------------------------------------------
(* The transaction of file_claim.                                          *)

ReadLast(f) ==
    /\ step[f] = "verified"
    /\ step' = [step EXCEPT ![f] = "waiting"]
    /\ filing' = [filing EXCEPT ![f].last = Len(claims)]
    /\ UNCHANGED <<claims, breaker, streak>>

(* With no claim to lock, nobody waits.                                     *)
LastIsFree(f) ==
    filing[f].last = 0 \/ \A g \in Filers : step[g] = "locked" => filing[g].last # filing[f].last

LockLast(f) ==
    /\ step[f] = "waiting"
    /\ LastIsFree(f)
    /\ step' = [step EXCEPT ![f] = "locked"]
    /\ UNCHANGED <<claims, breaker, streak, filing>>

(* Mutated form: the first claim of the year is numbered 0.                 *)
NextNumberFromZero(f) == IF filing[f].last = 0 THEN 0 ELSE claims[filing[f].last].number + 1

(* generate_claim_number: one more than the last claim of the snapshot.     *)
NextNumber(f) == IF filing[f].last = 0 THEN 1 ELSE claims[filing[f].last].number + 1

(* Mutated form: the column is not unique.                                  *)
UniqueNever(n) == TRUE

Unique(n) == \A i \in DOMAIN claims : claims[i].number # n

Insert(f) ==
    /\ step[f] = "locked"
    /\ Unique(NextNumber(f))
    /\ claims' = Append(claims, [number |-> NextNumber(f), policy |-> filing[f].policy, seen |-> filing[f].seen])
    /\ Respond(f)
    /\ UNCHANGED <<breaker, streak>>

Collide(f) ==
    /\ step[f] = "locked"
    /\ ~Unique(NextNumber(f))
    /\ Respond(f)
    /\ UNCHANGED <<claims, breaker, streak>>

(* The thread dies or the database refuses: nothing is committed.           *)
AbandonFiling(f) ==
    /\ step[f] \in {"verified", "waiting", "locked"}
    /\ Respond(f)
    /\ UNCHANGED <<claims, breaker, streak>>

File(f) ==
    \/ \E p \in Policies : Call(f, p)
    \/ AnswerValid(f) \/ AnswerInvalid(f) \/ AnswerUnknown(f) \/ AnswerRefused(f)
    \/ CallFails(f)
    \/ ReadLast(f) \/ LockLast(f) \/ Insert(f) \/ Collide(f) \/ AbandonFiling(f)

FilingNext ==
    \/ \E f \in Filers : File(f)
    \/ \E q \in Processes : HalfOpen(q)

Init == PolicyInit /\ FilingInit

Next ==
    \/ PolicyNext /\ UNCHANGED filingVars
    \/ FilingNext /\ UNCHANGED policyVars

Spec == Init /\ [][Next]_vars

----------------------------------------------------------------------------
(* Properties.                                                             *)

ClaimRow == [number : Nat \ {0}, policy : Policies, seen : Nat]

TypeOK ==
    /\ PolicyTypeOK
    /\ claims \in Seq(ClaimRow)
    /\ breaker \in [Processes -> [state : {"closed", "open", "half-open"}, failures : 0..FailMax]]
    /\ streak \in [Processes -> 0..FailMax]
    /\ step \in [Filers -> {"idle", "calling", "verified", "waiting", "locked"}]
    /\ filing \in [Filers -> [policy : Policies \cup {NoPolicy}, seen : Nat, last : 0..Len(claims)]]

(* Claim numbers have neither repetitions nor holes and follow the order of *)
(* the commits, although each is computed from a snapshot that other        *)
(* requests may have outdated: the request that lost the race has no claim. *)
NumbersAreConsecutive == \A i \in DOMAIN claims : claims[i].number = i

(* A claim is never filed on a policy that was cancelled before the answer  *)
(* of verify was given: what policy-service knew then, it said, and         *)
(* claims-service heeded it.  (A cancellation between the answer and the    *)
(* insert is not noticed.)                                                  *)
NoClaimOnKnownCancellation ==
    \A i \in DOMAIN claims : \A k \in Cancellations(claims[i].policy) : claims[i].seen < k

(* A breaker that was closed opens only after FailMax calls in a row that   *)
(* policy-service did not answer: unknown and inactive policies are         *)
(* answers.                                                                 *)
OpensOnFailuresOnly ==
    [][\A q \in Processes : breaker[q].state = "closed" /\ breaker'[q].state = "open"
          => streak'[q] >= FailMax]_vars
=============================================================================
