------------------------------ MODULE Overview ------------------------------
(***************************************************************************)
(* The numbers of the overview page: get_metrics of policy-service, claims- *)
(* service and notification-service.  Each answers with several numbers,   *)
(* one statement each and no transaction around them, while rows are       *)
(* inserted and change their status between two statements.                *)
(*                                                                         *)
(* The three services share no table and no number is computed from two of *)
(* them, so the module has the table of one, any of the three.  A number   *)
(* is the set of rows that its statement counts (or sums, or groups); of a *)
(* status the model keeps what the statements tell apart.                  *)
(*                                                                         *)
(* All rows are of today: those of earlier days are in none of the numbers *)
(* of today, and the hour of midnight is left out, as is the number of     *)
(* days in avg_resolution_days.                                            *)
(***************************************************************************)
EXTENDS Integers, Sequences, FiniteSets

CONSTANTS Items, Absent     \* the rows of the table, and what a row to come has for a status

Services == {"policy", "claims", "notification"}

Standing == [policy       |-> {"active", "inactive"},
             claims       |-> {"open", "resolved"},
             notification |-> {"pending", "sent", "failed"}]

ASSUME AbsentAssumption == \A s \in Services : Absent \notin Standing[s]

VARIABLES
    service,    \* whose table it is
    standing,   \* standing[i]: the committed status of row i
    counted,    \* counted[n]: the rows in the n-th number of the answer
    fresh,      \* history of the model: the rows that came since it was asked for
    astray      \* history of the model: the rows that did not follow their table

overviewVars == <<service, standing, counted, fresh, astray>>

----------------------------------------------------------------------------
(* What happens to the rows.                                               *)

(* What a row is inserted with.                                             *)
First == [policy |-> "active", claims |-> "open", notification |-> "pending"]

(* A policy is cancelled; a claim is resolved; a mail is sent or refused,   *)
(* and sent by a retry.                                                     *)
Forward == [policy       |-> {<<"active", "inactive">>},
            claims       |-> {<<"open", "resolved">>},
            notification |-> {<<"pending", "sent">>, <<"pending", "failed">>, <<"failed", "sent">>}]

(* A transition that was overtaken opens a resolved claim again; a task     *)
(* that is delivered again fails to send what was sent.                     *)
Backward == [policy       |-> {},
             claims       |-> {<<"resolved", "open">>},
             notification |-> {<<"sent", "failed">>}]

InsertRow(i) ==
    /\ standing[i] = Absent
    /\ standing' = [standing EXCEPT ![i] = First[service]]
    /\ fresh' = fresh \cup {i}
    /\ UNCHANGED <<service, counted, astray>>

MoveRow(i, to) ==
    /\ <<standing[i], to>> \in Forward[service] \cup Backward[service]
    /\ standing' = [standing EXCEPT ![i] = to]
    /\ astray' = IF <<standing[i], to>> \in Backward[service] THEN astray \cup {i} ELSE astray
    /\ UNCHANGED <<service, counted, fresh>>

----------------------------------------------------------------------------
(* The statements of get_metrics, in their order, by the rows they count.   *)

(* policies_by_type, total_premium, active_policies, policies_today.        *)
PolicyNumbers == <<{"active"}, {"active"}, {"active"}, {"active", "inactive"}>>

(* RESOLVED in claims_by_status, open_claims, claims_today.                 *)
ClaimNumbers == <<{"resolved"}, {"open"}, {"open", "resolved"}>>

(* Mutated form: the rate is of what was sent first.                        *)
RateOfSent == <<{"sent"}, {"failed"}, {"pending"}, {"sent"}>>

(* Mutated form: what is on its way is counted first.                       *)
PendingFirst == <<{"pending"}, {"sent"}, {"failed"}, {"sent", "failed"}>>

(* sent_today, failed_today, pending, the rows of success_rate_7d.          *)
NotificationNumbers == <<{"sent"}, {"failed"}, {"pending"}, {"sent", "failed"}>>

Numbers == [policy |-> PolicyNumbers, claims |-> ClaimNumbers, notification |-> NotificationNumbers]

Statement ==
    /\ Len(counted) < Len(Numbers[service])
    /\ counted' = Append(counted, {i \in Items : standing[i] \in Numbers[service][Len(counted) + 1]})
    /\ UNCHANGED <<service, standing, fresh, astray>>

(* The page is opened or loaded again, and each service is asked anew.      *)
Ask ==
    /\ counted' = <<>>
    /\ fresh' = {}
    /\ astray' = {}
    /\ UNCHANGED <<service, standing>>

OverviewInit ==
    /\ service \in Services
    /\ standing \in [Items -> Standing[service] \cup {Absent}]
    /\ counted = <<>>
    /\ fresh = {}
    /\ astray = {}

OverviewNext ==
    \/ Statement \/ Ask
    \/ \E i \in Items : InsertRow(i) \/ \E to \in Standing[service] : MoveRow(i, to)

OverviewSpec == OverviewInit /\ [][OverviewNext]_overviewVars

----------------------------------------------------------------------------
(* Properties.                                                             *)

(* The table has the statuses of its service, and an answer no more numbers *)
(* than there are statements.                                               *)
OverviewTypeOK ==
    /\ service \in Services
    /\ standing \in [Items -> Standing[service] \cup {Absent}]
    /\ counted \in Seq(SUBSET Items) /\ Len(counted) <= Len(Numbers[service])
    /\ fresh \in SUBSET Items /\ astray \in SUBSET Items

(* The rows of the n-th number, none while it is not there.                 *)
Number(n) == IF n <= Len(counted) THEN counted[n] ELSE {}

AllCounted == Len(counted) = Len(Numbers[service])

(* No row is in two numbers for two statuses, although they were counted    *)
(* one after the other: a claim shown as resolved is not open, and a        *)
(* notification is sent, failed or pending.  Only a row that went back in   *)
(* between is counted twice.                                                *)
NothingCountsTwice ==
    /\ service = "claims" => Number(1) \cap Number(2) \subseteq astray
    /\ service = "notification" =>
          /\ Number(1) \cap Number(2) \subseteq astray
          /\ (Number(1) \cup Number(2)) \cap Number(3) = {}

(* What the page shows as a part is in the whole it shows with it, though   *)
(* the two are counted at different times: an active policy has its type    *)
(* and its premium in the sums, unless it was created in between, and it is *)
(* one of those of today; an open claim is one of those of today; what was  *)
(* sent or failed is in the rate.                                           *)
PartsAreInTheirWhole ==
    /\ service = "policy" =>
          /\ Number(3) \ fresh \subseteq Number(2)
          /\ Number(2) \ fresh \subseteq Number(1)
          /\ AllCounted => Number(3) \subseteq Number(4)
    /\ service = "claims" /\ AllCounted => Number(2) \subseteq Number(3)
    /\ service = "notification" /\ AllCounted => Number(1) \cup Number(2) \subseteq Number(4)

(* The numbers that the page shows side by side agree as their names say,   *)
(* whatever was written between the statements of get_metrics.              *)
NumbersAgree == NothingCountsTwice /\ PartsAreInTheirWhole
=============================================================================
