-------------------- MODULE NotificationDelivery_proofs --------------------
(***************************************************************************)
(* Theorems of NotificationDelivery for any events, ids, workers, retries  *)
(* and faults.  The invariant has two parts.  The consumer's is the account*)
(* of what was read.  The workers' follows a notification from the moment  *)
(* its id is drawn: nobody knows of an id before the task is in Redis, its *)
(* one task moves from Redis to a worker and back with the next try, and   *)
(* each place on the way knows what has been written and sent by then.     *)
(***************************************************************************)
EXTENDS NotificationDelivery, TLAPS

Handled(n) == log[n] = Garbage \/ Stored(log[n]) \/ n \in failed

InTransaction == pc \in {"inserted", "queued"}
InHand == pc \in {"handling", "inserted", "queued"}

(* Offsets, in the broker and on the way there, are of messages that were   *)
(* read.                                                                    *)
OffsetsAreRead ==
    /\ committed <= position /\ inflight <= position /\ position <= Len(log)
    /\ pc = "down" => inflight = 0

(* The message in hand is an event; the row of the open transaction is the  *)
(* first one of its event.                                                  *)
DraftIsNew ==
    /\ InHand => position \in DOMAIN log /\ Message \in Events
    /\ InTransaction => draft \in used /\ note[draft] = NoRow /\ ~Stored(Message)

ReadIsHandled ==
    pc # "down" => \A n \in 1..position : Handled(n) \/ (InHand /\ n = position)

PassedIsHandled ==
    \A n \in Nat \ {0} : n <= committed \/ n <= inflight => Handled(n)

ConsumerInv == OffsetsAreRead /\ DraftIsNew /\ ReadIsHandled /\ PassedIsHandled

(* An id nobody but the open transaction knows of.                          *)
Untold(id) == id \notin used \/ (pc = "inserted" /\ id = draft)

UntoldIdsAreUntouched ==
    \A id \in Ids : Untold(id) =>
        /\ note[id] = NoRow /\ mails[id] = 0
        /\ \A t \in Tries : tasks[id][t] = 0
        /\ \A w \in Workers : step[w] # "free" => job[w].id # id

(* Worker w may still send the mail of id, or queue the next try.           *)
Active(w, id) == step[w] \notin {"free", "acknowledging"} /\ job[w].id = id

Mailed(w) == step[w] \in {"accepted", "sent"}

(* A task is in Redis or with a worker, and while it is not yet done no     *)
(* mail is out, but for the one its worker has just sent.                   *)
OneTask(id) ==
    /\ mails[id] <= 1
    /\ \A t \in Tries : tasks[id][t] <= 1 /\ (tasks[id][t] = 1 => mails[id] = 0)
    /\ \A t, u \in Tries : tasks[id][t] > 0 /\ tasks[id][u] > 0 => t = u
    /\ \A w \in Workers : Active(w, id) =>
          /\ \A t \in Tries : tasks[id][t] = 0
          /\ Mailed(w) <=> mails[id] > 0
    /\ \A v, w \in Workers : Active(v, id) /\ Active(w, id) => v = w

OneTaskUnlessRedone == \A id \in Ids \ redone : OneTask(id)

(* What was written and sent when a worker is where it is in the task.      *)
JobInOrder(w) ==
    /\ job[w] \in [id : Ids, try : Tries]
    /\ step[w] # "loading" => note[job[w].id] # NoRow
    /\ Mailed(w) => mails[job[w].id] > 0
    /\ step[w] = "retrying" => <<job[w].id, job[w].try + 1, "FAILURE">> \in logs
    /\ job[w].try > 0 => <<job[w].id, job[w].try, "FAILURE">> \in logs

JobsAreInOrder == \A w \in Workers : step[w] # "free" => JobInOrder(w)

QueuedTriesFollowFailures ==
    \A id \in Ids, t \in Tries : tasks[id][t] > 0 /\ t > 0 => <<id, t, "FAILURE">> \in logs

WorkerInv ==
    /\ UntoldIdsAreUntouched /\ OneTaskUnlessRedone
    /\ JobsAreInOrder /\ QueuedTriesFollowFailures
    /\ MailIsForOneRowPerEvent /\ RecordsAreTrue

IInv == TypeOK /\ ConsumerInv /\ WorkerInv

----------------------------------------------------------------------------
(* Lemmas.                                                                 *)

(* Nothing is read, drafted or started at the beginning.                    *)
LEMMA InitHolds ==
    ASSUME Init
    PROVE  IInv
<1>1. TypeOK
  BY ConstantsAssumption DEF Init, TypeOK, Tries
<1>2. ConsumerInv
  BY DEF Init, ConsumerInv, OffsetsAreRead, DraftIsNew, ReadIsHandled, PassedIsHandled,
         InHand, InTransaction
<1>3. UntoldIdsAreUntouched /\ OneTaskUnlessRedone
  BY DEF Init, UntoldIdsAreUntouched, OneTaskUnlessRedone, OneTask, Active
<1>4. JobsAreInOrder /\ QueuedTriesFollowFailures
  BY DEF Init, JobsAreInOrder, QueuedTriesFollowFailures
<1>5. MailIsForOneRowPerEvent /\ RecordsAreTrue
  BY DEF Init, MailIsForOneRowPerEvent, RecordsAreTrue, RecordedIsMailed, TriesAreConsecutive
<1>6. QED
  BY <1>1, <1>2, <1>3, <1>4, <1>5 DEF IInv, WorkerInv

(* Rows are added, and their status changes; the event of a row does not.   *)
RowsStay == \A id \in Ids : note[id] # NoRow => note'[id] # NoRow /\ note'[id].event = note[id].event

(* An event that is stored stays stored.                                    *)
LEMMA StoredStays ==
    ASSUME RowsStay, NEW e, Stored(e)
    PROVE  Stored(e)'
BY DEF RowsStay, Stored

(* What a worker writes to a row is its status.                             *)
LEMMA MarkedRow ==
    ASSUME TypeOK, NEW w \in Workers, NEW status \in {"SENT", "FAILED"},
           job[w] \in [id : Ids, try : Tries], note[job[w].id] # NoRow, Mark(w, status)
    PROVE  /\ RowsStay
           /\ \A id \in Ids : note'[id] # NoRow =>
                 /\ note[id] # NoRow /\ note'[id].event = note[id].event
                 /\ note'[id].status = IF id = job[w].id THEN status ELSE note[id].status
           /\ note' \in [Ids -> Row \cup {NoRow}]
<1>1. job[w].id \in Ids /\ note[job[w].id] \in Row
  BY DEF TypeOK
<1>2. note' = [note EXCEPT ![job[w].id] = [@ EXCEPT !.status = status]]
  BY DEF Mark
<1>3. [note[job[w].id] EXCEPT !.status = status] \in Row
  BY <1>1 DEF Row
<1>4. /\ [note[job[w].id] EXCEPT !.status = status].event = note[job[w].id].event
      /\ [note[job[w].id] EXCEPT !.status = status].status = status
  BY <1>1 DEF Row
<1>5. \A id \in Ids : note'[id] = IF id = job[w].id
                                  THEN [note[job[w].id] EXCEPT !.status = status] ELSE note[id]
  BY <1>1, <1>2 DEF TypeOK
<1>6. note' \in [Ids -> Row \cup {NoRow}]
  BY <1>1, <1>2, <1>3 DEF TypeOK
<1>7. QED
  BY <1>1, <1>3, <1>4, <1>5, <1>6, ConstantsAssumption DEF RowsStay

(* The row that a transaction of the consumer commits.                      *)
LEMMA CommittedRow ==
    ASSUME TypeOK, DraftIsNew, CommitRow
    PROVE  /\ draft \in Ids /\ note[draft] = NoRow
           /\ note'[draft] \in Row /\ note'[draft].event = Message
           /\ note'[draft].status = "PENDING"
           /\ \A id \in Ids \ {draft} : note'[id] = note[id]
           /\ RowsStay
           /\ note' \in [Ids -> Row \cup {NoRow}]
<1>1. draft \in Ids /\ note[draft] = NoRow /\ Message \in Events
  BY DEF CommitRow, DraftIsNew, InHand, InTransaction, TypeOK
<1>2. [event |-> Message, status |-> "PENDING"] \in Row
  BY <1>1 DEF Row
<1>3. note' = [note EXCEPT ![draft] = [event |-> Message, status |-> "PENDING"]]
  BY DEF CommitRow
<1>4. note'[draft] = [event |-> Message, status |-> "PENDING"]
  BY <1>1, <1>3 DEF TypeOK
<1>5. \A id \in Ids \ {draft} : note'[id] = note[id]
  BY <1>1, <1>3 DEF TypeOK
<1>6. note' \in [Ids -> Row \cup {NoRow}]
  BY <1>2, <1>3 DEF TypeOK
<1>7. QED
  BY <1>1, <1>2, <1>4, <1>5, <1>6 DEF RowsStay

(* The tasks and the worker after one of the actions that move a task.      *)
LEMMA AddedTask ==
    ASSUME TypeOK, NEW id \in Ids, NEW t \in Tries,
           tasks' = [tasks EXCEPT ![id][t] = @ + 1]
    PROVE  /\ tasks' \in [Ids -> [Tries -> Nat]]
           /\ \A i \in Ids, u \in Tries :
                 tasks'[i][u] = IF i = id /\ u = t THEN tasks[i][u] + 1 ELSE tasks[i][u]
<1>1. tasks[id] \in [Tries -> Nat]
  BY DEF TypeOK
<1>2. [tasks[id] EXCEPT ![t] = @ + 1] \in [Tries -> Nat]
  BY <1>1
<1>3. \A i \in Ids : tasks'[i] = IF i = id THEN [tasks[id] EXCEPT ![t] = @ + 1] ELSE tasks[i]
  BY DEF TypeOK
<1>4. tasks' \in [Ids -> [Tries -> Nat]]
  BY <1>2 DEF TypeOK
<1>5. QED
  BY <1>1, <1>3, <1>4

(* A task that is taken was there.                                          *)
LEMMA TakenTask ==
    ASSUME TypeOK, NEW id \in Ids, NEW t \in Tries, tasks[id][t] > 0,
           tasks' = [tasks EXCEPT ![id][t] = @ - 1]
    PROVE  /\ tasks' \in [Ids -> [Tries -> Nat]]
           /\ \A i \in Ids, u \in Tries :
                 tasks'[i][u] = IF i = id /\ u = t THEN tasks[i][u] - 1 ELSE tasks[i][u]
<1>1. tasks[id] \in [Tries -> Nat]
  BY DEF TypeOK
<1>2. [tasks[id] EXCEPT ![t] = @ - 1] \in [Tries -> Nat]
  BY <1>1
<1>3. \A i \in Ids : tasks'[i] = IF i = id THEN [tasks[id] EXCEPT ![t] = @ - 1] ELSE tasks[i]
  BY DEF TypeOK
<1>4. tasks' \in [Ids -> [Tries -> Nat]]
  BY <1>2 DEF TypeOK
<1>5. QED
  BY <1>1, <1>3, <1>4

(* A mail is counted for one notification.                                  *)
LEMMA SentMail ==
    ASSUME TypeOK, NEW id \in Ids, mails' = [mails EXCEPT ![id] = @ + 1]
    PROVE  /\ mails' \in [Ids -> Nat]
           /\ \A i \in Ids : mails'[i] = IF i = id THEN mails[i] + 1 ELSE mails[i]
BY DEF TypeOK

(* A fault is counted.                                                      *)
LEMMA FaultType ==
    ASSUME TypeOK, NEW kind, Fault(kind)
    PROVE  faults' \in Nat
BY DEF Fault, TypeOK

(* A worker that goes on, or that is done.                                  *)
LEMMA WorkerMoves ==
    ASSUME TypeOK, NEW w \in Workers,
           NEW next \in {"free", "loading", "sending", "accepted", "sent",
                         "refused", "failed", "retrying", "acknowledging"}
    PROVE  /\ Goto(w, next) =>
                 /\ job' = job /\ step'[w] = next
                 /\ \A v \in Workers \ {w} : step'[v] = step[v]
                 /\ step' \in [Workers -> {"free", "loading", "sending", "accepted", "sent",
                                           "refused", "failed", "retrying", "acknowledging"}]
           /\ Acknowledge(w) =>
                 /\ step'[w] = "free"
                 /\ \A v \in Workers \ {w} : step'[v] = step[v] /\ job'[v] = job[v]
                 /\ step' \in [Workers -> {"free", "loading", "sending", "accepted", "sent",
                                           "refused", "failed", "retrying", "acknowledging"}]
                 /\ job' \in [Workers -> [id : Ids, try : Tries] \cup {NoTask}]
BY DEF TypeOK, Goto, Acknowledge

(* The variables keep their types when the consumer moves.                  *)
LEMMA ConsumerType ==
    ASSUME TypeOK, DraftIsNew,
           Consume \/ CommitLands \/ CommitIsLost \/ Crash \/ Restart
    PROVE  TypeOK'
<1> USE DEF TypeOK
<1>1. CASE Poll \/ InsertDuplicate \/ CommitOffset \/ CommitLands \/ Restart
  <2>1. CASE Poll
    BY <2>1 DEF Poll, worker
  <2>2. CASE InsertDuplicate \/ CommitOffset
    BY <2>2 DEF InsertDuplicate, CommitOffset, worker
  <2>3. CASE CommitLands
    BY <2>3 DEF CommitLands, worker
  <2>4. CASE Restart
    BY <2>4 DEF Restart, worker
  <2>5. QED
    BY <1>1, <2>1, <2>2, <2>3, <2>4
<1>2. CASE Insert
  BY <1>2 DEF Insert, worker, Fresh
<1>3. CASE Delay
  <2>1. draft \in Ids /\ 0 \in Tries
    BY <1>3, ConstantsAssumption DEF Delay, DraftIsNew, InTransaction, Tries
  <2>2. tasks' \in [Ids -> [Tries -> Nat]]
    BY <1>3, <2>1, AddedTask DEF Delay
  <2>3. QED
    BY <1>3, <2>2 DEF Delay, worker
<1>4. CASE CommitRow
  <2>1. note' \in [Ids -> Row \cup {NoRow}]
    BY <1>4, CommittedRow
  <2>2. QED
    BY <1>4, <2>1 DEF CommitRow, worker
<1>5. CASE HandlingFails
  <2>1. faults' \in Nat
    BY <1>5, FaultType DEF HandlingFails
  <2>2. QED
    BY <1>5, <2>1 DEF HandlingFails, worker
<1>6. CASE CommitIsLost
  <2>1. faults' \in Nat
    BY <1>6, FaultType DEF CommitIsLost
  <2>2. QED
    BY <1>6, <2>1 DEF CommitIsLost, worker
<1>7. CASE Crash
  <2>1. faults' \in Nat
    BY <1>7, FaultType DEF Crash
  <2>2. QED
    BY <1>7, <2>1 DEF Crash, worker
<1>8. QED
  BY <1>1, <1>2, <1>3, <1>4, <1>5, <1>6, <1>7 DEF Consume

(* A worker that is not free has a task.                                    *)
LEMMA JobOfWorker ==
    ASSUME JobsAreInOrder, NEW w \in Workers, step[w] # "free"
    PROVE  job[w] \in [id : Ids, try : Tries] /\ job[w].id \in Ids /\ job[w].try \in Tries
BY DEF JobsAreInOrder, JobInOrder

(* The log of tries stays one when a try is added.                          *)
LEMMA LoggedTry ==
    ASSUME NEW rows \in SUBSET (Ids \X Nat \X {"SUCCESS", "FAILURE"}),
           NEW id \in Ids, NEW n \in Nat, NEW status \in {"SUCCESS", "FAILURE"}
    PROVE  rows \cup {<<id, n, status>>} \in SUBSET (Ids \X Nat \X {"SUCCESS", "FAILURE"})
<1>1. <<id, n, status>> \in Ids \X Nat \X {"SUCCESS", "FAILURE"}
  OBVIOUS
<1>2. QED
  BY <1>1

(* The variables keep their types when a worker moves.                      *)
LEMMA WorkerType ==
    ASSUME TypeOK, JobsAreInOrder, NEW w \in Workers,
           \/ \E id \in Ids, t \in Tries : Take(w, id, t)
           \/ Work(w) \/ WorkerDies(w) \/ TaskFails(w)
    PROVE  TypeOK'
<1> USE DEF consumer
<1>1. ASSUME NEW id \in Ids, NEW t \in Tries, Take(w, id, t)
      PROVE  TypeOK'
  <2>1. tasks' \in [Ids -> [Tries -> Nat]]
    BY <1>1, TakenTask DEF Take
  <2>2. [id |-> id, try |-> t] \in [id : Ids, try : Tries]
    OBVIOUS
  <2>3. job' \in [Workers -> [id : Ids, try : Tries] \cup {NoTask}]
    BY <1>1, <2>2 DEF Take, TypeOK
  <2>4. QED
    BY <1>1, <2>1, <2>3 DEF Take, TypeOK
<1>2. CASE FindNoRow(w) \/ FindRow(w) \/ LogSuccess(w) \/ LogFailure(w) \/ Finish(w)
  <2>1. step[w] # "free"
    BY <1>2 DEF FindNoRow, FindRow, LogSuccess, LogFailure, Finish
  <2>2. job[w].id \in Ids /\ job[w].try \in Tries
    BY <2>1, JobOfWorker
  <2>3. job[w].try + 1 \in Nat
    BY <2>2, ConstantsAssumption DEF Tries
  <2>4. CASE FindNoRow(w) \/ Finish(w)
    <3>1. Acknowledge(w)
      BY <2>4 DEF FindNoRow, Finish
    <3>2. dropped' \in SUBSET Ids
      BY <2>2, <2>4 DEF FindNoRow, Finish, TypeOK
    <3>3. QED
      BY <2>4, <3>1, <3>2, WorkerMoves DEF FindNoRow, Finish, TypeOK
  <2>5. CASE FindRow(w)
    BY <2>5, WorkerMoves DEF FindRow, TypeOK
  <2>6. CASE LogSuccess(w)
    <3>1. logs' \in SUBSET (Ids \X Nat \X {"SUCCESS", "FAILURE"})
      <4>1. logs' = logs \cup {<<job[w].id, job[w].try + 1, "SUCCESS">>}
        BY <2>6 DEF LogSuccess, Log
      <4>2. logs \in SUBSET (Ids \X Nat \X {"SUCCESS", "FAILURE"})
        BY DEF TypeOK
      <4>3. QED
        BY <2>2, <2>3, <4>1, <4>2, LoggedTry
    <3>2. QED
      BY <2>6, <3>1, WorkerMoves DEF LogSuccess, TypeOK
  <2>7. CASE LogFailure(w)
    <3>1. logs' \in SUBSET (Ids \X Nat \X {"SUCCESS", "FAILURE"})
      <4>1. logs' = logs \cup {<<job[w].id, job[w].try + 1, "FAILURE">>}
        BY <2>7 DEF LogFailure, Log
      <4>2. logs \in SUBSET (Ids \X Nat \X {"SUCCESS", "FAILURE"})
        BY DEF TypeOK
      <4>3. QED
        BY <2>2, <2>3, <4>1, <4>2, LoggedTry
    <3>2. QED
      BY <2>7, <3>1, WorkerMoves DEF LogFailure, TypeOK
  <2>8. QED
    BY <1>2, <2>4, <2>5, <2>6, <2>7
<1>3. CASE SendMail(w)
  <2>1. mails' \in [Ids -> Nat]
    BY <1>3, JobOfWorker, SentMail DEF SendMail
  <2>2. QED
    BY <1>3, <2>1, WorkerMoves DEF SendMail, TypeOK
<1>4. CASE SendFails(w)
  <2>1. faults' \in Nat
    BY <1>4, FaultType DEF SendFails
  <2>2. QED
    BY <1>4, <2>1, WorkerMoves DEF SendFails, TypeOK
<1>5. CASE SendTimesOut(w)
  <2>1. faults' \in Nat
    BY <1>5, FaultType DEF SendTimesOut
  <2>2. job[w].id \in Ids
    BY <1>5, JobOfWorker DEF SendTimesOut
  <2>3. mails' \in [Ids -> Nat] /\ redone' \in SUBSET Ids
    BY <1>5, <2>2, SentMail DEF SendTimesOut, TypeOK
  <2>4. QED
    BY <1>5, <2>1, <2>3, WorkerMoves DEF SendTimesOut, TypeOK
<1>6. CASE MarkSent(w) \/ MarkFailed(w)
  <2>1. job[w] \in [id : Ids, try : Tries] /\ note[job[w].id] # NoRow
    BY <1>6, JobOfWorker DEF MarkSent, MarkFailed, JobsAreInOrder, JobInOrder
  <2>2. note' \in [Ids -> Row \cup {NoRow}]
    BY <1>6, <2>1, MarkedRow DEF MarkSent, MarkFailed
  <2>3. QED
    BY <1>6, <2>2, WorkerMoves DEF MarkSent, MarkFailed, Mark, TypeOK
<1>7. CASE Retry(w)
  <2>1. job[w].id \in Ids /\ job[w].try \in Tries
    BY <1>7, JobOfWorker DEF Retry
  <2>2. job[w].try + 1 \in Tries
    BY <1>7, <2>1, ConstantsAssumption DEF Retry, Tries
  <2>3. tasks' \in [Ids -> [Tries -> Nat]]
    BY <1>7, <2>1, <2>2, AddedTask DEF Retry
  <2>4. QED
    BY <1>7, <2>3, WorkerMoves DEF Retry, TypeOK
<1>8. CASE WorkerDies(w)
  <2>1. faults' \in Nat
    BY <1>8, FaultType DEF WorkerDies
  <2>2. job[w].id \in Ids /\ job[w].try \in Tries
    BY <1>8, JobOfWorker DEF WorkerDies
  <2>3. tasks' \in [Ids -> [Tries -> Nat]]
    BY <1>8, <2>2, AddedTask DEF WorkerDies
  <2>4. redone' \in SUBSET Ids
    BY <1>8, <2>2 DEF WorkerDies, TypeOK
  <2>5. QED
    BY <1>8, <2>1, <2>3, <2>4, WorkerMoves DEF WorkerDies, TypeOK
<1>9. CASE TaskFails(w)
  <2>1. faults' \in Nat
    BY <1>9, FaultType DEF TaskFails
  <2>2. job[w].id \in Ids
    BY <1>9, JobOfWorker DEF TaskFails
  <2>3. dropped' \in SUBSET Ids
    BY <1>9, <2>2 DEF TaskFails, TypeOK
  <2>4. QED
    BY <1>9, <2>1, <2>3, WorkerMoves DEF TaskFails, TypeOK
<1>10. QED
  BY <1>1, <1>2, <1>3, <1>4, <1>5, <1>6, <1>7, <1>8, <1>9 DEF Work

----------------------------------------------------------------------------
(* The consumer.                                                           *)

(* What the consumer does outside a transaction touches nothing of the      *)
(* workers, and does not make an id untold.                                 *)
LEMMA WorkerPartStays ==
    ASSUME WorkerInv, UNCHANGED <<note, tasks, worker>>,
           \A id \in Ids : Untold(id)' => Untold(id)
    PROVE  WorkerInv'
<1>1. UNCHANGED <<note, tasks, job, step, mails, logs, redone>>
  BY DEF worker
<1>2. UntoldIdsAreUntouched'
  BY <1>1 DEF WorkerInv, UntoldIdsAreUntouched
<1>3. OneTaskUnlessRedone'
  BY <1>1 DEF WorkerInv, OneTaskUnlessRedone, OneTask, Active, Mailed
<1>4. JobsAreInOrder' /\ QueuedTriesFollowFailures'
  BY <1>1 DEF WorkerInv, JobsAreInOrder, JobInOrder, Mailed, QueuedTriesFollowFailures
<1>5. MailIsForOneRowPerEvent' /\ RecordsAreTrue'
  BY <1>1 DEF WorkerInv, MailIsForOneRowPerEvent, RecordsAreTrue, RecordedIsMailed,
              TriesAreConsecutive
<1>6. QED
  BY <1>2, <1>3, <1>4, <1>5 DEF WorkerInv

(* What was handled stays handled while the log is as it is.                *)
LEMMA HandledStays ==
    ASSUME RowsStay, failed \subseteq failed', log' = log, NEW n, Handled(n)
    PROVE  Handled(n)'
BY StoredStays DEF Handled

(* A message that is appended changes none of those before it.              *)
LEMMA PublishKeeps ==
    ASSUME IInv, NEW m \in Events \cup {Garbage}, Publish(m)
    PROVE  IInv'
<1>1. /\ log' = Append(log, m)
      /\ UNCHANGED <<committed, inflight, position, pc, draft, used, failed, note, tasks, worker>>
      /\ UNCHANGED faults
  BY DEF Publish
<1>2. TypeOK'
  BY <1>1 DEF IInv, TypeOK, worker
<1>3. /\ Len(log) \in Nat /\ DOMAIN log = 1..Len(log) /\ Len(log') = Len(log) + 1
      /\ DOMAIN log' = 1..Len(log')
      /\ \A n \in 1..Len(log) : log'[n] = log[n]
  BY <1>1 DEF IInv, TypeOK
<1>4. committed \in Nat /\ inflight \in Nat /\ position \in Nat
      /\ committed <= position /\ inflight <= position /\ position <= Len(log)
  BY DEF IInv, TypeOK, ConsumerInv, OffsetsAreRead
<1>5. OffsetsAreRead'
  BY <1>1, <1>3, <1>4 DEF IInv, ConsumerInv, OffsetsAreRead
<1>6. \A n \in 1..position : Handled(n) => Handled(n)'
  BY <1>1, <1>3, <1>4 DEF Handled, Stored
<1>7. DraftIsNew'
  <2>1. CASE InHand
    <3>1. Message' = Message /\ position' \in DOMAIN log'
      BY <2>1, <1>1, <1>3 DEF IInv, ConsumerInv, DraftIsNew, Message
    <3>2. QED
      BY <1>1, <3>1 DEF IInv, ConsumerInv, DraftIsNew, InHand, InTransaction, Stored
  <2>2. QED
    BY <2>1, <1>1 DEF DraftIsNew, InHand, InTransaction
<1>8. ReadIsHandled'
  BY <1>1, <1>6 DEF IInv, ConsumerInv, ReadIsHandled, InHand
<1>9. PassedIsHandled'
  <2> SUFFICES ASSUME NEW n \in Nat \ {0}, n <= committed \/ n <= inflight
               PROVE  Handled(n)'
    BY <1>1 DEF PassedIsHandled
  <2>1. n \in 1..position
    BY <1>4
  <2>2. QED
    BY <2>1, <1>6 DEF IInv, ConsumerInv, PassedIsHandled
<1>10. WorkerInv'
  BY <1>1, WorkerPartStays DEF IInv, Untold
<1>11. QED
  BY <1>2, <1>5, <1>7, <1>8, <1>9, <1>10 DEF IInv, ConsumerInv

(* The message that is polled is the only one read and not handled.         *)
LEMMA PollKeeps ==
    ASSUME IInv, Poll
    PROVE  IInv'
<1>1. /\ pc = "poll" /\ position < Len(log) /\ position' = position + 1
      /\ pc' = IF log[position + 1] = Garbage THEN "poll" ELSE "handling"
      /\ UNCHANGED <<log, committed, inflight, draft, used, failed, note, tasks, worker>>
  BY DEF Poll
<1>2. TypeOK'
  BY ConsumerType DEF IInv, ConsumerInv, Consume
<1>3. committed \in Nat /\ inflight \in Nat /\ position \in Nat /\ Len(log) \in Nat
      /\ committed <= position /\ inflight <= position /\ position <= Len(log)
  BY DEF IInv, TypeOK, ConsumerInv, OffsetsAreRead
<1>4. OffsetsAreRead'
  BY <1>1, <1>3 DEF OffsetsAreRead
<1>5. \A n : Handled(n)' <=> Handled(n)
  BY <1>1 DEF Handled, Stored
<1>6. position + 1 \in DOMAIN log /\ log[position + 1] \in Events \cup {Garbage}
  BY <1>1, <1>3 DEF IInv, TypeOK
<1>7. DraftIsNew'
  BY <1>1, <1>6 DEF DraftIsNew, InHand, InTransaction, Message
<1>8. ReadIsHandled'
  <2> SUFFICES ASSUME NEW n \in 1..(position + 1)
               PROVE  Handled(n) \/ (pc' = "handling" /\ n = position + 1)
    BY <1>1, <1>5 DEF ReadIsHandled, InHand
  <2>1. CASE n \in 1..position
    BY <2>1, <1>1 DEF IInv, ConsumerInv, ReadIsHandled, InHand
  <2>2. CASE n \notin 1..position
    <3>1. n = position + 1
      BY <2>2, <1>3
    <3>2. QED
      BY <3>1, <1>1 DEF Handled
  <2>3. QED
    BY <2>1, <2>2
<1>9. PassedIsHandled'
  BY <1>1, <1>5 DEF IInv, ConsumerInv, PassedIsHandled
<1>10. WorkerInv'
  BY <1>1, WorkerPartStays DEF IInv, Untold
<1>11. QED
  BY <1>2, <1>4, <1>7, <1>8, <1>9, <1>10 DEF IInv, ConsumerInv

(* A step inside _handle_message: no offset moves and nothing is read, and  *)
(* the message in hand is handled when it leaves the hand.                  *)
LEMMA HandleKeeps ==
    ASSUME TypeOK, ConsumerInv, UNCHANGED <<log, committed, inflight, position>>,
           RowsStay, failed \subseteq failed', pc # "down", pc' # "down", DraftIsNew',
           InHand => InHand' \/ Handled(position)'
    PROVE  ConsumerInv'
<1>1. committed \in Nat /\ inflight \in Nat /\ position \in Nat /\ Len(log) \in Nat
  BY DEF TypeOK
<1>2. OffsetsAreRead'
  BY <1>1 DEF ConsumerInv, OffsetsAreRead
<1>3. \A n : Handled(n) => Handled(n)'
  BY HandledStays
<1>4. ReadIsHandled'
  <2> SUFFICES ASSUME NEW n \in 1..position
               PROVE  Handled(n)' \/ (InHand' /\ n = position)
    BY DEF ReadIsHandled
  <2>1. Handled(n) \/ (InHand /\ n = position)
    BY DEF ConsumerInv, ReadIsHandled
  <2>2. QED
    BY <2>1, <1>3
<1>5. PassedIsHandled'
  BY <1>1, <1>3 DEF ConsumerInv, PassedIsHandled
<1>6. QED
  BY <1>2, <1>4, <1>5 DEF ConsumerInv

(* The row that is inserted is of a new id, which nobody knows yet.         *)
LEMMA InsertKeeps ==
    ASSUME IInv, Insert
    PROVE  IInv'
<1>1. PICK id \in Ids : Fresh(id) /\ used' = used \cup {id} /\ draft' = id
  BY DEF Insert
<1>2. /\ pc = "handling" /\ pc' = "inserted" /\ ~Stored(Message)
      /\ UNCHANGED <<log, committed, inflight, position, failed, note, tasks, worker>>
  BY DEF Insert
<1>3. TypeOK'
  BY ConsumerType DEF IInv, ConsumerInv, Consume
<1>4. Untold(id) /\ id \notin used
  BY <1>1 DEF Fresh, Untold
<1>5. note[id] = NoRow
  BY <1>4 DEF IInv, WorkerInv, UntoldIdsAreUntouched
<1>6. Message' = Message /\ (Stored(Message)' <=> Stored(Message))
  BY <1>2 DEF Message, Stored
<1>7. DraftIsNew'
  BY <1>1, <1>2, <1>5, <1>6 DEF IInv, ConsumerInv, DraftIsNew, InHand, InTransaction
<1>8. RowsStay
  BY <1>2 DEF RowsStay
<1>9. ConsumerInv'
  BY <1>2, <1>7, <1>8, HandleKeeps DEF IInv, InHand
<1>10. \A i \in Ids : Untold(i)' => Untold(i)
  BY <1>1, <1>2, <1>4 DEF Untold
<1>11. WorkerInv'
  BY <1>2, <1>10, WorkerPartStays DEF IInv
<1>12. QED
  BY <1>3, <1>9, <1>11 DEF IInv

(* A duplicate is stored already, and a failure is remembered.              *)
LEMMA LeaveKeeps ==
    ASSUME IInv, InsertDuplicate \/ HandlingFails
    PROVE  IInv'
<1>1. TypeOK'
  BY ConsumerType DEF IInv, ConsumerInv, Consume
<1>2. /\ UNCHANGED <<log, committed, inflight, position, used, note, tasks, worker>>
      /\ pc \in {"handling", "inserted", "queued"} /\ pc' \in {"poll", "done"}
      /\ failed \subseteq failed'
  BY DEF InsertDuplicate, HandlingFails
<1>3. Handled(position)'
  <2>1. CASE InsertDuplicate
    BY <2>1 DEF InsertDuplicate, Handled, Message, Stored
  <2>2. CASE HandlingFails
    BY <2>2 DEF HandlingFails, Handled
  <2>3. QED
    BY <2>1, <2>2
<1>4. RowsStay
  BY <1>2 DEF RowsStay
<1>5. DraftIsNew'
  BY <1>2 DEF DraftIsNew, InHand, InTransaction
<1>6. ConsumerInv'
  BY <1>2, <1>3, <1>4, <1>5, HandleKeeps DEF IInv
<1>7. WorkerInv'
  BY <1>2, WorkerPartStays DEF IInv, Untold
<1>8. QED
  BY <1>1, <1>6, <1>7 DEF IInv

(* The first task of a notification: none was there before.                 *)
LEMMA DelayKeeps ==
    ASSUME IInv, Delay
    PROVE  IInv'
<1>1. /\ pc = "inserted" /\ pc' = "queued"
      /\ tasks' = [tasks EXCEPT ![draft][0] = @ + 1]
      /\ UNCHANGED <<log, committed, inflight, position, draft, used, failed, note,
                     job, step, mails, logs, redone>>
  BY DEF Delay, worker
<1>2. TypeOK'
  BY ConsumerType DEF IInv, ConsumerInv, Consume
<1>3. draft \in Ids /\ draft \in used /\ 0 \in Tries /\ Untold(draft)
  BY <1>1, ConstantsAssumption
  DEF IInv, TypeOK, ConsumerInv, DraftIsNew, InTransaction, Tries, Untold
<1>4. \A i \in Ids, u \in Tries :
         tasks'[i][u] = IF i = draft /\ u = 0 THEN tasks[i][u] + 1 ELSE tasks[i][u]
  BY <1>1, <1>3, AddedTask DEF IInv
<1>5. /\ mails[draft] = 0 /\ \A t \in Tries : tasks[draft][t] = 0
      /\ \A w \in Workers : step[w] # "free" => job[w].id # draft
  BY <1>3 DEF IInv, WorkerInv, UntoldIdsAreUntouched
<1>6. DraftIsNew'
  BY <1>1 DEF IInv, ConsumerInv, DraftIsNew, InHand, InTransaction, Message, Stored
<1>7. ConsumerInv'
  BY <1>1, <1>6, HandleKeeps DEF IInv, InHand, RowsStay
<1>8. UntoldIdsAreUntouched'
  <2> SUFFICES ASSUME NEW id \in Ids, Untold(id)'
               PROVE  /\ note[id] = NoRow /\ mails[id] = 0
                      /\ \A t \in Tries : tasks'[id][t] = 0
                      /\ \A w \in Workers : step[w] # "free" => job[w].id # id
    BY <1>1 DEF UntoldIdsAreUntouched
  <2>1. Untold(id) /\ id # draft
    BY <1>1, <1>3 DEF Untold
  <2>2. QED
    BY <2>1, <1>4 DEF IInv, WorkerInv, UntoldIdsAreUntouched
<1>9. OneTaskUnlessRedone'
  <2> SUFFICES ASSUME NEW id \in Ids \ redone
               PROVE  OneTask(id)'
    BY <1>1 DEF OneTaskUnlessRedone
  <2>1. CASE id = draft
    BY <2>1, <1>1, <1>3, <1>4, <1>5 DEF OneTask, Active
  <2>2. CASE id # draft
    BY <2>2, <1>1, <1>4 DEF IInv, WorkerInv, OneTaskUnlessRedone, OneTask, Active, Mailed
  <2>3. QED
    BY <2>1, <2>2
<1>10. JobsAreInOrder'
  BY <1>1 DEF IInv, WorkerInv, JobsAreInOrder, JobInOrder, Mailed
<1>11. QueuedTriesFollowFailures'
  BY <1>1, <1>4 DEF IInv, WorkerInv, QueuedTriesFollowFailures
<1>12. MailIsForOneRowPerEvent' /\ RecordsAreTrue'
  BY <1>1 DEF IInv, WorkerInv, MailIsForOneRowPerEvent, RecordsAreTrue, RecordedIsMailed,
              TriesAreConsecutive
<1>13. QED
  BY <1>2, <1>7, <1>8, <1>9, <1>10, <1>11, <1>12 DEF IInv, WorkerInv

(* The row that is committed is the first one of its event.                 *)
LEMMA CommitRowKeeps ==
    ASSUME IInv, CommitRow
    PROVE  IInv'
<1>1. /\ pc = "queued" /\ pc' = "done"
      /\ UNCHANGED <<log, committed, inflight, position, used, failed, tasks,
                     job, step, mails, logs, redone>>
  BY DEF CommitRow, worker
<1>2. TypeOK'
  BY ConsumerType DEF IInv, ConsumerInv, Consume
<1>3. /\ draft \in Ids /\ note[draft] = NoRow
      /\ note'[draft] \in Row /\ note'[draft].event = Message
      /\ note'[draft].status = "PENDING"
      /\ \A id \in Ids \ {draft} : note'[id] = note[id]
      /\ RowsStay
  BY CommittedRow DEF IInv, ConsumerInv
<1>4. draft \in used /\ ~Stored(Message)
  BY <1>1 DEF IInv, ConsumerInv, DraftIsNew, InTransaction
<1>5. note'[draft] # NoRow
  BY <1>3, ConstantsAssumption
<1>6. Handled(position)'
  BY <1>1, <1>3, <1>5 DEF Handled, Stored, Message
<1>7. DraftIsNew'
  BY <1>1 DEF DraftIsNew, InHand, InTransaction
<1>8. ConsumerInv'
  BY <1>1, <1>3, <1>6, <1>7, HandleKeeps DEF IInv
<1>9. UntoldIdsAreUntouched'
  <2> SUFFICES ASSUME NEW id \in Ids, Untold(id)'
               PROVE  note'[id] = NoRow /\ Untold(id)
    BY <1>1 DEF IInv, WorkerInv, UntoldIdsAreUntouched
  <2>1. Untold(id) /\ id # draft
    BY <1>1, <1>4 DEF Untold
  <2>2. QED
    BY <2>1, <1>3 DEF IInv, WorkerInv, UntoldIdsAreUntouched
<1>10. OneTaskUnlessRedone'
  BY <1>1 DEF IInv, WorkerInv, OneTaskUnlessRedone, OneTask, Active, Mailed
<1>11. JobsAreInOrder'
  <2> SUFFICES ASSUME NEW w \in Workers, step[w] # "free"
               PROVE  JobInOrder(w)'
    BY <1>1 DEF JobsAreInOrder
  <2>1. JobInOrder(w)
    BY DEF IInv, WorkerInv, JobsAreInOrder
  <2>2. job[w].id \in Ids
    BY <2>1 DEF JobInOrder
  <2>3. QED
    BY <1>1, <1>3, <2>1, <2>2 DEF JobInOrder, Mailed, RowsStay
<1>12. QueuedTriesFollowFailures'
  BY <1>1 DEF IInv, WorkerInv, QueuedTriesFollowFailures
<1>13. MailIsForOneRowPerEvent'
  <2>1. \A id \in Ids : mails[id] > 0 => note'[id] # NoRow
    BY <1>3 DEF IInv, WorkerInv, MailIsForOneRowPerEvent, RowsStay
  <2>2. \A id \in Ids \ {draft} : note'[id] # NoRow => note'[id].event # Message
    BY <1>3, <1>4 DEF Stored
  <2>3. QED
    BY <1>1, <1>3, <2>1, <2>2 DEF IInv, WorkerInv, MailIsForOneRowPerEvent
<1>14. RecordsAreTrue'
  <2>1. RecordedIsMailed'
    BY <1>1, <1>3 DEF IInv, WorkerInv, RecordsAreTrue, RecordedIsMailed
  <2>2. TriesAreConsecutive'
    BY <1>1 DEF IInv, WorkerInv, RecordsAreTrue, TriesAreConsecutive
  <2>3. QED
    BY <2>1, <2>2 DEF RecordsAreTrue
<1>15. QED
  BY <1>2, <1>8, <1>9, <1>10, <1>11, <1>12, <1>13, <1>14 DEF IInv, WorkerInv

(* The offset handed to commit() is that of the last message read, and all  *)
(* of them are handled; the broker's answer brings no other offset, and a   *)
(* new process reads from the committed one.                                *)
LEMMA OffsetsKeep ==
    ASSUME IInv, CommitOffset \/ CommitLands \/ CommitIsLost \/ Crash \/ Restart
    PROVE  IInv'
<1>1. TypeOK'
  BY ConsumerType DEF IInv, ConsumerInv, Consume
<1>2. UNCHANGED <<log, used, failed, note, tasks, worker>>
  BY DEF CommitOffset, CommitLands, CommitIsLost, Crash, Restart
<1>3. committed \in Nat /\ inflight \in Nat /\ position \in Nat /\ Len(log) \in Nat
      /\ committed <= position /\ inflight <= position /\ position <= Len(log)
  BY DEF IInv, TypeOK, ConsumerInv, OffsetsAreRead
<1>4. \A n : Handled(n)' <=> Handled(n)
  BY <1>2 DEF Handled, Stored
<1>5. (pc' = pc /\ draft' = draft) \/ pc' \notin {"handling", "inserted", "queued"}
  BY DEF CommitOffset, CommitLands, CommitIsLost, Crash, Restart
<1>6. WorkerInv'
  BY <1>2, <1>5, WorkerPartStays DEF IInv, Untold
<1>7. OffsetsAreRead'
  <2>1. CASE CommitOffset
    BY <2>1, <1>3 DEF CommitOffset, OffsetsAreRead
  <2>2. CASE CommitLands
    BY <2>2, <1>3 DEF CommitLands, OffsetsAreRead
  <2>3. CASE CommitIsLost \/ Crash
    BY <2>3, <1>3 DEF CommitIsLost, Crash, OffsetsAreRead
  <2>4. CASE Restart
    BY <2>4, <1>3 DEF Restart, OffsetsAreRead, IInv, ConsumerInv
  <2>5. QED
    BY <2>1, <2>2, <2>3, <2>4
<1>8. DraftIsNew'
  <2>1. CASE CommitLands \/ CommitIsLost
    BY <2>1 DEF CommitLands, CommitIsLost, IInv, ConsumerInv, DraftIsNew, InHand,
                InTransaction, Message, Stored
  <2>2. CASE CommitOffset \/ Crash \/ Restart
    BY <2>2 DEF CommitOffset, Crash, Restart, DraftIsNew, InHand, InTransaction
  <2>3. QED
    BY <2>1, <2>2
<1>9. ReadIsHandled'
  <2>1. CASE CommitOffset
    BY <2>1, <1>4 DEF CommitOffset, IInv, ConsumerInv, ReadIsHandled, InHand
  <2>2. CASE CommitLands \/ CommitIsLost
    BY <2>2, <1>4 DEF CommitLands, CommitIsLost, IInv, ConsumerInv, ReadIsHandled, InHand
  <2>3. CASE Crash
    BY <2>3 DEF Crash, ReadIsHandled
  <2>4. CASE Restart
    <3>1. \A n \in 1..committed : n \in Nat \ {0} /\ n <= committed
      BY <1>3
    <3>2. \A n \in 1..committed : Handled(n)
      BY <3>1 DEF IInv, ConsumerInv, PassedIsHandled
    <3>3. QED
      BY <2>4, <3>2, <1>4 DEF Restart, ReadIsHandled
  <2>5. QED
    BY <2>1, <2>2, <2>3, <2>4
<1>10. PassedIsHandled'
  <2>1. CASE CommitOffset
    <3>1. \A n \in Nat \ {0} : n <= position => n \in 1..position
      BY <1>3
    <3>2. \A n \in 1..position : Handled(n)
      BY <2>1 DEF CommitOffset, IInv, ConsumerInv, ReadIsHandled, InHand
    <3>3. QED
      BY <2>1, <3>1, <3>2, <1>4 DEF CommitOffset, IInv, ConsumerInv, PassedIsHandled
  <2>2. CASE CommitLands
    BY <2>2, <1>3, <1>4 DEF CommitLands, IInv, ConsumerInv, PassedIsHandled
  <2>3. CASE CommitIsLost \/ Crash
    BY <2>3, <1>3, <1>4 DEF CommitIsLost, Crash, IInv, ConsumerInv, PassedIsHandled
  <2>4. CASE Restart
    BY <2>4, <1>4 DEF Restart, IInv, ConsumerInv, PassedIsHandled
  <2>5. QED
    BY <2>1, <2>2, <2>3, <2>4
<1>11. QED
  BY <1>1, <1>6, <1>7, <1>8, <1>9, <1>10 DEF IInv, ConsumerInv

----------------------------------------------------------------------------
(* The workers.                                                            *)

(* The rows of the table are the same, but for their status.                *)
SameRows ==
    \A id \in Ids :
        /\ note'[id] = NoRow <=> note[id] = NoRow
        /\ note[id] # NoRow => note'[id].event = note[id].event

OthersStay(w) == \A v \in Workers \ {w} : step'[v] = step[v] /\ job'[v] = job[v]

(* What the consumer knows does not depend on what the workers do.          *)
LEMMA ConsumerPartStays ==
    ASSUME TypeOK, ConsumerInv, UNCHANGED consumer, SameRows
    PROVE  ConsumerInv'
<1>1. UNCHANGED <<log, committed, inflight, position, pc, draft, used, failed>>
  BY DEF consumer
<1>2. \A e : Stored(e)' <=> Stored(e)
  BY DEF Stored, SameRows
<1>3. \A n : Handled(n)' <=> Handled(n)
  BY <1>1, <1>2 DEF Handled
<1>4. OffsetsAreRead'
  BY <1>1 DEF ConsumerInv, OffsetsAreRead
<1>5. DraftIsNew'
  <2>1. Message' = Message /\ (Stored(Message)' <=> Stored(Message))
    BY <1>1, <1>2 DEF Message
  <2>2. CASE InTransaction
    <3>1. draft \in used /\ draft \in Ids /\ note[draft] = NoRow
      BY <2>2 DEF ConsumerInv, DraftIsNew, TypeOK
    <3>2. note'[draft] = NoRow
      BY <3>1 DEF SameRows
    <3>3. QED
      BY <1>1, <2>1, <3>1, <3>2 DEF ConsumerInv, DraftIsNew, InHand, InTransaction
  <2>3. CASE ~InTransaction
    BY <1>1, <2>1, <2>3 DEF ConsumerInv, DraftIsNew, InHand, InTransaction
  <2>4. QED
    BY <2>2, <2>3
<1>6. ReadIsHandled' /\ PassedIsHandled'
  BY <1>1, <1>3 DEF ConsumerInv, ReadIsHandled, PassedIsHandled, InHand
<1>7. QED
  BY <1>4, <1>5, <1>6 DEF ConsumerInv

(* The notification of a task that a worker executes is not untold.         *)
LEMMA JobIsTold ==
    ASSUME UntoldIdsAreUntouched, NEW w \in Workers, step[w] # "free", job[w].id \in Ids
    PROVE  ~Untold(job[w].id)
BY DEF UntoldIdsAreUntouched

(* Steps of workers do not reach the notifications nobody was told of.      *)
LEMMA UntouchedStay ==
    ASSUME UntoldIdsAreUntouched, UNCHANGED consumer, NEW w \in Workers, OthersStay(w),
           \A id \in Ids : Untold(id) =>
               /\ note'[id] = note[id] /\ mails'[id] = mails[id]
               /\ \A t \in Tries : tasks'[id][t] > 0 => tasks[id][t] > 0
               /\ step'[w] # "free" => job'[w].id # id,
           tasks' \in [Ids -> [Tries -> Nat]]
    PROVE  UntoldIdsAreUntouched'
<1> SUFFICES ASSUME NEW id \in Ids, Untold(id)
             PROVE  /\ note'[id] = NoRow /\ mails'[id] = 0
                    /\ \A t \in Tries : tasks'[id][t] = 0
                    /\ \A v \in Workers : step'[v] # "free" => job'[v].id # id
  BY DEF UntoldIdsAreUntouched, Untold, consumer
<1>1. /\ note[id] = NoRow /\ mails[id] = 0
      /\ \A t \in Tries : tasks[id][t] = 0
      /\ \A v \in Workers : step[v] # "free" => job[v].id # id
  BY DEF UntoldIdsAreUntouched
<1>2. \A t \in Tries : tasks'[id][t] = 0
  BY <1>1
<1>3. \A v \in Workers : step'[v] # "free" => job'[v].id # id
  BY <1>1 DEF OthersStay
<1>4. QED
  BY <1>1, <1>2, <1>3

(* A notification keeps its one task while no task and no mail of it is     *)
(* added and its worker goes on or is done.                                 *)
LEMMA OneTaskStays ==
    ASSUME NEW id \in Ids, OneTask(id), mails'[id] = mails[id],
           \A t \in Tries : tasks'[id][t] = tasks[id][t],
           \A v \in Workers : Active(v, id)' => Active(v, id) /\ (Mailed(v)' <=> Mailed(v))
    PROVE  OneTask(id)'
BY DEF OneTask

(* The job of a worker that does not move stays in order.                   *)
LEMMA JobStays ==
    ASSUME TypeOK, TypeOK', NEW v \in Workers, JobInOrder(v),
           step'[v] = step[v], job'[v] = job[v], SameRows,
           \A id \in Ids : mails[id] > 0 => mails'[id] > 0, logs \subseteq logs'
    PROVE  JobInOrder(v)'
<1>1. job[v].id \in Ids
  BY DEF JobInOrder
<1>2. note[job[v].id] # NoRow => note'[job[v].id] # NoRow
  BY <1>1 DEF SameRows
<1>3. QED
  BY <1>1, <1>2 DEF JobInOrder, Mailed

(* What the steps of a worker have in common: it moves alone, adds a mail   *)
(* only for a row that is there, records no success without a mail and no   *)
(* try without the failure of the one before, and queues no try without it. *)
LEMMA WorkerStep ==
    ASSUME IInv, TypeOK', UNCHANGED consumer, NEW w \in Workers, OthersStay(w), SameRows,
           UntoldIdsAreUntouched', OneTaskUnlessRedone',
           step'[w] # "free" => JobInOrder(w)',
           \A id \in Ids : mails'[id] > 0 => mails[id] > 0 \/ note[id] # NoRow,
           \A id \in Ids : mails[id] > 0 => mails'[id] > 0,
           \A id \in Ids : note'[id] # NoRow /\ note'[id].status = "SENT" =>
               mails[id] > 0 \/ note[id].status = "SENT",
           logs \subseteq logs',
           \A entry \in logs' \ logs :
               /\ entry[3] = "SUCCESS" => mails[entry[1]] > 0
               /\ entry[1] \in Ids /\ entry[2] <= MaxRetries + 1
               /\ entry[2] > 1 => <<entry[1], entry[2] - 1, "FAILURE">> \in logs,
           \A id \in Ids, t \in Tries : tasks'[id][t] > 0 =>
               tasks[id][t] > 0 \/ t = 0 \/ <<id, t, "FAILURE">> \in logs
    PROVE  IInv'
<1>1. ConsumerInv'
  BY ConsumerPartStays DEF IInv
<1>2. JobsAreInOrder'
  <2> SUFFICES ASSUME NEW v \in Workers, step'[v] # "free"
               PROVE  JobInOrder(v)'
    BY DEF JobsAreInOrder
  <2>1. CASE v = w
    BY <2>1
  <2>2. CASE v # w
    <3>1. step'[v] = step[v] /\ job'[v] = job[v]
      BY <2>2 DEF OthersStay
    <3>2. JobInOrder(v)
      BY <3>1 DEF IInv, WorkerInv, JobsAreInOrder
    <3>3. QED
      BY <3>1, <3>2, JobStays DEF IInv
  <2>3. QED
    BY <2>1, <2>2
<1>3. QueuedTriesFollowFailures'
  BY DEF IInv, WorkerInv, QueuedTriesFollowFailures
<1>4. MailIsForOneRowPerEvent'
  BY DEF IInv, WorkerInv, MailIsForOneRowPerEvent, SameRows
<1>5. RecordedIsMailed'
  <2> SUFFICES ASSUME NEW id \in Ids, ~(mails'[id] > 0)
               PROVE  /\ note'[id] # NoRow => note'[id].status # "SENT"
                      /\ \A entry \in logs' : ~(entry[1] = id /\ entry[3] = "SUCCESS")
    BY DEF RecordedIsMailed
  <2>1. ~(mails[id] > 0)
    OBVIOUS
  <2>2. /\ note[id] # NoRow => note[id].status # "SENT"
        /\ \A entry \in logs : ~(entry[1] = id /\ entry[3] = "SUCCESS")
    BY <2>1 DEF IInv, WorkerInv, RecordsAreTrue, RecordedIsMailed
  <2>3. note'[id] # NoRow => note'[id].status # "SENT"
    BY <2>1, <2>2 DEF SameRows
  <2>4. \A entry \in logs' : ~(entry[1] = id /\ entry[3] = "SUCCESS")
    BY <2>1, <2>2
  <2>5. QED
    BY <2>3, <2>4
<1>6. TriesAreConsecutive'
  BY DEF IInv, WorkerInv, RecordsAreTrue, TriesAreConsecutive
<1>7. QED
  BY <1>1, <1>2, <1>3, <1>4, <1>5, <1>6 DEF IInv, WorkerInv, RecordsAreTrue

(* A task that is taken is the only one of its notification, unless one was *)
(* redone.                                                                  *)
LEMMA TakeKeeps ==
    ASSUME IInv, NEW w \in Workers, NEW id \in Ids, NEW t \in Tries, Take(w, id, t)
    PROVE  IInv'
<1>1. /\ step[w] = "free" /\ tasks[id][t] > 0
      /\ tasks' = [tasks EXCEPT ![id][t] = @ - 1]
      /\ job' = [job EXCEPT ![w] = [id |-> id, try |-> t]]
      /\ step' = [step EXCEPT ![w] = "loading"]
      /\ UNCHANGED <<consumer, note, mails, logs, redone>>
  BY DEF Take
<1>2. TypeOK'
  BY WorkerType DEF IInv, WorkerInv
<1>3. /\ job'[w] = [id |-> id, try |-> t] /\ step'[w] = "loading"
      /\ OthersStay(w)
  BY <1>1 DEF IInv, TypeOK, OthersStay
<1>4. \A i \in Ids, u \in Tries :
         tasks'[i][u] = IF i = id /\ u = t THEN tasks[i][u] - 1 ELSE tasks[i][u]
  BY <1>1, TakenTask DEF IInv
<1>5. /\ tasks \in [Ids -> [Tries -> Nat]] /\ tasks' \in [Ids -> [Tries -> Nat]]
  BY <1>2 DEF IInv, TypeOK
<1>6. \A i \in Ids, u \in Tries : tasks[i][u] \in Nat /\ tasks'[i][u] \in Nat
  BY <1>5
<1>7. \A i \in Ids, u \in Tries : tasks'[i][u] > 0 => tasks[i][u] > 0
  BY <1>4, <1>6
<1>8. UntoldIdsAreUntouched'
  <2>1. ~Untold(id)
    BY <1>1, <1>6 DEF IInv, WorkerInv, UntoldIdsAreUntouched
  <2>2. QED
    BY <1>1, <1>3, <1>5, <1>7, <2>1, UntouchedStay DEF IInv, WorkerInv
<1>9. OneTaskUnlessRedone'
  <2> SUFFICES ASSUME NEW i \in Ids \ redone
               PROVE  OneTask(i)'
    BY <1>1 DEF OneTaskUnlessRedone
  <2>1. OneTask(i)
    BY DEF IInv, WorkerInv, OneTaskUnlessRedone
  <2>2. CASE i = id
    <3>1. /\ mails[id] = 0 /\ tasks[id][t] = 1
          /\ \A u \in Tries \ {t} : tasks[id][u] = 0
          /\ \A v \in Workers : ~Active(v, id)
      BY <1>1, <1>6, <2>1, <2>2 DEF OneTask
    <3>2. \A u \in Tries : tasks'[id][u] = 0
      BY <1>4, <3>1
    <3>3. \A v \in Workers \ {w} : ~Active(v, id)'
      BY <1>3, <3>1 DEF OthersStay, Active
    <3>4. ~Mailed(w)'
      BY <1>3 DEF Mailed
    <3>5. QED
      BY <1>1, <2>2, <3>1, <3>2, <3>3, <3>4 DEF OneTask
  <2>3. CASE i # id
    <3>1. \A v \in Workers : Active(v, i)' => Active(v, i) /\ (Mailed(v)' <=> Mailed(v))
      BY <1>3, <2>3 DEF OthersStay, Active, Mailed
    <3>2. QED
      BY <1>1, <1>4, <2>1, <2>3, <3>1, OneTaskStays
  <2>4. QED
    BY <2>2, <2>3
<1>10. JobInOrder(w)'
  <2>1. job'[w] \in [id : Ids, try : Tries] /\ job'[w].id = id /\ job'[w].try = t
    BY <1>3
  <2>2. t > 0 => <<id, t, "FAILURE">> \in logs
    BY <1>1 DEF IInv, WorkerInv, QueuedTriesFollowFailures
  <2>3. QED
    BY <1>1, <1>3, <2>1, <2>2 DEF JobInOrder, Mailed
<1>11. SameRows
  BY <1>1 DEF SameRows
<1>12. QED
  BY <1>1, <1>2, <1>3, <1>7, <1>8, <1>9, <1>10, <1>11, WorkerStep

(* A worker that goes on, or is done, without a task or a mail.             *)
LEMMA QuietStep ==
    ASSUME IInv, TypeOK', UNCHANGED <<consumer, tasks, mails, redone>>,
           NEW w \in Workers, step[w] # "free", OthersStay(w),
           \/ step'[w] = "free"
           \/ /\ job'[w] = job[w] /\ step[w] # "acknowledging"
              /\ Mailed(w)' <=> Mailed(w),
           \A id \in Ids : id # job[w].id => note'[id] = note[id]
    PROVE  UntoldIdsAreUntouched' /\ OneTaskUnlessRedone'
<1>1. job[w].id \in Ids /\ ~Untold(job[w].id)
  BY JobOfWorker, JobIsTold DEF IInv, WorkerInv
<1>2. UntoldIdsAreUntouched'
  <2>1. \A id \in Ids : Untold(id) =>
            /\ note'[id] = note[id] /\ mails'[id] = mails[id]
            /\ \A t \in Tries : tasks'[id][t] > 0 => tasks[id][t] > 0
            /\ step'[w] # "free" => job'[w].id # id
    BY <1>1
  <2>2. tasks' \in [Ids -> [Tries -> Nat]]
    BY DEF TypeOK
  <2>3. QED
    BY <2>1, <2>2, UntouchedStay DEF IInv, WorkerInv
<1>3. OneTaskUnlessRedone'
  <2> SUFFICES ASSUME NEW id \in Ids \ redone
               PROVE  OneTask(id)'
    BY DEF OneTaskUnlessRedone
  <2>1. OneTask(id)
    BY DEF IInv, WorkerInv, OneTaskUnlessRedone
  <2>2. \A v \in Workers : Active(v, id)' => Active(v, id) /\ (Mailed(v)' <=> Mailed(v))
    BY DEF OthersStay, Active, Mailed
  <2>3. QED
    BY <2>1, <2>2, OneTaskStays
<1>4. QED
  BY <1>2, <1>3

(* A worker that only loads, fails to send, or is done, and what it has     *)
(* written before stays as it is.                                           *)
LEMMA PassingKeeps ==
    ASSUME IInv, NEW w \in Workers,
           FindNoRow(w) \/ FindRow(w) \/ SendFails(w) \/ Finish(w) \/ TaskFails(w)
    PROVE  IInv'
<1>1. TypeOK'
  BY WorkerType DEF IInv, WorkerInv, Work
<1>2. UNCHANGED <<consumer, note, tasks, mails, logs, redone>> /\ step[w] # "free"
  BY DEF FindNoRow, FindRow, SendFails, Finish, TaskFails
<1>3. /\ OthersStay(w)
      /\ \/ step'[w] = "free"
         \/ /\ job'[w] = job[w] /\ step[w] \in {"loading", "sending"}
            /\ step'[w] \in {"sending", "refused"} /\ note[job[w].id] # NoRow
  <2>1. CASE FindNoRow(w) \/ Finish(w) \/ TaskFails(w)
    <3>1. Acknowledge(w)
      BY <2>1 DEF FindNoRow, Finish, TaskFails
    <3>2. QED
      BY <3>1, WorkerMoves DEF IInv, OthersStay
  <2>2. CASE FindRow(w)
    BY <2>2, WorkerMoves DEF FindRow, IInv, OthersStay
  <2>3. CASE SendFails(w)
    BY <2>3, WorkerMoves DEF SendFails, IInv, OthersStay, WorkerInv, JobsAreInOrder, JobInOrder
  <2>4. QED
    BY <2>1, <2>2, <2>3
<1>4. UntoldIdsAreUntouched' /\ OneTaskUnlessRedone'
  BY <1>1, <1>2, <1>3, QuietStep DEF Mailed
<1>5. step'[w] # "free" => JobInOrder(w)'
  BY <1>2, <1>3 DEF IInv, WorkerInv, JobsAreInOrder, JobInOrder, Mailed
<1>6. SameRows
  BY <1>2 DEF SameRows
<1>7. \A id \in Ids : note'[id] # NoRow /\ note'[id].status = "SENT" =>
         mails[id] > 0 \/ note[id].status = "SENT"
  BY <1>2
<1>8. QED
  BY <1>1, <1>2, <1>3, <1>4, <1>5, <1>6, <1>7, WorkerStep

(* The mail server takes a mail once, unless it is sent again because of a  *)
(* timeout.                                                                 *)
LEMMA MailKeeps ==
    ASSUME IInv, NEW w \in Workers, SendMail(w) \/ SendTimesOut(w)
    PROVE  IInv'
<1>1. TypeOK'
  BY WorkerType DEF IInv, WorkerInv, Work
<1>2. /\ UNCHANGED <<consumer, note, tasks, logs>> /\ step[w] = "sending"
      /\ mails' = [mails EXCEPT ![job[w].id] = @ + 1]
      /\ redone \subseteq redone'
  BY DEF SendMail, SendTimesOut
<1>3. job'[w] = job[w] /\ step'[w] \in {"accepted", "refused"} /\ OthersStay(w)
  <2>1. Goto(w, "accepted") \/ Goto(w, "refused")
    BY DEF SendMail, SendTimesOut
  <2>2. QED
    BY <2>1, WorkerMoves DEF IInv, OthersStay
<1>4. JobInOrder(w) /\ job[w].id \in Ids /\ ~Untold(job[w].id)
  BY <1>2, JobOfWorker, JobIsTold DEF IInv, WorkerInv, JobsAreInOrder
<1>5. /\ \A i \in Ids : mails'[i] = IF i = job[w].id THEN mails[i] + 1 ELSE mails[i]
      /\ \A i \in Ids : mails[i] \in Nat
  BY <1>2, <1>4, SentMail DEF IInv, TypeOK
<1>6. UntoldIdsAreUntouched'
  <2>1. \A id \in Ids : Untold(id) =>
            /\ note'[id] = note[id] /\ mails'[id] = mails[id]
            /\ \A t \in Tries : tasks'[id][t] > 0 => tasks[id][t] > 0
            /\ step'[w] # "free" => job'[w].id # id
    BY <1>2, <1>3, <1>4, <1>5
  <2>2. tasks' \in [Ids -> [Tries -> Nat]]
    BY <1>1 DEF TypeOK
  <2>3. QED
    BY <1>2, <1>3, <2>1, <2>2, UntouchedStay DEF IInv, WorkerInv
<1>7. OneTaskUnlessRedone'
  <2> SUFFICES ASSUME NEW id \in Ids \ redone'
               PROVE  OneTask(id)'
    BY DEF OneTaskUnlessRedone
  <2>1. OneTask(id)
    BY <1>2 DEF IInv, WorkerInv, OneTaskUnlessRedone
  <2>2. CASE id = job[w].id
    <3>1. SendMail(w)
      BY <2>2 DEF SendTimesOut
    <3>2. step'[w] = "accepted"
      BY <3>1, WorkerMoves DEF SendMail, IInv
    <3>3. Active(w, id) /\ ~Mailed(w)
      BY <1>2, <2>2 DEF Active, Mailed
    <3>4. /\ mails[id] = 0 /\ \A t \in Tries : tasks[id][t] = 0
          /\ \A v \in Workers \ {w} : ~Active(v, id)
      BY <2>1, <3>3, <1>5 DEF OneTask
    <3>5. mails'[id] = 1 /\ Mailed(w)'
      BY <1>5, <2>2, <3>2, <3>4 DEF Mailed
    <3>6. \A v \in Workers \ {w} : ~Active(v, id)'
      BY <1>3, <3>4 DEF OthersStay, Active
    <3>7. QED
      BY <1>2, <3>4, <3>5, <3>6 DEF OneTask
  <2>3. CASE id # job[w].id
    <3>1. \A v \in Workers : Active(v, id)' => Active(v, id) /\ (Mailed(v)' <=> Mailed(v))
      BY <1>3, <2>3 DEF OthersStay, Active, Mailed
    <3>2. QED
      BY <1>2, <1>5, <2>1, <2>3, <3>1, OneTaskStays
  <2>4. QED
    BY <2>2, <2>3
<1>8. note[job[w].id] # NoRow
  BY <1>2, <1>4 DEF JobInOrder
<1>9. JobInOrder(w)'
  BY <1>2, <1>3, <1>4, <1>5, <1>8 DEF JobInOrder, Mailed
<1>10. SameRows
  BY <1>2 DEF SameRows
<1>11. /\ \A id \in Ids : mails'[id] > 0 => mails[id] > 0 \/ note[id] # NoRow
       /\ \A id \in Ids : mails[id] > 0 => mails'[id] > 0
       /\ \A id \in Ids : note'[id] # NoRow /\ note'[id].status = "SENT" =>
              mails[id] > 0 \/ note[id].status = "SENT"
  BY <1>2, <1>5, <1>8
<1>12. QED
  BY <1>1, <1>2, <1>3, <1>6, <1>7, <1>9, <1>10, <1>11, WorkerStep

(* A status is written to the row of the mail that was taken or refused.    *)
LEMMA MarkKeeps ==
    ASSUME IInv, NEW w \in Workers, MarkSent(w) \/ MarkFailed(w)
    PROVE  IInv'
<1>1. TypeOK'
  BY WorkerType DEF IInv, WorkerInv, Work
<1>2. UNCHANGED <<consumer, tasks, mails, logs, redone>> /\ step[w] \in {"accepted", "refused"}
  BY DEF MarkSent, MarkFailed, Mark
<1>3. /\ OthersStay(w) /\ job'[w] = job[w] /\ step'[w] \in {"sent", "failed"}
      /\ Mailed(w)' <=> Mailed(w)
  <2>1. CASE MarkSent(w)
    BY <2>1, WorkerMoves DEF MarkSent, IInv, OthersStay, Mailed
  <2>2. CASE MarkFailed(w)
    BY <2>2, WorkerMoves DEF MarkFailed, IInv, OthersStay, Mailed
  <2>3. QED
    BY <2>1, <2>2
<1>4. JobInOrder(w) /\ job[w].id \in Ids /\ note[job[w].id] # NoRow
  BY <1>2, JobOfWorker DEF IInv, WorkerInv, JobsAreInOrder, JobInOrder
<1>5. PICK status \in {"SENT", "FAILED"} :
          Mark(w, status) /\ (status = "SENT" => step[w] = "accepted")
  BY DEF MarkSent, MarkFailed
<1>6. /\ RowsStay
      /\ \A id \in Ids : note'[id] # NoRow =>
            /\ note[id] # NoRow /\ note'[id].event = note[id].event
            /\ note'[id].status = IF id = job[w].id THEN status ELSE note[id].status
  BY <1>4, <1>5, MarkedRow DEF IInv, JobInOrder
<1>7. SameRows
  BY <1>6 DEF SameRows, RowsStay
<1>8. \A id \in Ids : id # job[w].id => note'[id] = note[id]
  BY <1>4, <1>5 DEF Mark, IInv, TypeOK
<1>9. UntoldIdsAreUntouched' /\ OneTaskUnlessRedone'
  BY <1>1, <1>2, <1>3, <1>8, QuietStep
<1>10. JobInOrder(w)'
  <2>1. note'[job[w].id] # NoRow
    BY <1>4, <1>7 DEF SameRows
  <2>2. QED
    BY <1>2, <1>3, <1>4, <2>1 DEF JobInOrder
<1>11. \A id \in Ids : note'[id] # NoRow /\ note'[id].status = "SENT" =>
          mails[id] > 0 \/ note[id].status = "SENT"
  <2>1. status = "SENT" => mails[job[w].id] > 0
    BY <1>4, <1>5 DEF JobInOrder, Mailed
  <2>2. QED
    BY <1>6, <2>1
<1>12. QED
  BY <1>1, <1>2, <1>3, <1>7, <1>9, <1>10, <1>11, WorkerStep

(* An attempt is recorded after the failure of the one before.              *)
LEMMA LogKeeps ==
    ASSUME IInv, NEW w \in Workers, LogSuccess(w) \/ LogFailure(w)
    PROVE  IInv'
<1>1. TypeOK'
  BY WorkerType DEF IInv, WorkerInv, Work
<1>2. UNCHANGED <<consumer, note, tasks, mails, redone>> /\ step[w] \in {"sent", "failed"}
  BY DEF LogSuccess, LogFailure
<1>3. JobInOrder(w) /\ job[w].id \in Ids /\ job[w].try \in Tries
  BY <1>2, JobOfWorker DEF IInv, WorkerInv, JobsAreInOrder
<1>4. PICK status \in {"SUCCESS", "FAILURE"} :
          /\ logs' = logs \cup {<<job[w].id, job[w].try + 1, status>>}
          /\ status = "SUCCESS" => step[w] = "sent" /\ step'[w] = "free"
          /\ status = "FAILURE" => /\ step[w] = "failed" /\ step'[w] = "retrying"
                                   /\ job'[w] = job[w]
          /\ OthersStay(w)
  <2>1. CASE LogSuccess(w)
    BY <2>1, WorkerMoves DEF LogSuccess, Log, IInv, OthersStay
  <2>2. CASE LogFailure(w)
    BY <2>2, WorkerMoves DEF LogFailure, Log, IInv, OthersStay
  <2>3. QED
    BY <2>1, <2>2
<1>5. UntoldIdsAreUntouched' /\ OneTaskUnlessRedone'
  <2>1. \/ step'[w] = "free"
        \/ job'[w] = job[w] /\ step[w] # "acknowledging" /\ (Mailed(w)' <=> Mailed(w))
    BY <1>4 DEF Mailed
  <2>2. QED
    BY <1>1, <1>2, <1>4, <2>1, QuietStep
<1>6. step'[w] # "free" => JobInOrder(w)'
  BY <1>2, <1>3, <1>4 DEF JobInOrder, Mailed
<1>7. job[w].try \in Nat /\ job[w].try <= MaxRetries
  BY <1>3, ConstantsAssumption DEF Tries
<1>8. \A entry \in logs' \ logs :
         /\ entry[3] = "SUCCESS" => mails[entry[1]] > 0
         /\ entry[1] \in Ids /\ entry[2] <= MaxRetries + 1
         /\ entry[2] > 1 => <<entry[1], entry[2] - 1, "FAILURE">> \in logs
  <2> SUFFICES ASSUME NEW entry \in logs' \ logs
               PROVE  /\ entry[3] = "SUCCESS" => mails[entry[1]] > 0
                      /\ entry[1] \in Ids /\ entry[2] <= MaxRetries + 1
                      /\ entry[2] > 1 => <<entry[1], entry[2] - 1, "FAILURE">> \in logs
    OBVIOUS
  <2>1. entry = <<job[w].id, job[w].try + 1, status>>
    BY <1>4
  <2>2. entry[1] = job[w].id /\ entry[2] = job[w].try + 1 /\ entry[3] = status
    BY <2>1
  <2>3. status = "SUCCESS" => mails[job[w].id] > 0
    BY <1>3, <1>4 DEF JobInOrder, Mailed
  <2>4. entry[2] - 1 = job[w].try /\ entry[2] <= MaxRetries + 1
    BY <1>7, <2>2, ConstantsAssumption
  <2>5. entry[2] > 1 => <<job[w].id, job[w].try, "FAILURE">> \in logs
    BY <1>3, <1>7, <2>2 DEF JobInOrder
  <2>6. QED
    BY <1>3, <2>2, <2>3, <2>4, <2>5
<1>9. SameRows
  BY <1>2 DEF SameRows
<1>10. \A id \in Ids : note'[id] # NoRow /\ note'[id].status = "SENT" =>
          mails[id] > 0 \/ note[id].status = "SENT"
  BY <1>2
<1>11. QED
  BY <1>1, <1>2, <1>4, <1>5, <1>6, <1>8, <1>9, <1>10, WorkerStep

(* The next try is queued when the only one of its notification has failed. *)
LEMMA RetryKeeps ==
    ASSUME IInv, NEW w \in Workers, Retry(w)
    PROVE  IInv'
<1> DEFINE id == job[w].id
           t == job[w].try + 1
<1>1. TypeOK'
  BY WorkerType DEF IInv, WorkerInv, Work
<1>2. /\ UNCHANGED <<consumer, note, mails, logs, redone>> /\ step[w] = "retrying"
      /\ job[w].try < MaxRetries /\ Goto(w, "acknowledging")
      /\ tasks' = [tasks EXCEPT ![id][t] = @ + 1]
  BY DEF Retry
<1>3. job'[w] = job[w] /\ step'[w] = "acknowledging" /\ OthersStay(w)
  BY <1>2, WorkerMoves DEF IInv, OthersStay
<1>4. JobInOrder(w) /\ id \in Ids /\ job[w].try \in Tries /\ ~Untold(id)
  BY <1>2, JobOfWorker, JobIsTold DEF IInv, WorkerInv, JobsAreInOrder
<1>5. t \in Tries
  BY <1>2, <1>4, ConstantsAssumption DEF Tries
<1>6. \A i \in Ids, u \in Tries :
         tasks'[i][u] = IF i = id /\ u = t THEN tasks[i][u] + 1 ELSE tasks[i][u]
  BY <1>2, <1>4, <1>5, AddedTask DEF IInv
<1>7. <<id, t, "FAILURE">> \in logs
  BY <1>2, <1>4 DEF JobInOrder
<1>8. \A i \in Ids, u \in Tries : tasks'[i][u] > 0 =>
         tasks[i][u] > 0 \/ u = 0 \/ <<i, u, "FAILURE">> \in logs
  BY <1>6, <1>7
<1>9. UntoldIdsAreUntouched'
  <2>1. \A i \in Ids : Untold(i) => i # id
    BY <1>4
  <2>2. \A i \in Ids : i # id => \A u \in Tries : tasks'[i][u] = tasks[i][u]
    BY <1>6
  <2>3. tasks' \in [Ids -> [Tries -> Nat]]
    BY <1>1 DEF TypeOK
  <2>4. QED
    BY <1>2, <1>3, <2>1, <2>2, <2>3, UntouchedStay DEF IInv, WorkerInv
<1>10. OneTaskUnlessRedone'
  <2> SUFFICES ASSUME NEW i \in Ids \ redone
               PROVE  OneTask(i)'
    BY <1>2 DEF OneTaskUnlessRedone
  <2>1. OneTask(i)
    BY DEF IInv, WorkerInv, OneTaskUnlessRedone
  <2>2. CASE i = id
    <3>1. Active(w, i) /\ ~Mailed(w)
      BY <1>2, <2>2 DEF Active, Mailed
    <3>2. mails[i] \in Nat
      BY DEF IInv, TypeOK
    <3>3. /\ mails[i] = 0 /\ \A u \in Tries : tasks[i][u] = 0
          /\ \A v \in Workers \ {w} : ~Active(v, i)
      BY <2>1, <3>1, <3>2 DEF OneTask
    <3>4. \A u \in Tries : tasks'[i][u] = IF u = t THEN 1 ELSE 0
      BY <1>6, <2>2, <3>3
    <3>5. \A v \in Workers : ~Active(v, i)'
      BY <1>3, <3>3 DEF OthersStay, Active
    <3>6. QED
      BY <1>2, <3>3, <3>4, <3>5 DEF OneTask
  <2>3. CASE i # id
    <3>1. \A v \in Workers : Active(v, i)' => Active(v, i) /\ (Mailed(v)' <=> Mailed(v))
      BY <1>3, <2>3 DEF OthersStay, Active, Mailed
    <3>2. QED
      BY <1>2, <1>6, <2>1, <2>3, <3>1, OneTaskStays
  <2>4. QED
    BY <2>2, <2>3
<1>11. JobInOrder(w)'
  BY <1>2, <1>3, <1>4 DEF JobInOrder, Mailed
<1>12. SameRows
  BY <1>2 DEF SameRows
<1>13. \A i \in Ids : note'[i] # NoRow /\ note'[i].status = "SENT" =>
          mails[i] > 0 \/ note[i].status = "SENT"
  BY <1>2
<1>14. QED
  BY <1>1, <1>2, <1>3, <1>8, <1>9, <1>10, <1>11, <1>12, <1>13, WorkerStep

(* The task of a worker that dies comes back, and its notification counts   *)
(* as redone.                                                               *)
LEMMA DeathKeeps ==
    ASSUME IInv, NEW w \in Workers, WorkerDies(w)
    PROVE  IInv'
<1> DEFINE id == job[w].id
           t == job[w].try
<1>1. TypeOK'
  BY WorkerType DEF IInv, WorkerInv
<1>2. /\ UNCHANGED <<consumer, note, mails, logs>> /\ step[w] # "free"
      /\ Acknowledge(w) /\ redone' = redone \cup {id}
      /\ tasks' = [tasks EXCEPT ![id][t] = @ + 1]
  BY DEF WorkerDies
<1>3. step'[w] = "free" /\ OthersStay(w)
  BY <1>2, WorkerMoves DEF IInv, OthersStay
<1>4. JobInOrder(w) /\ id \in Ids /\ t \in Tries /\ ~Untold(id)
  BY <1>2, JobOfWorker, JobIsTold DEF IInv, WorkerInv, JobsAreInOrder
<1>5. \A i \in Ids, u \in Tries :
         tasks'[i][u] = IF i = id /\ u = t THEN tasks[i][u] + 1 ELSE tasks[i][u]
  BY <1>2, <1>4, AddedTask DEF IInv
<1>6. t > 0 => <<id, t, "FAILURE">> \in logs
  BY <1>4 DEF JobInOrder
<1>7. \A i \in Ids, u \in Tries : tasks'[i][u] > 0 =>
         tasks[i][u] > 0 \/ u = 0 \/ <<i, u, "FAILURE">> \in logs
  <2>1. t = 0 \/ t > 0
    BY <1>4, ConstantsAssumption DEF Tries
  <2>2. QED
    BY <1>5, <1>6, <2>1
<1>8. UntoldIdsAreUntouched'
  <2>1. \A i \in Ids : Untold(i) => i # id
    BY <1>4
  <2>2. \A i \in Ids : i # id => \A u \in Tries : tasks'[i][u] = tasks[i][u]
    BY <1>5
  <2>3. tasks' \in [Ids -> [Tries -> Nat]]
    BY <1>1 DEF TypeOK
  <2>4. QED
    BY <1>2, <1>3, <2>1, <2>2, <2>3, UntouchedStay DEF IInv, WorkerInv
<1>9. OneTaskUnlessRedone'
  <2> SUFFICES ASSUME NEW i \in Ids \ redone'
               PROVE  OneTask(i)'
    BY DEF OneTaskUnlessRedone
  <2>1. OneTask(i) /\ i # id
    BY <1>2 DEF IInv, WorkerInv, OneTaskUnlessRedone
  <2>2. \A v \in Workers : Active(v, i)' => Active(v, i) /\ (Mailed(v)' <=> Mailed(v))
    BY <1>3 DEF OthersStay, Active, Mailed
  <2>3. QED
    BY <1>2, <1>5, <2>1, <2>2, OneTaskStays
<1>10. SameRows
  BY <1>2 DEF SameRows
<1>11. \A i \in Ids : note'[i] # NoRow /\ note'[i].status = "SENT" =>
          mails[i] > 0 \/ note[i].status = "SENT"
  BY <1>2
<1>12. QED
  BY <1>1, <1>2, <1>3, <1>7, <1>8, <1>9, <1>10, <1>11, WorkerStep

----------------------------------------------------------------------------
(* Every step of the consumer, of a worker and of their surroundings keeps  *)
(* the invariant.                                                           *)
LEMMA Inductive == IInv /\ [Next]_vars => IInv'
<1> SUFFICES ASSUME IInv, [Next]_vars
             PROVE  IInv'
  OBVIOUS
<1>1. ASSUME NEW m \in Events \cup {Garbage}, Publish(m)
      PROVE  IInv'
  BY <1>1, PublishKeeps
<1>2. CASE Consume
  BY <1>2, PollKeeps, InsertKeeps, LeaveKeeps, DelayKeeps, CommitRowKeeps, OffsetsKeep
  DEF Consume
<1>3. CASE CommitLands \/ CommitIsLost \/ Crash \/ Restart
  BY <1>3, OffsetsKeep
<1>4. ASSUME NEW w \in Workers, NEW id \in Ids, NEW t \in Tries, Take(w, id, t)
      PROVE  IInv'
  BY <1>4, TakeKeeps
<1>5. ASSUME NEW w \in Workers, Work(w) \/ WorkerDies(w) \/ TaskFails(w)
      PROVE  IInv'
  BY <1>5, PassingKeeps, MailKeeps, MarkKeeps, LogKeeps, RetryKeeps, DeathKeeps DEF Work
<1>6. CASE Wait \/ UNCHANGED vars
  <2>1. UNCHANGED <<log, committed, inflight, position, pc, draft, used, failed, note,
                    tasks, worker, faults>>
    BY <1>6 DEF Wait, vars, consumer
  <2>2. TypeOK'
    BY <2>1 DEF IInv, TypeOK, worker
  <2>3. ConsumerInv'
    BY <2>1, ConsumerPartStays DEF IInv, consumer, SameRows
  <2>4. WorkerInv'
    BY <2>1, WorkerPartStays DEF IInv, Untold
  <2>5. QED
    BY <2>2, <2>3, <2>4 DEF IInv
<1>7. QED
  BY <1>1, <1>2, <1>3, <1>4, <1>5, <1>6 DEF Next

(* The invariant holds in every state.                                      *)
LEMMA Invariant == Spec => []IInv
<1>1. Init => IInv
  BY InitHolds
<1>2. QED
  BY <1>1, Inductive, PTL DEF Spec

----------------------------------------------------------------------------
(* The variables of the consumer and of the workers have the types they are *)
(* declared with, for any number of ids, workers and retries.               *)
THEOREM TypeCorrect == Spec => []TypeOK
<1>1. IInv => TypeOK
  BY DEF IInv
<1>2. QED
  BY <1>1, Invariant, PTL

(* An email goes out only for a notification in the table, and an event has *)
(* one notification at most: neither the task of a transaction that was     *)
(* rolled back nor a message that is delivered again sends one more.        *)
THEOREM MailNeedsItsRow == Spec => []MailIsForOneRowPerEvent
<1>1. IInv => MailIsForOneRowPerEvent
  BY DEF IInv, WorkerInv
<1>2. QED
  BY <1>1, Invariant, PTL

(* What the task records was done, and the log of tries has no holes, also  *)
(* when tasks are delivered again to several workers.                       *)
THEOREM RecordsTellTheTruth == Spec => []RecordsAreTrue
<1>1. IInv => RecordsAreTrue
  BY DEF IInv, WorkerInv
<1>2. QED
  BY <1>1, Invariant, PTL

(* Retries alone never send a second mail: that takes a worker that dies    *)
(* before it acknowledges, or an answer of the mail server that is late.    *)
THEOREM OneMailEach == Spec => []OneMailUnlessRedone
<1>1. IInv => OneMailUnlessRedone
  BY DEF IInv, WorkerInv, OneTaskUnlessRedone, OneTask, OneMailUnlessRedone
<1>2. QED
  BY <1>1, Invariant, PTL

(* The consumer passes over no event in silence: before an offset that is   *)
(* committed or being committed lies no event but those in the table and    *)
(* those whose handling ended in an error.                                  *)
THEOREM NothingPassesInSilence == Spec => []PassedIsStoredOrFailed
<1>1. IInv => PassedIsStoredOrFailed
  <2> SUFFICES ASSUME IInv, NEW n \in DOMAIN log, n <= committed \/ n <= inflight
               PROVE  Handled(n)
    BY DEF PassedIsStoredOrFailed, Handled
  <2>1. n \in Nat \ {0}
    BY DEF IInv, TypeOK
  <2>2. QED
    BY <2>1 DEF IInv, ConsumerInv, PassedIsHandled
<1>2. QED
  BY <1>1, Invariant, PTL
=============================================================================
