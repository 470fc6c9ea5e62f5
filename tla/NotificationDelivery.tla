------------------------ MODULE NotificationDelivery ------------------------
(***************************************************************************)
(* notification-service: the Kafka consumer that stores one Notification   *)
(* per event and starts a Celery task for it, and the Celery workers that  *)
(* send the email.                                                         *)
(*                                                                         *)
(* The consumer calls send_email_notification.delay() inside the           *)
(* transaction that inserts the row, so the task is in Redis before the    *)
(* row can be seen.  A worker that finds no row drops the task.  Tasks are *)
(* acknowledged late: one whose worker process tree dies comes back, one   *)
(* whose child process alone dies is acknowledged by the parent            *)
(* (task_reject_on_worker_lost is off).                                    *)
(*                                                                         *)
(* The partitions of Kafka are independent of each other here; one is      *)
(* modelled, with positions as counts like in AuditConsumer.  Kafka, Redis *)
(* and Celery's own machinery and the mail server are external.            *)
(***************************************************************************)
EXTENDS Naturals, Sequences, FiniteSets

CONSTANTS
    Events,         \* event ids
    Garbage,        \* a message that is not JSON
    Ids,            \* ids of notifications, numbered as they are drawn
    NoRow,          \* an id whose row was never committed
    Workers,        \* Celery worker processes
    NoTask,         \* a worker without a task
    MaxRetries,     \* max_retries of the task
    MaxLength,      \* bound of the model: messages in the log
    Faults,         \* which kinds of fault may happen
    MaxFaults       \* bound of the model: how many faults happen in a behaviour

FaultKinds == {"database", "redis", "commit", "crash", "smtp", "timeout", "worker", "child"}

Row == [event : Events, status : {"PENDING", "SENT", "FAILED"}]

ASSUME ConstantsAssumption ==
    /\ Garbage \notin Events
    /\ Ids \subseteq Nat /\ NoRow \notin Ids \cup Row
    /\ MaxRetries \in Nat /\ MaxLength \in Nat /\ MaxFaults \in Nat
    /\ Faults \subseteq FaultKinds

VARIABLES
    log,            \* messages of the partition
    committed,      \* offset of the group in the broker
    inflight,       \* an asynchronous commit under way, 0 if none
    position,       \* how far poll has read
    pc,             \* where the consumer is in _handle_message
    draft,          \* id inserted by the open transaction
    note,           \* note[id]: the committed row of notification id
    used,           \* ids drawn so far
    failed,         \* history of the model: offsets whose handling ended in an error
    tasks,          \* tasks[id][t]: messages in Redis for try t of id
    job,            \* job[w]: the task worker w executes
    step,           \* step[w]: where worker w is in the task
    mails,          \* mails[id]: emails the mail server accepted for id
    logs,           \* rows of notification_logs: <<id, attempt, status>>
    dropped,        \* history of the model: ids a task of which found no row, or broke
    redone,         \* history of the model: ids a task of which ran again, or timed out
    faults          \* how many faults have happened

consumer == <<log, committed, inflight, position, pc, draft, used, failed>>
worker   == <<job, step, mails, logs, dropped, redone>>
vars == <<consumer, note, tasks, worker, faults>>

Tries == 0..MaxRetries

----------------------------------------------------------------------------
Init ==
    /\ log = <<>>
    /\ committed = 0 /\ inflight = 0 /\ position = 0
    /\ pc = "poll"
    /\ draft = NoRow
    /\ note = [id \in Ids |-> NoRow]
    /\ used = {}
    /\ failed = {}
    /\ tasks = [id \in Ids |-> [t \in Tries |-> 0]]
    /\ job = [w \in Workers |-> NoTask]
    /\ step = [w \in Workers |-> "free"]
    /\ mails = [id \in Ids |-> 0]
    /\ logs = {}
    /\ dropped = {}
    /\ redone = {}
    /\ faults = 0

Fault(kind) ==
    /\ kind \in Faults
    /\ faults < MaxFaults
    /\ faults' = faults + 1

(* What is read from it: its event.  The subject, the recipient and the     *)
(* context of the mail are made of the rest of it and decide nothing.       *)
Message == log[position]

(* Ids are random in the code; only that a drawn id is new matters.         *)
Fresh(id) == id \in Ids \ used /\ \A other \in Ids \ used : id <= other

Stored(e) == \E id \in Ids : note[id] # NoRow /\ note[id].event = e

Publish(m) ==
    /\ Len(log) < MaxLength
    /\ log' = Append(log, m)
    /\ UNCHANGED <<committed, inflight, position, pc, draft, used, failed,
                   note, tasks, worker, faults>>

----------------------------------------------------------------------------
(* The consumer: _handle_message.                                          *)

(* Mutated form: a message that is not JSON is not recognised. *)
PollAnything ==
    /\ pc = "poll"
    /\ position < Len(log)
    /\ position' = position + 1
    /\ pc' = "handling"
    /\ UNCHANGED <<log, committed, inflight, draft, used, failed,
                   note, tasks, worker, faults>>

Poll ==
    /\ pc = "poll"
    /\ position < Len(log)
    /\ position' = position + 1
    /\ pc' = IF log[position + 1] = Garbage THEN "poll" ELSE "handling"
    /\ UNCHANGED <<log, committed, inflight, draft, used, failed,
                   note, tasks, worker, faults>>

(* Mutated form: event_id is not unique. *)
InsertAlways ==
    /\ pc = "handling"
    /\ \E id \in Ids :
          /\ Fresh(id)
          /\ used' = used \cup {id}
          /\ draft' = id
    /\ pc' = "inserted"
    /\ UNCHANGED <<log, committed, inflight, position, failed, note, tasks, worker, faults>>

(* Notification.objects.create: the row exists inside the transaction only. *)
Insert ==
    /\ pc = "handling"
    /\ ~Stored(Message)
    /\ \E id \in Ids :
          /\ Fresh(id)
          /\ used' = used \cup {id}
          /\ draft' = id
    /\ pc' = "inserted"
    /\ UNCHANGED <<log, committed, inflight, position, failed, note, tasks, worker, faults>>

(* Mutated form: an error of the insert is taken for a duplicate. *)
InsertAssumedDuplicate ==
    /\ pc = "handling"
    /\ pc' = "done"
    /\ UNCHANGED <<log, committed, inflight, position, draft, used, failed,
                   note, tasks, worker, faults>>

InsertDuplicate ==
    /\ pc = "handling"
    /\ Stored(Message)
    /\ pc' = "done"
    /\ UNCHANGED <<log, committed, inflight, position, draft, used, failed,
                   note, tasks, worker, faults>>

Delay ==
    /\ pc = "inserted"
    /\ tasks' = [tasks EXCEPT ![draft][0] = @ + 1]
    /\ pc' = "queued"
    /\ UNCHANGED <<log, committed, inflight, position, draft, used, failed,
                   note, worker, faults>>

CommitRow ==
    /\ pc = "queued"
    /\ note' = [note EXCEPT ![draft] = [event |-> Message, status |-> "PENDING"]]
    /\ draft' = NoRow
    /\ pc' = "done"
    /\ UNCHANGED <<log, committed, inflight, position, used, failed, tasks, worker, faults>>

(* An error of the database or of Redis rolls the transaction back; it is   *)
(* logged and poll goes on with the next message.                           *)
HandlingFails ==
    /\ \/ pc \in {"handling", "queued"} /\ Fault("database")
       \/ pc = "inserted" /\ Fault("redis")
    /\ failed' = failed \cup {position}
    /\ draft' = NoRow
    /\ pc' = "poll"
    /\ UNCHANGED <<log, committed, inflight, position, used, note, tasks, worker>>

CommitOffset ==
    /\ pc = "done"
    /\ inflight' = position
    /\ pc' = "poll"
    /\ UNCHANGED <<log, committed, position, draft, used, failed,
                   note, tasks, worker, faults>>

CommitLands ==
    /\ inflight # 0
    /\ committed' = inflight
    /\ inflight' = 0
    /\ UNCHANGED <<log, position, pc, draft, used, failed, note, tasks, worker, faults>>

CommitIsLost ==
    /\ inflight # 0
    /\ Fault("commit")
    /\ inflight' = 0
    /\ UNCHANGED <<log, committed, position, pc, draft, used, failed, note, tasks, worker>>

(* Also what a commit() that raises in the handler of IntegrityError does.  *)
Crash ==
    /\ pc # "down"
    /\ Fault("crash")
    /\ pc' = "down"
    /\ draft' = NoRow
    /\ inflight' = 0
    /\ UNCHANGED <<log, committed, position, used, failed, note, tasks, worker>>

Restart ==
    /\ pc = "down"
    /\ pc' = "poll"
    /\ position' = committed
    /\ UNCHANGED <<log, committed, inflight, draft, used, failed,
                   note, tasks, worker, faults>>

(* poll returns None. *)
Wait == pc = "poll" /\ position = Len(log) /\ UNCHANGED vars

Consume ==
    \/ Poll \/ Insert \/ InsertDuplicate \/ Delay \/ CommitRow
    \/ HandlingFails \/ CommitOffset
----------------------------------------------------------------------------
(* A Celery worker: send_email_notification.                               *)

Take(w, id, t) ==
    /\ step[w] = "free"
    /\ tasks[id][t] > 0
    /\ tasks' = [tasks EXCEPT ![id][t] = @ - 1]
    /\ job' = [job EXCEPT ![w] = [id |-> id, try |-> t]]
    /\ step' = [step EXCEPT ![w] = "loading"]
    /\ UNCHANGED <<consumer, note, mails, logs, dropped, redone, faults>>

Acknowledge(w) ==
    /\ job' = [job EXCEPT ![w] = NoTask]
    /\ step' = [step EXCEPT ![w] = "free"]

Goto(w, next) == step' = [step EXCEPT ![w] = next] /\ UNCHANGED job

(* DoesNotExist: the task returns as if there were nothing to do.           *)
FindNoRow(w) ==
    /\ step[w] = "loading"
    /\ note[job[w].id] = NoRow
    /\ dropped' = dropped \cup {job[w].id}
    /\ Acknowledge(w)
    /\ UNCHANGED <<consumer, note, tasks, mails, logs, redone, faults>>

FindRow(w) ==
    /\ step[w] = "loading"
    /\ note[job[w].id] # NoRow
    /\ Goto(w, "sending")
    /\ UNCHANGED <<consumer, note, tasks, mails, logs, dropped, redone, faults>>

SendMail(w) ==
    /\ step[w] = "sending"
    /\ mails' = [mails EXCEPT ![job[w].id] = @ + 1]
    /\ Goto(w, "accepted")
    /\ UNCHANGED <<consumer, note, tasks, logs, dropped, redone, faults>>

(* Mutated form: the error of the mail server is swallowed (fail_silently). *)
SendFailsSilently(w) ==
    /\ step[w] = "sending"
    /\ Fault("smtp")
    /\ Goto(w, "accepted")
    /\ UNCHANGED <<consumer, note, tasks, mails, logs, dropped, redone>>

SendFails(w) ==
    /\ step[w] = "sending"
    /\ Fault("smtp")
    /\ Goto(w, "refused")
    /\ UNCHANGED <<consumer, note, tasks, mails, logs, dropped, redone>>

(* The server takes the mail and the answer, or the soft time limit, comes  *)
(* too late: send_mail raises although the mail is out.                     *)
SendTimesOut(w) ==
    /\ step[w] = "sending"
    /\ Fault("timeout")
    /\ mails' = [mails EXCEPT ![job[w].id] = @ + 1]
    /\ redone' = redone \cup {job[w].id}
    /\ Goto(w, "refused")
    /\ UNCHANGED <<consumer, note, tasks, logs, dropped>>

Mark(w, status) ==
    /\ note' = [note EXCEPT ![job[w].id].status = status]
    /\ UNCHANGED <<consumer, tasks, mails, logs, dropped, redone, faults>>

MarkSent(w) == step[w] = "accepted" /\ Mark(w, "SENT") /\ Goto(w, "sent")

MarkFailed(w) == step[w] = "refused" /\ Mark(w, "FAILED") /\ Goto(w, "failed")

Log(w, status) == logs' = logs \cup {<<job[w].id, job[w].try + 1, status>>}

(* Mutated form: the task goes on to self.retry after a success. *)
LogSuccessAndRetry(w) ==
    /\ step[w] = "sent"
    /\ Log(w, "SUCCESS")
    /\ Goto(w, "retrying")
    /\ UNCHANGED <<consumer, note, tasks, mails, dropped, redone, faults>>

LogSuccess(w) ==
    /\ step[w] = "sent"
    /\ Log(w, "SUCCESS")
    /\ Acknowledge(w)
    /\ UNCHANGED <<consumer, note, tasks, mails, dropped, redone, faults>>

LogFailure(w) ==
    /\ step[w] = "failed"
    /\ Log(w, "FAILURE")
    /\ Goto(w, "retrying")
    /\ UNCHANGED <<consumer, note, tasks, mails, dropped, redone, faults>>

(* Mutated form: the exception is raised without self.retry. *)
RaiseWithoutRetry(w) ==
    /\ step[w] = "retrying"
    /\ job[w].try < MaxRetries
    /\ Goto(w, "acknowledging")
    /\ UNCHANGED <<consumer, note, tasks, mails, logs, dropped, redone, faults>>

(* self.retry puts a new message with a countdown into Redis and raises     *)
(* Retry, or raises the exception itself when the retries are used up.      *)
Retry(w) ==
    /\ step[w] = "retrying"
    /\ job[w].try < MaxRetries
    /\ tasks' = [tasks EXCEPT ![job[w].id][job[w].try + 1] = @ + 1]
    /\ Goto(w, "acknowledging")
    /\ UNCHANGED <<consumer, note, mails, logs, dropped, redone, faults>>

Finish(w) ==
    /\ \/ step[w] = "retrying" /\ job[w].try >= MaxRetries
       \/ step[w] = "acknowledging"
    /\ Acknowledge(w)
    /\ UNCHANGED <<consumer, note, tasks, mails, logs, dropped, redone, faults>>

(* The worker dies with its parent before it acknowledges: the message      *)
(* becomes visible again.                                                   *)
WorkerDies(w) ==
    /\ step[w] # "free"
    /\ Fault("worker")
    /\ tasks' = [tasks EXCEPT ![job[w].id][job[w].try] = @ + 1]
    /\ redone' = redone \cup {job[w].id}
    /\ Acknowledge(w)
    /\ UNCHANGED <<consumer, note, mails, logs, dropped>>

(* The child process alone is killed, or an exception escapes outside the   *)
(* try (the template, the database): Celery acknowledges the failed task.   *)
TaskFails(w) ==
    /\ step[w] # "free"
    /\ Fault("child")
    /\ dropped' = dropped \cup {job[w].id}
    /\ Acknowledge(w)
    /\ UNCHANGED <<consumer, note, tasks, mails, logs, redone>>

Work(w) ==
    \/ FindNoRow(w) \/ FindRow(w)
    \/ SendMail(w) \/ SendFails(w) \/ SendTimesOut(w)
    \/ MarkSent(w) \/ LogSuccess(w)
    \/ MarkFailed(w) \/ LogFailure(w) \/ Retry(w) \/ Finish(w)

Next ==
    \/ \E m \in Events \cup {Garbage} : Publish(m)
    \/ Consume \/ Wait \/ CommitLands \/ CommitIsLost \/ Crash \/ Restart
    \/ \E w \in Workers :
          \/ \E id \in Ids, t \in Tries : Take(w, id, t)
          \/ Work(w) \/ WorkerDies(w) \/ TaskFails(w)

Spec == Init /\ [][Next]_vars

(* The consumer is restarted, the workers run, and a message in Redis is    *)
(* taken by some worker that is free often enough.                          *)
Fairness ==
    /\ WF_vars(Consume) /\ WF_vars(Restart) /\ WF_vars(CommitLands)
    /\ \A w \in Workers : WF_vars(Work(w))
    /\ \A id \in Ids, t \in Tries : SF_vars(\E w \in Workers : Take(w, id, t))

FairSpec == Spec /\ Fairness

----------------------------------------------------------------------------
(* Properties.                                                             *)

TypeOK ==
    /\ log \in Seq(Events \cup {Garbage})
    /\ committed \in Nat /\ inflight \in Nat /\ position \in Nat
    /\ pc \in {"poll", "handling", "inserted", "queued", "done", "down"}
    /\ draft \in Ids \cup {NoRow}
    /\ note \in [Ids -> Row \cup {NoRow}]
    /\ used \in SUBSET Ids
    /\ failed \in SUBSET Nat
    /\ tasks \in [Ids -> [Tries -> Nat]]
    /\ job \in [Workers -> [id : Ids, try : Tries] \cup {NoTask}]
    /\ step \in [Workers -> {"free", "loading", "sending", "accepted", "sent",
                             "refused", "failed", "retrying", "acknowledging"}]
    /\ mails \in [Ids -> Nat]
    /\ logs \in SUBSET (Ids \X Nat \X {"SUCCESS", "FAILURE"})
    /\ dropped \in SUBSET Ids /\ redone \in SUBSET Ids
    /\ faults \in Nat

(* An email goes out only for a notification that is in the table, and an   *)
(* event has one notification at most: a task started by a transaction that *)
(* was rolled back, and a redelivered message, send nothing more.           *)
MailIsForOneRowPerEvent ==
    /\ \A id \in Ids : mails[id] > 0 => note[id] # NoRow
    /\ \A id, other \in Ids :
          note[id] # NoRow /\ note[other] # NoRow /\ id # other =>
              note[id].event # note[other].event

(* What is recorded was done: a SENT status, and a log entry of success,    *)
(* mean that the mail server took the mail.                                 *)
RecordedIsMailed ==
    \A id \in Ids :
        \/ mails[id] > 0
        \/ /\ note[id] # NoRow => note[id].status # "SENT"
           /\ \A entry \in logs : ~(entry[1] = id /\ entry[3] = "SUCCESS")

(* One mail per notification, whatever the number of tries, unless a task   *)
(* was delivered again or timed out after the mail was taken.               *)
OneMailUnlessRedone == \A id \in Ids \ redone : mails[id] <= 1

(* The log of a notification has no holes: try n is there only after the    *)
(* failure of try n - 1 was recorded, for redelivered tasks too.            *)
TriesAreConsecutive ==
    \A entry \in logs :
        /\ entry[2] <= MaxRetries + 1
        /\ entry[2] > 1 => <<entry[1], entry[2] - 1, "FAILURE">> \in logs

(* The records of a notification are true: none of what was not done, and   *)
(* none is missing between two.                                             *)
RecordsAreTrue == RecordedIsMailed /\ TriesAreConsecutive

(* The consumer passes over no event in silence.                            *)
PassedIsStoredOrFailed ==
    \A n \in DOMAIN log : n <= committed \/ n <= inflight =>
        log[n] = Garbage \/ Stored(log[n]) \/ n \in failed

Recorded(id) ==
    \/ note[id] # NoRow /\ note[id].status = "SENT"
    \/ <<id, MaxRetries + 1, "FAILURE">> \in logs

(* A stored notification is sent, or given up after the last retry, or a    *)
(* task of it ran before the row was committed, or broke: the mail server   *)
(* may fail, workers and the consumer may die, messages may come again.     *)
StoredIsSentOrGivenUp ==
    \A id \in Ids : note[id] # NoRow ~> Recorded(id) \/ id \in dropped

(* What the plan of the project says of the consumer: the Notification is   *)
(* created, then its task is dispatched.  So no notification of the table   *)
(* had a task that could not find it.                                       *)
TaskFindsItsRow == \A id \in dropped : note[id] = NoRow
=============================================================================
