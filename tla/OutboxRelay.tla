---------------------------- MODULE OutboxRelay ----------------------------
(***************************************************************************)
(* The transactional outbox of policy-service and claims-service: rows of  *)
(* the table outbox_outboxevent, written by the transactions of the API,   *)
(* and the processes (run_outbox_relay) that read PENDING rows, hand them  *)
(* to Kafka through librdkafka and mark them PUBLISHED or FAILED.  The two *)
(* services carry the same relay, line for line; each has its own table.   *)
(*                                                                         *)
(* producer.produce() only puts a message into a queue in the memory of    *)
(* the process.  The library sends that queue in the background, re-sends  *)
(* what is not acknowledged, gives a message up after message.timeout.ms,  *)
(* and loses everything with the process.  flush(5) waits for the queue to *)
(* drain, at most five seconds, and the relay does not look at its result. *)
(*                                                                         *)
(* The broker and the library are external: Deliver, Resend, Requeue,      *)
(* Expire, Outage and Recover model what the relay's use of them assumes.  *)
(***************************************************************************)
EXTENDS Naturals, Sequences, FiniteSets

CONSTANTS
    Events,         \* outbox rows, numbered in the order of created_at
    Streams,        \* pairs of a topic and a key: Kafka keeps order in each
    StreamOf,       \* the stream of each row
    Relays,         \* relay processes on one table
    BatchSize,      \* BATCH_SIZE
    MaxAttempts,    \* MAX_ATTEMPTS
    Faults,         \* which kinds of fault may happen
    MaxFaults       \* bound of the model: how many faults happen in a behaviour

FaultKinds == {"produce", "crash", "outage", "expire", "resend", "reorder"}

ASSUME EventsAssumption == Events \subseteq Nat
ASSUME StreamsAssumption == StreamOf \in [Events -> Streams]
ASSUME LimitsAssumption == BatchSize \in Nat \ {0} /\ MaxAttempts \in Nat \ {0}
ASSUME FaultsAssumption == Faults \subseteq FaultKinds /\ MaxFaults \in Nat

VARIABLES
    row,        \* row[e]: the committed row e
    pc,         \* pc[r]: where relay r is in _process_batch
    batch,      \* batch[r]: the rows its transaction has locked
    ok,         \* ok[r]: rows of the batch set PUBLISHED, not committed yet
    bad,        \* bad[r]: rows of the batch with attempts + 1, not committed yet
    queue,      \* queue[r][s]: messages of stream s in the memory of relay r
    log,        \* log[s]: messages of stream s in the broker
    up,         \* whether the broker answers
    lost,       \* history of the model: rows a queued copy of which vanished
    again,      \* history of the model: rows produced again or sent again
    delayed,    \* history of the model: rows for which produce() raised, or put back
    faults      \* how many faults have happened

vars == <<row, pc, batch, ok, bad, queue, log, up, lost, again, delayed, faults>>

----------------------------------------------------------------------------
Absent == [status |-> "absent", attempts |-> 0]
Pending == [status |-> "PENDING", attempts |-> 0]
RowType == [status : {"absent", "PENDING", "PUBLISHED", "FAILED"}, attempts : 0..MaxAttempts]

Init ==
    /\ row = [e \in Events |-> Absent]
    /\ pc = [r \in Relays |-> "idle"]
    /\ batch = [r \in Relays |-> {}]
    /\ ok = [r \in Relays |-> {}]
    /\ bad = [r \in Relays |-> {}]
    /\ queue = [r \in Relays |-> [s \in Streams |-> <<>>]]
    /\ log = [s \in Streams |-> <<>>]
    /\ up = TRUE
    /\ lost = {}
    /\ again = {}
    /\ delayed = {}
    /\ faults = 0

Fault(kind) ==
    /\ kind \in Faults
    /\ faults < MaxFaults
    /\ faults' = faults + 1

Elements(seq) == {seq[i] : i \in DOMAIN seq}
InQueue(r, e) == e \in Elements(queue[r][StreamOf[e]])
InLog(e) == e \in Elements(log[StreamOf[e]])

relayState == <<pc, batch, ok, bad>>
kafkaState == <<queue, log, up, lost, again, delayed>>

----------------------------------------------------------------------------
(* The transactions of the API.                                            *)

(* A business transaction commits with its outbox row.  It holds the lock   *)
(* of the aggregate from before created_at is taken until the commit, so    *)
(* the rows of one stream appear in the order of created_at; rows of        *)
(* different aggregates need not.  A transaction that rolls back leaves its *)
(* row absent.                                                              *)
Insert(e) ==
    /\ row[e] = Absent
    /\ \A d \in Events : d < e /\ StreamOf[d] = StreamOf[e] => row[d] # Absent
    /\ row' = [row EXCEPT ![e] = Pending]
    /\ UNCHANGED <<relayState, kafkaState, faults>>

----------------------------------------------------------------------------
(* _process_batch.                                                         *)

LockedByOthers(r) == UNION {batch[q] : q \in Relays \ {r}}

(* Mutated form: the query has no FOR UPDATE SKIP LOCKED. *)
VisibleToAll(r) == {e \in Events : row[e].status = "PENDING"}

(* Mutated form: rows that failed once are not fetched again. *)
VisibleUntried(r) ==
    {e \in Events : row[e].status = "PENDING" /\ row[e].attempts = 0} \ LockedByOthers(r)

Visible(r) == {e \in Events : row[e].status = "PENDING"} \ LockedByOthers(r)

(* Mutated form: the query has no ORDER BY. *)
AnyFirst(B, S) == Cardinality(B) <= BatchSize

(* B is the result of ORDER BY created_at LIMIT BatchSize over S. *)
First(B, S) ==
    /\ Cardinality(B) <= BatchSize
    /\ \A e \in B, d \in S \ B : e < d
    /\ B # S => Cardinality(B) = BatchSize

Fetch(r) ==
    /\ pc[r] = "idle"
    /\ \E B \in SUBSET Visible(r) :
          /\ B # {}
          /\ First(B, Visible(r))
          /\ batch' = [batch EXCEPT ![r] = B]
    /\ pc' = [pc EXCEPT ![r] = "producing"]
    /\ UNCHANGED <<row, ok, bad, kafkaState, faults>>

(* Nothing to fetch: the relay sleeps POLL_INTERVAL and asks again. *)
EmptyFetch(r) ==
    /\ pc[r] = "idle"
    /\ Visible(r) = {}
    /\ UNCHANGED vars

Todo(r) == batch[r] \ (ok[r] \cup bad[r])

(* The loop goes over the batch in the order of the query. *)
Current(r, e) == e \in Todo(r) /\ \A d \in Todo(r) : e <= d

(* Mutated form: a message replaces the one waiting under the same key. *)
ProduceReplacing(r) ==
    /\ pc[r] = "producing"
    /\ \E e \in Todo(r) :
          /\ Current(r, e)
          /\ ok' = [ok EXCEPT ![r] = @ \cup {e}]
          /\ queue' = [queue EXCEPT ![r][StreamOf[e]] = <<e>>]
    /\ UNCHANGED <<row, pc, batch, bad, log, up, lost, again, delayed, faults>>

ProduceOk(r) ==
    /\ pc[r] = "producing"
    /\ \E e \in Todo(r) :
          /\ Current(r, e)
          /\ ok' = [ok EXCEPT ![r] = @ \cup {e}]
          /\ queue' = [queue EXCEPT ![r][StreamOf[e]] = Append(@, e)]
    /\ UNCHANGED <<row, pc, batch, bad, log, up, lost, again, delayed, faults>>

(* produce() raised: the local queue is full, the message is too large, the *)
(* topic is unknown.  The loop goes on with the next row.                   *)
ProduceFail(r) ==
    /\ pc[r] = "producing"
    /\ Fault("produce")
    /\ \E e \in Todo(r) :
          /\ Current(r, e)
          /\ bad' = [bad EXCEPT ![r] = @ \cup {e}]
          /\ delayed' = delayed \cup {e}
    /\ UNCHANGED <<row, pc, batch, ok, queue, log, up, lost, again>>

Drained(r) == \A s \in Streams : queue[r][s] = <<>>

(* flush(5) returns with an empty queue, or after five seconds without the  *)
(* broker; the relay goes on to commit in both cases.                       *)
Flush(r) ==
    /\ pc[r] = "producing"
    /\ Todo(r) = {}
    /\ Drained(r) \/ ~up
    /\ pc' = [pc EXCEPT ![r] = "committing"]
    /\ UNCHANGED <<row, batch, ok, bad, kafkaState, faults>>

(* Mutated form: a row is given up after one attempt too many. *)
AfterFailureLate(e) ==
    [status |-> IF row[e].attempts >= MaxAttempts THEN "FAILED" ELSE "PENDING",
     attempts |-> row[e].attempts + 1]

AfterFailure(e) ==
    [status |-> IF row[e].attempts + 1 >= MaxAttempts THEN "FAILED" ELSE "PENDING",
     attempts |-> row[e].attempts + 1]

AfterSuccess(e) == [row[e] EXCEPT !.status = "PUBLISHED"]

Release(r) ==
    /\ batch' = [batch EXCEPT ![r] = {}]
    /\ ok' = [ok EXCEPT ![r] = {}]
    /\ bad' = [bad EXCEPT ![r] = {}]

(* Mutated form: every row of the batch is marked as published. *)
CommitAllPublished(r) ==
    /\ pc[r] = "committing"
    /\ row' = [e \in Events |-> IF e \in batch[r] THEN AfterSuccess(e) ELSE row[e]]
    /\ pc' = [pc EXCEPT ![r] = "idle"]
    /\ Release(r)
    /\ UNCHANGED <<kafkaState, faults>>

Commit(r) ==
    /\ pc[r] = "committing"
    /\ row' = [e \in Events |-> IF e \in ok[r] THEN AfterSuccess(e)
                                ELSE IF e \in bad[r] THEN AfterFailure(e)
                                ELSE row[e]]
    /\ pc' = [pc EXCEPT ![r] = "idle"]
    /\ Release(r)
    /\ UNCHANGED <<kafkaState, faults>>

(* The process dies, or an exception of the database ends it: handle()      *)
(* catches KeyboardInterrupt only.  PostgreSQL rolls the transaction back,  *)
(* the queue in memory is gone.                                             *)
Crash(r) ==
    /\ pc[r] # "down"
    /\ Fault("crash")
    /\ pc' = [pc EXCEPT ![r] = "down"]
    /\ lost' = lost \cup {e \in Events : InQueue(r, e)}
    /\ again' = again \cup ok[r]
    /\ queue' = [queue EXCEPT ![r] = [s \in Streams |-> <<>>]]
    /\ Release(r)
    /\ UNCHANGED <<row, log, up, delayed>>

(* The container restarts the command. *)
Restart(r) ==
    /\ pc[r] = "down"
    /\ pc' = [pc EXCEPT ![r] = "idle"]
    /\ UNCHANGED <<row, batch, ok, bad, kafkaState, faults>>

----------------------------------------------------------------------------
(* librdkafka and the broker.                                              *)

Waiting(r, s) == queue[r][s] # <<>>

Deliver(r, s) ==
    /\ up
    /\ Waiting(r, s)
    /\ log' = [log EXCEPT ![s] = Append(@, Head(queue[r][s]))]
    /\ queue' = [queue EXCEPT ![r][s] = Tail(@)]
    /\ UNCHANGED <<row, relayState, up, lost, again, delayed, faults>>

(* The broker stored the message, the acknowledgement did not come back:    *)
(* the library will send it again.                                          *)
Resend(r, s) ==
    /\ up
    /\ Waiting(r, s)
    /\ Fault("resend")
    /\ log' = [log EXCEPT ![s] = Append(@, Head(queue[r][s]))]
    /\ again' = again \cup {Head(queue[r][s])}
    /\ UNCHANGED <<row, relayState, queue, up, lost, delayed>>

(* A request failed while later ones were in flight, and is retried after   *)
(* them: the producer is configured without enable.idempotence.             *)
Requeue(r, s) ==
    /\ Waiting(r, s)
    /\ Fault("reorder")
    /\ queue' = [queue EXCEPT ![r][s] = Append(Tail(@), Head(@))]
    /\ delayed' = delayed \cup {Head(queue[r][s])}
    /\ UNCHANGED <<row, relayState, log, up, lost, again>>

(* message.timeout.ms passed without the broker; no delivery report is      *)
(* asked for.                                                               *)
Expire(r, s) ==
    /\ ~up
    /\ Waiting(r, s)
    /\ Fault("expire")
    /\ lost' = lost \cup {Head(queue[r][s])}
    /\ queue' = [queue EXCEPT ![r][s] = Tail(@)]
    /\ UNCHANGED <<row, relayState, log, up, again, delayed>>

Outage ==
    /\ up
    /\ Fault("outage")
    /\ up' = FALSE
    /\ UNCHANGED <<row, relayState, queue, log, lost, again, delayed>>

Recover ==
    /\ ~up
    /\ up' = TRUE
    /\ UNCHANGED <<row, relayState, queue, log, lost, again, delayed, faults>>

----------------------------------------------------------------------------
Relay(r) == Fetch(r) \/ EmptyFetch(r) \/ ProduceOk(r) \/ ProduceFail(r)
                     \/ Flush(r) \/ Commit(r)

Library(r) ==
    \E s \in Streams : Deliver(r, s) \/ Resend(r, s) \/ Requeue(r, s) \/ Expire(r, s)

Next ==
    \/ \E e \in Events : Insert(e)
    \/ \E r \in Relays : Relay(r) \/ Crash(r) \/ Restart(r) \/ Library(r)
    \/ Outage
    \/ Recover

Spec == Init /\ [][Next]_vars

(* The relay never stops polling, its container is restarted, an outage     *)
(* ends, and librdkafka sends what it holds while the broker answers.       *)
Fairness ==
    /\ \A r \in Relays :
          /\ WF_vars(Relay(r))
          /\ WF_vars(Restart(r))
          /\ \A s \in Streams : WF_vars(Deliver(r, s))
    /\ WF_vars(Recover)

FairSpec == Spec /\ Fairness

----------------------------------------------------------------------------
(* Properties.                                                             *)

TypeOK ==
    /\ row \in [Events -> RowType]
    /\ pc \in [Relays -> {"idle", "producing", "committing", "down"}]
    /\ batch \in [Relays -> SUBSET Events]
    /\ ok \in [Relays -> SUBSET Events]
    /\ bad \in [Relays -> SUBSET Events]
    /\ queue \in [Relays -> [Streams -> Seq(Events)]]
    /\ log \in [Streams -> Seq(Events)]
    /\ up \in BOOLEAN
    /\ lost \in SUBSET Events
    /\ again \in SUBSET Events
    /\ delayed \in SUBSET Events
    /\ faults \in Nat

(* Two relays never work on the same row, and the rows of a transaction in  *)
(* progress are still PENDING: no one else decides about a locked row.      *)
BatchesAreExclusive ==
    /\ \A r, q \in Relays : r # q => batch[r] \cap batch[q] = {}
    /\ \A r \in Relays : \A e \in batch[r] : row[e].status = "PENDING"

(* The attempts of a row and its status tell the same story: a row is given *)
(* up exactly when its attempts are used up, never before and never after.  *)
FailedAfterAllAttempts ==
    \A e \in Events :
        /\ row[e].status = "FAILED" <=> row[e].attempts >= MaxAttempts
        /\ row[e].attempts <= MaxAttempts

(* What Kafka holds, or may still receive, comes from a committed business  *)
(* transaction: the promise of the transactional outbox.                    *)
NothingFromNowhere ==
    \A e \in Events :
        InLog(e) \/ (\E r \in Relays : InQueue(r, e)) => row[e] # Absent

(* A PUBLISHED row is in the broker, or in the memory of a relay, or a copy *)
(* of it is known to have vanished from there: the relay never marks a row  *)
(* whose message it did not hand over.                                      *)
PublishedIsAccountedFor ==
    \A e \in Events : row[e].status = "PUBLISHED" =>
        \/ InLog(e)
        \/ \E r \in Relays : InQueue(r, e)
        \/ e \in lost

(* An event has one copy over all queues and the broker unless its relay    *)
(* died between produce and commit or librdkafka sent it again; and a row   *)
(* nobody published, FAILED ones included, has none.  Running several       *)
(* relays duplicates nothing.                                               *)
OneCopyUnlessAgain ==
    \A e \in Events \ again :
        LET s == StreamOf[e] IN
        /\ \A i, k \in DOMAIN log[s] : log[s][i] = e /\ log[s][k] = e => i = k
        /\ \A r \in Relays : \A i, k \in DOMAIN queue[r][s] :
              queue[r][s][i] = e /\ queue[r][s][k] = e => i = k
        /\ \A r, q \in Relays : InQueue(r, e) /\ InQueue(q, e) => r = q
        /\ \A r \in Relays : InQueue(r, e) => ~InLog(e)
        /\ InLog(e) \/ (\E r \in Relays : InQueue(r, e)) =>
              row[e].status = "PUBLISHED" \/ \E r \in Relays : e \in ok[r]

(* With one relay the first copies of the events of a stream are in the     *)
(* broker in the order of created_at, except for a row whose produce()      *)
(* raised, that the library put back, or a copy of which vanished: through  *)
(* outages, repeated sends and crashes a later row never overtakes an       *)
(* earlier one otherwise.                                                   *)
StreamsKeepOrder ==
    \A s \in Streams : \A i, k \in DOMAIN log[s] :
        i < k /\ log[s][k] < log[s][i] =>
            \/ \E h \in 1..(i - 1) : log[s][h] = log[s][k]
            \/ log[s][k] \in delayed \cup lost

(* PUBLISHED and FAILED are final and no attempt is forgotten.              *)
DecidedRowsStay ==
    [][\A e \in Events :
          /\ row[e].status \in {"PUBLISHED", "FAILED"} => row'[e] = row[e]
          /\ row[e].attempts <= row'[e].attempts]_vars

(* Every committed event is decided: published, or given up after all its   *)
(* attempts.  Neither a crash nor an outage leaves a row PENDING for good.  *)
EveryRowIsDecided ==
    \A e \in Events :
        row[e].status = "PENDING" ~> row[e].status \in {"PUBLISHED", "FAILED"}

(* A PUBLISHED row is not just handed over: its message reaches the broker, *)
(* or a copy of it is known to have vanished.                               *)
PublishedArrivesOrIsLost ==
    \A e \in Events : row[e].status = "PUBLISHED" ~> InLog(e) \/ e \in lost

(* What the README says of the outbox: an event survives Kafka being down   *)
(* and is published on recovery, so every committed event arrives.          *)
EveryEventArrives == \A e \in Events : row[e] # Absent ~> InLog(e)
=============================================================================
