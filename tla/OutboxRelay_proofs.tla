------------------------- MODULE OutboxRelay_proofs -------------------------
(***************************************************************************)
(* Theorems of OutboxRelay for any rows, streams and relays, any batch     *)
(* size and limit of attempts, and whatever faults happen.  There are      *)
(* three inductive invariants: of the books a relay keeps (IInv), of the   *)
(* copies of a message (CopyInv) and of their order (OrderInv).            *)
(***************************************************************************)
EXTENDS OutboxRelay, TLAPS

----------------------------------------------------------------------------
(* Lemmas on the elements of a queue.                                      *)

(* A message put at the end of a queue adds itself to its elements.         *)
LEMMA AppendElements ==
    ASSUME NEW S, NEW q \in Seq(S), NEW e \in S
    PROVE  /\ Append(q, e) \in Seq(S)
           /\ Elements(Append(q, e)) = Elements(q) \cup {e}
<1>1. /\ Append(q, e) \in Seq(S)
      /\ DOMAIN q = 1..Len(q) /\ Len(q) \in Nat
      /\ DOMAIN Append(q, e) = 1..(Len(q) + 1)
      /\ \A i \in 1..Len(q) : Append(q, e)[i] = q[i]
      /\ Append(q, e)[Len(q) + 1] = e
  OBVIOUS
<1>2. \A i \in 1..(Len(q) + 1) : i \in 1..Len(q) \/ i = Len(q) + 1
  BY <1>1
<1>3. \A i \in 1..Len(q) : i \in 1..(Len(q) + 1)
  BY <1>1
<1>4. Len(q) + 1 \in 1..(Len(q) + 1)
  BY <1>1
<1>5. Elements(Append(q, e)) \subseteq Elements(q) \cup {e}
  BY <1>1, <1>2 DEF Elements
<1>6. Elements(q) \cup {e} \subseteq Elements(Append(q, e))
  BY <1>1, <1>3, <1>4 DEF Elements
<1>7. QED
  BY <1>1, <1>5, <1>6

(* A queue holds its head and what its tail holds.                          *)
LEMMA TailElements ==
    ASSUME NEW S, NEW q \in Seq(S), q # <<>>
    PROVE  /\ Head(q) \in S /\ Tail(q) \in Seq(S)
           /\ Elements(q) = Elements(Tail(q)) \cup {Head(q)}
<1>1. /\ DOMAIN q = 1..Len(q) /\ Len(q) \in Nat /\ Len(q) >= 1
      /\ Head(q) = q[1] /\ Head(q) \in S
      /\ Tail(q) \in Seq(S)
      /\ DOMAIN Tail(q) = 1..(Len(q) - 1)
      /\ \A i \in 1..(Len(q) - 1) : Tail(q)[i] = q[i + 1]
  OBVIOUS
<1>2. \A i \in 1..Len(q) : i = 1 \/ (i - 1 \in 1..(Len(q) - 1) /\ (i - 1) + 1 = i)
  BY <1>1
<1>3. \A i \in 1..(Len(q) - 1) : i + 1 \in 1..Len(q)
  BY <1>1
<1>4. 1 \in 1..Len(q)
  BY <1>1
<1>5. Elements(q) \subseteq Elements(Tail(q)) \cup {Head(q)}
  <2> SUFFICES ASSUME NEW i \in 1..Len(q), i # 1
               PROVE  q[i] \in Elements(Tail(q))
    BY <1>1 DEF Elements
  <2>1. i - 1 \in 1..(Len(q) - 1) /\ q[i] = Tail(q)[i - 1]
    BY <1>1, <1>2
  <2>2. QED
    BY <1>1, <2>1 DEF Elements
<1>6. Elements(Tail(q)) \cup {Head(q)} \subseteq Elements(q)
  BY <1>1, <1>3, <1>4 DEF Elements
<1>7. QED
  BY <1>1, <1>5, <1>6

(* Moving the head of a queue to its end changes no element.                *)
LEMMA PutBackElements ==
    ASSUME NEW S, NEW q \in Seq(S), q # <<>>
    PROVE  Elements(Append(Tail(q), Head(q))) = Elements(q)
<1>1. \E t \in Seq(S), h \in S : t = Tail(q) /\ h = Head(q) /\ Elements(q) = Elements(t) \cup {h}
  BY TailElements
<1>2. PICK t \in Seq(S), h \in S : t = Tail(q) /\ h = Head(q) /\ Elements(q) = Elements(t) \cup {h}
  BY <1>1, Zenon
<1>3. Elements(Append(t, h)) = Elements(t) \cup {h}
  BY AppendElements
<1>4. QED
  BY <1>2, <1>3, Zenon

(* An empty queue holds nothing.                                            *)
LEMMA EmptyElements == Elements(<<>>) = {}
BY DEF Elements

(* The elements of a queue of messages are messages.                        *)
LEMMA ElementsIn ==
    ASSUME NEW S, NEW q \in Seq(S)
    PROVE  Elements(q) \subseteq S
BY DEF Elements

----------------------------------------------------------------------------
(* The inductive invariant.  The properties of the runs are not inductive   *)
(* alone: what a commit writes depends on the sets a relay keeps of its     *)
(* batch, and the account of a PUBLISHED row begins when it enters ok.      *)

Present(e) == InLog(e) \/ \E r \in Relays : InQueue(r, e)

Bookkeeping ==
    \A r \in Relays :
        /\ ok[r] \subseteq batch[r] /\ bad[r] \subseteq batch[r]
        /\ ok[r] \cap bad[r] = {}
        /\ pc[r] \in {"idle", "down"} => batch[r] = {}

HandedOver ==
    \A e \in Events :
        row[e].status = "PUBLISHED" \/ (\E r \in Relays : e \in ok[r]) =>
            Present(e) \/ e \in lost

IInv ==
    /\ TypeOK
    /\ BatchesAreExclusive
    /\ Bookkeeping
    /\ FailedAfterAllAttempts
    /\ NothingFromNowhere
    /\ HandedOver

USE EventsAssumption, StreamsAssumption, LimitsAssumption

(* At the start there are no rows, no batches and no messages.              *)
LEMMA InitHolds ==
    ASSUME Init
    PROVE  IInv
<1>1. TypeOK
  BY FaultsAssumption DEF Init, TypeOK, Absent, RowType
<1>2. \A e \in Events : ~Present(e)
  BY EmptyElements DEF Init, Present, InLog, InQueue
<1>3. BatchesAreExclusive /\ Bookkeeping
  BY DEF Init, BatchesAreExclusive, Bookkeeping
<1>4. FailedAfterAllAttempts
  BY DEF Init, FailedAfterAllAttempts, Absent
<1>5. NothingFromNowhere
  BY <1>2 DEF NothingFromNowhere, Present
<1>6. HandedOver
  BY DEF Init, HandedOver, Absent
<1>7. QED
  BY <1>1, <1>3, <1>4, <1>5, <1>6 DEF IInv

(* The row a relay commits for each row of its batch.                       *)
LEMMA CommittedRows ==
    ASSUME IInv, NEW r \in Relays, Commit(r)
    PROVE  \A e \in Events :
              /\ e \notin batch[r] => row'[e] = row[e]
              /\ e \in ok[r] => row'[e] = [status |-> "PUBLISHED", attempts |-> row[e].attempts]
              /\ e \in bad[r] => row'[e] = AfterFailure(e)
              /\ e \in batch[r] => /\ row[e].status = "PENDING"
                                  /\ row[e].attempts \in Nat
                                  /\ row[e].attempts < MaxAttempts
<1> TAKE e \in Events
<1>1. row[e] \in RowType
  BY DEF IInv, TypeOK
<1>2. e \in batch[r] => row[e].status = "PENDING"
  BY DEF IInv, BatchesAreExclusive
<1>3. e \in batch[r] => row[e].attempts \in Nat /\ row[e].attempts < MaxAttempts
  <2>1. row[e].attempts \in 0..MaxAttempts
    BY <1>1 DEF RowType
  <2>2. row[e].status = "FAILED" <=> row[e].attempts >= MaxAttempts
    BY DEF IInv, FailedAfterAllAttempts
  <2>3. MaxAttempts \in Nat
    OBVIOUS
  <2>4. QED
    BY <1>2, <2>1, <2>2, <2>3
<1>4. row'[e] = IF e \in ok[r] THEN AfterSuccess(e)
                ELSE IF e \in bad[r] THEN AfterFailure(e) ELSE row[e]
  BY DEF Commit
<1>5. ok[r] \subseteq batch[r] /\ bad[r] \subseteq batch[r] /\ ok[r] \cap bad[r] = {}
  BY DEF IInv, Bookkeeping
<1>6. AfterSuccess(e) = [status |-> "PUBLISHED", attempts |-> row[e].attempts]
  BY <1>1 DEF AfterSuccess, RowType
<1>7. QED
  BY <1>2, <1>3, <1>4, <1>5, <1>6

(* What is not the transaction of a relay's commit leaves the rows alone,   *)
(* except for the row it inserts.                                           *)
LEMMA RowsOf ==
    ASSUME [Next]_vars
    PROVE  \/ \E r \in Relays : Commit(r)
           \/ \E e \in Events : Insert(e)
           \/ row' = row
BY DEF Next, Relay, Library, Fetch, EmptyFetch, ProduceOk, ProduceFail, Flush, Crash, Restart,
       Deliver, Resend, Requeue, Expire, Outage, Recover, vars

(* Types.                                                                   *)
LEMMA TypeStep ==
    ASSUME IInv, [Next]_vars
    PROVE  TypeOK'
<1>1. TypeOK
  BY DEF IInv
<1>2. row' \in [Events -> RowType]
  <2>1. ASSUME NEW r \in Relays, Commit(r)
        PROVE  row' \in [Events -> RowType]
    <3>1. \A e \in Events : AfterFailure(e).status \in {"PENDING", "FAILED"}
                            /\ AfterFailure(e).attempts = row[e].attempts + 1
      BY DEF AfterFailure
    <3>2. ASSUME NEW e \in Events
          PROVE  row'[e] \in RowType
      <4>1. CASE e \in ok[r]
        <5>1. e \in batch[r]
          BY <4>1 DEF IInv, Bookkeeping
        <5>2. row'[e] = [status |-> "PUBLISHED", attempts |-> row[e].attempts]
          BY <2>1, <4>1, <5>1, CommittedRows
        <5>3. row[e].attempts \in 0..MaxAttempts
          BY <1>1 DEF TypeOK, RowType
        <5>4. QED
          BY <5>2, <5>3 DEF RowType
      <4>2. CASE e \in bad[r]
        <5>1. e \in batch[r]
          BY <4>2 DEF IInv, Bookkeeping
        <5>2. row'[e] = AfterFailure(e) /\ row[e].attempts \in Nat
              /\ row[e].attempts < MaxAttempts
          BY <2>1, <4>2, <5>1, CommittedRows
        <5>3. row[e].attempts + 1 \in 0..MaxAttempts
          BY <5>2
        <5>4. AfterFailure(e) \in RowType
          BY <5>3 DEF AfterFailure, RowType
        <5>5. QED
          BY <5>2, <5>4
      <4>3. CASE e \notin ok[r] /\ e \notin bad[r]
        BY <1>1, <2>1, <4>3 DEF Commit, TypeOK
      <4>4. QED
        BY <4>1, <4>2, <4>3
    <3>3. row' = [e \in Events |-> row'[e]]
      BY <2>1 DEF Commit
    <3>4. QED
      BY <3>2, <3>3
  <2>2. ASSUME NEW e \in Events, Insert(e)
        PROVE  row' \in [Events -> RowType]
    <3>1. Pending \in RowType
      BY DEF Pending, RowType
    <3>2. QED
      BY <1>1, <2>2, <3>1 DEF Insert, TypeOK
  <2>3. QED
    BY <1>1, <2>1, <2>2, RowsOf DEF TypeOK
<1>3. /\ pc' \in [Relays -> {"idle", "producing", "committing", "down"}]
      /\ up' \in BOOLEAN
      /\ faults' \in Nat
  <2>1. pc' \in [Relays -> {"idle", "producing", "committing", "down"}]
    BY <1>1 DEF TypeOK, Next, Relay, Library, Insert, Fetch, EmptyFetch, ProduceOk, ProduceFail,
                Flush, Commit, Crash, Restart, Deliver, Resend, Requeue, Expire, Outage, Recover,
                vars, relayState
  <2>2. up' \in BOOLEAN
    BY <1>1 DEF TypeOK, Next, Relay, Library, Insert, Fetch, EmptyFetch, ProduceOk, ProduceFail,
                Flush, Commit, Crash, Restart, Deliver, Resend, Requeue, Expire, Outage, Recover,
                vars, kafkaState
  <2>3. faults' = faults \/ faults' = faults + 1
    BY DEF Next, Relay, Library, Insert, Fetch, EmptyFetch, ProduceOk, ProduceFail,
           Flush, Commit, Crash, Restart, Deliver, Resend, Requeue, Expire, Outage, Recover,
           Fault, vars
  <2>4. QED
    BY <1>1, <2>1, <2>2, <2>3 DEF TypeOK
<1>4. /\ batch' \in [Relays -> SUBSET Events]
      /\ ok' \in [Relays -> SUBSET Events]
      /\ bad' \in [Relays -> SUBSET Events]
  <2>1. ASSUME NEW r \in Relays, Fetch(r)
        PROVE  batch' \in [Relays -> SUBSET Events] /\ ok' = ok /\ bad' = bad
    BY <1>1, <2>1 DEF TypeOK, Fetch, Visible
  <2>2. ASSUME NEW r \in Relays, ProduceOk(r) \/ ProduceFail(r)
        PROVE  /\ batch' = batch
               /\ ok' \in [Relays -> SUBSET Events]
               /\ bad' \in [Relays -> SUBSET Events]
    <3>1. Todo(r) \subseteq Events
      BY <1>1 DEF TypeOK, Todo
    <3>2. CASE ProduceOk(r)
      BY <1>1, <3>1, <3>2 DEF TypeOK, ProduceOk
    <3>3. CASE ProduceFail(r)
      BY <1>1, <3>1, <3>3 DEF TypeOK, ProduceFail
    <3>4. QED
      BY <2>2, <3>2, <3>3
  <2>3. ASSUME NEW r \in Relays, Release(r)
        PROVE  <1>4!:
    BY <1>1, <2>3 DEF TypeOK, Release
  <2>4. QED
    BY <1>1, <2>1, <2>2, <2>3
    DEF TypeOK, Next, Relay, Library, Insert, EmptyFetch, Flush, Commit, Crash, Restart,
        Deliver, Resend, Requeue, Expire, Outage, Recover, vars, relayState
<1>5. /\ queue' \in [Relays -> [Streams -> Seq(Events)]]
      /\ log' \in [Streams -> Seq(Events)]
      /\ lost' \in SUBSET Events
      /\ again' \in SUBSET Events
      /\ delayed' \in SUBSET Events
  <2>1. ASSUME NEW r \in Relays, ProduceOk(r)
        PROVE  <1>5!:
    <3>1. PICK e \in Todo(r) : queue' = [queue EXCEPT ![r][StreamOf[e]] = Append(@, e)]
      BY <2>1 DEF ProduceOk
    <3>2. e \in Events /\ StreamOf[e] \in Streams
      BY <1>1, <3>1 DEF Todo, TypeOK
    <3>3. Append(queue[r][StreamOf[e]], e) \in Seq(Events)
      BY <1>1, <3>2, AppendElements DEF TypeOK
    <3>4. QED
      BY <1>1, <2>1, <3>1, <3>2, <3>3 DEF TypeOK, ProduceOk
  <2>2. ASSUME NEW r \in Relays, NEW t \in Streams, Waiting(r, t)
        PROVE  /\ Head(queue[r][t]) \in Events
               /\ Tail(queue[r][t]) \in Seq(Events)
               /\ Append(log[t], Head(queue[r][t])) \in Seq(Events)
    BY <1>1, <2>2, TailElements, AppendElements DEF TypeOK, Waiting
  <2>3. ASSUME NEW r \in Relays, NEW t \in Streams, Deliver(r, t)
        PROVE  <1>5!:
    BY <1>1, <2>2, <2>3 DEF TypeOK, Deliver
  <2>4. ASSUME NEW r \in Relays, NEW t \in Streams, Resend(r, t)
        PROVE  <1>5!:
    BY <1>1, <2>2, <2>4 DEF TypeOK, Resend
  <2>5. ASSUME NEW r \in Relays, NEW t \in Streams, Expire(r, t)
        PROVE  <1>5!:
    BY <1>1, <2>2, <2>5 DEF TypeOK, Expire
  <2>6. ASSUME NEW r \in Relays, Crash(r)
        PROVE  <1>5!:
    <3>1. queue' \in [Relays -> [Streams -> Seq(Events)]]
      BY <1>1, <2>6 DEF TypeOK, Crash
    <3>2. ok[r] \subseteq Events
      BY <1>1 DEF TypeOK
    <3>3. QED
      BY <1>1, <2>6, <3>1, <3>2 DEF TypeOK, Crash
  <2>7. ASSUME NEW r \in Relays, NEW t \in Streams, Requeue(r, t)
        PROVE  <1>5!:
    <3>1. Append(Tail(queue[r][t]), Head(queue[r][t])) \in Seq(Events)
      BY <2>2, <2>7, AppendElements DEF Requeue
    <3>2. Head(queue[r][t]) \in Events
      BY <2>2, <2>7 DEF Requeue
    <3>3. QED
      BY <1>1, <2>7, <3>1, <3>2 DEF TypeOK, Requeue
  <2>8. ASSUME NEW r \in Relays, ProduceFail(r)
        PROVE  <1>5!:
    <3>1. PICK e \in Todo(r) : delayed' = delayed \cup {e}
      BY <2>8 DEF ProduceFail
    <3>2. e \in Events
      BY <1>1, <3>1 DEF Todo, TypeOK
    <3>3. QED
      BY <1>1, <2>8, <3>1, <3>2 DEF TypeOK, ProduceFail
  <2>9. CASE UNCHANGED kafkaState
    BY <1>1, <2>9 DEF TypeOK, kafkaState
  <2>10. CASE UNCHANGED <<queue, log, lost, again, delayed>>
    BY <1>1, <2>10 DEF TypeOK
  <2>11. QED
    BY <2>1, <2>3, <2>4, <2>5, <2>6, <2>7, <2>8, <2>9, <2>10
    DEF Next, Relay, Library, Insert, Fetch, EmptyFetch, Flush, Commit,
        Restart, Outage, Recover, vars, kafkaState
<1>6. QED
  BY <1>2, <1>3, <1>4, <1>5 DEF TypeOK

----------------------------------------------------------------------------
(* Locks and rows.                                                          *)

(* A fetched batch is disjoint from the other batches and still PENDING.    *)
LEMMA FetchedRows ==
    ASSUME IInv, NEW r \in Relays, Fetch(r)
    PROVE  /\ batch'[r] \subseteq {e \in Events : row[e].status = "PENDING"}
           /\ \A q \in Relays \ {r} : batch'[q] = batch[q] /\ batch'[r] \cap batch[q] = {}
           /\ row' = row /\ ok' = ok /\ bad' = bad /\ pc'[r] = "producing"
           /\ \A q \in Relays \ {r} : pc'[q] = pc[q]
<1>1. TypeOK
  BY DEF IInv
<1>2. PICK B \in SUBSET Visible(r) : batch' = [batch EXCEPT ![r] = B]
  BY DEF Fetch
<1>3. batch'[r] = B /\ \A q \in Relays \ {r} : batch'[q] = batch[q]
  BY <1>1, <1>2 DEF TypeOK
<1>4. \A q \in Relays \ {r} : B \cap batch[q] = {}
  BY <1>2 DEF Visible, LockedByOthers
<1>5. B \subseteq {e \in Events : row[e].status = "PENDING"}
  BY <1>2 DEF Visible
<1>6. row' = row /\ ok' = ok /\ bad' = bad
  BY DEF Fetch
<1>7. pc'[r] = "producing" /\ \A q \in Relays \ {r} : pc'[q] = pc[q]
  BY <1>1 DEF Fetch, TypeOK
<1>8. QED
  BY <1>3, <1>4, <1>5, <1>6, <1>7

(* The end of a transaction, whichever it is, empties the sets of its relay *)
(* and of no other.                                                         *)
LEMMA ReleasedRows ==
    ASSUME IInv, NEW r \in Relays, Release(r)
    PROVE  /\ batch'[r] = {} /\ ok'[r] = {} /\ bad'[r] = {}
           /\ \A q \in Relays \ {r} : batch'[q] = batch[q] /\ ok'[q] = ok[q] /\ bad'[q] = bad[q]
BY DEF IInv, TypeOK, Release

(* Every step that is not one of these six leaves the relays' sets alone.   *)
LEMMA RelayStateOf ==
    ASSUME [Next]_vars
    PROVE  \/ \E r \in Relays : \/ Fetch(r) \/ ProduceOk(r) \/ ProduceFail(r) \/ Flush(r)
                                \/ Commit(r) \/ Crash(r) \/ Restart(r)
           \/ UNCHANGED relayState
BY DEF Next, Relay, Library, Insert, EmptyFetch, Deliver, Resend, Requeue, Expire, Outage, Recover,
       vars, relayState

(* No step lets two relays hold one row or a relay hold a decided row: a    *)
(* batch is fetched from what nobody holds, and only its relay decides.     *)
LEMMA ExclusiveStep ==
    ASSUME IInv, [Next]_vars
    PROVE  BatchesAreExclusive'
<1>1. TypeOK /\ BatchesAreExclusive
  BY DEF IInv
<1>2. ASSUME NEW r \in Relays, Fetch(r)
      PROVE  BatchesAreExclusive'
  BY <1>1, <1>2, FetchedRows DEF BatchesAreExclusive
<1>3. ASSUME NEW r \in Relays, Commit(r)
      PROVE  BatchesAreExclusive'
  <2>1. Release(r)
    BY <1>3 DEF Commit
  <2>2. /\ batch'[r] = {}
        /\ \A q \in Relays \ {r} : batch'[q] = batch[q] /\ batch[q] \cap batch[r] = {}
    BY <1>1, <2>1, ReleasedRows DEF BatchesAreExclusive
  <2>3. \A q \in Relays : batch[q] \subseteq Events
    BY <1>1 DEF TypeOK
  <2>4. \A q \in Relays \ {r} : \A e \in batch[q] : row'[e] = row[e]
    BY <1>3, <2>2, <2>3, CommittedRows
  <2>5. QED
    BY <1>1, <2>2, <2>4 DEF BatchesAreExclusive
<1>4. ASSUME NEW r \in Relays, Crash(r)
      PROVE  BatchesAreExclusive'
  <2>1. Release(r) /\ row' = row
    BY <1>4 DEF Crash
  <2>2. QED
    BY <1>1, <2>1, ReleasedRows DEF BatchesAreExclusive
<1>5. ASSUME NEW e \in Events, Insert(e)
      PROVE  BatchesAreExclusive'
  <2>1. row[e].status = "absent" /\ batch' = batch
    BY <1>5 DEF Insert, Absent, relayState
  <2>2. \A d \in Events \ {e} : row'[d] = row[d]
    BY <1>1, <1>5 DEF Insert, TypeOK
  <2>3. \A q \in Relays : batch[q] \subseteq Events \ {e}
    BY <1>1, <2>1 DEF BatchesAreExclusive, TypeOK
  <2>4. QED
    BY <1>1, <2>1, <2>2, <2>3 DEF BatchesAreExclusive
<1>6. CASE batch' = batch /\ row' = row
  BY <1>1, <1>6 DEF BatchesAreExclusive
<1>7. QED
  BY <1>2, <1>3, <1>4, <1>5, <1>6
  DEF Next, Relay, Library, EmptyFetch, ProduceOk, ProduceFail, Flush, Restart, Deliver, Resend,
      Requeue, Expire, Outage, Recover, vars, relayState

(* What a relay has set aside as produced and as failed stays within its    *)
(* batch, and apart.                                                        *)
LEMMA BookkeepingStep ==
    ASSUME IInv, [Next]_vars
    PROVE  Bookkeeping'
<1>1. TypeOK /\ Bookkeeping
  BY DEF IInv
<1>2. ASSUME NEW r \in Relays, Fetch(r)
      PROVE  Bookkeeping'
  <2>1. pc[r] = "idle"
    BY <1>2 DEF Fetch
  <2>2. ok[r] = {} /\ bad[r] = {}
    BY <1>1, <2>1 DEF Bookkeeping
  <2>3. QED
    BY <1>1, <1>2, <2>2, FetchedRows DEF Bookkeeping
<1>3. ASSUME NEW r \in Relays, ProduceOk(r)
      PROVE  Bookkeeping'
  <2>1. PICK e \in Todo(r) : ok' = [ok EXCEPT ![r] = @ \cup {e}]
    BY <1>3 DEF ProduceOk
  <2>2. e \in batch[r] /\ e \notin bad[r]
    BY <2>1 DEF Todo
  <2>3. pc' = pc /\ batch' = batch /\ bad' = bad
    BY <1>3 DEF ProduceOk
  <2>4. ok'[r] = ok[r] \cup {e} /\ \A q \in Relays \ {r} : ok'[q] = ok[q]
    BY <1>1, <2>1 DEF TypeOK
  <2>5. QED
    BY <1>1, <2>2, <2>3, <2>4 DEF Bookkeeping
<1>4. ASSUME NEW r \in Relays, ProduceFail(r)
      PROVE  Bookkeeping'
  <2>1. PICK e \in Todo(r) : bad' = [bad EXCEPT ![r] = @ \cup {e}]
    BY <1>4 DEF ProduceFail
  <2>2. e \in batch[r] /\ e \notin ok[r]
    BY <2>1 DEF Todo
  <2>3. pc' = pc /\ batch' = batch /\ ok' = ok
    BY <1>4 DEF ProduceFail
  <2>4. bad'[r] = bad[r] \cup {e} /\ \A q \in Relays \ {r} : bad'[q] = bad[q]
    BY <1>1, <2>1 DEF TypeOK
  <2>5. QED
    BY <1>1, <2>2, <2>3, <2>4 DEF Bookkeeping
<1>5. ASSUME NEW r \in Relays, Commit(r) \/ Crash(r)
      PROVE  Bookkeeping'
  <2>1. Release(r) /\ \A q \in Relays \ {r} : pc'[q] = pc[q]
    BY <1>1, <1>5 DEF Commit, Crash, TypeOK
  <2>2. QED
    BY <1>1, <2>1, ReleasedRows DEF Bookkeeping
<1>6. ASSUME NEW r \in Relays, Flush(r) \/ Restart(r)
      PROVE  Bookkeeping'
  <2>1. batch' = batch /\ ok' = ok /\ bad' = bad
    BY <1>6 DEF Flush, Restart
  <2>2. /\ \A q \in Relays \ {r} : pc'[q] = pc[q]
        /\ pc'[r] = "committing" \/ pc[r] = "down"
    BY <1>1, <1>6 DEF Flush, Restart, TypeOK
  <2>3. QED
    BY <1>1, <2>1, <2>2 DEF Bookkeeping
<1>7. CASE UNCHANGED relayState
  BY <1>1, <1>7 DEF Bookkeeping, relayState
<1>8. QED
  BY <1>2, <1>3, <1>4, <1>5, <1>6, <1>7, RelayStateOf

(* Attempts grow by one, in the commit of the relay that holds the row, and *)
(* reach MAX_ATTEMPTS together with FAILED.                                 *)
LEMMA AttemptsStep ==
    ASSUME IInv, [Next]_vars
    PROVE  FailedAfterAllAttempts'
<1>1. TypeOK /\ FailedAfterAllAttempts /\ Bookkeeping
  BY DEF IInv
<1>2. ASSUME NEW r \in Relays, Commit(r)
      PROVE  FailedAfterAllAttempts'
  <2> SUFFICES ASSUME NEW e \in Events
               PROVE  /\ row'[e].status = "FAILED" <=> row'[e].attempts >= MaxAttempts
                      /\ row'[e].attempts <= MaxAttempts
    BY DEF FailedAfterAllAttempts
  <2>1. e \in batch[r] => row[e].attempts \in Nat /\ row[e].attempts < MaxAttempts
    BY <1>2, CommittedRows
  <2>2. ok[r] \subseteq batch[r] /\ bad[r] \subseteq batch[r]
    BY <1>1 DEF Bookkeeping
  <2>3. CASE e \in ok[r]
    <3>1. row'[e] = [status |-> "PUBLISHED", attempts |-> row[e].attempts]
      BY <1>2, <2>3, CommittedRows
    <3>2. row[e].attempts \in Nat /\ row[e].attempts < MaxAttempts /\ MaxAttempts \in Nat
      BY <2>1, <2>2, <2>3
    <3>3. row'[e].status = "PUBLISHED" /\ row'[e].attempts = row[e].attempts
      BY <3>1
    <3>4. QED
      BY <3>2, <3>3
  <2>4. CASE e \in bad[r]
    <3>1. row'[e] = AfterFailure(e)
      BY <1>2, <2>4, CommittedRows
    <3>2. row[e].attempts \in Nat /\ row[e].attempts < MaxAttempts /\ MaxAttempts \in Nat
      BY <2>1, <2>2, <2>4
    <3>3. /\ row'[e].attempts = row[e].attempts + 1
          /\ row'[e].status = IF row[e].attempts + 1 >= MaxAttempts THEN "FAILED" ELSE "PENDING"
      BY <3>1 DEF AfterFailure
    <3>4. QED
      BY <3>2, <3>3
  <2>5. CASE e \notin ok[r] /\ e \notin bad[r]
    BY <1>1, <1>2, <2>5 DEF Commit, FailedAfterAllAttempts
  <2>6. QED
    BY <2>3, <2>4, <2>5
<1>3. ASSUME NEW e \in Events, Insert(e)
      PROVE  FailedAfterAllAttempts'
  <2>1. row'[e] = Pending /\ \A d \in Events \ {e} : row'[d] = row[d]
    BY <1>1, <1>3 DEF Insert, TypeOK
  <2>2. row'[e].status = "PENDING" /\ row'[e].attempts = 0
    BY <2>1 DEF Pending
  <2>3. ~(0 >= MaxAttempts) /\ 0 <= MaxAttempts
    OBVIOUS
  <2>4. /\ row'[e].status = "FAILED" <=> row'[e].attempts >= MaxAttempts
        /\ row'[e].attempts <= MaxAttempts
    BY <2>2, <2>3
  <2>5. \A d \in Events \ {e} : /\ row'[d].status = "FAILED" <=> row'[d].attempts >= MaxAttempts
                              /\ row'[d].attempts <= MaxAttempts
    BY <1>1, <2>1 DEF FailedAfterAllAttempts
  <2>6. QED
    BY <2>4, <2>5 DEF FailedAfterAllAttempts
<1>4. CASE row' = row
  BY <1>1, <1>4 DEF FailedAfterAllAttempts
<1>5. QED
  BY <1>2, <1>3, <1>4, RowsOf

----------------------------------------------------------------------------
(* Messages.                                                                *)

(* A relay's step puts into its queue nothing but a row of its batch.       *)
LEMMA ProducedRow ==
    ASSUME IInv, NEW r \in Relays, ProduceOk(r)
    PROVE  \E e \in Events :
              /\ e \in batch[r] /\ row[e].status = "PENDING"
              /\ ok'[r] = ok[r] \cup {e}
              /\ \A q \in Relays \ {r} : ok'[q] = ok[q]
              /\ \A d \in Events, q \in Relays :
                    InQueue(q, d)' <=> InQueue(q, d) \/ (q = r /\ d = e)
              /\ log' = log /\ row' = row /\ lost' = lost
<1>1. TypeOK
  BY DEF IInv
<1>2. PICK e \in Todo(r) : /\ ok' = [ok EXCEPT ![r] = @ \cup {e}]
                           /\ queue' = [queue EXCEPT ![r][StreamOf[e]] = Append(@, e)]
  BY DEF ProduceOk
<1>3. e \in batch[r] /\ e \in Events /\ StreamOf[e] \in Streams
  BY <1>1, <1>2 DEF Todo, TypeOK
<1>4. row[e].status = "PENDING"
  BY <1>3 DEF IInv, BatchesAreExclusive
<1>5. ok'[r] = ok[r] \cup {e} /\ \A q \in Relays \ {r} : ok'[q] = ok[q]
  BY <1>1, <1>2 DEF TypeOK
<1>6. queue[r][StreamOf[e]] \in Seq(Events)
  BY <1>1, <1>3 DEF TypeOK
<1>7. Elements(Append(queue[r][StreamOf[e]], e)) = Elements(queue[r][StreamOf[e]]) \cup {e}
  BY <1>3, <1>6, AppendElements
<1>8. ASSUME NEW d \in Events, NEW q \in Relays
      PROVE  InQueue(q, d)' <=> InQueue(q, d) \/ (q = r /\ d = e)
  <2>1. CASE q = r /\ StreamOf[d] = StreamOf[e]
    <3>1. queue'[q][StreamOf[d]] = Append(queue[r][StreamOf[e]], e)
      BY <1>1, <1>2, <1>3, <2>1 DEF TypeOK
    <3>2. QED
      BY <1>7, <2>1, <3>1 DEF InQueue
  <2>2. CASE ~(q = r /\ StreamOf[d] = StreamOf[e])
    <3>1. StreamOf[d] \in Streams
      OBVIOUS
    <3>2. queue'[q][StreamOf[d]] = queue[q][StreamOf[d]]
      BY <1>1, <1>2, <1>3, <2>2, <3>1 DEF TypeOK
    <3>3. QED
      BY <2>2, <3>2 DEF InQueue
  <2>3. QED
    BY <2>1, <2>2
<1>9. log' = log /\ row' = row /\ lost' = lost
  BY DEF ProduceOk
<1>10. QED
  BY <1>3, <1>4, <1>5, <1>8, <1>9

(* The library moves the head of a queue to the broker, copies it there or  *)
(* drops it: nothing appears, and what disappears is counted as lost.       *)
LEMMA MovedMessage ==
    ASSUME IInv, NEW r \in Relays, NEW s \in Streams,
           Deliver(r, s) \/ Resend(r, s) \/ Expire(r, s)
    PROVE  /\ row' = row /\ ok' = ok /\ lost \subseteq lost'
           /\ \A d \in Events : /\ Present(d)' => Present(d)
                                /\ Present(d) => Present(d)' \/ d \in lost'
<1>1. TypeOK
  BY DEF IInv
<1>2. queue[r][s] \in Seq(Events) /\ queue[r][s] # <<>> /\ log[s] \in Seq(Events)
  BY <1>1 DEF TypeOK, Deliver, Resend, Expire, Waiting
<1> DEFINE head == Head(queue[r][s])
<1> DEFINE rest == Tail(queue[r][s])
<1>3. /\ head \in Events
      /\ Elements(queue[r][s]) = Elements(rest) \cup {head}
      /\ Elements(Append(log[s], head)) = Elements(log[s]) \cup {head}
  BY <1>2, TailElements, AppendElements
<1>4. row' = row /\ ok' = ok /\ lost \subseteq lost'
  BY DEF Deliver, Resend, Expire, relayState
<1>5. Deliver(r, s) \/ Expire(r, s) => queue' = [queue EXCEPT ![r][s] = rest]
  BY DEF Deliver, Expire
<1>6. Resend(r, s) => queue' = queue
  BY DEF Resend
<1>7. Deliver(r, s) \/ Resend(r, s) => log' = [log EXCEPT ![s] = Append(@, head)]
  BY DEF Deliver, Resend
<1>8. Expire(r, s) => log' = log /\ head \in lost'
  BY DEF Expire
<1> HIDE DEF head, rest
<1>9. ASSUME NEW d \in Events, NEW q \in Relays
      PROVE  /\ InQueue(q, d)' => InQueue(q, d)
             /\ InQueue(q, d) => InQueue(q, d)' \/ (q = r /\ StreamOf[d] = s /\ d = head /\ ~Resend(r, s))
  <2>1. StreamOf[d] \in Streams
    OBVIOUS
  <2>2. CASE q = r /\ StreamOf[d] = s /\ (Deliver(r, s) \/ Expire(r, s)) /\ ~Resend(r, s)
    <3>1. queue'[q][StreamOf[d]] = rest
      BY <1>1, <1>5, <2>2 DEF TypeOK
    <3>2. InQueue(q, d)' <=> d \in Elements(rest)
      BY <3>1 DEF InQueue
    <3>3. InQueue(q, d) <=> d \in Elements(queue[r][s])
      BY <2>2 DEF InQueue
    <3>4. d \in Elements(queue[r][s]) <=> d \in Elements(rest) \/ d = head
      BY <1>3, Zenon
    <3>5. QED
      BY <2>2, <3>2, <3>3, <3>4, Zenon
  <2>3. CASE ~(q = r /\ StreamOf[d] = s) \/ Resend(r, s)
    <3>1. queue'[q][StreamOf[d]] = queue[q][StreamOf[d]]
      BY <1>1, <1>5, <1>6, <2>1, <2>3 DEF TypeOK
    <3>2. QED
      BY <3>1 DEF InQueue
  <2>4. QED
    BY <2>2, <2>3
<1>10. ASSUME NEW d \in Events
       PROVE  /\ InLog(d) => InLog(d)'
              /\ InLog(d)' => InLog(d) \/ (StreamOf[d] = s /\ d = head)
              /\ ~Expire(r, s) /\ StreamOf[d] = s /\ d = head => InLog(d)'
  <2>1. StreamOf[d] \in Streams
    OBVIOUS
  <2>2. CASE Expire(r, s)
    <3>1. log' = log
      BY <1>8, <2>2
    <3>2. InLog(d)' <=> InLog(d)
      BY <3>1 DEF InLog
    <3>3. QED
      BY <2>2, <3>2, Zenon
  <2>3. CASE ~Expire(r, s) /\ StreamOf[d] = s
    <3>1. log'[StreamOf[d]] = Append(log[s], head)
      BY <1>1, <1>7, <2>3 DEF TypeOK
    <3>2. QED
      BY <1>3, <2>3, <3>1 DEF InLog
  <2>4. CASE ~Expire(r, s) /\ StreamOf[d] # s
    <3>1. log'[StreamOf[d]] = log[StreamOf[d]]
      BY <1>1, <1>7, <2>1, <2>4 DEF TypeOK
    <3>2. QED
      BY <2>4, <3>1 DEF InLog
  <2>5. QED
    BY <2>2, <2>3, <2>4
<1>11. \A d \in Events : StreamOf[d] = s /\ d = head => InQueue(r, d)
  BY <1>3 DEF InQueue
<1>12. ASSUME NEW d \in Events
       PROVE  Present(d)' => Present(d)
  BY <1>9, <1>10, <1>11 DEF Present
<1>13. ASSUME NEW d \in Events, Present(d)
       PROVE  Present(d)' \/ d \in lost'
  BY <1>8, <1>9, <1>10, <1>13 DEF Present
<1>14. QED
  BY <1>4, <1>12, <1>13

(* A message that is put back stays in its queue: its elements are the same. *)
LEMMA RequeuedMessage ==
    ASSUME IInv, NEW r \in Relays, NEW s \in Streams, Requeue(r, s)
    PROVE  /\ row' = row /\ ok' = ok /\ lost' = lost
           /\ \A d \in Events : Present(d)' <=> Present(d)
<1>1. TypeOK
  BY DEF IInv
<1>2. queue[r][s] \in Seq(Events) /\ queue[r][s] # <<>>
  BY <1>1 DEF TypeOK, Requeue, Waiting
<1> DEFINE back == Append(Tail(queue[r][s]), Head(queue[r][s]))
<1>3. Elements(back) = Elements(queue[r][s])
  BY <1>2, PutBackElements
<1>4. queue' = [queue EXCEPT ![r][s] = back] /\ log' = log
  BY DEF Requeue
<1>5. row' = row /\ ok' = ok /\ lost' = lost
  BY DEF Requeue, relayState
<1> HIDE DEF back
<1>6. ASSUME NEW d \in Events, NEW q \in Relays
      PROVE  InQueue(q, d)' <=> InQueue(q, d)
  <2>1. StreamOf[d] \in Streams
    OBVIOUS
  <2>2. CASE q = r /\ StreamOf[d] = s
    <3>1. queue'[q][StreamOf[d]] = back
      BY <1>1, <1>4, <2>2 DEF TypeOK
    <3>2. QED
      BY <1>3, <2>2, <3>1 DEF InQueue
  <2>3. CASE ~(q = r /\ StreamOf[d] = s)
    <3>1. queue'[q][StreamOf[d]] = queue[q][StreamOf[d]]
      BY <1>1, <1>4, <2>1, <2>3 DEF TypeOK
    <3>2. QED
      BY <3>1 DEF InQueue
  <2>4. QED
    BY <2>2, <2>3
<1>7. \A d \in Events : InLog(d)' <=> InLog(d)
  BY <1>4 DEF InLog
<1>8. QED
  BY <1>5, <1>6, <1>7 DEF Present

(* What a step does to one row: a decision is final, attempts only grow, a  *)
(* committed row stays, and only a row in ok becomes PUBLISHED.             *)
LEMMA RowEffect ==
    ASSUME IInv, [Next]_vars, NEW e \in Events
    PROVE  /\ row[e].status \in {"PUBLISHED", "FAILED"} => row'[e] = row[e]
           /\ row[e].attempts <= row'[e].attempts
           /\ row[e] # Absent => row'[e] # Absent
           /\ row'[e].status = "PUBLISHED" =>
                 row[e].status = "PUBLISHED" \/ \E r \in Relays : e \in ok[r]
<1>1. TypeOK /\ Bookkeeping
  BY DEF IInv
<1>2. row[e].attempts \in Nat
  BY <1>1 DEF TypeOK, RowType
<1>3. ASSUME NEW r \in Relays, Commit(r), e \in batch[r]
      PROVE  /\ row[e].status = "PENDING"
             /\ row'[e].status # "absent"
             /\ row[e].attempts <= row'[e].attempts
             /\ row'[e].status = "PUBLISHED" => e \in ok[r]
  <2>1. row[e].status = "PENDING"
    BY <1>3, CommittedRows
  <2>2. CASE e \in ok[r]
    <3>1. row'[e] = [status |-> "PUBLISHED", attempts |-> row[e].attempts]
      BY <1>3, <2>2, CommittedRows
    <3>2. row'[e].status = "PUBLISHED" /\ row'[e].attempts = row[e].attempts
      BY <3>1
    <3>3. QED
      BY <1>2, <2>1, <2>2, <3>2
  <2>3. CASE e \in bad[r]
    <3>1. row'[e] = AfterFailure(e)
      BY <1>3, <2>3, CommittedRows
    <3>2. /\ row'[e].attempts = row[e].attempts + 1
          /\ row'[e].status = "FAILED" \/ row'[e].status = "PENDING"
      BY <3>1 DEF AfterFailure
    <3>3. row[e].attempts <= row'[e].attempts
      BY <1>2, <3>2
    <3>4. QED
      BY <2>1, <3>2, <3>3
  <2>4. CASE e \notin ok[r] /\ e \notin bad[r]
    <3>1. row'[e] = row[e]
      BY <1>3, <2>4 DEF Commit
    <3>2. QED
      BY <1>2, <2>1, <3>1
  <2>5. QED
    BY <2>2, <2>3, <2>4
<1>4. CASE row'[e] = row[e]
  BY <1>2, <1>4
<1>5. ASSUME NEW r \in Relays, Commit(r)
      PROVE  row'[e] = row[e] \/ e \in batch[r]
  BY <1>5, CommittedRows
<1>6. ASSUME NEW d \in Events, Insert(d)
      PROVE  row'[e] = row[e] \/ (row[e] = Absent /\ row'[e] = Pending)
  BY <1>1, <1>6 DEF Insert, TypeOK
<1>7. CASE row[e] = Absent /\ row'[e] = Pending
  BY <1>7 DEF Absent, Pending
<1>8. ASSUME NEW r \in Relays, Commit(r)
      PROVE  /\ row[e].status \in {"PUBLISHED", "FAILED"} => row'[e] = row[e]
             /\ row[e].attempts <= row'[e].attempts
             /\ row[e] # Absent => row'[e] # Absent
             /\ row'[e].status = "PUBLISHED" =>
                   row[e].status = "PUBLISHED" \/ e \in ok[r]
  <2>1. CASE e \in batch[r]
    BY <1>3, <1>8, <2>1 DEF Absent
  <2>2. CASE row'[e] = row[e]
    BY <1>4, <2>2, <1>2
  <2>3. QED
    BY <1>5, <1>8, <2>1, <2>2
<1>9. QED
  BY <1>4, <1>6, <1>7, <1>8, RowsOf

(* A crash empties one queue and counts what was there as lost.             *)
LEMMA CrashedQueue ==
    ASSUME IInv, NEW r \in Relays, Crash(r)
    PROVE  /\ row' = row /\ lost \subseteq lost'
           /\ \A q \in Relays : ok'[q] \subseteq ok[q]
           /\ \A d \in Events : /\ Present(d)' => Present(d)
                                /\ Present(d) => Present(d)' \/ d \in lost'
<1>1. TypeOK
  BY DEF IInv
<1>2. Release(r) /\ row' = row /\ lost \subseteq lost' /\ log' = log
  BY DEF Crash
<1>3. \A q \in Relays : ok'[q] \subseteq ok[q]
  BY <1>2, ReleasedRows
<1>4. ASSUME NEW d \in Events
      PROVE  /\ ~InQueue(r, d)'
             /\ \A q \in Relays \ {r} : InQueue(q, d)' <=> InQueue(q, d)
             /\ InLog(d)' <=> InLog(d)
             /\ InQueue(r, d) => d \in lost'
  <2>1. StreamOf[d] \in Streams
    OBVIOUS
  <2>2. queue'[r][StreamOf[d]] = <<>>
    BY <1>1, <2>1 DEF Crash, TypeOK
  <2>3. \A q \in Relays \ {r} : queue'[q] = queue[q]
    BY <1>1 DEF Crash, TypeOK
  <2>4. ~InQueue(r, d)'
    BY <2>2, EmptyElements DEF InQueue
  <2>5. \A q \in Relays \ {r} : InQueue(q, d)' <=> InQueue(q, d)
    BY <2>3 DEF InQueue
  <2>6. InLog(d)' <=> InLog(d)
    BY <1>2 DEF InLog
  <2>7. InQueue(r, d) => d \in lost'
    BY DEF Crash
  <2>8. QED
    BY <2>4, <2>5, <2>6, <2>7
<1>5. QED
  BY <1>2, <1>3, <1>4 DEF Present

(* Every other step leaves the messages, and adds nothing to ok.            *)
LEMMA MessagesOf ==
    ASSUME IInv, [Next]_vars
    PROVE  \/ \E r \in Relays : ProduceOk(r) \/ Crash(r)
           \/ \E r \in Relays, s \in Streams : Deliver(r, s) \/ Resend(r, s) \/ Expire(r, s)
           \/ \E r \in Relays, s \in Streams : Requeue(r, s)
           \/ /\ queue' = queue /\ log' = log /\ lost' = lost
              /\ \A q \in Relays : ok'[q] \subseteq ok[q]
<1>1. ASSUME NEW r \in Relays, Commit(r)
      PROVE  /\ queue' = queue /\ log' = log /\ lost' = lost
             /\ \A q \in Relays : ok'[q] \subseteq ok[q]
  <2>1. Release(r) /\ queue' = queue /\ log' = log /\ lost' = lost
    BY <1>1 DEF Commit, kafkaState
  <2>2. QED
    BY <2>1, ReleasedRows
<1>2. QED
  BY <1>1
  DEF Next, Relay, Library, Insert, Fetch, EmptyFetch, ProduceFail, Flush, Restart, Outage,
      Recover, vars, relayState, kafkaState

(* A message in a queue or in the broker belongs to a row that exists, and  *)
(* a row set or marked PUBLISHED has its message somewhere or known lost.   *)
LEMMA MessagesStep ==
    ASSUME IInv, [Next]_vars
    PROVE  NothingFromNowhere' /\ HandedOver'
<1> SUFFICES ASSUME NEW d \in Events
             PROVE  /\ Present(d)' => row'[d] # Absent
                    /\ row'[d].status = "PUBLISHED" \/ (\E r \in Relays : d \in ok'[r]) =>
                          Present(d)' \/ d \in lost'
  BY DEF NothingFromNowhere, HandedOver, Present
<1>1. /\ Present(d) => row[d] # Absent
      /\ row[d].status = "PUBLISHED" \/ (\E r \in Relays : d \in ok[r]) =>
            Present(d) \/ d \in lost
  BY DEF IInv, NothingFromNowhere, HandedOver, Present
<1>2. /\ row[d] # Absent => row'[d] # Absent
      /\ row'[d].status = "PUBLISHED" =>
            row[d].status = "PUBLISHED" \/ \E r \in Relays : d \in ok[r]
  BY RowEffect
<1>3. ASSUME NEW r \in Relays, ProduceOk(r)
      PROVE  /\ Present(d)' => row'[d] # Absent
             /\ row'[d].status = "PUBLISHED" \/ (\E q \in Relays : d \in ok'[q]) =>
                   Present(d)' \/ d \in lost'
  <2>1. PICK e \in Events :
              /\ e \in batch[r] /\ row[e].status = "PENDING"
              /\ ok'[r] = ok[r] \cup {e}
              /\ \A q \in Relays \ {r} : ok'[q] = ok[q]
              /\ \A c \in Events, q \in Relays :
                    InQueue(q, c)' <=> InQueue(q, c) \/ (q = r /\ c = e)
              /\ log' = log /\ row' = row /\ lost' = lost
    BY <1>3, ProducedRow
  <2>2. InLog(d)' <=> InLog(d)
    BY <2>1 DEF InLog
  <2>3. Present(d)' <=> Present(d) \/ d = e
    BY <2>1, <2>2 DEF Present
  <2>4. d = e => row[d] # Absent
    BY <2>1 DEF Absent
  <2>5. (\E q \in Relays : d \in ok'[q]) => (\E q \in Relays : d \in ok[q]) \/ d = e
    BY <2>1
  <2>6. QED
    BY <1>1, <2>1, <2>3, <2>4, <2>5
<1>4. ASSUME NEW r \in Relays, Crash(r)
      PROVE  /\ Present(d)' => row'[d] # Absent
             /\ row'[d].status = "PUBLISHED" \/ (\E q \in Relays : d \in ok'[q]) =>
                   Present(d)' \/ d \in lost'
  BY <1>1, <1>4, CrashedQueue
<1>5. ASSUME NEW r \in Relays, NEW s \in Streams, Deliver(r, s) \/ Resend(r, s) \/ Expire(r, s)
      PROVE  /\ Present(d)' => row'[d] # Absent
             /\ row'[d].status = "PUBLISHED" \/ (\E q \in Relays : d \in ok'[q]) =>
                   Present(d)' \/ d \in lost'
  BY <1>1, <1>5, MovedMessage
<1>6. ASSUME NEW r \in Relays, NEW s \in Streams, Requeue(r, s)
      PROVE  /\ Present(d)' => row'[d] # Absent
             /\ row'[d].status = "PUBLISHED" \/ (\E q \in Relays : d \in ok'[q]) =>
                   Present(d)' \/ d \in lost'
  BY <1>1, <1>6, RequeuedMessage
<1>7. ASSUME queue' = queue, log' = log, lost' = lost,
             \A q \in Relays : ok'[q] \subseteq ok[q]
      PROVE  /\ Present(d)' => row'[d] # Absent
             /\ row'[d].status = "PUBLISHED" \/ (\E q \in Relays : d \in ok'[q]) =>
                   Present(d)' \/ d \in lost'
  <2>1. Present(d)' <=> Present(d)
    BY <1>7 DEF Present, InLog, InQueue
  <2>2. QED
    BY <1>1, <1>2, <1>7, <2>1
<1>8. QED
  BY <1>3, <1>4, <1>5, <1>6, <1>7, MessagesOf

----------------------------------------------------------------------------
(* IInv holds at the start and every step keeps it.                         *)
LEMMA Inductive == Spec => []IInv
<1>1. Init => IInv
  BY InitHolds
<1>2. IInv /\ [Next]_vars => IInv'
  BY TypeStep, ExclusiveStep, BookkeepingStep, AttemptsStep, MessagesStep DEF IInv
<1>3. QED
  BY <1>1, <1>2, PTL DEF Spec

(* The variables keep their types.                                          *)
THEOREM TypeCorrect == Spec => []TypeOK
<1>1. IInv => TypeOK
  BY DEF IInv
<1>2. QED
  BY <1>1, Inductive, PTL

(* However many relays run, no two of them hold one row, and a row that is  *)
(* held is undecided: FOR UPDATE SKIP LOCKED partitions the table.          *)
THEOREM RelaysDoNotCollide == Spec => []BatchesAreExclusive
<1>1. IInv => BatchesAreExclusive
  BY DEF IInv
<1>2. QED
  BY <1>1, Inductive, PTL

(* A row is FAILED exactly when MAX_ATTEMPTS attempts are used up.          *)
THEOREM FailedMeansExhausted == Spec => []FailedAfterAllAttempts
<1>1. IInv => FailedAfterAllAttempts
  BY DEF IInv
<1>2. QED
  BY <1>1, Inductive, PTL

(* Kafka never sees an event of a transaction that did not commit.          *)
THEOREM OutboxIsTransactional == Spec => []NothingFromNowhere
<1>1. IInv => NothingFromNowhere
  BY DEF IInv
<1>2. QED
  BY <1>1, Inductive, PTL

(* A row is marked PUBLISHED only after its message was handed to the       *)
(* library: it is in the broker, on its way, or known to be lost.           *)
THEOREM PublishedWasHandedOver == Spec => []PublishedIsAccountedFor
<1>1. IInv => PublishedIsAccountedFor
  BY DEF IInv, HandedOver, PublishedIsAccountedFor, Present
<1>2. QED
  BY <1>1, Inductive, PTL

(* No step of any relay undoes a decision or forgets an attempt.            *)
THEOREM DecisionsAreFinal == Spec => DecidedRowsStay
<1>1. IInv /\ [Next]_vars =>
         [\A e \in Events :
             /\ row[e].status \in {"PUBLISHED", "FAILED"} => row'[e] = row[e]
             /\ row[e].attempts <= row'[e].attempts]_vars
  BY RowEffect
<1>2. QED
  BY <1>1, Inductive, PTL DEF Spec, DecidedRowsStay
----------------------------------------------------------------------------
(* Copies: a second invariant, on the positions of a message.              *)

Single(q, e) == \A i, k \in DOMAIN q : q[i] = e /\ q[k] = e => i = k

OneCopy(e) ==
    /\ Single(log[StreamOf[e]], e)
    /\ \A r \in Relays : Single(queue[r][StreamOf[e]], e)
    /\ \A r, q \in Relays : InQueue(r, e) /\ InQueue(q, e) => r = q
    /\ \A r \in Relays : InQueue(r, e) => ~InLog(e)
    /\ Present(e) => row[e].status = "PUBLISHED" \/ \E r \in Relays : e \in ok[r]

CopyInv == \A e \in Events \ again : OneCopy(e)

(* What is put at the end of a queue without it is there once.              *)
LEMMA AppendSingle ==
    ASSUME NEW S, NEW q \in Seq(S), NEW d \in S, NEW e \in S,
           Single(q, e), d = e => e \notin Elements(q)
    PROVE  Single(Append(q, d), e)
<1>1. /\ DOMAIN q = 1..Len(q) /\ Len(q) \in Nat
      /\ DOMAIN Append(q, d) = 1..(Len(q) + 1)
      /\ \A i \in 1..Len(q) : Append(q, d)[i] = q[i]
      /\ Append(q, d)[Len(q) + 1] = d
  OBVIOUS
<1>2. \A i \in 1..(Len(q) + 1) : i \in 1..Len(q) \/ i = Len(q) + 1
  BY <1>1
<1>3. d = e => \A i \in 1..Len(q) : q[i] # e
  BY <1>1 DEF Elements
<1>4. QED
  BY <1>1, <1>2, <1>3 DEF Single

(* What is once in a queue is at most once in its tail, and not there when  *)
(* it is the head.                                                          *)
LEMMA TailSingle ==
    ASSUME NEW S, NEW q \in Seq(S), q # <<>>, NEW e \in S, Single(q, e)
    PROVE  /\ Single(Tail(q), e)
           /\ e = Head(q) => e \notin Elements(Tail(q))
<1>1. /\ DOMAIN q = 1..Len(q) /\ Len(q) \in Nat /\ Len(q) >= 1
      /\ Head(q) = q[1]
      /\ DOMAIN Tail(q) = 1..(Len(q) - 1)
      /\ \A i \in 1..(Len(q) - 1) : Tail(q)[i] = q[i + 1]
  OBVIOUS
<1>2. \A i \in 1..(Len(q) - 1) : i + 1 \in 1..Len(q) /\ i + 1 # 1 /\ i \in Nat
  BY <1>1
<1>3. \A i, k \in 1..(Len(q) - 1) : q[i + 1] = e /\ q[k + 1] = e => i + 1 = k + 1
  BY <1>1, <1>2 DEF Single
<1>4. Single(Tail(q), e)
  BY <1>1, <1>2, <1>3 DEF Single
<1>5. 1 \in 1..Len(q)
  BY <1>1
<1>6. e = Head(q) => \A i \in 1..(Len(q) - 1) : Tail(q)[i] # e
  BY <1>1, <1>2, <1>5 DEF Single
<1>7. QED
  BY <1>1, <1>4, <1>6 DEF Elements

(* What the library does to the queue of one relay and one stream, and to   *)
(* the broker.                                                              *)
LEMMA LibraryEffect ==
    ASSUME IInv, NEW r \in Relays, NEW s \in Streams,
           Deliver(r, s) \/ Resend(r, s) \/ Requeue(r, s) \/ Expire(r, s)
    PROVE  /\ queue[r][s] \in Seq(Events) /\ queue[r][s] # <<>> /\ log[s] \in Seq(Events)
           /\ \/ /\ log'[s] = Append(log[s], Head(queue[r][s]))
                 /\ queue'[r][s] = Tail(queue[r][s])
              \/ /\ log'[s] = Append(log[s], Head(queue[r][s]))
                 /\ queue'[r][s] = queue[r][s] /\ Head(queue[r][s]) \in again'
              \/ /\ log'[s] = log[s] /\ Head(queue[r][s]) \in delayed'
                 /\ queue'[r][s] = Append(Tail(queue[r][s]), Head(queue[r][s]))
              \/ /\ log'[s] = log[s] /\ Head(queue[r][s]) \in lost'
                 /\ queue'[r][s] = Tail(queue[r][s])
           /\ \A t \in Streams \ {s} : log'[t] = log[t]
           /\ \A q \in Relays, t \in Streams : q # r \/ t # s => queue'[q][t] = queue[q][t]
           /\ row' = row /\ UNCHANGED relayState
           /\ again \subseteq again' /\ lost \subseteq lost' /\ delayed \subseteq delayed'
<1>1. TypeOK
  BY DEF IInv
<1>2. queue[r][s] \in Seq(Events) /\ log[s] \in Seq(Events)
  BY <1>1 DEF TypeOK
<1>3. queue[r][s] # <<>>
  BY DEF Deliver, Resend, Requeue, Expire, Waiting
<1>4. CASE Deliver(r, s)
  BY <1>1, <1>2, <1>3, <1>4 DEF Deliver, TypeOK
<1>5. CASE Resend(r, s)
  BY <1>1, <1>2, <1>3, <1>5 DEF Resend, TypeOK
<1>6. CASE Requeue(r, s)
  BY <1>1, <1>2, <1>3, <1>6 DEF Requeue, TypeOK
<1>7. CASE Expire(r, s)
  BY <1>1, <1>2, <1>3, <1>7 DEF Expire, TypeOK
<1>8. QED
  BY <1>4, <1>5, <1>6, <1>7

(* The sequences of messages after produce(): one queue is longer.          *)
LEMMA ProduceEffect ==
    ASSUME IInv, NEW r \in Relays, ProduceOk(r)
    PROVE  \E e \in Events :
              /\ Current(r, e) /\ pc[r] = "producing"
              /\ queue'[r][StreamOf[e]] = Append(queue[r][StreamOf[e]], e)
              /\ \A q \in Relays, t \in Streams :
                    q # r \/ t # StreamOf[e] => queue'[q][t] = queue[q][t]
              /\ ok'[r] = ok[r] \cup {e}
              /\ \A q \in Relays \ {r} : ok'[q] = ok[q]
              /\ UNCHANGED <<row, batch, bad, log, again, lost, delayed>>
<1>1. TypeOK
  BY DEF IInv
<1>2. PICK e \in Todo(r) : /\ Current(r, e)
                           /\ ok' = [ok EXCEPT ![r] = @ \cup {e}]
                           /\ queue' = [queue EXCEPT ![r][StreamOf[e]] = Append(@, e)]
  BY DEF ProduceOk
<1>3. e \in Events /\ StreamOf[e] \in Streams
  BY <1>1, <1>2 DEF Todo, TypeOK
<1>4. ok'[r] = ok[r] \cup {e} /\ \A q \in Relays \ {r} : ok'[q] = ok[q]
  BY <1>1, <1>2 DEF TypeOK
<1>5. /\ queue'[r][StreamOf[e]] = Append(queue[r][StreamOf[e]], e)
      /\ \A q \in Relays, t \in Streams :
            q # r \/ t # StreamOf[e] => queue'[q][t] = queue[q][t]
  BY <1>1, <1>2, <1>3 DEF TypeOK
<1>6. UNCHANGED <<row, batch, bad, log, again, lost, delayed>> /\ pc[r] = "producing"
  BY DEF ProduceOk
<1>7. QED
  BY <1>2, <1>3, <1>4, <1>5, <1>6

(* A crash leaves the relay's queues empty and everything else in place.    *)
LEMMA CrashEffect ==
    ASSUME IInv, NEW r \in Relays, Crash(r)
    PROVE  /\ \A t \in Streams : queue'[r][t] = <<>>
           /\ \A q \in Relays \ {r} : queue'[q] = queue[q]
           /\ batch'[r] = {} /\ ok'[r] = {} /\ bad'[r] = {}
           /\ \A q \in Relays \ {r} : batch'[q] = batch[q] /\ ok'[q] = ok[q] /\ bad'[q] = bad[q]
           /\ UNCHANGED <<row, log, delayed>>
           /\ again' = again \cup ok[r]
           /\ \A e \in Events : e \in lost' <=> e \in lost \/ InQueue(r, e)
<1>1. TypeOK
  BY DEF IInv
<1>2. Release(r) /\ UNCHANGED <<row, log, delayed>> /\ again' = again \cup ok[r]
  BY DEF Crash
<1>3. queue' = [queue EXCEPT ![r] = [t \in Streams |-> <<>>]]
  BY DEF Crash
<1>4. \A t \in Streams : queue'[r][t] = <<>>
  BY <1>1, <1>3 DEF TypeOK
<1>5. \A q \in Relays \ {r} : queue'[q] = queue[q]
  BY <1>1, <1>3 DEF TypeOK
<1>6. \A e \in Events : e \in lost' <=> e \in lost \/ InQueue(r, e)
  BY DEF Crash
<1>7. QED
  BY <1>2, <1>4, <1>5, <1>6, ReleasedRows

(* A commit turns what its relay produced into PUBLISHED rows.              *)
LEMMA PublishedOrOk ==
    ASSUME IInv, [Next]_vars, NEW e \in Events,
           row[e].status = "PUBLISHED" \/ \E r \in Relays : e \in ok[r],
           \A r \in Relays : Crash(r) => e \notin ok[r]
    PROVE  row'[e].status = "PUBLISHED" \/ \E r \in Relays : e \in ok'[r]
<1>1. CASE row[e].status = "PUBLISHED"
  BY <1>1, RowEffect
<1>2. ASSUME NEW r \in Relays, e \in ok[r], NEW q \in Relays, Commit(q)
      PROVE  row'[e].status = "PUBLISHED" \/ e \in ok'[r]
  <2>1. Release(q)
    BY <1>2 DEF Commit
  <2>2. CASE q = r
    <3>1. e \in ok[q]
      BY <1>2, <2>2
    <3>2. row'[e] = [status |-> "PUBLISHED", attempts |-> row[e].attempts]
      BY <1>2, <3>1, CommittedRows
    <3>3. QED
      BY <3>2
  <2>3. CASE q # r
    BY <1>2, <2>1, <2>3, ReleasedRows
  <2>4. QED
    BY <2>2, <2>3
<1>3. ASSUME NEW r \in Relays, e \in ok[r], NEW q \in Relays, Crash(q)
      PROVE  e \in ok'[r]
  <2>1. q # r
    BY <1>3
  <2>2. QED
    BY <1>3, <2>1, CrashEffect
<1>4. ASSUME NEW r \in Relays, e \in ok[r], NEW q \in Relays, ProduceOk(q)
      PROVE  e \in ok'[r]
  BY <1>4, ProduceEffect
<1>5. ASSUME NEW r \in Relays, e \in ok[r], ok' = ok
      PROVE  e \in ok'[r]
  BY <1>5
<1>6. \/ \E q \in Relays : Commit(q) \/ Crash(q) \/ ProduceOk(q)
      \/ ok' = ok
  BY DEF Next, Relay, Library, Insert, Fetch, EmptyFetch, ProduceFail, Flush, Restart, Outage,
         Recover, Deliver, Resend, Requeue, Expire, vars, relayState
<1>7. QED
  BY <1>1, <1>2, <1>3, <1>4, <1>5, <1>6

(* The head of a queue moves, and its copies with it.                       *)
LEMMA CopyMoves ==
    ASSUME IInv, TypeOK', CopyInv, [Next]_vars, NEW r \in Relays, NEW s \in Streams,
           Deliver(r, s) \/ Resend(r, s) \/ Requeue(r, s) \/ Expire(r, s),
           NEW e \in Events \ again'
    PROVE  OneCopy(e)'
<1> DEFINE head == Head(queue[r][s])
           rest == Tail(queue[r][s])
<1>1. /\ queue[r][s] \in Seq(Events) /\ queue[r][s] # <<>> /\ log[s] \in Seq(Events)
      /\ \/ log'[s] = Append(log[s], head) /\ queue'[r][s] = rest
         \/ log'[s] = Append(log[s], head) /\ queue'[r][s] = queue[r][s] /\ head \in again'
         \/ log'[s] = log[s] /\ queue'[r][s] = Append(rest, head)
         \/ log'[s] = log[s] /\ queue'[r][s] = rest
      /\ \A t \in Streams \ {s} : log'[t] = log[t]
      /\ \A q \in Relays, t \in Streams : q # r \/ t # s => queue'[q][t] = queue[q][t]
      /\ row' = row /\ ok' = ok /\ again \subseteq again'
  BY LibraryEffect DEF relayState
<1>2. /\ head \in Events /\ rest \in Seq(Events)
      /\ Elements(queue[r][s]) = Elements(rest) \cup {head}
  BY <1>1, TailElements
<1>3. OneCopy(e) /\ StreamOf[e] \in Streams
  BY <1>1 DEF CopyInv
<1>4. CASE StreamOf[e] # s
  <2>1. log'[StreamOf[e]] = log[StreamOf[e]]
    BY <1>1, <1>3, <1>4
  <2>2. \A q \in Relays : queue'[q][StreamOf[e]] = queue[q][StreamOf[e]]
    BY <1>1, <1>3, <1>4
  <2>3. /\ InLog(e)' <=> InLog(e)
        /\ \A q \in Relays : InQueue(q, e)' <=> InQueue(q, e)
    BY <2>1, <2>2 DEF InLog, InQueue
  <2>4. QED
    BY <1>1, <1>3, <2>1, <2>2, <2>3 DEF OneCopy, Present
<1>5. CASE StreamOf[e] = s
  <2>1. /\ Single(log[s], e) /\ \A q \in Relays : Single(queue[q][s], e)
        /\ \A p, q \in Relays : InQueue(p, e) /\ InQueue(q, e) => p = q
        /\ \A q \in Relays : InQueue(q, e) => ~InLog(e)
        /\ Present(e) => row[e].status = "PUBLISHED" \/ \E q \in Relays : e \in ok[q]
    BY <1>3, <1>5 DEF OneCopy
  <2>2. /\ InLog(e) <=> e \in Elements(log[s])
        /\ InLog(e)' <=> e \in Elements(log'[s])
        /\ \A q \in Relays : /\ InQueue(q, e) <=> e \in Elements(queue[q][s])
                             /\ InQueue(q, e)' <=> e \in Elements(queue'[q][s])
    BY <1>5 DEF InLog, InQueue
  <2>3. \A q \in Relays \ {r} : queue'[q][s] = queue[q][s]
    BY <1>1
  <2>4. /\ Single(rest, e) /\ e = head => e \notin Elements(rest)
        /\ Single(rest, e)
    BY <1>1, <2>1, TailSingle
  <2> HIDE DEF head, rest
  <2>5. /\ Elements(Append(log[s], head)) = Elements(log[s]) \cup {head}
        /\ Elements(Append(rest, head)) = Elements(rest) \cup {head}
    BY <1>1, <1>2, AppendElements
  <2>6. head = e => InQueue(r, e)
    BY <1>2, <2>2
  <2>7. head = e => e \notin Elements(log[s])
    BY <2>1, <2>2, <2>6
  <2>8. /\ Single(Append(log[s], head), e)
        /\ Single(Append(rest, head), e)
    BY <1>1, <1>2, <2>1, <2>4, <2>7, AppendSingle
  <2>9. CASE log'[s] = Append(log[s], head) /\ queue'[r][s] = rest
    <3>1. InLog(e)' <=> InLog(e) \/ e = head
      BY <2>2, <2>5, <2>9
    <3>2. InQueue(r, e)' <=> e \in Elements(rest)
      BY <2>2, <2>9
    <3>3. InQueue(r, e) <=> e \in Elements(rest) \/ e = head
      BY <1>2, <2>2
    <3>4. \A q \in Relays \ {r} : InQueue(q, e)' <=> InQueue(q, e)
      BY <2>2, <2>3
    <3>5. \A q \in Relays : InQueue(q, e)' => InQueue(q, e) /\ ~InLog(e)'
      BY <2>1, <2>4, <2>6, <3>1, <3>2, <3>3, <3>4
    <3>6. Present(e)' => Present(e)
      BY <2>6, <3>1, <3>5 DEF Present
    <3>7. /\ Single(log'[s], e) /\ \A q \in Relays : Single(queue'[q][s], e)
      BY <2>1, <2>3, <2>4, <2>8, <2>9
    <3>8. QED
      BY <1>1, <1>5, <2>1, <3>5, <3>6, <3>7 DEF OneCopy
  <2>10. CASE log'[s] = Append(log[s], head) /\ queue'[r][s] = queue[r][s] /\ head \in again'
    <3>1. head # e
      BY <2>10
    <3>2. InLog(e)' <=> InLog(e)
      BY <2>2, <2>5, <2>10, <3>1
    <3>3. \A q \in Relays : queue'[q][s] = queue[q][s]
      BY <2>3, <2>10
    <3>4. \A q \in Relays : InQueue(q, e)' <=> InQueue(q, e)
      BY <2>2, <3>3
    <3>5. QED
      BY <1>1, <1>5, <2>1, <2>8, <2>10, <3>2, <3>3, <3>4 DEF OneCopy, Present
  <2>11. CASE log'[s] = log[s] /\ queue'[r][s] = Append(rest, head)
    <3>1. InLog(e)' <=> InLog(e)
      BY <2>2, <2>11
    <3>2. InQueue(r, e)' <=> InQueue(r, e)
      BY <1>2, <2>2, <2>5, <2>11
    <3>3. \A q \in Relays : InQueue(q, e)' <=> InQueue(q, e)
      BY <2>2, <2>3, <3>2
    <3>4. \A q \in Relays : Single(queue'[q][s], e)
      BY <2>1, <2>3, <2>8, <2>11
    <3>5. QED
      BY <1>1, <1>5, <2>1, <2>11, <3>1, <3>3, <3>4 DEF OneCopy, Present
  <2>12. CASE log'[s] = log[s] /\ queue'[r][s] = rest
    <3>1. InLog(e)' <=> InLog(e)
      BY <2>2, <2>12
    <3>2. \A q \in Relays : InQueue(q, e)' => InQueue(q, e)
      BY <1>2, <2>2, <2>3, <2>12
    <3>3. \A q \in Relays : Single(queue'[q][s], e)
      BY <2>1, <2>3, <2>4, <2>12
    <3>4. QED
      BY <1>1, <1>5, <2>1, <2>12, <3>1, <3>2, <3>3 DEF OneCopy, Present
  <2>13. QED
    BY <1>1, <2>9, <2>10, <2>11, <2>12 DEF head, rest
<1>6. QED
  BY <1>4, <1>5

(* Nothing is produced twice in one transaction, a produced row that is     *)
(* still PENDING is held by the relay that produced it, and one that is     *)
(* produced again after a crash is counted in again.                        *)
LEMMA CopyStep ==
    ASSUME IInv, TypeOK', CopyInv, [Next]_vars
    PROVE  CopyInv'
<1> SUFFICES ASSUME NEW e \in Events \ again'
             PROVE  OneCopy(e)'
  BY DEF CopyInv
<1>1. TypeOK /\ StreamOf[e] \in Streams
  BY DEF IInv
<1>2. ASSUME NEW r \in Relays, ProduceOk(r)
      PROVE  OneCopy(e)'
  <2>1. PICK d \in Events :
            /\ Current(r, d)
            /\ queue'[r][StreamOf[d]] = Append(queue[r][StreamOf[d]], d)
            /\ \A q \in Relays, t \in Streams :
                  q # r \/ t # StreamOf[d] => queue'[q][t] = queue[q][t]
            /\ ok'[r] = ok[r] \cup {d}
            /\ \A q \in Relays \ {r} : ok'[q] = ok[q]
            /\ UNCHANGED <<row, log, again>>
    BY <1>2, ProduceEffect
  <2>2. OneCopy(e)
    BY <2>1 DEF CopyInv
  <2>3. d \in batch[r] /\ d \notin ok[r] /\ row[d].status = "PENDING"
    BY <2>1 DEF Current, Todo, IInv, BatchesAreExclusive
  <2>4. \A q \in Relays : d \notin ok[q]
    BY <2>3 DEF IInv, BatchesAreExclusive, Bookkeeping
  <2>5. e = d => ~Present(e)
    BY <2>2, <2>3, <2>4 DEF OneCopy
  <2>6. log' = log /\ (InLog(e)' <=> InLog(e))
    BY <2>1 DEF InLog
  <2>7. queue[r][StreamOf[d]] \in Seq(Events)
    BY <1>1 DEF TypeOK
  <2>8. \A q \in Relays : InQueue(q, e)' <=> InQueue(q, e) \/ (q = r /\ e = d)
    <3>1. Elements(Append(queue[r][StreamOf[d]], d)) = Elements(queue[r][StreamOf[d]]) \cup {d}
      BY <2>7, AppendElements
    <3>2. CASE StreamOf[e] = StreamOf[d]
      BY <1>1, <2>1, <3>1, <3>2 DEF InQueue
    <3>3. CASE StreamOf[e] # StreamOf[d]
      <4>1. \A q \in Relays : queue'[q][StreamOf[e]] = queue[q][StreamOf[e]]
        BY <1>1, <2>1, <3>3
      <4>2. QED
        BY <3>3, <4>1 DEF InQueue
    <3>4. QED
      BY <3>2, <3>3
  <2>9. \A q \in Relays : Single(queue'[q][StreamOf[e]], e)
    <3>1. \A q \in Relays : Single(queue[q][StreamOf[e]], e)
      BY <2>2 DEF OneCopy
    <3>2. CASE StreamOf[e] = StreamOf[d]
      <4>1. d = e => e \notin Elements(queue[r][StreamOf[d]])
        BY <2>5, <3>2 DEF Present, InQueue
      <4>2. Single(queue[r][StreamOf[d]], e)
        BY <3>1, <3>2
      <4>3. Single(Append(queue[r][StreamOf[d]], d), e)
        BY <2>7, <4>1, <4>2, AppendSingle
      <4>4. QED
        BY <1>1, <2>1, <3>1, <3>2, <4>3
    <3>3. CASE StreamOf[e] # StreamOf[d]
      BY <1>1, <2>1, <3>1, <3>3
    <3>4. QED
      BY <3>2, <3>3
  <2>10. CASE e = d
    <3>1. ~InLog(e) /\ \A q \in Relays : ~InQueue(q, e)
      BY <2>5, <2>10 DEF Present
    <3>2. e \in ok'[r]
      BY <2>1, <2>10
    <3>3. QED
      BY <2>2, <2>6, <2>8, <2>9, <3>1, <3>2 DEF OneCopy
  <2>11. CASE e # d
    <3>1. \A q \in Relays : InQueue(q, e)' <=> InQueue(q, e)
      BY <2>8, <2>11
    <3>2. \A q \in Relays : e \in ok[q] => e \in ok'[q]
      BY <2>1
    <3>3. QED
      BY <2>1, <2>2, <2>6, <2>9, <3>1, <3>2 DEF OneCopy, Present
  <2>12. QED
    BY <2>10, <2>11
<1>3. ASSUME NEW r \in Relays, NEW s \in Streams,
             Deliver(r, s) \/ Resend(r, s) \/ Requeue(r, s) \/ Expire(r, s)
      PROVE  OneCopy(e)'
  BY <1>3, CopyMoves
<1>4. ASSUME NEW r \in Relays, Crash(r)
      PROVE  OneCopy(e)'
  <2>1. /\ \A t \in Streams : queue'[r][t] = <<>>
        /\ \A q \in Relays \ {r} : queue'[q] = queue[q] /\ ok'[q] = ok[q]
        /\ log' = log /\ row' = row /\ again' = again \cup ok[r]
    BY <1>4, CrashEffect
  <2>2. OneCopy(e) /\ e \notin ok[r]
    BY <2>1 DEF CopyInv
  <2>3. ~InQueue(r, e)' /\ Single(queue'[r][StreamOf[e]], e)
    BY <1>1, <2>1, EmptyElements DEF InQueue, Single
  <2>4. \A q \in Relays \ {r} : InQueue(q, e)' <=> InQueue(q, e)
    BY <2>1 DEF InQueue
  <2>5. InLog(e)' <=> InLog(e)
    BY <2>1 DEF InLog
  <2>6. Present(e)' => Present(e)
    BY <2>3, <2>4, <2>5 DEF Present
  <2>7. \A q \in Relays : e \in ok[q] => e \in ok'[q]
    BY <2>1, <2>2
  <2>8. \A q \in Relays : Single(queue'[q][StreamOf[e]], e)
    BY <2>1, <2>2, <2>3 DEF OneCopy
  <2>9. QED
    BY <2>1, <2>2, <2>3, <2>4, <2>5, <2>6, <2>7, <2>8 DEF OneCopy
<1>5. ASSUME queue' = queue, log' = log, again' = again,
             \A r \in Relays : Crash(r) => e \notin ok[r]
      PROVE  OneCopy(e)'
  <2>1. OneCopy(e)
    BY <1>5 DEF CopyInv
  <2>2. /\ InLog(e)' <=> InLog(e)
        /\ \A q \in Relays : InQueue(q, e)' <=> InQueue(q, e)
    BY <1>5 DEF InLog, InQueue
  <2>3. Present(e)' <=> Present(e)
    BY <2>2 DEF Present
  <2>4. Present(e)' => row'[e].status = "PUBLISHED" \/ \E r \in Relays : e \in ok'[r]
    BY <1>5, <2>1, <2>3, PublishedOrOk DEF OneCopy
  <2>5. QED
    BY <1>5, <2>1, <2>2, <2>4 DEF OneCopy
<1>6. \/ \E r \in Relays : ProduceOk(r) \/ Crash(r)
      \/ \E r \in Relays, s \in Streams :
            Deliver(r, s) \/ Resend(r, s) \/ Requeue(r, s) \/ Expire(r, s)
      \/ queue' = queue /\ log' = log /\ again' = again
  BY DEF Next, Relay, Library, Insert, Fetch, EmptyFetch, ProduceFail, Flush, Commit, Restart,
         Outage, Recover, vars, relayState, kafkaState
<1>7. QED
  BY <1>2, <1>3, <1>4, <1>5, <1>6

(* An event is in the broker and the queues once, unless the relay that     *)
(* produced it died before its commit or the library sent it again; and an  *)
(* event that is there was decided, or will be by the relay that holds it.  *)
THEOREM NothingIsDuplicated == Spec => []OneCopyUnlessAgain
<1>1. Init => CopyInv
  <2> SUFFICES ASSUME Init, NEW e \in Events
               PROVE  OneCopy(e)
    BY DEF CopyInv
  <2>1. log[StreamOf[e]] = <<>> /\ \A r \in Relays : queue[r][StreamOf[e]] = <<>>
    BY DEF Init
  <2>2. QED
    BY <2>1, EmptyElements DEF OneCopy, Single, InLog, InQueue, Present
<1>2. IInv /\ IInv' /\ CopyInv /\ [Next]_vars => CopyInv'
  BY CopyStep DEF IInv
<1>3. CopyInv => OneCopyUnlessAgain
  BY DEF CopyInv, OneCopy, OneCopyUnlessAgain, Single, Present
<1>4. QED
  BY <1>1, <1>2, <1>3, Inductive, PTL DEF Spec

----------------------------------------------------------------------------
(* Order: a third invariant.  Each sequence of messages is led by every     *)
(* earlier row of its stream that is not excused, because such a row exists *)
(* when a later one does, is fetched before it and is produced before it.   *)

OneRelay == \A r, q \in Relays : r = q

Excused(e) == e \in delayed \cup lost

(* Where q has something later than e, it has e before.                     *)
Leads(q, e) == \A i \in DOMAIN q : e < q[i] => \E h \in 1..(i - 1) : q[h] = e

RowsComeInOrder ==
    \A d, e \in Events : e < d /\ StreamOf[e] = StreamOf[d] /\ row[d] # Absent => row[e] # Absent

FailuresAreDelayed ==
    \A e \in Events : row[e].attempts > 0 \/ (\E r \in Relays : e \in bad[r]) => e \in delayed

MessagesAreInTheirStream ==
    \A s \in Streams :
        /\ \A e \in Elements(log[s]) : StreamOf[e] = s
        /\ \A r \in Relays : \A e \in Elements(queue[r][s]) : StreamOf[e] = s

BatchesAreFirst ==
    OneRelay => \A r \in Relays : \A d \in batch[r], e \in Events :
        e < d /\ StreamOf[e] = StreamOf[d] /\ row[e].status = "PENDING" => e \in batch[r]

EarlierRowsLead ==
    OneRelay => \A e \in Events : ~Excused(e) =>
        /\ Leads(log[StreamOf[e]], e)
        /\ \A r \in Relays : InLog(e) \/ Leads(queue[r][StreamOf[e]], e)

OrderInv ==
    /\ RowsComeInOrder /\ FailuresAreDelayed /\ MessagesAreInTheirStream
    /\ BatchesAreFirst /\ EarlierRowsLead

(* A message put after those it must follow.                                *)
LEMMA AppendLeads ==
    ASSUME NEW S, NEW q \in Seq(S), NEW d \in S, NEW e,
           Leads(q, e), e < d => e \in Elements(q)
    PROVE  Leads(Append(q, d), e)
<1>1. /\ DOMAIN q = 1..Len(q) /\ Len(q) \in Nat
      /\ DOMAIN Append(q, d) = 1..(Len(q) + 1)
      /\ \A i \in 1..Len(q) : Append(q, d)[i] = q[i]
      /\ Append(q, d)[Len(q) + 1] = d
  OBVIOUS
<1> SUFFICES ASSUME NEW i \in 1..(Len(q) + 1), e < Append(q, d)[i]
             PROVE  \E h \in 1..(i - 1) : Append(q, d)[h] = e
  BY <1>1 DEF Leads
<1>2. CASE i \in 1..Len(q)
  <2>1. PICK h \in 1..(i - 1) : q[h] = e
    BY <1>1, <1>2 DEF Leads
  <2>2. h \in 1..Len(q)
    BY <1>1, <1>2
  <2>3. QED
    BY <1>1, <2>1, <2>2
<1>3. CASE i = Len(q) + 1
  <2>1. PICK h \in 1..Len(q) : q[h] = e
    BY <1>1, <1>3 DEF Elements
  <2>2. i - 1 = Len(q)
    BY <1>1, <1>3
  <2>3. QED
    BY <1>1, <2>1, <2>2
<1>4. QED
  BY <1>1, <1>2, <1>3

(* What leads a queue is not later than its head, and leads its tail unless *)
(* it is the head.                                                          *)
LEMMA TailLeads ==
    ASSUME NEW S, NEW q \in Seq(S), q # <<>>, NEW e, Leads(q, e)
    PROVE  /\ ~(e < Head(q))
           /\ e # Head(q) => Leads(Tail(q), e)
<1>1. /\ DOMAIN q = 1..Len(q) /\ Len(q) \in Nat /\ Len(q) >= 1
      /\ Head(q) = q[1]
      /\ DOMAIN Tail(q) = 1..(Len(q) - 1)
      /\ \A i \in 1..(Len(q) - 1) : Tail(q)[i] = q[i + 1]
  OBVIOUS
<1>2. ~(e < Head(q))
  <2>1. 1 \in DOMAIN q /\ 1..(1 - 1) = {}
    BY <1>1
  <2>2. QED
    BY <1>1, <2>1 DEF Leads
<1>3. ASSUME e # Head(q), NEW i \in 1..(Len(q) - 1), e < Tail(q)[i]
      PROVE  \E h \in 1..(i - 1) : Tail(q)[h] = e
  <2>1. i + 1 \in 1..Len(q) /\ e < q[i + 1]
    BY <1>1, <1>3
  <2>2. PICK h \in 1..((i + 1) - 1) : q[h] = e
    BY <1>1, <2>1 DEF Leads
  <2>3. h # 1
    BY <1>1, <1>3, <2>2
  <2>4. h - 1 \in 1..(i - 1) /\ h - 1 \in 1..(Len(q) - 1) /\ (h - 1) + 1 = h
    BY <1>1, <2>2, <2>3
  <2>5. Tail(q)[h - 1] = e
    BY <1>1, <2>2, <2>4
  <2>6. QED
    BY <2>4, <2>5
<1>4. e # Head(q) => Leads(Tail(q), e)
  BY <1>1, <1>3 DEF Leads
<1>5. QED
  BY <1>2, <1>4

(* Rows of a stream appear in their order, and no row disappears.           *)
LEMMA RowsComeInOrderStep ==
    ASSUME IInv, OrderInv, [Next]_vars
    PROVE  RowsComeInOrder'
<1>1. \A d \in Events : row[d] # Absent => row'[d] # Absent
  BY RowEffect
<1>2. ASSUME NEW d \in Events, NEW e \in Events, e < d, StreamOf[e] = StreamOf[d],
             row'[d] # Absent, row[d] = Absent
      PROVE  row[e] # Absent
  <2>1. ASSUME NEW r \in Relays, Commit(r)
        PROVE  row'[d] = row[d]
    <3>1. row[d].status # "PENDING"
      BY <1>2 DEF Absent
    <3>2. d \notin batch[r]
      BY <2>1, <3>1, CommittedRows
    <3>3. QED
      BY <2>1, <3>2, CommittedRows
  <2>2. PICK c \in Events : Insert(c)
    BY <1>2, <2>1, RowsOf
  <2>3. c = d
    BY <1>2, <2>2 DEF Insert, IInv, TypeOK
  <2>4. QED
    BY <1>2, <2>2, <2>3 DEF Insert
<1>3. QED
  BY <1>1, <1>2 DEF OrderInv, RowsComeInOrder

(* An attempt that failed is remembered as a delay.                         *)
LEMMA FailuresAreDelayedStep ==
    ASSUME IInv, OrderInv, [Next]_vars
    PROVE  FailuresAreDelayed'
<1> SUFFICES ASSUME NEW e \in Events, row'[e].attempts > 0 \/ \E r \in Relays : e \in bad'[r]
             PROVE  e \in delayed'
  BY DEF FailuresAreDelayed
<1>1. /\ TypeOK
      /\ row[e].attempts > 0 \/ (\E r \in Relays : e \in bad[r]) => e \in delayed
  BY DEF IInv, OrderInv, FailuresAreDelayed
<1>2. ASSUME NEW r \in Relays, Commit(r)
      PROVE  e \in delayed'
  <2>1. delayed' = delayed /\ Release(r)
    BY <1>2 DEF Commit, kafkaState
  <2>2. \A q \in Relays : bad'[q] \subseteq bad[q]
    BY <2>1, ReleasedRows
  <2>3. CASE e \in bad[r]
    BY <1>1, <2>1, <2>3
  <2>4. CASE e \notin bad[r]
    <3>1. row'[e] = row[e] \/ row'[e] = [status |-> "PUBLISHED", attempts |-> row[e].attempts]
      BY <1>2, <2>4, CommittedRows DEF Commit, IInv, Bookkeeping
    <3>2. row'[e].attempts = row[e].attempts
      BY <3>1
    <3>3. QED
      BY <1>1, <2>1, <2>2, <3>2
  <2>5. QED
    BY <2>3, <2>4
<1>3. ASSUME NEW r \in Relays, ProduceFail(r)
      PROVE  e \in delayed'
  <2>1. PICK d \in Todo(r) : /\ bad' = [bad EXCEPT ![r] = @ \cup {d}]
                             /\ delayed' = delayed \cup {d} /\ row' = row
    BY <1>3 DEF ProduceFail
  <2>2. \A q \in Relays : bad'[q] \subseteq bad[q] \cup {d}
    BY <1>1, <2>1 DEF TypeOK
  <2>3. QED
    BY <1>1, <2>1, <2>2
<1>4. ASSUME NEW d \in Events, Insert(d)
      PROVE  e \in delayed'
  <2>1. /\ row'[d] = Pending /\ \A c \in Events \ {d} : row'[c] = row[c]
        /\ bad' = bad /\ delayed' = delayed
    BY <1>1, <1>4 DEF Insert, TypeOK, relayState, kafkaState
  <2>2. row'[d].attempts = 0
    BY <2>1 DEF Pending
  <2>3. QED
    BY <1>1, <2>1, <2>2
<1>5. ASSUME NEW r \in Relays, Crash(r)
      PROVE  e \in delayed'
  <2>1. UNCHANGED <<row, delayed>> /\ \A q \in Relays : bad'[q] \subseteq bad[q]
    BY <1>5, CrashEffect
  <2>2. QED
    BY <1>1, <2>1
<1>6. ASSUME NEW r \in Relays, NEW s \in Streams,
             Deliver(r, s) \/ Resend(r, s) \/ Requeue(r, s) \/ Expire(r, s)
      PROVE  e \in delayed'
  <2>1. row' = row /\ UNCHANGED relayState /\ delayed \subseteq delayed'
    BY <1>6, LibraryEffect
  <2>2. QED
    BY <1>1, <2>1 DEF relayState
<1>7. CASE row' = row /\ bad' = bad /\ delayed' = delayed
  BY <1>1, <1>7
<1>8. \/ \E r \in Relays : Commit(r) \/ ProduceFail(r) \/ Crash(r)
      \/ \E d \in Events : Insert(d)
      \/ \E r \in Relays, s \in Streams :
            Deliver(r, s) \/ Resend(r, s) \/ Requeue(r, s) \/ Expire(r, s)
      \/ row' = row /\ bad' = bad /\ delayed' = delayed
  BY DEF Next, Relay, Library, Fetch, EmptyFetch, ProduceOk, Flush, Restart, Outage, Recover,
         vars, relayState, kafkaState
<1>9. QED
  BY <1>2, <1>3, <1>4, <1>5, <1>6, <1>7, <1>8

(* A message is queued in the stream of its key and stays there.            *)
LEMMA StreamStep ==
    ASSUME IInv, TypeOK', OrderInv, [Next]_vars
    PROVE  MessagesAreInTheirStream'
<1>1. TypeOK /\ MessagesAreInTheirStream
  BY DEF IInv, OrderInv
<1>2. ASSUME NEW r \in Relays, ProduceOk(r)
      PROVE  MessagesAreInTheirStream'
  <2>1. PICK d \in Events :
            /\ queue'[r][StreamOf[d]] = Append(queue[r][StreamOf[d]], d)
            /\ \A q \in Relays, t \in Streams :
                  q # r \/ t # StreamOf[d] => queue'[q][t] = queue[q][t]
            /\ log' = log
    BY <1>2, ProduceEffect
  <2>2. queue[r][StreamOf[d]] \in Seq(Events) /\ StreamOf[d] \in Streams
    BY <1>1 DEF TypeOK
  <2>3. Elements(queue'[r][StreamOf[d]]) = Elements(queue[r][StreamOf[d]]) \cup {d}
    BY <2>1, <2>2, AppendElements
  <2>4. ASSUME NEW q \in Relays, NEW t \in Streams, NEW c \in Elements(queue'[q][t])
        PROVE  StreamOf[c] = t
    <3>1. CASE q = r /\ t = StreamOf[d]
      <4>1. c = d \/ c \in Elements(queue[q][t])
        BY <2>3, <2>4, <3>1
      <4>2. QED
        BY <1>1, <3>1, <4>1 DEF MessagesAreInTheirStream
    <3>2. CASE q # r \/ t # StreamOf[d]
      <4>1. c \in Elements(queue[q][t])
        BY <2>1, <2>4, <3>2
      <4>2. QED
        BY <1>1, <4>1 DEF MessagesAreInTheirStream
    <3>3. QED
      BY <3>1, <3>2
  <2>5. QED
    BY <1>1, <2>1, <2>4 DEF MessagesAreInTheirStream
<1>3. ASSUME NEW r \in Relays, NEW s \in Streams,
             Deliver(r, s) \/ Resend(r, s) \/ Requeue(r, s) \/ Expire(r, s)
      PROVE  MessagesAreInTheirStream'
  <2> DEFINE head == Head(queue[r][s])
             rest == Tail(queue[r][s])
  <2>1. /\ queue[r][s] \in Seq(Events) /\ queue[r][s] # <<>> /\ log[s] \in Seq(Events)
        /\ log'[s] = Append(log[s], head) \/ log'[s] = log[s]
        /\ queue'[r][s] \in {rest, queue[r][s], Append(rest, head)}
        /\ \A t \in Streams \ {s} : log'[t] = log[t]
        /\ \A q \in Relays, t \in Streams : q # r \/ t # s => queue'[q][t] = queue[q][t]
    BY <1>3, LibraryEffect
  <2>2. /\ head \in Events /\ rest \in Seq(Events)
        /\ Elements(queue[r][s]) = Elements(rest) \cup {head}
    BY <2>1, TailElements
  <2> HIDE DEF head, rest
  <2>3. /\ Elements(Append(log[s], head)) = Elements(log[s]) \cup {head}
        /\ Elements(Append(rest, head)) = Elements(rest) \cup {head}
    BY <2>1, <2>2, AppendElements
  <2>4. /\ Elements(log'[s]) \subseteq Elements(log[s]) \cup Elements(queue[r][s])
        /\ Elements(queue'[r][s]) \subseteq Elements(queue[r][s])
    BY <2>1, <2>2, <2>3
  <2>5. QED
    BY <1>1, <2>1, <2>4 DEF MessagesAreInTheirStream
<1>4. ASSUME NEW r \in Relays, Crash(r)
      PROVE  MessagesAreInTheirStream'
  <2>1. /\ \A t \in Streams : queue'[r][t] = <<>>
        /\ \A q \in Relays \ {r} : queue'[q] = queue[q]
        /\ log' = log
    BY <1>4, CrashEffect
  <2>2. QED
    BY <1>1, <2>1, EmptyElements DEF MessagesAreInTheirStream
<1>5. CASE queue' = queue /\ log' = log
  BY <1>1, <1>5 DEF MessagesAreInTheirStream
<1>6. QED
  BY <1>2, <1>3, <1>4, <1>5, MessagesOf

(* A batch is fetched from the front of the stream, and no row is inserted  *)
(* before one that is there.                                                *)
LEMMA BatchesAreFirstStep ==
    ASSUME IInv, OrderInv, [Next]_vars
    PROVE  BatchesAreFirst'
<1> SUFFICES ASSUME OneRelay, NEW r \in Relays, NEW d \in batch'[r], NEW e \in Events,
                    e < d, StreamOf[e] = StreamOf[d], row'[e].status = "PENDING"
             PROVE  e \in batch'[r]
  BY DEF BatchesAreFirst, OneRelay
<1>1. TypeOK /\ \A q \in Relays : q = r
  BY DEF IInv, OneRelay
<1>2. ASSUME batch' = batch, row'[e] = row[e]
      PROVE  e \in batch'[r]
  BY <1>2 DEF OrderInv, BatchesAreFirst
<1>3. ASSUME Fetch(r)
      PROVE  e \in batch'[r]
  <2>1. PICK B \in SUBSET Visible(r) : First(B, Visible(r)) /\ batch' = [batch EXCEPT ![r] = B]
    BY <1>3 DEF Fetch
  <2>2. batch'[r] = B /\ row' = row
    BY <1>1, <1>3, <2>1 DEF Fetch, TypeOK
  <2>3. LockedByOthers(r) = {}
    BY <1>1 DEF LockedByOthers
  <2>4. e \in Visible(r)
    BY <2>2, <2>3 DEF Visible
  <2>5. d \in B /\ d \in Events
    BY <2>1, <2>2 DEF Visible
  <2>6. e \notin B => d < e
    BY <2>1, <2>4, <2>5 DEF First
  <2>7. ~(d < e)
    BY <2>5
  <2>8. QED
    BY <2>2, <2>6, <2>7
<1>4. ASSUME NEW c \in Events, Insert(c)
      PROVE  e \in batch'[r]
  <2>1. /\ batch' = batch /\ row[c] = Absent
        /\ \A b \in Events \ {c} : row'[b] = row[b]
    BY <1>1, <1>4 DEF Insert, TypeOK, relayState
  <2>2. d \in Events /\ row[d].status = "PENDING"
    BY <1>1, <2>1 DEF IInv, TypeOK, BatchesAreExclusive
  <2>3. row[d] # Absent
    BY <2>2 DEF Absent
  <2>4. row[e] # Absent
    BY <2>2, <2>3 DEF OrderInv, RowsComeInOrder
  <2>5. row'[e] = row[e]
    BY <2>1, <2>4
  <2>6. QED
    BY <1>2, <2>1, <2>5
<1>5. ASSUME NEW q \in Relays, Commit(q) \/ Crash(q)
      PROVE  e \in batch'[r]
  <2>1. Release(q) /\ q = r
    BY <1>1, <1>5 DEF Commit, Crash
  <2>2. batch'[r] = {}
    BY <2>1, ReleasedRows
  <2>3. QED
    BY <2>2
<1>6. \/ \E q \in Relays : Commit(q) \/ Crash(q) \/ Fetch(q)
      \/ \E c \in Events : Insert(c)
      \/ batch' = batch /\ row' = row
  BY DEF Next, Relay, Library, EmptyFetch, ProduceOk, ProduceFail, Flush, Restart, Outage,
         Recover, Deliver, Resend, Requeue, Expire, vars, relayState
<1>7. QED
  BY <1>1, <1>2, <1>3, <1>4, <1>5, <1>6

(* When a row is produced, the earlier ones of its stream were: those of    *)
(* the batch in this transaction, the others are decided.                   *)
LEMMA EarlierWereProduced ==
    ASSUME IInv, OrderInv, OneRelay, NEW r \in Relays, NEW d \in Events, Current(r, d),
           NEW e \in Events, e < d, StreamOf[e] = StreamOf[d], ~Excused(e)
    PROVE  InLog(e) \/ InQueue(r, e)
<1>1. TypeOK /\ \A q \in Relays : q = r
  BY DEF IInv, OneRelay
<1>2. d \in batch[r] /\ d \notin ok[r] /\ d \notin bad[r]
  BY DEF Current, Todo
<1>3. row[d].status = "PENDING"
  BY <1>2 DEF IInv, BatchesAreExclusive
<1>4. row[d] # Absent
  BY <1>3 DEF Absent
<1>5. row[e] # Absent
  BY <1>4 DEF OrderInv, RowsComeInOrder
<1>6. row[e].attempts = 0 /\ e \notin bad[r]
  <2>1. row[e].attempts \in Nat
    BY <1>1 DEF TypeOK, RowType
  <2>2. QED
    BY <2>1 DEF OrderInv, FailuresAreDelayed, Excused
<1>7. row[e].status # "FAILED"
  BY <1>6 DEF IInv, FailedAfterAllAttempts
<1>8. row[e].status # "absent"
  <2>1. row[e] \in RowType
    BY <1>1 DEF TypeOK
  <2>2. row[e].status = "absent" => row[e] = Absent
    BY <1>6, <2>1 DEF RowType, Absent
  <2>3. QED
    BY <1>5, <2>2
<1>9. row[e].status = "PENDING" \/ row[e].status = "PUBLISHED"
  BY <1>1, <1>7, <1>8 DEF TypeOK, RowType
<1>10. row[e].status = "PENDING" => e \in ok[r]
  <2>1. row[e].status = "PENDING" => e \in batch[r]
    BY <1>2 DEF OrderInv, BatchesAreFirst
  <2>2. e \notin Todo(r)
    BY DEF Current
  <2>3. QED
    BY <1>6, <2>1, <2>2 DEF Todo
<1>11. Present(e) \/ e \in lost
  BY <1>9, <1>10 DEF IInv, HandedOver
<1>12. QED
  BY <1>1, <1>11 DEF Present, Excused

(* The head of a queue moves: what must lead it leads it where it goes.     *)
LEMMA LeadMoves ==
    ASSUME IInv, OrderInv, OneRelay, NEW r \in Relays, NEW s \in Streams,
           Deliver(r, s) \/ Resend(r, s) \/ Requeue(r, s) \/ Expire(r, s),
           NEW e \in Events, ~Excused(e)'
    PROVE  /\ Leads(log[StreamOf[e]], e)'
           /\ \A q \in Relays : InLog(e)' \/ Leads(queue[q][StreamOf[e]], e)'
<1> DEFINE head == Head(queue[r][s])
           rest == Tail(queue[r][s])
<1>1. /\ queue[r][s] \in Seq(Events) /\ queue[r][s] # <<>> /\ log[s] \in Seq(Events)
      /\ \/ log'[s] = Append(log[s], head) /\ queue'[r][s] = rest
         \/ log'[s] = Append(log[s], head) /\ queue'[r][s] = queue[r][s]
         \/ log'[s] = log[s] /\ queue'[r][s] = Append(rest, head) /\ head \in delayed'
         \/ log'[s] = log[s] /\ queue'[r][s] = rest /\ head \in lost'
      /\ \A t \in Streams \ {s} : log'[t] = log[t]
      /\ \A q \in Relays, t \in Streams : q # r \/ t # s => queue'[q][t] = queue[q][t]
      /\ lost \subseteq lost' /\ delayed \subseteq delayed'
  BY LibraryEffect
<1>2. /\ head \in Events /\ rest \in Seq(Events)
      /\ Elements(queue[r][s]) = Elements(rest) \cup {head}
  BY <1>1, TailElements
<1>3. ~Excused(e)
  BY <1>1 DEF Excused
<1>4. /\ Leads(log[StreamOf[e]], e) /\ StreamOf[e] \in Streams
      /\ \A q \in Relays : InLog(e) \/ Leads(queue[q][StreamOf[e]], e)
      /\ \A q \in Relays : q = r
  BY <1>3 DEF OrderInv, EarlierRowsLead, OneRelay
<1>5. CASE StreamOf[e] # s
  <2>1. log'[StreamOf[e]] = log[StreamOf[e]]
    BY <1>1, <1>4, <1>5
  <2>2. \A q \in Relays : queue'[q][StreamOf[e]] = queue[q][StreamOf[e]]
    BY <1>1, <1>4, <1>5
  <2>3. InLog(e)' <=> InLog(e)
    BY <2>1 DEF InLog
  <2>4. QED
    BY <1>4, <2>1, <2>2, <2>3
<1>6. CASE StreamOf[e] = s
  <2>1. InLog(e) => InLog(e)' /\ e \in Elements(log[s])
    <3>1. Elements(Append(log[s], head)) = Elements(log[s]) \cup {head}
      BY <1>1, <1>2, AppendElements
    <3>2. Elements(log[s]) \subseteq Elements(log'[s])
      BY <1>1, <3>1
    <3>3. QED
      BY <1>6, <3>2 DEF InLog
  <2>2. CASE InLog(e)
    <3>1. Leads(Append(log[s], head), e)
      BY <1>1, <1>2, <1>4, <1>6, <2>1, <2>2, AppendLeads
    <3>2. QED
      BY <1>1, <1>4, <1>6, <2>1, <2>2, <3>1
  <2>3. CASE ~InLog(e)
    <3>1. Leads(queue[r][s], e)
      BY <1>4, <1>6, <2>3
    <3>2. ~(e < head) /\ (e # head => Leads(rest, e))
      BY <1>1, <3>1, TailLeads
    <3> HIDE DEF head, rest
    <3>3. Leads(Append(log[s], head), e)
      BY <1>1, <1>2, <1>4, <1>6, <3>2, AppendLeads
    <3>4. Leads(log'[s], e)
      BY <1>1, <1>4, <1>6, <3>3
    <3>5. e # head => Leads(Append(rest, head), e)
      BY <1>2, <3>2, AppendLeads
    <3>6. log'[s] = Append(log[s], head) /\ e = head => InLog(e)'
      <4>1. Elements(Append(log[s], head)) = Elements(log[s]) \cup {head}
        BY <1>1, <1>2, AppendElements
      <4>2. QED
        BY <1>6, <4>1 DEF InLog
    <3>7. head \in delayed' \cup lost' => e # head
      BY DEF Excused
    <3>8. InLog(e)' \/ Leads(queue'[r][s], e)
      BY <1>1, <3>1, <3>2, <3>5, <3>6, <3>7 DEF head, rest
    <3>9. QED
      BY <1>4, <1>6, <3>4, <3>8
  <2>4. QED
    BY <2>2, <2>3
<1>7. QED
  BY <1>5, <1>6

(* Every step keeps the earlier rows ahead.                                 *)
LEMMA EarlierRowsLeadStep ==
    ASSUME IInv, TypeOK', OrderInv, [Next]_vars
    PROVE  EarlierRowsLead'
<1> SUFFICES ASSUME OneRelay, NEW e \in Events, ~Excused(e)'
             PROVE  /\ Leads(log[StreamOf[e]], e)'
                    /\ \A q \in Relays : InLog(e)' \/ Leads(queue[q][StreamOf[e]], e)'
  BY DEF EarlierRowsLead, OneRelay
<1>1. TypeOK /\ StreamOf[e] \in Streams
  BY DEF IInv
<1>2. ASSUME ~Excused(e)
      PROVE  /\ Leads(log[StreamOf[e]], e)
             /\ \A q \in Relays : InLog(e) \/ Leads(queue[q][StreamOf[e]], e)
  BY <1>2 DEF OrderInv, EarlierRowsLead
<1>3. ASSUME NEW r \in Relays, ProduceOk(r)
      PROVE  /\ Leads(log[StreamOf[e]], e)'
             /\ \A q \in Relays : InLog(e)' \/ Leads(queue[q][StreamOf[e]], e)'
  <2>1. PICK d \in Events :
            /\ Current(r, d)
            /\ queue'[r][StreamOf[d]] = Append(queue[r][StreamOf[d]], d)
            /\ \A q \in Relays, t \in Streams :
                  q # r \/ t # StreamOf[d] => queue'[q][t] = queue[q][t]
            /\ UNCHANGED <<log, lost, delayed>>
    BY <1>3, ProduceEffect
  <2>2. /\ Leads(log[StreamOf[e]], e) /\ ~Excused(e) /\ (InLog(e)' <=> InLog(e))
        /\ \A q \in Relays : InLog(e) \/ Leads(queue[q][StreamOf[e]], e)
    BY <1>2, <2>1 DEF Excused, InLog
  <2>3. CASE StreamOf[e] # StreamOf[d] \/ InLog(e)
    BY <1>1, <2>1, <2>2, <2>3
  <2>4. CASE StreamOf[e] = StreamOf[d] /\ ~InLog(e)
    <3>1. queue[r][StreamOf[d]] \in Seq(Events) /\ Leads(queue[r][StreamOf[d]], e)
      BY <1>1, <2>2, <2>4 DEF TypeOK
    <3>2. e < d => e \in Elements(queue[r][StreamOf[d]])
      BY <2>1, <2>2, <2>4, EarlierWereProduced DEF InQueue
    <3>3. Leads(Append(queue[r][StreamOf[d]], d), e)
      BY <3>1, <3>2, AppendLeads
    <3>4. \A q \in Relays : queue'[q][StreamOf[e]] = Append(queue[r][StreamOf[d]], d)
      BY <2>1, <2>4 DEF OneRelay
    <3>5. QED
      BY <2>1, <2>2, <3>3, <3>4
  <2>5. QED
    BY <2>3, <2>4
<1>4. ASSUME NEW r \in Relays, NEW s \in Streams,
             Deliver(r, s) \/ Resend(r, s) \/ Requeue(r, s) \/ Expire(r, s)
      PROVE  /\ Leads(log[StreamOf[e]], e)'
             /\ \A q \in Relays : InLog(e)' \/ Leads(queue[q][StreamOf[e]], e)'
  BY <1>4, LeadMoves
<1>5. ASSUME NEW r \in Relays, Crash(r)
      PROVE  /\ Leads(log[StreamOf[e]], e)'
             /\ \A q \in Relays : InLog(e)' \/ Leads(queue[q][StreamOf[e]], e)'
  <2>1. /\ \A t \in Streams : queue'[r][t] = <<>>
        /\ log' = log /\ delayed' = delayed /\ (e \in lost => e \in lost')
    BY <1>5, CrashEffect
  <2>2. \A q \in Relays : queue'[q][StreamOf[e]] = <<>>
    BY <1>1, <2>1 DEF OneRelay
  <2>3. ~Excused(e)
    BY <2>1 DEF Excused
  <2>4. QED
    BY <1>2, <2>1, <2>2, <2>3 DEF Leads
<1>6. CASE queue' = queue /\ log' = log /\ lost' = lost /\ delayed \subseteq delayed'
  <2>1. ~Excused(e) /\ (InLog(e)' <=> InLog(e))
    BY <1>6 DEF Excused, InLog
  <2>2. QED
    BY <1>2, <1>6, <2>1
<1>7. \/ \E r \in Relays : ProduceOk(r) \/ Crash(r)
      \/ \E r \in Relays, s \in Streams :
            Deliver(r, s) \/ Resend(r, s) \/ Requeue(r, s) \/ Expire(r, s)
      \/ queue' = queue /\ log' = log /\ lost' = lost /\ delayed \subseteq delayed'
  BY DEF Next, Relay, Library, Insert, Fetch, EmptyFetch, ProduceFail, Flush, Commit, Restart,
         Outage, Recover, vars, relayState, kafkaState
<1>8. QED
  BY <1>3, <1>4, <1>5, <1>6, <1>7

(* With one relay, no event of a stream overtakes an earlier one, unless    *)
(* produce() raised for that one, the library put it back or lost a copy:   *)
(* outages, repeated sends, crashes and full batches reorder nothing.       *)
THEOREM OneRelayKeepsOrder == Spec => [](OneRelay => StreamsKeepOrder)
<1>1. Init => OrderInv
  <2> SUFFICES ASSUME Init
               PROVE  OrderInv
    OBVIOUS
  <2>1. RowsComeInOrder /\ FailuresAreDelayed /\ BatchesAreFirst
    BY DEF Init, RowsComeInOrder, FailuresAreDelayed, BatchesAreFirst, Absent
  <2>2. MessagesAreInTheirStream
    BY EmptyElements DEF Init, MessagesAreInTheirStream
  <2>3. EarlierRowsLead
    BY DEF Init, EarlierRowsLead, Leads
  <2>4. QED
    BY <2>1, <2>2, <2>3 DEF OrderInv
<1>2. IInv /\ IInv' /\ OrderInv /\ [Next]_vars => OrderInv'
  BY RowsComeInOrderStep, FailuresAreDelayedStep, StreamStep, BatchesAreFirstStep,
     EarlierRowsLeadStep DEF IInv, OrderInv
<1>3. IInv /\ OrderInv => (OneRelay => StreamsKeepOrder)
  <2> SUFFICES ASSUME IInv, OrderInv, OneRelay, NEW s \in Streams,
                      NEW i \in DOMAIN log[s], NEW k \in DOMAIN log[s],
                      log[s][k] < log[s][i], ~Excused(log[s][k])
               PROVE  \E h \in 1..(i - 1) : log[s][h] = log[s][k]
    BY DEF StreamsKeepOrder, Excused
  <2>1. log[s][k] \in Events /\ log[s][k] \in Elements(log[s])
    BY DEF IInv, TypeOK, Elements
  <2>2. StreamOf[log[s][k]] = s
    BY <2>1 DEF OrderInv, MessagesAreInTheirStream
  <2>3. Leads(log[s], log[s][k])
    BY <2>1, <2>2 DEF OrderInv, EarlierRowsLead
  <2>4. QED
    BY <2>3 DEF Leads
<1>4. QED
  BY <1>1, <1>2, <1>3, Inductive, PTL DEF Spec
=============================================================================
