# Formal models of RiskCore

TLA+ models of the protocols of RiskCore, model-checked with TLC, with
theorems about them checked by TLAPS. RiskCore is a set of four Django services
(policy, claims, audit, notification) that talk over HTTP and Kafka. What is
hard in it is not any one handler but what happens when handlers overlap, when
a process dies between two effects, and when a message is late, lost or
repeated. The models are about that.

Paths below are relative to the repository; `services.py:68` in a section on a
service means the file of that section's component.

## 1. Inventory

| Component | State it keeps | Operations | What makes it correct |
|---|---|---|---|
| Policies API (`policy-service/apps/policies`) | table of policies, outbox rows | create, PATCH, cancel, verify | a policy is cancelled once and for good; overlapping writes do not undo each other; events describe the row |
| Claims API (`claims-service/apps/claims`) | claims, status history, outbox rows | file, transition | history, events and status agree; the table of transitions is respected; numbers are unique |
| Policy client (`claims/clients.py`) | the circuit breaker of each process | verify over HTTP | no claim on a policy known to be cancelled; outages, and nothing else, open the breaker |
| Outbox relay (`*/apps/outbox`, the same code twice) | outbox rows, a queue in the memory of each relay | fetch a batch, produce, flush, commit | each committed event is decided once, handed to Kafka, and not duplicated or reordered without a cause |
| Audit consumer (`audit-service/apps/audit`) | audit events, Kafka offsets | poll, insert, broadcast, commit | no event is passed over in silence; what is saved is shown, and not twice |
| Live feed (`apps/audit/ws_consumers.py`, `frontend/lib/ws`) | sockets and their group in Redis, the client of a tab, 500 latest events | mount, token, open, close, destroy, reconnect, broadcast | one socket per tab, events in order and once, nothing missed while "Live", reconnection |
| Notification consumer and Celery task (`notification-service`) | notifications, their log, Kafka offsets, tasks in Redis | insert, delay, send, retry | one row per event, one mail per row, no record of what was not done |
| Claim page and its form (`frontend/app/(dashboard)/claims/[id]`) | the page a tab shows, the state of the form, requests without an answer | visit, render, refresh, select, type, confirm, answer, leave | one request of a form at a time; messages and pages that agree with the tables; a form that is out of date moves nothing |
| Session of a browser (`frontend/lib/api/client.ts`, `lib/hooks/useAuth.ts`, `lib/stores/auth.ts`, the routes of `app/api/auth`) | cookies shared by all windows, a name in the store of each | login, logout, fetch, 401, expiry, reload | a request of a session does not end it; the name shown is that of the session |
| Lists (claims, policies, audit log; `apps/core/pagination.py`, the pages of the frontend) | the page or cursor of a window | open, next, previous, older | following the links shows every row the list had |
| Overview (`get_metrics` of three services, `frontend/app/(dashboard)/page.tsx`) | - | some numbers of a table in one answer, one statement each | numbers shown side by side are of different rows, or a part and its whole, as their names say |
| Counters, health, gateway, admin, infrastructure | - | - | no protocol of their own (see section 8) |

How they interact:

    client --PATCH/cancel--> policy-service --row + outbox row, one transaction--> relay --> Kafka
    client --POST claim----> claims-service --HTTP verify--> policy-service
    client --transition----> claims-service --row + history + outbox--> relay --> Kafka
    page   --GET, form----> claims-service (the same threads as any other client)
    window --fetch with the cookie--> gateway; 401 --> logout, which clears the cookies of all windows
    Kafka --> audit consumer --> table, then WebSocket group --> browser
    Kafka --> notification consumer --> row + Celery task (Redis) --> worker --> mail server

Hard behaviours:

* requests of several threads and processes on one row: the status is read
  before the transaction and used after the lock (transition, PATCH);
* a lock that is waited for with a snapshot that is old when it is granted
  (claim numbers);
* effects that are not in the transaction that announces them: `produce` before
  commit, `delay()` before commit, broadcast after insert, offset after insert;
* the memory of a process that holds what the database says is done (the
  librdkafka queue, the position of a consumer);
* what a browser holds while the tables move on: a form that is not reset by
  its refresh, a page of two statements, an answer of four, a list whose pages
  shift, a cookie that another window replaced before the 401 of the last session arrives;
* retries: librdkafka's, Kafka's redelivery, Celery's, each with its own idea of
  what was done.

`PROJECT.json` lists these hazards one by one at their lines, with the
properties that catch them.

## 2. Modules

| Module | Models | Extends or instances |
|---|---|---|
| `ClaimStatusMachine` | abstract specification: what a claim's status may do | |
| `ClaimTransition` | POST transition, several threads | instances `ClaimStatusMachine` as its refinement |
| `ClaimPage` | the page of a claim and its form, tabs beside other clients | extends `ClaimTransition`: its `PageNext` moves the same threads |
| `Session` | cookies, windows and fetches of one browser | |
| `Listings` | lists by page number and by cursor | |
| `Overview` | the numbers of the overview page, over the table of any of three services | |
| `PolicyService` | create, PATCH, cancel, several threads | |
| `ClaimFiling` | POST claim: breaker, verify, claim number, insert | extends `PolicyService`; its `Next` interleaves both services |
| `OutboxRelay` | outbox table, relays, librdkafka, broker | |
| `AuditConsumer` | audit consumer, offsets, broadcast | |
| `NotificationDelivery` | notification consumer, Redis, Celery workers, mail server | |
| `LiveFeed` | WebSocket group, the client of one tab, its store of events | |
| `*_proofs` | theorems | extend the module they are about, and TLAPS |
| `MC*` | instances for TLC | extend the module they instantiate; `MCConsole` extends `ClaimPage`, `Session`, `Listings` and `Overview` |

The record of a table (`ClaimRow`, `PolicyRow`, `RowType`, `Row`, `HistoryRow`)
keeps of its columns those that a property tells apart; `PROJECT.json` maps it
to the model or to the migration that creates the table, with its unique columns
and its defaults.
Definitions named in the text of a module as "Mutated form" are plausible bugs
(a dropped guard, a swapped order). They are used by nothing; `PROJECT.json`
says which definition each one replaces and which property then fails.

### ClaimTransition

`claim`, `history`, `changed` and `resolved` are the tables (the last two, the
outbox rows of the two topics). `pc` and `job` are a thread's place in the
handler and its locals. `Load` is the view's `get_object`; `Refuse` the answers
400 of the serializer and of the table of transitions; `Lock` is
`select_for_update().get` (line 88), which waits while another transaction has
the row; `Commit` the assignments, the history row and the events, visible
together; `Abandon` a rollback. The writes of a transaction are not visible
before its commit (PostgreSQL, READ COMMITTED), so they are one step; the steps
that matter are the unlocked read and what comes between it and the lock.

`current_status` is never compared with the locked row. So `StatusFollowsTable`,
what the documentation says, is violated (run `claim_doc`), and
`ForwardUnlessOvertaken` says exactly how much is left of it: every step is a
step of `ClaimStatusMachine` (the refinement mapping takes the committed status
of each claim), or it is the commit of a request that another one overtook
between its load and its lock.

`ClaimFollowsHistory` (the last row is the status, every row an edge of the
table, the amount that of the latest approval) and `OutboxFollowsHistory` (one
`claim.status_changed` per row in their order, one `claim.resolved` per
resolution) say that the tables and the topics agree however requests overlap.

### ClaimPage

A tab has a `page` (what it shows), a `render` (a page on its way: the row of
the claim is read first, its prefetched history in a second statement), a `form`
(the `useState`s of `TransitionClaimButton`) and, through `post`, the request of
a thread that belongs to it. `Confirm` is `handleTransition` up to the `await`
and the `Load` of the handler; `Serve` is the handler, action for action that of
`ClaimTransition`; `Succeed` and `Fail` are what follows the `await`, the
`finally` included. `Fail` may come at any time (the answer is lost, the thread
goes on). `FormOn` is React's rule: the form keeps its state when the page is
rendered again and loses it when the page offers nothing or is left; what a
request of a lost form answers changes no state (`Orphaned`).

`post` also keeps, for the properties only, whether the page offered the status
that was asked for and which row of the history the request wrote.

What one sees in the model and no property calls wrong:

* the API resolves a REJECTED claim, the page offers nothing for one;
* the page takes every error of its request for "not found";
* after a success the form shows the first status of the new page as chosen but
  holds the old one, until the user selects another or reloads. Confirming it
  is answered 400 (`StaleFormMovesNothing` says that no claim moves by it).

### Session

`jar` is the cookies, `fetch` what a browser has on the way, with the token it
carried. `Unauthorized` is the 401 of `apiFetch` or `serverFetch`, which asks for
the logout route as a step of its own; `SessionEnds` is the answer of that route,
which clears whatever cookies there are. `LoadPage` resets the store of a window,
`FollowLink` keeps it. `TokenExpires` may happen at any time after the login.

`LogoutsAfter401AreLate` and `WrongNameIsFromBefore` say how far the session of
one window can be disturbed by another: a late 401 of the session before ends
the new one, and a window keeps the name of the user before when the login was
made in another window. Both do happen in the model; that nothing more does is
what the properties say. The redirect of the logout route has a fixed address
(`http://localhost:3001`); where a window lands is not a property.

### Listings

`rows` are numbered by their timestamps, which they get before their commit
(`Save`, `CommitRow`), so that a row may become visible behind the reader.
`Count` and `ShowPage` are the two statements of a page by number, `ShowEvents`
the one of a page by cursor. The links repeat the page or the cursor and not the
filter (`FilterOfLink`): a filtered list goes on unfiltered. Were the filter kept,
rows that leave it would pull others over the edge of a page unseen, which is the
mutated form; so the property holds because of what looks like an omission.

### Overview

`get_metrics` computes each number by a statement of its own, outside any
transaction. A `Statement` appends to `counted` the rows it finds, in the order
in which the code evaluates them (in claims-service the claims by status come
before the open ones, in policy-service the sums before the policies they are
of), and `InsertRow` and `MoveRow` go on between two statements. The steps of a
row are those the other modules have: `Forward` the usual ones, `Backward` the
commit of an overtaken transition and the failure of a mail that was sent
before. The three tables meet nowhere, so one table stands for any of them.
`fresh` and `astray` are history variables, for the exceptions that do happen: a
policy created between two statements is among the active ones and not in their
premium, a row that goes back is counted twice. That nothing else is off is due
to the order of the statements: were `pending` counted before `sent_today`, a
mail sent in between would be in both (mutant `PendingFirst`). In the order of
the code such a mail is in neither, which no property calls wrong. A number
computed of the wrong rows is found too (mutant `RateOfSent`). A PATCH of
a premium or a type between two statements is left out: a number is a set of
rows here, not a sum.

### MCConsole

The page, the session, the lists and the overview share no variable. `part`
chooses which of them moves while the others stay in their initial states (the
overview, which may begin with any table, begins without rows while the others
move), and one reader is active at a time in the lists (readers change nothing
that others read). The states are the sum of the four and not their product.

### PolicyService and ClaimFiling

`policy` and `events` are the tables of policy-service, `request` the locals of
its threads. `cancel` repeats its check under the lock, PATCH does not lock, and
`Saved`/`EventOf` keep the two apart: what is saved are the fields of the body
over the current row, what is announced is the object loaded earlier. Two dates
stand for all the fields of a PATCH.

In `ClaimFiling` a thread calls verify through the breaker of its process.
Every outcome is an action: `AnswerValid`, `AnswerInvalid`, `AnswerUnknown` (a
404), `AnswerRefused` (any other 4xx, which the breaker takes for an answer too)
and `CallFails` (5xx, no answer, or a body that is not JSON). An open breaker
answers 503 at once and changes nothing, so it is the guard of `Call`.
`ReadLast` takes the snapshot of the SELECT in `generate_claim_number`, `LockLast` is the moment FOR
UPDATE gets its lock; a claim committed in between is not in the snapshot, and
the insert of the same number is refused by the unique index (`Collide`, a 500).
pybreaker is external: the counter, `fail_max` and half-open state are modelled
as the configuration in `clients.py` uses them, and calls of one process may
overlap, which allows more than a breaker that serialises them.

### OutboxRelay

`row` is the outbox table. A relay's transaction holds `batch` (FOR UPDATE SKIP
LOCKED), and keeps in `ok` and `bad` what it will write. `queue` is the memory
of librdkafka, `log` the broker. `ProduceOk` only enqueues. `Flush` waits until
the queue is empty or five seconds have passed (then it goes on with messages in
the queue: the code ignores the result). `Crash` loses the queue and rolls the
transaction back. The library may deliver, deliver twice, put back or drop a
message. `lost`, `again` and `delayed` are history variables: they record the
faults the properties make exceptions for. policy-service and claims-service
carry this relay line for line; one instance stands for either.

### AuditConsumer

Offsets are counts. `position` is in memory, `committed` in the broker,
`inflight` an asynchronous commit under way. The insert is a statement of its
own and is durable before the broadcast. An exception commits nothing and does
not seek: the next poll returns the next message. `LoseConnection` breaks
Django's connection, which nothing reopens in a management command, until the
process restarts. The redelivery of a message that was saved and not broadcast
is a duplicate and is not broadcast either, so watchers never see that event.
The history variable `unaired` records where this happens (`Interrupted`:
Redis fails or the process ends between the two), and `FeedFollowsTable` says
that it happens nowhere else: with or without redelivery, every other event in
the table was shown, exactly once, or is about to be.

### NotificationDelivery

The consumer's transaction is `Insert`, `Delay`, `CommitRow`; the task is in
Redis after `Delay`. A worker may `FindNoRow`. `SendMail` and `SendTimesOut`
differ in whether the worker learns that the mail was taken; `Acknowledge` comes
last (`task_acks_late`), `WorkerDies` before it brings the task back unless only
the child process died. `dropped` and `redone` are history variables.

### LiveFeed

One browser tab. `phase` is the place of an `EventStreamClient` in its code:
awaiting the token (`fetching`, `holding`; `destroy()` may run in both and the
flag is tested after the await), with a socket (`connecting`, `open`), with the
timer of the next attempt (`waiting`), destroyed (`gone`). `active` is
`clientRef` of `useEventStream`; a destroyed client may still be in its fetch
while the next one is mounted, which is what `OpenSocket` has to survive.
`group` is the channel group, `channel` the messages on their way to one socket,
`feed` the store with `MAX_EVENTS`. `JoinGroup` comes before `Accept`, as in
`connect()`; the other order would lose what is broadcast in between.

A socket that closes leaves the group in the same step: what the group sends to
a closed socket reaches nobody. `CutLink` is a connection that is dead while the
browser believes it open; the client has no heartbeat (`docs/API_DESIGN.md:791`
and `frontend/README.md:39` mention one), so nothing bounds how long. The list
of Redis may be full at any broadcast, because all sockets of a server process
share it (`overrun`). What was broadcast while no socket was open is not fetched
afterwards, and no text promises it. The length of the back-off is time and left
out. `AuditConsumer` is the other end: its broadcasts are of saved events.

## 3. Runs

States are distinct states found; every run ends within three minutes on two
cores.

| Run | Instance | Shows |
|---|---|---|
| `console_pass` | page: 1 claim, 1 tab, 2 threads, 1 amount, at most 5 history rows; session: 2 windows, 2 fetches, 2 users, 2 logins; lists: one by number, one by cursor, 2 writers, 4 rows, pages of 2; overview: 3 rows: 2,550,603 states in all | consistency of tables and events under overlap; every step implements `ClaimStatusMachine`, except the commit of an overtaken request; forms, messages and pages agree with the tables; how far windows disturb each other; no row of a list is skipped; numbers of the overview agree |
| `claim_doc` | 1 claim, 2 threads, no page, at most 6 history rows | violation: a refused transition is committed |
| `filing_pass` | 1 policy, 2 writers, 2 dates, 4 bodies, 2 filing threads, at most 2 events and 2 claims, `fail_max` 2: 1,276,400 states | policies under overlapping writes, filing on what verify knew, numbers, breaker |
| `policy_doc` | 1 writer | violation: dates out of order after a PATCH of one |
| `outbox_safety` | 2 relays, 3 rows in 2 streams, batches of 2, 2 attempts, 3 faults of any kind: 739,891 states | attempts, nothing published without a trace, no copy without a cause (which two relays holding one row would make) |
| `outbox_live` | 1 relay, same table, 3 faults: 94,186 states | order in a stream, every row decided, every PUBLISHED row delivered or lost |
| `outbox_doc` | 1 relay, an outage and an expiry | violation: PUBLISHED and never delivered |
| `audit_pass` | 3 events, 2 partitions of 2 messages, 2 faults of any kind: 231,545 states | nothing passed in silence, the feed shows each event of the table, once, unless its broadcast was prevented; offsets, progress |
| `audit_doc` | 1 failed statement | violation: an event committed past and not audited |
| `notify_pass` | 1 event delivered twice, 2 workers, 1 retry, 2 faults of any kind: 38,661 states | one row per event, one mail per row, records of what was done, progress |
| `feed_pass` | 2 clients of one tab, a store of 2 events, 5 broadcasts: 44,328 states | order, no event twice, nothing missed while the socket is live, reconnection |
| `notify_doc` | no fault | violation: the task runs before its row exists |

The bounds, all of them constants of the modules, and why they are enough:

* Two threads, relays or workers: every race in this code is between two
  transactions on one row; a third would meet the same locks. The theorems of
  section 6 have no bound on them.
* `MaxRows` of 5 and 6: the longest legal history has 4 rows, so races add one
  or two more rows off the table.
* One tab: tabs meet in the tables only, and the other threads are every other
  client. Its form can have a request without an answer, lose it, and ask again.
* `MaxLogins = 2` with two windows and two fetches: a session, an answer that
  belongs to it, and the session after it, of the same or of another user.
* `MaxStamps = 4`, `PageSize = 2`: a full page, a second one, and rows that push
  and pull over the edge between them.
* `Items` of 3: one row stays, one comes and one changes between two statements.
  A number is a set of rows, and what the properties say of one does not depend
  on another. The number of answers is not bounded.
* `MaxEvents = 2`: an update or a cancellation is overtaken by one other write.
  (With 3 the same properties hold; the run takes five minutes.) `MaxClaims = 2`:
  the race on an empty table and the one on a last claim.
* `MaxAttempts = 2`, `FailMax = 2` and `MaxRetries = 1` instead of 10, 5 and 3:
  the boundary is met, and with it the step before and after.
* `MaxFaults` of 2 or 3: a second fault during the recovery from the first. The
  faults are counted together, so they combine freely.
* `MaxFeed = 2`, `MaxAired = 5`: the store overflows three times over, and each
  client can have a socket, lose it and open another with broadcasts before, in
  between and after. Two clients: the life of one overlaps that of the next.
* `MaxLength`: a message, its redelivery, and one behind it.

Symmetry over threads and relays is used in runs without liveness only.

## 4. Fairness

Safety runs assume none. The liveness runs (`outbox_live`, `audit_pass`,
`notify_pass`, `feed_pass`) and `outbox_doc` use `FairSpec`:

* the loops (`Relay(r)`, `Handle`, `Consume`, `Work(w)`) are weakly fair: they
  are `while True` loops of processes of their own;
* restarts are weakly fair: `restart: unless-stopped` for the relays and the
  audit consumer (`infra/docker-compose.yml:237-312`). The compose file starts
  neither the notification consumer nor Celery workers: for those two it is an
  assumption about their deployment;
* the end of an outage and the delivery of a queued message while the broker is
  up are weakly fair: librdkafka retries in the background;
* `Poll(p)` is strongly fair per partition: poll returns messages of all
  partitions in turn, and the consumer is in `poll` again and again, not always;
* `Take` is strongly fair per task: workers become free again and again;
* in `LiveFeed` a timer fires, a fetch ends and its continuation runs (weak
  fairness: the event loop of the browser). That an attempt gets its token, joins
  the group and is accepted is strongly fair: of infinitely many attempts the
  network and the server let one through. Sockets may still close at any time.

Nothing is assumed of faults: they happen at any time, at most `MaxFaults`
times. Where the code relies on luck (an expired message, a dropped task), the
liveness property has the history variable as an exception, and the `_doc` run
of the same module shows the exception is real.

## 5. Disagreements found

| Run | The code | The text |
|---|---|---|
| `claim_doc` | a transition loaded before another one committed is applied to the new status | `docs/TECHNICAL_DECISIONS.md:262`: invalid transitions are answered 400 |
| `policy_doc` | a PATCH of one date is not compared with the stored other date | `serializers.py:94`: "La fecha de fin debe ser posterior a la fecha de inicio." |
| `outbox_doc` | `flush(5)` returns with messages queued and the rows are marked PUBLISHED | `README.md:140`: "event stays PENDING, published on recovery" |
| `audit_doc` | after an exception the consumer polls on, and the next commit covers the failed message | `docs/TECHNICAL_DECISIONS.md:649`: retried by Kafka |
| `notify_doc` | `delay()` inside `transaction.atomic()` | `docs/PHASES.md:600`: row, then task |

## 6. Proofs

TLAPS checks these for every value of the constants (sets of any size).

`ClaimTransition_proofs`: `TypeCorrect`, `HistoryAgreesWithStatus`,
`OutboxAgreesWithHistory`, `RowsAreEdges`, `OneEventPerResolution`,
`AmountIsOfLatestApproval`, and from these `ClaimsFollowTheirHistory` and
`OutboxesFollowTheHistory`; `LockedRowsAreCurrent`, `StaleImpliesOvertaken`,
`OnlyRacesLeaveTheMachine` (the refinement, with its exception). They follow from one inductive
invariant `IInv`. The properties are not inductive alone: that a commit writes
an edge needs `LockedWasAcceptable` (who holds a lock passed the checks), and
that a locked row stays current needs `OneOwnerPerRow` (two locked requests are
never on one claim), which rests on the guard of `Lock`. A commit is treated by
`CommitKeepsTables`, everything else by `TablesUnchanged` and
`StepKeepsRequests`.

`ClaimPage_proofs`: `PageTypeCorrect`; `PageUsesTheThreads`, the refinement
`PageSpec => Spec`, which needs the type of the forms (what `Confirm` loads is a
request the handler can get) and carries every theorem above to the page;
`SavingIsOneRequest`, which is inductive with the types; `MessagesAreTrue`, by
`ServedAsAsked` (the thread of a tab's request works on what the tab asked for)
and `HistoryGrows` (rows are never changed or removed);
`PagesExplainThemselves`, by `Shown`: the status read for a page is in the
history from then on, so it is in the longer one that is read later;
`StaleFormsAreHarmless`. For this one every status has a `Stage`, and a claim
that never went astray has one history row per stage (`RowsClimb`). What a form
holds is on its page or of a stage the claim has passed (`StaleFormsAreLate`),
which a refresh keeps because a page is never replaced by one of an earlier
stage (`PagesComeInOrder`); and a commit without overlap climbs one stage, so it
cannot be of a stage that is passed (`StaleRequestsAreLate`).

`Console_proofs` is about `MCConsole` and three of its parts. Of `Session`:
`SessionTypeCorrect`, `OnlyLateLogoutsHit` (`CarriesItsTime`: a request carries
the token of the login that was the latest when it was sent, or none because the
cookie was gone by then), `WrongNamesAreOld` (a name is stored together with the
number of logins there were, so a difference means a later login elsewhere). Of
`Listings`: `ListTypeCorrect` and `ListsAreComplete`. A page is described by how
many rows come before each row of a list (`Before`), a cursor by the least row
of a page; that there is a least and a greatest row (`Least`, `Greatest`)
comes from the well-foundedness of strict inclusion on finite sets, and the rows
behind a page are counted by cardinalities (`RowsAfter`, `PageEnds`), so nothing
is proved by induction. The invariant `ListInv` has for each reader
`FollowsLinks` (a query is of a page the links lead to, and its link was decided
by what was counted), `GoesOn` (rows are never removed, so the page a link
promised stays ahead) and `Complete` (the promise). The invariant needs that a
link forgets the filter: under a filter that is kept, rows leave the list and
`GoesOn` fails. Of `Overview`: `OverviewTypeCorrect` and
`NumbersAreAsNamed`, by `OverviewInv`.
`NumbersArePast` holds what was counted against the table as it is now: a
counted row has stayed where its number says or gone farther on, so the next
statement finds it there and not in the number before; an active row that is
not new was active at every statement so far. Last, `ConsoleIsItsParts` (every step of the
console is a step of one part and stutters in the others) and
`ConsoleTypeCorrect`.

`AuditConsumer_proofs`: `TypeCorrect`, `NothingPassesInSilence`,
`FeedShowsWhatIsSaved`. `IInv` adds the account of what was read: up to the
position of a running process everything is saved or has failed, but for the
message in hand (`ReadIsHandled`), so a commit of the position passes nothing
(`CommitKeeps`), and a restart at the committed offset begins behind what is
handled (`RestartKeeps`). That no event is shown twice needs `InHand`: a message
that was just saved is not on the feed yet, which the unique index gives. That
none is left out turns on the two ways to leave `_handle` after the insert
(`InterruptionIsNoted`).

`OutboxRelay_proofs`: `TypeCorrect`, `RelaysDoNotCollide`,
`FailedMeansExhausted`, `OutboxIsTransactional`, `PublishedWasHandedOver`,
`DecisionsAreFinal`, `NothingIsDuplicated`, `OneRelayKeepsOrder`. `IInv` adds
`Bookkeeping` (what a relay set aside stays in
its batch) and `HandedOver`: the account of a PUBLISHED row has to begin when
its message enters the queue, before the row is committed. Generic lemmas say
what Append, Tail and putting back do to the elements of a queue. Copies need a
second invariant, `CopyInv`: one place in one queue or in the broker, and then
the row is PUBLISHED or set aside in `ok` by the relay that holds it. With the
exclusion of batches and "a held row is PENDING" it makes `ProduceOk` put a
message only where there is none; `NothingIsDuplicated` allows any number of
relays. Order needs a third, `OrderInv`, and is proved for one relay
(`OneRelay`; two relays take batches of one stream side by side and make no
promise): when a row is there, so are the earlier rows of its stream
(`RowsComeInOrder`); a batch holds those of them that are PENDING
(`BatchesAreFirst`, which is `order_by("created_at")`); and each earlier row
that is not excused is in the broker before the later one, or in the queue
before it (`EarlierRowsLead`).

`NotificationDelivery_proofs`: `TypeCorrect`, `MailNeedsItsRow`,
`RecordsTellTheTruth`, `OneMailEach`, `NothingPassesInSilence`. `ConsumerInv` is
the account of offsets, as in the audit consumer. `WorkerInv` follows an id: as
long as only the open transaction knows it nothing has its number
(`UntoldIdsAreUntouched`), which is why a transaction that is rolled back leaves
a task without a row and never a mail; afterwards its one task moves from Redis
to a worker and back with the next try (`OneTaskUnlessRedone`), and each place
on the way knows what is written and sent by then (`JobsAreInOrder`,
`QueuedTriesFollowFailures`). None of the properties is inductive without it: a
second mail is excluded by there being no second task, and the log has no holes
because a try is queued only behind the record of the failure before it.

`ClaimFiling_proofs` begins with `PolicyService` alone: `TypeCorrect`,
`CancellationIsUnique`, `PatchesAreKept`, `EventsAreTrue`. `IInv` adds
`RequestsAreSound` (a request that saw as many events as there are now holds the
row as it is now) and `NoPastWithoutPolicy`.
The first is the bridge between the history variable `seen` and the data: it
makes an update that was not overtaken announce what it saves. `CancelledOnce`
needs the second check of cancel and that an update never changes the status of
the row, only of its event.

With the claims: `PoliciesAreUnaffected`, by which the theorems on policies
hold while claims are filed, then `FilingTypeCorrect`,
`ClaimNumbersHaveNoHoles`, `VerifyIsHeeded`, `BreakerOpensOnFailures` from
`FilingIInv`. The numbers: a request computes one more than the last claim of
its snapshot, and the unique index refuses every number already there, so what
is inserted is the next one (`InsertStep`; neither lock nor snapshot is needed
for it, they only decide who loses). Verify: while a policy is ACTIVE none of its events is a
cancellation (`CancelledOnce`), and later ones are newer than what was seen
(`EventsGrow`). The breaker: the counter of a closed breaker is at most the
length of the streak (`CountersAreStreaks`).

`LiveFeed_proofs`: `TypeCorrect`, `FeedIsOrdered`, `OpenSocketsAreComplete`,
`OneSocketPerTab`. That the feed is in order needs that a channel is, that all
of it is newer than the feed, and `OneClient`: only the mounted client can have
a socket, which the test of `destroyed` after the await gives.

Assumptions used: the named ASSUMEs of the modules, which TLC evaluates in every
run. They are types of the constants, that `BatchSize`, `MaxAttempts`,
`PageSize` and the like are at least 1, and that the values that stand for
"none" (`NoRow`, `NoPolicy`, `NoClient` and so on) are no rows, policies or clients.

Every invariant and every action property of the passing runs is stated by a
theorem. Only model-checked: the five liveness properties (`EveryRowIsDecided`,
`PublishedArrivesOrIsLost`, `EveryEventIsAuditedOrFailed`,
`StoredIsSentOrGivenUp`, `ReopensWhileMounted`), which are out of the prover's
reach with fairness and ENABLED, and the counterexamples of section 5. Facts
about recursively defined operators are out of reach too; the models have none.

## 7. Plan

Done: the two APIs, the relay, both consumers, the live feed, the dashboard
(page, session, lists, overview); theorems on all of them, one for each invariant and
action property of a run.

1. A pipeline of `OutboxRelay` and the two consumers behind one log: an abstract
   specification "each committed event is audited once and notified at most
   once, or a fault is on record", implemented by the composition.
2. The proof that the pipeline implements it, from the invariants of the relay
   and of the consumers.
3. The year in claim numbers and the limit of six digits.

## 8. Not modelled

* The counters of Prometheus, health checks, request ids: no operation changes
  state that the program reads. Of the read APIs the lists and the numbers of the
  overview are modelled; single rows are one query each. In `Overview` all rows
  are of today: midnight between two statements and the days of
  `avg_resolution_days` are left out.
* The JWT itself (issued and judged by a library; a token here is good until it
  expires), the refresh token (stored and never used by the code), gateway
  (nginx configuration), infrastructure, load tests.
* Of the frontend: the page of a policy with its cancel form (a
  form of one request, like that of a claim), the notes of a transition, whether
  the form is folded, the links of the audit log to newer events. Timestamps in
  `Listings` are distinct; equal ones are ordered by the database as it likes.
* Admin sites and seed commands: edits of whole rows by hand, without events,
  outside what the API promises. Policies suspended or expired by an
  administrator are initial states of `PolicyService`.
* Customers, coverages and documents: written once and never read by an
  operation that decides something.
* The relay's KeyboardInterrupt path, messages without an `event_id`, the
  wording of mails and of errors.
* A message that is JSON and not an object, which `payload.get` would answer with
  an exception outside the `try` (`audit/kafka_consumer.py:73`): the
  topics have no producer but the relays, and those send objects. A frame that
  fails the schema of the browser (`lib/ws/client.ts:67`): what audit-service
  sends passes it.

Known and without a property:

* `claims/models.py:15`: numbers have six digits and the last one is the
  greatest as text; after 999999 claims in a year the next numbers collide.
* `claims/services.py:115`: `claim.status_changed` and `claim.resolved` of one
  transaction go to different topics, between which Kafka has no order; no
  consumer here compares them.
* `policies/admin.py:27`: the admin form saves a whole row without a lock and
  without an event.
* `lib/ws/client.ts:76`: what is broadcast while no socket is open is not
  fetched afterwards, and no text promises it.
