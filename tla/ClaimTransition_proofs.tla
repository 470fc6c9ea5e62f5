----------------------- MODULE ClaimTransition_proofs -----------------------
(***************************************************************************)
(* Theorems of ClaimTransition for any number of claims, threads and       *)
(* amounts, and any bound on the history.                                  *)
(***************************************************************************)
EXTENDS ClaimTransition, FiniteSetTheorems, TLAPS

(* The history of a claim just filed, one row, is a sequence of rows.       *)
LEMMA SingletonSeq ==
    ASSUME NEW S, NEW x \in S
    PROVE  <<x>> \in Seq(S)
OBVIOUS

(* The length, the first element and the domain of such a history.          *)
LEMMA SingletonParts ==
    ASSUME NEW x
    PROVE  Len(<<x>>) = 1 /\ <<x>>[1] = x /\ DOMAIN <<x>> = 1..1
OBVIOUS

(* The events of a claim just filed: none.                                  *)
LEMMA EmptyParts == Len(<<>>) = 0 /\ DOMAIN <<>> = {}
OBVIOUS

(* A transition that writes row j leaves the type of the tables.            *)
LEMMA WrittenType ==
    ASSUME NEW j \in Job
    PROVE  /\ Written(j) \in ClaimRow
           /\ HistoryOf(j) \in HistoryRow
           /\ ChangedOf(j) \in ChangedEvent
           /\ Written(j) \in ResolvedEvent
BY DEF Job, Written, HistoryOf, ChangedOf, ClaimRow, HistoryRow, ChangedEvent, ResolvedEvent

(* The tables and the threads have their types at the start.                *)
LEMMA TypeInit ==
    ASSUME Init
    PROVE  TypeOK
<1>1. [from |-> "", to |-> "FILED"] \in HistoryRow
  BY DEF HistoryRow, Status
<1>2. <<[from |-> "", to |-> "FILED"]>> \in Seq(HistoryRow)
  BY <1>1, SingletonSeq
<1>3. [status |-> "FILED", amount |-> NoAmount] \in ClaimRow
  BY DEF ClaimRow, Status
<1>4. <<>> \in Seq(ChangedEvent) /\ <<>> \in Seq(ResolvedEvent)
  OBVIOUS
<1>5. QED
  BY <1>2, <1>3, <1>4 DEF Init, TypeOK

(* Every step keeps the types, by cases on the action.                      *)
LEMMA TypeStep ==
    ASSUME TypeOK, [Next]_vars
    PROVE  TypeOK'
<1> USE DEF TypeOK
<1>1. ASSUME NEW w \in Workers, NEW c \in Claims, NEW to \in Status,
             NEW amount \in Amounts \cup {NoAmount}, Load(w, c, to, amount)
      PROVE  TypeOK'
  <2>1. Len(history[c]) \in Nat
    OBVIOUS
  <2>2. [claim |-> c, to |-> to, amount |-> amount, current |-> claim[c].status,
         row |-> claim[c], seen |-> Len(history[c])] \in Job
    BY <2>1 DEF Job, ClaimRow
  <2>3. QED
    BY <1>1, <2>2 DEF Load, tables
<1>2. ASSUME NEW w \in Workers, Refuse(w)
      PROVE  TypeOK'
  BY <1>2 DEF Refuse, Answer, tables
<1>3. ASSUME NEW w \in Workers, Lock(w)
      PROVE  TypeOK'
  <2>1. job[w] \in Job /\ claim[job[w].claim] \in ClaimRow
    BY <1>3 DEF Lock, Job
  <2>2. [job[w] EXCEPT !.row = claim[job[w].claim]] \in Job
    BY <2>1 DEF Job
  <2>3. QED
    BY <1>3, <2>1, <2>2 DEF Lock, tables
<1>4. ASSUME NEW w \in Workers, Commit(w)
      PROVE  TypeOK'
  <2>1. job[w] \in Job /\ job[w].claim \in Claims
    BY <1>4 DEF Commit, Job
  <2>2. /\ Written(job[w]) \in ClaimRow
        /\ HistoryOf(job[w]) \in HistoryRow
        /\ ChangedOf(job[w]) \in ChangedEvent
        /\ Written(job[w]) \in ResolvedEvent
    BY <2>1, WrittenType
  <2>3. claim' \in [Claims -> ClaimRow]
    BY <1>4, <2>2 DEF Commit
  <2>4. history' \in [Claims -> Seq(HistoryRow)]
    BY <1>4, <2>1, <2>2 DEF Commit
  <2>5. changed' \in [Claims -> Seq(ChangedEvent)]
    BY <1>4, <2>1, <2>2 DEF Commit
  <2>6. resolved' \in [Claims -> Seq(ResolvedEvent)]
    BY <1>4, <2>1, <2>2 DEF Commit
  <2>7. QED
    BY <1>4, <2>3, <2>4, <2>5, <2>6 DEF Commit, Answer
<1>5. ASSUME NEW w \in Workers, Abandon(w)
      PROVE  TypeOK'
  BY <1>5 DEF Abandon, Answer, tables
<1>6. CASE UNCHANGED vars
  BY <1>6 DEF vars
<1>7. QED
  BY <1>1, <1>2, <1>3, <1>4, <1>5, <1>6 DEF Next

(* The variables keep their types: no request, however it overlaps with     *)
(* others, leaves a malformed row, event or local state.                    *)
THEOREM TypeCorrect == Spec => []TypeOK
<1>1. Init => TypeOK
  BY TypeInit
<1>2. TypeOK /\ [Next]_vars => TypeOK'
  BY TypeStep
<1>3. QED
  BY <1>1, <1>2, PTL DEF Spec

----------------------------------------------------------------------------
(* What the properties rest on, in one inductive invariant: beside the      *)
(* properties themselves, a locked row has one owner, and a request that    *)
(* holds a lock passed the checks.                                          *)
OneOwnerPerRow ==
    \A v, w \in Workers :
        pc[v] = "locked" /\ pc[w] = "locked" /\ job[v].claim = job[w].claim => v = w

LockedWasAcceptable == \A w \in Workers : pc[w] = "locked" => Acceptable(job[w])

IInv ==
    /\ TypeOK
    /\ OneOwnerPerRow
    /\ LockedWasAcceptable
    /\ HistoryEndsInStatus
    /\ OutboxTellsHistory
    /\ LockedRowIsCurrent
    /\ EveryRowIsAnEdge
    /\ StaleOnlyIfOvertaken

(* What one commit does to the claim of its request and to the others.      *)
LEMMA CommitEffect ==
    ASSUME TypeOK, NEW w \in Workers, Commit(w)
    PROVE  /\ job[w] \in Job /\ job[w].claim \in Claims
           /\ claim'[job[w].claim] = Written(job[w])
           /\ history'[job[w].claim] = Append(history[job[w].claim], HistoryOf(job[w]))
           /\ changed'[job[w].claim] = Append(changed[job[w].claim], ChangedOf(job[w]))
           /\ \A c \in Claims \ {job[w].claim} :
                 claim'[c] = claim[c] /\ history'[c] = history[c] /\ changed'[c] = changed[c]
           /\ pc' = [pc EXCEPT ![w] = "idle"]
           /\ \A v \in Workers \ {w} : job'[v] = job[v]
BY DEF TypeOK, Commit, Answer, Job

(* Steps that touch no table keep what is said of the tables alone.         *)
LEMMA TablesUnchanged ==
    ASSUME IInv, UNCHANGED tables
    PROVE  HistoryEndsInStatus' /\ OutboxTellsHistory' /\ EveryRowIsAnEdge'
BY DEF IInv, tables, HistoryEndsInStatus, OutboxTellsHistory, EveryRowIsAnEdge

(* A commit keeps the tables in agreement with each other.                  *)
LEMMA CommitKeepsTables ==
    ASSUME IInv, NEW w \in Workers, Commit(w)
    PROVE  HistoryEndsInStatus' /\ OutboxTellsHistory' /\ EveryRowIsAnEdge'
<1> DEFINE d == job[w].claim
<1>1. /\ job[w] \in Job /\ d \in Claims
      /\ claim'[d] = Written(job[w])
      /\ history'[d] = Append(history[d], HistoryOf(job[w]))
      /\ changed'[d] = Append(changed[d], ChangedOf(job[w]))
      /\ \A c \in Claims \ {d} :
            claim'[c] = claim[c] /\ history'[c] = history[c] /\ changed'[c] = changed[c]
  BY CommitEffect DEF IInv
<1>2. /\ history[d] \in Seq(HistoryRow) /\ changed[d] \in Seq(ChangedEvent)
      /\ Len(history[d]) \in Nat /\ Len(changed[d]) \in Nat
  BY <1>1 DEF IInv, TypeOK
<1>3. /\ HistoryOf(job[w]) \in HistoryRow
      /\ ChangedOf(job[w]) \in ChangedEvent
  BY <1>1, WrittenType
<1>4. /\ Len(history'[d]) = Len(history[d]) + 1
      /\ history'[d][Len(history[d]) + 1] = HistoryOf(job[w])
      /\ \A i \in 1..Len(history[d]) : history'[d][i] = history[d][i]
  BY <1>1, <1>2, <1>3
<1>5. /\ Len(changed'[d]) = Len(changed[d]) + 1
      /\ changed'[d][Len(changed[d]) + 1] = ChangedOf(job[w])
      /\ \A i \in 1..Len(changed[d]) : changed'[d][i] = changed[d][i]
  BY <1>1, <1>2, <1>3
<1>6. HistoryEndsInStatus'
  <2>1. /\ Len(history'[d]) >= 1
        /\ history'[d][Len(history'[d])].to = claim'[d].status
    BY <1>1, <1>2, <1>4 DEF HistoryOf, Written
  <2>2. ASSUME NEW c \in Claims \ {d}
        PROVE  /\ Len(history'[c]) >= 1
               /\ history'[c][Len(history'[c])].to = claim'[c].status
    BY <1>1 DEF IInv, HistoryEndsInStatus
  <2>3. QED
    BY <2>1, <2>2 DEF HistoryEndsInStatus
<1>7. OutboxTellsHistory'
  <2> SUFFICES ASSUME NEW c \in Claims
               PROVE  /\ Len(history'[c]) = Len(changed'[c]) + 1
                      /\ \A i \in DOMAIN changed'[c] :
                            /\ changed'[c][i].from = history'[c][i + 1].from
                            /\ changed'[c][i].to = history'[c][i + 1].to
                            /\ changed'[c][i].status = changed'[c][i].to
    BY DEF OutboxTellsHistory
  <2>1. CASE c # d
    <3>1. c \in Claims \ {d}
      BY <2>1
    <3>2. history'[c] = history[c] /\ changed'[c] = changed[c]
      BY <1>1, <3>1
    <3>3. QED
      BY <3>2, Zenon DEF IInv, OutboxTellsHistory
  <2>2. CASE c = d
    <3>1. Len(history[d]) = Len(changed[d]) + 1
      BY <1>1 DEF IInv, OutboxTellsHistory
    <3>2. DOMAIN changed'[d] = 1..(Len(changed[d]) + 1)
      BY <1>1, <1>2, <1>3, <1>5
    <3>3. ASSUME NEW i \in 1..Len(changed[d])
          PROVE  /\ changed'[d][i].from = history'[d][i + 1].from
                 /\ changed'[d][i].to = history'[d][i + 1].to
                 /\ changed'[d][i].status = changed'[d][i].to
      <4>1. i \in DOMAIN changed[d] /\ i + 1 \in 1..Len(history[d])
        BY <1>2, <3>1
      <4>2. QED
        BY <1>1, <1>4, <1>5, <4>1 DEF IInv, OutboxTellsHistory
    <3>4. /\ ChangedOf(job[w]).from = HistoryOf(job[w]).from
          /\ ChangedOf(job[w]).to = HistoryOf(job[w]).to
          /\ ChangedOf(job[w]).status = ChangedOf(job[w]).to
      BY DEF ChangedOf, HistoryOf, Written
    <3>5. ASSUME NEW i \in DOMAIN changed'[d], i \notin 1..Len(changed[d])
          PROVE  i = Len(changed[d]) + 1
      BY <1>2, <3>2, <3>5
    <3>6. QED
      BY <1>2, <1>4, <1>5, <2>2, <3>1, <3>3, <3>4, <3>5
  <2>3. QED
    BY <2>1, <2>2
<1>8. EveryRowIsAnEdge'
  <2> SUFFICES ASSUME NEW c \in Claims, NEW i \in DOMAIN history'[c], i > 1
               PROVE  Legal(history'[c][i].from, history'[c][i].to)
    BY DEF EveryRowIsAnEdge
  <2>1. CASE c # d
    BY <1>1, <2>1 DEF IInv, EveryRowIsAnEdge
  <2>2. CASE c = d
    <3>1. DOMAIN history'[d] = 1..(Len(history[d]) + 1)
      BY <1>1, <1>2, <1>3, <1>4
    <3>2. CASE i \in 1..Len(history[d])
      <4>1. i \in DOMAIN history[d] /\ history'[d][i] = history[d][i]
        BY <1>2, <1>4, <3>2
      <4>2. Legal(history[d][i].from, history[d][i].to)
        BY <1>1, <4>1 DEF IInv, EveryRowIsAnEdge
      <4>3. QED
        BY <2>2, <4>1, <4>2
    <3>3. CASE i = Len(history[d]) + 1
      <4>1. Acceptable(job[w])
        BY DEF IInv, LockedWasAcceptable, Commit
      <4>2. QED
        BY <1>4, <2>2, <3>3, <4>1 DEF Acceptable, HistoryOf
    <3>4. QED
      BY <1>2, <2>2, <3>1, <3>2, <3>3
  <2>3. QED
    BY <2>1, <2>2
<1>9. QED
  BY <1>6, <1>7, <1>8

(* Every step keeps the part of the invariant that is about the requests.   *)
LEMMA StepKeepsRequests ==
    ASSUME IInv, TypeOK', [Next]_vars
    PROVE  OneOwnerPerRow' /\ LockedWasAcceptable' /\ LockedRowIsCurrent' /\ StaleOnlyIfOvertaken'
<1> USE DEF OneOwnerPerRow, LockedWasAcceptable, LockedRowIsCurrent, StaleOnlyIfOvertaken
<1>1. ASSUME NEW w \in Workers, NEW c \in Claims, NEW to \in Status,
             NEW amount \in Amounts \cup {NoAmount}, Load(w, c, to, amount)
      PROVE  OneOwnerPerRow' /\ LockedWasAcceptable' /\ LockedRowIsCurrent' /\ StaleOnlyIfOvertaken'
  <2>1. /\ pc'[w] = "loaded" /\ job'[w].claim = c
        /\ job'[w].current = claim[c].status /\ job'[w].seen = Len(history[c])
        /\ \A v \in Workers \ {w} : pc'[v] = pc[v] /\ job'[v] = job[v]
        /\ claim' = claim /\ history' = history
    BY <1>1 DEF Load, tables, IInv, TypeOK
  <2>2. Len(history[c]) \in Nat
    BY DEF IInv, TypeOK
  <2>3. QED
    BY <2>1, <2>2 DEF IInv
<1>2. ASSUME NEW w \in Workers, Answer(w), UNCHANGED tables
      PROVE  OneOwnerPerRow' /\ LockedWasAcceptable' /\ LockedRowIsCurrent' /\ StaleOnlyIfOvertaken'
  <2>1. /\ pc'[w] = "idle"
        /\ \A v \in Workers \ {w} : pc'[v] = pc[v] /\ job'[v] = job[v]
        /\ claim' = claim /\ history' = history
    BY <1>2 DEF Answer, tables, IInv, TypeOK
  <2>2. QED
    BY <2>1 DEF IInv
<1>3. ASSUME NEW w \in Workers, Lock(w)
      PROVE  OneOwnerPerRow' /\ LockedWasAcceptable' /\ LockedRowIsCurrent' /\ StaleOnlyIfOvertaken'
  <2>1. job[w] \in Job /\ job[w].claim \in Claims
    BY <1>3 DEF Lock, IInv, TypeOK, Job
  <2>2. /\ pc'[w] = "locked"
        /\ job'[w] = [job[w] EXCEPT !.row = claim[job[w].claim]]
        /\ \A v \in Workers \ {w} : pc'[v] = pc[v] /\ job'[v] = job[v]
        /\ claim' = claim /\ history' = history
    BY <1>3 DEF Lock, tables, IInv, TypeOK
  <2>3. /\ job'[w].row = claim[job[w].claim]
        /\ job'[w].claim = job[w].claim
        /\ job'[w].to = job[w].to /\ job'[w].amount = job[w].amount
        /\ job'[w].current = job[w].current
        /\ job'[w].seen = job[w].seen
    BY <2>1, <2>2 DEF Job
  <2>4. Acceptable(job'[w])
    BY <1>3, <2>3 DEF Lock, Acceptable
  <2>5. \A v \in Workers : pc[v] = "locked" => job[v].claim # job[w].claim
    BY <1>3 DEF Lock, RowFree
  <2>6. pc[w] = "loaded"
    BY <1>3 DEF Lock
  <2>7. OneOwnerPerRow'
    <3> SUFFICES ASSUME NEW u \in Workers, NEW v \in Workers,
                        pc'[u] = "locked", pc'[v] = "locked",
                        job'[u].claim = job'[v].claim
                 PROVE  u = v
      OBVIOUS
    <3>1. CASE u # w /\ v # w
      BY <2>2, <3>1 DEF IInv
    <3>2. CASE u = w /\ v # w
      BY <2>2, <2>3, <2>5, <3>2
    <3>3. CASE u # w /\ v = w
      BY <2>2, <2>3, <2>5, <3>3
    <3>4. QED
      BY <3>1, <3>2, <3>3
  <2>8. LockedWasAcceptable'
    BY <2>2, <2>4 DEF IInv
  <2>9. LockedRowIsCurrent'
    BY <2>2, <2>3 DEF IInv
  <2>10. StaleOnlyIfOvertaken'
    <3> SUFFICES ASSUME NEW v \in Workers, pc'[v] # "idle"
                 PROVE  /\ job'[v].seen <= Len(history'[job'[v].claim])
                        /\ job'[v].seen = Len(history'[job'[v].claim]) =>
                              job'[v].current = claim'[job'[v].claim].status
      OBVIOUS
    <3>1. /\ job'[v].claim = job[v].claim /\ job'[v].seen = job[v].seen
          /\ job'[v].current = job[v].current /\ pc[v] # "idle"
      BY <2>2, <2>3, <2>6
    <3>2. QED
      BY <2>2, <3>1 DEF IInv
  <2>11. QED
    BY <2>7, <2>8, <2>9, <2>10
<1>4. ASSUME NEW w \in Workers, Commit(w)
      PROVE  OneOwnerPerRow' /\ LockedWasAcceptable' /\ LockedRowIsCurrent' /\ StaleOnlyIfOvertaken'
  <2> DEFINE d == job[w].claim
  <2>1. /\ d \in Claims /\ job[w] \in Job
        /\ history'[d] = Append(history[d], HistoryOf(job[w]))
        /\ \A c \in Claims \ {d} : claim'[c] = claim[c] /\ history'[c] = history[c]
        /\ \A v \in Workers \ {w} : pc'[v] = pc[v] /\ job'[v] = job[v]
        /\ pc'[w] = "idle"
    BY <1>4, CommitEffect DEF IInv, TypeOK
  <2>2. HistoryOf(job[w]) \in HistoryRow
    BY <2>1, WrittenType
  <2>3. /\ history[d] \in Seq(HistoryRow) /\ Len(history[d]) \in Nat
        /\ Len(history'[d]) = Len(history[d]) + 1
    BY <2>1, <2>2 DEF IInv, TypeOK
  <2>4. \A v \in Workers \ {w} : pc[v] = "locked" => job[v].claim # d
    BY <1>4 DEF Commit, IInv
  <2>5. \A v \in Workers : pc[v] # "idle" =>
          job[v].claim \in Claims /\ job[v].seen \in Nat
    BY DEF IInv, TypeOK, Job
  <2>6. OneOwnerPerRow' /\ LockedWasAcceptable'
    BY <2>1 DEF IInv
  <2>7. LockedRowIsCurrent'
    BY <2>1, <2>4, <2>5 DEF IInv
  <2>8. ASSUME NEW v \in Workers, pc'[v] # "idle"
        PROVE  /\ job'[v].seen <= Len(history'[job'[v].claim])
               /\ job'[v].seen = Len(history'[job'[v].claim]) =>
                     job'[v].current = claim'[job'[v].claim].status
    <3>1. v # w /\ pc[v] # "idle" /\ job'[v] = job[v]
      BY <2>1, <2>8
    <3>2. job[v].seen <= Len(history[job[v].claim])
      BY <3>1 DEF IInv
    <3>3. CASE job[v].claim = d
      BY <2>3, <2>5, <3>1, <3>2, <3>3
    <3>4. CASE job[v].claim # d
      <4>1. job[v].claim \in Claims \ {d}
        BY <2>5, <3>1, <3>4
      <4>2. QED
        BY <2>1, <3>1, <4>1 DEF IInv
    <3>5. QED
      BY <3>3, <3>4
  <2>9. StaleOnlyIfOvertaken'
    BY <2>8
  <2>10. QED
    BY <2>6, <2>7, <2>9
<1>5. CASE UNCHANGED vars
  BY <1>5 DEF vars, IInv, Acceptable
<1>6. QED
  BY <1>1, <1>2, <1>3, <1>4, <1>5 DEF Next, Refuse, Abandon

(* The invariant IInv holds at the start and is kept by every step: the     *)
(* tables by CommitKeepsTables and TablesUnchanged, the requests by         *)
(* StepKeepsRequests, the types by TypeStep.                                *)
LEMMA Inductive == Spec => []IInv
<1>1. Init => IInv
  <2> SUFFICES ASSUME Init PROVE IInv
    OBVIOUS
  <2>1. TypeOK
    BY TypeInit
  <2> DEFINE first == [from |-> "", to |-> "FILED"]
  <2>2. ASSUME NEW c \in Claims
        PROVE  /\ Len(history[c]) = 1 /\ DOMAIN history[c] = 1..1
               /\ history[c][1] = first
               /\ Len(changed[c]) = 0 /\ DOMAIN changed[c] = {}
               /\ claim[c].status = "FILED"
    <3>1. history[c] = <<first>> /\ changed[c] = <<>>
      BY DEF Init
    <3>2. claim[c].status = "FILED"
      BY DEF Init
    <3> HIDE DEF first
    <3>3. Len(history[c]) = 1 /\ DOMAIN history[c] = 1..1 /\ history[c][1] = first
      BY <3>1, SingletonParts
    <3>4. Len(changed[c]) = 0 /\ DOMAIN changed[c] = {}
      BY <3>1, EmptyParts
    <3>5. QED
      BY <3>2, <3>3, <3>4
  <2>3. first.to = "FILED"
    OBVIOUS
  <2> HIDE DEF first
  <2>4. HistoryEndsInStatus
    BY <2>2, <2>3 DEF HistoryEndsInStatus
  <2>5. OutboxTellsHistory
    <3> SUFFICES ASSUME NEW c \in Claims
                 PROVE  /\ Len(history[c]) = Len(changed[c]) + 1
                        /\ \A i \in DOMAIN changed[c] :
                              /\ changed[c][i].from = history[c][i + 1].from
                              /\ changed[c][i].to = history[c][i + 1].to
                              /\ changed[c][i].status = changed[c][i].to
      BY DEF OutboxTellsHistory
    <3>1. Len(history[c]) = 1 /\ Len(changed[c]) = 0 /\ DOMAIN changed[c] = {}
      BY <2>2
    <3>2. Len(history[c]) = Len(changed[c]) + 1
      BY <3>1
    <3>3. QED
      BY <3>1, <3>2
  <2>6. EveryRowIsAnEdge
    BY <2>2 DEF EveryRowIsAnEdge
  <2>7. QED
    BY <2>1, <2>4, <2>5, <2>6 DEF Init, IInv, OneOwnerPerRow, LockedWasAcceptable,
                            LockedRowIsCurrent, StaleOnlyIfOvertaken
<1>2. IInv /\ [Next]_vars => IInv'
  <2> SUFFICES ASSUME IInv, [Next]_vars
               PROVE  IInv'
    OBVIOUS
  <2>1. TypeOK'
    BY TypeStep DEF IInv
  <2>2. OneOwnerPerRow' /\ LockedWasAcceptable' /\ LockedRowIsCurrent' /\ StaleOnlyIfOvertaken'
    BY <2>1, StepKeepsRequests
  <2>3. HistoryEndsInStatus' /\ OutboxTellsHistory' /\ EveryRowIsAnEdge'
    <3>1. CASE \E w \in Workers : Commit(w)
      BY <3>1, CommitKeepsTables
    <3>2. CASE UNCHANGED tables
      BY <3>2, TablesUnchanged
    <3>3. QED
      BY <3>1, <3>2 DEF Next, Load, Refuse, Lock, Abandon, vars, tables
  <2>4. QED
    BY <2>1, <2>2, <2>3 DEF IInv
<1>3. QED
  BY <1>1, <1>2, PTL DEF Spec

(* However requests overlap, the last row of the history is the status of   *)
(* the claim (transition_status writes both in one transaction).            *)
THEOREM HistoryAgreesWithStatus == Spec => []HistoryEndsInStatus
<1>1. IInv => HistoryEndsInStatus
  BY DEF IInv
<1>2. QED
  BY <1>1, Inductive, PTL

(* However requests overlap, the claim.status_changed events of the outbox  *)
(* are the history of the claim, row by row.                                *)
THEOREM OutboxAgreesWithHistory == Spec => []OutboxTellsHistory
<1>1. IInv => OutboxTellsHistory
  BY DEF IInv
<1>2. QED
  BY <1>1, Inductive, PTL

(* Each history row taken alone is an edge of VALID_TRANSITIONS, races      *)
(* included.                                                                *)
THEOREM RowsAreEdges == Spec => []EveryRowIsAnEdge
<1>1. IInv => EveryRowIsAnEdge
  BY DEF IInv
<1>2. QED
  BY <1>1, Inductive, PTL

(* The row read FOR UPDATE is the committed row until the commit.           *)
THEOREM LockedRowsAreCurrent == Spec => []LockedRowIsCurrent
<1>1. IInv => LockedRowIsCurrent
  BY DEF IInv
<1>2. QED
  BY <1>1, Inductive, PTL

(* The status checked without a lock is wrong only for a request that       *)
(* another one overtook.                                                    *)
THEOREM StaleImpliesOvertaken == Spec => []StaleOnlyIfOvertaken
<1>1. IInv => StaleOnlyIfOvertaken
  BY DEF IInv
<1>2. QED
  BY <1>1, Inductive, PTL

----------------------------------------------------------------------------
(* What the events of a commit add to those of its claim.                   *)
LEMMA CommitAppends ==
    ASSUME IInv, NEW w \in Workers, Commit(w), NEW d, d = job[w].claim
    PROVE  /\ d \in Claims /\ job[w] \in Job
           /\ Len(history[d]) \in Nat /\ Len(changed[d]) \in Nat /\ Len(resolved[d]) \in Nat
           /\ DOMAIN history[d] = 1..Len(history[d])
           /\ DOMAIN history'[d] = 1..(Len(history[d]) + 1)
           /\ history'[d][Len(history[d]) + 1].to = job[w].to
           /\ \A i \in 1..Len(history[d]) : history'[d][i] = history[d][i]
           /\ DOMAIN changed[d] = 1..Len(changed[d])
           /\ DOMAIN changed'[d] = 1..(Len(changed[d]) + 1)
           /\ changed'[d][Len(changed[d]) + 1] = ChangedOf(job[w])
           /\ \A i \in 1..Len(changed[d]) : changed'[d][i] = changed[d][i]
           /\ Len(resolved'[d]) =
                 IF EmitsResolved(job[w]) THEN Len(resolved[d]) + 1 ELSE Len(resolved[d])
<1>1. /\ job[w] \in Job /\ d \in Claims
      /\ history'[d] = Append(history[d], HistoryOf(job[w]))
      /\ changed'[d] = Append(changed[d], ChangedOf(job[w]))
  BY CommitEffect DEF IInv
<1>2. resolved'[d] = IF EmitsResolved(job[w]) THEN Append(resolved[d], Written(job[w]))
                     ELSE resolved[d]
  BY <1>1 DEF Commit, IInv, TypeOK
<1>3. /\ HistoryOf(job[w]) \in HistoryRow /\ ChangedOf(job[w]) \in ChangedEvent
      /\ Written(job[w]) \in ResolvedEvent
  BY <1>1, WrittenType
<1>4. /\ history[d] \in Seq(HistoryRow) /\ changed[d] \in Seq(ChangedEvent)
      /\ resolved[d] \in Seq(ResolvedEvent)
  BY <1>1 DEF IInv, TypeOK
<1>5. HistoryOf(job[w]).to = job[w].to
  BY DEF HistoryOf
<1>6. /\ DOMAIN history'[d] = 1..(Len(history[d]) + 1)
      /\ history'[d][Len(history[d]) + 1] = HistoryOf(job[w])
      /\ \A i \in 1..Len(history[d]) : history'[d][i] = history[d][i]
  BY <1>1, <1>3, <1>4
<1>7. /\ DOMAIN changed'[d] = 1..(Len(changed[d]) + 1)
      /\ changed'[d][Len(changed[d]) + 1] = ChangedOf(job[w])
      /\ \A i \in 1..Len(changed[d]) : changed'[d][i] = changed[d][i]
  BY <1>1, <1>3, <1>4
<1>8. Len(resolved'[d]) =
         IF EmitsResolved(job[w]) THEN Len(resolved[d]) + 1 ELSE Len(resolved[d])
  BY <1>2, <1>3, <1>4
<1>9. /\ Len(history[d]) \in Nat /\ DOMAIN history[d] = 1..Len(history[d])
      /\ Len(changed[d]) \in Nat /\ DOMAIN changed[d] = 1..Len(changed[d])
      /\ Len(resolved[d]) \in Nat
  BY <1>4
<1>10. history'[d][Len(history[d]) + 1].to = job[w].to
  BY <1>5, <1>6
<1>11. QED
  BY <1>1, <1>6, <1>7, <1>8, <1>9, <1>10, Zenon

(* A step that is no commit leaves the tables alone.                        *)
LEMMA CommitOrNoWrite ==
    ASSUME [Next]_vars
    PROVE  UNCHANGED tables \/ \E w \in Workers : Commit(w)
BY DEF Next, Load, Refuse, Lock, Abandon, vars, tables

ResolutionsOf(c) == {i \in DOMAIN history[c] : history[c][i].to = "RESOLVED"}

(* A commit that resolves a claim adds one row and one event, any other     *)
(* neither.                                                                 *)
LEMMA ResolvedStep ==
    ASSUME IInv, ResolvedOncePerResolution, [Next]_vars
    PROVE  ResolvedOncePerResolution'
<1>1. CASE UNCHANGED tables
  BY <1>1 DEF tables, ResolvedOncePerResolution
<1>2. ASSUME NEW w \in Workers, Commit(w)
      PROVE  ResolvedOncePerResolution'
  <2> SUFFICES ASSUME NEW c \in Claims
               PROVE  Len(resolved'[c]) = Cardinality(ResolutionsOf(c)')
    BY DEF ResolvedOncePerResolution, ResolutionsOf
  <2>0. Len(resolved[c]) = Cardinality(ResolutionsOf(c))
    BY DEF ResolvedOncePerResolution, ResolutionsOf
  <2>1. CASE c # job[w].claim
    <3>1. history'[c] = history[c] /\ resolved'[c] = resolved[c]
      BY <1>2, <2>1 DEF Commit, IInv, TypeOK
    <3>2. QED
      BY <2>0, <3>1 DEF ResolutionsOf
  <2>2. CASE c = job[w].claim
    <3> DEFINE n == Len(history[c])
    <3>1. /\ n \in Nat /\ DOMAIN history[c] = 1..n /\ DOMAIN history'[c] = 1..(n + 1)
          /\ history'[c][n + 1].to = job[w].to
          /\ \A i \in 1..n : history'[c][i] = history[c][i]
          /\ Len(resolved[c]) \in Nat
          /\ Len(resolved'[c]) =
                IF job[w].to = "RESOLVED" THEN Len(resolved[c]) + 1 ELSE Len(resolved[c])
      BY <1>2, <2>2, CommitAppends DEF EmitsResolved
    <3> HIDE DEF n
    <3>2. ResolutionsOf(c)' = {i \in 1..(n + 1) : history'[c][i].to = "RESOLVED"}
      BY <3>1 DEF ResolutionsOf
    <3>3. ResolutionsOf(c) = {i \in 1..n : history[c][i].to = "RESOLVED"}
      BY <3>1 DEF ResolutionsOf
    <3>4. IsFiniteSet(ResolutionsOf(c)) /\ n + 1 \notin ResolutionsOf(c)
      <4>1. IsFiniteSet(1..n)
        BY <3>1, FS_Interval
      <4>2. ResolutionsOf(c) \subseteq 1..n
        BY <3>3
      <4>3. QED
        BY <3>1, <4>1, <4>2, FS_Subset
    <3>5. CASE job[w].to = "RESOLVED"
      <4>1. ResolutionsOf(c)' = ResolutionsOf(c) \cup {n + 1}
        BY <3>1, <3>2, <3>3, <3>5
      <4>2. Cardinality(ResolutionsOf(c) \cup {n + 1}) = Cardinality(ResolutionsOf(c)) + 1
        BY <3>4, FS_AddElement
      <4>3. QED
        BY <2>0, <3>1, <3>5, <4>1, <4>2
    <3>6. CASE job[w].to # "RESOLVED"
      <4>1. ResolutionsOf(c)' = ResolutionsOf(c)
        BY <3>1, <3>2, <3>3, <3>6
      <4>2. QED
        BY <2>0, <3>1, <3>6, <4>1
    <3>7. QED
      BY <3>5, <3>6
  <2>3. QED
    BY <2>1, <2>2
<1>3. QED
  BY <1>1, <1>2, CommitOrNoWrite

(* One claim.resolved event goes out for every row of the history that      *)
(* resolves the claim, however often overlapping requests resolve it.       *)
THEOREM OneEventPerResolution == Spec => []ResolvedOncePerResolution
<1>1. Init => ResolvedOncePerResolution
  <2> SUFFICES ASSUME Init, NEW c \in Claims
               PROVE  Len(resolved[c]) = Cardinality(ResolutionsOf(c))
    BY DEF ResolvedOncePerResolution, ResolutionsOf
  <2> DEFINE first == [from |-> "", to |-> "FILED"]
  <2>1. history[c] = <<first>> /\ resolved[c] = <<>> /\ first.to # "RESOLVED"
    BY DEF Init
  <2> HIDE DEF first
  <2>2. DOMAIN history[c] = 1..1 /\ history[c][1] = first
    BY <2>1, SingletonParts
  <2>3. ResolutionsOf(c) = {}
    BY <2>1, <2>2 DEF ResolutionsOf
  <2>4. QED
    BY <2>1, <2>3, EmptyParts, FS_EmptySet
<1>2. IInv /\ ResolvedOncePerResolution /\ [Next]_vars => ResolvedOncePerResolution'
  BY ResolvedStep
<1>3. QED
  BY <1>1, <1>2, Inductive, PTL DEF Spec

(* An approval writes the amount it was sent; any other commit writes the   *)
(* amount it read under the lock, which is still the claim's.               *)
LEMMA AmountStep ==
    ASSUME IInv, AmountFromLatestApproval, [Next]_vars
    PROVE  AmountFromLatestApproval'
<1>1. CASE UNCHANGED tables
  BY <1>1 DEF tables, AmountFromLatestApproval, ApprovalsOf
<1>2. ASSUME NEW w \in Workers, Commit(w)
      PROVE  AmountFromLatestApproval'
  <2> DEFINE Held(c) ==
        /\ ApprovalsOf(c) = {} => claim[c].amount = NoAmount
        /\ \A i \in ApprovalsOf(c) :
              (\A k \in ApprovalsOf(c) : k <= i) =>
                  /\ claim[c].amount = changed[c][i].amount
                  /\ claim[c].amount # NoAmount
  <2> SUFFICES ASSUME NEW c \in Claims
               PROVE  Held(c)'
    BY DEF AmountFromLatestApproval
  <2>0. Held(c)
    BY DEF AmountFromLatestApproval
  <2>1. CASE c # job[w].claim
    <3>1. claim'[c] = claim[c] /\ changed'[c] = changed[c]
      BY <1>2, <2>1 DEF Commit, IInv, TypeOK
    <3>2. QED
      BY <2>0, <3>1 DEF ApprovalsOf
  <2>2. CASE c = job[w].claim
    <3> DEFINE n == Len(changed[c])
    <3>1. /\ n \in Nat /\ DOMAIN changed[c] = 1..n /\ DOMAIN changed'[c] = 1..(n + 1)
          /\ changed'[c][n + 1] = ChangedOf(job[w])
          /\ \A i \in 1..n : changed'[c][i] = changed[c][i]
      BY <1>2, <2>2, CommitAppends
    <3>2. claim'[c] = Written(job[w])
      BY <1>2, <2>2, CommitEffect DEF IInv
    <3>3. job[w].row = claim[c] /\ Acceptable(job[w])
      BY <1>2, <2>2 DEF Commit, IInv, LockedRowIsCurrent, LockedWasAcceptable
    <3> HIDE DEF n
    <3>4. ApprovalsOf(c) = {i \in 1..n : changed[c][i].to = "APPROVED"}
      BY <3>1 DEF ApprovalsOf
    <3>5. ApprovalsOf(c)' = {i \in 1..(n + 1) : changed'[c][i].to = "APPROVED"}
      BY <3>1 DEF ApprovalsOf
    <3>6. /\ changed'[c][n + 1].to = job[w].to
          /\ changed'[c][n + 1].amount = claim'[c].amount
      BY <3>1, <3>2 DEF ChangedOf, Written
    <3>7. CASE job[w].to = "APPROVED"
      <4>1. claim'[c].amount # NoAmount
        BY <3>2, <3>3, <3>7 DEF Written, Acceptable
      <4>2. n + 1 \in ApprovalsOf(c)'
        BY <3>1, <3>5, <3>6, <3>7
      <4>3. ASSUME NEW i \in ApprovalsOf(c)', \A k \in ApprovalsOf(c)' : k <= i
            PROVE  i = n + 1
        <5>1. n + 1 <= i /\ i \in 1..(n + 1)
          BY <3>5, <4>2, <4>3
        <5>2. QED
          BY <3>1, <5>1
      <4>4. QED
        BY <3>6, <4>1, <4>2, <4>3
    <3>8. CASE job[w].to # "APPROVED"
      <4>1. claim'[c].amount = claim[c].amount
        BY <3>2, <3>3, <3>8 DEF Written
      <4>2. ApprovalsOf(c)' = ApprovalsOf(c)
        BY <3>1, <3>4, <3>5, <3>6, <3>8
      <4>3. \A i \in ApprovalsOf(c) : changed'[c][i] = changed[c][i]
        BY <3>1, <3>4
      <4>4. QED
        BY <2>0, <4>1, <4>2, <4>3
    <3>9. QED
      BY <3>7, <3>8
  <2>3. QED
    BY <2>1, <2>2
<1>3. QED
  BY <1>1, <1>2, CommitOrNoWrite

(* The amount of a claim is that of its latest approval, and none before    *)
(* the first (transition_status assigns approved_amount for APPROVED only). *)
THEOREM AmountIsOfLatestApproval == Spec => []AmountFromLatestApproval
<1>1. Init => AmountFromLatestApproval
  <2> SUFFICES ASSUME Init, NEW c \in Claims
               PROVE  ApprovalsOf(c) = {} /\ claim[c].amount = NoAmount
    BY DEF AmountFromLatestApproval
  <2>1. changed[c] = <<>> /\ claim[c].amount = NoAmount
    BY DEF Init
  <2>2. QED
    BY <2>1, EmptyParts DEF ApprovalsOf
<1>2. IInv /\ AmountFromLatestApproval /\ [Next]_vars => AmountFromLatestApproval'
  BY AmountStep
<1>3. QED
  BY <1>1, <1>2, Inductive, PTL DEF Spec

(* The claim and its outbox follow the history: the theorems above together. *)
THEOREM ClaimsFollowTheirHistory == Spec => []ClaimFollowsHistory
BY HistoryAgreesWithStatus, RowsAreEdges, AmountIsOfLatestApproval, PTL DEF ClaimFollowsHistory

(* Every transition has its claim.status_changed, every resolution its      *)
(* claim.resolved, and there are no others.                                 *)
THEOREM OutboxesFollowTheHistory == Spec => []OutboxFollowsHistory
BY OutboxAgreesWithHistory, OneEventPerResolution, PTL DEF OutboxFollowsHistory

(* A step that does not take a claim one stage forward is the commit of a   *)
(* request that was overtaken between its load and its lock: with no        *)
(* overlap the service implements ClaimStatusMachine, for every number of   *)
(* claims and threads.                                                      *)
THEOREM OnlyRacesLeaveTheMachine == Spec => ForwardUnlessOvertaken
<1>1. Init => Machine!Init
  <2> SUFFICES ASSUME Init
               PROVE  Statuses = [c \in Claims |-> "FILED"]
    BY DEF Machine!Init
  <2>1. \A c \in Claims : claim[c].status = "FILED"
    BY DEF Init
  <2>2. QED
    BY <2>1, Zenon DEF Statuses
<1>2. IInv /\ [Next]_vars => [ForwardOrOvertaken]_Statuses
  <2> SUFFICES ASSUME IInv, [Next]_vars, Statuses' # Statuses
               PROVE  ForwardOrOvertaken
    OBVIOUS
  <2>1. PICK w \in Workers : Commit(w)
    BY DEF Next, Load, Refuse, Lock, Abandon, vars, tables, Statuses
  <2> DEFINE c == job[w].claim
             to == job[w].to
  <2>2. /\ job[w] \in Job /\ claim'[c] = Written(job[w])
        /\ \A b \in Claims \ {c} : claim'[b] = claim[b]
    BY <2>1, CommitEffect DEF IInv
  <2>3. c \in Claims /\ to \in Status /\ claim'[c].status = to
    BY <2>2 DEF Written, Job
  <2>c. claim'[c].status # claim[c].status
    BY <2>2 DEF Statuses
  <2>4. pc[w] = "locked" /\ Acceptable(job[w])
    BY <2>1 DEF Commit, IInv, LockedWasAcceptable
  <2>5. job[w].seen \in Nat /\ Len(history[c]) \in Nat
    BY <2>2, <2>3 DEF IInv, TypeOK, Job
  <2>6. job[w].seen <= Len(history[c])
    BY <2>4 DEF IInv, StaleOnlyIfOvertaken
  <2>7. CASE job[w].seen < Len(history[c])
    <3>1. Overtaken(c)
      BY <2>4, <2>7 DEF Overtaken
    <3>2. QED
      BY <2>2, <2>3, <2>c, <3>1 DEF ForwardOrOvertaken
  <2>8. CASE job[w].seen = Len(history[c])
    <3>1. Legal(claim[c].status, to)
      BY <2>3, <2>4, <2>8 DEF IInv, StaleOnlyIfOvertaken, Acceptable
    <3>2. claim[c].status \in Status
      BY <2>3 DEF IInv, TypeOK, ClaimRow
    <3>3. Machine!Stage[to] = Machine!Stage[Statuses[c]] + 1
      BY <2>3, <3>1, <3>2 DEF Legal, ValidTransitions, Status, Statuses, Machine!Stage, Machine!Status
    <3>4. Statuses' = [Statuses EXCEPT ![c] = to]
      BY <2>2, <2>3 DEF Statuses
    <3>5. Machine!Advance(c)
      BY <2>3, <3>3, <3>4 DEF Machine!Advance, Status, Machine!Status
    <3>6. QED
      BY <2>3, <2>c, <3>5 DEF ForwardOrOvertaken
  <2>9. QED
    BY <2>5, <2>7, <2>8, <2>6
<1>3. QED
  BY <1>1, <1>2, Inductive, PTL DEF Spec, ForwardUnlessOvertaken
=============================================================================
