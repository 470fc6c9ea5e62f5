------------------------ MODULE AuditConsumer_proofs ------------------------
(***************************************************************************)
(* Theorems of AuditConsumer for any events, partitions and faults.  What  *)
(* makes them inductive is the account of what was read: everything up to  *)
(* the position of a running process was saved or is known to have failed, *)
(* except for the message in hand.                                         *)
(***************************************************************************)
EXTENDS AuditConsumer, TLAPS

Handled(p, n) == log[p][n] \in saved \cup {Garbage} \/ <<p, n>> \in failed

(* Offsets of a partition, in the broker and on the way there, are of       *)
(* messages that were read.                                                 *)
OffsetsAreRead ==
    \A p \in Partitions :
        /\ committed[p] <= position[p]
        /\ inflight[p] <= position[p]
        /\ position[p] <= Len(log[p])
        /\ pc = "down" => inflight[p] = 0

(* The message in hand is an event; it was saved unless it is being         *)
(* handled, and it is not on the live feed before it is broadcast.          *)
InHand ==
    /\ pc \in {"handling", "saved", "duplicate", "broadcast"} =>
          /\ position[current] \in DOMAIN log[current]
          /\ Message \in Events
    /\ pc \in {"saved", "duplicate", "broadcast"} => Message \in saved
    /\ pc = "saved" => casts[Message] = 0

ReadIsHandled ==
    pc # "down" => \A p \in Partitions : \A n \in 1..position[p] :
        \/ Handled(p, n)
        \/ pc = "handling" /\ p = current /\ n = position[p]

PassedIsHandled ==
    \A p \in Partitions : \A n \in Nat \ {0} :
        n <= committed[p] \/ n <= inflight[p] => Handled(p, n)

IInv ==
    /\ TypeOK
    /\ OffsetsAreRead
    /\ InHand
    /\ ReadIsHandled
    /\ PassedIsHandled
    /\ FeedFollowsTable

----------------------------------------------------------------------------
(* What is handled stays handled while the logs are as they are.            *)
LEMMA HandledStays ==
    ASSUME saved \subseteq saved', failed \subseteq failed', log' = log,
           NEW p \in Partitions, NEW n \in Nat, Handled(p, n)
    PROVE  Handled(p, n)'
BY DEF Handled

(* The variables keep their types at every step.                            *)
LEMMA TypeStep ==
    ASSUME TypeOK, InHand, [Next]_vars
    PROVE  TypeOK'
<1> USE DEF TypeOK
<1>0. \A kind : Fault(kind) => faults' \in Nat
  BY DEF Fault
<1>10. Interrupted => unaired' \in SUBSET Events
  BY DEF Interrupted, InHand
<1>1. ASSUME NEW p \in Partitions, NEW m \in Events \cup {Garbage}, Publish(p, m)
      PROVE  TypeOK'
  BY <1>1 DEF Publish
<1>2. ASSUME NEW p \in Partitions, Poll(p) \/ CommitLands(p) \/ CommitIsLost(p)
      PROVE  TypeOK'
  <2>1. CASE Poll(p)
    BY <2>1 DEF Poll
  <2>2. CASE CommitLands(p)
    BY <2>2 DEF CommitLands
  <2>3. CASE CommitIsLost(p)
    BY <1>0, <2>3 DEF CommitIsLost
  <2>4. QED
    BY <1>2, <2>1, <2>2, <2>3
<1>3. ASSUME HandlingFails, faults' \in Nat
      PROVE  TypeOK'
  BY <1>3, <1>10 DEF HandlingFails, Here
<1>4. ASSUME Die, faults' \in Nat
      PROVE  TypeOK'
  BY <1>4, <1>10 DEF Die
<1>5. ASSUME Handle
      PROVE  TypeOK'
  <2>1. CASE Save
    BY <2>1 DEF Save, InHand
  <2>2. CASE SaveDuplicate \/ Commit
    BY <2>2 DEF SaveDuplicate, Commit
  <2>3. CASE SaveError \/ SaveDisconnected \/ BroadcastError
    BY <2>3, <1>0, <1>3 DEF SaveError, SaveDisconnected, BroadcastError
  <2>4. CASE Broadcast
    BY <2>4 DEF Broadcast, InHand
  <2>5. CASE CommitRaises
    BY <2>5, <1>0, <1>3, <1>4 DEF CommitRaises
  <2>6. QED
    BY <1>5, <2>1, <2>2, <2>3, <2>4, <2>5 DEF Handle
<1>6. CASE Crash
  BY <1>0, <1>4, <1>6 DEF Crash
<1>7. CASE Restart \/ LoseConnection
  BY <1>0, <1>7 DEF Restart, LoseConnection
<1>8. CASE Wait \/ UNCHANGED vars
  BY <1>8 DEF Wait, vars
<1>9. QED
  BY <1>1, <1>2, <1>5, <1>6, <1>7, <1>8 DEF Next

(* A message that is appended changes none of those before it.              *)
LEMMA PublishKeeps ==
    ASSUME IInv, TypeOK', NEW q \in Partitions, NEW m \in Events \cup {Garbage}, Publish(q, m)
    PROVE  IInv'
<1>1. /\ \A p \in Partitions : Len(log[p]) \in Nat /\ DOMAIN log[p] = 1..Len(log[p])
      /\ \A p \in Partitions : Len(log'[p]) >= Len(log[p])
      /\ \A p \in Partitions : \A n \in 1..Len(log[p]) : log'[p][n] = log[p][n]
  BY DEF IInv, TypeOK, Publish
<1>2. \A p \in Partitions : DOMAIN log'[p] = 1..Len(log'[p]) /\ Len(log'[p]) \in Nat
  BY DEF TypeOK
<1>3. UNCHANGED <<committed, inflight, position, pc, current, saved, casts, failed, unaired>>
  BY DEF Publish
<1>4. \A p \in Partitions : committed[p] \in Nat /\ inflight[p] \in Nat /\ position[p] \in Nat
  BY DEF IInv, TypeOK
<1>5. OffsetsAreRead'
  BY <1>1, <1>2, <1>3, <1>4 DEF IInv, OffsetsAreRead
<1>6. \A p \in Partitions : \A n \in 1..position[p] : Handled(p, n) => Handled(p, n)'
  <2> SUFFICES ASSUME NEW p \in Partitions, NEW n \in 1..position[p], Handled(p, n)
               PROVE  Handled(p, n)'
    OBVIOUS
  <2>1. n \in 1..Len(log[p])
    BY <1>1, <1>4 DEF IInv, OffsetsAreRead
  <2>2. QED
    BY <1>1, <1>3, <2>1 DEF Handled
<1>7. InHand'
  <2>1. CASE pc \in {"handling", "saved", "duplicate", "broadcast"}
    <3>1. current \in Partitions /\ position[current] \in 1..Len(log[current])
      BY <2>1, <1>1 DEF IInv, InHand, TypeOK
    <3>2. Message' = Message /\ position'[current'] \in DOMAIN log'[current']
      BY <3>1, <1>1, <1>2, <1>3 DEF Message
    <3>3. QED
      BY <3>2, <1>3 DEF IInv, InHand
  <2>2. QED
    BY <2>1, <1>3 DEF InHand
<1>8. ReadIsHandled'
  BY <1>3, <1>6 DEF IInv, ReadIsHandled
<1>9. PassedIsHandled'
  <2> SUFFICES ASSUME NEW p \in Partitions, NEW n \in Nat \ {0}, n <= committed[p] \/ n <= inflight[p]
               PROVE  Handled(p, n)'
    BY <1>3 DEF PassedIsHandled
  <2>1. n \in 1..position[p]
    BY <1>4 DEF IInv, OffsetsAreRead
  <2>2. QED
    BY <2>1, <1>6 DEF IInv, PassedIsHandled
<1>10. FeedFollowsTable'
  <2>1. pc = "saved" => Message' = Message
    <3>1. pc = "saved" => current \in Partitions /\ position[current] \in 1..Len(log[current])
      BY <1>1 DEF IInv, InHand, TypeOK
    <3>2. QED
      BY <3>1, <1>1, <1>3 DEF Message
  <2>2. QED
    BY <2>1, <1>3 DEF IInv, FeedFollowsTable
<1>11. QED
  BY <1>5, <1>7, <1>8, <1>9, <1>10 DEF IInv

(* A message that is polled is the only one read and not handled.           *)
LEMMA PollKeeps ==
    ASSUME IInv, TypeOK', NEW q \in Partitions, Poll(q)
    PROVE  IInv'
<1>1. /\ pc = "poll" /\ current' = q
      /\ UNCHANGED <<log, committed, inflight, saved, casts, failed, unaired>>
      /\ position' = [position EXCEPT ![q] = @ + 1]
      /\ position[q] < Len(log[q])
      /\ pc' = IF log[q][position[q] + 1] = Garbage THEN "poll" ELSE "handling"
  BY DEF Poll
<1>2. \A p \in Partitions :
          /\ committed[p] \in Nat /\ inflight[p] \in Nat /\ position[p] \in Nat
          /\ committed[p] <= position[p] /\ inflight[p] <= position[p] /\ position[p] <= Len(log[p])
          /\ Len(log[p]) \in Nat /\ DOMAIN log[p] = 1..Len(log[p])
  BY DEF IInv, TypeOK, OffsetsAreRead
<1>3. /\ position'[q] = position[q] + 1
      /\ \A p \in Partitions \ {q} : position'[p] = position[p]
  BY <1>1 DEF IInv, TypeOK
<1>4. OffsetsAreRead'
  BY <1>1, <1>2, <1>3 DEF OffsetsAreRead
<1>5. \A p \in Partitions, n \in Nat : Handled(p, n)' <=> Handled(p, n)
  BY <1>1 DEF Handled
<1>6. log[q][position[q] + 1] \in Events \cup {Garbage}
  BY <1>1, <1>2 DEF IInv, TypeOK
<1>7. Message' = log[q][position[q] + 1]
  BY <1>1, <1>3 DEF Message
<1>8. InHand'
  <2>1. position'[current'] \in DOMAIN log'[current']
    BY <1>1, <1>2, <1>3
  <2>2. pc' = "handling" => Message' \in Events
    BY <1>1, <1>6, <1>7
  <2>3. QED
    BY <1>1, <2>1, <2>2 DEF InHand
<1>9. ReadIsHandled'
  <2> SUFFICES ASSUME NEW p \in Partitions, NEW n \in 1..position'[p]
               PROVE  Handled(p, n) \/ (pc' = "handling" /\ p = q /\ n = position'[p])
    BY <1>1, <1>5 DEF ReadIsHandled
  <2>1. CASE n \in 1..position[p]
    BY <2>1, <1>1 DEF IInv, ReadIsHandled
  <2>2. CASE n \notin 1..position[p]
    <3>1. p = q /\ n = position[q] + 1
      BY <2>2, <1>2, <1>3
    <3>2. QED
      BY <3>1, <1>1, <1>3 DEF Handled
  <2>3. QED
    BY <2>1, <2>2
<1>10. PassedIsHandled'
  BY <1>1, <1>5 DEF IInv, PassedIsHandled
<1>11. FeedFollowsTable'
  BY <1>1 DEF IInv, FeedFollowsTable
<1>12. QED
  BY <1>4, <1>8, <1>9, <1>10, <1>11 DEF IInv

(* A step inside _handle: no offset moves and nothing is read, the message  *)
(* in hand is saved or known to have failed when it leaves "handling".      *)
LEMMA HandleKeeps ==
    ASSUME IInv, TypeOK', UNCHANGED <<log, committed, position, current>>,
           pc # "down", saved \subseteq saved', failed \subseteq failed',
           InHand', FeedFollowsTable',
           UNCHANGED inflight, pc' # "down",
           pc = "handling" => pc' = "handling" \/ Handled(current, position[current])'
    PROVE  IInv'
<1>1. \A p \in Partitions :
          committed[p] \in Nat /\ inflight[p] \in Nat /\ position[p] \in Nat /\ Len(log[p]) \in Nat
  BY DEF IInv, TypeOK
<1>2. OffsetsAreRead'
  BY <1>1 DEF IInv, OffsetsAreRead
<1>3. \A p \in Partitions, n \in Nat : Handled(p, n) => Handled(p, n)'
  BY HandledStays
<1>4. ReadIsHandled'
  <2> SUFFICES ASSUME NEW p \in Partitions, NEW n \in 1..position[p]
               PROVE  Handled(p, n)' \/ (pc' = "handling" /\ p = current /\ n = position[p])
    BY DEF ReadIsHandled
  <2>1. Handled(p, n) \/ (pc = "handling" /\ p = current /\ n = position[p])
    BY DEF IInv, ReadIsHandled
  <2>2. QED
    BY <2>1, <1>1, <1>3
<1>5. PassedIsHandled'
  BY <1>1, <1>3 DEF IInv, PassedIsHandled
<1>6. QED
  BY <1>2, <1>4, <1>5 DEF IInv

(* An event that was saved and is not on the feed is on record when the     *)
(* process leaves its handling.                                             *)
LEMMA InterruptionIsNoted ==
    ASSUME FeedFollowsTable, Interrupted, UNCHANGED <<saved, casts>>
    PROVE  FeedFollowsTable'
<1>1. unaired \subseteq unaired' /\ (pc = "saved" => Message \in unaired')
  BY DEF Interrupted
<1>2. QED
  BY <1>1 DEF FeedFollowsTable

(* An error leaves the message in hand behind as failed.                    *)
LEMMA FailureKeeps ==
    ASSUME IInv, TypeOK', HandlingFails, pc # "down"
    PROVE  IInv'
<1>1. /\ UNCHANGED <<log, committed, inflight, position, current, saved, casts>>
      /\ pc' = "poll" /\ failed' = failed \cup {<<current, position[current]>>}
      /\ Interrupted
  BY DEF HandlingFails, Here
<1>2. InHand' /\ FeedFollowsTable'
  BY <1>1, InterruptionIsNoted DEF IInv, InHand
<1>3. Handled(current, position[current])'
  BY <1>1 DEF Handled
<1>4. QED
  BY <1>1, <1>2, <1>3, HandleKeeps

(* A process that ends leaves the offsets of the broker as they are.        *)
LEMMA DeathKeeps ==
    ASSUME IInv, TypeOK', Die
    PROVE  IInv'
<1>1. /\ UNCHANGED <<log, committed, position, current, saved, casts, failed>>
      /\ Interrupted
      /\ pc' = "down" /\ \A p \in Partitions : inflight'[p] = 0
  BY DEF Die
<1>2. \A p \in Partitions :
          committed[p] \in Nat /\ inflight[p] \in Nat /\ position[p] \in Nat /\ Len(log[p]) \in Nat
  BY DEF IInv, TypeOK
<1>3. InHand' /\ FeedFollowsTable' /\ ReadIsHandled'
  BY <1>1, InterruptionIsNoted DEF IInv, InHand, ReadIsHandled
<1>4. OffsetsAreRead'
  BY <1>1, <1>2 DEF IInv, OffsetsAreRead
<1>5. PassedIsHandled'
  BY <1>1, <1>2 DEF IInv, PassedIsHandled, Handled
<1>6. QED
  BY <1>3, <1>4, <1>5 DEF IInv

(* The offset handed to commit() is that of the message in hand, which was  *)
(* saved.                                                                   *)
LEMMA CommitKeeps ==
    ASSUME IInv, TypeOK', Commit
    PROVE  IInv'
<1>1. /\ UNCHANGED <<log, committed, position, current, saved, casts, failed, unaired>>
      /\ pc \in {"broadcast", "duplicate"} /\ pc' = "poll"
      /\ inflight' = [inflight EXCEPT ![current] = position[current]]
  BY DEF Commit
<1>2. \A p \in Partitions :
          committed[p] \in Nat /\ inflight[p] \in Nat /\ position[p] \in Nat /\ Len(log[p]) \in Nat
  BY DEF IInv, TypeOK
<1>3. \A p \in Partitions : inflight'[p] = IF p = current THEN position[p] ELSE inflight[p]
  BY <1>1 DEF IInv, TypeOK
<1>4. \A p \in Partitions, n \in Nat : Handled(p, n)' <=> Handled(p, n)
  BY <1>1 DEF Handled
<1>5. \A p \in Partitions : \A n \in 1..position[p] : Handled(p, n)
  BY <1>1 DEF IInv, ReadIsHandled
<1>6. OffsetsAreRead'
  BY <1>1, <1>2, <1>3 DEF IInv, OffsetsAreRead
<1>7. ReadIsHandled'
  BY <1>1, <1>2, <1>4, <1>5 DEF ReadIsHandled
<1>8. PassedIsHandled'
  <2> SUFFICES ASSUME NEW p \in Partitions, NEW n \in Nat \ {0}, n <= committed[p] \/ n <= inflight'[p]
               PROVE  Handled(p, n)
    BY <1>1, <1>4 DEF PassedIsHandled
  <2>1. n \in 1..position[p]
    BY <1>2, <1>3 DEF IInv, OffsetsAreRead
  <2>2. QED
    BY <2>1, <1>5
<1>9. InHand' /\ FeedFollowsTable'
  BY <1>1 DEF IInv, InHand, FeedFollowsTable
<1>10. QED
  BY <1>6, <1>7, <1>8, <1>9 DEF IInv

(* Every step of _handle keeps the invariant.                               *)
LEMMA HandlerKeeps ==
    ASSUME IInv, TypeOK', Handle
    PROVE  IInv'
<1>1. CASE Save
  <2>1. /\ UNCHANGED <<log, committed, inflight, position, current, casts, failed, unaired>>
        /\ pc = "handling" /\ pc' = "saved"
        /\ Message \notin saved /\ saved' = saved \cup {Message}
    BY <1>1 DEF Save
  <2>2. Message' = Message /\ Message \in Events /\ casts[Message] \in Nat
    BY <2>1 DEF Message, IInv, InHand, TypeOK
  <2>3. casts[Message] = 0
    BY <2>1, <2>2 DEF IInv, FeedFollowsTable
  <2>4. InHand'
    BY <2>1, <2>2, <2>3 DEF IInv, InHand
  <2>5. FeedFollowsTable'
    BY <2>1, <2>2 DEF IInv, FeedFollowsTable
  <2>6. Handled(current, position[current])'
    BY <2>1 DEF Handled, Message
  <2>7. QED
    BY <2>1, <2>4, <2>5, <2>6, HandleKeeps
<1>2. CASE SaveDuplicate
  <2>1. /\ UNCHANGED <<log, committed, inflight, position, current, saved, casts, failed, unaired>>
        /\ pc = "handling" /\ pc' = "duplicate" /\ Message \in saved
    BY <1>2 DEF SaveDuplicate
  <2>2. Message' = Message
    BY <2>1 DEF Message
  <2>3. InHand' /\ FeedFollowsTable'
    BY <2>1, <2>2 DEF IInv, InHand, FeedFollowsTable
  <2>4. Handled(current, position[current])'
    BY <2>1 DEF Handled, Message
  <2>5. QED
    BY <2>1, <2>3, <2>4, HandleKeeps
<1>3. CASE SaveError \/ SaveDisconnected \/ BroadcastError
  BY <1>3, FailureKeeps DEF SaveError, SaveDisconnected, BroadcastError
<1>4. CASE Broadcast
  <2>1. /\ UNCHANGED <<log, committed, inflight, position, current, saved, failed, unaired>>
        /\ pc = "saved" /\ pc' = "broadcast"
        /\ casts' = [casts EXCEPT ![Message] = @ + 1]
    BY <1>4 DEF Broadcast
  <2>2. Message' = Message /\ Message \in Events /\ Message \in saved /\ casts[Message] = 0
    BY <2>1 DEF Message, IInv, InHand
  <2>3. InHand'
    BY <2>1, <2>2 DEF IInv, InHand
  <2>4. \A e \in Events : casts'[e] = IF e = Message THEN 1 ELSE casts[e]
    BY <2>1, <2>2 DEF IInv, TypeOK
  <2>5. FeedFollowsTable'
    BY <2>1, <2>2, <2>4 DEF IInv, FeedFollowsTable
  <2>6. QED
    BY <2>1, <2>3, <2>5, HandleKeeps
<1>5. CASE Commit
  BY <1>5, CommitKeeps
<1>6. CASE CommitRaises
  BY <1>6, FailureKeeps, DeathKeeps DEF CommitRaises
<1>7. QED
  BY <1>1, <1>2, <1>3, <1>4, <1>5, <1>6 DEF Handle

(* The answer to a commit that was under way, or its loss.                  *)
LEMMA AnswerKeeps ==
    ASSUME IInv, TypeOK', NEW q \in Partitions, CommitLands(q) \/ CommitIsLost(q)
    PROVE  IInv'
<1>1. UNCHANGED <<log, position, pc, current, saved, casts, failed, unaired>>
  BY DEF CommitLands, CommitIsLost
<1>2. \A p \in Partitions :
          committed[p] \in Nat /\ inflight[p] \in Nat /\ position[p] \in Nat /\ Len(log[p]) \in Nat
  BY DEF IInv, TypeOK
<1>3. \A p \in Partitions :
          committed'[p] \in {committed[p], inflight[p]} /\ inflight'[p] \in {inflight[p], 0}
  BY DEF CommitLands, CommitIsLost, IInv, TypeOK
<1>4. \A p \in Partitions, n \in Nat : Handled(p, n)' <=> Handled(p, n)
  BY <1>1 DEF Handled
<1>5. OffsetsAreRead'
  BY <1>1, <1>2, <1>3 DEF IInv, OffsetsAreRead
<1>6. InHand' /\ FeedFollowsTable'
  BY <1>1 DEF IInv, InHand, FeedFollowsTable, Message
<1>7. ReadIsHandled'
  BY <1>1, <1>2, <1>4 DEF IInv, ReadIsHandled
<1>8. PassedIsHandled'
  <2> SUFFICES ASSUME NEW p \in Partitions, NEW n \in Nat \ {0},
                      n <= committed'[p] \/ n <= inflight'[p]
               PROVE  Handled(p, n)
    BY <1>4 DEF PassedIsHandled
  <2>1. n <= committed[p] \/ n <= inflight[p]
    BY <1>2, <1>3
  <2>2. QED
    BY <2>1 DEF IInv, PassedIsHandled
<1>9. QED
  BY <1>5, <1>6, <1>7, <1>8 DEF IInv

(* A new process reads from the committed offsets, before which everything  *)
(* is handled.                                                              *)
LEMMA RestartKeeps ==
    ASSUME IInv, TypeOK', Restart
    PROVE  IInv'
<1>1. /\ UNCHANGED <<log, committed, inflight, current, saved, casts, failed, unaired>>
      /\ pc = "down" /\ pc' = "poll" /\ position' = committed
  BY DEF Restart
<1>2. \A p \in Partitions :
          committed[p] \in Nat /\ inflight[p] \in Nat /\ position[p] \in Nat /\ Len(log[p]) \in Nat
  BY DEF IInv, TypeOK
<1>3. \A p \in Partitions, n \in Nat : Handled(p, n)' <=> Handled(p, n)
  BY <1>1 DEF Handled
<1>4. OffsetsAreRead'
  BY <1>1, <1>2 DEF IInv, OffsetsAreRead
<1>5. InHand' /\ FeedFollowsTable'
  BY <1>1 DEF IInv, InHand, FeedFollowsTable
<1>6. PassedIsHandled'
  BY <1>1, <1>3 DEF IInv, PassedIsHandled
<1>7. ReadIsHandled'
  <2> SUFFICES ASSUME NEW p \in Partitions, NEW n \in 1..committed[p]
               PROVE  Handled(p, n)
    BY <1>1, <1>2, <1>3 DEF ReadIsHandled
  <2>1. n \in Nat \ {0} /\ n <= committed[p]
    BY <1>2
  <2>2. QED
    BY <2>1 DEF IInv, PassedIsHandled
<1>8. QED
  BY <1>4, <1>5, <1>6, <1>7 DEF IInv

(* Every step of the consumer and of its surroundings keeps the invariant.  *)
LEMMA Inductive == IInv /\ [Next]_vars => IInv'
<1> SUFFICES ASSUME IInv, [Next]_vars
             PROVE  IInv'
  OBVIOUS
<1>1. TypeOK'
  BY TypeStep DEF IInv
<1>2. ASSUME NEW p \in Partitions, NEW m \in Events \cup {Garbage}, Publish(p, m)
      PROVE  IInv'
  BY <1>1, <1>2, PublishKeeps
<1>3. ASSUME NEW p \in Partitions, Poll(p)
      PROVE  IInv'
  BY <1>1, <1>3, PollKeeps
<1>4. ASSUME NEW p \in Partitions, CommitLands(p) \/ CommitIsLost(p)
      PROVE  IInv'
  BY <1>1, <1>4, AnswerKeeps
<1>5. CASE Handle
  BY <1>1, <1>5, HandlerKeeps
<1>6. CASE Crash
  BY <1>1, <1>6, DeathKeeps DEF Crash
<1>7. CASE Restart
  BY <1>1, <1>7, RestartKeeps
<1>8. CASE LoseConnection \/ Wait \/ UNCHANGED vars
  <2>1. UNCHANGED <<log, committed, inflight, position, pc, current, saved, casts, failed, unaired>>
    BY <1>8 DEF LoseConnection, Wait, vars
  <2>2. QED
    BY <1>1, <2>1 DEF IInv, OffsetsAreRead, InHand, ReadIsHandled, PassedIsHandled,
                      FeedFollowsTable, Handled, Message
<1>9. QED
  BY <1>2, <1>3, <1>4, <1>5, <1>6, <1>7, <1>8 DEF Next

(* Nothing is published, read or handled at the start.                      *)
LEMMA Start == Init => IInv
<1> SUFFICES ASSUME Init
             PROVE  IInv
  OBVIOUS
<1>1. TypeOK
  BY DEF Init, TypeOK
<1>2. OffsetsAreRead
  BY DEF Init, OffsetsAreRead
<1>3. InHand /\ FeedFollowsTable
  BY DEF Init, InHand, FeedFollowsTable
<1>4. ReadIsHandled /\ PassedIsHandled
  BY DEF Init, ReadIsHandled, PassedIsHandled
<1>5. QED
  BY <1>1, <1>2, <1>3, <1>4 DEF IInv

(* The invariant holds in every state.                                      *)
LEMMA Invariant == Spec => []IInv
<1>1. QED
  BY Start, Inductive, PTL DEF Spec

----------------------------------------------------------------------------
(* The variables of the consumer have the types they are declared with, for *)
(* any number of events and partitions.                                     *)
THEOREM TypeCorrect == Spec => []TypeOK
<1>1. IInv => TypeOK
  BY DEF IInv
<1>2. QED
  BY <1>1, Invariant, PTL

(* The consumer passes over no event in silence: whatever crashes, commits  *)
(* are lost or connections break, and however often, what lies before an    *)
(* offset that is committed or being committed is in the table of audit     *)
(* events or its handling ended in an error.                                *)
THEOREM NothingPassesInSilence == Spec => []PassedIsSavedOrFailed
<1>1. IInv => PassedIsSavedOrFailed
  <2> SUFFICES ASSUME IInv, NEW p \in Partitions, NEW n \in DOMAIN log[p],
                      n <= committed[p] \/ n <= inflight[p]
               PROVE  Handled(p, n)
    BY DEF PassedIsSavedOrFailed, Handled
  <2>1. n \in Nat \ {0}
    BY DEF IInv, TypeOK
  <2>2. QED
    BY <2>1 DEF IInv, PassedIsHandled
<1>2. QED
  BY <1>1, Invariant, PTL

(* The live feed shows no event twice and none that is not in the table,    *)
(* however often its message is redelivered or published again; and it      *)
(* shows every event in the table, but the one about to be broadcast and    *)
(* those whose handling was cut short between insert and broadcast.         *)
THEOREM FeedShowsWhatIsSaved == Spec => []FeedFollowsTable
<1>1. IInv => FeedFollowsTable
  BY DEF IInv
<1>2. QED
  BY <1>1, Invariant, PTL
=============================================================================
