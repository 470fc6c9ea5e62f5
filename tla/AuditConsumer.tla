--------------------------- MODULE AuditConsumer ---------------------------
(***************************************************************************)
(* The Kafka consumer of audit-service (run_audit_consumer): one process   *)
(* that polls every partition, inserts an AuditEvent for each message,     *)
(* broadcasts it to the WebSocket group of the live feed and commits the   *)
(* offset.  The insert is a statement of its own, committed before the     *)
(* broadcast; the unique index on event_id turns a redelivery into an      *)
(* IntegrityError.                                                         *)
(*                                                                         *)
(* Offsets here are counts: position n means that the first n messages of  *)
(* the partition have been returned by poll, committed n that a restart    *)
(* begins with message n + 1.                                              *)
(*                                                                         *)
(* External, modelled from how the consumer uses it: the broker's logs     *)
(* (Publish), the client library, whose commit() is asynchronous by        *)
(* default (CommitLands, CommitIsLost), and Django, which does not reopen  *)
(* a connection that broke under a management command (LoseConnection).    *)
(***************************************************************************)
EXTENDS Naturals, Sequences, FiniteSets

CONSTANTS
    Events,         \* event ids
    Partitions,     \* partitions of all the topics subscribed to
    PartitionOf,    \* the partition of each event, by its topic and key
    Garbage,        \* a message that is not JSON
    MaxLength,      \* bound of the model: messages per partition
    Faults,         \* which kinds of fault may happen
    MaxFaults       \* bound of the model: how many faults happen in a behaviour

FaultKinds == {"database", "connection", "redis", "commit", "crash"}

ASSUME GarbageAssumption == Garbage \notin Events
ASSUME PartitionsAssumption == PartitionOf \in [Events -> Partitions]
ASSUME BoundsAssumption == MaxLength \in Nat /\ MaxFaults \in Nat /\ Faults \subseteq FaultKinds

VARIABLES
    log,            \* log[p]: messages of partition p in the broker
    committed,      \* committed[p]: the offset of the group in the broker
    inflight,       \* inflight[p]: an asynchronous commit under way, 0 if none
    position,       \* position[p]: how far poll has read, in memory
    pc,             \* where the process is in _handle
    current,        \* the partition of the message in hand
    connected,      \* whether the process's database connection works
    saved,          \* event ids in the table of audit events
    casts,          \* casts[e]: how many times e went to the live feed
    failed,         \* history of the model: messages whose handling ended in an error
    unaired,        \* history of the model: events saved whose broadcast was prevented
    faults          \* how many faults have happened

vars == <<log, committed, inflight, position, pc, current, connected,
          saved, casts, failed, unaired, faults>>

----------------------------------------------------------------------------
Init ==
    /\ log = [p \in Partitions |-> <<>>]
    /\ committed = [p \in Partitions |-> 0]
    /\ inflight = [p \in Partitions |-> 0]
    /\ position = [p \in Partitions |-> 0]
    /\ pc = "poll"
    /\ current \in Partitions
    /\ connected = TRUE
    /\ saved = {}
    /\ casts = [e \in Events |-> 0]
    /\ failed = {}
    /\ unaired = {}
    /\ faults = 0

Fault(kind) ==
    /\ kind \in Faults
    /\ faults < MaxFaults
    /\ faults' = faults + 1

Here == <<current, position[current]>>
Message == log[current][position[current]]

(* Any number of copies of an event may be appended, and anything else.     *)
Publish(p, m) ==
    /\ Len(log[p]) < MaxLength
    /\ m # Garbage => PartitionOf[m] = p
    /\ log' = [log EXCEPT ![p] = Append(@, m)]
    /\ UNCHANGED <<committed, inflight, position, pc, current, connected,
                   saved, casts, failed, unaired, faults>>

----------------------------------------------------------------------------
(* run and _handle.                                                        *)

(* Mutated form: a message that is not JSON is not recognised. *)
PollAnything(p) ==
    /\ pc = "poll"
    /\ position[p] < Len(log[p])
    /\ position' = [position EXCEPT ![p] = @ + 1]
    /\ current' = p
    /\ pc' = "handling"
    /\ UNCHANGED <<log, committed, inflight, connected, saved, casts, failed, unaired, faults>>

Poll(p) ==
    /\ pc = "poll"
    /\ position[p] < Len(log[p])
    /\ position' = [position EXCEPT ![p] = @ + 1]
    /\ current' = p
    /\ pc' = IF log[p][position[p] + 1] = Garbage THEN "poll" ELSE "handling"
    /\ UNCHANGED <<log, committed, inflight, connected, saved, casts, failed, unaired, faults>>

(* Mutated form: every message is inserted, with no unique event_id. *)
SaveTwice ==
    /\ pc = "handling"
    /\ connected
    /\ saved' = saved \cup {Message}
    /\ pc' = "saved"
    /\ UNCHANGED <<log, committed, inflight, position, current, connected,
                   casts, failed, unaired, faults>>

(* Mutated form: the broadcast is left out. *)
SaveQuietly ==
    /\ pc = "handling"
    /\ connected
    /\ Message \notin saved
    /\ saved' = saved \cup {Message}
    /\ pc' = "broadcast"
    /\ UNCHANGED <<log, committed, inflight, position, current, connected,
                   casts, failed, unaired, faults>>

Save ==
    /\ pc = "handling"
    /\ connected
    /\ Message \notin saved
    /\ saved' = saved \cup {Message}
    /\ pc' = "saved"
    /\ UNCHANGED <<log, committed, inflight, position, current, connected,
                   casts, failed, unaired, faults>>

(* IntegrityError: the offset is committed and nothing is broadcast.        *)
SaveDuplicate ==
    /\ pc = "handling"
    /\ connected
    /\ Message \in saved
    /\ pc' = "duplicate"
    /\ UNCHANGED <<log, committed, inflight, position, current, connected,
                   saved, casts, failed, unaired, faults>>

(* The insert is committed and the broadcast did not happen.                *)
Interrupted == unaired' = IF pc = "saved" THEN unaired \cup {Message} ELSE unaired

(* except Exception: the error is logged, nothing is committed, and poll    *)
(* goes on with the next message.                                           *)
HandlingFails ==
    /\ failed' = failed \cup {Here}
    /\ Interrupted
    /\ pc' = "poll"
    /\ UNCHANGED <<log, committed, inflight, position, current, connected, saved, casts>>

(* The statement fails once: a timeout, a deadlock, a full disk.            *)
SaveError == pc = "handling" /\ connected /\ Fault("database") /\ HandlingFails

(* The statement fails because the connection is gone.                      *)
SaveDisconnected == pc = "handling" /\ ~connected /\ HandlingFails /\ UNCHANGED faults

Broadcast ==
    /\ pc = "saved"
    /\ casts' = [casts EXCEPT ![Message] = @ + 1]
    /\ pc' = "broadcast"
    /\ UNCHANGED <<log, committed, inflight, position, current, connected,
                   saved, failed, unaired, faults>>

BroadcastError == pc = "saved" /\ Fault("redis") /\ HandlingFails

(* Mutated form: the offset committed is that of the next message. *)
CommitNext ==
    /\ pc \in {"broadcast", "duplicate"}
    /\ inflight' = [inflight EXCEPT ![current] = position[current] + 1]
    /\ pc' = "poll"
    /\ UNCHANGED <<log, committed, position, current, connected,
                   saved, casts, failed, unaired, faults>>

(* commit(message=msg) sends the offset and does not wait; a commit under   *)
(* way is superseded.                                                       *)
Commit ==
    /\ pc \in {"broadcast", "duplicate"}
    /\ inflight' = [inflight EXCEPT ![current] = position[current]]
    /\ pc' = "poll"
    /\ UNCHANGED <<log, committed, position, current, connected,
                   saved, casts, failed, unaired, faults>>

Die ==
    /\ Interrupted
    /\ pc' = "down"
    /\ inflight' = [p \in Partitions |-> 0]
    /\ UNCHANGED <<log, committed, position, current, connected, saved, casts, failed>>

(* commit() itself raises.  After a save the exception is caught like any   *)
(* other; in the handler of IntegrityError nothing catches it.              *)
CommitRaises ==
    /\ Fault("commit")
    /\ \/ pc = "broadcast" /\ HandlingFails
       \/ pc = "duplicate" /\ Die

Crash == pc # "down" /\ Fault("crash") /\ Die

(* Mutated form: a new process goes on after the last message of the log. *)
RestartAtEnd ==
    /\ pc = "down"
    /\ pc' = "poll"
    /\ position' = [p \in Partitions |-> Len(log[p])]
    /\ connected' = TRUE
    /\ UNCHANGED <<log, committed, inflight, current, saved, casts, failed, unaired, faults>>

(* restart: unless-stopped.  The new process begins at the committed        *)
(* offsets, or at the beginning (auto.offset.reset), with a new connection. *)
Restart ==
    /\ pc = "down"
    /\ pc' = "poll"
    /\ position' = committed
    /\ connected' = TRUE
    /\ UNCHANGED <<log, committed, inflight, current, saved, casts, failed, unaired, faults>>

----------------------------------------------------------------------------
(* The outside.                                                            *)

CommitLands(p) ==
    /\ inflight[p] # 0
    /\ committed' = [committed EXCEPT ![p] = inflight[p]]
    /\ inflight' = [inflight EXCEPT ![p] = 0]
    /\ UNCHANGED <<log, position, pc, current, connected, saved, casts, failed, unaired, faults>>

CommitIsLost(p) ==
    /\ inflight[p] # 0
    /\ Fault("commit")
    /\ inflight' = [inflight EXCEPT ![p] = 0]
    /\ UNCHANGED <<log, committed, position, pc, current, connected,
                   saved, casts, failed, unaired>>

(* PostgreSQL restarts or drops the connection while the consumer runs.     *)
LoseConnection ==
    /\ connected
    /\ Fault("connection")
    /\ connected' = FALSE
    /\ UNCHANGED <<log, committed, inflight, position, pc, current,
                   saved, casts, failed, unaired>>

(* poll returns None. *)
Wait ==
    /\ pc = "poll"
    /\ \A p \in Partitions : position[p] = Len(log[p])
    /\ UNCHANGED vars

----------------------------------------------------------------------------
Handle ==
    \/ Save \/ SaveDuplicate \/ SaveError \/ SaveDisconnected
    \/ Broadcast \/ BroadcastError
    \/ Commit \/ CommitRaises

Next ==
    \/ \E p \in Partitions : \E m \in Events \cup {Garbage} : Publish(p, m)
    \/ \E p \in Partitions : Poll(p) \/ CommitLands(p) \/ CommitIsLost(p)
    \/ Handle
    \/ Wait
    \/ Crash
    \/ Restart
    \/ LoseConnection

Spec == Init /\ [][Next]_vars

(* The process is scheduled and restarted, and poll serves every partition. *)
Fairness ==
    /\ WF_vars(Handle)
    /\ WF_vars(Restart)
    /\ \A p \in Partitions : SF_vars(Poll(p)) /\ WF_vars(CommitLands(p))

FairSpec == Spec /\ Fairness

----------------------------------------------------------------------------
(* Properties.                                                             *)

TypeOK ==
    /\ log \in [Partitions -> Seq(Events \cup {Garbage})]
    /\ committed \in [Partitions -> Nat]
    /\ inflight \in [Partitions -> Nat]
    /\ position \in [Partitions -> Nat]
    /\ pc \in {"poll", "handling", "saved", "duplicate", "broadcast", "down"}
    /\ current \in Partitions
    /\ connected \in BOOLEAN
    /\ saved \in SUBSET Events
    /\ casts \in [Events -> Nat]
    /\ failed \in SUBSET (Partitions \X Nat)
    /\ unaired \in SUBSET Events
    /\ faults \in Nat

(* The consumer never passes over an event in silence: every event below    *)
(* the committed offset, or below an offset whose commit is under way, is   *)
(* in the table, or its handling is known to have failed.  Crashes, lost    *)
(* commits and redeliveries do not break it.                                *)
PassedIsSavedOrFailed ==
    \A p \in Partitions : \A n \in DOMAIN log[p] :
        n <= committed[p] \/ n <= inflight[p] =>
            \/ log[p][n] \in saved \cup {Garbage}
            \/ <<p, n>> \in failed

(* The live feed follows the table.  However often a message is redelivered *)
(* its event is shown at most once, and only when it is in the table; and   *)
(* an event in the table was shown, unless its broadcast is the next thing  *)
(* the process does or an error or the end of the process came in between:  *)
(* nothing else keeps an event from those who watch, as its redelivery      *)
(* never will show it.                                                      *)
FeedFollowsTable ==
    \A e \in Events :
        /\ casts[e] <= 1
        /\ casts[e] = 1 => e \in saved
        /\ e \in saved => \/ casts[e] = 1
                          \/ pc = "saved" /\ Message = e
                          \/ e \in unaired

(* Every event published is audited in the end, or its handling is known to *)
(* have failed: crashes, lost commits and lost connections make the         *)
(* consumer neither stop nor skip in silence.                               *)
EveryEventIsAuditedOrFailed ==
    \A e \in Events :
        LET p == PartitionOf[e]
            Places == {n \in DOMAIN log[p] : log[p][n] = e}
        IN  Places # {} ~> e \in saved \/ \E n \in Places : <<p, n>> \in failed

(* What the documentation says of Kafka and its consumers: a message whose  *)
(* handling failed is delivered again.  So an event that the group has      *)
(* committed past, which is not delivered any more, is in the table.        *)
CommittedIsAudited ==
    \A p \in Partitions : \A n \in DOMAIN log[p] :
        n <= committed[p] => log[p][n] \in saved \cup {Garbage}
=============================================================================
