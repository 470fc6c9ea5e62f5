------------------------------ MODULE LiveFeed ------------------------------
(***************************************************************************)
(* The live feed: the broadcasts of audit-service on their way through the *)
(* channel group (AuditEventsConsumer) and the WebSocket of one browser    *)
(* tab (EventStreamClient) into the events of the dashboard                *)
(* (useEventsStore).  Broadcasts are numbered in their order; AuditConsumer *)
(* shows that each is of an event of its own, saved before.                *)
(*                                                                         *)
(* The page mounts a client and destroys it when it is left or the user    *)
(* logs out.  A client                                                     *)
(*   fetching     awaits the token,                                        *)
(*   holding      has its answer but has not gone on: destroy() may run in *)
(*                both;                                                    *)
(*   connecting   has a WebSocket that is not open;                        *)
(*   open         has one whose badge says "Live";                         *)
(*   waiting      has the timer of the next attempt, after a close;        *)
(*   gone         was destroyed, or was never created.                     *)
(*                                                                         *)
(* The delay of the timer (1 s to 30 s) is time and left out.  A socket    *)
(* that closes leaves the group in the same step: what the group sends to  *)
(* a closed socket reaches nobody.  There is no heartbeat in the client: a *)
(* connection can be dead while the client believes it open (CutLink).     *)
(* Redis, uvicorn and the network are external.                            *)
(***************************************************************************)
EXTENDS Naturals, Sequences

CONSTANTS
    Clients,        \* EventStreamClient objects of the tab
    NoClient,       \* the page of the feed is not mounted
    MaxFeed,        \* MAX_EVENTS
    MaxAired        \* bound of the model: broadcasts in a behaviour

ASSUME MaxFeedAssumption == MaxFeed \in Nat \ {0} /\ MaxAired \in Nat
ASSUME NoClientAssumption == NoClient \notin Clients

VARIABLES
    session,        \* whether the cookie with the access token is there
    active,         \* clientRef: the client that is mounted
    phase,          \* phase[k]: where client k is
    group,          \* the sockets in the group audit_events
    link,           \* accepted sockets that still connect client and server
    channel,        \* channel[k]: messages of the group not yet sent to k
    feed,           \* the events of the store, the newest first
    aired,          \* how many broadcasts there were
    since,          \* history of the model: broadcasts before the socket of k opened
    overrun,        \* history of the model: sockets that Redis had no room for once
    shown           \* history of the model: broadcasts that were put into the store

vars == <<session, active, phase, group, link, channel, feed, aired, since, overrun, shown>>

----------------------------------------------------------------------------
Init ==
    /\ session = TRUE
    /\ active = NoClient
    /\ phase = [k \in Clients |-> "gone"]
    /\ group = {}
    /\ link = {}
    /\ channel = [k \in Clients |-> <<>>]
    /\ feed = <<>>
    /\ aired = 0
    /\ since = [k \in Clients |-> 0]
    /\ overrun = {}
    /\ shown = {}

To(k, where) == phase' = [phase EXCEPT ![k] = where]

(* What is left of the socket of k when it closes.                          *)
CloseSocket(k) ==
    /\ group' = group \ {k}
    /\ link' = link \ {k}
    /\ channel' = [channel EXCEPT ![k] = <<>>]
    /\ since' = [since EXCEPT ![k] = 0]
    /\ overrun' = overrun \ {k}

----------------------------------------------------------------------------
(* The browser.                                                            *)

SignIn ==
    /\ ~session
    /\ session' = TRUE
    /\ UNCHANGED <<active, phase, group, link, channel, feed, aired, since, overrun, shown>>

(* The cookie expires after 30 minutes, or logout clears it.                *)
SignOut ==
    /\ session
    /\ session' = FALSE
    /\ UNCHANGED <<active, phase, group, link, channel, feed, aired, since, overrun, shown>>

(* The effect of useEventStream: new EventStreamClient, connect().          *)
Mount(k) ==
    /\ active = NoClient
    /\ phase[k] = "gone"
    /\ active' = k
    /\ To(k, "fetching")
    /\ UNCHANGED <<session, group, link, channel, feed, aired, since, overrun, shown>>

(* Its cleanup: destroy() clears the timer and closes the socket, but       *)
(* cannot stop a fetch.                                                     *)
Unmount(k) ==
    /\ active = k
    /\ active' = NoClient
    /\ To(k, IF phase[k] \in {"fetching", "holding"} THEN phase[k] ELSE "gone")
    /\ CloseSocket(k)
    /\ UNCHANGED <<session, feed, aired, shown>>

(* The route reads the cookie.                                              *)
GetToken(k) ==
    /\ phase[k] = "fetching"
    /\ session
    /\ To(k, "holding")
    /\ UNCHANGED <<session, active, group, link, channel, feed, aired, since, overrun, shown>>

(* Mutated form: the flag destroyed is not tested after the await.          *)
OpenSocketUntested(k) ==
    /\ phase[k] = "holding"
    /\ To(k, "connecting")
    /\ UNCHANGED <<session, active, group, link, channel, feed, aired, since, overrun, shown>>

OpenSocket(k) ==
    /\ phase[k] = "holding"
    /\ To(k, IF k = active THEN "connecting" ELSE "gone")
    /\ UNCHANGED <<session, active, group, link, channel, feed, aired, since, overrun, shown>>

(* Mutated form: no reconnection is scheduled without a token.              *)
GiveUpWithoutToken(k) ==
    /\ phase[k] = "fetching"
    /\ To(k, "gone")
    /\ UNCHANGED <<session, active, group, link, channel, feed, aired, since, overrun, shown>>

(* No token: the answer is 401, or there is none.                           *)
NoToken(k) ==
    /\ phase[k] = "fetching"
    /\ To(k, IF k = active THEN "waiting" ELSE "gone")
    /\ UNCHANGED <<session, active, group, link, channel, feed, aired, since, overrun, shown>>

TimerFires(k) ==
    /\ phase[k] = "waiting"
    /\ To(k, "fetching")
    /\ UNCHANGED <<session, active, group, link, channel, feed, aired, since, overrun, shown>>

(* onclose: the server refused the token (4001), went down, or the network  *)
(* did; scheduleReconnect() unless destroyed.                               *)
SocketCloses(k) ==
    /\ phase[k] \in {"connecting", "open"}
    /\ To(k, IF k = active THEN "waiting" ELSE "gone")
    /\ CloseSocket(k)
    /\ UNCHANGED <<session, active, feed, aired, shown>>

(* Mutated form: the list is cut before the event is put in front of it.    *)
StoredUncut(e) == <<e>> \o SubSeq(feed, 1, IF Len(feed) < MaxFeed THEN Len(feed) ELSE MaxFeed)

(* push of the store: the newest first, at most MAX_EVENTS.                 *)
Stored(e) == <<e>> \o SubSeq(feed, 1, IF Len(feed) < MaxFeed THEN Len(feed) ELSE MaxFeed - 1)

(* onmessage.                                                               *)
Receive(k) ==
    /\ phase[k] = "open"
    /\ k \in link
    /\ channel[k] # <<>>
    /\ feed' = Stored(Head(channel[k]))
    /\ shown' = shown \cup {Head(channel[k])}
    /\ channel' = [channel EXCEPT ![k] = Tail(@)]
    /\ UNCHANGED <<session, active, phase, group, link, aired, since, overrun>>

ClearFeed ==
    /\ feed # <<>>
    /\ feed' = <<>>
    /\ UNCHANGED <<session, active, phase, group, link, channel, aired, since, overrun, shown>>

----------------------------------------------------------------------------
(* The server.                                                             *)

(* connect() of AuditEventsConsumer: group_add, then accept().  For a token *)
(* that expired meanwhile it closes instead (SocketCloses).                 *)
JoinGroup(k) ==
    /\ phase[k] = "connecting"
    /\ k \notin group
    /\ group' = group \cup {k}
    /\ UNCHANGED <<session, active, phase, link, channel, feed, aired, since, overrun, shown>>

Accepted(k) ==
    /\ To(k, "open")
    /\ link' = link \cup {k}
    /\ since' = [since EXCEPT ![k] = aired]
    /\ overrun' = overrun \ {k}
    /\ UNCHANGED <<session, active, group, channel, feed, aired, shown>>

(* Mutated form: the socket is accepted before it is in the group.          *)
AcceptFirst(k) == phase[k] = "connecting" /\ Accepted(k)

Accept(k) == phase[k] = "connecting" /\ k \in group /\ Accepted(k)

(* The server's side of an open socket is gone and the browser does not     *)
(* know.                                                                    *)
CutLink(k) ==
    /\ k \in link
    /\ CloseSocket(k)
    /\ UNCHANGED <<session, active, phase, feed, aired, shown>>

(* group_send: a copy for each member of the group, in order, except those  *)
(* whose list in Redis is full.  All sockets of a server process share one  *)
(* list (of 100 messages), so that it may be full at any time.              *)
Broadcast ==
    /\ aired < MaxAired
    /\ aired' = aired + 1
    /\ \E full \in SUBSET group :
          /\ channel' = [k \in Clients |-> IF k \in group \ full THEN Append(channel[k], aired + 1)
                                                               ELSE channel[k]]
          /\ overrun' = overrun \cup full
    /\ UNCHANGED <<session, active, phase, group, link, feed, since, shown>>

----------------------------------------------------------------------------
Browser(k) ==
    \/ Mount(k) \/ Unmount(k)
    \/ GetToken(k) \/ NoToken(k) \/ OpenSocket(k) \/ TimerFires(k)
    \/ SocketCloses(k) \/ Receive(k)

Server(k) == JoinGroup(k) \/ Accept(k) \/ CutLink(k)

Next ==
    \/ Broadcast
    \/ SignIn \/ SignOut \/ ClearFeed
    \/ \E k \in Clients : Browser(k) \/ Server(k)

Spec == Init /\ [][Next]_vars

(* Timers fire and fetches end.  The network and the server let an attempt  *)
(* through now and again.                                                   *)
Fairness ==
    \A k \in Clients :
        /\ WF_vars(TimerFires(k)) /\ WF_vars(OpenSocket(k))
        /\ WF_vars(GetToken(k) \/ NoToken(k)) /\ SF_vars(GetToken(k))
        /\ SF_vars(JoinGroup(k)) /\ SF_vars(Accept(k))

FairSpec == Spec /\ Fairness

----------------------------------------------------------------------------
(* Properties.                                                             *)

TypeOK ==
    /\ session \in BOOLEAN
    /\ active \in Clients \cup {NoClient}
    /\ phase \in [Clients -> {"gone", "fetching", "holding", "connecting", "open", "waiting"}]
    /\ link \in SUBSET Clients /\ group \in SUBSET Clients
    /\ channel \in [Clients -> Seq(1..aired)]
    /\ feed \in Seq(1..aired) /\ Len(feed) <= MaxFeed
    /\ aired \in Nat
    /\ since \in [Clients -> 0..aired]
    /\ shown \in SUBSET (1..aired) /\ overrun \in SUBSET Clients

(* The feed shows events in the order in which they were broadcast, the     *)
(* newest first, and none of them twice: however often the page is left and *)
(* opened or the socket reconnected, no second socket of the tab puts its   *)
(* events beside those of the first.                                        *)
FeedInBroadcastOrder ==
    \A i, j \in DOMAIN feed : i < j => feed[i] > feed[j]

(* While the badge says "Live" nothing is missed: every event broadcast     *)
(* since the socket opened was shown or is on its way, unless the           *)
(* connection is dead and the browser has not noticed, or Redis had no room *)
(* for a message of this socket.                                            *)
LiveMissesNothing ==
    \A k \in link \ overrun : phase[k] = "open" =>
        \A n \in (since[k] + 1)..aired :
            n \in shown \cup {channel[k][i] : i \in DOMAIN channel[k]}

(* A mounted client does not give up: it is open again in the end, or the   *)
(* page is left, or the session is over.                                    *)
ReopensWhileMounted ==
    \A k \in Clients : active = k ~> phase[k] = "open" \/ active # k \/ ~session
=============================================================================
