--------------------------- MODULE LiveFeed_proofs ---------------------------
(***************************************************************************)
(* Theorems of LiveFeed for any number of clients and broadcasts and any   *)
(* size of the store.                                                      *)
(***************************************************************************)
EXTENDS LiveFeed, SequenceTheorems, TLAPS

USE MaxFeedAssumption, NoClientAssumption

(* What a push leaves in the store: the new event, then the old ones, cut   *)
(* at MAX_EVENTS.                                                           *)
LEMMA StoredParts ==
    ASSUME NEW S, feed \in Seq(S), Len(feed) <= MaxFeed, NEW e \in S
    PROVE  /\ Stored(e) \in Seq(S) /\ Len(Stored(e)) <= MaxFeed
           /\ Stored(e)[1] = e
           /\ \A i \in 2..Len(Stored(e)) :
                 i - 1 \in DOMAIN feed /\ Stored(e)[i] = feed[i - 1]
<1> DEFINE n == IF Len(feed) < MaxFeed THEN Len(feed) ELSE MaxFeed - 1
           kept == SubSeq(feed, 1, n)
<1>1. n \in Nat /\ n <= Len(feed) /\ n + 1 <= MaxFeed /\ Len(feed) \in Nat
  BY LenProperties
<1>2. \A i \in 1..n : feed[i] \in S
  BY <1>1, ElementOfSeq
<1>3. /\ kept \in Seq(S) /\ Len(kept) = n
      /\ \A i \in 1..n : kept[i] = feed[i]
  <2> HIDE DEF n
  <2>1. /\ kept \in Seq(S) /\ Len(kept) = IF 1 <= n THEN n - 1 + 1 ELSE 0
        /\ \A i \in 1..(n - 1 + 1) : kept[i] = feed[1 + i - 1]
    BY <1>1, <1>2, SubSeqProperties
  <2>2. QED
    BY <1>1, <2>1
<1>4. <<e>> \in Seq(S) /\ Len(<<e>>) = 1 /\ <<e>>[1] = e
  OBVIOUS
<1>5. Stored(e) = <<e>> \o kept
  BY DEF Stored
<1> HIDE DEF n, kept
<1>6. /\ Stored(e) \in Seq(S) /\ Len(Stored(e)) = 1 + n
      /\ \A i \in 1..(1 + n) : Stored(e)[i] = IF i <= 1 THEN <<e>>[i] ELSE kept[i - 1]
  BY <1>3, <1>4, <1>5, ConcatProperties
<1>7. DOMAIN feed = 1..Len(feed)
  BY LenProperties
<1>8. QED
  BY <1>1, <1>3, <1>4, <1>6, <1>7

(* What a client changes when its socket closes.                            *)
LEMMA ClosedParts ==
    ASSUME TypeOK, NEW k \in Clients, CloseSocket(k), aired' = aired
    PROVE  /\ group' \in SUBSET Clients /\ link' \in SUBSET Clients /\ overrun' \in SUBSET Clients
           /\ channel' \in [Clients -> Seq(1..aired)]
           /\ since' \in [Clients -> 0..aired]
           /\ channel'[k] = <<>>
           /\ \A j \in Clients \ {k} : channel'[j] = channel[j] /\ since'[j] = since[j]
<1>1. <<>> \in Seq(1..aired) /\ 0 \in 0..aired
  BY DEF TypeOK
<1>2. QED
  BY <1>1 DEF CloseSocket, TypeOK

----------------------------------------------------------------------------
(* Type correctness.                                                       *)

(* Every variable starts with its type.                                    *)
LEMMA TypeInit == Init => TypeOK
<1> SUFFICES ASSUME Init
             PROVE  TypeOK
  OBVIOUS
<1>1. \A S : <<>> \in Seq(S) /\ Len(<<>>) = 0
  BY EmptySeq
<1>2. QED
  BY <1>1 DEF Init, TypeOK

(* No step leaves the types.                                               *)
LEMMA TypeStep == TypeOK /\ [Next]_vars => TypeOK'
<1> SUFFICES ASSUME TypeOK, [Next]_vars
             PROVE  TypeOK'
  OBVIOUS
<1> USE DEF TypeOK
<1>1. CASE Broadcast
  <2>1. 1..aired \subseteq 1..(aired + 1) /\ aired + 1 \in 1..(aired + 1) /\ aired \in Nat
    OBVIOUS
  <2>2. Seq(1..aired) \subseteq Seq(1..(aired + 1))
    BY <2>1, SeqMonotonic
  <2>3. \A k \in Clients : Append(channel[k], aired + 1) \in Seq(1..(aired + 1))
    BY <2>1, <2>2, AppendProperties
  <2>4. channel' \in [Clients -> Seq(1..(aired + 1))]
    <3>1. PICK full \in SUBSET group :
             channel' = [k \in Clients |-> IF k \in group \ full THEN Append(channel[k], aired + 1)
                                                                ELSE channel[k]]
      BY <1>1 DEF Broadcast
    <3>2. QED
      BY <3>1, <2>2, <2>3
  <2>5. feed' \in Seq(1..(aired + 1)) /\ Len(feed') <= MaxFeed
    BY <1>1, <2>2 DEF Broadcast
  <2>6. since' \in [Clients -> 0..(aired + 1)]
    BY <1>1, <2>1 DEF Broadcast
  <2>7. overrun' \in SUBSET Clients
    BY <1>1 DEF Broadcast
  <2>8. QED
    BY <1>1, <2>1, <2>4, <2>5, <2>6, <2>7 DEF Broadcast
<1>2. CASE SignIn \/ SignOut
  BY <1>2 DEF SignIn, SignOut
<1>3. CASE ClearFeed
  BY <1>3, EmptySeq DEF ClearFeed
<1>4. ASSUME NEW k \in Clients, Mount(k) \/ GetToken(k) \/ NoToken(k) \/ OpenSocket(k) \/ TimerFires(k)
      PROVE  TypeOK'
  BY <1>4 DEF Mount, GetToken, NoToken, OpenSocket, TimerFires, To
<1>5. ASSUME NEW k \in Clients, Unmount(k) \/ SocketCloses(k) \/ CutLink(k)
      PROVE  TypeOK'
  <2>1. CloseSocket(k) /\ UNCHANGED <<session, feed, aired, shown>>
    BY <1>5 DEF Unmount, SocketCloses, CutLink
  <2>2. active' \in Clients \cup {NoClient}
    BY <1>5 DEF Unmount, SocketCloses, CutLink
  <2>3. phase' \in [Clients -> {"gone", "fetching", "holding", "connecting", "open", "waiting"}]
    BY <1>5 DEF Unmount, SocketCloses, CutLink, To
  <2>4. QED
    BY <2>1, <2>2, <2>3, ClosedParts
<1>6. ASSUME NEW k \in Clients, Receive(k)
      PROVE  TypeOK'
  <2>1. channel[k] \in Seq(1..aired) /\ channel[k] # <<>>
    BY <1>6 DEF Receive
  <2>2. Head(channel[k]) \in 1..aired /\ Tail(channel[k]) \in Seq(1..aired)
    BY <2>1, HeadTailProperties
  <2>3. Stored(Head(channel[k])) \in Seq(1..aired) /\ Len(Stored(Head(channel[k]))) <= MaxFeed
    BY <2>2, StoredParts
  <2>4. QED
    BY <1>6, <2>2, <2>3 DEF Receive
<1>7. ASSUME NEW k \in Clients, JoinGroup(k)
      PROVE  TypeOK'
  BY <1>7 DEF JoinGroup
<1>8. ASSUME NEW k \in Clients, Accept(k)
      PROVE  TypeOK'
  BY <1>8 DEF Accept, Accepted, To
<1>9. CASE UNCHANGED vars
  BY <1>9 DEF vars
<1>10. QED
  BY <1>1, <1>2, <1>3, <1>4, <1>5, <1>6, <1>7, <1>8, <1>9 DEF Next, Browser, Server

(* The variables keep their types.                                          *)
THEOREM TypeCorrect == Spec => []TypeOK
<1>1. QED
  BY TypeInit, TypeStep, PTL DEF Spec

----------------------------------------------------------------------------
(* One socket at a time.                                                   *)

(* Only the client that is mounted has a socket or a timer.                 *)
OneClient == \A k \in Clients : phase[k] \in {"connecting", "open", "waiting"} => active = k

(* The members of the group are sockets of clients, and only they have      *)
(* messages.                                                                *)
MembersHaveSockets ==
    /\ link \subseteq group
    /\ \A k \in group : phase[k] \in {"connecting", "open"}
    /\ \A k \in Clients \ group : channel[k] = <<>>

(* A client that is not mounted gets neither socket nor timer.              *)
LEMMA OneClientStep == TypeOK /\ OneClient /\ [Next]_vars => OneClient'
<1> SUFFICES ASSUME TypeOK, OneClient, [Next]_vars
             PROVE  OneClient'
  OBVIOUS
<1> USE DEF TypeOK, OneClient
<1>1. CASE Broadcast \/ SignIn \/ SignOut \/ ClearFeed \/ UNCHANGED vars
  BY <1>1 DEF Broadcast, SignIn, SignOut, ClearFeed, vars
<1>2. ASSUME NEW k \in Clients, Mount(k) \/ Unmount(k)
      PROVE  OneClient'
  BY <1>2 DEF Mount, Unmount, To
<1>3. ASSUME NEW k \in Clients, GetToken(k) \/ NoToken(k) \/ OpenSocket(k) \/ TimerFires(k) \/ SocketCloses(k)
      PROVE  OneClient'
  BY <1>3 DEF GetToken, NoToken, OpenSocket, TimerFires, SocketCloses, To
<1>4. ASSUME NEW k \in Clients, Receive(k) \/ JoinGroup(k) \/ CutLink(k)
      PROVE  OneClient'
  BY <1>4 DEF Receive, JoinGroup, CutLink
<1>5. ASSUME NEW k \in Clients, Accept(k)
      PROVE  OneClient'
  BY <1>5 DEF Accept, Accepted, To
<1>6. QED
  BY <1>1, <1>2, <1>3, <1>4, <1>5 DEF Next, Browser, Server

(* The group and the links follow the sockets.                              *)
LEMMA MembersStep == TypeOK /\ MembersHaveSockets /\ [Next]_vars => MembersHaveSockets'
<1> SUFFICES ASSUME TypeOK, MembersHaveSockets, [Next]_vars
             PROVE  MembersHaveSockets'
  OBVIOUS
<1> USE DEF TypeOK, MembersHaveSockets
<1>1. CASE Broadcast
  BY <1>1 DEF Broadcast
<1>2. CASE SignIn \/ SignOut \/ ClearFeed \/ UNCHANGED vars
  BY <1>2 DEF SignIn, SignOut, ClearFeed, vars
<1>3. ASSUME NEW k \in Clients, Mount(k) \/ GetToken(k) \/ NoToken(k) \/ OpenSocket(k) \/ TimerFires(k)
      PROVE  MembersHaveSockets'
  BY <1>3 DEF Mount, GetToken, NoToken, OpenSocket, TimerFires, To
<1>4. ASSUME NEW k \in Clients, Unmount(k) \/ SocketCloses(k) \/ CutLink(k)
      PROVE  MembersHaveSockets'
  <2>1. CloseSocket(k) /\ aired' = aired
    BY <1>4 DEF Unmount, SocketCloses, CutLink
  <2>2. \A j \in Clients \ {k} : phase'[j] = phase[j]
    BY <1>4 DEF Unmount, SocketCloses, CutLink, To
  <2>3. group' = group \ {k} /\ link' = link \ {k}
    BY <2>1 DEF CloseSocket
  <2>4. QED
    BY <2>1, <2>2, <2>3, ClosedParts
<1>5. ASSUME NEW k \in Clients, Receive(k)
      PROVE  MembersHaveSockets'
  BY <1>5 DEF Receive
<1>6. ASSUME NEW k \in Clients, JoinGroup(k)
      PROVE  MembersHaveSockets'
  BY <1>6 DEF JoinGroup
<1>7. ASSUME NEW k \in Clients, Accept(k)
      PROVE  MembersHaveSockets'
  BY <1>7 DEF Accept, Accepted, To
<1>8. QED
  BY <1>1, <1>2, <1>3, <1>4, <1>5, <1>6, <1>7 DEF Next, Browser, Server

----------------------------------------------------------------------------
(* What a Broadcast and a Receive do to a channel.                         *)

(* A copy goes behind what is there, or is left out.                        *)
LEMMA BroadcastAppends ==
    ASSUME TypeOK, Broadcast, NEW k \in Clients
    PROVE  \/ channel'[k] = channel[k]
           \/ /\ k \in group
              /\ DOMAIN channel'[k] = DOMAIN channel[k] \cup {Len(channel[k]) + 1}
              /\ \A i \in DOMAIN channel[k] : i <= Len(channel[k]) /\ channel'[k][i] = channel[k][i]
              /\ channel'[k][Len(channel[k]) + 1] = aired + 1
<1>1. PICK full \in SUBSET group :
         channel' = [j \in Clients |-> IF j \in group \ full THEN Append(channel[j], aired + 1)
                                                            ELSE channel[j]]
  BY DEF Broadcast
<1>2. channel[k] \in Seq(Nat) /\ aired + 1 \in Nat
  BY SeqMonotonic, 1..aired \subseteq Nat DEF TypeOK
<1> DEFINE c == Append(channel[k], aired + 1)
<1>3. /\ c \in Seq(Nat) /\ Len(c) = Len(channel[k]) + 1
      /\ \A i \in 1..Len(channel[k]) : c[i] = channel[k][i]
      /\ c[Len(channel[k]) + 1] = aired + 1
  BY <1>2, AppendProperties
<1>4. /\ Len(channel[k]) \in Nat /\ DOMAIN channel[k] = 1..Len(channel[k])
      /\ DOMAIN c = 1..Len(c)
  BY <1>2, <1>3, LenProperties
<1>5. channel'[k] = c \/ channel'[k] = channel[k]
  BY <1>1
<1>6. k \notin group => channel'[k] = channel[k]
  BY <1>1
<1> HIDE DEF c
<1>7. DOMAIN c = DOMAIN channel[k] \cup {Len(channel[k]) + 1}
  BY <1>3, <1>4
<1>8. QED
  BY <1>3, <1>4, <1>5, <1>6, <1>7

(* The first message is taken and the others move up.                       *)
LEMMA ReceiveTakesFirst ==
    ASSUME TypeOK, NEW k \in Clients, Receive(k)
    PROVE  /\ 1 \in DOMAIN channel[k] /\ channel[k][1] = Head(channel[k])
           /\ DOMAIN channel'[k] \subseteq Nat
           /\ \A i \in DOMAIN channel'[k] :
                 i >= 1 /\ i + 1 \in DOMAIN channel[k] /\ channel'[k][i] = channel[k][i + 1]
           /\ \A i \in DOMAIN channel[k] : i = 1 \/ (i - 1 \in DOMAIN channel'[k])
           /\ \A j \in Clients \ {k} : channel'[j] = channel[j]
<1>1. channel[k] \in Seq(1..aired) /\ channel[k] # <<>>
  BY DEF Receive, TypeOK
<1>2. channel'[k] = Tail(channel[k]) /\ \A j \in Clients \ {k} : channel'[j] = channel[j]
  BY DEF Receive, TypeOK
<1>3. /\ Tail(channel[k]) \in Seq(1..aired) /\ Len(Tail(channel[k])) = Len(channel[k]) - 1
      /\ \A i \in 1..Len(Tail(channel[k])) : Tail(channel[k])[i] = channel[k][i + 1]
  BY <1>1, HeadTailProperties
<1>4. /\ DOMAIN channel[k] = 1..Len(channel[k])
      /\ DOMAIN Tail(channel[k]) = 1..Len(Tail(channel[k]))
      /\ Len(channel[k]) \in Nat \ {0}
  BY <1>1, <1>3, LenProperties, EmptySeq
<1>5. channel[k][1] = Head(channel[k])
  BY <1>1
<1>6. QED
  BY <1>2, <1>3, <1>4, <1>5

----------------------------------------------------------------------------
(* Order.                                                                  *)

(* Messages wait in a channel in the order of their broadcasts, and behind  *)
(* everything that is shown already.                                        *)
ChannelInOrder ==
    \A k \in Clients : \A i, j \in DOMAIN channel[k] : i < j => channel[k][i] < channel[k][j]

ChannelIsNewer ==
    \A k \in Clients : \A i \in DOMAIN feed, j \in DOMAIN channel[k] : feed[i] < channel[k][j]

Ordered == ChannelInOrder /\ ChannelIsNewer /\ FeedInBroadcastOrder

(* The elements of the feed and of the channels are numbers of broadcasts.  *)
LEMMA Numbers ==
    ASSUME TypeOK
    PROVE  /\ DOMAIN feed = 1..Len(feed) /\ Len(feed) \in Nat
           /\ \A i \in DOMAIN feed : feed[i] \in 1..aired
           /\ \A k \in Clients :
                 /\ DOMAIN channel[k] = 1..Len(channel[k]) /\ Len(channel[k]) \in Nat
                 /\ \A i \in DOMAIN channel[k] : channel[k][i] \in 1..aired
<1>1. feed \in Seq(1..aired) /\ \A k \in Clients : channel[k] \in Seq(1..aired)
  BY DEF TypeOK
<1>2. DOMAIN feed = 1..Len(feed) /\ Len(feed) \in Nat
      /\ \A i \in DOMAIN feed : feed[i] \in 1..aired
  BY <1>1, LenProperties, ElementOfSeq
<1>3. ASSUME NEW k \in Clients
      PROVE  /\ DOMAIN channel[k] = 1..Len(channel[k]) /\ Len(channel[k]) \in Nat
             /\ \A i \in DOMAIN channel[k] : channel[k][i] \in 1..aired
  <2>1. channel[k] \in Seq(1..aired)
    BY <1>1
  <2>2. QED
    BY <2>1, LenProperties, ElementOfSeq
<1>4. QED
  BY <1>2, <1>3

(* Channels that stay or are emptied stay in order.                         *)
LEMMA OrderedIfSubsets ==
    ASSUME Ordered, feed' = feed,
           \A k \in Clients : channel'[k] = channel[k] \/ channel'[k] = <<>>
    PROVE  Ordered'
<1>1. \A k \in Clients : channel'[k] = channel[k] \/ DOMAIN channel'[k] = {}
  OBVIOUS
<1>2. QED
  BY <1>1 DEF Ordered, ChannelInOrder, ChannelIsNewer, FeedInBroadcastOrder

(* A push keeps the order because the other channels are empty, a broadcast *)
(* because its number is the greatest.                                      *)
LEMMA OrderedStep ==
    TypeOK /\ OneClient /\ MembersHaveSockets /\ Ordered /\ [Next]_vars => Ordered'
<1> SUFFICES ASSUME TypeOK, OneClient, MembersHaveSockets, Ordered, [Next]_vars
             PROVE  Ordered'
  OBVIOUS
<1>1. CASE Broadcast
  <2>1. feed' = feed /\ aired \in Nat
    BY <1>1 DEF Broadcast, TypeOK
  <2>2. \A k \in Clients : \A i, j \in DOMAIN channel'[k] : i < j => channel'[k][i] < channel'[k][j]
    <3> SUFFICES ASSUME NEW k \in Clients, NEW i \in DOMAIN channel'[k], NEW j \in DOMAIN channel'[k], i < j
                 PROVE  channel'[k][i] < channel'[k][j]
      OBVIOUS
    <3> QED
      BY <1>1, <2>1, BroadcastAppends, Numbers DEF Ordered, ChannelInOrder
  <2>3. \A k \in Clients : \A i \in DOMAIN feed, j \in DOMAIN channel'[k] : feed[i] < channel'[k][j]
    BY <1>1, <2>1, BroadcastAppends, Numbers DEF Ordered, ChannelIsNewer
  <2>4. QED
    BY <2>1, <2>2, <2>3 DEF Ordered, ChannelInOrder, ChannelIsNewer, FeedInBroadcastOrder
<1>2. CASE SignIn \/ SignOut \/ UNCHANGED vars
  BY <1>2, OrderedIfSubsets DEF SignIn, SignOut, vars
<1>3. CASE ClearFeed
  <2>1. DOMAIN feed' = {} /\ channel' = channel
    BY <1>3 DEF ClearFeed
  <2>2. QED
    BY <2>1 DEF Ordered, ChannelInOrder, ChannelIsNewer, FeedInBroadcastOrder
<1>4. ASSUME NEW k \in Clients,
             Mount(k) \/ GetToken(k) \/ NoToken(k) \/ OpenSocket(k) \/ TimerFires(k) \/ JoinGroup(k) \/ Accept(k)
      PROVE  Ordered'
  BY <1>4, OrderedIfSubsets DEF Mount, GetToken, NoToken, OpenSocket, TimerFires, JoinGroup, Accept, Accepted
<1>5. ASSUME NEW k \in Clients, Unmount(k) \/ SocketCloses(k) \/ CutLink(k)
      PROVE  Ordered'
  <2>1. CloseSocket(k) /\ aired' = aired /\ feed' = feed
    BY <1>5 DEF Unmount, SocketCloses, CutLink
  <2>2. QED
    BY <2>1, ClosedParts, OrderedIfSubsets
<1>6. ASSUME NEW k \in Clients, Receive(k)
      PROVE  Ordered'
  (* No other client has messages. *)
  <2>1. \A j \in Clients \ {k} : channel'[j] = <<>>
    BY <1>6, ReceiveTakesFirst DEF Receive, OneClient, MembersHaveSockets
  <2> DEFINE e == Head(channel[k])
  <2>2. /\ 1 \in DOMAIN channel[k] /\ e = channel[k][1] /\ e \in 1..aired
        /\ feed \in Seq(1..aired) /\ Len(feed) <= MaxFeed
    BY <1>6, ReceiveTakesFirst, Numbers DEF TypeOK
  <2>3. feed' = Stored(e) /\ DOMAIN feed' \subseteq Nat \ {0}
    <3>1. feed' = Stored(e)
      BY <1>6 DEF Receive
    <3>2. feed' \in Seq(1..aired)
      BY <2>2, <3>1, StoredParts
    <3>3. QED
      BY <3>1, <3>2, LenProperties
  <2>4. \A i \in DOMAIN feed' : IF i = 1 THEN feed'[i] = e ELSE i - 1 \in DOMAIN feed /\ feed'[i] = feed[i - 1]
    <3>1. /\ Stored(e) \in Seq(1..aired) /\ Stored(e)[1] = e
          /\ \A i \in 2..Len(Stored(e)) : i - 1 \in DOMAIN feed /\ Stored(e)[i] = feed[i - 1]
      BY <2>2, StoredParts
    <3>2. DOMAIN Stored(e) = 1..Len(Stored(e)) /\ Len(Stored(e)) \in Nat
      BY <3>1, LenProperties
    <3>3. QED
      BY <2>3, <3>1, <3>2
  <2> HIDE DEF e
  <2>5. \A i \in DOMAIN channel'[k] : e < channel'[k][i]
    BY <1>6, <2>2, ReceiveTakesFirst, Numbers DEF Ordered, ChannelInOrder
  <2>6. \A i \in DOMAIN feed : feed[i] < e
    BY <2>2 DEF Ordered, ChannelIsNewer
  <2>7. ChannelInOrder'
    <3>1. \A i, j \in DOMAIN channel'[k] : i < j => channel'[k][i] < channel'[k][j]
      <4> SUFFICES ASSUME NEW i \in DOMAIN channel'[k], NEW j \in DOMAIN channel'[k], i < j
                   PROVE  channel'[k][i] < channel'[k][j]
        OBVIOUS
      <4>1. /\ i + 1 \in DOMAIN channel[k] /\ channel'[k][i] = channel[k][i + 1]
            /\ j + 1 \in DOMAIN channel[k] /\ channel'[k][j] = channel[k][j + 1]
            /\ i + 1 < j + 1
        BY <1>6, ReceiveTakesFirst
      <4>2. QED
        BY <4>1 DEF Ordered, ChannelInOrder
    <3>2. \A j \in Clients \ {k} : DOMAIN channel'[j] = {}
      BY <2>1
    <3>3. QED
      BY <3>1, <3>2 DEF ChannelInOrder
  <2>8. \A i \in DOMAIN feed', j \in DOMAIN channel'[k] : feed'[i] < channel'[k][j]
    BY <1>6, <2>4, <2>5, ReceiveTakesFirst DEF Ordered, ChannelIsNewer
  <2>9. ChannelIsNewer'
    <3>1. \A j \in Clients \ {k} : DOMAIN channel'[j] = {}
      BY <2>1
    <3>2. QED
      BY <2>8, <3>1 DEF ChannelIsNewer
  <2>10. FeedInBroadcastOrder'
    <3> SUFFICES ASSUME NEW i \in DOMAIN feed', NEW j \in DOMAIN feed', i < j
                 PROVE  feed'[i] > feed'[j]
      BY DEF FeedInBroadcastOrder
    <3>1. j # 1 /\ j - 1 \in DOMAIN feed /\ feed'[j] = feed[j - 1]
      BY <2>3, <2>4
    <3>2. CASE i = 1
      BY <2>2, <2>4, <2>6, <3>1, <3>2, Numbers
    <3>3. CASE i # 1
      <4>1. i - 1 \in DOMAIN feed /\ feed'[i] = feed[i - 1] /\ i - 1 < j - 1
        BY <2>3, <2>4, <3>3
      <4>2. QED
        BY <3>1, <4>1 DEF Ordered, FeedInBroadcastOrder
    <3>4. QED
      BY <3>2, <3>3
  <2>11. QED
    BY <2>7, <2>9, <2>10 DEF Ordered
<1>7. QED
  BY <1>1, <1>2, <1>3, <1>4, <1>5, <1>6 DEF Next, Browser, Server

----------------------------------------------------------------------------
(* The inductive invariant.                                                *)

IInv == TypeOK /\ OneClient /\ MembersHaveSockets /\ Ordered /\ LiveMissesNothing

(* The sockets that are open stay as they were, and so does what they wait  *)
(* for.                                                                     *)
LEMMA StillMissesNothing ==
    ASSUME LiveMissesNothing, link' \subseteq link, aired' = aired, shown' = shown,
           \A k \in link' : /\ phase'[k] = phase[k] /\ channel'[k] = channel[k]
                            /\ since'[k] = since[k] /\ (k \in overrun => k \in overrun')
    PROVE  LiveMissesNothing'
BY DEF LiveMissesNothing

(* An open socket misses nothing in any step: the others lose their socket, *)
(* a new one has nothing to miss.                                           *)
LEMMA LiveStep == IInv /\ [Next]_vars => LiveMissesNothing'
<1> SUFFICES ASSUME IInv, [Next]_vars
             PROVE  LiveMissesNothing'
  OBVIOUS
<1>0. TypeOK /\ OneClient /\ MembersHaveSockets /\ LiveMissesNothing
  BY DEF IInv
<1>1. CASE Broadcast
  <2> SUFFICES ASSUME NEW k \in link \ overrun', phase[k] = "open",
                      NEW n \in (since[k] + 1)..(aired + 1)
               PROVE  n \in shown \cup {channel'[k][i] : i \in DOMAIN channel'[k]}
    BY <1>1 DEF Broadcast, LiveMissesNothing
  <2>1. k \in Clients /\ k \notin overrun /\ aired \in Nat /\ since[k] \in Nat
    BY <1>0, <1>1 DEF Broadcast, TypeOK
  <2>2. channel'[k] = Append(channel[k], aired + 1)
    <3>1. PICK full \in SUBSET group :
             /\ channel' = [j \in Clients |-> IF j \in group \ full THEN Append(channel[j], aired + 1)
                                                                   ELSE channel[j]]
             /\ overrun' = overrun \cup full
      BY <1>1 DEF Broadcast
    <3>2. k \in group \ full
      BY <1>0, <3>1 DEF MembersHaveSockets
    <3>3. QED
      BY <2>1, <3>1, <3>2
  <2>3. channel[k] \in Seq(Nat) /\ aired + 1 \in Nat
    BY <1>0, <2>1, SeqMonotonic, 1..aired \subseteq Nat DEF TypeOK
  <2>4. /\ DOMAIN channel'[k] = 1..(Len(channel[k]) + 1) /\ DOMAIN channel[k] = 1..Len(channel[k])
        /\ Len(channel[k]) \in Nat
        /\ \A i \in 1..Len(channel[k]) : channel'[k][i] = channel[k][i]
        /\ channel'[k][Len(channel[k]) + 1] = aired + 1
    <3>1. channel'[k] \in Seq(Nat)
      BY <2>2, <2>3, AppendProperties
    <3>2. QED
      BY <2>2, <2>3, <3>1, AppendProperties, LenProperties
  <2>5. CASE n = aired + 1
    BY <2>4, <2>5
  <2>6. CASE n # aired + 1
    <3>1. n \in (since[k] + 1)..aired
      BY <2>1, <2>6
    <3>2. n \in shown \cup {channel[k][i] : i \in DOMAIN channel[k]}
      BY <1>0, <2>1, <3>1 DEF LiveMissesNothing
    <3>3. QED
      BY <2>4, <3>2
  <2>7. QED
    BY <2>5, <2>6
<1>2. CASE SignIn \/ SignOut \/ ClearFeed \/ UNCHANGED vars
  BY <1>0, <1>2, StillMissesNothing DEF SignIn, SignOut, ClearFeed, vars
<1>3. ASSUME NEW k \in Clients,
             Mount(k) \/ GetToken(k) \/ NoToken(k) \/ OpenSocket(k) \/ TimerFires(k)
      PROVE  LiveMissesNothing'
  <2>1. k \notin link
    BY <1>0, <1>3 DEF Mount, GetToken, NoToken, OpenSocket, TimerFires, MembersHaveSockets
  <2>2. \A j \in Clients \ {k} : phase'[j] = phase[j]
    BY <1>0, <1>3 DEF Mount, GetToken, NoToken, OpenSocket, TimerFires, To, TypeOK
  <2>3. UNCHANGED <<link, channel, aired, since, overrun, shown>>
    BY <1>3 DEF Mount, GetToken, NoToken, OpenSocket, TimerFires
  <2>4. QED
    BY <1>0, <2>1, <2>2, <2>3, StillMissesNothing DEF TypeOK
<1>4. ASSUME NEW k \in Clients, Unmount(k) \/ SocketCloses(k) \/ CutLink(k)
      PROVE  LiveMissesNothing'
  <2>1. CloseSocket(k) /\ UNCHANGED <<aired, shown>>
    BY <1>4 DEF Unmount, SocketCloses, CutLink
  <2>2. \A j \in Clients \ {k} : phase'[j] = phase[j]
    BY <1>0, <1>4 DEF Unmount, SocketCloses, CutLink, To, TypeOK
  <2>3. link' = link \ {k} /\ overrun' = overrun \ {k}
    BY <2>1 DEF CloseSocket
  <2>4. \A j \in Clients \ {k} : channel'[j] = channel[j] /\ since'[j] = since[j]
    BY <1>0, <2>1, ClosedParts
  <2>5. QED
    BY <1>0, <2>1, <2>2, <2>3, <2>4, StillMissesNothing DEF TypeOK
<1>5. ASSUME NEW k \in Clients, Receive(k)
      PROVE  LiveMissesNothing'
  <2> SUFFICES ASSUME NEW j \in link \ overrun, phase[j] = "open",
                      NEW n \in (since[j] + 1)..aired
               PROVE  n \in shown' \cup {channel'[j][i] : i \in DOMAIN channel'[j]}
    BY <1>5 DEF Receive, LiveMissesNothing
  <2>1. j \in Clients /\ n \in shown \cup {channel[j][i] : i \in DOMAIN channel[j]}
    BY <1>0 DEF LiveMissesNothing, TypeOK
  <2>2. shown' = shown \cup {channel[k][1]}
    BY <1>0, <1>5, ReceiveTakesFirst DEF Receive
  <2>3. CASE n \in shown
    BY <2>2, <2>3
  <2>4. ASSUME NEW i \in DOMAIN channel[j], n = channel[j][i]
        PROVE  n \in shown' \cup {channel'[j][m] : m \in DOMAIN channel'[j]}
    <3>1. CASE j # k
      BY <1>0, <1>5, <2>1, <2>4, <3>1, ReceiveTakesFirst
    <3>2. CASE j = k /\ i = 1
      BY <2>2, <2>4, <3>2
    <3>3. CASE j = k /\ i # 1
      <4>1. i - 1 \in DOMAIN channel'[k] /\ channel'[k][i - 1] = channel[k][i - 1 + 1]
        BY <1>0, <1>5, <3>3, ReceiveTakesFirst
      <4>2. i - 1 + 1 = i
        BY <1>0, <2>1, Numbers
      <4>3. QED
        BY <2>4, <3>3, <4>1, <4>2
    <3>4. QED
      BY <3>1, <3>2, <3>3
  <2>5. QED
    BY <2>1, <2>3, <2>4
<1>6. ASSUME NEW k \in Clients, JoinGroup(k)
      PROVE  LiveMissesNothing'
  BY <1>0, <1>6, StillMissesNothing DEF JoinGroup
<1>7. ASSUME NEW k \in Clients, Accept(k)
      PROVE  LiveMissesNothing'
  <2> SUFFICES ASSUME NEW j \in link' \ overrun', phase'[j] = "open",
                      NEW n \in (since'[j] + 1)..aired
               PROVE  n \in shown \cup {channel[j][i] : i \in DOMAIN channel[j]}
    BY <1>7 DEF Accept, Accepted, LiveMissesNothing
  <2>1. CASE j = k
    <3>1. since'[j] = aired /\ aired \in Nat
      BY <1>0, <1>7, <2>1 DEF Accept, Accepted, TypeOK
    <3>2. QED
      BY <3>1
  <2>2. CASE j # k
    <3>1. j \in link \ overrun /\ phase[j] = "open" /\ since'[j] = since[j]
      BY <1>0, <1>7, <2>2 DEF Accept, Accepted, To, TypeOK
    <3>2. QED
      BY <1>0, <3>1 DEF LiveMissesNothing
  <2>3. QED
    BY <2>1, <2>2
<1>8. QED
  BY <1>1, <1>2, <1>3, <1>4, <1>5, <1>6, <1>7 DEF Next, Browser, Server

(* The invariant holds at the start.                                        *)
LEMMA InvInit == Init => IInv
<1> SUFFICES ASSUME Init
             PROVE  IInv
  OBVIOUS
<1>1. feed = <<>> /\ DOMAIN feed = {} /\ link = {} /\ group = {}
  BY DEF Init
<1>2. \A k \in Clients : channel[k] = <<>> /\ DOMAIN channel[k] = {} /\ phase[k] = "gone"
  <2>1. \A k \in Clients : channel[k] = <<>> /\ phase[k] = "gone"
    BY DEF Init
  <2>2. DOMAIN <<>> = {}
    OBVIOUS
  <2>3. QED
    BY <2>1, <2>2, Zenon
<1>3. Ordered
  BY <1>1, <1>2 DEF Ordered, ChannelInOrder, ChannelIsNewer, FeedInBroadcastOrder
<1>4. OneClient /\ MembersHaveSockets /\ LiveMissesNothing
  BY <1>1, <1>2 DEF OneClient, MembersHaveSockets, LiveMissesNothing
<1>5. QED
  BY <1>3, <1>4, TypeInit DEF IInv

(* Every step keeps the invariant.                                          *)
LEMMA InvStep == IInv /\ [Next]_vars => IInv'
<1>1. QED
  BY TypeStep, OneClientStep, MembersStep, OrderedStep, LiveStep DEF IInv

(* The invariant holds in every reachable state.                            *)
LEMMA Invariance == Spec => []IInv
<1>1. QED
  BY InvInit, InvStep, PTL DEF Spec

(* However clients, sockets and broadcasts interleave, the store shows the  *)
(* events in the order of their broadcasts and none twice.                  *)
THEOREM FeedIsOrdered == Spec => []FeedInBroadcastOrder
<1>1. IInv => FeedInBroadcastOrder
  BY DEF IInv, Ordered
<1>2. QED
  BY <1>1, Invariance, PTL

(* An open socket that is connected and was never too slow has shown, or    *)
(* is going to be sent, everything broadcast since it opened.               *)
THEOREM OpenSocketsAreComplete == Spec => []LiveMissesNothing
<1>1. IInv => LiveMissesNothing
  BY DEF IInv
<1>2. QED
  BY <1>1, Invariance, PTL

(* The tab has one socket at most: every socket in the group is that of the *)
(* mounted client.                                                          *)
THEOREM OneSocketPerTab == Spec => [](group \subseteq {active})
<1>1. IInv => group \subseteq {active}
  <2> SUFFICES ASSUME IInv, NEW k \in group
               PROVE  k = active
    OBVIOUS
  <2>1. k \in Clients /\ phase[k] \in {"connecting", "open"}
    BY DEF IInv, TypeOK, MembersHaveSockets
  <2>2. QED
    BY <2>1 DEF IInv, OneClient
<1>2. QED
  BY <1>1, Invariance, PTL
=============================================================================
