------------------------- MODULE RelayerLoop_proofs -------------------------
(***************************************************************************)
(* Which stream a validator is served on, who loses one and who gets       *)
(* packets, for any number of validators and calls of subscribe_packets,   *)
(* any schedule and any size of the queues; and which packets, in which    *)
(* order and in which message batches, end up on a stream.                 *)
(***************************************************************************)
EXTENDS RelayerLoop, TLAPS

\* How many subscriptions the loop has taken while it runs.
Taken == Len(accepted) - Len(subscription)

\* A call is queued once, when it returns.
AcceptedOnce ==
  /\ \A i \in DOMAIN accepted : call[accepted[i]] = "returned"
  /\ \A i, j \in DOMAIN accepted : accepted[i] = accepted[j] => i = j

\* The channel holds what was accepted last.
QueueIsRest ==
  running => /\ Len(subscription) <= Len(accepted)
             /\ \A i \in DOMAIN subscription : subscription[i] = accepted[Taken + i]

\* A stream in the map has been taken, and no later one of its validator.
IsLatest(v, i) ==
  /\ accepted[i] = packet_subscriptions[v]
  /\ owner[packet_subscriptions[v]] = v
  /\ \A j \in i + 1 .. Taken : owner[accepted[j]] # v

Served == running => \A v \in Mapped : \E i \in 1 .. Taken : IsLatest(v, i)

\* A stream found closed in an earlier message batch is closed still.
FoundClosed == \A v \in failed_forwards : Closed(v)

\* slot_leaders lead in the window that starts at the slot seen last, in the schedule that
\* was looked up with it.
Leads(v) ==
  \E s \in DOMAIN looked_up : looked_up[s] = v /\ highest_slot <= s /\ s < highest_slot + SlotLookahead
LeadersInWindow == \A v \in slot_leaders : Leads(v)

\* A sequence of message batches holds packet p.
Holds(s, p) == \E k \in DOMAIN s : \E j \in DOMAIN s[k] : s[k][j] = p

\* The packets of s come before those of t; none is of a batch after the n-th.
AllEarlier(s, t) ==
  \A k \in DOMAIN s, l \in DOMAIN t :
    \A i \in DOMAIN s[k], j \in DOMAIN t[l] : Earlier(s[k][i], t[l][j])
UpTo(s, n) == \A k \in DOMAIN s : \A i \in DOMAIN s[k] : s[k][i][1] <= n

\* What is still to be sent comes after what is on the streams, and is as well formed.
Stream == Seq(Seq(Nat \X Nat))
StreamsInOrder ==
  /\ forwarding \in Stream /\ InOrder(forwarding) /\ UpTo(forwarding, handled)
  /\ \A k \in DOMAIN forwarding : WellFormed(forwarding[k])
  /\ delivered \in [Connection -> Stream]
  /\ \A c \in Connection : /\ InOrder(delivered[c]) /\ UpTo(delivered[c], handled)
                           /\ AllEarlier(delivered[c], forwarding)
                           /\ \A k \in DOMAIN delivered[c] : WellFormed(delivered[c][k])

IInv ==
  /\ TypeOK /\ AcceptedOnce /\ QueueIsRest /\ Served /\ FoundClosed /\ LeadersInWindow
  /\ StreamsInOrder

-----------------------------------------------------------------------------
(* The pieces the steps are made of.                                        *)

\* A try_send finds room: what Enqueue adds keeps the bound of a stream.
LEMMA EnqueueFits ==
  ASSUME TypeOK, NEW V \in SUBSET Mapped, NEW C, C \in {{}, Accepting(V)}, Enqueue(C)
  PROVE  backlog' \in [Connection -> 0 .. StreamCapacity]
<1>1. \A c \in C : c \in Connection /\ backlog[c] < StreamCapacity
  <2> SUFFICES ASSUME NEW c \in C PROVE c \in Connection /\ backlog[c] < StreamCapacity
    OBVIOUS
  <2>1. PICK w \in V : c = packet_subscriptions[w] /\ ~Full(w)
    BY DEF Accepting
  <2>2. c \in Connection
    BY <2>1 DEF TypeOK, Mapped
  <2> QED
    BY <2>1, <2>2, RelayerAssumption, SMTT(30) DEF TypeOK, Full
<1> QED
  BY <1>1, RelayerAssumption DEF TypeOK, Enqueue

\* Dropping connections leaves a map, and in it only what was there.
LEMMA DropStep ==
  ASSUME TypeOK, NEW gone, DropConnections(gone)
  PROVE  /\ packet_subscriptions' \in [Validator -> Connection \cup {0}]
         /\ Mapped' \subseteq Mapped
         /\ \A v \in Mapped' : packet_subscriptions'[v] = packet_subscriptions[v]
  BY DEF TypeOK, DropConnections, Mapped

\* Senders are validators in the map.
LEMMA SendersMapped ==
  Senders \subseteq Mapped
  BY DEF Senders

-----------------------------------------------------------------------------
(* Types.                                                                  *)

\* The first state has its type.
LEMMA InitTypes ==
  ASSUME Init
  PROVE  TypeOK
<1>1. running \in BOOLEAN /\ looked_up \in Schedules \cup {<<>>}
  BY Zenon DEF Init
<1>2. /\ packet_subscriptions \in [Validator -> Connection \cup {0}]
      /\ call \in [Connection -> {"idle", "checked", "refused", "returned"}]
      /\ backlog \in [Connection -> 0 .. StreamCapacity]
  BY RelayerAssumption DEF Init
<1>3. /\ subscription \in Seq(Connection) /\ Len(subscription) <= SubscriptionCapacity
      /\ accepted \in Seq(Connection)
  BY RelayerAssumption DEF Init
<1>4. fed \in 0 .. Len(Content) /\ handled \in 0 .. fed
  BY RelayerAssumption DEF Init
<1>5. owner \in [Connection -> Validator]
  BY RelayerAssumption, Zenon DEF Init
<1> QED
  BY <1>1, <1>2, <1>3, <1>4, <1>5 DEF Init, TypeOK

\* Every step keeps it.
LEMMA NextTypes ==
  ASSUME TypeOK, [Next]_vars
  PROVE  TypeOK'
<1> USE DEF slotVars, clientVars, packetVars
<1>1. ASSUME NEW c \in Connection, CheckHealth(c) PROVE TypeOK'
  BY <1>1 DEF CheckHealth, TypeOK
<1>2. ASSUME NEW c \in Connection, SendSubscription(c) PROVE TypeOK'
  BY <1>2, RelayerAssumption DEF SendSubscription, TypeOK
<1>3. ASSUME NEW c \in Connection, SendFails(c) PROVE TypeOK'
  BY <1>3 DEF SendFails, TypeOK
<1>4. ASSUME NEW c \in Connection, ValidatorReads(c) PROVE TypeOK'
  BY <1>4, RelayerAssumption, SMTT(30) DEF ValidatorReads, TypeOK
<1>5. ASSUME NEW c \in Connection, ValidatorHangsUp(c) PROVE TypeOK'
  BY <1>5 DEF ValidatorHangsUp, TypeOK
<1>6. ASSUME NEW s \in Slot, UpdateHighestSlot(s) PROVE TypeOK'
  <2>1. LeadersFrom(looked_up', s) \subseteq Validator /\ looked_up' \in Schedules
    BY <1>6, RelayerAssumption DEF UpdateHighestSlot, LeadersFrom
  <2>2. highest_slot' \in Nat
    BY <1>6, RelayerAssumption DEF UpdateHighestSlot
  <2> QED
    BY <1>6, <2>1, <2>2 DEF UpdateHighestSlot, TypeOK
<1>7. CASE HandleSubscription
  <2>1. /\ Head(subscription) \in Connection
        /\ Tail(subscription) \in Seq(Connection)
        /\ Len(Tail(subscription)) <= SubscriptionCapacity
    BY <1>7, RelayerAssumption DEF HandleSubscription, TypeOK
  <2> QED
    BY <1>7, <2>1 DEF HandleSubscription, Replace, TypeOK
<1>8. CASE HeartbeatTick
  <2>1. backlog' \in [Connection -> 0 .. StreamCapacity]
    BY <1>8, EnqueueFits DEF HeartbeatTick
  <2>2. packet_subscriptions' \in [Validator -> Connection \cup {0}]
    BY <1>8, DropStep DEF HeartbeatTick
  <2> QED
    BY <1>8, <2>1, <2>2 DEF HeartbeatTick, TypeOK
<1>9. CASE ForwardPackets
  <2>1. handled' \in 0 .. fed
    BY <1>9, RelayerAssumption, SMTT(30) DEF ForwardPackets, TypeOK
  <2> QED
    BY <1>9, <2>1 DEF ForwardPackets, TypeOK
<1>10. CASE ForwardBatch
  <2>1. backlog' \in [Connection -> 0 .. StreamCapacity]
    BY <1>10, EnqueueFits, SendersMapped DEF ForwardBatch
  <2>2. packet_subscriptions' \in [Validator -> Connection \cup {0}]
    BY <1>10, DropStep DEF ForwardBatch, TypeOK
  <2>3. failed_forwards' \in SUBSET Validator
    BY <1>10, SendersMapped DEF ForwardBatch, TypeOK, Mapped
  <2> QED
    BY <1>10, <2>1, <2>2, <2>3 DEF ForwardBatch, TypeOK
<1>11. CASE LoopReturns
  <2>1. subscription' \in Seq(Connection) /\ Len(subscription') <= SubscriptionCapacity
    BY <1>11, RelayerAssumption DEF LoopReturns
  <2> QED
    BY <1>11, <2>1, Zenon DEF LoopReturns, TypeOK
<1>12. CASE HealthChange
  BY <1>12 DEF HealthChange, TypeOK
<1>13. CASE Feed
  <2>1. fed' \in 0 .. Len(Content) /\ handled \in 0 .. fed'
    BY <1>13, RelayerAssumption DEF Feed, TypeOK
  <2> QED
    BY <1>13, <2>1 DEF Feed, TypeOK
<1>14. CASE UNCHANGED vars
  BY <1>14 DEF vars, TypeOK
<1> QED
  BY <1>1, <1>2, <1>3, <1>4, <1>5, <1>6, <1>7, <1>8, <1>9, <1>10, <1>11, <1>12, <1>13,
     <1>14 DEF Next

-----------------------------------------------------------------------------
(* The order of the subscriptions.                                         *)

streamVars == <<running, subscription, accepted, call, owner, packet_subscriptions>>

\* The order facts depend on the stream variables only.
LEMMA OrderKept ==
  ASSUME AcceptedOnce, QueueIsRest, Served, UNCHANGED streamVars
  PROVE  AcceptedOnce' /\ QueueIsRest' /\ Served'
<1>1. Taken' = Taken /\ Mapped' = Mapped
  BY DEF streamVars, Taken, Mapped
<1>2. AcceptedOnce'
  BY DEF streamVars, AcceptedOnce
<1>3. QueueIsRest'
  BY <1>1 DEF streamVars, QueueIsRest
<1>4. Served'
  BY <1>1 DEF streamVars, Served, IsLatest
<1> QED
  BY <1>2, <1>3, <1>4

\* A step of a call that queues nothing keeps them too.
LEMMA CallStep ==
  ASSUME TypeOK, AcceptedOnce, QueueIsRest, Served,
         NEW c \in Connection, CheckHealth(c) \/ SendFails(c)
  PROVE  AcceptedOnce' /\ QueueIsRest' /\ Served'
<1>1. UNCHANGED <<running, subscription, accepted, owner, packet_subscriptions>>
  BY DEF CheckHealth, SendFails
<1>2. AcceptedOnce'
  <2>1. \A d \in Connection : call[d] = "returned" => call'[d] = "returned"
    BY DEF CheckHealth, SendFails, TypeOK
  <2>2. \A i \in DOMAIN accepted : accepted[i] \in Connection
    BY DEF TypeOK
  <2> QED
    BY <1>1, <2>1, <2>2 DEF AcceptedOnce
<1>3. Taken' = Taken /\ Mapped' = Mapped
  BY <1>1 DEF Taken, Mapped
<1>4. QueueIsRest'
  BY <1>1, <1>3 DEF QueueIsRest
<1>5. Served'
  BY <1>1, <1>3 DEF Served, IsLatest
<1> QED
  BY <1>2, <1>4, <1>5

\* What a sequence holds after an Append.
LEMMA Appended ==
  ASSUME NEW S, NEW q \in Seq(S), NEW e \in S
  PROVE  /\ Append(q, e) \in Seq(S) /\ Len(Append(q, e)) = Len(q) + 1
         /\ DOMAIN q = 1 .. Len(q) /\ DOMAIN Append(q, e) = 1 .. Len(q) + 1
         /\ \A i \in 1 .. Len(q) : Append(q, e)[i] = q[i]
         /\ Append(q, e)[Len(q) + 1] = e
         /\ Len(q) \in Nat
  OBVIOUS

\* The call that sends is queued for the first time, behind all others.
LEMMA SendStep ==
  ASSUME TypeOK, AcceptedOnce, QueueIsRest, Served,
         NEW c \in Connection, SendSubscription(c)
  PROVE  AcceptedOnce' /\ QueueIsRest' /\ Served'
<1>1. /\ call[c] = "checked" /\ running /\ running'
      /\ subscription' = Append(subscription, c) /\ accepted' = Append(accepted, c)
      /\ call' = [call EXCEPT ![c] = "returned"]
      /\ UNCHANGED <<owner, packet_subscriptions>>
  BY DEF SendSubscription
<1>2. subscription \in Seq(Connection) /\ accepted \in Seq(Connection)
  BY DEF TypeOK
<1>3. /\ Len(accepted') = Len(accepted) + 1 /\ Len(accepted) \in Nat
      /\ DOMAIN accepted = 1 .. Len(accepted) /\ DOMAIN accepted' = 1 .. Len(accepted) + 1
      /\ \A i \in 1 .. Len(accepted) : accepted'[i] = accepted[i]
      /\ accepted'[Len(accepted) + 1] = c
  BY <1>1, <1>2, Appended
<1>4. /\ Len(subscription') = Len(subscription) + 1 /\ Len(subscription) \in Nat
      /\ DOMAIN subscription = 1 .. Len(subscription)
      /\ DOMAIN subscription' = 1 .. Len(subscription) + 1
      /\ \A i \in 1 .. Len(subscription) : subscription'[i] = subscription[i]
      /\ subscription'[Len(subscription) + 1] = c
  BY <1>1, <1>2, Appended
<1>5. Taken' = Taken /\ Taken \in Nat /\ Taken <= Len(accepted)
  BY <1>1, <1>3, <1>4 DEF Taken, QueueIsRest
<1>6. \A i \in 1 .. Len(accepted) : accepted[i] \in Connection /\ accepted[i] # c
  <2>1. \A i \in 1 .. Len(accepted) : accepted[i] \in Connection
    BY <1>2
  <2>2. \A i \in 1 .. Len(accepted) : call[accepted[i]] = "returned"
    BY <1>3 DEF AcceptedOnce
  <2>3. "returned" # "checked"
    OBVIOUS
  <2> QED
    BY <1>1, <2>1, <2>2, <2>3
<1>7. AcceptedOnce'
  <2>1. \A i \in DOMAIN accepted' : call'[accepted'[i]] = "returned"
    BY <1>1, <1>3, <1>6 DEF TypeOK, AcceptedOnce
  <2>2. \A i, j \in DOMAIN accepted' : accepted'[i] = accepted'[j] => i = j
    BY <1>3, <1>6 DEF AcceptedOnce
  <2> QED
    BY <2>1, <2>2 DEF AcceptedOnce
<1>8. QueueIsRest'
  <2>1. \A i \in 1 .. Len(subscription) : subscription[i] = accepted[Taken + i]
    BY <1>1, <1>4 DEF QueueIsRest
  <2>2. Taken + Len(subscription) = Len(accepted)
    BY <1>3, <1>4 DEF Taken
  <2>3. \A i \in 1 .. Len(subscription) + 1 : subscription'[i] = accepted'[Taken + i]
    <3> SUFFICES ASSUME NEW i \in 1 .. Len(subscription) + 1
                 PROVE  subscription'[i] = accepted'[Taken + i]
      OBVIOUS
    <3>1. CASE i \in 1 .. Len(subscription)
      <4>1. Taken + i \in 1 .. Len(accepted)
        BY <2>2, <3>1, <1>4, <1>5
      <4> QED
        BY <2>1, <3>1, <4>1, <1>3, <1>4
    <3>2. CASE i = Len(subscription) + 1
      <4>1. Taken + i = Len(accepted) + 1
        BY <2>2, <3>2, <1>3, <1>4, <1>5
      <4> QED
        BY <3>2, <4>1, <1>3, <1>4
    <3> QED
      BY <3>1, <3>2, <1>4
  <2> QED
    BY <2>2, <2>3, <1>3, <1>4, <1>5, SMTT(30) DEF QueueIsRest
<1>9. Served'
  <2> SUFFICES ASSUME NEW v \in Mapped' PROVE \E i \in 1 .. Taken' : IsLatest(v, i)'
    BY DEF Served
  <2>1. v \in Mapped
    BY <1>1 DEF Mapped
  <2>2. PICK i \in 1 .. Taken : IsLatest(v, i)
    BY <1>1, <2>1 DEF Served
  <2>3. \A j \in 1 .. Taken : accepted'[j] = accepted[j]
    BY <1>3, <1>5
  <2>4. \A j \in i + 1 .. Taken : j \in 1 .. Taken
    BY <1>5
  <2> QED
    BY <1>1, <1>5, <2>2, <2>3, <2>4 DEF IsLatest
<1> QED
  BY <1>7, <1>8, <1>9

\* The loop takes the subscription at the head, and puts it in the place of its owner's.
LEMMA TakeStep ==
  ASSUME TypeOK, AcceptedOnce, QueueIsRest, Served, HandleSubscription
  PROVE  AcceptedOnce' /\ QueueIsRest' /\ Served'
<1> DEFINE c == Head(subscription)
<1>1. /\ running /\ subscription # <<>>
      /\ packet_subscriptions' = [packet_subscriptions EXCEPT ![owner[c]] = c]
      /\ subscription' = Tail(subscription)
      /\ UNCHANGED <<running, accepted, call, owner>>
  BY DEF HandleSubscription, Idle, Replace, clientVars
<1>2. subscription \in Seq(Connection) /\ accepted \in Seq(Connection)
  BY DEF TypeOK
<1>3. /\ Len(subscription) \in Nat \ {0} /\ Len(subscription') = Len(subscription) - 1
      /\ c = subscription[1] /\ c \in Connection
      /\ DOMAIN subscription = 1 .. Len(subscription)
      /\ DOMAIN subscription' = 1 .. Len(subscription) - 1
      /\ \A i \in 1 .. Len(subscription) - 1 : subscription'[i] = subscription[i + 1]
  BY <1>1, <1>2
<1>4. Len(accepted) \in Nat /\ DOMAIN accepted = 1 .. Len(accepted)
  BY <1>2
<1> HIDE DEF c
<1>5. Taken' = Taken + 1 /\ Taken \in Nat /\ Taken + 1 <= Len(accepted)
  BY <1>1, <1>3, <1>4 DEF Taken, QueueIsRest
<1>6. \A i \in 1 .. Len(subscription) : subscription[i] = accepted[Taken + i]
  BY <1>1, <1>3 DEF QueueIsRest
<1>7. AcceptedOnce'
  BY <1>1 DEF AcceptedOnce
<1>8. QueueIsRest'
  <2>1. \A i \in 1 .. Len(subscription) - 1 : subscription'[i] = accepted[Taken + (i + 1)]
    BY <1>3, <1>6
  <2>2. \A i \in 1 .. Len(subscription) - 1 : Taken + (i + 1) = Taken' + i
    BY <1>3, <1>5
  <2>3. \A i \in DOMAIN subscription' : subscription'[i] = accepted[Taken' + i]
    BY <2>1, <2>2, <1>3
  <2>4. Len(subscription') <= Len(accepted)
    BY <1>1, <1>3, <1>4 DEF QueueIsRest
  <2> QED
    BY <1>1, <2>3, <2>4 DEF QueueIsRest
<1>9. Served'
  <2> SUFFICES ASSUME NEW v \in Mapped' PROVE \E i \in 1 .. Taken' : IsLatest(v, i)'
    BY DEF Served
  <2>0. v \in Validator
    BY DEF Mapped
  <2>1. CASE v = owner[c]
    <3>1. packet_subscriptions'[v] = c
      BY <1>1, <2>0, <2>1 DEF TypeOK
    <3>2. accepted[Taken + 1] = c
      BY <1>3, <1>6
    <3>3. PICK n \in Nat : n = Taken'
      BY <1>5
    <3>4. n \in 1 .. Taken' /\ n = Taken + 1 /\ n + 1 .. Taken' = {}
      BY <1>5, <3>3
    <3>5. IsLatest(v, n)'
      BY <1>1, <2>1, <3>1, <3>2, <3>4 DEF IsLatest
    <3> QED
      BY <3>4, <3>5
  <2>2. CASE v # owner[c]
    <3>1. packet_subscriptions'[v] = packet_subscriptions[v] /\ v \in Mapped
      BY <1>1, <2>0, <2>2 DEF TypeOK, Mapped
    <3>2. PICK i \in 1 .. Taken : IsLatest(v, i)
      BY <1>1, <3>1 DEF Served
    <3>3. accepted[Taken + 1] = c
      BY <1>3, <1>6
    <3>4. \A j \in i + 1 .. Taken' : j \in i + 1 .. Taken \/ j = Taken + 1
      BY <1>5
    <3>5. \A j \in i + 1 .. Taken' : owner[accepted[j]] # v
      BY <2>2, <3>2, <3>3, <3>4 DEF IsLatest
    <3>6. i \in 1 .. Taken'
      BY <1>5
    <3> QED
      BY <1>1, <3>1, <3>2, <3>5, <3>6 DEF IsLatest
  <2> QED
    BY <2>1, <2>2
<1> QED
  BY <1>7, <1>8, <1>9

\* A step that drops connections takes none and adds none.
LEMMA DroppingStep ==
  ASSUME TypeOK, AcceptedOnce, QueueIsRest, Served,
         NEW gone, DropConnections(gone),
         UNCHANGED <<running, subscription, accepted, call, owner>>
  PROVE  AcceptedOnce' /\ QueueIsRest' /\ Served'
<1>1. Taken' = Taken
  BY DEF Taken
<1>2. /\ Mapped' \subseteq Mapped
      /\ \A v \in Mapped' : packet_subscriptions'[v] = packet_subscriptions[v]
  BY DropStep
<1>3. Served'
  BY <1>1, <1>2 DEF Served, IsLatest
<1> QED
  BY <1>1, <1>3 DEF AcceptedOnce, QueueIsRest

\* Once the loop has returned nothing is promised of the map.
LEMMA ReturnStep ==
  ASSUME AcceptedOnce, LoopReturns
  PROVE  AcceptedOnce' /\ QueueIsRest' /\ Served'
  BY DEF LoopReturns, AcceptedOnce, QueueIsRest, Served, clientVars

\* Every step keeps the order of the subscriptions.
LEMMA NextOrder ==
  ASSUME TypeOK, AcceptedOnce, QueueIsRest, Served, [Next]_vars
  PROVE  AcceptedOnce' /\ QueueIsRest' /\ Served'
<1> USE DEF slotVars, clientVars, packetVars, streamVars
<1>1. ASSUME NEW c \in Connection, CheckHealth(c) \/ SendFails(c)
      PROVE  AcceptedOnce' /\ QueueIsRest' /\ Served'
  BY <1>1, CallStep
<1>2. ASSUME NEW c \in Connection, SendSubscription(c)
      PROVE  AcceptedOnce' /\ QueueIsRest' /\ Served'
  BY <1>2, SendStep
<1>3. ASSUME NEW c \in Connection, ValidatorReads(c) \/ ValidatorHangsUp(c)
      PROVE  AcceptedOnce' /\ QueueIsRest' /\ Served'
  BY <1>3, OrderKept DEF ValidatorReads, ValidatorHangsUp
<1>4. ASSUME NEW s \in Slot, UpdateHighestSlot(s)
      PROVE  AcceptedOnce' /\ QueueIsRest' /\ Served'
  BY <1>4, OrderKept DEF UpdateHighestSlot
<1>5. CASE HandleSubscription
  BY <1>5, TakeStep
<1>6. CASE HeartbeatTick
  BY <1>6, DroppingStep DEF HeartbeatTick
<1>7. CASE ForwardPackets
  BY <1>7, OrderKept DEF ForwardPackets
<1>8. CASE ForwardBatch
  <2>1. UNCHANGED <<running, subscription, accepted, call, owner>>
    BY <1>8 DEF ForwardBatch
  <2>2. CASE UNCHANGED packet_subscriptions
    BY <2>1, <2>2, OrderKept
  <2>3. ASSUME NEW gone, DropConnections(gone)
        PROVE  AcceptedOnce' /\ QueueIsRest' /\ Served'
    BY <2>1, <2>3, DroppingStep
  <2> QED
    BY <1>8, <2>2, <2>3 DEF ForwardBatch
<1>9. CASE LoopReturns
  BY <1>9, ReturnStep
<1>10. CASE HealthChange \/ Feed
  BY <1>10, OrderKept DEF HealthChange, Feed
<1>11. CASE UNCHANGED vars
  BY <1>11, OrderKept DEF vars
<1> QED
  BY <1>1, <1>2, <1>3, <1>4, <1>5, <1>6, <1>7, <1>8, <1>9, <1>10, <1>11 DEF Next

-----------------------------------------------------------------------------
(* Closed streams and leaders.                                             *)

\* A connection that is about to be queued is not in the map.
LEMMA MappedHasReturned ==
  ASSUME TypeOK, AcceptedOnce, QueueIsRest, Served, running,
         NEW v \in Validator, NEW c \in Connection, call[c] = "checked"
  PROVE  packet_subscriptions[v] # c
<1> SUFFICES ASSUME packet_subscriptions[v] = c PROVE FALSE
  OBVIOUS
<1>1. v \in Mapped
  BY DEF Mapped, Connection
<1>2. PICK i \in 1 .. Taken : IsLatest(v, i)
  BY <1>1 DEF Served
<1>3. i \in DOMAIN accepted
  BY SMTT(30) DEF Taken, QueueIsRest, TypeOK
<1>4. call[c] = "returned"
  BY <1>2, <1>3 DEF IsLatest, AcceptedOnce
<1> QED
  BY <1>4

\* A closed stream stays closed, and none is replaced while a batch is forwarded.
LEMMA NextClosed ==
  ASSUME TypeOK, AcceptedOnce, QueueIsRest, Served, FoundClosed, [Next]_vars
  PROVE  FoundClosed'
<1> USE DEF slotVars, clientVars, packetVars, FoundClosed, Closed
<1>1. ASSUME NEW c \in Connection, SendSubscription(c) PROVE FoundClosed'
  <2>1. \A v \in failed_forwards : packet_subscriptions[v] # c
    BY <1>1, MappedHasReturned DEF SendSubscription, TypeOK
  <2> QED
    BY <1>1, <2>1 DEF SendSubscription
<1>2. ASSUME NEW c \in Connection,
             CheckHealth(c) \/ SendFails(c) \/ ValidatorReads(c) \/ ValidatorHangsUp(c)
      PROVE  FoundClosed'
  BY <1>2 DEF CheckHealth, SendFails, ValidatorReads, ValidatorHangsUp
<1>3. ASSUME NEW s \in Slot, UpdateHighestSlot(s) PROVE FoundClosed'
  BY <1>3 DEF UpdateHighestSlot
<1>4. CASE HandleSubscription \/ HeartbeatTick
  BY <1>4 DEF HandleSubscription, HeartbeatTick, Idle
<1>5. CASE ForwardBatch
  BY <1>5 DEF ForwardBatch
<1>6. CASE ForwardPackets \/ LoopReturns \/ HealthChange \/ Feed
  BY <1>6 DEF ForwardPackets, LoopReturns, HealthChange, Feed
<1>7. CASE UNCHANGED vars
  BY <1>7 DEF vars
<1> QED
  BY <1>1, <1>2, <1>3, <1>4, <1>5, <1>6, <1>7 DEF Next

\* slot_leaders change only together with highest_slot.
LEMMA NextLeaders ==
  ASSUME LeadersInWindow, [Next]_vars
  PROVE  LeadersInWindow'
<1> USE DEF slotVars, LeadersInWindow, Leads
<1>1. ASSUME NEW s \in Slot, UpdateHighestSlot(s) PROVE LeadersInWindow'
  BY <1>1 DEF UpdateHighestSlot, LeadersFrom
<1>2. ASSUME NEW c \in Connection,
             \/ CheckHealth(c) \/ SendSubscription(c) \/ SendFails(c)
             \/ ValidatorReads(c) \/ ValidatorHangsUp(c)
      PROVE  LeadersInWindow'
  BY <1>2 DEF CheckHealth, SendSubscription, SendFails, ValidatorReads, ValidatorHangsUp
<1>3. CASE HandleSubscription \/ HeartbeatTick \/ ForwardPackets \/ ForwardBatch
  BY <1>3 DEF HandleSubscription, HeartbeatTick, ForwardPackets, ForwardBatch
<1>4. CASE LoopReturns \/ HealthChange \/ Feed
  BY <1>4 DEF LoopReturns, HealthChange, Feed
<1>5. CASE UNCHANGED vars
  BY <1>5 DEF vars
<1> QED
  BY <1>1, <1>2, <1>3, <1>4, <1>5 DEF Next

-----------------------------------------------------------------------------
(* The streams that validators are promised.                               *)

\* The stream in the map is the latest of its validator that left the channel.
LEMMA ServesLatest ==
  ASSUME IInv
  PROVE  LatestStreamServed
<1> SUFFICES ASSUME running, NEW v \in Mapped
             PROVE  LET c == packet_subscriptions[v]
                    IN  /\ owner[c] = v
                        /\ ~Queued(c)
                        /\ \A d \in Connection : owner[d] = v /\ Before(c, d) => Queued(d)
  BY DEF LatestStreamServed
<1> DEFINE c == packet_subscriptions[v]
<1>1. PICK i \in 1 .. Taken : IsLatest(v, i)
  BY DEF IInv, Served
<1>2. /\ accepted \in Seq(Connection) /\ subscription \in Seq(Connection)
      /\ Len(accepted) \in Nat /\ Len(subscription) \in Nat
      /\ DOMAIN accepted = 1 .. Len(accepted)
      /\ DOMAIN subscription = 1 .. Len(subscription)
  BY SMTT(30) DEF IInv, TypeOK
<1>3. /\ Taken \in Nat /\ Taken <= Len(accepted) /\ Taken + Len(subscription) = Len(accepted)
      /\ \A j \in 1 .. Len(subscription) : subscription[j] = accepted[Taken + j]
  BY <1>2, SMTT(30) DEF IInv, QueueIsRest, Taken
<1>4. i \in DOMAIN accepted /\ accepted[i] = c /\ owner[c] = v
  BY <1>1, <1>2, <1>3, SMTT(30) DEF IsLatest
<1>5. \A j \in DOMAIN accepted : accepted[j] = c => j = i
  BY <1>4 DEF IInv, AcceptedOnce
<1>6. ~Queued(c)
  <2> SUFFICES ASSUME NEW j \in DOMAIN subscription, subscription[j] = c PROVE FALSE
    BY DEF Queued
  <2>1. Taken + j \in DOMAIN accepted /\ accepted[Taken + j] = c
    BY <1>2, <1>3, SMTT(30)
  <2>2. Taken + j = i
    BY <1>5, <2>1
  <2> QED
    BY <1>2, <1>3, <2>2
<1>7. ASSUME NEW d \in Connection, owner[d] = v, Before(c, d) PROVE Queued(d)
  <2>1. PICK k, j \in DOMAIN accepted : k < j /\ accepted[k] = c /\ accepted[j] = d
    BY <1>7 DEF Before
  <2>2. i < j
    BY <1>5, <2>1
  <2>3. j \notin i + 1 .. Taken
    BY <1>1, <1>7, <2>1 DEF IsLatest
  <2>4. j - Taken \in 1 .. Len(subscription) /\ Taken + (j - Taken) = j
    BY <1>2, <1>3, <2>2, <2>3, SMTT(30)
  <2>5. subscription[j - Taken] = d
    BY <1>3, <2>1, <2>4
  <2> QED
    BY <1>2, <2>4, <2>5 DEF Queued
<1> QED
  BY <1>4, <1>6, <1>7

\* While the loop runs, a stream that is served is its owner's, has joined and no longer
\* waits; what waits has joined.
LEMMA Stages ==
  ASSUME IInv, running, NEW c \in Connection
  PROVE  /\ \A v \in Validator : packet_subscriptions[v] = c => owner[c] = v
         /\ Serves(c) => Joined(c) /\ ~Queued(c)
         /\ Queued(c) => Joined(c)
<1>1. /\ accepted \in Seq(Connection) /\ subscription \in Seq(Connection)
      /\ Len(accepted) \in Nat /\ Len(subscription) \in Nat
      /\ DOMAIN accepted = 1 .. Len(accepted)
      /\ DOMAIN subscription = 1 .. Len(subscription)
  BY SMTT(30) DEF IInv, TypeOK
<1>2. /\ Taken \in Nat /\ Taken <= Len(accepted) /\ Taken + Len(subscription) = Len(accepted)
      /\ \A j \in 1 .. Len(subscription) : subscription[j] = accepted[Taken + j]
  BY <1>1, SMTT(30) DEF IInv, QueueIsRest, Taken
<1>3. ASSUME NEW v \in Validator, packet_subscriptions[v] = c
      PROVE  owner[c] = v /\ Joined(c) /\ ~Queued(c)
  <2>1. v \in Mapped
    BY <1>3 DEF Mapped, Connection
  <2>2. PICK i \in 1 .. Taken : IsLatest(v, i)
    BY <2>1 DEF IInv, Served
  <2>3. i \in DOMAIN accepted
    BY <1>1, <1>2, SMTT(30)
  <2>4. LatestStreamServed
    BY ServesLatest
  <2> QED
    BY <1>3, <2>1, <2>2, <2>3, <2>4, Zenon DEF IsLatest, Joined, LatestStreamServed
<1>4. ASSUME Queued(c) PROVE Joined(c)
  <2>1. PICK j \in DOMAIN subscription : subscription[j] = c
    BY <1>4 DEF Queued
  <2>2. Taken + j \in DOMAIN accepted /\ accepted[Taken + j] = c
    BY <1>1, <1>2, <2>1, SMTT(30)
  <2> QED
    BY <2>2 DEF Joined
<1> QED
  BY <1>3, <1>4, Zenon DEF Serves

\* The stage of a connection, as the three facts it depends on.
LEMMA LifeAt ==
  ASSUME NEW c \in Connection
  PROVE  /\ Serves(c) => Life[c] = "served"
         /\ ~Serves(c) /\ Queued(c) => Life[c] = "waiting"
         /\ ~Serves(c) /\ ~Queued(c) /\ Joined(c) => Life[c] = "over"
         /\ ~Serves(c) /\ ~Queued(c) /\ ~Joined(c) => Life[c] = "new"
  BY DEF Life

\* The same after a step.
LEMMA LifeNext ==
  ASSUME NEW c \in Connection
  PROVE  /\ Serves(c)' => Life'[c] = "served"
         /\ ~Serves(c)' /\ Queued(c)' => Life'[c] = "waiting"
         /\ ~Serves(c)' /\ ~Queued(c)' /\ Joined(c)' => Life'[c] = "over"
         /\ ~Serves(c)' /\ ~Queued(c)' /\ ~Joined(c)' => Life'[c] = "new"
         /\ Life' = [d \in Connection |-> Life'[d]]
  BY DEF Life

\* A connection with the same three facts keeps its stage.
LEMMA SameLife ==
  ASSUME NEW c \in Connection,
         Serves(c)' <=> Serves(c), Queued(c)' <=> Queued(c), Joined(c)' <=> Joined(c)
  PROVE  Life'[c] = Life[c]
  BY DEF Life

\* Only four groups of steps touch the streams.
LEMMA QuietStreams ==
  ASSUME UNCHANGED <<owner, packet_subscriptions, subscription, accepted, delivered>>
  PROVE  UNCHANGED Streams!streamVars
  BY Zenon DEF Streams!streamVars, Life, Serves, Queued, Joined

Within(q, d) == \E i \in DOMAIN q : q[i] = d

\* What is in a sequence after an Append.
LEMMA InAppend ==
  ASSUME NEW S, NEW q \in Seq(S), NEW e \in S
  PROVE  \A d : Within(Append(q, e), d) <=> (Within(q, d) \/ d = e)
<1>1. /\ DOMAIN q = 1 .. Len(q) /\ DOMAIN Append(q, e) = 1 .. Len(q) + 1
      /\ \A i \in 1 .. Len(q) : Append(q, e)[i] = q[i]
      /\ Append(q, e)[Len(q) + 1] = e
      /\ Len(q) \in Nat
  BY Appended, SMTT(30)
<1>2. \A i \in 1 .. Len(q) + 1 : i \in 1 .. Len(q) \/ i = Len(q) + 1
  BY <1>1, SMTT(30)
<1>3. Len(q) + 1 \in 1 .. Len(q) + 1 /\ \A i \in 1 .. Len(q) : i \in 1 .. Len(q) + 1
  BY <1>1, SMTT(30)
<1> QED
  BY <1>1, <1>2, <1>3, Zenon DEF Within

\* The same of a Tail.
LEMMA InTail ==
  ASSUME NEW S, NEW q \in Seq(S), q # <<>>
  PROVE  \A d : d # Head(q) => (Within(Tail(q), d) <=> Within(q, d))
<1> SUFFICES ASSUME NEW d, d # Head(q) PROVE Within(Tail(q), d) <=> Within(q, d)
  OBVIOUS
<1>1. /\ \A i \in DOMAIN Tail(q) : i + 1 \in DOMAIN q /\ Tail(q)[i] = q[i + 1]
      /\ \A i \in DOMAIN q : i = 1 \/ (i - 1 \in DOMAIN Tail(q) /\ Tail(q)[i - 1] = q[i])
      /\ q[1] = Head(q)
  BY SMTT(30)
<1>2. ASSUME NEW i \in DOMAIN Tail(q), Tail(q)[i] = d PROVE \E j \in DOMAIN q : q[j] = d
  BY <1>1, <1>2, Zenon
<1>3. ASSUME NEW i \in DOMAIN q, q[i] = d PROVE \E j \in DOMAIN Tail(q) : Tail(q)[j] = d
  BY <1>1, <1>3, Zenon
<1> QED
  BY <1>2, <1>3, Zenon DEF Within

\* The blocking send of subscribe_packets: a new stream waits.
LEMMA SendJoins ==
  ASSUME IInv, NEW c \in Connection, SendSubscription(c)
  PROVE  Streams!StreamNext
<1>1. /\ call[c] = "checked" /\ running
      /\ subscription' = Append(subscription, c) /\ accepted' = Append(accepted, c)
      /\ UNCHANGED <<owner, packet_subscriptions, delivered>>
  BY DEF SendSubscription
<1>2. ~Joined(c)
  BY <1>1 DEF IInv, AcceptedOnce, Joined
<1>3. Life[c] = "new"
  BY <1>1, <1>2, Stages, LifeAt, Zenon
<1>4. \A d \in Connection : /\ (Serves(d)' <=> Serves(d))
                            /\ (Queued(d)' <=> (Queued(d) \/ d = c))
                            /\ (Joined(d)' <=> (Joined(d) \/ d = c))
  <2>1. subscription \in Seq(Connection) /\ accepted \in Seq(Connection)
    BY DEF IInv, TypeOK
  <2>2. ASSUME NEW d \in Connection PROVE Queued(d)' <=> (Queued(d) \/ d = c)
    <3>1. Within(subscription', d) <=> (Within(subscription, d) \/ d = c)
      BY <1>1, <2>1, InAppend, Zenon
    <3> QED
      BY <3>1, Zenon DEF Queued, Within
  <2>3. ASSUME NEW d \in Connection PROVE Joined(d)' <=> (Joined(d) \/ d = c)
    <3>1. Within(accepted', d) <=> (Within(accepted, d) \/ d = c)
      BY <1>1, <2>1, InAppend, Zenon
    <3> QED
      BY <3>1, Zenon DEF Joined, Within
  <2> QED
    BY <1>1, <2>2, <2>3, Zenon DEF Serves
<1>5. Life'[c] = "waiting"
  BY <1>1, <1>2, <1>4, Stages, LifeNext, Zenon
<1>6. \A d \in Connection \ {c} : Life'[d] = Life[d]
  BY <1>4, SameLife, Zenon
<1>7. Life' = [Life EXCEPT ![c] = "waiting"]
  <2>1. Life' = [d \in Connection |-> Life'[d]] /\ Life = [d \in Connection |-> Life[d]]
    BY DEF Life
  <2> QED
    BY <1>5, <1>6, <2>1
<1> QED
  BY <1>1, <1>3, <1>7, Zenon DEF Streams!StreamNext, Streams!Join, Streams!At

\* handle_subscription: a stream that waited is served, and its owner's last is over.
LEMMA TakeBegins ==
  ASSUME IInv, HandleSubscription
  PROVE  Streams!StreamNext
<1> DEFINE c == Head(subscription)
<1>1. /\ running /\ subscription # <<>>
      /\ packet_subscriptions' = [packet_subscriptions EXCEPT ![owner[c]] = c]
      /\ subscription' = Tail(subscription)
      /\ UNCHANGED <<owner, accepted, delivered>>
  BY DEF HandleSubscription, Idle, Replace, clientVars
<1>2. subscription \in Seq(Connection) /\ owner \in [Connection -> Validator]
  BY DEF IInv, TypeOK
<1>3. c \in Connection /\ 1 \in DOMAIN subscription /\ subscription[1] = c
  BY <1>1, <1>2, SMTT(30)
<1>4. Queued(c) /\ \A d \in Connection : d # c => (Queued(d)' <=> Queued(d))
  <2>1. \A d \in Connection : d # c => (Within(subscription', d) <=> Within(subscription, d))
    BY <1>1, <1>2, InTail, Zenon
  <2> HIDE DEF c
  <2> QED
    BY <1>3, <2>1, Zenon DEF Queued, Within
<1> HIDE DEF c
<1>5. owner[c] \in Validator /\ packet_subscriptions'[owner[c]] = c
  BY <1>1, <1>2, <1>3 DEF IInv, TypeOK
<1>6. \A v \in Validator : v # owner[c] => packet_subscriptions'[v] = packet_subscriptions[v]
  BY <1>1 DEF IInv, TypeOK
<1>7. Life[c] = "waiting" /\ Life'[c] = "served"
  BY <1>1, <1>3, <1>4, <1>5, Stages, LifeAt, LifeNext, Zenon DEF Serves
<1>8. ASSUME NEW d \in Connection, d # c, Life[d] = "served", owner[d] = owner[c]
      PROVE  Life'[d] = "over"
  <2>1. Serves(d)
    BY <1>8, LifeAt
  <2>2. Joined(d) /\ ~Queued(d) /\ \A v \in Validator : packet_subscriptions[v] = d => owner[d] = v
    BY <1>1, <2>1, Stages, Zenon
  <2>3. ~Serves(d)'
    BY <1>5, <1>6, <1>8, <2>2, Zenon DEF Serves
  <2>4. Joined(d)' /\ ~Queued(d)'
    BY <1>1, <1>3, <1>4, <1>8, <2>2, Zenon DEF Joined
  <2> QED
    BY <2>3, <2>4, LifeNext
<1>9. ASSUME NEW d \in Connection, d # c, ~(Life[d] = "served" /\ owner[d] = owner[c])
      PROVE  Life'[d] = Life[d]
  <2>1. Serves(d)' <=> Serves(d)
    <3>1. Serves(d) => Life[d] = "served"
      BY LifeAt
    <3>2. \A v \in Validator : packet_subscriptions[v] = d => owner[d] = v
      BY <1>1, Stages, Zenon
    <3> QED
      BY <1>5, <1>6, <1>9, <3>1, <3>2, Zenon DEF Serves
  <2>2. Joined(d)' <=> Joined(d)
    BY <1>1, Zenon DEF Joined
  <2> QED
    BY <1>3, <1>4, <1>9, <2>1, <2>2, SameLife, Zenon
<1>10. Life' = [d \in Connection |-> CASE d = c -> "served"
                                     [] d \in Streams!At("served") /\ owner[d] = owner[c] -> "over"
                                     [] OTHER -> Life[d]]
  <2>1. Life' = [d \in Connection |-> Life'[d]]
    BY DEF Life
  <2>2. \A d \in Connection : d \in Streams!At("served") <=> Life[d] = "served"
    BY DEF Streams!At
  <2> QED
    BY <1>7, <1>8, <1>9, <2>1, <2>2
<1> QED
  BY <1>1, <1>3, <1>4, <1>7, <1>10, Zenon DEF Streams!StreamNext, Streams!Begin, Streams!At

\* drop_connections: streams that were served are over, and no other is touched.
LEMMA DropEnds ==
  ASSUME IInv, running, NEW gone \in SUBSET Mapped, DropConnections(gone),
         UNCHANGED <<subscription, accepted, owner>>
  PROVE  LET over == {packet_subscriptions[v] : v \in gone}
         IN  over \in SUBSET Streams!At("served") /\ Streams!End(over)
<1> DEFINE over == {packet_subscriptions[v] : v \in gone}
<1>1. over \subseteq Connection /\ \A c \in over : Serves(c)
  BY DEF IInv, TypeOK, Mapped, Serves
<1>2. \A v \in Validator : packet_subscriptions'[v] = IF v \in gone THEN 0 ELSE packet_subscriptions[v]
  BY DEF DropConnections
<1>3. \A c \in Connection : (Queued(c)' <=> Queued(c)) /\ (Joined(c)' <=> Joined(c)) /\ c # 0
  BY DEF Queued, Joined, Connection
<1>4. ASSUME NEW c \in Connection, c \in over PROVE Life'[c] = "over"
  <2>1. PICK v \in gone : packet_subscriptions[v] = c
    BY <1>4
  <2>2. \A u \in Validator : packet_subscriptions[u] = c => u = v
    BY <2>1, Stages, Zenon DEF Mapped
  <2>3. ~Serves(c)'
    BY <1>2, <1>3, <2>1, <2>2, Zenon DEF Serves
  <2> QED
    BY <1>1, <1>3, <1>4, <2>3, Stages, LifeNext, Zenon
<1>5. ASSUME NEW c \in Connection, c \notin over PROVE Life'[c] = Life[c]
  <2>1. Serves(c)' <=> Serves(c)
    BY <1>2, <1>3, <1>5, Zenon DEF Serves
  <2> QED
    BY <1>3, <2>1, SameLife, Zenon
<1> HIDE DEF over
<1>6. Life' = [c \in Connection |-> IF c \in over THEN "over" ELSE Life[c]]
  <2>1. Life' = [d \in Connection |-> Life'[d]]
    BY DEF Life
  <2> QED
    BY <1>4, <1>5, <2>1
<1>7. over \in SUBSET Streams!At("served")
  BY <1>1, LifeAt, Zenon DEF Streams!At
<1> QED
  BY <1>6, <1>7, Zenon DEF Streams!End, over

\* What is being forwarded comes from the input.
FromInput == \A k \in DOMAIN forwarding : forwarding[k] \in Message

\* Every step keeps that.
LEMMA NextFromInput ==
  ASSUME IInv, FromInput, [Next]_vars
  PROVE  FromInput'
<1>1. CASE ForwardPackets
  <2>1. handled + 1 \in DOMAIN Content
    BY <1>1, RelayerAssumption, SMTT(30) DEF ForwardPackets, IInv, TypeOK
  <2>2. forwarding' = ProtoPacketBatches(handled + 1)
    BY <1>1 DEF ForwardPackets
  <2>3. \A k \in DOMAIN ProtoPacketBatches(handled + 1) :
          ProtoPacketBatches(handled + 1)[k] \in Message
    BY <2>1, SMTT(30) DEF Message
  <2> QED
    BY <2>2, <2>3 DEF FromInput
<1>2. CASE ForwardBatch
  <2>1. forwarding # <<>> /\ forwarding' = Tail(forwarding) /\ forwarding \in Stream
    BY <1>2 DEF ForwardBatch, Ready, IInv, StreamsInOrder
  <2>2. \A k \in DOMAIN Tail(forwarding) :
          k + 1 \in DOMAIN forwarding /\ Tail(forwarding)[k] = forwarding[k + 1]
    BY <2>1, SMTT(30) DEF Stream
  <2> QED
    BY <2>1, <2>2, Zenon DEF FromInput
<1>3. CASE UNCHANGED forwarding
  BY <1>3, Zenon DEF FromInput
<1> QED
  BY <1>1, <1>2, <1>3, Zenon
     DEF Next, vars, packetVars, CheckHealth, SendSubscription, SendFails, ValidatorReads,
         ValidatorHangsUp, UpdateHighestSlot, HandleSubscription, HeartbeatTick, LoopReturns,
         HealthChange, Feed

\* A message batch is tried on the senders: it is put on streams that are served and open,
\* behind all that is on them; streams found closed are over after the last one.
LEMMA SendDelivers ==
  ASSUME IInv, StreamsInOrder', FromInput, ForwardBatch
  PROVE  Streams!StreamNext
<1> DEFINE to == Accepting(Senders)
           message == Head(forwarding)
           failed == failed_forwards \cup {v \in Senders : Closed(v)}
<1>1. /\ running /\ forwarding # <<>>
      /\ delivered' = [c \in Connection |->
           IF c \in to THEN Append(delivered[c], message) ELSE delivered[c]]
      /\ UNCHANGED packet_subscriptions \/ DropConnections(failed)
      /\ UNCHANGED <<subscription, accepted, owner>>
  BY DEF ForwardBatch, Ready, clientVars
<1>2. message \in Message
  BY <1>1, SMTT(30) DEF FromInput, IInv, StreamsInOrder, Stream
<1>3. \A v \in failed : Closed(v)
  BY DEF IInv, FoundClosed
<1>4. to \subseteq Connection /\ \A c \in to : Serves(c) /\ c \in listening
  BY SendersMapped DEF Accepting, Closed, IInv, TypeOK, Mapped, Serves
<1>5. \A c \in to : InOrder(Append(delivered[c], message))
  BY <1>1, <1>4, Zenon DEF StreamsInOrder
<1>6. \A q : InOrder(q) <=> Streams!InOrder(q)
  BY Zenon DEF InOrder, Streams!InOrder, Earlier, Streams!Earlier
<1>7. PICK over \in SUBSET Streams!At("served") :
        Streams!End(over) /\ \A c \in over : c \notin listening
  <2>1. CASE UNCHANGED packet_subscriptions
    <3>1. Life' = Life
      BY <1>1, <2>1, Zenon DEF Life, Serves, Queued, Joined
    <3>2. Life = [c \in Connection |-> Life[c]]
      BY DEF Life
    <3>3. Streams!End({})
      BY <3>1, <3>2 DEF Streams!End
    <3> QED
      BY <3>3
  <2>2. CASE DropConnections(failed)
    <3> DEFINE gone == failed \cap Mapped
               over == {packet_subscriptions[v] : v \in gone}
    <3>1. DropConnections(gone)
      BY <2>2 DEF DropConnections, Mapped
    <3>2. over \in SUBSET Streams!At("served") /\ Streams!End(over)
      <4>1. gone \in SUBSET Mapped
        OBVIOUS
      <4> HIDE DEF gone
      <4> QED
        BY <1>1, <3>1, <4>1, DropEnds, Zenon
    <3>3. \A c \in over : c \notin listening
      BY <1>3 DEF Closed
    <3> QED
      BY <3>2, <3>3
  <2> QED
    BY <1>1, <2>1, <2>2
<1>8. to \in SUBSET (Streams!At("served") \ over)
  BY <1>4, <1>7, LifeAt, Zenon DEF Streams!At
<1> HIDE DEF to, message
<1>9. Streams!Deliver(message, to, over)
  BY <1>1, <1>5, <1>6, <1>7, Zenon DEF Streams!Deliver
<1> QED
  BY <1>2, <1>8, <1>9, Zenon DEF Streams!StreamNext

\* A heartbeat drops streams, and puts no packets on any.
LEMMA HeartbeatEnds ==
  ASSUME IInv, HeartbeatTick
  PROVE  Streams!StreamNext
<1> DEFINE over == {packet_subscriptions[v] : v \in HeartbeatDrops}
<1>1. /\ running /\ DropConnections(HeartbeatDrops)
      /\ UNCHANGED <<subscription, accepted, owner, delivered>>
  BY DEF HeartbeatTick, Idle, clientVars
<1>2. HeartbeatDrops \in SUBSET Mapped
  BY DEF HeartbeatDrops
<1>3. over \in SUBSET Streams!At("served") /\ Streams!End(over)
  BY <1>1, <1>2, DropEnds, Zenon
<1> HIDE DEF over
<1> QED
  BY <1>1, <1>3, Zenon DEF Streams!StreamNext, Streams!Drop

\* The loop returns: what waited is never served, and what was served stays in the map.
LEMMA ReturnQuits ==
  ASSUME IInv, LoopReturns
  PROVE  Streams!StreamNext
<1>1. /\ running /\ subscription' = <<>>
      /\ UNCHANGED <<packet_subscriptions, accepted, owner, delivered>>
  BY DEF LoopReturns, Idle, clientVars
<1>2. \A c \in Connection : ~Queued(c)' /\ (Serves(c)' <=> Serves(c)) /\ (Joined(c)' <=> Joined(c))
  BY <1>1, SMTT(30) DEF Queued, Serves, Joined
<1>3. ASSUME NEW c \in Connection
      PROVE  Life'[c] = IF Life[c] = "waiting" THEN "over" ELSE Life[c]
  <2>1. Queued(c) => Joined(c)
    BY <1>1, Stages, Zenon
  <2> QED
    BY <1>2, <2>1, LifeAt, LifeNext
<1>4. Life' = [c \in Connection |-> Life'[c]]
  BY DEF Life
<1>5. Streams!Quit
  BY <1>1, <1>3, <1>4 DEF Streams!Quit, Streams!At
<1> QED
  BY <1>5, Zenon DEF Streams!StreamNext

\* Every step of the loop, the calls and the validators is a step of the promised streams
\* or leaves them alone.
LEMMA NextStream ==
  ASSUME IInv, StreamsInOrder', FromInput, [Next]_vars
  PROVE  [Streams!StreamNext]_(Streams!streamVars)
<1>1. CASE UNCHANGED <<owner, packet_subscriptions, subscription, accepted, delivered>>
  BY <1>1, QuietStreams
<1> QED
  BY <1>1, SendJoins, TakeBegins, SendDelivers, HeartbeatEnds, ReturnQuits, Zenon
     DEF Next, vars, clientVars, CheckHealth, SendFails, ValidatorReads, ValidatorHangsUp,
         UpdateHighestSlot, ForwardPackets, HealthChange, Feed

-----------------------------------------------------------------------------
(* The message batches that forward_packets cuts.                          *)

\* A function on 1 .. n is a sequence.
LEMMA IsASeq ==
  ASSUME NEW S, NEW n \in Nat, NEW f \in [1 .. n -> S]
  PROVE  f \in Seq(S) /\ Len(f) = n
  OBVIOUS

\* A message batch holds at least one packet.
LEMMA SizeIsPositive == BatchSize \in Nat \ {0}
  BY RelayerAssumption

\* Chunk k + 1 starts behind the last packet of chunk k.
LEMMA ChunksApart ==
  ASSUME NEW k \in Nat, NEW l \in Nat, k < l
  PROVE  k * BatchSize \in Nat /\ k * BatchSize + BatchSize <= l * BatchSize
<1>1. PICK d \in Nat : l = k + 1 + d
  BY SMT
<1>2. l * BatchSize = k * BatchSize + BatchSize + d * BatchSize
  BY <1>1, SizeIsPositive, SMT
<1>3. d * BatchSize \in Nat /\ k * BatchSize \in Nat /\ l * BatchSize \in Nat
  BY SizeIsPositive, SMT
<1> QED
  BY <1>2, <1>3, SizeIsPositive

\* Division with remainder.
LEMMA Division ==
  ASSUME NEW n \in Nat, NEW b \in Nat \ {0}
  PROVE  /\ n \div b \in Nat /\ (n \div b) * b \in Nat
         /\ (n \div b) * b <= n /\ n < (n \div b) * b + b
<1>1. n \div b \in Nat
  BY SMT
<1>2. (n \div b) * b \in Nat
  BY <1>1, SMT
<1>3. (n \div b) * b <= n
  BY SMT
<1>4. n < (n \div b) * b + b
  BY SMT
<1> QED
  BY <1>1, <1>2, <1>3, <1>4

\* No chunk starts behind the end.
LEMMA ChunkCount ==
  ASSUME NEW n \in Nat
  PROVE  /\ (n + BatchSize - 1) \div BatchSize \in Nat
         /\ \A k \in 1 .. (n + BatchSize - 1) \div BatchSize :
              /\ (k - 1) * BatchSize \in Nat /\ (k - 1) * BatchSize < n
              /\ k * BatchSize = (k - 1) * BatchSize + BatchSize
<1> DEFINE q == (n + BatchSize - 1) \div BatchSize
<1>1. q \in Nat /\ q * BatchSize <= n + BatchSize - 1
  BY SizeIsPositive, SMT
<1>2. ASSUME NEW k \in 1 .. q
      PROVE  /\ (k - 1) * BatchSize \in Nat /\ (k - 1) * BatchSize < n
             /\ k * BatchSize = (k - 1) * BatchSize + BatchSize
  <2>1. k \in Nat /\ k - 1 \in Nat /\ k - 1 < q
    BY <1>1
  <2>2. (k - 1) * BatchSize \in Nat /\ (k - 1) * BatchSize + BatchSize <= q * BatchSize
    BY <2>1, <1>1, ChunksApart
  <2>3. k * BatchSize = (k - 1) * BatchSize + BatchSize
    BY <2>1, SizeIsPositive, SMT
  <2> QED
    BY <2>2, <2>3, <1>1, SizeIsPositive, SMTT(30)
<1> QED
  BY <1>1, <1>2

\* Chunk k holds the packets from (k - 1) * BatchSize + 1 on: at least one and at
\* most BatchSize of them.
LEMMA ChunksFacts ==
  ASSUME NEW S, NEW s \in Seq(S)
  PROVE  /\ Chunks(s) \in Seq(Seq(S))
         /\ \A k \in DOMAIN Chunks(s) :
              /\ k \in Nat /\ k - 1 \in Nat /\ (k - 1) * BatchSize \in Nat
              /\ Len(Chunks(s)[k]) \in 1 .. BatchSize
              /\ DOMAIN Chunks(s)[k] = 1 .. Len(Chunks(s)[k])
              /\ \A i \in DOMAIN Chunks(s)[k] :
                   /\ (k - 1) * BatchSize + i \in 1 .. Len(s)
                   /\ Chunks(s)[k][i] = s[(k - 1) * BatchSize + i]
<1> DEFINE q == (Len(s) + BatchSize - 1) \div BatchSize
<1>0. Len(s) \in Nat
  OBVIOUS
<1>1. q \in Nat
  BY <1>0, ChunkCount
<1>2. DOMAIN Chunks(s) = 1 .. q
  BY DEF Chunks
<1>3. ASSUME NEW k \in 1 .. q
      PROVE  /\ (k - 1) * BatchSize \in Nat
             /\ Chunks(s)[k] \in Seq(S)
             /\ Len(Chunks(s)[k]) \in 1 .. BatchSize
             /\ DOMAIN Chunks(s)[k] = 1 .. Len(Chunks(s)[k])
             /\ \A i \in DOMAIN Chunks(s)[k] :
                  /\ (k - 1) * BatchSize + i \in 1 .. Len(s)
                  /\ Chunks(s)[k][i] = s[(k - 1) * BatchSize + i]
  <2> DEFINE a == (k - 1) * BatchSize
             e == IF k * BatchSize < Len(s) THEN k * BatchSize ELSE Len(s)
  <2>1. a \in Nat /\ a < Len(s) /\ k * BatchSize = a + BatchSize
    BY <1>0, ChunkCount
  <2>2. Chunks(s)[k] = SubSeq(s, a + 1, e)
    BY Zenon DEF Chunks
  <2>3. e \in Nat /\ a + 1 <= e /\ e <= Len(s) /\ e <= a + BatchSize
    BY <2>1, <1>0, SizeIsPositive, SMTT(30)
  <2> HIDE DEF a, e
  <2>4. /\ SubSeq(s, a + 1, e) \in Seq(S)
        /\ Len(SubSeq(s, a + 1, e)) = e - a
        /\ \A i \in 1 .. e - a : SubSeq(s, a + 1, e)[i] = s[a + i]
    BY <2>1, <2>3, <1>0, SMTT(30)
  <2>5. DOMAIN SubSeq(s, a + 1, e) = 1 .. e - a
    BY <2>4, <2>1, <2>3, SMTT(30)
  <2>6. Len(Chunks(s)[k]) \in 1 .. BatchSize
    BY <2>2, <2>4, <2>3, <2>1, SizeIsPositive, SMTT(30)
  <2>7. \A i \in 1 .. e - a : a + i \in 1 .. Len(s)
    BY <2>1, <2>3, <1>0
  <2> QED
    BY <2>1, <2>2, <2>4, <2>5, <2>6, <2>7, Zenon DEF a
<1> HIDE DEF q
<1>4. Chunks(s) \in [1 .. q -> Seq(S)]
  BY <1>2, <1>3, Zenon DEF Chunks
<1> QED
  BY <1>1, <1>2, <1>3, <1>4, IsASeq, SMTT(30)

\* Every packet is in a chunk.
LEMMA ChunksCover ==
  ASSUME NEW S, NEW s \in Seq(S), NEW m \in 1 .. Len(s)
  PROVE  \E k \in DOMAIN Chunks(s) : \E i \in DOMAIN Chunks(s)[k] : Chunks(s)[k][i] = s[m]
<1> DEFINE r == (m - 1) \div BatchSize
           k == r + 1
           i == m - r * BatchSize
           q == (Len(s) + BatchSize - 1) \div BatchSize
           e == IF k * BatchSize < Len(s) THEN k * BatchSize ELSE Len(s)
<1>0. /\ Len(s) \in Nat /\ m \in Nat /\ 1 <= m /\ m <= Len(s)
      /\ BatchSize \in Nat \ {0} /\ m - 1 \in Nat /\ Len(s) + BatchSize - 1 \in Nat
  BY SizeIsPositive
<1>1. r \in Nat /\ r * BatchSize \in Nat /\ r * BatchSize <= m - 1 /\ m - 1 < r * BatchSize + BatchSize
  BY <1>0, Division, Zenon
<1>2. q \in Nat /\ q * BatchSize \in Nat /\ Len(s) + BatchSize - 1 < q * BatchSize + BatchSize
  BY <1>0, Division, Zenon
<1> HIDE DEF r, q
<1>3. r < q
  <2> SUFFICES ASSUME ~(r < q) PROVE FALSE
    OBVIOUS
  <2>1. CASE q = r
    BY <2>1, <1>0, <1>1, <1>2, SizeIsPositive, SMTT(30)
  <2>2. CASE q < r
    <3>1. q * BatchSize + BatchSize <= r * BatchSize
      BY <2>2, <1>1, <1>2, ChunksApart
    <3> QED
      BY <3>1, <1>0, <1>1, <1>2, SizeIsPositive, SMTT(30)
  <2> QED
    BY <2>1, <2>2, <1>1, <1>2
<1>4. k \in DOMAIN Chunks(s)
  BY <1>1, <1>2, <1>3 DEF Chunks, q
<1>5. k - 1 = r /\ k * BatchSize = r * BatchSize + BatchSize
  BY <1>1, SizeIsPositive, SMT
<1>6. Chunks(s)[k] = SubSeq(s, r * BatchSize + 1, e)
  BY <1>4, <1>5, Zenon DEF Chunks
<1>7. e \in Nat /\ r * BatchSize + 1 <= e /\ e <= Len(s) /\ i \in 1 .. e - r * BatchSize
  BY <1>0, <1>1, <1>5, SizeIsPositive, SMTT(30)
<1> HIDE DEF e
<1>8. Len(SubSeq(s, r * BatchSize + 1, e)) = e - r * BatchSize
  <2> DEFINE a == r * BatchSize
  <2>1. a \in Nat /\ e \in Nat /\ a + 1 <= e /\ e <= Len(s)
    BY <1>1, <1>7
  <2> HIDE DEF a
  <2>2. Len(SubSeq(s, a + 1, e)) = e - a
    BY <2>1, <1>0
  <2> QED
    BY <2>2, Zenon DEF a
<1>9. i \in DOMAIN Chunks(s)[k] /\ r * BatchSize + i = m
  BY <1>0, <1>1, <1>6, <1>7, <1>8, SMTT(30)
<1>10. Chunks(s)[k][i] = s[(k - 1) * BatchSize + i]
  BY <1>4, <1>9, ChunksFacts
<1> QED
  BY <1>4, <1>5, <1>9, <1>10

\* Every chunk but the last is full.
LEMMA ChunksFull ==
  ASSUME NEW S, NEW s \in Seq(S), NEW k \in DOMAIN Chunks(s), k # Len(Chunks(s))
  PROVE  Len(Chunks(s)[k]) = BatchSize
<1> DEFINE q == (Len(s) + BatchSize - 1) \div BatchSize
           a == (k - 1) * BatchSize
<1>0. Len(s) \in Nat
  OBVIOUS
<1>1. q \in Nat /\ DOMAIN Chunks(s) = 1 .. q
  BY <1>0, ChunkCount, Zenon DEF Chunks
<1>2. Len(Chunks(s)) = q
  BY <1>1, ChunksFacts, SMTT(30)
<1> HIDE DEF q
<1>3. k \in 1 .. q /\ k + 1 \in 1 .. q /\ (k + 1) - 1 = k
  BY <1>1, <1>2
<1>4. a \in Nat /\ k * BatchSize = a + BatchSize
  BY <1>0, <1>3, ChunkCount, Zenon DEF q
<1>5. k * BatchSize < Len(s)
  BY <1>0, <1>3, ChunkCount DEF q
<1>6. Chunks(s)[k] = SubSeq(s, a + 1, a + BatchSize)
  BY <1>3, <1>4, <1>5, Zenon DEF Chunks, q
<1> HIDE DEF a
<1>7. a + BatchSize < Len(s)
  BY <1>4, <1>5
<1>8. BatchSize \in Nat \ {0}
  BY SizeIsPositive
<1>9. Len(SubSeq(s, a + 1, a + BatchSize)) = BatchSize
  BY <1>0, <1>4, <1>7, <1>8, SMTT(30)
<1> QED
  BY <1>6, <1>9, Zenon

\* Message batches that are full but for the last, in input order, with all the packets of
\* input batch n that pass the filters and no other.
BatchesFit(C, n) ==
  /\ C \in Stream /\ InOrder(C)
  /\ \A k \in DOMAIN C : WellFormed(C[k]) /\ (k # Len(C) => Len(C[k]) = BatchSize)
  /\ \A p \in Nat \X Nat : Holds(C, p) <=> p[1] = n /\ p[2] \in Survivors(n)

\* What the message batches cut from packets P of input batch n are, when P holds the
\* packets that pass the filters and no other, in ascending order.
LEMMA BatchesOfPackets ==
  ASSUME NEW n \in DOMAIN Content, NEW P \in Seq(Nat \X Nat),
         \A m \in 1 .. Len(P) : P[m][1] = n /\ P[m][2] \in Survivors(n),
         \A l, m \in 1 .. Len(P) : l < m => P[l][2] < P[m][2],
         \A i \in Survivors(n) : \E m \in 1 .. Len(P) : P[m] = <<n, i>>
  PROVE  BatchesFit(Chunks(P), n)
<1> DEFINE C == Chunks(P)
<1>1. /\ C \in Seq(Seq(Nat \X Nat))
      /\ \A k \in DOMAIN C :
           /\ k \in Nat /\ k - 1 \in Nat /\ (k - 1) * BatchSize \in Nat
           /\ Len(C[k]) \in 1 .. BatchSize
           /\ DOMAIN C[k] = 1 .. Len(C[k])
           /\ \A i \in DOMAIN C[k] : /\ (k - 1) * BatchSize + i \in 1 .. Len(P)
                                     /\ C[k][i] = P[(k - 1) * BatchSize + i]
  BY ChunksFacts, SMTT(30)
<1>2. \A m \in 1 .. Len(P) : \E k \in DOMAIN C : \E i \in DOMAIN C[k] : C[k][i] = P[m]
  BY ChunksCover
<1> HIDE DEF C
<1>3. InOrder(C)
  <2> SUFFICES ASSUME NEW k \in DOMAIN C, NEW l \in DOMAIN C,
                      NEW i \in DOMAIN C[k], NEW j \in DOMAIN C[l],
                      k < l \/ (k = l /\ i < j)
               PROVE  Earlier(C[k][i], C[l][j])
    BY DEF InOrder
  <2> DEFINE x == (k - 1) * BatchSize + i
             y == (l - 1) * BatchSize + j
  <2>1. /\ x \in 1 .. Len(P) /\ C[k][i] = P[x] /\ y \in 1 .. Len(P) /\ C[l][j] = P[y]
    BY <1>1
  <2>2. x < y
    <3>1. i \in Nat /\ i <= BatchSize /\ j \in Nat /\ 1 <= j
      <4>1. Len(C[k]) \in 1 .. BatchSize /\ Len(C[l]) \in 1 .. BatchSize
        BY <1>1
      <4>2. i \in 1 .. Len(C[k]) /\ j \in 1 .. Len(C[l])
        BY <1>1, Zenon
      <4> QED
        BY <4>1, <4>2, SizeIsPositive, SMTT(30)
    <3>2. CASE k < l
      <4>1. k - 1 \in Nat /\ l - 1 \in Nat /\ k - 1 < l - 1
        BY <1>1, <3>2, SMTT(30)
      <4>2. (k - 1) * BatchSize + BatchSize <= (l - 1) * BatchSize
        BY <4>1, ChunksApart
      <4>3. (k - 1) * BatchSize \in Nat /\ (l - 1) * BatchSize \in Nat
        BY <1>1
      <4> QED
        BY <3>1, <4>2, <4>3, SizeIsPositive, SMTT(30)
    <3>3. CASE k = l /\ i < j
      BY <3>3, <3>1, <1>1, SMTT(30)
    <3> QED
      BY <3>2, <3>3
  <2> QED
    BY <2>1, <2>2, Zenon DEF Earlier
<1>4. ASSUME NEW k \in DOMAIN C PROVE WellFormed(C[k])
  <2>1. ASSUME NEW i \in DOMAIN C[k]
        PROVE  Content[C[k][i][1]][C[k][i][2]] \in
                 {"plain"} \cup IF OfacConfigured THEN {} ELSE {"ofac", "garbled"}
    <3>1. C[k][i][1] = n /\ C[k][i][2] \in Survivors(n)
      <4>1. PICK m \in 1 .. Len(P) : C[k][i] = P[m]
        BY <1>1, Zenon
      <4> QED
        BY <4>1
    <3>2. \A m \in Survivors(n) : Content[n][m] \in Kind /\ Forwarded(Content[n][m])
      BY RelayerAssumption, SMTT(30) DEF Survivors
    <3> QED
      BY <3>1, <3>2 DEF Forwarded, Kind
  <2> QED
    BY <2>1, <1>1 DEF WellFormed
<1>5. ASSUME NEW p \in Nat \X Nat
      PROVE  Holds(C, p) <=> p[1] = n /\ p[2] \in Survivors(n)
  <2>1. ASSUME p[1] = n, p[2] \in Survivors(n) PROVE Holds(C, p)
    <3>1. PICK m \in 1 .. Len(P) : P[m] = <<n, p[2]>>
      BY <2>1, Zenon
    <3>2. p = <<n, p[2]>>
      BY <2>1
    <3>3. P[m] = p
      BY <3>1, <3>2, Zenon
    <3>4. \E k \in DOMAIN C : \E i \in DOMAIN C[k] : C[k][i] = P[m]
      BY <1>2
    <3> QED
      BY <3>3, <3>4 DEF Holds
  <2>2. ASSUME NEW k \in DOMAIN C, NEW j \in DOMAIN C[k], C[k][j] = p
        PROVE  p[1] = n /\ p[2] \in Survivors(n)
    <3>1. PICK m \in 1 .. Len(P) : C[k][j] = P[m]
      BY <1>1, Zenon
    <3> QED
      BY <3>1, <2>2, Zenon
  <2> QED
    BY <2>1, <2>2 DEF Holds
<1>6. \A k \in DOMAIN C : k # Len(C) => Len(C[k]) = BatchSize
  BY ChunksFull, SMTT(30) DEF C
<1>7. BatchesFit(C, n)
  BY <1>1, <1>3, <1>4, <1>5, <1>6 DEF BatchesFit, Stream
<1> QED
  BY <1>7 DEF C

-----------------------------------------------------------------------------
(* The packets on the streams.                                             *)

\* Taking the first message batch off leaves the others as they are.
LEMMA RestOfStream ==
  ASSUME NEW s \in Stream, s # <<>>
  PROVE  /\ Tail(s) \in Stream
         /\ Head(s) = s[1] /\ 1 \in DOMAIN s
         /\ \A k \in DOMAIN Tail(s) : k + 1 \in DOMAIN s /\ k \in Nat \ {0} /\ Tail(s)[k] = s[k + 1]
  BY DEF Stream

\* The rest of an ordered stream is ordered, and comes after whatever the whole does.
LEMMA RestInOrder ==
  ASSUME NEW s \in Stream, s # <<>>, InOrder(s), NEW n, UpTo(s, n),
         \A k \in DOMAIN s : WellFormed(s[k])
  PROVE  /\ InOrder(Tail(s)) /\ UpTo(Tail(s), n)
         /\ \A k \in DOMAIN Tail(s) : WellFormed(Tail(s)[k])
         /\ \A r : AllEarlier(r, s) => AllEarlier(r, Tail(s))
<1>1. \A k \in DOMAIN Tail(s) : k + 1 \in DOMAIN s /\ k \in Nat \ {0} /\ Tail(s)[k] = s[k + 1]
  BY RestOfStream
<1>2. InOrder(Tail(s))
  BY <1>1, SMTT(30) DEF InOrder
<1>3. UpTo(Tail(s), n)
  BY <1>1 DEF UpTo
<1>4. ASSUME NEW r, AllEarlier(r, s) PROVE AllEarlier(r, Tail(s))
  BY <1>1, <1>4 DEF AllEarlier
<1> QED
  BY <1>1, <1>2, <1>3, <1>4

\* Moving the first message batch of t to the end of s keeps the order.
LEMMA MoveFirst ==
  ASSUME NEW s \in Stream, InOrder(s), NEW n, UpTo(s, n), \A k \in DOMAIN s : WellFormed(s[k]),
         NEW t \in Stream, t # <<>>, InOrder(t), UpTo(t, n), \A k \in DOMAIN t : WellFormed(t[k]),
         AllEarlier(s, t)
  PROVE  /\ Append(s, Head(t)) \in Stream
         /\ InOrder(Append(s, Head(t))) /\ UpTo(Append(s, Head(t)), n)
         /\ AllEarlier(Append(s, Head(t)), Tail(t))
         /\ \A k \in DOMAIN Append(s, Head(t)) : WellFormed(Append(s, Head(t))[k])
<1> DEFINE a == Append(s, Head(t))
<1>1. /\ Head(t) = t[1] /\ 1 \in DOMAIN t
      /\ \A k \in DOMAIN Tail(t) : k + 1 \in DOMAIN t /\ k \in Nat \ {0} /\ Tail(t)[k] = t[k + 1]
  BY RestOfStream
<1>2. /\ a \in Stream
      /\ \A k \in DOMAIN a : \/ k \in DOMAIN s /\ a[k] = s[k]
                             \/ k = Len(s) + 1 /\ a[k] = t[1]
      /\ \A k \in DOMAIN s : k < Len(s) + 1
  <2>1. t[1] \in Seq(Nat \X Nat) /\ s \in Seq(Seq(Nat \X Nat))
    BY <1>1 DEF Stream
  <2>2. /\ a \in Seq(Seq(Nat \X Nat)) /\ DOMAIN a = 1 .. Len(s) + 1 /\ a[Len(s) + 1] = t[1]
        /\ \A k \in 1 .. Len(s) : a[k] = s[k]
    BY <1>1, <2>1, Appended, SMTT(30)
  <2>3. DOMAIN s = 1 .. Len(s) /\ Len(s) \in Nat
    BY <2>1
  <2> HIDE DEF a
  <2> QED
    BY <2>2, <2>3, SMTT(30) DEF Stream
<1> HIDE DEF a
<1>3. InOrder(a)
  <2> SUFFICES ASSUME NEW k \in DOMAIN a, NEW l \in DOMAIN a, NEW i \in DOMAIN a[k],
                      NEW j \in DOMAIN a[l], k < l \/ (k = l /\ i < j)
               PROVE  Earlier(a[k][i], a[l][j])
    BY DEF InOrder
  <2>1. CASE k \in DOMAIN s /\ a[k] = s[k] /\ l \in DOMAIN s /\ a[l] = s[l]
    BY <2>1, Zenon DEF InOrder
  <2>2. CASE k \in DOMAIN s /\ a[k] = s[k] /\ a[l] = t[1]
    BY <2>2, <1>1, Zenon DEF AllEarlier
  <2>3. CASE k = Len(s) + 1 /\ a[k] = t[1] /\ l = Len(s) + 1 /\ a[l] = t[1]
    BY <2>3, <1>1, SMTT(30) DEF InOrder
  <2>4. ~(k = Len(s) + 1 /\ l \in DOMAIN s)
    <3>1. Len(s) \in Nat /\ DOMAIN s = 1 .. Len(s)
      BY SMTT(30) DEF Stream
    <3> QED
      BY <3>1, <1>2, SMTT(30)
  <2> QED
    BY <2>1, <2>2, <2>3, <2>4, <1>2, Zenon
<1>4. UpTo(a, n)
  BY <1>1, <1>2 DEF UpTo
<1>5. AllEarlier(a, Tail(t))
  <2> SUFFICES ASSUME NEW k \in DOMAIN a, NEW l \in DOMAIN Tail(t), NEW i \in DOMAIN a[k],
                      NEW j \in DOMAIN Tail(t)[l]
               PROVE  Earlier(a[k][i], Tail(t)[l][j])
    BY Zenon DEF AllEarlier
  <2>1. l + 1 \in DOMAIN t /\ 1 < l + 1 /\ Tail(t)[l] = t[l + 1]
    BY <1>1, SMTT(30)
  <2>2. CASE k \in DOMAIN s /\ a[k] = s[k]
    BY <2>1, <2>2 DEF AllEarlier
  <2>3. CASE a[k] = t[1]
    BY <2>1, <2>3, <1>1 DEF InOrder
  <2> QED
    BY <2>2, <2>3, <1>2, Zenon
<1>6. \A k \in DOMAIN a : WellFormed(a[k])
  BY <1>1, <1>2
<1> QED
  BY <1>2, <1>3, <1>4, <1>5, <1>6 DEF a

\* One message batch is sent: it moves to the streams that have room, and is gone from
\* the others.
LEMMA SendBatch ==
  ASSUME TypeOK, StreamsInOrder, ForwardBatch
  PROVE  StreamsInOrder'
<1> DEFINE t == forwarding
           ok == Accepting(Senders)
<1>1. /\ t # <<>> /\ t' = Tail(t) /\ handled' = handled
      /\ delivered' = [c \in Connection |->
                         IF c \in ok THEN Append(delivered[c], Head(t)) ELSE delivered[c]]
  BY DEF ForwardBatch, Ready
<1>2. /\ t \in Stream /\ InOrder(t) /\ UpTo(t, handled)
      /\ \A k \in DOMAIN t : WellFormed(t[k])
  BY DEF StreamsInOrder
<1>3. /\ Tail(t) \in Stream
      /\ InOrder(Tail(t)) /\ UpTo(Tail(t), handled)
      /\ \A k \in DOMAIN Tail(t) : WellFormed(Tail(t)[k])
      /\ \A r : AllEarlier(r, t) => AllEarlier(r, Tail(t))
  BY <1>1, <1>2, RestInOrder, RestOfStream, Zenon
<1>4. ASSUME NEW c \in Connection
      PROVE  /\ delivered'[c] \in Stream
             /\ InOrder(delivered'[c]) /\ UpTo(delivered'[c], handled)
             /\ AllEarlier(delivered'[c], Tail(t))
             /\ \A k \in DOMAIN delivered'[c] : WellFormed(delivered'[c][k])
  <2>1. /\ delivered[c] \in Stream
        /\ InOrder(delivered[c]) /\ UpTo(delivered[c], handled) /\ AllEarlier(delivered[c], t)
        /\ \A k \in DOMAIN delivered[c] : WellFormed(delivered[c][k])
    BY DEF StreamsInOrder
  <2>2. CASE c \in ok
    <3>1. delivered'[c] = Append(delivered[c], Head(t))
      BY <1>1, <2>2
    <3> QED
      BY <3>1, <2>1, <1>1, <1>2, MoveFirst, Zenon
  <2>3. CASE c \notin ok
    <3>1. delivered'[c] = delivered[c]
      BY <1>1, <2>3
    <3> QED
      BY <3>1, <2>1, <1>3
  <2> QED
    BY <2>2, <2>3
<1>5. delivered' \in [Connection -> Stream]
  BY <1>1, <1>4
<1> QED
  BY <1>1, <1>3, <1>4, <1>5, Zenon DEF StreamsInOrder

\* forward_packets takes the next batch: all of it comes after what has been sent.
LEMMA TakeBatch ==
  ASSUME TypeOK, StreamsInOrder, ForwardPackets,
         BatchesFit(ProtoPacketBatches(handled + 1), handled + 1)
  PROVE  StreamsInOrder'
<1> DEFINE n == handled + 1
           B == ProtoPacketBatches(n)
<1>1. n \in DOMAIN Content /\ n \in Nat /\ handled \in Nat
  BY RelayerAssumption, SMTT(30) DEF ForwardPackets, TypeOK
<1>2. /\ handled' = n /\ forwarding' = B /\ delivered' = delivered
  BY DEF ForwardPackets
<1>3. /\ B \in Stream /\ InOrder(B)
      /\ \A k \in DOMAIN B : WellFormed(B[k])
      /\ \A p \in Nat \X Nat : Holds(B, p) => p[1] = n
  BY DEF BatchesFit
<1> HIDE DEF n, B
<1>4. \A k \in DOMAIN B : \A i \in DOMAIN B[k] : B[k][i] \in Nat \X Nat /\ B[k][i][1] = n
  <2> SUFFICES ASSUME NEW k \in DOMAIN B, NEW i \in DOMAIN B[k]
               PROVE  B[k][i] \in Nat \X Nat /\ B[k][i][1] = n
    OBVIOUS
  <2>1. B[k][i] \in Nat \X Nat
    BY <1>3, SMTT(30) DEF Stream
  <2> QED
    BY <2>1, <1>3 DEF Holds
<1>5. UpTo(B, n)
  BY <1>4, <1>1, SMTT(30) DEF UpTo
<1>6. ASSUME NEW c \in Connection
      PROVE  UpTo(delivered[c], n) /\ AllEarlier(delivered[c], B)
  <2>1. \A k \in DOMAIN delivered[c] : \A i \in DOMAIN delivered[c][k] :
          delivered[c][k][i][1] \in Nat /\ delivered[c][k][i][1] <= handled
    BY SMTT(30) DEF StreamsInOrder, UpTo, Stream
  <2>2. \A k \in DOMAIN delivered[c] : \A i \in DOMAIN delivered[c][k] :
          delivered[c][k][i][1] < n
    BY <2>1, <1>1, SMTT(30) DEF n
  <2> QED
    BY <2>1, <2>2, <1>1, <1>4, SMTT(30) DEF UpTo, AllEarlier, Earlier
<1> QED
  BY <1>2, <1>3, <1>5, <1>6 DEF StreamsInOrder

\* Every step keeps the streams in order, if what forward_packets cuts fits.
LEMMA OtherStreams ==
  ASSUME TypeOK, StreamsInOrder, [Next]_vars,
         ForwardPackets => BatchesFit(ProtoPacketBatches(handled + 1), handled + 1)
  PROVE  StreamsInOrder'
<1> USE DEF slotVars, clientVars, packetVars
<1>1. CASE UNCHANGED <<forwarding, handled, delivered>>
  BY <1>1 DEF StreamsInOrder
<1>2. ASSUME NEW c \in Connection,
             \/ CheckHealth(c) \/ SendSubscription(c) \/ SendFails(c)
             \/ ValidatorReads(c) \/ ValidatorHangsUp(c)
      PROVE  StreamsInOrder'
  BY <1>1, <1>2, Zenon DEF CheckHealth, SendSubscription, SendFails, ValidatorReads, ValidatorHangsUp
<1>3. ASSUME NEW s \in Slot, UpdateHighestSlot(s) PROVE StreamsInOrder'
  BY <1>1, <1>3, Zenon DEF UpdateHighestSlot
<1>4. CASE \/ HandleSubscription \/ HeartbeatTick \/ LoopReturns
           \/ HealthChange \/ Feed \/ UNCHANGED vars
  BY <1>1, <1>4, Zenon DEF HandleSubscription, HeartbeatTick, LoopReturns, HealthChange,
     Feed, vars
<1> QED
  BY <1>2, <1>3, <1>4, TakeBatch, SendBatch DEF Next

-----------------------------------------------------------------------------
(* The start, and the two action properties.                               *)

\* The invariant holds of the relayer that has just been built.
LEMMA InitHolds ==
  ASSUME Init
  PROVE  IInv
<1>1. TypeOK
  BY InitTypes
<1>2. /\ accepted = <<>> /\ subscription = <<>> /\ failed_forwards = {}
      /\ slot_leaders = {} /\ Mapped = {}
  BY DEF Init, Mapped
<1>3. AcceptedOnce /\ QueueIsRest
  BY <1>2 DEF AcceptedOnce, QueueIsRest
<1>4. StreamsInOrder
  <2>1. forwarding = <<>> /\ delivered = [c \in Connection |-> <<>>] /\ handled = 0
    BY DEF Init
  <2>2. <<>> \in Stream
    BY DEF Stream
  <2>3. InOrder(<<>>) /\ UpTo(<<>>, 0) /\ AllEarlier(<<>>, <<>>) /\ DOMAIN <<>> = {}
    BY DEF InOrder, UpTo, AllEarlier
  <2>4. delivered \in [Connection -> Stream] /\ \A c \in Connection : delivered[c] = <<>>
    BY <2>1, <2>2, Zenon
  <2> QED
    BY <2>1, <2>2, <2>3, <2>4, Zenon DEF StreamsInOrder
<1> QED
  BY <1>1, <1>2, <1>3, <1>4 DEF IInv, Served, FoundClosed, LeadersInWindow

\* A step of a healthy relayer takes away only a closed stream.
LEMMA KeepsLive ==
  ASSUME IInv, [Next]_vars
  PROVE  \A v \in Mapped :
           packet_subscriptions[v] \in listening /\ packet_subscriptions'[v] # packet_subscriptions[v]
             => packet_subscriptions'[v] # 0 \/ health = "Unhealthy"
<1> SUFFICES ASSUME NEW v \in Mapped, packet_subscriptions[v] \in listening,
                    packet_subscriptions'[v] # packet_subscriptions[v]
             PROVE  packet_subscriptions'[v] # 0 \/ health = "Unhealthy"
  OBVIOUS
<1> USE DEF slotVars, clientVars, packetVars
<1>0. v \in Validator /\ ~Closed(v) /\ v \notin failed_forwards
  BY DEF Mapped, Closed, IInv, FoundClosed
<1>1. CASE HandleSubscription
  <2>1. Head(subscription) \in Connection
    BY <1>1, SMTT(30) DEF HandleSubscription, IInv, TypeOK
  <2>2. Head(subscription) # 0
    BY <2>1 DEF Connection
  <2> QED
    BY <1>0, <1>1, <2>2 DEF HandleSubscription, Replace, IInv, TypeOK
<1>2. CASE HeartbeatTick
  BY <1>0, <1>2 DEF HeartbeatTick, DropConnections, HeartbeatDrops, IInv, TypeOK
<1>3. CASE ForwardBatch
  BY <1>0, <1>3 DEF ForwardBatch, DropConnections
<1>4. CASE UNCHANGED packet_subscriptions
  BY <1>4
<1> QED
  BY <1>1, <1>2, <1>3, <1>4, Zenon
     DEF Next, vars, CheckHealth, SendSubscription, SendFails, ValidatorReads, ValidatorHangsUp,
         UpdateHighestSlot, ForwardPackets, LoopReturns, HealthChange, Feed

\* A step that puts something on a stream does so for a leader, or forwards to all.
LEMMA SendsToLeaders ==
  ASSUME IInv, [Next]_vars
  PROVE  \A c \in Connection : delivered'[c] # delivered[c] =>
           \/ ForwardAll
           \/ \E s \in DOMAIN looked_up :
                looked_up[s] = owner[c] /\ highest_slot <= s /\ s < highest_slot + SlotLookahead
<1> SUFFICES ASSUME NEW c \in Connection, delivered'[c] # delivered[c], ~ForwardAll
             PROVE  Leads(owner[c])
  BY DEF Leads
<1>1. ForwardBatch
  BY Zenon
     DEF Next, vars, CheckHealth, SendSubscription, SendFails, ValidatorReads, ValidatorHangsUp,
         UpdateHighestSlot, HandleSubscription, HeartbeatTick, ForwardPackets, LoopReturns,
         HealthChange, Feed
<1>2. c \in Accepting(Senders)
  BY <1>1 DEF ForwardBatch
<1>3. PICK v \in Senders : packet_subscriptions[v] = c
  BY <1>2, Zenon DEF Accepting
<1>4. v \in slot_leaders /\ v \in Mapped
  BY <1>3 DEF Senders
<1>5. owner[c] = v
  BY <1>1, <1>3, <1>4, Zenon DEF ForwardBatch, Ready, IInv, Served, IsLatest
<1> QED
  BY <1>4, <1>5 DEF IInv, LeadersInWindow

\* The loop starts with new streams that nothing was put on.
LEMMA InitStreams ==
  ASSUME Init
  PROVE  Streams!StreamInit /\ FromInput
<1>1. \A c \in Connection : ~Serves(c) /\ ~Queued(c) /\ ~Joined(c)
  BY SMTT(30) DEF Init, Serves, Queued, Joined, Connection
<1>2. Life = [c \in Connection |-> Life[c]]
  BY DEF Life
<1>3. \A c \in Connection : Life[c] = "new"
  BY <1>1, LifeAt, Zenon
<1>4. FromInput
  BY DEF Init, FromInput
<1> QED
  BY <1>2, <1>3, <1>4 DEF Init, Streams!StreamInit

-----------------------------------------------------------------------------
(* The packets that pass the filters.  Induction over their number is by a *)
(* least counterexample.                                                   *)

INSTANCE FiniteSetTheorems

\* A set of naturals that is not empty has a least element.
LEMMA LeastElement ==
  ASSUME NEW T \in SUBSET Nat, T # {}
  PROVE  \E n \in T : \A m \in T : n <= m
<1>1. PICK x \in T : \A y \in T : ~(<<y, x>> \in OpToRel(<, Nat))
  BY NatLessThanWellFounded, WFMin, Zenon
<1>2. ASSUME NEW y \in T PROVE ~(y < x)
  <2>1. y < x => <<y, x>> \in OpToRel(<, Nat)
    BY Zenon DEF OpToRel
  <2> QED
    BY <1>1, <2>1, Zenon
<1> QED
  BY <1>2

\* A bounded set of naturals is finite.
LEMMA BoundedIsFinite ==
  ASSUME NEW b \in Nat, NEW K \in SUBSET (1 .. b)
  PROVE  IsFiniteSet(K) /\ Cardinality(K) \in Nat
<1>1. IsFiniteSet(1 .. b)
  BY FS_Interval
<1>2. IsFiniteSet(K)
  BY <1>1, FS_Subset, Zenon
<1> QED
  BY <1>2, FS_CardinalityType

\* A bounded set of naturals that is not empty has a greatest element: the least
\* of its bounds.
LEMMA GreatestElement ==
  ASSUME NEW b \in Nat, NEW K \in SUBSET (1 .. b), K # {}
  PROVE  \E x \in K : \A y \in K : y <= x
<1> DEFINE U == {n \in Nat : \A y \in K : y <= n}
<1>1. b \in U
  OBVIOUS
<1>2. PICK u \in U : \A m \in U : u <= m
  BY <1>1, LeastElement, Zenon
<1>3. u \in K
  <2> SUFFICES ASSUME u \notin K PROVE FALSE
    OBVIOUS
  <2>1. PICK y \in K : TRUE
    BY Zenon
  <2>2. \A z \in K : z < u
    BY <1>2
  <2>3. u - 1 \in U
    BY <2>1, <2>2, <1>2
  <2> QED
    BY <2>3, <1>2
<1> QED
  BY <1>2, <1>3

\* Every bounded set of naturals can be put in ascending order: the greatest element
\* goes behind the rest.
LEMMA AscendingExists ==
  ASSUME NEW b \in Nat, NEW K \in SUBSET (1 .. b)
  PROVE  \E s \in [1 .. Cardinality(K) -> K] : IsAscending(s)
<1> DEFINE Sorted(J) == \E s \in [1 .. Cardinality(J) -> J] : IsAscending(s)
           T == {n \in Nat : \E J \in SUBSET (1 .. b) : Cardinality(J) = n /\ ~Sorted(J)}
<1>0. \A J \in SUBSET (1 .. b) : IsFiniteSet(J) /\ Cardinality(J) \in Nat
  BY BoundedIsFinite
<1>1. SUFFICES ASSUME T # {} PROVE FALSE
  BY <1>0, Zenon
<1>2. PICK n \in T : \A m \in T : n <= m
  BY <1>1, LeastElement, Zenon
<1>3. PICK J \in SUBSET (1 .. b) : Cardinality(J) = n /\ ~Sorted(J)
  BY <1>2
<1>4. J # {}
  <2> SUFFICES ASSUME J = {} PROVE FALSE
    OBVIOUS
  <2>1. Cardinality(J) = 0
    BY FS_EmptySet
  <2>2. [i \in 1 .. 0 |-> i] \in [1 .. 0 -> J]
    OBVIOUS
  <2>3. IsAscending([i \in 1 .. 0 |-> i])
    BY DEF IsAscending
  <2> QED
    BY <2>1, <2>2, <2>3, <1>3, Zenon
<1>5. PICK x \in J : \A y \in J : y <= x
  BY <1>4, GreatestElement, Zenon
<1>6. Cardinality(J \ {x}) = n - 1 /\ n \in Nat /\ n - 1 \in Nat
  BY <1>0, <1>3, <1>4, FS_RemoveElement, FS_EmptySet, SMTT(30)
<1>7. Sorted(J \ {x})
  <2> SUFFICES ASSUME ~Sorted(J \ {x}) PROVE FALSE
    BY Zenon
  <2>1. J \ {x} \in SUBSET (1 .. b)
    OBVIOUS
  <2>2. n - 1 \in T
    BY <2>1, <1>6, Zenon
  <2> QED
    BY <2>2, <1>2, <1>6, SMTT(30)
<1>8. PICK s \in [1 .. n - 1 -> J \ {x}] : IsAscending(s)
  BY <1>6, <1>7, Zenon
<1> DEFINE t == [i \in 1 .. n |-> IF i = n THEN x ELSE s[i]]
<1>9. t \in [1 .. n -> J]
  BY <1>6, <1>8
<1>10. IsAscending(t)
  <2> SUFFICES ASSUME NEW i \in 1 .. n, NEW j \in 1 .. n, i < j PROVE t[i] < t[j]
    BY DEF IsAscending
  <2>1. i \in 1 .. n - 1 /\ t[i] = s[i]
    BY <1>6
  <2>2. s[i] \in J /\ s[i] # x
    BY <2>1, <1>8
  <2>3. CASE j = n
    <3>1. s[i] <= x
      BY <2>2, <1>5, Zenon
    <3>. s[i] \in 1 .. b /\ x \in 1 .. b
      BY <2>2, Zenon
    <3>2. t[j] = x
      BY <2>3
    <3> QED
      BY <2>1, <2>2, <3>1, <3>2, SMTT(30)
  <2>4. CASE j # n
    <3>1. j \in 1 .. n - 1 /\ t[j] = s[j]
      BY <2>4, <1>6, SMTT(30)
    <3> QED
      BY <2>1, <3>1, <1>8 DEF IsAscending
  <2> QED
    BY <2>3, <2>4
<1> HIDE DEF t
<1> QED
  BY <1>3, <1>9, <1>10

\* Ascending puts all of a bounded set in ascending order.
LEMMA AscendingFacts ==
  ASSUME NEW b \in Nat, NEW K \in SUBSET (1 .. b)
  PROVE  /\ Cardinality(K) \in Nat
         /\ Ascending(K) \in [1 .. Cardinality(K) -> K]
         /\ IsAscending(Ascending(K))
         /\ \A x \in K : \E i \in 1 .. Cardinality(K) : Ascending(K)[i] = x
<1> DEFINE s == Ascending(K)
           n == Cardinality(K)
<1>1. IsFiniteSet(K) /\ n \in Nat
  BY BoundedIsFinite, Zenon
<1>2. \E t \in [1 .. n -> K] : IsAscending(t)
  BY AscendingExists, Zenon
<1>3. s \in [1 .. n -> K] /\ IsAscending(s)
  BY <1>2, Zenon DEF Ascending
<1> HIDE DEF s
<1>4. s \in Injection(1 .. n, K)
  <2>1. \A i, j \in 1 .. n : s[i] = s[j] => i = j
    <3>1. \A i \in 1 .. n : s[i] \in 1 .. b
      BY <1>3, Zenon
    <3>2. \A i, j \in 1 .. n : i < j => s[i] < s[j]
      BY <1>3 DEF IsAscending
    <3> QED
      BY <1>1, <3>1, <3>2
  <2> QED
    BY <1>3, <2>1 DEF Injection, IsInjective
<1>5. Cardinality(1 .. n) = n
  BY <1>1, FS_Interval
<1>6. s \in Surjection(1 .. n, K)
  BY <1>1, <1>4, <1>5, FS_Injection
<1> QED
  BY <1>1, <1>3, <1>6 DEF Surjection, s

\* The surviving packets of a batch: all of them, in input order.
LEMMA PacketsFacts ==
  ASSUME NEW n \in DOMAIN Content
  PROVE  /\ Packets(n) \in Seq(Nat \X Nat)
         /\ \A m \in 1 .. Len(Packets(n)) :
              /\ Packets(n)[m][1] = n
              /\ Packets(n)[m][2] \in Survivors(n)
         /\ \A l, m \in 1 .. Len(Packets(n)) : l < m => Packets(n)[l][2] < Packets(n)[m][2]
         /\ \A i \in Survivors(n) : \E m \in 1 .. Len(Packets(n)) : Packets(n)[m] = <<n, i>>
<1> DEFINE K == Survivors(n)
           c == Cardinality(K)
           a == Ascending(K)
<1>1. n \in Nat /\ Content[n] \in Seq(Kind) /\ Len(Content[n]) \in Nat
  BY RelayerAssumption
<1>2. K \in SUBSET (1 .. Len(Content[n]))
  BY <1>1 DEF Survivors
<1>3. /\ c \in Nat
      /\ a \in [1 .. c -> K]
      /\ IsAscending(a)
      /\ \A x \in K : \E i \in 1 .. c : a[i] = x
  BY <1>1, <1>2, AscendingFacts, Zenon
<1>4. Packets(n) = [i \in 1 .. c |-> <<n, a[i]>>]
  BY <1>3 DEF Packets
<1> HIDE DEF K, c, a
<1>5. Packets(n) \in [1 .. c -> Nat \X Nat]
  <2>0. \A x \in K : x \in Nat
    BY <1>1, <1>2
  <2>1. \A i \in 1 .. c : a[i] \in Nat
    BY <2>0, <1>3
  <2> QED
    BY <1>1, <1>4, <2>1
<1>6. Packets(n) \in Seq(Nat \X Nat) /\ Len(Packets(n)) = c
  BY <1>3, <1>5, IsASeq
<1>7. \A l, m \in 1 .. c : l < m => a[l] < a[m]
  BY <1>3 DEF IsAscending
<1> QED
  BY <1>3, <1>4, <1>6, <1>7, SMTT(30) DEF K

\* What forward_packets makes of input batch n: message batches that are full but for
\* the last, in input order, with all the packets that pass the filters and no other.
THEOREM BatchesOfInput ==
  ASSUME NEW n \in DOMAIN Content
  PROVE  BatchesFit(ProtoPacketBatches(n), n)
  BY PacketsFacts, BatchesOfPackets, Zenon DEF ProtoPacketBatches

\* Every step keeps the streams in order.
LEMMA NextStreams ==
  ASSUME TypeOK, StreamsInOrder, [Next]_vars
  PROVE  StreamsInOrder'
<1>1. ForwardPackets => handled + 1 \in DOMAIN Content
  BY RelayerAssumption, SMTT(30) DEF ForwardPackets, TypeOK
<1> QED
  BY <1>1, BatchesOfInput, OtherStreams, Zenon

-----------------------------------------------------------------------------
(* The theorems.                                                           *)

\* The inductive invariant holds.
THEOREM LoopHolds == Spec => []IInv
<1>1. IInv /\ [Next]_vars => IInv'
  BY NextTypes, NextOrder, NextClosed, NextLeaders, NextStreams DEF IInv
<1> QED
  BY InitHolds, <1>1, PTL DEF Spec

\* TypeOK: every variable keeps its type, and the subscription channel and the streams
\* their bounds.
THEOREM TypeCorrect == Spec => []TypeOK
<1>1. IInv => TypeOK
  BY DEF IInv
<1> QED
  BY <1>1, LoopHolds, PTL

\* LatestStreamServed: the stream in the map is its validator's own and the latest the
\* loop has taken from the subscription channel.
THEOREM LatestIsServed == Spec => []LatestStreamServed
<1>1. IInv => LatestStreamServed
  BY ServesLatest
<1> QED
  BY <1>1, LoopHolds, PTL

\* LiveStreamKept: drop_connections takes away only streams that are closed, while the
\* relayer is healthy.
THEOREM LiveStreamsAreKept == Spec => LiveStreamKept
<1> DEFINE A == \A v \in Mapped :
       packet_subscriptions[v] \in listening /\ packet_subscriptions'[v] # packet_subscriptions[v]
         => packet_subscriptions'[v] # 0 \/ health = "Unhealthy"
<1>1. IInv /\ [Next]_vars => [A]_vars
  BY KeepsLive
<1> QED
  BY <1>1, LoopHolds, PTL DEF Spec, LiveStreamKept

\* LeadersOnly: forward_packets sends only to the streams of validators that lead around the
\* last slot in the schedule update_highest_slot found then, unless --forward-all; for any
\* contents of the schedule cache, replaced at any time.
THEOREM OnlyLeadersGetPackets == Spec => LeadersOnly
<1> DEFINE A == \A c \in Connection : delivered'[c] # delivered[c] =>
       \/ ForwardAll
       \/ \E s \in DOMAIN looked_up :
            looked_up[s] = owner[c] /\ highest_slot <= s /\ s < highest_slot + SlotLookahead
<1>1. IInv /\ [Next]_vars => [A]_vars
  BY SendsToLeaders
<1> QED
  BY <1>1, LoopHolds, PTL DEF Spec, LeadersOnly

\* InOrderOnce: what forward_packets puts on a stream is in input order and without
\* repetition, for any batches, any batch size and any order of full and closed streams.
THEOREM StreamsAreInOrder == Spec => []InOrderOnce
<1>1. IInv => InOrderOnce
  BY DEF IInv, StreamsInOrder, InOrderOnce
<1> QED
  BY <1>1, LoopHolds, PTL

\* WellFormedBatches: the streams are in order, and no message batch is empty or longer than
\* validator_packet_batch_size, and none holds a packet the filters remove.
THEOREM BatchesAreWellFormed == Spec => []WellFormedBatches
<1>1. IInv => WellFormedBatches
  BY DEF IInv, StreamsInOrder, InOrderOnce, WellFormedBatches
<1> QED
  BY <1>1, LoopHolds, PTL

\* ImplementsStreams: subscribe_packets and the event loop show validators the streams they
\* are promised, for any number of connections, any input and any size of the queues.
THEOREM LoopImplementsStreams == Spec => ImplementsStreams
<1>1. IInv /\ FromInput /\ [Next]_vars => FromInput'
  BY NextFromInput
<1>2. IInv => StreamsInOrder
  BY DEF IInv
<1>3. IInv /\ StreamsInOrder' /\ FromInput /\ [Next]_vars
        => [Streams!StreamNext]_(Streams!streamVars)
  BY NextStream
<1> QED
  BY InitStreams, <1>1, <1>2, <1>3, LoopHolds, PTL
     DEF Spec, ImplementsStreams, Streams!StreamSpec
=============================================================================
