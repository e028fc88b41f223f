---------------------------- MODULE RelayerLoop ----------------------------
(***************************************************************************)
(* relayer/src/relayer.rs: the event loop thread of RelayerImpl, the gRPC  *)
(* handler subscribe_packets that feeds it, and the streams it serves.     *)
(*                                                                         *)
(* A connection is one call of subscribe_packets, numbered in the order    *)
(* the calls start.  Its sender lives in the subscription channel and then *)
(* in packet_subscriptions; its receiver belongs to the validator.  Of a   *)
(* stream's queue only the length is kept, and what was put on it.  Input  *)
(* batch n is Content[n], a sequence of packet kinds; its i-th packet is   *)
(* <<n, i>>.  The leader schedule cache is replaced as a whole by another  *)
(* thread at any time (ScheduleCache.tla): a look-up finds any one of its  *)
(* contents, empty, of the last epoch or wrong ones included.  Metrics,    *)
(* and the heartbeat count taken from them, are left out.                  *)
(***************************************************************************)
EXTENDS Naturals, Sequences, FiniteSets

CONSTANTS
  Validator,             \* validator identities
  Slot,                  \* the slots the health manager passes on
  Schedules,             \* the contents of the leader schedule cache: leader by slot
  Owners,                \* whose the connections may be
  Content,               \* the packet kinds of each input batch
  OfacConfigured,        \* --ofac-addresses is not empty
  ForwardAll,            \* --forward-all
  SlotLookahead,         \* --slot-lookahead
  BatchSize,             \* --validator-packet-batch-size
  StreamCapacity,        \* SUBSCRIBER_QUEUE_CAPACITY
  SubscriptionCapacity,  \* of the subscription channel
  MaxConnections         \* bound on the calls of subscribe_packets

Connection == 1 .. MaxConnections
Kind == {"plain", "discard", "ofac", "garbled"}

ASSUME RelayerAssumption ==
  /\ Slot \subseteq Nat
  /\ \A m \in Schedules : m \in [DOMAIN m -> Validator] /\ DOMAIN m \subseteq Nat
  /\ Owners \subseteq [Connection -> Validator]
  /\ Content \in Seq(Seq(Kind))
  /\ OfacConfigured \in BOOLEAN /\ ForwardAll \in BOOLEAN
  /\ SlotLookahead \in Nat
  /\ BatchSize \in Nat \ {0}
  /\ StreamCapacity \in Nat \ {0} /\ SubscriptionCapacity \in Nat \ {0}
  /\ MaxConnections \in Nat

VARIABLES
  running,               \* the event loop thread has not returned
  health,                \* health_state
  looked_up,             \* history: the schedule cache when highest_slot was set
  highest_slot,
  slot_leaders,
  subscription,          \* the subscription channel
  packet_subscriptions,  \* validator -> connection, 0 for none
  call,                  \* where each subscribe_packets call is
  owner,                 \* whose call it is, from the token
  listening,             \* connections whose stream the validator still reads
  backlog,               \* messages waiting in each stream
  fed,                   \* input batches sent on delay_packet so far
  handled,               \* input batches the loop has taken
  forwarding,            \* message batches of the current one still to send
  failed_forwards,       \* validators whose stream was found closed
  delivered,             \* history: packet batches put on each stream
  accepted               \* history: connections in the order they were queued

clientVars == <<call, owner, listening>>
packetVars == <<fed, handled, forwarding, failed_forwards>>
slotVars == <<looked_up, highest_slot, slot_leaders>>
vars == <<running, health, slotVars, subscription, packet_subscriptions,
          clientVars, backlog, packetVars, delivered, accepted>>

Init ==
  /\ running = TRUE
  /\ health = "Unhealthy"
  /\ looked_up = <<>>
  /\ highest_slot = 0
  /\ slot_leaders = {}
  /\ subscription = <<>>
  /\ packet_subscriptions = [v \in Validator |-> 0]
  /\ call = [c \in Connection |-> "idle"]
  /\ owner \in Owners
  /\ listening = {}
  /\ backlog = [c \in Connection |-> 0]
  /\ fed = 0 /\ handled = 0
  /\ forwarding = <<>>
  /\ failed_forwards = {}
  /\ delivered = [c \in Connection |-> <<>>]
  /\ accepted = <<>>

-----------------------------------------------------------------------------
(* subscribe_packets.                                                      *)

\* check_health reads the health state; the call goes on after it.
CheckHealth(c) ==
  /\ call[c] = "idle"
  /\ \A d \in 1 .. c - 1 : call[d] # "idle"
  /\ call' = [call EXCEPT ![c] = IF health = "Healthy" THEN "checked" ELSE "refused"]
  /\ UNCHANGED <<running, health, slotVars, subscription, packet_subscriptions, owner,
                 listening, backlog, packetVars, delivered, accepted>>

\* The blocking send of the new sender to the event loop.
SendSubscription(c) ==
  /\ call[c] = "checked"
  /\ running
  /\ Len(subscription) < SubscriptionCapacity
  /\ subscription' = Append(subscription, c)
  /\ accepted' = Append(accepted, c)
  /\ call' = [call EXCEPT ![c] = "returned"]
  /\ listening' = listening \cup {c}
  /\ UNCHANGED <<running, health, slotVars, packet_subscriptions, owner, backlog,
                 packetVars, delivered>>

\* The event loop is gone: Status::internal.
SendFails(c) ==
  /\ call[c] = "checked"
  /\ ~running
  /\ call' = [call EXCEPT ![c] = "refused"]
  /\ UNCHANGED <<running, health, slotVars, subscription, packet_subscriptions, owner,
                 listening, backlog, packetVars, delivered, accepted>>

-----------------------------------------------------------------------------
(* The arms of run_event_loop.  The loop is between two arms iff Idle.     *)

Idle == running /\ forwarding = <<>> /\ failed_forwards = {}

\* leaders_for_slots of the schedule cache, for slot_lookahead slots from s on.
MutLeadersFrom(cached, s) ==
  {cached[x] : x \in {y \in DOMAIN cached : s <= y /\ y <= s + SlotLookahead}}
LeadersFrom(cached, s) ==
  {cached[x] : x \in {y \in DOMAIN cached : s <= y /\ y < s + SlotLookahead}}

\* update_highest_slot takes the slot as it comes, also when it is lower.
UpdateHighestSlot(s) ==
  /\ Idle
  /\ highest_slot' = s
  /\ looked_up' \in Schedules
  /\ slot_leaders' = LeadersFrom(looked_up', s)
  /\ UNCHANGED <<running, health, subscription, packet_subscriptions, clientVars, backlog,
                 packetVars, delivered, accepted>>

MutReplace(c) == IF packet_subscriptions[owner[c]] # 0 THEN packet_subscriptions
                 ELSE [packet_subscriptions EXCEPT ![owner[c]] = c]

\* A newer subscription of a connected validator replaces the older one.
Replace(c) == [packet_subscriptions EXCEPT ![owner[c]] = c]

HandleSubscription ==
  /\ Idle
  /\ subscription # <<>>
  /\ packet_subscriptions' = Replace(Head(subscription))
  /\ subscription' = Tail(subscription)
  /\ UNCHANGED <<running, health, slotVars, clientVars, backlog, packetVars, delivered,
                 accepted>>

Mapped == {v \in Validator : packet_subscriptions[v] # 0}
MutClosed(v) == \/ packet_subscriptions[v] \notin listening
                \/ backlog[packet_subscriptions[v]] >= StreamCapacity
Closed(v) == packet_subscriptions[v] \notin listening
Full(v) == backlog[packet_subscriptions[v]] >= StreamCapacity

DropConnections(gone) ==
  packet_subscriptions' = [v \in Validator |-> IF v \in gone THEN 0 ELSE packet_subscriptions[v]]

\* The connections a try_send to each validator of V succeeds for.
Accepting(V) == {packet_subscriptions[v] : v \in {w \in V : ~Closed(w) /\ ~Full(w)}}

Enqueue(C) ==
  backlog' = [c \in Connection |-> IF c \in C THEN backlog[c] + 1 ELSE backlog[c]]

\* Healthy: handle_heartbeat; a full stream keeps its connection.  Unhealthy:
\* every connection is dropped.
MutClosedOnly == {v \in Mapped : Closed(v)}
MutNoneClosed == IF health = "Healthy" THEN {} ELSE Mapped
HeartbeatDrops == IF health = "Healthy" THEN {v \in Mapped : Closed(v)} ELSE Mapped

HeartbeatTick ==
  /\ Idle
  /\ Enqueue(IF health = "Healthy" THEN Accepting(Mapped) ELSE {})
  /\ DropConnections(HeartbeatDrops)
  /\ UNCHANGED <<running, health, slotVars, subscription, clientVars, packetVars,
                 delivered, accepted>>

\* The filters of forward_packets: not discarded and, with OFAC addresses
\* configured, parsed and unrelated to them.
MutForwarded(kind) == kind # "discard" /\ (OfacConfigured => kind # "ofac")
Forwarded(kind) == kind # "discard" /\ (OfacConfigured => kind = "plain")

MutChunks(s) ==
  [k \in 1 .. (Len(s) + BatchSize - 1) \div BatchSize |->
     SubSeq(s, (k - 1) * BatchSize + 1, IF k * BatchSize < Len(s) THEN k * BatchSize + 1 ELSE Len(s))]

\* packets.chunks(validator_packet_batch_size)
Chunks(s) ==
  [k \in 1 .. (Len(s) + BatchSize - 1) \div BatchSize |->
     SubSeq(s, (k - 1) * BatchSize + 1, IF k * BatchSize < Len(s) THEN k * BatchSize ELSE Len(s))]

\* The packets of input batch n that pass the filters, in the order they came in.
Survivors(n) == {i \in DOMAIN Content[n] : Forwarded(Content[n][i])}
IsAscending(s) == \A i, j \in DOMAIN s : i < j => s[i] < s[j]
Ascending(K) == CHOOSE s \in [1 .. Cardinality(K) -> K] : IsAscending(s)
Packets(n) == LET kept == Ascending(Survivors(n)) IN [i \in DOMAIN kept |-> <<n, kept[i]>>]

ProtoPacketBatches(n) == Chunks(Packets(n))

\* forward_packets takes a batch, then sends one message batch after another.
ForwardPackets ==
  /\ Idle
  /\ handled < fed
  /\ handled' = handled + 1
  /\ forwarding' = ProtoPacketBatches(handled + 1)
  /\ UNCHANGED <<running, health, slotVars, subscription, packet_subscriptions, clientVars,
                 backlog, fed, failed_forwards, delivered, accepted>>

Senders == IF ForwardAll THEN Mapped ELSE slot_leaders \cap Mapped

\* try_send does not wait for a slow validator.
MutReady == running /\ forwarding # <<>> /\ ~\E v \in Senders : Full(v)
Ready == running /\ forwarding # <<>>

\* One message batch is tried on every sender; after the last one the
\* validators with a closed stream are dropped.
ForwardBatch ==
  /\ Ready
  /\ LET ok == Accepting(Senders)
         failed == failed_forwards \cup {v \in Senders : Closed(v)}
     IN  /\ Enqueue(ok)
         /\ delivered' = [c \in Connection |->
              IF c \in ok THEN Append(delivered[c], Head(forwarding)) ELSE delivered[c]]
         /\ \/ /\ Len(forwarding) > 1
               /\ failed_forwards' = failed
               /\ UNCHANGED packet_subscriptions
            \/ /\ Len(forwarding) = 1
               /\ DropConnections(failed)
               /\ failed_forwards' = {}
  /\ forwarding' = Tail(forwarding)
  /\ UNCHANGED <<running, health, slotVars, subscription, clientVars, fed, handled,
                 accepted>>

\* exit, or one of the input channels disconnected: the receivers are dropped,
\* packet_subscriptions lives on in RelayerImpl.
LoopReturns ==
  /\ Idle
  /\ running' = FALSE
  /\ subscription' = <<>>
  /\ UNCHANGED <<health, slotVars, packet_subscriptions, clientVars, backlog, packetVars,
                 delivered, accepted>>

-----------------------------------------------------------------------------
(* The rest of the process, and the validators.                            *)

\* The health manager writes a new state.
HealthChange ==
  /\ health' \in {"Healthy", "Unhealthy"} \ {health}
  /\ UNCHANGED <<running, slotVars, subscription, packet_subscriptions, clientVars, backlog,
                 packetVars, delivered, accepted>>

\* The forwarder sends the next batch.
Feed ==
  /\ fed < Len(Content)
  /\ fed' = fed + 1
  /\ UNCHANGED <<running, health, slotVars, subscription, packet_subscriptions, clientVars,
                 backlog, handled, forwarding, failed_forwards, delivered, accepted>>

ValidatorReads(c) ==
  /\ c \in listening
  /\ backlog[c] > 0
  /\ backlog' = [backlog EXCEPT ![c] = @ - 1]
  /\ UNCHANGED <<running, health, slotVars, subscription, packet_subscriptions, clientVars,
                 packetVars, delivered, accepted>>

ValidatorHangsUp(c) ==
  /\ c \in listening
  /\ listening' = listening \ {c}
  /\ UNCHANGED <<running, health, slotVars, subscription, packet_subscriptions, call, owner,
                 backlog, packetVars, delivered, accepted>>

Next ==
  \/ \E c \in Connection : \/ CheckHealth(c) \/ SendSubscription(c) \/ SendFails(c)
                           \/ ValidatorReads(c) \/ ValidatorHangsUp(c)
  \/ \E s \in Slot : UpdateHighestSlot(s)
  \/ HandleSubscription \/ HeartbeatTick
  \/ ForwardPackets \/ ForwardBatch \/ LoopReturns
  \/ HealthChange \/ Feed

Spec == Init /\ [][Next]_vars

\* select! picks among the ready arms at random, so none waits for ever.  Nothing
\* is assumed of the validators.
Fairness ==
  /\ WF_vars(HandleSubscription)
  /\ WF_vars(HeartbeatTick)
  /\ WF_vars(ForwardPackets \/ ForwardBatch)

FairSpec == Spec /\ Fairness

-----------------------------------------------------------------------------
(* Properties.                                                             *)

\* Every variable keeps its type; both bounded queues keep their bound.  What is
\* in the message batches is the subject of InOrderOnce and WellFormedBatches.
TypeOK ==
  /\ running \in BOOLEAN
  /\ health \in {"Healthy", "Unhealthy"}
  /\ looked_up \in Schedules \cup {<<>>}
  /\ highest_slot \in Nat
  /\ slot_leaders \in SUBSET Validator
  /\ subscription \in Seq(Connection) /\ Len(subscription) <= SubscriptionCapacity
  /\ packet_subscriptions \in [Validator -> Connection \cup {0}]
  /\ call \in [Connection -> {"idle", "checked", "refused", "returned"}]
  /\ owner \in [Connection -> Validator]
  /\ listening \in SUBSET Connection
  /\ backlog \in [Connection -> 0 .. StreamCapacity]
  /\ fed \in 0 .. Len(Content)
  /\ handled \in 0 .. fed
  /\ failed_forwards \in SUBSET Validator
  /\ accepted \in Seq(Connection)

\* Where connection c stands in the order in which the loop takes subscriptions.
Before(c, d) == \E i, j \in DOMAIN accepted : i < j /\ accepted[i] = c /\ accepted[j] = d
Queued(c) == \E i \in DOMAIN subscription : subscription[i] = c

\* handle_subscription replaces: the stream a validator is served on is its own
\* and the latest the loop has taken; a later one can only be still queued.
LatestStreamServed ==
  running => \A v \in Mapped :
    LET c == packet_subscriptions[v]
    IN  /\ owner[c] = v
        /\ ~Queued(c)
        /\ \A d \in Connection : owner[d] = v /\ Before(c, d) => Queued(d)

\* drop_connections: a stream that its validator still reads loses its place only
\* to a newer subscription of the same validator or to an unhealthy relayer;
\* never because it is slow, nor because an earlier stream was found closed.
LiveStreamKept ==
  [][\A v \in Mapped :
       packet_subscriptions[v] \in listening /\ packet_subscriptions'[v] # packet_subscriptions[v]
         => packet_subscriptions'[v] # 0 \/ health = "Unhealthy"]_vars

Earlier(p, q) == p[1] < q[1] \/ (p[1] = q[1] /\ p[2] < q[2])

\* The packets of a sequence of message batches are in input order, none twice.
InOrder(s) ==
  \A k, l \in DOMAIN s : \A i \in DOMAIN s[k], j \in DOMAIN s[l] :
    k < l \/ (k = l /\ i < j) => Earlier(s[k][i], s[l][j])

\* What forward_packets puts on a stream is in input order and without
\* repetition, across batches, drops for a full stream and reconnections.
InOrderOnce == \A c \in Connection : InOrder(delivered[c])

\* The stages of a stream, and the message batches of the whole input.
Serves(c) == \E v \in Validator : packet_subscriptions[v] = c
Joined(c) == \E i \in DOMAIN accepted : accepted[i] = c
Life == [c \in Connection |-> CASE Serves(c) -> "served"
                                [] ~Serves(c) /\ Queued(c) -> "waiting"
                                [] ~Serves(c) /\ ~Queued(c) /\ Joined(c) -> "over"
                                [] OTHER -> "new"]
Message == UNION {{ProtoPacketBatches(n)[k] : k \in DOMAIN ProtoPacketBatches(n)} : n \in DOMAIN Content}

Streams == INSTANCE StreamService WITH life <- Life, got <- delivered

\* The calls, the channel, the map and the loop implement the streams that validators
\* are promised: one that was replaced or dropped is over for good and gets nothing
\* more, and each gets message batches of the input in order, none twice.
ImplementsStreams == Streams!StreamSpec

WellFormed(batch) ==
  /\ Len(batch) \in 1 .. BatchSize
  /\ \A i \in DOMAIN batch : Content[batch[i][1]][batch[i][2]] \in
       {"plain"} \cup IF OfacConfigured THEN {} ELSE {"ofac", "garbled"}

\* What is on a stream is in order, and a message batch is never empty (a validator
\* would divide by zero), never larger than validator_packet_batch_size, and holds
\* no packet that was discarded or that the OFAC filter removes.
WellFormedBatches ==
  InOrderOnce /\ \A c \in Connection : \A k \in DOMAIN delivered[c] : WellFormed(delivered[c][k])

\* update_highest_slot keeps the leaders for every later batch while the cache they
\* came from is replaced.  Packets go only to a validator that leads one of the
\* slot_lookahead slots from the slot the loop saw last, in the schedule as it was then;
\* never to one that led around an earlier slot or in another schedule, nor to a stream
\* of somebody else; under --forward-all to any.
LeadersOnly ==
  [][\A c \in Connection : delivered'[c] # delivered[c] =>
       \/ ForwardAll
       \/ \E s \in DOMAIN looked_up :
            looked_up[s] = owner[c] /\ highest_slot <= s /\ s < highest_slot + SlotLookahead]_vars

\* While the relayer stays unhealthy every connection is dropped and none comes
\* back, although a call that passed check_health earlier may still add one.
UnhealthyDropsAll ==
  <>[](health = "Unhealthy") => <>[](Mapped = {} \/ ~running)

\* A stream its validator has closed is found and removed, by a heartbeat or by
\* an unhealthy tick, also if no packet is ever forwarded to it.
ClosedStreamRemoved ==
  \A c \in Connection : (Serves(c) /\ c \notin listening) ~> (~Serves(c) \/ ~running)

\* forward_packets takes every batch of the forwarder and gets to its end, even if
\* no validator reads its stream: a full stream costs its own validator packets
\* and delays nobody.
PacketsTaken ==
  \A n \in DOMAIN Content :
    (fed >= n) ~> (handled > n \/ (handled = n /\ forwarding = <<>>) \/ ~running)
=============================================================================
