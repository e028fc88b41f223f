# The transaction relayer in TLA+

TLA+ specifications of the relayer in `src/`, the TLC configurations that
check them on small instances, and proofs about them that TLAPS checks.  Every
action is a translation of the Rust code; `PROJECT.json` maps each definition
to the lines it stands for.

## The system

The relayer sits between the network and the validators.  Transactions come in
over QUIC, are verified, and then

    sigverify --verified--> forwarder --delay_packet--> relayer event loop --> validators
                               |
                               +--block_engine (copy)--> block engine handler --> block engine

    RPC servers --> load balancer --slot--> health manager --slot--> relayer event loop
                                                 |
                                                 +-- health_state --> event loop, subscribe_packets, /health

    QUIC servers --forwards--> fetch stage --tpu--> sigverify
    RPC servers --> leader schedule cache --> event loop
    RPC servers --> lookup table refresher --> OFAC and interest filters
    validators <--challenge, tokens--> auth service;  token --> interceptor --> subscribe_packets

Each box is one or more threads or tasks; each named arrow is a bounded channel
(`verified` alone is unbounded).  One `exit` flag stops them all.  A panic
anywhere runs the hook of `core/src/lib.rs`, which raises `exit` as well.

| Part | Code | State it owns | Operations |
|---|---|---|---|
| Forwarder | `transaction-relayer/src/forwarder.rs` | a buffer of stamped batches per thread | receive and stamp, `try_send` a copy to the engine, `push_back`, release what is due with a blocking send |
| Relayer event loop | `relayer/src/relayer.rs` | `packet_subscriptions`, `highest_slot`, the leaders of the next slots | slot, packet batch, subscription, heartbeat; `subscribe_packets` on the gRPC side |
| Load balancer | `rpc/src/load_balancer.rs` | `highest_slot` (atomic), `server_to_slot` | subscribe, receive a slot, `fetch_max`, report, disconnect a silent server |
| Health manager | `relayer/src/health_manager.rs` | `last_update`, `health_state` | pass slots on, judge the health at ticks |
| Block engine handler | `block_engine/src/block_engine.rs` | tokens, interest caches, stream, `is_connected_to_block_engine` | authenticate, connect, drain, the seven arms of `handle_packet_stream`, retry |
| Packet filters | `core/src/ofac.rs`, `block_engine.rs` | none | OFAC check, interest checks |
| Leader schedule cache | `relayer/src/schedule_cache.rs` | the leaders of the current epoch | refresh by two RPC calls, `leaders_for_slots` |
| Auth service and interceptor | `relayer/src/auth_*.rs` | challenges, one per address | challenge, tokens, refresh, the expiration task; the key of a token |
| Lookup table refresher | `transaction-relayer/src/main.rs` | the map of lookup tables | seed, periodic refresh: insert what is readable, retain what was seen |
| Start-up, shutdown | `transaction-relayer/src/main.rs`, `core/src/lib.rs` | `exit` | wiring, signal, joins, panic hook |
| TPU, fetch stage | `core/src/tpu.rs`, `core/src/fetch_stage.rs` | batches read in one round | mark forwarded batches, pass them to the verifier |
| Staked nodes | `core/src/staked_nodes_updater_service.rs` | staked-node map | periodic refresh |
| Web server | `web/src/lib.rs` | none | read two flags and the subscriptions |

What is hard in it: several threads take from one channel while each keeps an
order and a delay of its own; a slow or absent consumer on one channel must not
disturb another; `check_health` is read before a subscription is queued and
acted upon after; `fetch_max` and the send that follows it are two steps; a
stream found closed is dropped by its validator's identity, which may have
reconnected; the session with the block engine can fail at any `await`, and
the packets, interest and status of one session must not leak into the next;
watchdog, send timeout, token expiry and interval ticks race with one another;
an auth call takes the lock of the challenges once per method and other calls
run in between; a schedule update asks two questions while the chain goes on;
readers look into the table map in the middle of a refresh; and every thread
must stop when the others stop in any order.  `PROJECT.json`
lists these hazards with their lines and the properties that cover them.

## The modules

| Module | Models | Extends |
|---|---|---|
| `DelayLine` | abstract: what the forwarder promises the validators, without threads, channels or polling | |
| `Forwarder` | `start_forward_and_delay_thread`, for any set of threads | instance of `DelayLine` |
| `StreamService` | abstract: what a validator is promised of its streams, without queues, health, schedules or heartbeats | |
| `RelayerLoop`, `MCRelayerLoop` | the event loop and `subscribe_packets` | instance of `StreamService` |
| `SlotBoard` | abstract: what the load balancer promises the health manager, without threads or connections | |
| `LoadBalancer` | the subscription threads | instance of `SlotBoard` |
| `HealthManager` | the health manager thread | |
| `PacketFilter` | the filters on transactions, as operators on sets of keys | |
| `EngineSession` | abstract: what a session with the engine starts from and may send, without queues, timers or tokens | |
| `BlockEngine`, `MCBlockEngine` | the block engine handler | `PacketFilter`, instance of `EngineSession` |
| `KeyDesk` | abstract: who gets a session and under which key, without strings, locks, a capacity or times | |
| `AuthService`, `MCAuthService` | the three auth calls, the expiration task, the interceptor's key | instance of `KeyDesk` |
| `RpcServers` | the servers the refreshers ask, `rpc_client`, `get_highest_slot` | |
| `ScheduleCache` | the thread that refreshes the leader schedule | `RpcServers` |
| `LookupTables` | the thread that refreshes the lookup tables | `RpcServers` |
| `Caches`, `MCCaches` | both refreshers side by side, over the same servers | `ScheduleCache`, `LookupTables` |
| `FetchStage` | the thread of the fetch stage, and the channels around it | |
| `Shutdown`, `MCShutdown` | `main`, the signal, the joins and the panic hook, with the health manager and the fetch stage | `HealthManager`, `FetchStage` |

`Forwarder_proofs`, `RelayerLoop_proofs`, `LoadBalancer_proofs`,
`BlockEngine_proofs`, `BlockEngineTime_proofs`, `AuthService_proofs`,
`Caches_proofs` and `Shutdown_proofs` hold the theorems about the module in
their name; `BlockEngineTime_proofs` those about `BlockEngine` that depend on
periods and timeouts, `Shutdown_proofs` also those about `HealthManager` and
`FetchStage`.  The MC modules only define constants.

Variables have the names of the code's variables.  Variables marked "history"
are not in the code: they record what was sent, offered or asked for, so that
a property can speak of it.  A channel is a sequence, and the code's three ways
of sending are three sets of guards: a blocking `send` is disabled while the
channel is full, `try_send` has an outcome for Ok, Full and Closed, and
`send_timeout` waits until it succeeds or its time is up.  A mutation of the
code that a property has to notice (a name starting with `Mut`) stands before
the definition it would replace; no specification uses it.

**Forwarder.**  `pc` is where a thread is in its loop: `top` (the test of
`exit`), `recv`, `offer` (between receiving and `push_back`, so that another
thread or shutdown may act there), `drain`.  `DrainSend` is one iteration of
the inner `while let`; a thread at `drain` whose front is due and whose channel
is full is blocked in `send`.  The code pops the batch before that send; what a
thread holds when it panics or exits, the popped batch and the rest of its
buffer, is lost with it.  A batch is its arrival number.  The stamp is the
`Instant` that the delay is counted from; the `SystemTime` and the
expiry of the engine's copy only go into the header of the message to the
engine (`block_engine.rs` 743-750), decide nothing in the relayer, and are left
out.  `Hangup` lets the far end of a channel go away after `exit` and,
for the engine's channel, at any time when no `BlockEngineConfig` exists
(`main.rs` 506-517, `block_engine.rs` 121).

**RelayerLoop.**  A connection is one call of `subscribe_packets`:
`CheckHealth` and `SendSubscription` are separate because other tasks run
between them.  An arm of `select!` is one action, except that `forward_packets`
is `ForwardPackets` followed by one `ForwardBatch` per message batch, since a
validator can hang up or read between two of them.  The validators
that were found closed are dropped after the last one, as in the code.
`packet_subscriptions` is a function with 0 for "absent".  Of a stream's queue
only the length matters, so that is kept.  Packets are one of four kinds: what
`forward_packets` does with each depends on nothing else.  The schedule cache is
replaced by another thread every 10 s, may be empty, of another epoch or wrong:
`UpdateHighestSlot` finds any of the contents `Schedules`, and `looked_up`
(history) is what it found.  A panic or a
disconnected input ends the loop (`LoopReturns`); it may happen between any two
arms.

**LoadBalancer.**  `RecvSlot` is the insertion into `server_to_slot` and the
atomic `fetch_max`; `SendSlot` is the send, a step of its own.  Servers
announce any slot in any order, repeat themselves and may fall silent on an
open connection.  `slot_subscribe` is a step of its own, at whose place
(`connecting`) the thread may stay for ever; it ends in `Connected` or
`SubscribeFails`.

**HealthManager.**  The two channels are counters, for the thread never looks
at which slot it passes on.  `last_update` is kept as elapsed time and the tick
as time to go.

**BlockEngine.**  `pc` is the await at which the task is.  `select` is the
`select!` of `handle_packet_stream`; `send`, `reauth` and `refresh` are awaits
inside an arm, during which no other arm runs.  That is the point of most of
the properties here.  All instants are times to go or times elapsed.  `Return`
is any of the `?` and `return Err` of a session, `SessionOver` what the outer
loop does with the result.  Intervals burst, as tokio's do by default: a late
tick does not move the next.  `EngineReads` and `EngineStalls` are the engine.

**AuthService.**  `client` is how far each validator has come with its call.
Every method of `AuthChallenges` locks on its own, so a call is one action per
lock: `CheckLen`, `ReuseChallenge` or `CheckRequest`, `PushChallenge` for
`generate_auth_challenge`; `GenerateAuthTokens`, `RemoveChallenge` for
`generate_auth_tokens`.  A challenge belongs to an address, and addresses may be
shared.  Ages stand for expiry times; random strings come from a set
one larger than can be known at once, so that a new one is always new.  The
priority queue pops its oldest entry as long as that has expired, which is
`Popped`.  A validator signs with its own key: that a signature or a token
verifies only as it was signed is the library's part.  The interceptor looks at
neither the expiry nor the `client_ip` of a token's claims
(`auth_interceptor.rs` 125-131), so neither is part of `SubscribedAs`.

**ScheduleCache, LookupTables, Caches.**  A server has a slot it has reached and
a slot its websocket announced last, which may be any: `server_to_slot` stores
what comes.  `rpc_client` is any server that is behind
no other by announcement; it is picked once per refresh.  A schedule
update is `GetEpochInfo` and then `GetLeaderSchedule`, answered as of the slot
the server has reached by then, which may be in the next epoch.  A table
refresh is `GetProgramAccounts`, one `InsertTable` per account in any order, and
`RetainTables`; readers of the concurrent map see every state in between.  Any
call may fail.  The chain as a server sees it only goes forward.

**FetchStage, Shutdown.**  The fetch stage blocks in `recv` and then reads
until the channel is empty or the read limit is passed.  The QUIC servers and the
verifier are library threads, known by what they do to their channels.
`Shutdown` runs the fetch stage and the health manager with `main`, whose joins
are taken in the code's order.  `main` joins neither the event loop nor the
subscription threads.  Two of its waits are for others: `serve_with_shutdown`
returns when the last validator has left its stream (the senders stay in the
map that `RelayerImpl` and `RelayerHandle` share, so the end of the event loop
closes none), and the block engine thread ends when the call it is in is
answered.  Both steps may come at any time or never.  A thread that panics raises `exit` and keeps its
ends of its channels while the hook waits; `HookExits` then ends the process.
The joins of the threads that refresh staked nodes, leaders and tables are left
out: these wait for nobody but an RPC client that gives up.

## What is checked

| Run | Module | Checks | States, time |
|---|---|---|---|
| `forwarder` | `Forwarder` | `ExactlyOnce`, `PanicOnlyInShutdown`, `ArrivalOrder`, `ImplementsDelayLine`, `EventuallyRelayed`, `ThreadsStop` | 160 599, 50 s |
| `relayer` | `MCRelayerLoop` | `LatestStreamServed`, `ImplementsStreams`, `LiveStreamKept`, `UnhealthyDropsAll`, `ClosedStreamRemoved`, `PacketsTaken`, `WellFormedBatches` (with `InOrderOnce` as a conjunct), `LeadersOnly` | 50 016, 1.2 min |
| `slots` | `LoadBalancer` | `ImplementsBoard`, `OvertakingBounded`, `HighestReported`, `StallRecovered`, `SlotReported` | 163 208, 1.3 min |
| `engine_session` | `MCBlockEngine` | `StatusTruthful`, `SilenceBounded`, `TokensFresh`, `NoFalseAlarm`, `StallLeft`, `HandlerStops` | 103 272, 50 s |
| `engine_packets` | `MCBlockEngine` | `ImplementsSessions`, `StaleNeverSent`, `SentOnInterest` | 1.8 million, 2 min |
| `auth` | `MCAuthService` | `ChallengesBounded`, `ImplementsDesk`, `ChallengeHonoured` | 121 734, 20 s |
| `caches` | `MCCaches` | `TrueLeaders`, `OneSnapshot`, `NoGap`, `CachesCatchUp` | 119 808, 30 s |
| `shutdown` | `MCShutdown` | `HealthFollowsSlots`, `ForwardsKept`, `ProcessEnds` | 523 088, 1.2 min |

The `TypeOK` of each module is proved (below), and so is not repeated in the
runs; nor are `ReportedOnce`, `SentInOrderOnce` and `OwnIdentity`, which are
proved and which the refinements of the same runs say more about.  Deadlock is
not checked where a system is meant to stop once `exit` is set; the auth service
has no end, and there it is checked.

Four runs exhibit a disagreement between the code and what is said of it:

| Run | Property | What happens |
|---|---|---|
| `forwarder_no_engine` | `PanicOnlyInShutdown` | `--block-engine-url` is optional, but without it the engine's receiver is dropped at start-up and, unless `--disable-mempool` is given, the first batch makes `try_send` return Closed and the forwarder panic. |
| `shutdown_graceful` | `GracefulShutdown` | After a signal the fetch stage waits in a `recv` that only fails, and so panics, when the QUIC servers drop their senders; the health manager panics likewise when a neighbour ends first. The panic hook then ends the process with an error. |
| `engine_expiry` | `ExpiryKnown` | `refresh_access_token` may return a token without expiry, which is stored unchecked; the next auth tick unwraps it. The comment says the expiry was checked when the connection was established. |
| `auth_lifetime` | `IssuedValid` | The options give how long access tokens and challenges are valid. The life of a token is counted from the making of the challenge, and a challenge is redeemed without a look at its expiry. With the default settings, the same time for both, an expired challenge that has not been swept yields an access token that has expired. |

What the models show besides, with no document to compare it with:

- Calls from a shared address displace each other's challenges, and each has to
  ask again; `ChallengeHonoured` is stated for an address of one's own.
- `LeadersOnly` speaks of the schedule that was cached when the last slot
  arrived, which need not be the schedule of the chain, nor what the cache holds
  when the packets are sent.
- A schedule update during which an epoch begins stores the new epoch's leaders
  at the old epoch's slots until the next update (`straddled` in `TrueLeaders`).
- `retain` also drops a table that exists but does not deserialize.
- The calls to the block engine and its auth service have no timeout, and those
  that refresh tokens are awaited inside a `select!` arm: neither the watchdog
  nor `exit` is noticed while one is open.  `HandlerStops` shows that a call that
  is never answered is all that can keep the thread; `StallLeft` has it as its
  premise that calls return.
- A validator that keeps its stream keeps `main` from returning after a signal,
  as long as no thread panics; so does a call of the block engine thread that
  is not answered.  `ProcessEnds` names both.
- A subscription thread has one silence timeout, and it starts when
  `slot_subscribe` has returned: `StallRecovered` shows that a silent server is
  given up and tried anew, not that the new attempt ends.
- The repository's README gives 0 as the default of `--packet-delay-ms` where
  `main.rs:135` has 50.  `missing_slot_unhealthy_secs` is "how long it takes to
  miss a slot for the system to be considered unhealthy" (`main.rs:181`) where
  the check at every half threshold makes it up to one and a half times that
  long; `HealthFollowsSlots` states the exact bound.

### Bounds, and why they are enough

- `Forwarder`: two threads and two batches, so that both threads hold a
  batch, or one holds both; channels of capacity 1, so that full, blocked and
  Closed all happen; a delay of 2, so that a batch can be early by more than
  one unit.  Time passes only when a batch is waiting for it, which is without
  loss: nothing else looks at the clock.  `disable_mempool` takes both values.
  The theorems cover what is beyond these bounds.
- `RelayerLoop`: two connections, of the same validator or of two (up to renaming
  these are all the functions `owner`), which gives a reconnection, its races, and
  a neighbour.  Streams and the subscription channel hold one, so that they fill
  up at once; a batch loses a packet to the filters and is cut into a full and a
  short message batch.  Slots 1 and 4 are reported, in any order, with a lookahead
  of two, and each look-up finds one of two schedules with the leaders exchanged;
  slot 4 lies past what they hold and has no leader.
- `LoadBalancer`: two servers, three slots announced in any order, a channel of
  capacity 1.  Three slots are the fewest with which one thread can be
  overtaken twice.
- `BlockEngine`: one unit is the period of the watchdog and of the heartbeat.
  In `engine_session` the response timeout is 2, tokens live for 9 and are
  renewed when less than 6 are left, looked at every 3, with calls of at most 1:
  the code's 60 s, 5 min and 3 s have the same order.  The stream holds three messages, so
  that the watchdog and the send timeout each come first in some behaviour.
  The engine stalls and resumes at most once per session, which bounds how long
  sends can block in a row.  `engine_packets` has two batches with all the cases
  of the filters (discarded, unparsable, listed address by lookup table,
  static and looked-up interest, an index outside its table) and any number of
  sessions.
- `AuthService`: two validators, each with an address of its own and one that
  they share, so that a challenge is reused by, displaced by and lost to the
  other.  The capacity of 2 is below the three addresses, so that it is passed.
  A challenge lives for 2 and is swept every 2: it is seen fresh, expired and
  not yet swept, and gone; a refresh token of 5 expires after use.
  `auth_lifetime` has 3 for both times to live, equal as they are by default.
- `Caches`: two servers, one of which can lag by the whole chain, and which
  announce one of two slots each, so that either is picked; two epochs
  of two slots, so that an update can straddle them and one slot's leader
  differs from its place in the other epoch; a table that grows and one
  that becomes unreadable and is then closed.  Updates and
  failures are unlimited.  Nothing happens on the chain after slot 3, which is
  what the liveness property needs: it speaks of an epoch that lasts.
- `Shutdown`: a threshold of 2 makes the check period one, so the boundary of
  the threshold is hit exactly, before and after; the theorem about
  `HealthFollowsSlots` is for every threshold.  Two batches through queues of
  one, read one at a time, so that each place of the fetch stage is full while
  something waits behind it; the signal, the panics and the ends of the
  neighbours come at any moment.

### Fairness

Weak fairness of every thread's own steps: the operating system and tokio run
a thread that can run.  Arms of `select!` get strong fairness where they can be
disabled by another arm: `crossbeam` and tokio choose among the ready arms at random, so
an arm that is ready again and again is taken.  `BlockEngine` needs it of one arm
only, the metrics tick that looks for a silent engine; of the other arms it is
enough that the thread takes some step.  Time passes.  The consumers that
the code makes receive in a loop (the event loop for the forwarder and the
health manager, the health manager for the load balancer, the verifier for the
fetch stage) do so, and notice `exit`; the verifier need not notice that the
forwarders are gone, which it does only when it has something to send.  Nothing is assumed
of what is outside the process: no fairness for validators reading or hanging up,
RPC servers announcing slots or accepting a subscription, interest updates, or
the answers to calls of the block engine handler (`StallLeft` has it as its
premise); an engine reads unless it is stalled, which it may be for ever.
`AuthAnswers` is about time only: TRUE means that a call that is answered takes
no more than `CallLag`.  In `Shutdown` threads whose steps are finite in number
share one condition of fairness, which is weaker than one each.  `Caches` assumes that the chain goes on and that a server
which is asked again and again answers some time (strong fairness of the
answers, for a failure is always possible).  The auth service has no liveness
property: a validator may be overtaken on a shared address any number of times.

## What is proved

Eight modules hold theorems.  Each is for every value of the constants that
satisfies the named assumption of the module it extends: positive capacities
and periods, finite sets where a cardinality is taken, functions with the right
domain.  The theorems of `BlockEngineTime_proofs` have conditions on the periods
besides, stated in the theorem.  Each proof has an inductive invariant (`IInv`, or the parts named
below), a lemma per group of actions, and a temporal step.

| Module | Theorems and what they state |
|---|---|
| `Forwarder_proofs` | `NothingLostOrDoubled` (`ExactlyOnce`), `OrderIsKept` (`ArrivalOrder`), `ForwarderImplementsDelayLine`, `CopyComesFirst` (`EngineFirst`), `PanicsFollowShutdown` (`PanicOnlyInShutdown`, if a block engine is configured) |
| `RelayerLoop_proofs` | `LatestIsServed`, `LiveStreamsAreKept`, `OnlyLeadersGetPackets`, `BatchesOfInput`, `StreamsAreInOrder` (`InOrderOnce`), `BatchesAreWellFormed` (`WellFormedBatches`), `LoopImplementsStreams` |
| `LoadBalancer_proofs` | `NoSlotTwice` (`ReportedOnce`), `OvertakingIsBounded`, `HighestIsReported`, `ThreadsImplementBoard` |
| `BlockEngine_proofs` | `StatusIsTruthful`, `BatchesGoInOrder` (`SentInOrderOnce`), `NothingStaleIsSent`, `OnlyInterestIsSent`, `HandlerImplementsSessions` |
| `BlockEngineTime_proofs` | `SilenceIsBounded`, `PromptEngineIsKept` (`NoFalseAlarm`), `TokensStayFresh` (`TokensFresh`), `ExpiryIsKnown` |
| `AuthService_proofs` | `ChallengesAreBounded`, `TokensLive` (`IssuedValid`, if an access token outlives a challenge and one sweep interval), `IdentityIsOwn` (`OwnIdentity`), `ChallengesAreHonoured`, `ServiceImplementsDesk` |
| `Caches_proofs` | `LeadersAreTrue`, `TablesHaveNoGap`, `ScheduleIsWhole`, `TablesAreOneAnswer` (`OneSnapshot`) |
| `Shutdown_proofs` | `HealthIsTruthful` (of the health manager alone), `RunsHealthManager`, `HealthIsTruthfulToTheEnd`, `ForwardsAreKept`, `MainReturnsLast` |

Each also proves its module's type invariant (`TypeCorrect`,
`ShutdownTypeCorrect`; `Shutdown_proofs` covers `FetchStage`).

**Forwarder.**  `TypeOK` is not inductive, because a thread at `offer` indexes
`offered` with the batch it holds: `HoldingInv` adds that it holds one exactly
there, or has panicked over it.

`ExactlyOnce` is about places and needs the books (`BookInv`): the threads have
taken the batches `1 .. Taken` where `Taken` is what arrived less what waits,
and `verified` holds the rest in order (`QueueInv`); within one thread no batch
occurs twice (`DistinctInv`); and a batch has been taken iff it was relayed or
is with a thread, never both, never with two threads (`PlaceInv`).  Without
`QueueInv` a thread could receive a batch that another one already has.  Four
actions touch the books, and each has its lemma: `RecvBook`, `PushBook`,
`DrainBook`, `ArriveBook`.

`ArrivalOrder` is an action property.  `OrderInv` says that a thread's buffer is
increasing and that the batch in its hand is later than all of it; a batch just
received is `Taken + 1` and so, by `BookInv`, later than whatever the thread
holds.  The front of the buffer is then the oldest batch, and by `PlaceInv` no
other thread has it.

The refinement maps `held` to what the threads hold in hand or in their buffers.
Receiving is `Accept`, which has to show that the batch is new: that is `BookInv`
again.  The send is `Release`, and has to show that removing one entry from one
buffer removes it from the union of all.  `Tick` is `Pass`; every other step
stutters.

`EngineFirst` speaks of what was relayed; `BufferSettled` says the same of the
buffers it comes from.  `PanicOnlyInShutdown` rests on `RaisedFirst`: a channel
has lost its far end only after a shutdown began, unless it is the engine's and
the mempool is disabled.  That is where the assumption that an engine is
configured enters, and the run `forwarder_no_engine` shows that it cannot be
dropped.

**RelayerLoop.**  `AcceptedOnce` and `QueueIsRest` make `accepted` the order of
subscriptions and the channel its unread rest.  `Served` then says that a stream
in the map is the latest of its validator among those taken, which is
`LatestStreamServed` without the detour over the channel.  `FoundClosed` is
what `LiveStreamKept` needs: a validator found closed while a batch was sent
is still served on a closed stream when it is dropped at the end, because no
subscription is taken in between.  `LeadersInWindow` relates `slot_leaders` to
`highest_slot` and to the schedule that was looked up with it, for any contents of
the cache.

`BatchesOfInput` is about `forward_packets` as a function: the packets of an
input batch that pass the filters, cut into message batches that are full but
for the last and never empty, in order, with all of them and nothing else.  That
the survivors can be put in ascending order at all is an induction over their
number, done as a least counterexample: `WFMin` on `<` gives the smallest size of
a set without such a sequence, and removing its largest member contradicts it.
What a cut returns needs only division with remainder (`Division`,
`ChunksApart`, `ChunkCount`).  `StreamsAreInOrder` then follows packets on to
the streams: `StreamsInOrder` says that what is on a stream is in order, comes
from the input batches handled so far and is earlier than all that is still to be
sent.  `InOrderOnce` alone is not inductive: it says nothing of what is in hand.

The refinement maps the life of a stream: new until its subscription is in the
channel, waiting while it is there, served while it is in the map, over
afterwards.  The send of `subscribe_packets` is `Join`, `handle_subscription` is
`Begin`, each message batch of `forward_packets` is `Deliver`, the drops of the
heartbeat are `Drop`, and the return of the loop is `Quit`, which ends what waits
in the channel and nothing else.  `Begin` needs that a stream is taken once
(`AcceptedOnce`, `QueueIsRest`) and that the stream it displaces is the
validator's own (`Served`).  `Deliver` needs that the batch comes after all that is
on the stream (`StreamsInOrder`), that a stream found closed did not get it
(`FoundClosed`), and `FromInput`, that what is in hand was cut from the input,
which is the part only the refinement needs.

**LoadBalancer.**  `Won` says that the slot a thread is about to send is its own
prize of `fetch_max`, at most `highest_slot`, not sent yet and nobody else's;
`WonLater` that it is above everything that was sent up to the same thread's last
send.

The refinement maps `owed` to the slots that threads hold between `fetch_max`
and the send.  Winning is `Announce`, the send `Report`, a failed send `Forget`,
which the board allows only once nobody listens.  Both sends take a slot out of
the union over all threads, and by `Won` no other thread holds the same one: with
a race that two threads could win, the first send would leave the slot owed.

**HealthManager.**  `HealthFollowsSlots` does not say how long ago the last
check was.  `Verdict` does: a healthy verdict was right then and the silence has
grown by no more than the time since; an unhealthy one was right, or a slot came
since.

**BlockEngine.**  `QueueInOrder`, `HeldInOrder` and `LogInOrder` line up what is
queued, in the hand of `send_timeout` and sent, across sessions, for
`SentInOrderOnce`.  `OfferedInSession` says that queue and hand hold only batches
offered since the stream started, `AskedInSession` that the interest caches hold
only keys the engine asked for since then, `HeldIsAsked` that the packets in
the hand passed the filter with those caches; the last is needed because the
interest can expire while the send waits.

The refinement maps `up` to `is_connected_to_block_engine`, and `fresh` and
`wanted` to the history of the session.  `StartStreaming` is `Open`, the updates of interest are
`Ask`, the end of a session is `Close`.  A send has to show that the session is
open (`StatusTruthful`), that its batch came since it opened (`OfferedInSession`),
is newer than all that was sent (`LogInOrder`) and meets interest stated since
(`HeldIsAsked`).  `HeldIsKept` (the packets in the hand are packets of their batch,
and there are some) and `FreshIsOffered`
(no batch is fresh that the forwarder has yet to offer) are the parts of the
invariant that only the refinement needs.

**BlockEngine, time.**  All arms of the loop run on one task, so a tick can be
late because a send is held up or because `maybe_refresh_auth` waits for its
call.  The argument is how late.  `HeldUp` is the time a stalled engine has held
up a send in this session, `CallTime` the time a call has taken; `IntervalsKept`
says that no interval is later than both together, and later than `HeldUp` only
while the next look at the tokens is almost a whole period away: two calls never
delay the same tick, which is where `CallsApart` (the auth period is longer than
a send and a call) is needed.  The rest is bookkeeping on top of it:
`SilenceWatched` relates the silence to the metrics timer, `PromptReplies` the
silence of a prompt engine to the heartbeat timer, `TokensLast` the remaining
life of both tokens to the auth timer.

| Theorem | Condition | In the code |
|---|---|---|
| `SilenceIsBounded` | auth period > send timeout + call | 60 s > 3 s + call |
| `PromptEngineIsKept` | the same; response timeout >= heartbeat period + call; calls are answered | 30 s >= 0.5 s + call |
| `TokensStayFresh` | the same as the first; margin > auth period + send timeout + call; a token that has life left when it is issued has the margin left | 300 s > 60 s + 3 s + call |
| `ExpiryIsKnown` | every token issued has an expiry | up to the engine: `engine_expiry` shows what happens otherwise |

How long a call may take is not in the code, which sets no timeout on it; up to
29 s every condition holds.  `SilenceBounded` and `TokensFresh` speak of calls that
are answered, for an unanswered one stops the loop.  As in the model, the engine
stalls once in a session; each further stall could hold up one more send.

**AuthService.**  `Swept` bounds the age of a challenge by the time the
expiration task has slept, and with it how short the life of a token can be
(`TokenLife`); `AtHome` keeps calls on their validator's addresses;
`OwnKey` relates the key of a challenge being redeemed, and of tokens, to its
validator; `Standing` is the challenge of a validator alone on its address, at
every stage of its call.  `ChallengesBounded` is inductive by itself, for it
counts the calls past the check as if they had pushed.

The refinement maps a validator to the stage its call is at: `Prove` is the
comparison under the first lock of `generate_auth_tokens`, `OpenSession` the
removal under the second, `Issue` the push.  In between the challenge can expire
or be displaced by another validator on the address, so `OpenSession` asks only
for the proof; that the session is under the proved key is `OwnKey`, and that the
address is one of the validator's own is `AtHome`.  The sweep is `Expire` of what
`Popped` returns, a call that ends early `Leave`, and all else stutters.

**Caches.**  `ReachedOK`: a server has reached a slot of the chain.
`UpdaterOK` fixes what the two calls of an update can have read, `RefresherOK`
that the tables seen so far in a refresh are those already handled and readable.
`ContentsInv` is about the maps as a whole.  The two theorems from it are the
safe half of `CachesCatchUp`: whatever calls failed before, a cache never holds a
mixture of two answers between two refreshes.

**Shutdown.**  Every step of the process is a step of the health manager or
leaves its variables alone, so `ShutdownSpec` implies the manager's `Spec` and
its theorems carry over.  `Placed` numbers the batches through the four places of
the fetch stage.  `JoinedHaveEnded` goes
along the joins of `main`: what has been joined has ended, and a fetch stage
between two rounds holds nothing.

Only model-checked are the liveness properties (`EventuallyRelayed`,
`ThreadsStop`, `UnhealthyDropsAll`, `ClosedStreamRemoved`, `PacketsTaken`,
`StallRecovered`, `SlotReported`, `StallLeft`, `HandlerStops`, `CachesCatchUp`,
`ProcessEnds`): they need fairness and ENABLED, which the prover does not support.

## What is not modelled

- The staked nodes updater: one thread that replaces a whole map under a lock,
  which only the QUIC servers of a library read.
- `get_tpu_configs`: a counter and two ports.  The web server: two handlers
  that each read what others keep.
- The QUIC servers, the signature verifier, `jsonwebtoken`, tonic, tokio and the
  RPC client: libraries, modelled where the code depends on what they do.
- Metrics, logging, protobuf conversion, argument parsing, sockets and TLS; the
  generated protobuf code; the packet blaster, a load generator.

## Plan

1. Done: forwarder, event loop, load balancer, block engine handler and auth
   service, each with an abstract specification; health manager, filters, both
   refreshers, fetch stage and shutdown; proofs about each.
2. `SlotPipeline`: load balancer, health manager and event loop composed
   through their channels, with an abstract specification of "healthy".
3. `RelayerLoop` over `ScheduleCache`: the leaders of the window while the
   schedule is between two epochs.
