---------------------------- MODULE BlockEngine ----------------------------
(***************************************************************************)
(* block_engine/src/block_engine.rs: the thread that authenticates with    *)
(* the block engine, opens the streams, forwards the packets the engine is *)
(* interested in, watches the link, refreshes the tokens, and starts over  *)
(* when any of this fails.                                                 *)
(*                                                                         *)
(* Instants are kept as remaining or elapsed time.  The thread reacts to a *)
(* ready arm of select! at once: time passes only while it waits.  What    *)
(* the handler owns in one session (streams, tokens, timers) is reset when *)
(* the session ends.  Batch n of the forwarder is Content[n], a sequence   *)
(* of packets (PacketFilter.tla).                                          *)
(***************************************************************************)
EXTENDS Integers, Sequences, PacketFilter

CONSTANTS
  Key,                 \* the addresses the engine may be interested in
  Content,             \* the batches the forwarder offers
  Ofac,                \* ofac_addresses
  Tables,              \* address_lookup_table_cache
  QueueCapacity,       \* BLOCK_ENGINE_FORWARDER_QUEUE_CAPACITY
  StreamCapacity,      \* BLOCK_ENGINE_PACKET_QUEUE_CAPACITY
  Period,              \* of the heartbeat, metrics and auth intervals
  ResponseTimeout,     \* BLOCK_ENGINE_RESPONSE_TIMEOUT
  SendTimeout,         \* of the send_timeout calls
  RetryDelay,          \* the sleep after an error
  Ttl,                 \* aoi_cache_ttl_s
  Margin,              \* a token with less time left is expiring soon
  Lifetime,            \* the expiry the auth service may give a token
  AuthAnswers,         \* a call takes at most CallLag, if it returns
  CallLag

Timer == {"heartbeat", "metrics", "auth"}
NoExpiry == -1         \* expires_at_utc is None; 0 means expired
Batch == 1 .. Len(Content)

ASSUME BlockEngineAssumption ==
  /\ Len(Content) \in Nat /\ \A n \in Batch : DOMAIN Content[n] \subseteq Nat
  /\ Lifetime \subseteq Nat \cup {NoExpiry}
  /\ Period \in [Timer -> Nat \ {0}]
  /\ {QueueCapacity, StreamCapacity, ResponseTimeout, SendTimeout, RetryDelay, Ttl, Margin, CallLag}
       \subseteq Nat \ {0}
  /\ AuthAnswers \in BOOLEAN

LongestWait == SendTimeout + RetryDelay + CallLag
LongestSilence == ResponseTimeout + Period["metrics"] + SendTimeout + CallLag + 1

VARIABLES
  exit,                \* the process-wide exit flag
  pc,                  \* where the thread is
  waited,              \* time spent in the current await
  connected,           \* is_connected_to_block_engine
  access, refresh,     \* time left on the two tokens
  timer,               \* time until each interval ticks; negative: overdue
  silence,             \* last_response_at.elapsed()
  accounts_of_interest, programs_of_interest,   \* time each entry has left
  forward_all,
  sending,             \* the message being sent
  stream,              \* the block_engine_packet channel
  replies,             \* a heartbeat reply waits on the response stream
  engine,              \* whether the engine reads and replies
  block_engine,        \* the channel from the forwarder
  offered,             \* batches the forwarder has offered
  cause,               \* history: why a session has failed
  fresh,               \* history: batches offered since the stream started
  wanted,              \* history: what the engine asked for in this session
  log                  \* history: batches put on the stream, with the packets kept

tokens == <<access, refresh>>
caches == <<accounts_of_interest, programs_of_interest, forward_all, wanted>>
link == <<stream, replies, engine>>
feed == <<block_engine, offered, fresh>>
vars == <<exit, pc, waited, connected, tokens, timer, silence, caches, sending, link,
          feed, cause, log>>

Heartbeat == [batch |-> 0, packets |-> {}]
NoInterest == [k \in Key |-> 0]

Init ==
  /\ exit = FALSE /\ pc = "top" /\ waited = 0
  /\ connected = FALSE
  /\ access = 0 /\ refresh = 0
  /\ timer = [k \in Timer |-> 0] /\ silence = 0
  /\ accounts_of_interest = NoInterest /\ programs_of_interest = NoInterest
  /\ forward_all = FALSE
  /\ sending = Heartbeat
  /\ stream = <<>> /\ replies = FALSE /\ engine = "prompt"
  /\ block_engine = <<>> /\ offered = 0
  /\ cause = "none" /\ fresh = {} /\ wanted = {} /\ log = <<>>

Streaming == pc \in {"select", "send", "reauth", "refresh"}
Calling == pc \in {"auth", "connect", "reauth", "refresh"}

-----------------------------------------------------------------------------
(* The outer loop, auth_and_connect and start_event_loop.                  *)

Await(label) == pc' = label /\ waited' = 0

\* auth_and_connect returns: tokens, timers and streams are dropped.
Return(label, why) ==
  /\ Await(label)
  /\ cause' = why
  /\ access' = 0 /\ refresh' = 0
  /\ timer' = [k \in Timer |-> 0] /\ silence' = 0
  /\ sending' = Heartbeat
  /\ stream' = <<>> /\ replies' = FALSE /\ engine' = "prompt"
  /\ UNCHANGED <<exit, connected, caches, feed, log>>

Panic ==
  /\ Await("panicked")
  /\ exit' = TRUE
  /\ UNCHANGED <<connected, tokens, timer, silence, caches, sending, link, feed, cause,
                 log>>

LoopTop ==
  /\ pc = "top"
  /\ Await(IF exit THEN "exited" ELSE "auth")
  /\ UNCHANGED <<exit, connected, tokens, timer, silence, caches, sending, link, feed,
                 cause, log>>

\* The challenge-response handshake.  Both tokens need an expiry; one that has
\* passed panics in the log statement.
AuthReply(a, r) ==
  /\ pc = "auth"
  /\ \/ NoExpiry \in {a, r} /\ Return("failed", "error")
     \/ NoExpiry \notin {a, r} /\ 0 \in {a, r} /\ Panic
     \/ /\ {NoExpiry, 0} \cap {a, r} = {}
        /\ access' = a /\ refresh' = r
        /\ Await("connect")
        /\ UNCHANGED <<exit, connected, timer, silence, caches, sending, link, feed,
                       cause, log>>

\* A connection, a call or a subscription fails.
SetupFails == pc \in {"auth", "connect"} /\ Return("failed", "error")

\* The engine's channel and its three streams are open.
ConnectReply ==
  /\ pc = "connect"
  /\ Await("drain")
  /\ UNCHANGED <<exit, connected, tokens, timer, silence, caches, sending, link, feed,
                 cause, log>>

MutSessionOver ==
  /\ pc \in {"failed", "closed"}
  /\ cause' = "none"
  /\ Await(IF pc = "failed" THEN "sleep" ELSE "top")
  /\ UNCHANGED <<exit, connected, tokens, timer, silence, caches, sending, link, feed, log>>

\* is_connected is cleared; after an error the thread sleeps.
SessionOver ==
  /\ pc \in {"failed", "closed"}
  /\ connected' = FALSE
  /\ cause' = "none"
  /\ Await(IF pc = "failed" THEN "sleep" ELSE "top")
  /\ UNCHANGED <<exit, tokens, timer, silence, caches, sending, link, feed, log>>

Wake ==
  /\ pc = "sleep"
  /\ waited >= RetryDelay
  /\ Await("top")
  /\ UNCHANGED <<exit, connected, tokens, timer, silence, caches, sending, link, feed,
                 cause, log>>

-----------------------------------------------------------------------------
(* handle_packet_stream.                                                   *)

\* What recv and try_recv leave in the channel.
MutRest == block_engine
Rest == Tail(block_engine)

DrainBatch ==
  /\ pc = "drain"
  /\ block_engine # <<>>
  /\ block_engine' = Rest
  /\ UNCHANGED <<exit, pc, waited, connected, tokens, timer, silence, caches, sending, link,
                 offered, fresh, cause, log>>

\* while !exit, evaluated after every arm.
MutContinue == Await("select")
Continue == Await(IF exit THEN "closed" ELSE "select")

\* The caches and the wildcard are new in every session.
MutForgetInterest ==
  /\ accounts_of_interest' = NoInterest /\ programs_of_interest' = NoInterest
  /\ UNCHANGED forward_all
ForgetInterest ==
  /\ accounts_of_interest' = NoInterest /\ programs_of_interest' = NoInterest
  /\ forward_all' = FALSE

\* while block_engine_receiver.try_recv().is_ok()
MutDrained == TRUE
Drained == block_engine = <<>>

\* The queue is empty: connected, with fresh caches and intervals that tick at once.
StartStreaming ==
  /\ pc = "drain"
  /\ Drained
  /\ connected' = TRUE
  /\ fresh' = {} /\ wanted' = {}
  /\ ForgetInterest
  /\ timer' = [k \in Timer |-> 0] /\ silence' = 0
  /\ Continue
  /\ UNCHANGED <<exit, tokens, sending, link, block_engine, offered, cause, log>>

\* An interval keeps its rhythm: a tick that comes late does not move the next.
Ticks(k) ==
  /\ pc = "select"
  /\ timer[k] <= 0
  /\ timer' = [timer EXCEPT ![k] = @ + Period[k]]

MutRecvReply ==
  /\ pc = "select"
  /\ replies
  /\ replies' = FALSE
  /\ Continue
  /\ UNCHANGED <<exit, connected, tokens, timer, silence, caches, sending, stream,
                 engine, feed, cause, log>>

RecvReply ==
  /\ pc = "select"
  /\ replies
  /\ replies' = FALSE
  /\ silence' = 0
  /\ Continue
  /\ UNCHANGED <<exit, connected, tokens, timer, caches, sending, stream, engine, feed,
                 cause, log>>

\* One of the three incoming streams ends or fails.
StreamEnds == pc = "select" /\ Return("failed", "error")

SendHeartbeat ==
  /\ Ticks("heartbeat")
  /\ sending' = Heartbeat
  /\ Await("send")
  /\ UNCHANGED <<exit, connected, tokens, silence, caches, link, feed, cause, log>>

Cached(cache) == {k \in Key : cache[k] > 0}
Renew(cache, keys) == [k \in Key |-> IF k \in keys THEN Ttl ELSE cache[k]]

\* "*" switches the filter off for the rest of the session.
HandleUpdate(keys, star) ==
  /\ forward_all' = (forward_all \/ star)
  /\ wanted' = wanted \cup keys \cup (IF star THEN {"*"} ELSE {})
  /\ Continue
  /\ UNCHANGED <<exit, connected, tokens, timer, silence, sending, link, feed, cause, log>>

handle_aoi(keys, star) ==
  /\ pc = "select"
  /\ accounts_of_interest' = Renew(accounts_of_interest, keys)
  /\ HandleUpdate(keys, star)
  /\ UNCHANGED programs_of_interest

handle_poi(keys, star) ==
  /\ pc = "select"
  /\ programs_of_interest' = Renew(programs_of_interest, keys)
  /\ HandleUpdate(keys, star)
  /\ UNCHANGED accounts_of_interest

\* A batch is taken and filtered; what is left of it is sent.
RecvBatch ==
  /\ pc = "select"
  /\ block_engine # <<>>
  /\ block_engine' = Rest
  /\ LET n == Head(block_engine)
         kept == filter_packets(Content[n], Cached(accounts_of_interest),
                                Cached(programs_of_interest), Ofac, Tables, forward_all)
     IN  \/ kept # {} /\ sending' = [batch |-> n, packets |-> kept] /\ Await("send")
         \/ kept = {} /\ Continue /\ UNCHANGED sending
  /\ UNCHANGED <<exit, connected, tokens, timer, silence, caches, link, offered, fresh,
                 cause, log>>

\* Every forwarder thread is gone, which happens only after exit.
RecvDisconnected == pc = "select" /\ exit /\ block_engine = <<>> /\ Return("failed", "error")

Room == Len(stream) < StreamCapacity

\* send_timeout, for heartbeats and packets alike.
SendDone ==
  /\ pc = "send"
  /\ Room
  /\ stream' = Append(stream, sending.batch)
  /\ log' = IF sending = Heartbeat THEN log ELSE Append(log, sending)
  /\ sending' = Heartbeat
  /\ Continue
  /\ UNCHANGED <<exit, connected, tokens, timer, silence, caches, replies, engine, feed,
                 cause>>

MutTimedOut == FALSE
TimedOut == waited >= SendTimeout

SendTimesOut ==
  /\ pc = "send"
  /\ ~Room
  /\ TimedOut
  /\ Return("failed", "timeout")

\* The receiving half of the stream was dropped with the connection.
SendClosed == pc = "send" /\ Return("failed", "error")

MutExpiringSoon(left) == left = 0
ExpiringSoon(left) == left < Margin

\* maybe_refresh_auth, up to its call.
AuthTick ==
  /\ Ticks("auth")
  /\ \/ /\ access = NoExpiry   \* expires_at_utc.as_ref().unwrap()
        /\ Await("panicked")
        /\ exit' = TRUE
     \/ /\ access # NoExpiry
        /\ \/ ExpiringSoon(refresh) /\ Await("reauth")
           \/ ~ExpiringSoon(refresh) /\ ExpiringSoon(access) /\ Await("refresh")
           \/ ~ExpiringSoon(refresh) /\ ~ExpiringSoon(access) /\ Continue
        /\ UNCHANGED exit
  /\ UNCHANGED <<connected, tokens, silence, caches, sending, link, feed, cause, log>>

\* auth again: a token without expiry is an error.
ReauthReply(a, r) ==
  /\ pc = "reauth"
  /\ \/ NoExpiry \in {a, r} /\ Return("failed", "error")
     \/ /\ NoExpiry \notin {a, r}
        /\ access' = a /\ refresh' = r
        /\ Continue
        /\ UNCHANGED <<exit, connected, timer, silence, caches, sending, link, feed,
                       cause, log>>

\* refresh_access_token: the new token is taken as it is.
RefreshReply(a) ==
  /\ pc = "refresh"
  /\ access' = a
  /\ Continue
  /\ UNCHANGED <<exit, connected, refresh, timer, silence, caches, sending, link, feed,
                 cause, log>>

RefreshFails == pc \in {"reauth", "refresh"} /\ Return("failed", "error")

MutOverdue == FALSE
Overdue == silence > ResponseTimeout

\* The metrics tick doubles as the watchdog of the link.
MetricsTick ==
  \/ /\ pc = "select" /\ timer["metrics"] <= 0
     /\ Overdue
     /\ Return("failed", "timeout")
  \/ /\ Ticks("metrics")
     /\ ~Overdue
     /\ Continue
     /\ UNCHANGED <<exit, connected, tokens, silence, caches, sending, link, feed, cause,
                    log>>

-----------------------------------------------------------------------------
(* The forwarder, the engine, shutdown and time.                           *)

\* try_send; a batch that finds the channel full is dropped.
Offer ==
  /\ offered < Len(Content)
  /\ pc \notin {"exited", "panicked"}
  /\ offered' = offered + 1
  /\ fresh' = fresh \cup {offered + 1}
  /\ block_engine' = IF Len(block_engine) < QueueCapacity
                     THEN Append(block_engine, offered + 1) ELSE block_engine
  /\ UNCHANGED <<exit, pc, waited, connected, tokens, timer, silence, caches, sending,
                 link, cause, log>>

\* The engine reads the stream and replies to heartbeats.
EngineReads ==
  /\ engine # "stalled"
  /\ stream # <<>>
  /\ replies' = (replies \/ Head(stream) = 0)
  /\ stream' = Tail(stream)
  /\ UNCHANGED <<exit, pc, waited, connected, tokens, timer, silence, caches, sending,
                 engine, feed,
                 cause, log>>

\* The engine stops reading and replying while the connection stays up, and may
\* go on later: once in a session, which bounds the time that sends can block.
EngineStalls ==
  /\ Streaming
  /\ engine # "resumed"
  /\ engine' = IF engine = "stalled" THEN "resumed" ELSE "stalled"
  /\ UNCHANGED <<exit, pc, waited, connected, tokens, timer, silence, caches, sending,
                 stream, replies,
                 feed, cause, log>>

SignalExit ==
  /\ ~exit
  /\ exit' = TRUE
  /\ UNCHANGED <<pc, waited, connected, tokens, timer, silence, caches, sending, link,
                 feed, cause, log>>

Down(n) == IF n > 0 THEN n - 1 ELSE n

\* An engine that is not stalled keeps up with the stream.
Tick ==
  /\ \/ pc = "select" /\ (\A k \in Timer : timer[k] > 0) /\ block_engine = <<>> /\ ~replies
     \/ pc = "send" /\ ~Room /\ waited < SendTimeout
     \/ Calling /\ (AuthAnswers => waited < CallLag)
     \/ pc = "sleep" /\ waited < RetryDelay
  /\ engine = "stalled" \/ stream = <<>>
  /\ waited' = IF pc # "select" /\ waited < LongestWait THEN waited + 1 ELSE waited
  /\ access' = Down(access) /\ refresh' = Down(refresh)
  /\ \/ /\ Streaming
        /\ timer' = [k \in Timer |-> IF timer[k] > -LongestWait THEN timer[k] - 1 ELSE timer[k]]
        /\ silence' = IF silence < LongestSilence THEN silence + 1 ELSE silence
        /\ accounts_of_interest' = [k \in Key |-> Down(accounts_of_interest[k])]
        /\ programs_of_interest' = [k \in Key |-> Down(programs_of_interest[k])]
     \/ /\ ~Streaming
        /\ UNCHANGED <<timer, silence, accounts_of_interest, programs_of_interest>>
  /\ UNCHANGED <<exit, pc, connected, forward_all, wanted, sending, link, feed, cause, log>>

Reply ==
  \/ ConnectReply
  \/ \E a \in Lifetime : \/ RefreshReply(a)
                         \/ \E r \in Lifetime : AuthReply(a, r) \/ ReauthReply(a, r)

Interest ==
  \E keys \in SUBSET Key, star \in BOOLEAN : handle_aoi(keys, star) \/ handle_poi(keys, star)

Next ==
  \/ LoopTop \/ SetupFails \/ SessionOver \/ Wake
  \/ DrainBatch \/ StartStreaming
  \/ RecvReply \/ StreamEnds \/ SendHeartbeat \/ Interest
  \/ RecvBatch \/ RecvDisconnected \/ SendDone \/ SendTimesOut \/ SendClosed
  \/ AuthTick \/ RefreshFails \/ MetricsTick
  \/ Reply
  \/ Offer \/ EngineReads \/ EngineStalls \/ SignalExit \/ Tick

Spec == Init /\ [][Next]_vars

\* What the thread does by itself, whatever the engine and the services do.
ThreadStep ==
  \/ LoopTop \/ SessionOver \/ Wake \/ DrainBatch \/ StartStreaming
  \/ RecvReply \/ SendHeartbeat \/ RecvBatch \/ AuthTick \/ MetricsTick
  \/ SendDone \/ SendTimesOut

\* The runtime runs the task, select! picks among the ready arms at random and so
\* does not pass over the metrics arm for ever, an engine that is not stalled
\* reads, and time passes.  Nothing makes a call return.
Fairness ==
  /\ WF_vars(ThreadStep) /\ SF_vars(MetricsTick)
  /\ WF_vars(EngineReads) /\ SF_vars(Tick)

FairSpec == Spec /\ Fairness

-----------------------------------------------------------------------------
(* Properties.                                                             *)

Message == [batch : Batch, packets : SUBSET Nat]

\* Every variable keeps its type; both bounded channels keep their bound.
TypeOK ==
  /\ exit \in BOOLEAN
  /\ pc \in {"top", "auth", "connect", "drain", "select", "send", "reauth", "refresh",
             "failed", "closed", "sleep", "exited", "panicked"}
  /\ waited \in 0 .. LongestWait
  /\ connected \in BOOLEAN
  /\ {access, refresh} \subseteq Nat \cup {NoExpiry}
  /\ timer \in [Timer -> Int] /\ \A k \in Timer : timer[k] \in -LongestWait .. Period[k]
  /\ silence \in 0 .. LongestSilence
  /\ {accounts_of_interest, programs_of_interest} \subseteq [Key -> 0 .. Ttl]
  /\ forward_all \in BOOLEAN
  /\ sending \in Message \cup {Heartbeat}
  /\ stream \in Seq(Batch \cup {0}) /\ Len(stream) <= StreamCapacity
  /\ replies \in BOOLEAN /\ engine \in {"prompt", "stalled", "resumed"}
  /\ block_engine \in Seq(Batch) /\ Len(block_engine) <= QueueCapacity
  /\ offered \in 0 .. Len(Content)
  /\ cause \in {"none", "error", "timeout"}
  /\ fresh \subseteq Batch /\ wanted \subseteq Key \cup {"*"}
  /\ log \in Seq(Message)

Streamed(n) == Len(log') > Len(log) /\ log'[Len(log')].batch = n

\* "drain old buffered packets before streaming packets to the block engine":
\* what a stream carries was offered after that stream started, never while
\* the handler was disconnected or busy with an earlier session.
StaleNeverSent ==
  [][\A n \in Batch : Streamed(n) => n \in fresh]_vars

Mentioned(tx) == StaticKeys(tx) \cup WritableLookups(tx, Tables) \cup ReadonlyLookups(tx, Tables)

\* A packet goes to the engine only if the engine asked for it in the same
\* session, by one of the addresses it mentions or by "*"; interest announced
\* to an earlier session is forgotten.  No packet that is discarded, does not
\* parse or mentions a listed address goes out, "*" or not.
SentOnInterest ==
  [][\A n \in Batch : Streamed(n) =>
       \A i \in log'[Len(log')].packets :
         LET p == Content[n][i]
         IN  /\ ~p.discard /\ p.parses
             /\ Mentioned(p.tx) \cap Ofac = {}
             /\ (Mentioned(p.tx) \cup {"*"}) \cap wanted # {}]_vars

\* The engine gets no batch twice and none out of order, across reconnections.
SentInOrderOnce ==
  \A i, j \in DOMAIN log : i < j => log[i].batch < log[j].batch

\* The interests that packet i of batch n meets, none if it may not go out at all.
Topics ==
  [n \in Batch |-> [i \in DOMAIN Content[n] |->
     LET p == Content[n][i]
     IN  IF ~p.discard /\ p.parses /\ Mentioned(p.tx) \cap Ofac = {}
         THEN Mentioned(p.tx) \cup {"*"} ELSE {}]]

Session == INSTANCE EngineSession WITH up <- connected, sent <- log

\* The retries, the streams, the queue and the caches implement the sessions that the
\* engine is promised: none starts with what an earlier one left behind, and no message
\* is empty, repeated, out of order or outside a session.
ImplementsSessions == Session!SessionSpec

\* is_connected_to_block_engine, which /health reports, is true exactly while
\* packets can be streamed; it is not left set when a session fails.
StatusTruthful ==
  /\ Streaming => connected
  /\ pc \in {"top", "auth", "connect", "drain", "sleep", "exited"} => ~connected

\* The watchdog: no session outlives the response timeout by more than one
\* metrics period and the calls that may delay the tick.
SilenceBounded ==
  AuthAnswers /\ Streaming =>
    silence <= ResponseTimeout + Period["metrics"] + SendTimeout + CallLag

\* A session with an engine that reads and replies is never given up for a
\* timeout, neither by the watchdog nor by a send, while tokens are refreshed
\* and packets are sent.
NoFalseAlarm ==
  [][Streaming /\ engine = "prompt" /\ pc' = "failed" => cause' # "timeout"]_vars

\* "Refresh authentication tokens if they're about to expire": neither token runs
\* out while a session lasts, also when the tick that looks at it is late.
TokensFresh ==
  [][Streaming /\ AuthAnswers /\ pc' = pc =>
       (access > 0 => access' > 0) /\ (refresh > 0 => refresh' > 0)]_vars

\* "expires_at_utc is checked for None when establishing connection": the token
\* maybe_refresh_auth looks at has an expiry.
ExpiryKnown ==
  Streaming => access # NoExpiry

\* "a long silence on the response stream means the link is dead even if the TCP
\* connection is still up. Erroring out lets the outer loop reconnect": a
\* stalled engine resumes or is left, if the calls that refresh tokens, which have
\* no timeout and hold up the watchdog, return.
StallLeft ==
  WF_vars(Reply) => ((engine = "stalled") ~> (engine # "stalled" \/ exit))

\* Once exit is set the thread ends, also from within a session, a send or a sleep.
\* One thing can keep it: a call that is never answered, since auth, connect and
\* the refreshes wait without a timeout and without a look at exit.
HandlerStops ==
  (<>exit) => (<>(pc \in {"exited", "panicked"}) \/ <>[]Calling)
=============================================================================
