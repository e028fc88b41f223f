------------------------- MODULE BlockEngine_proofs -------------------------
(***************************************************************************)
(* What the block engine is sent and what /health is told of the link, for *)
(* any batches, tables and addresses, any periods and timeouts and any     *)
(* size of the channels, whether or not the engine reads, replies and      *)
(* answers calls.                                                          *)
(***************************************************************************)
EXTENDS BlockEngine, TLAPS

\* A message is held only while it is being sent.
HeldWhileSent == pc # "send" => sending = Heartbeat

\* The batches on their way are in order: those sent, the one held, those queued.
QueueInOrder ==
  /\ \A i, j \in DOMAIN block_engine : i < j => block_engine[i] < block_engine[j]
  /\ \A i \in DOMAIN block_engine : block_engine[i] <= offered

HeldInOrder ==
  sending # Heartbeat =>
    /\ sending.batch <= offered
    /\ \A j \in DOMAIN block_engine : sending.batch < block_engine[j]

LogInOrder ==
  \A i \in DOMAIN log :
    /\ log[i].batch <= offered
    /\ \A j \in DOMAIN block_engine : log[i].batch < block_engine[j]
    /\ sending # Heartbeat => log[i].batch < sending.batch

\* In a session, what is held or queued was offered in it.
OfferedInSession ==
  /\ Streaming => \A i \in DOMAIN block_engine : block_engine[i] \in fresh
  /\ sending # Heartbeat => sending.batch \in fresh

\* In a session, what the caches hold was asked for in it.
AskedInSession ==
  Streaming => /\ Cached(accounts_of_interest) \subseteq wanted
               /\ Cached(programs_of_interest) \subseteq wanted
               /\ forward_all => "*" \in wanted

\* A packet that may be sent to an engine that wants w.
MaySend(p, w) ==
  /\ ~p.discard /\ p.parses
  /\ Mentioned(p.tx) \cap Ofac = {}
  /\ (Mentioned(p.tx) \cup {"*"}) \cap w # {}

HeldIsAsked ==
  sending # Heartbeat => \A i \in sending.packets : MaySend(Content[sending.batch][i], wanted)

IInv ==
  /\ TypeOK /\ HeldWhileSent
  /\ QueueInOrder /\ HeldInOrder /\ LogInOrder /\ SentInOrderOnce
  /\ OfferedInSession /\ AskedInSession /\ HeldIsAsked
  /\ StatusTruthful

-----------------------------------------------------------------------------
(* Types.                                                                  *)

\* The constants one by one.
LEMMA Numbers ==
  /\ QueueCapacity \in Nat \ {0} /\ StreamCapacity \in Nat \ {0}
  /\ ResponseTimeout \in Nat \ {0} /\ SendTimeout \in Nat \ {0} /\ RetryDelay \in Nat \ {0}
  /\ Ttl \in Nat \ {0} /\ Margin \in Nat \ {0} /\ CallLag \in Nat \ {0}
  /\ \A k \in Timer : Period[k] \in Nat \ {0}
  /\ LongestWait \in Nat /\ LongestSilence \in Nat
<1>1. /\ {QueueCapacity, StreamCapacity, ResponseTimeout, SendTimeout, RetryDelay, Ttl, Margin,
          CallLag} \subseteq Nat \ {0}
      /\ Period \in [Timer -> Nat \ {0}]
  BY BlockEngineAssumption
<1>2. /\ QueueCapacity \in Nat \ {0} /\ StreamCapacity \in Nat \ {0}
      /\ ResponseTimeout \in Nat \ {0} /\ SendTimeout \in Nat \ {0} /\ RetryDelay \in Nat \ {0}
      /\ Ttl \in Nat \ {0} /\ Margin \in Nat \ {0} /\ CallLag \in Nat \ {0}
  BY <1>1
<1>3. \A k \in Timer : Period[k] \in Nat \ {0}
  BY <1>1
<1>4. Period["metrics"] \in Nat
  BY <1>3 DEF Timer
<1> QED
  BY <1>2, <1>3, <1>4 DEF LongestWait, LongestSilence

\* The parts of TypeOK that steps change separately.
ControlOK ==
  /\ pc \in {"top", "auth", "connect", "drain", "select", "send", "reauth", "refresh",
             "failed", "closed", "sleep", "exited", "panicked"}
  /\ waited \in 0 .. LongestWait
FlagsOK ==
  /\ exit \in BOOLEAN /\ connected \in BOOLEAN /\ forward_all \in BOOLEAN /\ replies \in BOOLEAN
  /\ engine \in {"prompt", "stalled", "resumed"} /\ cause \in {"none", "error", "timeout"}
ClocksOK ==
  /\ {access, refresh} \subseteq Nat \cup {NoExpiry}
  /\ timer \in [Timer -> Int] /\ \A k \in Timer : timer[k] \in -LongestWait .. Period[k]
  /\ silence \in 0 .. LongestSilence
  /\ {accounts_of_interest, programs_of_interest} \subseteq [Key -> 0 .. Ttl]
QueuesOK ==
  /\ sending \in Message \cup {Heartbeat}
  /\ stream \in Seq(Batch \cup {0}) /\ Len(stream) <= StreamCapacity
  /\ block_engine \in Seq(Batch) /\ Len(block_engine) <= QueueCapacity
  /\ offered \in 0 .. Len(Content)
  /\ fresh \subseteq Batch /\ wanted \subseteq Key \cup {"*"}
  /\ log \in Seq(Message)

\* They are all of it.
LEMMA TypeParts ==
  /\ TypeOK <=> ControlOK /\ FlagsOK /\ ClocksOK /\ QueuesOK
  /\ TypeOK' <=> ControlOK' /\ FlagsOK' /\ ClocksOK' /\ QueuesOK'
  BY Zenon DEF TypeOK, ControlOK, FlagsOK, ClocksOK, QueuesOK

\* Every await starts its own clock.
LEMMA AwaitControl ==
  ASSUME NEW l \in {"top", "auth", "connect", "drain", "select", "send", "reauth", "refresh",
                    "failed", "closed", "sleep", "exited", "panicked"}, Await(l)
  PROVE  ControlOK'
  BY Numbers DEF Await, ControlOK

\* The loop goes on or ends.
LEMMA ContinueControl ==
  ASSUME Continue
  PROVE  ControlOK' /\ pc' \in {"closed", "select"} /\ waited' = 0
  BY AwaitControl DEF Continue, Await

controlVars == <<pc, waited>>
flagVars == <<exit, connected, forward_all, replies, engine, cause>>
clockVars == <<access, refresh, timer, silence, accounts_of_interest, programs_of_interest>>
queueVars == <<sending, stream, block_engine, offered, fresh, wanted, log>>

\* A part whose variables do not change keeps its type.
LEMMA PartsKept ==
  /\ ControlOK /\ UNCHANGED controlVars => ControlOK'
  /\ FlagsOK /\ UNCHANGED flagVars => FlagsOK'
  /\ ClocksOK /\ UNCHANGED clockVars => ClocksOK'
  /\ QueuesOK /\ UNCHANGED queueVars => QueuesOK'
<1>1. ControlOK /\ UNCHANGED controlVars => ControlOK'
  BY DEF controlVars, ControlOK
<1>2. FlagsOK /\ UNCHANGED flagVars => FlagsOK'
  BY DEF flagVars, FlagsOK
<1>3. ClocksOK /\ UNCHANGED clockVars => ClocksOK'
  BY DEF clockVars, ClocksOK
<1>4. QueuesOK /\ UNCHANGED queueVars => QueuesOK'
  BY DEF queueVars, QueuesOK
<1> QED
  BY <1>1, <1>2, <1>3, <1>4

\* The intervals, the caches and the tokens as a session starts or is over.
LEMMA ClocksReset ==
  /\ [k \in Timer |-> 0] \in [Timer -> Int]
  /\ \A k \in Timer : [j \in Timer |-> 0][k] \in -LongestWait .. Period[k]
  /\ 0 \in 0 .. LongestSilence
  /\ NoInterest \in [Key -> 0 .. Ttl]
  BY Numbers DEF NoInterest

\* The end of a session.
LEMMA ReturnTypes ==
  ASSUME TypeOK, Return("failed", "error") \/ Return("failed", "timeout")
  PROVE  TypeOK'
<1>0. ControlOK /\ FlagsOK /\ ClocksOK /\ QueuesOK
  BY TypeParts
<1>1. ControlOK'
  BY AwaitControl DEF Return
<1>2. FlagsOK'
  BY <1>0, Zenon DEF Return, FlagsOK, caches
<1>3. ClocksOK'
  BY <1>0, ClocksReset DEF Return, ClocksOK, caches
<1>4. QueuesOK'
  <2>0. stream' = <<>>
    BY DEF Return
  <2>1. stream' \in Seq(Batch \cup {0}) /\ Len(stream') <= StreamCapacity
    BY <2>0, Numbers
  <2> QED
    BY <1>0, <2>1 DEF Return, QueuesOK, caches, feed
<1> QED
  BY <1>1, <1>2, <1>3, <1>4, TypeParts

\* A panic sets the flag and nothing else.
LEMMA PanicTypes ==
  ASSUME TypeOK, Panic
  PROVE  TypeOK'
<1>0. ControlOK /\ FlagsOK /\ ClocksOK /\ QueuesOK
  BY TypeParts
<1>1. ControlOK'
  BY AwaitControl DEF Panic
<1>2. FlagsOK'
  BY <1>0 DEF Panic, FlagsOK, caches, link
<1>3. ClocksOK' /\ QueuesOK'
  BY <1>0, PartsKept DEF Panic, clockVars, queueVars, tokens, caches, link, feed
<1> QED
  BY <1>1, <1>2, <1>3, TypeParts

\* The steps that only move the thread.
LEMMA MoveTypes ==
  ASSUME TypeOK, ControlOK', UNCHANGED <<clockVars, queueVars>>,
         UNCHANGED <<forward_all, replies>>,
         exit' \in {exit, TRUE}, connected' \in {connected, FALSE},
         engine' \in {engine, "stalled", "resumed"}, cause' \in {cause, "none"}
  PROVE  TypeOK'
<1>0. ControlOK /\ FlagsOK /\ ClocksOK /\ QueuesOK
  BY TypeParts
<1>1. FlagsOK'
  BY <1>0, Zenon DEF FlagsOK
<1> QED
  BY <1>0, <1>1, PartsKept, TypeParts

\* A message taken from a queue leaves a queue.
LEMMA TailFits ==
  ASSUME NEW S, NEW q \in Seq(S), q # <<>>, NEW n \in Nat, Len(q) <= n
  PROVE  Tail(q) \in Seq(S) /\ Len(Tail(q)) <= n /\ Head(q) \in S
  OBVIOUS

\* A message put on a queue with room leaves a queue.
LEMMA AppendFits ==
  ASSUME NEW S, NEW q \in Seq(S), NEW e \in S, NEW n \in Nat, Len(q) < n
  PROVE  Append(q, e) \in Seq(S) /\ Len(Append(q, e)) <= n
  OBVIOUS

\* An interval that ticks moves by its period.
LEMMA TicksTypes ==
  ASSUME ClocksOK, NEW k \in Timer, Ticks(k)
  PROVE  timer' \in [Timer -> Int] /\ \A j \in Timer : timer'[j] \in -LongestWait .. Period[j]
<1>1. timer[k] + Period[k] \in -LongestWait .. Period[k]
  BY Numbers DEF ClocksOK, Ticks
<1>2. timer[k] + Period[k] \in Int
  BY <1>1, Numbers
<1> QED
  BY <1>1, <1>2 DEF ClocksOK, Ticks

\* What filter_packets keeps of the batch at the head of the queue.
KeptOfHead ==
  filter_packets(Content[Head(block_engine)], Cached(accounts_of_interest),
                 Cached(programs_of_interest), Ofac, Tables, forward_all)

\* What RecvBatch does with it.
LEMMA Received ==
  ASSUME RecvBatch
  PROVE  /\ pc = "select" /\ block_engine # <<>> /\ block_engine' = Tail(block_engine)
         /\ UNCHANGED <<offered, fresh, log, wanted>>
         /\ \/ sending' = sending
            \/ /\ sending' = [batch |-> Head(block_engine), packets |-> KeptOfHead]
               /\ sending' # Heartbeat /\ KeptOfHead # {}
               /\ sending'.batch = Head(block_engine) /\ sending'.packets = KeptOfHead
<1>1. /\ pc = "select" /\ block_engine # <<>> /\ block_engine' = Tail(block_engine)
      /\ UNCHANGED <<offered, fresh, log, wanted>>
  BY DEF RecvBatch, Rest, caches
<1>2. \/ sending' = sending
      \/ /\ KeptOfHead # {}
         /\ sending' = [batch |-> Head(block_engine), packets |-> KeptOfHead]
  BY DEF RecvBatch, KeptOfHead
<1>3. ASSUME NEW n, NEW kept, kept # {}
      PROVE  /\ [batch |-> n, packets |-> kept] # Heartbeat
             /\ [batch |-> n, packets |-> kept].batch = n
             /\ [batch |-> n, packets |-> kept].packets = kept
  <2>1. /\ [batch |-> n, packets |-> kept].batch = n
        /\ [batch |-> n, packets |-> kept].packets = kept
    OBVIOUS
  <2>2. Heartbeat.packets = {}
    BY DEF Heartbeat
  <2> QED
    BY <1>3, <2>1, <2>2
<1> QED
  BY <1>1, <1>2, <1>3

\* What filter_packets keeps of a batch is a message.
LEMMA KeptIsMessage ==
  ASSUME Head(block_engine) \in Batch
  PROVE  [batch |-> Head(block_engine), packets |-> KeptOfHead] \in Message
<1>1. KeptOfHead \subseteq DOMAIN Content[Head(block_engine)]
  BY DEF KeptOfHead, filter_packets
<1>2. DOMAIN Content[Head(block_engine)] \subseteq Nat
  BY BlockEngineAssumption
<1> QED
  BY <1>1, <1>2 DEF Message

\* The steps of a session with its streams.
LEMMA StreamTypes ==
  ASSUME TypeOK,
         \/ DrainBatch \/ StartStreaming \/ RecvReply \/ SendHeartbeat
         \/ RecvBatch \/ SendDone \/ Offer \/ EngineReads
  PROVE  TypeOK'
<1>0. ControlOK /\ FlagsOK /\ ClocksOK /\ QueuesOK
  BY TypeParts
<1> USE DEF tokens, caches, link, feed, controlVars, flagVars, clockVars, queueVars
<1>1. CASE DrainBatch
  <2>1. block_engine' \in Seq(Batch) /\ Len(block_engine') <= QueueCapacity
    BY <1>0, <1>1, TailFits, Numbers DEF DrainBatch, Rest, QueuesOK
  <2>2. QueuesOK'
    BY <1>0, <1>1, <2>1 DEF DrainBatch, QueuesOK
  <2> QED
    BY <1>0, <1>1, <2>2, PartsKept, TypeParts DEF DrainBatch
<1>2. CASE StartStreaming
  <2>1. ControlOK'
    BY <1>2, ContinueControl DEF StartStreaming
  <2>2. FlagsOK'
    BY <1>0, <1>2, Zenon DEF StartStreaming, ForgetInterest, FlagsOK
  <2>3. ClocksOK'
    BY <1>0, <1>2, ClocksReset DEF StartStreaming, ForgetInterest, ClocksOK
  <2>4. QueuesOK'
    BY <1>0, <1>2 DEF StartStreaming, QueuesOK
  <2> QED
    BY <2>1, <2>2, <2>3, <2>4, TypeParts
<1>3. CASE RecvReply
  <2>1. ControlOK'
    BY <1>3, ContinueControl DEF RecvReply
  <2>2. FlagsOK'
    BY <1>0, <1>3, Zenon DEF RecvReply, FlagsOK
  <2>3. ClocksOK'
    BY <1>0, <1>3, ClocksReset DEF RecvReply, ClocksOK
  <2> QED
    BY <1>0, <1>3, <2>1, <2>2, <2>3, PartsKept, TypeParts DEF RecvReply
<1>4. CASE SendHeartbeat
  <2>1. ControlOK'
    BY <1>4, AwaitControl DEF SendHeartbeat
  <2>2. timer' \in [Timer -> Int] /\ \A j \in Timer : timer'[j] \in -LongestWait .. Period[j]
    BY <1>0, <1>4, TicksTypes DEF SendHeartbeat, Timer
  <2>3. ClocksOK'
    BY <1>0, <1>4, <2>2 DEF SendHeartbeat, ClocksOK
  <2>4. QueuesOK'
    BY <1>0, <1>4 DEF SendHeartbeat, QueuesOK
  <2> QED
    BY <1>0, <1>4, <2>1, <2>3, <2>4, PartsKept, TypeParts DEF SendHeartbeat
<1>5. CASE RecvBatch
  <2>1. ControlOK'
    BY <1>5, ContinueControl, AwaitControl, Zenon DEF RecvBatch
  <2>2. /\ block_engine' \in Seq(Batch) /\ Len(block_engine') <= QueueCapacity
        /\ Head(block_engine) \in Batch
    BY <1>0, <1>5, TailFits, Numbers, Zenon DEF RecvBatch, Rest, QueuesOK
  <2>3. sending' \in Message \cup {Heartbeat}
    <3>1. sending \in Message \cup {Heartbeat}
      BY <1>0 DEF QueuesOK
    <3> QED
      BY <1>5, <2>2, <3>1, KeptIsMessage, Received
  <2>4. QueuesOK'
    BY <1>0, <1>5, <2>2, <2>3, Zenon DEF RecvBatch, QueuesOK
  <2> QED
    BY <1>0, <1>5, <2>1, <2>4, PartsKept, TypeParts, Zenon DEF RecvBatch
<1>6. CASE SendDone
  <2>1. ControlOK'
    BY <1>6, ContinueControl DEF SendDone
  <2>2. sending.batch \in Batch \cup {0}
    BY <1>0 DEF QueuesOK, Message, Heartbeat
  <2>3. stream' \in Seq(Batch \cup {0}) /\ Len(stream') <= StreamCapacity
    BY <1>0, <1>6, <2>2, AppendFits, Numbers DEF SendDone, Room, QueuesOK
  <2>4. log' \in Seq(Message)
    <3>1. log' = log \/ (sending \in Message /\ log' = Append(log, sending))
      BY <1>0, <1>6 DEF SendDone, QueuesOK
    <3>2. log \in Seq(Message)
      BY <1>0 DEF QueuesOK
    <3> QED
      BY <3>1, <3>2
  <2>5. QueuesOK'
    BY <1>0, <1>6, <2>3, <2>4 DEF SendDone, QueuesOK
  <2> QED
    BY <1>0, <1>6, <2>1, <2>5, PartsKept, TypeParts DEF SendDone
<1>7. CASE Offer
  <2>1. offered + 1 \in Batch /\ offered' \in 0 .. Len(Content)
    BY <1>0, <1>7, BlockEngineAssumption, SMTT(30) DEF Offer, QueuesOK, Batch
  <2>2. block_engine' \in Seq(Batch) /\ Len(block_engine') <= QueueCapacity
    BY <1>0, <1>7, <2>1, AppendFits, Numbers DEF Offer, QueuesOK
  <2>3. QueuesOK'
    BY <1>0, <1>7, <2>1, <2>2 DEF Offer, QueuesOK
  <2> QED
    BY <1>0, <1>7, <2>3, PartsKept, TypeParts DEF Offer
<1>8. CASE EngineReads
  <2>1. stream' \in Seq(Batch \cup {0}) /\ Len(stream') <= StreamCapacity
    BY <1>0, <1>8, TailFits, Numbers DEF EngineReads, QueuesOK
  <2>2. QueuesOK'
    BY <1>0, <1>8, <2>1 DEF EngineReads, QueuesOK
  <2>3. replies' \in BOOLEAN
    BY <1>0, <1>8 DEF EngineReads, FlagsOK
  <2>4. FlagsOK'
    BY <1>0, <1>8, <2>3 DEF EngineReads, FlagsOK
  <2> QED
    BY <1>0, <1>8, <2>2, <2>4, PartsKept, TypeParts DEF EngineReads
<1> QED
  BY <1>1, <1>2, <1>3, <1>4, <1>5, <1>6, <1>7, <1>8

\* Interest that is announced enters the caches with the whole time to live.
LEMMA InterestTypes ==
  ASSUME TypeOK, Interest
  PROVE  TypeOK'
<1>0. ControlOK /\ FlagsOK /\ ClocksOK /\ QueuesOK
  BY TypeParts
<1>1. PICK keys \in SUBSET Key, star \in BOOLEAN : handle_aoi(keys, star) \/ handle_poi(keys, star)
  BY DEF Interest
<1>2. HandleUpdate(keys, star)
  BY <1>1 DEF handle_aoi, handle_poi
<1>3. ControlOK'
  BY <1>2, ContinueControl DEF HandleUpdate
<1>4. forward_all' \in BOOLEAN
  BY <1>0, <1>2 DEF HandleUpdate, FlagsOK
<1>5. FlagsOK'
  BY <1>0, <1>2, <1>4 DEF HandleUpdate, FlagsOK, link
<1>6. ASSUME NEW cache \in [Key -> 0 .. Ttl]
      PROVE  Renew(cache, keys) \in [Key -> 0 .. Ttl]
  BY Numbers DEF Renew
<1>7. /\ accounts_of_interest' \in {accounts_of_interest, Renew(accounts_of_interest, keys)}
      /\ programs_of_interest' \in {programs_of_interest, Renew(programs_of_interest, keys)}
  BY <1>1 DEF handle_aoi, handle_poi
<1>8. ClocksOK'
  BY <1>0, <1>2, <1>6, <1>7 DEF HandleUpdate, ClocksOK, tokens
<1>9. QueuesOK'
  BY <1>0, <1>2 DEF HandleUpdate, QueuesOK, link, feed
<1> QED
  BY <1>3, <1>5, <1>8, <1>9, TypeParts

\* New tokens are taken as they come.
LEMMA ReplyTypes ==
  ASSUME TypeOK, Reply
  PROVE  TypeOK'
<1>0. ControlOK /\ FlagsOK /\ ClocksOK /\ QueuesOK
  BY TypeParts
<1> USE DEF tokens, caches, link, feed, controlVars, flagVars, clockVars, queueVars
<1>1. CASE ConnectReply
  <2>1. ControlOK'
    BY <1>1, AwaitControl DEF ConnectReply
  <2> QED
    BY <1>0, <1>1, <2>1, PartsKept, TypeParts DEF ConnectReply
<1>2. ASSUME {access', refresh'} \subseteq Lifetime \cup {access, refresh}, ControlOK',
             UNCHANGED <<timer, silence, accounts_of_interest, programs_of_interest, flagVars, queueVars>>
      PROVE  TypeOK'
  <2>1. {access', refresh'} \subseteq Nat \cup {NoExpiry}
    BY <1>0, <1>2, BlockEngineAssumption, Zenon DEF ClocksOK
  <2>2. ClocksOK'
    BY <1>0, <1>2, <2>1 DEF ClocksOK
  <2> QED
    BY <1>0, <1>2, <2>2, PartsKept, TypeParts
<1>3. ASSUME NEW a \in Lifetime, RefreshReply(a) PROVE TypeOK'
  BY <1>2, <1>3, ContinueControl DEF RefreshReply
<1>4. ASSUME NEW a \in Lifetime, NEW r \in Lifetime, AuthReply(a, r) PROVE TypeOK'
  <2>1. CASE Return("failed", "error") \/ Panic
    BY <2>1, ReturnTypes, PanicTypes
  <2>2. CASE ~(Return("failed", "error") \/ Panic)
    <3>1. ControlOK'
      BY <1>4, <2>2, AwaitControl DEF AuthReply
    <3> QED
      BY <1>2, <1>4, <2>2, <3>1 DEF AuthReply
  <2> QED
    BY <2>1, <2>2
<1>5. ASSUME NEW a \in Lifetime, NEW r \in Lifetime, ReauthReply(a, r) PROVE TypeOK'
  <2>1. CASE Return("failed", "error")
    BY <2>1, ReturnTypes
  <2>2. CASE ~Return("failed", "error")
    <3>1. ControlOK'
      BY <1>5, <2>2, ContinueControl DEF ReauthReply
    <3> QED
      BY <1>2, <1>5, <2>2, <3>1 DEF ReauthReply
  <2> QED
    BY <2>1, <2>2
<1> QED
  BY <1>1, <1>3, <1>4, <1>5 DEF Reply

\* The ticks of the metrics and auth intervals.
LEMMA IntervalTypes ==
  ASSUME TypeOK, AuthTick \/ MetricsTick
  PROVE  TypeOK'
<1>0. ControlOK /\ FlagsOK /\ ClocksOK /\ QueuesOK
  BY TypeParts
<1>1. CASE Return("failed", "timeout")
  BY <1>1, ReturnTypes
<1>2. CASE ~Return("failed", "timeout")
  <2>1. PICK k \in Timer : Ticks(k)
    BY <1>2 DEF AuthTick, MetricsTick, Timer
  <2>2. ControlOK'
    BY <1>2, AwaitControl, ContinueControl DEF AuthTick, MetricsTick
  <2>3. timer' \in [Timer -> Int] /\ \A j \in Timer : timer'[j] \in -LongestWait .. Period[j]
    BY <1>0, <2>1, TicksTypes
  <2>4. /\ exit' \in {exit, TRUE}
        /\ UNCHANGED <<connected, tokens, silence, caches, sending, link, feed, cause, log>>
    BY <1>2, Zenon DEF AuthTick, MetricsTick
  <2>5. FlagsOK'
    BY <1>0, <2>4, Zenon DEF FlagsOK, caches, link
  <2>6. ClocksOK'
    BY <1>0, <2>3, <2>4 DEF ClocksOK, tokens, caches
  <2>7. QueuesOK'
    BY <1>0, <2>4, PartsKept DEF queueVars, caches, link, feed
  <2> QED
    BY <2>2, <2>5, <2>6, <2>7, TypeParts
<1> QED
  BY <1>1, <1>2

\* Time that passes.
LEMMA TimeTypes ==
  ASSUME TypeOK, Tick
  PROVE  TypeOK'
<1>0. ControlOK /\ FlagsOK /\ ClocksOK /\ QueuesOK
  BY TypeParts
<1>1. waited' \in 0 .. LongestWait
  BY <1>0, Numbers, SMTT(30) DEF Tick, ControlOK
<1>2. ControlOK'
  BY <1>0, <1>1 DEF Tick, ControlOK
<1>3. {access', refresh'} \subseteq Nat \cup {NoExpiry}
  BY <1>0, SMTT(30) DEF Tick, ClocksOK, Down, NoExpiry
<1>4. timer' \in [Timer -> Int] /\ \A k \in Timer : timer'[k] \in -LongestWait .. Period[k]
  <2>1. CASE timer' = timer
    BY <1>0, <2>1 DEF ClocksOK
  <2>2. CASE timer' = [k \in Timer |-> IF timer[k] > -LongestWait THEN timer[k] - 1 ELSE timer[k]]
    <3>1. ASSUME NEW k \in Timer
          PROVE  timer'[k] \in Int /\ timer'[k] \in -LongestWait .. Period[k]
      <4>1. timer[k] \in -LongestWait .. Period[k] /\ LongestWait \in Nat /\ Period[k] \in Nat
        BY <1>0, Numbers DEF ClocksOK
      <4>2. timer'[k] = IF timer[k] > -LongestWait THEN timer[k] - 1 ELSE timer[k]
        BY <2>2
      <4> QED
        BY <4>1, <4>2, SMTT(30)
    <3>2. timer' \in [Timer -> Int]
      BY <2>2, <3>1
    <3> QED
      BY <3>1, <3>2
  <2> QED
    BY <2>1, <2>2 DEF Tick
<1>5. silence' \in 0 .. LongestSilence
  BY <1>0, Numbers, SMTT(30) DEF Tick, ClocksOK
<1>6. ASSUME NEW cache \in [Key -> 0 .. Ttl]
      PROVE  [k \in Key |-> Down(cache[k])] \in [Key -> 0 .. Ttl]
  BY Numbers DEF Down
<1>7. {accounts_of_interest', programs_of_interest'} \subseteq [Key -> 0 .. Ttl]
  <2>1. {accounts_of_interest, programs_of_interest} \subseteq [Key -> 0 .. Ttl]
    BY <1>0 DEF ClocksOK
  <2>2. \/ UNCHANGED <<accounts_of_interest, programs_of_interest>>
        \/ /\ accounts_of_interest' = [k \in Key |-> Down(accounts_of_interest[k])]
           /\ programs_of_interest' = [k \in Key |-> Down(programs_of_interest[k])]
    BY DEF Tick
  <2>3. accounts_of_interest' \in [Key -> 0 .. Ttl]
    BY <1>6, <2>1, <2>2
  <2>4. programs_of_interest' \in [Key -> 0 .. Ttl]
    BY <1>6, <2>1, <2>2
  <2> QED
    BY <2>3, <2>4
<1>8. ClocksOK'
  BY <1>3, <1>4, <1>5, <1>7 DEF ClocksOK
<1>9. FlagsOK' /\ QueuesOK'
  BY <1>0, PartsKept DEF Tick, flagVars, queueVars, link, feed
<1> QED
  BY <1>2, <1>8, <1>9, TypeParts

\* The first state has its type.
LEMMA InitTypes ==
  ASSUME Init
  PROVE  TypeOK
<1>1. ControlOK
  BY Numbers DEF Init, ControlOK
<1>2. FlagsOK
  BY Zenon DEF Init, FlagsOK
<1>3. ClocksOK
  BY ClocksReset DEF Init, ClocksOK
<1>4. QueuesOK
  <2>1. /\ stream \in Seq(Batch \cup {0}) /\ Len(stream) <= StreamCapacity
        /\ block_engine \in Seq(Batch) /\ Len(block_engine) <= QueueCapacity
        /\ log \in Seq(Message)
    BY Numbers DEF Init
  <2>2. offered \in 0 .. Len(Content)
    BY BlockEngineAssumption, SMTT(30) DEF Init
  <2> QED
    BY <2>1, <2>2 DEF Init, QueuesOK
<1> QED
  BY <1>1, <1>2, <1>3, <1>4, TypeParts

\* Every step keeps it.
LEMMA NextTypes ==
  ASSUME TypeOK, [Next]_vars
  PROVE  TypeOK'
<1>0. ControlOK /\ FlagsOK /\ ClocksOK /\ QueuesOK
  BY TypeParts
<1>1. CASE LoopTop \/ SessionOver \/ Wake
  <2>1. ControlOK'
    BY <1>1, AwaitControl DEF LoopTop, SessionOver, Wake
  <2>2. /\ connected' \in {connected, FALSE} /\ cause' \in {cause, "none"}
        /\ UNCHANGED <<exit, tokens, timer, silence, caches, sending, link, feed, log>>
    BY <1>1, Zenon DEF LoopTop, SessionOver, Wake
  <2> QED
    BY <2>1, <2>2, MoveTypes, Zenon DEF clockVars, queueVars, tokens, caches, link, feed
<1>2. CASE \/ SetupFails \/ StreamEnds \/ RecvDisconnected \/ SendTimesOut \/ SendClosed
           \/ RefreshFails
  BY <1>2, ReturnTypes
     DEF SetupFails, StreamEnds, RecvDisconnected, SendTimesOut, SendClosed, RefreshFails
<1>3. CASE \/ DrainBatch \/ StartStreaming \/ RecvReply \/ SendHeartbeat
           \/ RecvBatch \/ SendDone \/ Offer \/ EngineReads
  BY <1>3, StreamTypes
<1>4. CASE Interest
  BY <1>4, InterestTypes
<1>5. CASE AuthTick \/ MetricsTick
  BY <1>5, IntervalTypes
<1>6. CASE Reply
  BY <1>6, ReplyTypes
<1>7. CASE EngineStalls \/ SignalExit
  <2>1. /\ exit' \in {exit, TRUE} /\ engine' \in {engine, "stalled", "resumed"}
        /\ UNCHANGED <<pc, waited, connected, tokens, timer, silence, caches, sending, stream,
                       replies, feed, cause, log>>
    BY <1>7, Zenon DEF EngineStalls, SignalExit, link
  <2>2. ControlOK'
    BY <1>0, <2>1, PartsKept DEF controlVars
  <2> QED
    BY <2>1, <2>2, MoveTypes, Zenon DEF clockVars, queueVars, tokens, caches, feed
<1>8. CASE Tick
  BY <1>8, TimeTypes
<1>9. CASE UNCHANGED vars
  BY <1>0, <1>9, PartsKept, TypeParts
     DEF vars, tokens, caches, link, feed, controlVars, flagVars, clockVars, queueVars
<1> QED
  BY <1>1, <1>2, <1>3, <1>4, <1>5, <1>6, <1>7, <1>8, <1>9 DEF Next

-----------------------------------------------------------------------------
(* The order of the batches.                                               *)

Order == QueueInOrder /\ HeldInOrder /\ LogInOrder /\ SentInOrderOnce

\* What a step does to the batches on their way.
batchVars == <<sending, block_engine, offered, log>>
LetsGo == sending' = Heartbeat /\ UNCHANGED <<block_engine, offered, log>>

\* A step that lets go of the message it holds keeps the order.
LEMMA LetsGoOrder ==
  ASSUME Order, LetsGo \/ UNCHANGED batchVars
  PROVE  Order'
<1>1. CASE LetsGo
  BY <1>1, Zenon DEF LetsGo, Order, QueueInOrder, HeldInOrder, LogInOrder, SentInOrderOnce
<1>2. CASE UNCHANGED batchVars
  BY <1>2, Zenon DEF batchVars, Order, QueueInOrder, HeldInOrder, LogInOrder, SentInOrderOnce
<1> QED
  BY <1>1, <1>2

\* The batches behind the head of the queue.
LEMMA TailOrder ==
  ASSUME TypeOK, QueueInOrder, block_engine # <<>>
  PROVE  /\ 1 \in DOMAIN block_engine /\ Head(block_engine) = block_engine[1]
         /\ \A i \in DOMAIN Tail(block_engine) :
              /\ i + 1 \in DOMAIN block_engine
              /\ Tail(block_engine)[i] = block_engine[i + 1]
              /\ block_engine[1] < Tail(block_engine)[i]
         /\ \A i, j \in DOMAIN Tail(block_engine) :
              i < j => Tail(block_engine)[i] < Tail(block_engine)[j]
<1>1. block_engine \in Seq(Batch)
  BY TypeParts DEF QueuesOK
<1>2. /\ Len(block_engine) \in Nat \ {0} /\ DOMAIN block_engine = 1 .. Len(block_engine)
      /\ Head(block_engine) = block_engine[1]
      /\ DOMAIN Tail(block_engine) = 1 .. Len(block_engine) - 1
      /\ \A i \in 1 .. Len(block_engine) - 1 : Tail(block_engine)[i] = block_engine[i + 1]
  BY <1>1
<1>3. \A i, j \in 1 .. Len(block_engine) : i < j => block_engine[i] < block_engine[j]
  BY <1>2 DEF QueueInOrder
<1>4. \A i \in 1 .. Len(block_engine) - 1 :
        i \in Nat /\ i + 1 \in 1 .. Len(block_engine) /\ 1 < i + 1
  BY <1>2
<1>5. 1 \in 1 .. Len(block_engine)
  BY <1>2
<1>6. \A i \in 1 .. Len(block_engine) - 1 : block_engine[1] < Tail(block_engine)[i]
  BY <1>2, <1>3, <1>4, <1>5
<1>7. \A i, j \in 1 .. Len(block_engine) - 1 :
        i < j => Tail(block_engine)[i] < Tail(block_engine)[j]
  <2>1. \A i, j \in 1 .. Len(block_engine) - 1 : i < j => i + 1 < j + 1
    BY <1>2
  <2> QED
    BY <2>1, <1>2, <1>3, <1>4
<1> QED
  BY <1>2, <1>4, <1>5, <1>6, <1>7

\* A batch leaves the queue, to be dropped or to be held.
LEMMA TakeOrder ==
  ASSUME TypeOK, Order, HeldWhileSent, DrainBatch \/ RecvBatch
  PROVE  Order'
<1>0. /\ block_engine # <<>> /\ block_engine' = Tail(block_engine)
      /\ UNCHANGED <<offered, log>> /\ sending = Heartbeat
  BY Received DEF DrainBatch, Rest, HeldWhileSent
<1> DEFINE n == Head(block_engine)
<1>1. sending' = Heartbeat \/ (sending' # Heartbeat /\ sending'.batch = n)
  BY <1>0, Received DEF DrainBatch
<1>2. /\ 1 \in DOMAIN block_engine /\ n = block_engine[1]
      /\ \A i \in DOMAIN block_engine' :
           /\ i + 1 \in DOMAIN block_engine
           /\ block_engine'[i] = block_engine[i + 1]
           /\ n < block_engine'[i]
      /\ \A i, j \in DOMAIN block_engine' : i < j => block_engine'[i] < block_engine'[j]
  BY <1>0, TailOrder DEF Order
<1> HIDE DEF n
<1>3. QueueInOrder'
  BY <1>0, <1>2 DEF Order, QueueInOrder
<1>4. HeldInOrder'
  BY <1>0, <1>1, <1>2 DEF Order, HeldInOrder, QueueInOrder
<1>5. LogInOrder'
  BY <1>0, <1>1, <1>2 DEF Order, LogInOrder
<1>6. SentInOrderOnce'
  BY <1>0 DEF Order, SentInOrderOnce
<1> QED
  BY <1>3, <1>4, <1>5, <1>6 DEF Order

\* What a sequence holds after an Append.
LEMMA Appended ==
  ASSUME NEW S, NEW q \in Seq(S), NEW e \in S
  PROVE  /\ Len(q) \in Nat
         /\ DOMAIN q = 1 .. Len(q) /\ DOMAIN Append(q, e) = 1 .. Len(q) + 1
         /\ \A i \in 1 .. Len(q) : Append(q, e)[i] = q[i]
         /\ Append(q, e)[Len(q) + 1] = e
         /\ Len(Append(q, e)) = Len(q) + 1
  OBVIOUS

\* What SendDone does to the log.
LEMMA LogAppended ==
  ASSUME TypeOK, SendDone, sending # Heartbeat
  PROVE  /\ Len(log) \in Nat /\ Len(log') = Len(log) + 1
         /\ DOMAIN log = 1 .. Len(log) /\ DOMAIN log' = 1 .. Len(log) + 1
         /\ \A i \in 1 .. Len(log) : log'[i] = log[i] /\ log[i].batch \in Batch
         /\ log'[Len(log) + 1] = sending
         /\ sending \in Message /\ sending.batch \in Batch
<1>1. log \in Seq(Message) /\ sending \in Message
  BY TypeParts DEF QueuesOK
<1>2. log' = Append(log, sending)
  BY DEF SendDone
<1>3. \A m \in Message : m.batch \in Batch
  BY DEF Message
<1>4. \A i \in 1 .. Len(log) : log[i] \in Message
  BY <1>1
<1>5. /\ Len(log) \in Nat /\ Len(log') = Len(log) + 1
      /\ DOMAIN log = 1 .. Len(log) /\ DOMAIN log' = 1 .. Len(log) + 1
      /\ \A i \in 1 .. Len(log) : log'[i] = log[i]
      /\ log'[Len(log) + 1] = sending
  <2>1. /\ Len(log) \in Nat /\ Len(Append(log, sending)) = Len(log) + 1
        /\ DOMAIN log = 1 .. Len(log) /\ DOMAIN Append(log, sending) = 1 .. Len(log) + 1
        /\ \A i \in 1 .. Len(log) : Append(log, sending)[i] = log[i]
        /\ Append(log, sending)[Len(log) + 1] = sending
    BY <1>1, Appended, SMTT(30)
  <2> QED
    BY <1>2, <2>1, Zenon
<1>6. \A i \in 1 .. Len(log) : log[i].batch \in Batch
  BY <1>3, <1>4
<1>7. sending.batch \in Batch
  BY <1>1, <1>3
<1> QED
  BY <1>1, <1>5, <1>6, <1>7, Zenon

\* The message held goes to the end of the log.
LEMMA SendOrder ==
  ASSUME TypeOK, Order, SendDone
  PROVE  Order'
<1>1. sending' = Heartbeat /\ UNCHANGED <<block_engine, offered>>
  BY DEF SendDone, feed
<1>2. CASE sending = Heartbeat
  <2>1. log' = log
    BY <1>2 DEF SendDone
  <2> QED
    BY <1>1, <2>1, LetsGoOrder DEF LetsGo
<1>3. CASE sending # Heartbeat
  <2>1. /\ Len(log) \in Nat
        /\ DOMAIN log = 1 .. Len(log) /\ DOMAIN log' = 1 .. Len(log) + 1
        /\ \A i \in 1 .. Len(log) : log'[i] = log[i] /\ log[i].batch \in Batch
        /\ log'[Len(log) + 1] = sending
    BY <1>3, LogAppended, Zenon
  <2>2. QueueInOrder' /\ HeldInOrder'
    BY <1>1 DEF Order, QueueInOrder, HeldInOrder
  <2>3. LogInOrder'
    <3> SUFFICES ASSUME NEW i \in DOMAIN log'
                 PROVE  /\ log'[i].batch <= offered
                        /\ \A j \in DOMAIN block_engine : log'[i].batch < block_engine[j]
      BY <1>1 DEF LogInOrder
    <3>1. CASE i \in 1 .. Len(log)
      BY <2>1, <3>1 DEF Order, LogInOrder
    <3>2. CASE i = Len(log) + 1
      BY <1>3, <2>1, <3>2 DEF Order, HeldInOrder
    <3>3. i \in 1 .. Len(log) \/ i = Len(log) + 1
      BY <2>1, SMTT(30)
    <3> QED
      BY <3>1, <3>2, <3>3, Zenon
  <2>4. SentInOrderOnce'
    <3> SUFFICES ASSUME NEW i \in DOMAIN log', NEW j \in DOMAIN log', i < j
                 PROVE  log'[i].batch < log'[j].batch
      BY DEF SentInOrderOnce
    <3>1. i \in 1 .. Len(log)
      BY <2>1
    <3>2. CASE j \in 1 .. Len(log)
      BY <2>1, <3>1, <3>2 DEF Order, SentInOrderOnce
    <3>3. CASE j = Len(log) + 1
      BY <1>3, <2>1, <3>1, <3>3 DEF Order, LogInOrder
    <3> QED
      BY <2>1, <3>2, <3>3, SMTT(30)
  <2> QED
    BY <2>2, <2>3, <2>4 DEF Order
<1> QED
  BY <1>2, <1>3

\* The number of the batch that is offered.
LEMMA OfferedBatch ==
  ASSUME TypeOK, Offer
  PROVE  offered + 1 \in Batch
<1>1. offered \in 0 .. Len(Content)
  BY TypeParts DEF QueuesOK
<1>2. offered < Len(Content)
  BY DEF Offer
<1> QED
  BY <1>1, <1>2, BlockEngineAssumption DEF Batch

\* A batch that is offered has the highest number so far.
LEMMA OfferOrder ==
  ASSUME TypeOK, Order, Offer
  PROVE  Order'
<1>1. UNCHANGED <<sending, log>> /\ offered' = offered + 1 /\ offered \in Nat
  <2>1. offered \in Nat
    BY TypeParts DEF QueuesOK
  <2> QED
    BY <2>1 DEF Offer
<1>2. offered + 1 \in Batch
  BY OfferedBatch
<1>3. block_engine \in Seq(Batch) /\ Batch \subseteq Nat
  <2>1. block_engine \in Seq(Batch)
    BY TypeParts DEF QueuesOK
  <2> QED
    BY <2>1 DEF Batch
<1>4. sending # Heartbeat => sending.batch \in Nat
  <2>1. sending \in Message \cup {Heartbeat}
    BY TypeParts DEF QueuesOK
  <2> QED
    BY <1>3, <2>1, Zenon DEF Message
<1>5. \A i \in DOMAIN log : log[i].batch \in Nat
  <2>1. log \in Seq(Message)
    BY TypeParts DEF QueuesOK
  <2>2. \A m \in Message : m.batch \in Nat
    BY <1>3, Zenon DEF Message
  <2>3. \A i \in DOMAIN log : log[i] \in Message
    BY <2>1
  <2> QED
    BY <2>2, <2>3
<1>0. \A i \in DOMAIN block_engine : block_engine[i] \in Nat
  <2>1. \A i \in DOMAIN block_engine : block_engine[i] \in Batch
    BY <1>3
  <2> QED
    BY <1>3, <2>1, Zenon
<1>6. CASE UNCHANGED block_engine
  <2>2. QueueInOrder'
    BY <1>0, <1>1, <1>6 DEF Order, QueueInOrder
  <2>3. HeldInOrder'
    BY <1>1, <1>4, <1>6 DEF Order, HeldInOrder
  <2>4. LogInOrder'
    BY <1>1, <1>5, <1>6, SMTT(30) DEF Order, LogInOrder
  <2> QED
    BY <1>1, <2>2, <2>3, <2>4 DEF Order, SentInOrderOnce
<1>7. CASE block_engine' = Append(block_engine, offered + 1)
  <2>1. /\ Len(block_engine) \in Nat
        /\ DOMAIN block_engine = 1 .. Len(block_engine)
        /\ DOMAIN block_engine' = 1 .. Len(block_engine) + 1
        /\ \A i \in 1 .. Len(block_engine) : block_engine'[i] = block_engine[i]
        /\ block_engine'[Len(block_engine) + 1] = offered + 1
    BY <1>2, <1>3, <1>7, Appended, SMTT(30)
  <2>2. \A i \in 1 .. Len(block_engine) : block_engine[i] \in Nat /\ block_engine[i] <= offered
    BY <1>0, <2>1 DEF Order, QueueInOrder
  <2>3. QueueInOrder'
    <3>1. \A i \in DOMAIN block_engine' : block_engine'[i] <= offered'
      BY <1>1, <2>1, <2>2
    <3>2. \A i, j \in DOMAIN block_engine' : i < j => block_engine'[i] < block_engine'[j]
      <4> SUFFICES ASSUME NEW i \in DOMAIN block_engine', NEW j \in DOMAIN block_engine', i < j
                   PROVE  block_engine'[i] < block_engine'[j]
        OBVIOUS
      <4>1. i \in 1 .. Len(block_engine)
        BY <2>1
      <4>2. CASE j \in 1 .. Len(block_engine)
        BY <2>1, <4>1, <4>2 DEF Order, QueueInOrder
      <4>3. CASE j = Len(block_engine) + 1
        BY <1>1, <2>1, <2>2, <4>1, <4>3, SMTT(30)
      <4> QED
        BY <2>1, <4>2, <4>3
    <3> QED
      BY <3>1, <3>2 DEF QueueInOrder
  <2>4. HeldInOrder'
    BY <1>1, <1>4, <2>1, SMTT(30) DEF Order, HeldInOrder
  <2>5. LogInOrder'
    <3> SUFFICES ASSUME NEW i \in DOMAIN log
                 PROVE  /\ log[i].batch <= offered'
                        /\ \A j \in DOMAIN block_engine' : log[i].batch < block_engine'[j]
                        /\ sending # Heartbeat => log[i].batch < sending.batch
      BY <1>1 DEF LogInOrder
    <3>1. log[i].batch \in Nat /\ log[i].batch <= offered
      BY <1>5, Zenon DEF Order, LogInOrder
    <3>2. \A j \in 1 .. Len(block_engine) : log[i].batch < block_engine[j]
      BY <2>1 DEF Order, LogInOrder
    <3>3. sending # Heartbeat => log[i].batch < sending.batch
      BY DEF Order, LogInOrder
    <3>4. log[i].batch < offered + 1 /\ log[i].batch <= offered'
      BY <1>1, <3>1, SMTT(30)
    <3>5. ASSUME NEW j \in DOMAIN block_engine' PROVE log[i].batch < block_engine'[j]
      <4>1. j \in 1 .. Len(block_engine) \/ j = Len(block_engine) + 1
        BY <2>1
      <4> QED
        BY <2>1, <3>2, <3>4, <4>1
    <3> QED
      BY <3>3, <3>4, <3>5, Zenon
  <2> QED
    BY <1>1, <2>3, <2>4, <2>5 DEF Order, SentInOrderOnce
<1> QED
  BY <1>6, <1>7 DEF Offer

\* What every other step does to the batches on their way.
LEMMA OtherSteps ==
  ASSUME [Next]_vars, ~DrainBatch, ~RecvBatch, ~SendDone, ~Offer
  PROVE  LetsGo \/ UNCHANGED batchVars
<1> USE DEF tokens, caches, link, feed, LetsGo, batchVars
<1>1. ASSUME NEW l, NEW why, Return(l, why) PROVE LetsGo
  BY <1>1 DEF Return
<1>2. CASE \/ SetupFails \/ StreamEnds \/ RecvDisconnected \/ SendTimesOut \/ SendClosed
           \/ RefreshFails
  BY <1>1, <1>2
     DEF SetupFails, StreamEnds, RecvDisconnected, SendTimesOut, SendClosed, RefreshFails
<1>3. CASE LoopTop \/ SessionOver \/ Wake \/ StartStreaming \/ RecvReply \/ SendHeartbeat
  BY <1>3, Zenon DEF LoopTop, SessionOver, Wake, StartStreaming, RecvReply, SendHeartbeat
<1>4. CASE Interest \/ AuthTick \/ MetricsTick
  BY <1>1, <1>4, Zenon DEF Interest, handle_aoi, handle_poi, HandleUpdate, AuthTick, MetricsTick
<1>5. CASE Reply
  <2>1. CASE ConnectReply
    BY <2>1 DEF ConnectReply
  <2>2. ASSUME NEW a \in Lifetime, RefreshReply(a) PROVE UNCHANGED batchVars
    BY <2>2 DEF RefreshReply
  <2>3. ASSUME NEW a \in Lifetime, NEW r \in Lifetime, AuthReply(a, r) \/ ReauthReply(a, r)
        PROVE  LetsGo \/ UNCHANGED batchVars
    BY <1>1, <2>3, Zenon DEF AuthReply, ReauthReply, Panic
  <2> QED
    BY <1>5, <2>1, <2>2, <2>3 DEF Reply
<1>6. CASE EngineReads \/ EngineStalls \/ SignalExit \/ Tick
  BY <1>6, Zenon DEF EngineReads, EngineStalls, SignalExit, Tick
<1>7. CASE UNCHANGED vars
  BY <1>7 DEF vars
<1> QED
  BY <1>2, <1>3, <1>4, <1>5, <1>6, <1>7 DEF Next

\* Every step keeps the order.
LEMMA NextOrder ==
  ASSUME TypeOK, HeldWhileSent, Order, [Next]_vars
  PROVE  Order'
  BY TakeOrder, SendOrder, OfferOrder, OtherSteps, LetsGoOrder

-----------------------------------------------------------------------------
(* Sessions.                                                               *)

\* Where the thread can go, and when is_connected changes.
LEMMA Moves ==
  ASSUME [Next]_vars
  PROVE  \/ pc' = pc /\ connected' = connected
         \/ pc \in {"top", "auth", "connect", "sleep"} /\ connected' = connected
              /\ pc' \in {"exited", "auth", "connect", "drain", "top", "failed", "panicked"}
         \/ pc = "drain" /\ pc' \in {"select", "closed"} /\ connected' = TRUE /\ StartStreaming
         \/ Streaming /\ connected' = connected
              /\ pc' \in {"select", "send", "reauth", "refresh", "failed", "closed", "panicked"}
         \/ pc \in {"failed", "closed"} /\ pc' \in {"sleep", "top"} /\ connected' = FALSE
<1> USE DEF Await, Streaming
<1>1. CASE SetupFails \/ LoopTop \/ Wake
  BY <1>1 DEF SetupFails, LoopTop, Wake, Return
<1>2. CASE StreamEnds \/ RecvDisconnected \/ SendTimesOut \/ SendClosed \/ RefreshFails
  BY <1>2, Zenon DEF StreamEnds, RecvDisconnected, SendTimesOut, SendClosed, RefreshFails, Return
<1>3. CASE SessionOver \/ DrainBatch \/ StartStreaming
  BY <1>3, Zenon DEF SessionOver, DrainBatch, StartStreaming, Continue
<1>4. CASE RecvReply \/ SendHeartbeat \/ RecvBatch \/ SendDone
  BY <1>4, Zenon DEF RecvReply, SendHeartbeat, RecvBatch, SendDone, Continue, Ticks
<1>5. CASE Interest
  BY <1>5, Zenon DEF Interest, handle_aoi, handle_poi, HandleUpdate, Continue
<1>6. CASE AuthTick \/ MetricsTick
  BY <1>6, Zenon DEF AuthTick, MetricsTick, Continue, Ticks, Return
<1>7. CASE Reply
  <2>1. CASE ConnectReply
    BY <2>1 DEF ConnectReply
  <2>2. ASSUME NEW a \in Lifetime, RefreshReply(a)
        PROVE  pc = "refresh" /\ connected' = connected /\ pc' \in {"select", "closed"}
    BY <2>2 DEF RefreshReply, Continue
  <2>3. ASSUME NEW a \in Lifetime, NEW r \in Lifetime, ReauthReply(a, r)
        PROVE  /\ pc = "reauth" /\ connected' = connected
               /\ pc' \in {"select", "closed", "failed"}
    BY <2>3 DEF ReauthReply, Continue, Return
  <2>4. ASSUME NEW a \in Lifetime, NEW r \in Lifetime, AuthReply(a, r)
        PROVE  /\ pc = "auth" /\ connected' = connected
               /\ pc' \in {"connect", "panicked", "failed"}
    BY <2>4 DEF AuthReply, Return, Panic
  <2> QED
    BY <1>7, <2>1, <2>2, <2>3, <2>4, Zenon DEF Reply
<1>8. CASE Offer \/ EngineReads \/ EngineStalls \/ SignalExit \/ Tick
  BY <1>8, Zenon DEF Offer, EngineReads, EngineStalls, SignalExit, Tick
<1>9. CASE UNCHANGED vars
  BY <1>9 DEF vars
<1> QED
  BY <1>1, <1>2, <1>3, <1>4, <1>5, <1>6, <1>7, <1>8, <1>9, Zenon DEF Next

\* A session begins with StartStreaming only.
LEMMA SessionGoesOn ==
  ASSUME [Next]_vars, ~StartStreaming, Streaming'
  PROVE  Streaming
  BY Moves, Zenon DEF Streaming

\* is_connected is set as a session begins and cleared when it is over.
LEMMA NextStatus ==
  ASSUME StatusTruthful, [Next]_vars
  PROVE  StatusTruthful'
<1>1. CASE pc' = pc /\ connected' = connected
  BY <1>1 DEF StatusTruthful, Streaming
<1>2. CASE /\ pc \in {"top", "auth", "connect", "sleep"} /\ connected' = connected
           /\ pc' \in {"exited", "auth", "connect", "drain", "top", "failed", "panicked"}
  <2>1. ~connected'
    BY <1>2 DEF StatusTruthful
  <2>2. ~Streaming'
    BY <1>2 DEF Streaming
  <2> QED
    BY <2>1, <2>2 DEF StatusTruthful
<1>3. CASE pc' \in {"select", "closed"} /\ connected' = TRUE
  BY <1>3 DEF StatusTruthful
<1>4. CASE /\ Streaming /\ connected' = connected
           /\ pc' \in {"select", "send", "reauth", "refresh", "failed", "closed", "panicked"}
  <2>1. connected'
    BY <1>4 DEF StatusTruthful
  <2> QED
    BY <1>4, <2>1 DEF StatusTruthful
<1>5. CASE pc' \in {"sleep", "top"} /\ connected' = FALSE
  BY <1>5 DEF StatusTruthful, Streaming
<1> QED
  BY <1>1, <1>2, <1>3, <1>4, <1>5, Moves, Zenon

\* A message is held from RecvBatch to the end of its send.
LEMMA NextHeld ==
  ASSUME HeldWhileSent, [Next]_vars
  PROVE  HeldWhileSent'
<1> USE DEF HeldWhileSent
<1>1. CASE RecvBatch
  BY <1>1, Zenon DEF RecvBatch, Await, Continue
<1>2. CASE SendDone
  BY <1>2 DEF SendDone
<1>3. CASE DrainBatch \/ Offer
  BY <1>3 DEF DrainBatch, Offer
<1>4. CASE LetsGo
  BY <1>4 DEF LetsGo
<1>5. CASE UNCHANGED batchVars /\ pc # "send"
  BY <1>5 DEF batchVars
<1>6. CASE UNCHANGED batchVars /\ pc = "send" /\ ~SendDone /\ ~LetsGo
  <2>1. pc' = pc
    BY <1>6, Zenon
       DEF Next, vars, LoopTop, SetupFails, SessionOver, Wake, DrainBatch, StartStreaming, RecvReply,
           StreamEnds, SendHeartbeat, Interest, handle_aoi, handle_poi, RecvBatch, RecvDisconnected,
           SendTimesOut, SendClosed, AuthTick, RefreshFails, MetricsTick, Reply, ConnectReply,
           RefreshReply, AuthReply, ReauthReply, Offer, EngineReads, EngineStalls, SignalExit, Tick,
           Ticks, Return, LetsGo, caches, feed
  <2> QED
    BY <1>6, <2>1
<1> QED
  BY <1>1, <1>2, <1>3, <1>4, <1>5, <1>6, OtherSteps

\* fresh changes as a session begins and as a batch is offered.
LEMMA FreshSteps ==
  ASSUME [Next]_vars, ~StartStreaming, ~Offer
  PROVE  UNCHANGED fresh
<1> USE DEF feed
<1>1. CASE \/ LoopTop \/ SetupFails \/ SessionOver \/ Wake \/ DrainBatch \/ RecvReply
           \/ StreamEnds \/ SendHeartbeat
  BY <1>1, Zenon DEF LoopTop, SetupFails, SessionOver, Wake, DrainBatch, RecvReply, StreamEnds,
              SendHeartbeat, Return
<1>2. CASE \/ Interest \/ RecvBatch \/ RecvDisconnected \/ SendDone \/ SendTimesOut \/ SendClosed
           \/ AuthTick \/ RefreshFails \/ MetricsTick
  BY <1>2, Zenon
     DEF Interest, handle_aoi, handle_poi, HandleUpdate, RecvBatch, RecvDisconnected, SendDone,
              SendTimesOut, SendClosed, AuthTick, RefreshFails, MetricsTick, Return
<1>3. CASE Reply
  BY <1>3, Zenon DEF Reply, ConnectReply, RefreshReply, AuthReply, ReauthReply, Return, Panic
<1>4. CASE EngineReads \/ EngineStalls \/ SignalExit \/ Tick \/ UNCHANGED vars
  BY <1>4, Zenon DEF EngineReads, EngineStalls, SignalExit, Tick, vars
<1> QED
  BY <1>1, <1>2, <1>3, <1>4 DEF Next

\* Every step keeps the sessions apart.
LEMMA NextOffered ==
  ASSUME TypeOK, HeldWhileSent, Order, OfferedInSession, [Next]_vars
  PROVE  OfferedInSession'
<1>1. CASE StartStreaming
  BY <1>1, SMTT(30) DEF StartStreaming, Drained, OfferedInSession, HeldWhileSent
<1>2. CASE DrainBatch
  BY <1>2 DEF DrainBatch, OfferedInSession, HeldWhileSent, Streaming
<1>3. CASE Offer
  <2>1. /\ UNCHANGED <<pc, sending>> /\ fresh' = fresh \cup {offered + 1}
        /\ block_engine' \in {block_engine, Append(block_engine, offered + 1)}
    BY <1>3 DEF Offer
  <2>2. block_engine \in Seq(Batch)
    BY TypeParts DEF QueuesOK
  <2>4. offered + 1 \in Batch
    BY <1>3, OfferedBatch
  <2>3. /\ DOMAIN block_engine = 1 .. Len(block_engine) /\ Len(block_engine) \in Nat
        /\ \A i \in DOMAIN block_engine' : \/ i \in DOMAIN block_engine /\ block_engine'[i] = block_engine[i]
                                           \/ block_engine'[i] = offered + 1
    BY <2>1, <2>2, <2>4, Appended, SMTT(30)
  <2> QED
    BY <2>1, <2>3 DEF OfferedInSession, Streaming
<1>4. CASE RecvBatch
  <2>1. /\ pc = "select" /\ block_engine # <<>> /\ block_engine' = Tail(block_engine)
        /\ sending = Heartbeat /\ UNCHANGED fresh
        /\ sending' = Heartbeat \/ sending'.batch = Head(block_engine)
    BY <1>4, Received DEF HeldWhileSent
  <2>2. /\ Head(block_engine) \in fresh
        /\ \A i \in DOMAIN block_engine' : block_engine'[i] \in fresh
    BY <2>1, TailOrder DEF OfferedInSession, Streaming, Order
  <2> QED
    BY <2>1, <2>2 DEF OfferedInSession
<1>5. CASE SendDone
  BY <1>5, Zenon DEF SendDone, feed, OfferedInSession, Streaming
<1>6. CASE ~StartStreaming /\ ~DrainBatch /\ ~Offer /\ ~RecvBatch /\ ~SendDone
  <2>1. UNCHANGED <<block_engine, fresh>> /\ sending' \in {sending, Heartbeat}
    BY <1>6, FreshSteps, OtherSteps DEF LetsGo, batchVars
  <2>2. Streaming' => Streaming
    BY <1>6, SessionGoesOn
  <2> QED
    BY <2>1, <2>2 DEF OfferedInSession
<1> QED
  BY <1>1, <1>2, <1>3, <1>4, <1>5, <1>6

\* A cached entry stays, runs out, or is one that was just asked for.
LEMMA CacheSteps ==
  ASSUME NEW cache \in [Key -> 0 .. Ttl], NEW keys \in SUBSET Key
  PROVE  /\ Cached(Renew(cache, keys)) \subseteq Cached(cache) \cup keys
         /\ Cached([k \in Key |-> Down(cache[k])]) \subseteq Cached(cache)
         /\ Cached(NoInterest) = {}
<1>1. Cached(Renew(cache, keys)) \subseteq Cached(cache) \cup keys
  BY DEF Cached, Renew
<1>2. Cached([k \in Key |-> Down(cache[k])]) \subseteq Cached(cache)
  BY DEF Cached, Down
<1>3. Cached(NoInterest) = {}
  BY DEF Cached, NoInterest
<1> QED
  BY <1>1, <1>2, <1>3

\* The caches change as a session begins, as interest is announced and with time.
LEMMA CachesKept ==
  ASSUME [Next]_vars, ~StartStreaming, ~Interest, ~Tick
  PROVE  UNCHANGED caches
<1>1. CASE \/ LoopTop \/ SetupFails \/ SessionOver \/ Wake \/ DrainBatch \/ RecvReply
           \/ StreamEnds \/ SendHeartbeat
  BY <1>1, Zenon DEF LoopTop, SetupFails, SessionOver, Wake, DrainBatch, RecvReply, StreamEnds,
              SendHeartbeat, Return
<1>2. CASE \/ RecvBatch \/ RecvDisconnected \/ SendDone \/ SendTimesOut \/ SendClosed
           \/ AuthTick \/ RefreshFails \/ MetricsTick
  BY <1>2, Zenon DEF RecvBatch, RecvDisconnected, SendDone, SendTimesOut, SendClosed, AuthTick,
              RefreshFails, MetricsTick, Return
<1>3. CASE Reply
  BY <1>3, Zenon DEF Reply, ConnectReply, RefreshReply, AuthReply, ReauthReply, Return, Panic
<1>4. CASE Offer \/ EngineReads \/ EngineStalls \/ SignalExit \/ UNCHANGED vars
  BY <1>4, Zenon DEF Offer, EngineReads, EngineStalls, SignalExit, vars
<1> QED
  BY <1>1, <1>2, <1>3, <1>4 DEF Next

\* Every step keeps the caches within what was asked for.
LEMMA NextAsked ==
  ASSUME TypeOK, AskedInSession, [Next]_vars
  PROVE  AskedInSession'
<1>0. /\ accounts_of_interest \in [Key -> 0 .. Ttl]
      /\ programs_of_interest \in [Key -> 0 .. Ttl]
  BY TypeParts, Zenon DEF ClocksOK
<1>1. CASE StartStreaming
  <2>1. /\ accounts_of_interest' = NoInterest /\ programs_of_interest' = NoInterest
        /\ forward_all' = FALSE
    BY <1>1 DEF StartStreaming, ForgetInterest
  <2>2. Cached(NoInterest) = {}
    BY <1>0, CacheSteps
  <2>3. Cached(accounts_of_interest)' = {} /\ Cached(programs_of_interest)' = {}
    BY <2>1, <2>2 DEF Cached
  <2> QED
    BY <2>1, <2>3 DEF AskedInSession
<1>2. CASE Interest
  <2>1. PICK keys \in SUBSET Key, star \in BOOLEAN :
          handle_aoi(keys, star) \/ handle_poi(keys, star)
    BY <1>2 DEF Interest
  <2>2. /\ Streaming
        /\ forward_all' = (forward_all \/ star)
        /\ wanted' = wanted \cup keys \cup (IF star THEN {"*"} ELSE {})
        /\ accounts_of_interest' \in {accounts_of_interest, Renew(accounts_of_interest, keys)}
        /\ programs_of_interest' \in {programs_of_interest, Renew(programs_of_interest, keys)}
    BY <2>1, Zenon DEF handle_aoi, handle_poi, HandleUpdate, Streaming
  <2>3. /\ Cached(accounts_of_interest)' \subseteq Cached(accounts_of_interest) \cup keys
        /\ Cached(programs_of_interest)' \subseteq Cached(programs_of_interest) \cup keys
    <3>1. /\ Cached(accounts_of_interest)' = Cached(accounts_of_interest')
          /\ Cached(programs_of_interest)' = Cached(programs_of_interest')
      BY DEF Cached
    <3> QED
      BY <1>0, <2>2, <3>1, CacheSteps
  <2>4. wanted \cup keys \subseteq wanted' /\ (star => "*" \in wanted')
    BY <2>2
  <2>5. forward_all' => "*" \in wanted'
    BY <2>2, <2>4 DEF AskedInSession
  <2> QED
    BY <2>2, <2>3, <2>4, <2>5 DEF AskedInSession
<1>3. CASE Tick
  <2>1. /\ UNCHANGED <<pc, forward_all, wanted>>
        /\ accounts_of_interest' \in {accounts_of_interest, [k \in Key |-> Down(accounts_of_interest[k])]}
        /\ programs_of_interest' \in {programs_of_interest, [k \in Key |-> Down(programs_of_interest[k])]}
    BY <1>3, Zenon DEF Tick
  <2>2. /\ Cached(accounts_of_interest)' \subseteq Cached(accounts_of_interest)
        /\ Cached(programs_of_interest)' \subseteq Cached(programs_of_interest)
    <3>1. /\ Cached(accounts_of_interest)' = Cached(accounts_of_interest')
          /\ Cached(programs_of_interest)' = Cached(programs_of_interest')
      BY DEF Cached
    <3>2. /\ Cached([k \in Key |-> Down(accounts_of_interest[k])]) \subseteq Cached(accounts_of_interest)
          /\ Cached([k \in Key |-> Down(programs_of_interest[k])]) \subseteq Cached(programs_of_interest)
      BY <1>0, CacheSteps
    <3> QED
      BY <2>1, <3>1, <3>2, Zenon
  <2> QED
    BY <2>1, <2>2 DEF AskedInSession, Streaming
<1>4. CASE ~StartStreaming /\ ~Interest /\ ~Tick
  <2>1. UNCHANGED caches /\ (Streaming' => Streaming)
    BY <1>4, CachesKept, SessionGoesOn
  <2> QED
    BY <2>1 DEF AskedInSession, Cached, caches
<1> QED
  BY <1>1, <1>2, <1>3, <1>4

\* What filter_packets lets through is wanted, listed nowhere and in order.
LEMMA FilterIsSound ==
  ASSUME NEW p, NEW aoi, NEW poi, NEW star, NEW w,
         aoi \subseteq w, poi \subseteq w, star => "*" \in w,
         is_forwardable(p, aoi, poi, Ofac, Tables, star)
  PROVE  MaySend(p, w)
<1>1. WritableKeys(p.tx) \subseteq StaticKeys(p.tx)
  BY Zenon DEF WritableKeys, StaticKeys
<1>2. Mentioned(p.tx) \cap Ofac = {}
  BY DEF is_forwardable, is_tx_ofac_related, Mentioned
<1>3. CASE star
  BY <1>2, <1>3 DEF is_forwardable, MaySend
<1>4. CASE is_aoi_in_static_keys(p.tx, aoi, poi)
  <2>1. Mentioned(p.tx) \cap w # {}
    BY <1>1, <1>4 DEF is_aoi_in_static_keys, Mentioned
  <2> QED
    BY <1>2, <2>1 DEF is_forwardable, MaySend
<1>5. CASE is_aoi_in_lookup_table(p.tx, aoi, poi, Tables)
  <2>1. Mentioned(p.tx) \cap w # {}
    BY <1>5 DEF is_aoi_in_lookup_table, Mentioned
  <2> QED
    BY <1>2, <2>1 DEF is_forwardable, MaySend
<1> QED
  BY <1>3, <1>4, <1>5 DEF is_forwardable

\* Every step keeps the message held one that was asked for.
LEMMA NextHeldAsked ==
  ASSUME HeldWhileSent, AskedInSession, HeldIsAsked, [Next]_vars
  PROVE  HeldIsAsked'
<1>1. CASE RecvBatch
  <2>1. /\ Streaming /\ wanted' = wanted
        /\ sending' = Heartbeat \/ (sending'.batch = Head(block_engine) /\ sending'.packets = KeptOfHead)
    BY <1>1, Received DEF Streaming, HeldWhileSent
  <2>2. \A i \in KeptOfHead :
          is_forwardable(Content[Head(block_engine)][i], Cached(accounts_of_interest),
                         Cached(programs_of_interest), Ofac, Tables, forward_all)
    BY DEF KeptOfHead, filter_packets
  <2>3. \A i \in KeptOfHead : MaySend(Content[Head(block_engine)][i], wanted)
    BY <2>1, <2>2, FilterIsSound, Zenon DEF AskedInSession
  <2> QED
    BY <2>1, <2>3, Zenon DEF HeldIsAsked
<1>2. CASE StartStreaming \/ Interest
  <2>1. sending = Heartbeat /\ sending' = sending
    BY <1>2, Zenon DEF StartStreaming, Interest, handle_aoi, handle_poi, HandleUpdate, HeldWhileSent
  <2> QED
    BY <2>1, Zenon DEF HeldIsAsked
<1>3. CASE ~RecvBatch /\ ~StartStreaming /\ ~Interest
  <2>1. wanted' = wanted
    BY <1>3, CachesKept, Zenon DEF caches, Tick
  <2>2. sending' \in {sending, Heartbeat}
    BY <1>3, OtherSteps, Zenon DEF LetsGo, batchVars, DrainBatch, SendDone, Offer
  <2> QED
    BY <2>1, <2>2 DEF HeldIsAsked
<1> QED
  BY <1>1, <1>2, <1>3

-----------------------------------------------------------------------------
(* The theorems.                                                           *)

\* The inductive invariant holds.
THEOREM EngineHolds == Spec => []IInv
<1>1. ASSUME Init PROVE IInv
  <2>1. TypeOK
    BY <1>1, InitTypes
  <2>2. /\ pc = "top" /\ connected = FALSE /\ sending = Heartbeat
        /\ block_engine = <<>> /\ log = <<>> /\ ~Streaming
    BY <1>1 DEF Init, Streaming
  <2>3. QueueInOrder /\ LogInOrder /\ SentInOrderOnce
    BY <2>2, SMTT(30) DEF QueueInOrder, LogInOrder, SentInOrderOnce
  <2> QED
    BY <2>1, <2>2, <2>3, Zenon
       DEF IInv, HeldWhileSent, HeldInOrder, OfferedInSession, AskedInSession, HeldIsAsked,
           StatusTruthful
<1>2. IInv /\ [Next]_vars => IInv'
  <2> SUFFICES ASSUME IInv, [Next]_vars PROVE IInv'
    OBVIOUS
  <2>1. TypeOK' /\ HeldWhileSent'
    BY NextTypes, NextHeld DEF IInv
  <2>2. Order'
    BY NextOrder DEF IInv, Order
  <2>3. OfferedInSession' /\ AskedInSession' /\ HeldIsAsked'
    BY NextOffered, NextAsked, NextHeldAsked DEF IInv, Order
  <2>4. StatusTruthful'
    BY NextStatus DEF IInv
  <2> QED
    BY <2>1, <2>2, <2>3, <2>4 DEF IInv, Order
<1> QED
  BY <1>1, <1>2, PTL DEF Spec

\* TypeOK: every variable keeps its type, and both bounded channels keep their bound.
THEOREM TypeCorrect == Spec => []TypeOK
<1>1. IInv => TypeOK
  BY DEF IInv
<1> QED
  BY <1>1, EngineHolds, PTL

\* StatusTruthful: is_connected_to_block_engine tells /health whether packets can be
\* streamed.
THEOREM StatusIsTruthful == Spec => []StatusTruthful
<1>1. IInv => StatusTruthful
  BY DEF IInv
<1> QED
  BY <1>1, EngineHolds, PTL

\* SentInOrderOnce: the engine gets no batch twice and none out of order.
THEOREM BatchesGoInOrder == Spec => []SentInOrderOnce
<1>1. IInv => SentInOrderOnce
  BY DEF IInv
<1> QED
  BY <1>1, EngineHolds, PTL

\* The log grows when SendDone sends the message held.
LEMMA OnlySendDone ==
  ASSUME TypeOK, [Next]_vars, NEW n \in Batch, Streamed(n)
  PROVE  SendDone /\ sending # Heartbeat /\ sending.batch = n /\ log'[Len(log')] = sending
<1>0. log \in Seq(Message) /\ Len(log) \in Nat
  BY TypeParts, SMTT(30) DEF QueuesOK
<1>1. log' # log
  BY <1>0 DEF Streamed
<1>2. SendDone
  BY <1>1, OtherSteps, Zenon DEF LetsGo, batchVars, DrainBatch, RecvBatch, Offer
<1>3. sending # Heartbeat
  BY <1>1, <1>2 DEF SendDone
<1>4. log'[Len(log')] = sending
  BY <1>2, <1>3, LogAppended, Zenon
<1> QED
  BY <1>2, <1>3, <1>4 DEF Streamed

\* StaleNeverSent: what was queued before a stream started is drained, not sent.
THEOREM NothingStaleIsSent == Spec => StaleNeverSent
<1>1. IInv /\ [Next]_vars => [\A n \in Batch : Streamed(n) => n \in fresh]_vars
  BY OnlySendDone, Zenon DEF IInv, OfferedInSession
<1> QED
  BY <1>1, EngineHolds, PTL DEF Spec, StaleNeverSent

\* SentOnInterest: filter_packets lets through only what the engine asked for in the same
\* session, and nothing that is listed.
THEOREM OnlyInterestIsSent == Spec => SentOnInterest
<1> DEFINE A == \A n \in Batch : Streamed(n) =>
       \A i \in log'[Len(log')].packets :
         LET p == Content[n][i]
         IN  /\ ~p.discard /\ p.parses
             /\ Mentioned(p.tx) \cap Ofac = {}
             /\ (Mentioned(p.tx) \cup {"*"}) \cap wanted # {}
<1>1. IInv /\ [Next]_vars => [A]_vars
  BY OnlySendDone, Zenon DEF IInv, HeldIsAsked, MaySend
<1> QED
  BY <1>1, EngineHolds, PTL DEF Spec, SentOnInterest

-----------------------------------------------------------------------------
(* The sessions that the engine is promised.                               *)

\* What the refinement needs besides: a message is not empty and its packets are those
\* of its batch; no batch of the session is ahead of the forwarder.
HeldIsKept ==
  sending # Heartbeat => /\ sending.packets # {}
                         /\ sending.packets \subseteq DOMAIN Content[sending.batch]
FreshIsOffered == \A n \in fresh : n <= offered

\* Every step keeps both.
LEMMA NextKept ==
  ASSUME TypeOK, HeldIsKept, FreshIsOffered, [Next]_vars
  PROVE  HeldIsKept' /\ FreshIsOffered'
<1>0. offered \in Nat /\ fresh \subseteq Nat
  BY TypeParts, BlockEngineAssumption, SMTT(30) DEF QueuesOK, Batch
<1>1. HeldIsKept'
  <2>1. CASE RecvBatch
    <3>1. KeptOfHead \subseteq DOMAIN Content[Head(block_engine)]
      BY DEF KeptOfHead, filter_packets
    <3> QED
      BY <2>1, <3>1, Received, Zenon DEF HeldIsKept
  <2>2. CASE ~RecvBatch
    <3>1. sending' \in {sending, Heartbeat}
      BY <2>2, OtherSteps, Zenon DEF LetsGo, batchVars, DrainBatch, SendDone, Offer
    <3> QED
      BY <3>1 DEF HeldIsKept
  <2> QED
    BY <2>1, <2>2
<1>2. FreshIsOffered'
  <2>1. CASE StartStreaming
    BY <2>1 DEF StartStreaming, FreshIsOffered
  <2>2. CASE Offer
    <3>1. fresh' = fresh \cup {offered + 1} /\ offered' = offered + 1
      BY <2>2 DEF Offer
    <3> QED
      BY <1>0, <3>1 DEF FreshIsOffered
  <2>3. CASE ~StartStreaming /\ ~Offer
    <3>1. fresh' = fresh
      BY <2>3, FreshSteps
    <3>2. offered' = offered
      BY <2>3, OtherSteps, Zenon DEF LetsGo, batchVars, DrainBatch, RecvBatch, SendDone, feed
    <3> QED
      BY <3>1, <3>2 DEF FreshIsOffered
  <2> QED
    BY <2>1, <2>2, <2>3
<1> QED
  BY <1>1, <1>2

\* A packet that may be sent meets an interest.
LEMMA MeetsInterest ==
  ASSUME NEW n \in Batch, NEW i \in DOMAIN Content[n], NEW w, MaySend(Content[n][i], w)
  PROVE  i \in DOMAIN Topics[n] /\ Topics[n][i] \cap w # {}
<1>1. /\ DOMAIN Topics[n] = DOMAIN Content[n]
      /\ Topics[n][i] = LET p == Content[n][i]
                        IN  IF ~p.discard /\ p.parses /\ Mentioned(p.tx) \cap Ofac = {}
                            THEN Mentioned(p.tx) \cup {"*"} ELSE {}
  BY DEF Topics
<1> QED
  BY <1>1 DEF MaySend

\* A send that is done hands the engine a batch of the session, newer than all it has.
LEMMA SendIsSend ==
  ASSUME IInv, HeldIsKept, SendDone, sending # Heartbeat
  PROVE  Session!SessionNext
<1> DEFINE n == sending.batch
           packets == sending.packets
<1>1. n \in Batch /\ sending = [batch |-> n, packets |-> packets]
  BY TypeParts DEF IInv, QueuesOK, Message
<1>2. n \in fresh /\ connected
  BY DEF IInv, OfferedInSession, StatusTruthful, Streaming, SendDone
<1>3. \A i \in DOMAIN log : log[i].batch < n
  BY DEF IInv, LogInOrder
<1>4. packets # {} /\ packets \subseteq DOMAIN Content[n]
  BY DEF HeldIsKept
<1>5. \A p \in packets : MaySend(Content[n][p], wanted)
  BY DEF IInv, HeldIsAsked
<1>6. \A p \in packets : p \in DOMAIN Topics[n] /\ Topics[n][p] \cap wanted # {}
  BY <1>1, <1>4, <1>5, MeetsInterest, Zenon
<1>7. log' = Append(log, sending) /\ UNCHANGED <<connected, fresh, wanted>>
  BY DEF SendDone, feed, caches
<1>8. log' = Append(log, [batch |-> n, packets |-> packets])
  BY <1>1, <1>7, Zenon
<1> HIDE DEF n, packets
<1>9. Session!Send(n, packets)
  BY <1>2, <1>3, <1>4, <1>6, <1>7, <1>8, Zenon DEF Session!Send, Session!Newer
<1>10. packets \in SUBSET DOMAIN Topics[n]
  BY <1>6, Zenon
<1> QED
  BY <1>2, <1>9, <1>10, Zenon DEF Session!SessionNext

\* A batch that is offered is newer than all that came and all that were sent.
LEMMA OfferIsCome ==
  ASSUME IInv, FreshIsOffered, Offer
  PROVE  Session!SessionNext
<1> DEFINE n == offered + 1
<1>1. n \in Batch
  BY OfferedBatch DEF IInv
<1>2. /\ fresh' = fresh \cup {n}
      /\ UNCHANGED <<connected, wanted, log>>
  BY DEF Offer, caches
<1>3. offered \in Nat /\ fresh \subseteq Nat /\ log \in Seq(Message)
  BY TypeParts, BlockEngineAssumption, SMTT(30) DEF IInv, QueuesOK, Batch
<1>4. \A m \in fresh : m < n
  BY <1>3 DEF FreshIsOffered
<1>5. \A i \in DOMAIN log : log[i].batch < n
  <2> SUFFICES ASSUME NEW i \in DOMAIN log PROVE log[i].batch < n
    OBVIOUS
  <2>1. log[i].batch <= offered
    BY DEF IInv, LogInOrder
  <2>2. log[i].batch \in Nat
    <3>1. log[i] \in Message
      BY <1>3
    <3> QED
      BY <3>1, BlockEngineAssumption, SMTT(30) DEF Message, Batch
  <2> QED
    BY <1>3, <2>1, <2>2, SMTT(30)
<1> HIDE DEF n
<1> QED
  BY <1>1, <1>2, <1>4, <1>5, Zenon DEF Session!SessionNext, Session!Come, Session!Newer

\* Every step of the handler is a step of the promised sessions or leaves them alone.
LEMMA NextSession ==
  ASSUME IInv, HeldIsKept, FreshIsOffered, [Next]_vars
  PROVE  [Session!SessionNext]_(Session!sessionVars)
<1>1. CASE StartStreaming
  <2>1. /\ ~connected /\ connected' = TRUE /\ fresh' = {} /\ wanted' = {} /\ log' = log
    BY <1>1 DEF StartStreaming, IInv, StatusTruthful
  <2> QED
    BY <2>1, Zenon DEF Session!SessionNext, Session!Open
<1>2. CASE Offer
  BY <1>2, OfferIsCome
<1>3. CASE Interest
  <2>1. /\ connected /\ wanted \subseteq wanted'
        /\ UNCHANGED <<connected, fresh, log>>
    BY <1>3 DEF Interest, handle_aoi, handle_poi, HandleUpdate, feed, IInv, StatusTruthful, Streaming
  <2> QED
    BY <2>1, Zenon DEF Session!SessionNext, Session!Ask
<1>4. CASE SendDone
  <2>1. CASE sending = Heartbeat
    BY <1>4, <2>1 DEF SendDone, feed, caches, Session!sessionVars
  <2> QED
    BY <1>4, <2>1, SendIsSend
<1>5. CASE ~StartStreaming /\ ~Offer /\ ~Interest /\ ~SendDone
  <2>1. fresh' = fresh
    BY <1>5, FreshSteps
  <2>2. wanted' = wanted
    BY <1>5, CachesKept, Zenon DEF caches, Tick
  <2>3. log' = log
    BY <1>5, OtherSteps, Zenon DEF LetsGo, batchVars, DrainBatch, RecvBatch
  <2>4. connected' = connected \/ connected' = FALSE
    BY <1>5, Moves, Zenon
  <2>5. connected \in BOOLEAN
    BY DEF IInv, TypeOK
  <2> QED
    BY <2>1, <2>2, <2>3, <2>4, <2>5, Zenon
       DEF Session!SessionNext, Session!Close, Session!sessionVars
<1> QED
  BY <1>1, <1>2, <1>3, <1>4, <1>5

\* ImplementsSessions: the handler, with its retries, streams, queue and caches, shows the
\* engine and /health the sessions they are promised, for any batches and interests.
THEOREM HandlerImplementsSessions == Spec => ImplementsSessions
<1>1. Init => Session!SessionInit
  BY Zenon DEF Init, Session!SessionInit
<1>2. Init => HeldIsKept /\ FreshIsOffered
  BY Zenon DEF Init, HeldIsKept, FreshIsOffered
<1>3. TypeOK /\ HeldIsKept /\ FreshIsOffered /\ [Next]_vars => (HeldIsKept /\ FreshIsOffered)'
  BY NextKept
<1>4. IInv /\ HeldIsKept /\ FreshIsOffered /\ [Next]_vars
        => [Session!SessionNext]_(Session!sessionVars)
  BY NextSession
<1> QED
  BY <1>1, <1>2, <1>3, <1>4, EngineHolds, TypeCorrect, PTL
     DEF Spec, ImplementsSessions, Session!SessionSpec
=============================================================================
