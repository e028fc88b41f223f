----------------------------- MODULE Forwarder -----------------------------
(***************************************************************************)
(* transaction-relayer/src/forwarder.rs: the threads that take verified    *)
(* packet batches, offer a copy of each to the block engine handler, hold  *)
(* the batch for packet_delay and then pass it to the relayer event loop.  *)
(*                                                                         *)
(* A batch is its arrival number.  Metrics are left out.  The threads at   *)
(* the other ends of the three channels are external to this module: they  *)
(* send, receive, and drop their end of the channel once exit is set.      *)
(***************************************************************************)
EXTENDS Naturals, Sequences

CONSTANTS
  Threads,             \* 0..num_threads; main starts one
  PacketDelay,         \* packet_delay, in clock units
  EngineCapacity,      \* BLOCK_ENGINE_FORWARDER_QUEUE_CAPACITY
  DelayCapacity,       \* TPU_QUEUE_CAPACITY, of the delay_packet channel
  EngineConfigured,    \* a BlockEngineConfig exists (--block-engine-url)
  MaxBatches           \* bound on the batches that arrive

ASSUME ForwarderAssumption ==
  /\ PacketDelay \in Nat
  /\ EngineCapacity \in Nat \ {0}
  /\ DelayCapacity \in Nat \ {0}
  /\ EngineConfigured \in BOOLEAN
  /\ MaxBatches \in Nat

VARIABLES
  disable_mempool,     \* --disable-mempool, fixed at start-up
  clock,               \* Instant::now()
  arrived,             \* how many batches sigverify has sent so far
  verified,            \* the verified_receiver channel
  block_engine,        \* the block engine channel: BlockEnginePackets
  delay_packet,        \* the delay_packet channel: RelayerPacketBatches
  buffered,            \* buffered_packet_batches of each thread
  holding,             \* the batch a thread has received and not yet pushed
  pc,                  \* where each thread is in its loop
  exit,                \* the process-wide exit flag
  open,                \* channels whose far end is still alive
  signalled,           \* history: shutdown was requested from outside
  offered,             \* history: what became of each batch's copy
  relayed              \* history: everything sent on delay_packet

vars == <<disable_mempool, clock, arrived, verified, block_engine, delay_packet,
          buffered, holding, pc, exit, open, signalled, offered, relayed>>

queues == <<verified, block_engine, delay_packet>>
history == <<signalled, offered, relayed>>

Batch == 1 .. MaxBatches
Entry == [batch : Batch, stamp : Nat]
Relay == [batch : Batch, stamp : Nat, at : Nat]
Channel == {"verified", "block_engine", "delay_packet"}
NoEntry == [batch |-> 0, stamp |-> 0]
Outcome == {"none", "sent", "full", "skipped"}

Init ==
  /\ disable_mempool \in BOOLEAN
  /\ clock = 0
  /\ arrived = 0
  /\ verified = <<>>
  /\ block_engine = <<>>
  /\ delay_packet = <<>>
  /\ buffered = [t \in Threads |-> <<>>]
  /\ holding = [t \in Threads |-> NoEntry]
  /\ pc = [t \in Threads |-> "top"]
  /\ exit = FALSE
  /\ open = Channel
  /\ signalled = FALSE
  /\ offered = [b \in Batch |-> "none"]
  /\ relayed = <<>>

-----------------------------------------------------------------------------
(* The loop of one thread.                                                 *)

GoTo(t, label) == pc' = [pc EXCEPT ![t] = label]

\* The panic hook of graceful_panic raises exit for every other thread.
Panic(t) ==
  /\ GoTo(t, "panicked")
  /\ exit' = TRUE
  /\ UNCHANGED <<disable_mempool, clock, arrived, queues, buffered, holding, open, history>>

MutLoopTop(t) ==
  /\ pc[t] = "top"
  /\ GoTo(t, "recv")
  /\ UNCHANGED <<disable_mempool, clock, arrived, queues, buffered, holding, exit, open,
                 history>>

\* while !exit.load()
LoopTop(t) ==
  /\ pc[t] = "top"
  /\ GoTo(t, IF exit THEN "exited" ELSE "recv")
  /\ UNCHANGED <<disable_mempool, clock, arrived, queues, buffered, holding, exit, open,
                 history>>

\* recv_timeout returns a batch, which is stamped.
RecvBatch(t) ==
  /\ pc[t] = "recv"
  /\ verified # <<>>
  /\ holding' = [holding EXCEPT ![t] = [batch |-> Head(verified), stamp |-> clock]]
  /\ verified' = Tail(verified)
  /\ GoTo(t, "offer")
  /\ UNCHANGED <<disable_mempool, clock, arrived, block_engine, delay_packet, buffered,
                 exit, open, history>>

RecvTimeout(t) ==
  /\ pc[t] = "recv"
  /\ verified = <<>>
  /\ "verified" \in open
  /\ GoTo(t, "drain")
  /\ UNCHANGED <<disable_mempool, clock, arrived, queues, buffered, holding, exit, open,
                 history>>

MutRecvDisconnected(t) == pc[t] = "recv" /\ verified = <<>> /\ Panic(t)

RecvDisconnected(t) ==
  /\ pc[t] = "recv"
  /\ verified = <<>>
  /\ "verified" \notin open
  /\ Panic(t)

\* buffered_packet_batches after push_back.
MutBuffer(t) == buffered[t]
MutBufferFront(t) == <<holding[t]>> \o buffered[t]
Buffer(t) == Append(buffered[t], holding[t])

\* push_back, whatever became of the copy for the block engine.
PushBack(t, outcome) ==
  /\ buffered' = [buffered EXCEPT ![t] = Buffer(t)]
  /\ holding' = [holding EXCEPT ![t] = NoEntry]
  /\ offered' = [offered EXCEPT ![holding[t].batch] = outcome]
  /\ GoTo(t, "drain")
  /\ UNCHANGED <<disable_mempool, clock, arrived, verified, delay_packet, exit, open,
                 signalled, relayed>>

Skips(t) == pc[t] = "offer" /\ disable_mempool

OfferSkipped(t) ==
  /\ Skips(t)
  /\ PushBack(t, "skipped")
  /\ UNCHANGED block_engine

Offers(t) == pc[t] = "offer" /\ ~disable_mempool

\* block_engine_sender.try_send: Ok, Full and Closed.
OfferSent(t) ==
  /\ Offers(t)
  /\ "block_engine" \in open
  /\ Len(block_engine) < EngineCapacity
  /\ block_engine' = Append(block_engine, holding[t])
  /\ PushBack(t, "sent")

OfferFull(t) ==
  /\ Offers(t)
  /\ "block_engine" \in open
  /\ Len(block_engine) >= EngineCapacity
  /\ PushBack(t, "full")
  /\ UNCHANGED block_engine

OfferClosed(t) ==
  /\ Offers(t)
  /\ "block_engine" \notin open
  /\ Panic(t)

\* packet_batches.stamp.elapsed() >= packet_delay
MutDue(e) == clock + 1 >= e.stamp + PacketDelay
Due(e) == clock >= e.stamp + PacketDelay

FrontDue(t) == buffered[t] # <<>> /\ Due(Head(buffered[t]))

DelayRoom == Len(delay_packet) < DelayCapacity

\* pop_front and the blocking send: the thread waits here while the channel is full.
DrainSend(t) ==
  /\ pc[t] = "drain"
  /\ FrontDue(t)
  /\ "delay_packet" \in open
  /\ DelayRoom
  /\ LET e == Head(buffered[t])
     IN  /\ delay_packet' = Append(delay_packet, e)
         /\ relayed' = Append(relayed, [batch |-> e.batch, stamp |-> e.stamp, at |-> clock])
  /\ buffered' = [buffered EXCEPT ![t] = Tail(@)]
  /\ UNCHANGED <<disable_mempool, clock, arrived, verified, block_engine, holding, pc,
                 exit, open, signalled, offered>>

\* The batch popped for the send is dropped with the thread, like the rest of its buffer.
DrainDisconnected(t) ==
  /\ pc[t] = "drain"
  /\ FrontDue(t)
  /\ "delay_packet" \notin open
  /\ Panic(t)

DrainDone(t) ==
  /\ pc[t] = "drain"
  /\ ~FrontDue(t)
  /\ GoTo(t, "top")
  /\ UNCHANGED <<disable_mempool, clock, arrived, queues, buffered, holding, exit, open,
                 history>>

Step(t) ==
  \/ LoopTop(t)
  \/ RecvBatch(t) \/ RecvTimeout(t) \/ RecvDisconnected(t)
  \/ OfferSkipped(t) \/ OfferSent(t) \/ OfferFull(t) \/ OfferClosed(t)
  \/ DrainSend(t) \/ DrainDisconnected(t) \/ DrainDone(t)

-----------------------------------------------------------------------------
(* The rest of the process, as seen through the channels.                  *)

\* Sigverify sends a batch on the unbounded verified channel.
Arrive ==
  /\ "verified" \in open
  /\ arrived < MaxBatches
  /\ arrived' = arrived + 1
  /\ verified' = Append(verified, arrived + 1)
  /\ UNCHANGED <<disable_mempool, clock, block_engine, delay_packet, buffered, holding,
                 pc, exit, open, history>>

\* The block engine handler takes a batch; it need not ever do so.
EngineRecv ==
  /\ "block_engine" \in open
  /\ block_engine # <<>>
  /\ block_engine' = Tail(block_engine)
  /\ UNCHANGED <<disable_mempool, clock, arrived, verified, delay_packet, buffered,
                 holding, pc, exit, open, history>>

\* The relayer event loop takes a batch.
RelayerRecv ==
  /\ "delay_packet" \in open
  /\ delay_packet # <<>>
  /\ delay_packet' = Tail(delay_packet)
  /\ UNCHANGED <<disable_mempool, clock, arrived, verified, block_engine, buffered,
                 holding, pc, exit, open, history>>

SignalExit ==
  /\ ~signalled
  /\ signalled' = TRUE
  /\ exit' = TRUE
  /\ UNCHANGED <<disable_mempool, clock, arrived, queues, buffered, holding, pc, open,
                 offered, relayed>>

\* A far end goes away once its thread has seen exit.  Without a configuration
\* BlockEngineRelayerHandler::new drops block_engine_receiver at once.
Hangup(c) ==
  /\ c \in open
  /\ exit \/ (c = "block_engine" /\ (disable_mempool \/ ~EngineConfigured))
  /\ open' = open \ {c}
  /\ UNCHANGED <<disable_mempool, clock, arrived, queues, buffered, holding, pc, exit,
                 history>>

\* Time matters only to a batch that is not due, so it passes only then.
Tick ==
  /\ \E t \in Threads : \/ buffered[t] # <<>> /\ ~FrontDue(t)
                        \/ pc[t] = "offer" /\ ~Due(holding[t])
  /\ clock' = clock + 1
  /\ UNCHANGED <<disable_mempool, arrived, queues, buffered, holding, pc, exit, open,
                 history>>

Next ==
  \/ \E t \in Threads : Step(t)
  \/ Arrive \/ EngineRecv \/ RelayerRecv
  \/ SignalExit \/ Tick
  \/ \E c \in Channel : Hangup(c)

Spec == Init /\ [][Next]_vars

\* The scheduler runs every thread, time passes and the relayer event loop keeps
\* receiving.  Nothing is assumed of the block engine handler.
Fairness ==
  /\ \A t \in Threads : WF_vars(Step(t))
  /\ WF_vars(RelayerRecv)
  /\ WF_vars(Tick)

FairSpec == Spec /\ Fairness

-----------------------------------------------------------------------------
(* Properties.                                                             *)

\* Every variable keeps its type; both bounded channels keep their bound.
TypeOK ==
  /\ disable_mempool \in BOOLEAN
  /\ clock \in Nat
  /\ arrived \in 0 .. MaxBatches
  /\ verified \in Seq(Batch)
  /\ block_engine \in Seq(Entry) /\ Len(block_engine) <= EngineCapacity
  /\ delay_packet \in Seq(Entry) /\ Len(delay_packet) <= DelayCapacity
  /\ buffered \in [Threads -> Seq(Entry)]
  /\ holding \in [Threads -> Entry \cup {NoEntry}]
  /\ pc \in [Threads -> {"top", "recv", "offer", "drain", "exited", "panicked"}]
  /\ exit \in BOOLEAN
  /\ open \in SUBSET Channel
  /\ signalled \in BOOLEAN
  /\ offered \in [Batch -> Outcome]
  /\ relayed \in Seq(Relay)

HeldBy(t, b) == \/ holding[t].batch = b
                \/ \E i \in DOMAIN buffered[t] : buffered[t][i].batch = b
Relayed(b) == \E i \in DOMAIN relayed : relayed[i].batch = b
Waiting(b) == \E i \in DOMAIN verified : verified[i] = b

\* No batch is lost or sent to the relayer twice: each one that arrived is still
\* in verified_receiver, or with exactly one thread, or sent once, and in one
\* of these places only; a full block engine channel does not change that.  What
\* a thread holds when it ends, after exit, goes with it.
ExactlyOnce ==
  /\ \A b \in 1 .. arrived : Waiting(b) \/ (\E t \in Threads : HeldBy(t, b)) \/ Relayed(b)
  /\ \A b \in Batch, t \in Threads :
        HeldBy(t, b) => /\ ~Waiting(b) /\ ~Relayed(b)
                        /\ \A u \in Threads \ {t} : ~HeldBy(u, b)
  /\ \A i, j \in DOMAIN relayed : relayed[i].batch = relayed[j].batch => i = j

\* What a step adds to relayed is the oldest of the batches its thread holds.
SendsOldest ==
  \A i \in DOMAIN relayed', t \in Threads :
    i > Len(relayed) /\ HeldBy(t, relayed'[i].batch) =>
      \A b \in Batch : HeldBy(t, b) => relayed'[i].batch <= b

\* A thread sends its batches in the order in which it took them, which with the
\* one thread main starts is the order in which sigverify sent them, however
\* late it comes back to its buffer or to the batch it holds.
ArrivalOrder == [][SendsOldest]_vars

\* The fate of the block engine's copy is settled before the batch may go to a
\* validator, and a copy is skipped only when the mempool is disabled.
EngineFirst ==
  \A i \in DOMAIN relayed :
    offered[relayed[i].batch] \in IF disable_mempool THEN {"skipped"} ELSE {"sent", "full"}

\* A forwarder thread panics only once a shutdown was requested; a block engine
\* that is not connected only backs its channel up.
PanicOnlyInShutdown ==
  (\E t \in Threads : pc[t] = "panicked") => signalled

\* Every batch that arrives is passed on to the relayer event loop, even if the
\* block engine handler never takes anything from its channel.
EventuallyRelayed ==
  \A b \in Batch : (arrived >= b) ~> (Relayed(b) \/ exit)

\* Once exit is set every forwarder thread leaves its loop.
ThreadsStop ==
  exit ~> (\A t \in Threads : pc[t] \in {"exited", "panicked"})

\* Accepted and not yet sent: what the delay line holds.
Held == {holding[t] : t \in {u \in Threads : holding[u] # NoEntry}}
        \cup UNION {{buffered[t][i] : i \in DOMAIN buffered[t]} : t \in Threads}

Line == INSTANCE DelayLine WITH
  now <- clock,
  held <- Held,
  out <- relayed

\* The threads, the channels and the polling loop implement the delay line: a batch is
\* stamped when it is taken, leaves once, and not before packet_delay has passed since
\* its own stamp, however its thread was scheduled or blocked in between.
ImplementsDelayLine == Line!LineSpec
=============================================================================
