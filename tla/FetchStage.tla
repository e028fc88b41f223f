----------------------------- MODULE FetchStage -----------------------------
(***************************************************************************)
(* core/src/fetch_stage.rs: the thread that marks the batches other        *)
(* validators forward and copies them to the channel of the signature      *)
(* verifier.  Tpu::new of core/src/tpu.rs makes the channels: the QUIC     *)
(* servers hold the senders of one, the verifier the receiver of the       *)
(* other; both are library threads, seen here by what they do to the       *)
(* channels.  Batches are numbered in the order they arrive.               *)
(***************************************************************************)
EXTENDS Naturals, Sequences

CONSTANTS
  Batches,             \* bound: batches forwarded
  SizeOf,              \* packets of each batch
  QueueCapacity,       \* TPU_QUEUE_CAPACITY
  ReadLimit            \* the 1024 packets after which a round stops reading

ASSUME FetchStageAssumption ==
  /\ {Batches, QueueCapacity, ReadLimit} \subseteq Nat \ {0}
  /\ SizeOf \in [1 .. Batches -> Nat \ {0}]

VARIABLES
  quic,                \* the QUIC servers run
  arrived,             \* batches forwarded so far
  forwards,            \* batches waiting in tpu_forwards_receiver
  fetch,               \* where the thread is
  packet_batches,      \* batches it holds
  num_packets,         \* packets read in this round, while it reads
  tpu,                 \* batches waiting in tpu_receiver
  verified,            \* history: what the verifier has taken
  sigverify            \* the verifier runs

fetchVars == <<quic, arrived, forwards, fetch, packet_batches, num_packets, tpu, verified, sigverify>>

FetchInit ==
  /\ quic = TRUE
  /\ arrived = 0 /\ forwards = <<>>
  /\ fetch = "top" /\ packet_batches = <<>> /\ num_packets = 0
  /\ tpu = <<>> /\ verified = <<>>
  /\ sigverify = TRUE

-----------------------------------------------------------------------------
(* The thread.                                                             *)

\* while !exit.load()
FetchTop(exit) ==
  /\ fetch = "top"
  /\ fetch' = IF exit THEN "exited" ELSE "recv"
  /\ UNCHANGED <<quic, arrived, forwards, packet_batches, num_packets, tpu, verified, sigverify>>

MutMarkForwarded(batch) == [batch EXCEPT !.forwarded = (packet_batches = <<>>)]
mark_forwarded(batch) == [batch EXCEPT !.forwarded = TRUE]

\* Takes a batch after n packets of this round.
Take(n) ==
  /\ num_packets' = n + SizeOf[Head(forwards).id]
  /\ packet_batches' = Append(packet_batches, mark_forwarded(Head(forwards)))
  /\ forwards' = Tail(forwards)

\* recv() waits for the first batch
FetchRecv ==
  /\ fetch = "recv"
  /\ forwards # <<>>
  /\ Take(0)
  /\ fetch' = "drain"
  /\ UNCHANGED <<quic, arrived, tpu, verified, sigverify>>

\* try_recv() until nothing waits or the round has read more than ReadLimit packets
FetchDrain ==
  /\ fetch = "drain"
  /\ \/ /\ forwards = <<>>
        /\ fetch' = "send"
        /\ UNCHANGED <<forwards, packet_batches, num_packets>>
     \/ /\ forwards # <<>>
        /\ Take(num_packets)
        /\ fetch' = IF num_packets' > ReadLimit THEN "send" ELSE "drain"
  /\ UNCHANGED <<quic, arrived, tpu, verified, sigverify>>

\* tpu_sender.send(), one batch after the other
FetchSend ==
  /\ fetch = "send"
  /\ sigverify
  /\ Len(tpu) < QueueCapacity
  /\ tpu' = Append(tpu, Head(packet_batches))
  /\ packet_batches' = Tail(packet_batches)
  /\ fetch' = IF Len(packet_batches) = 1 THEN "top" ELSE "send"
  /\ num_packets' = 0
  /\ UNCHANGED <<quic, arrived, forwards, verified, sigverify>>

\* recv() and send() fail when the other end is gone, and the thread panics.
ChannelClosed == \/ fetch = "recv" /\ forwards = <<>> /\ ~quic
                 \/ fetch = "send" /\ ~sigverify

FetchPanic ==
  /\ ChannelClosed
  /\ fetch' = "panicked"
  /\ UNCHANGED <<quic, arrived, forwards, packet_batches, num_packets, tpu, verified, sigverify>>

-----------------------------------------------------------------------------
(* The QUIC servers and the verifier.                                      *)

\* A server drops a batch when the channel is full or the receiver gone; batches that
\* are dropped are not counted.
BatchArrives ==
  /\ quic /\ arrived < Batches
  /\ Len(forwards) < QueueCapacity
  /\ fetch # "exited"
  /\ arrived' = arrived + 1
  /\ forwards' = Append(forwards, [id |-> arrived', forwarded |-> FALSE])
  /\ UNCHANGED <<quic, fetch, packet_batches, num_packets, tpu, verified, sigverify>>

QuicEnds(exit) ==
  /\ quic /\ exit
  /\ quic' = FALSE
  /\ UNCHANGED <<arrived, forwards, fetch, packet_batches, num_packets, tpu, verified, sigverify>>

VerifierTakes ==
  /\ sigverify /\ tpu # <<>>
  /\ verified' = Append(verified, Head(tpu))
  /\ tpu' = Tail(tpu)
  /\ UNCHANGED <<quic, arrived, forwards, fetch, packet_batches, num_packets, sigverify>>

\* The verifier ends when no sender is left, or when the forwarders it feeds are gone.
VerifierEnds(forwarders) ==
  /\ sigverify
  /\ (~quic /\ fetch = "exited") \/ ~forwarders
  /\ sigverify' = FALSE
  /\ UNCHANGED <<quic, arrived, forwards, fetch, packet_batches, num_packets, tpu, verified>>

\* The channels lose, repeat and reorder nothing, and what leaves the thread is marked:
\* what the verifier took, what waits for it and what the thread holds are the batches
\* forwarded first, in order and marked, and the rest waits unmarked.
ForwardsKept ==
  verified \o tpu \o packet_batches \o forwards
    = [n \in 1 .. arrived |-> [id |-> n, forwarded |-> n <= arrived - Len(forwards)]]
=============================================================================
