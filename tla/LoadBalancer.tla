---------------------------- MODULE LoadBalancer ----------------------------
(***************************************************************************)
(* rpc/src/load_balancer.rs: one thread per RPC server follows the         *)
(* server's slots over a websocket and races the others to report each new *)
(* highest slot to the health manager.                                     *)
(*                                                                         *)
(* last_slot_update is kept as the time elapsed since, up to the limit it  *)
(* is compared with.                                                       *)
(***************************************************************************)
EXTENDS Naturals, Sequences

CONSTANTS
  Server,              \* the websocket urls
  MaxSlot,             \* bound on the slots that are announced
  SlotCapacity,        \* SLOT_QUEUE_CAPACITY
  SilenceLimit         \* DISCONNECT_WEBSOCKET_TIMEOUT

Slot == 1 .. MaxSlot

ASSUME LoadBalancerAssumption ==
  /\ Server # {}
  /\ MaxSlot \in Nat
  /\ SlotCapacity \in Nat \ {0}
  /\ SilenceLimit \in Nat \ {0}

VARIABLES
  exit,                \* the process-wide exit flag
  highest_slot,        \* the atomic shared by the threads
  server_to_slot,      \* the last slot each server announced
  thread,              \* where each thread is
  pending,             \* the slot a thread has won and still has to send
  silence,             \* last_slot_update.elapsed() of each connection
  stalled,             \* connections on which the server has fallen silent
  slot_channel,        \* to the health manager
  receiver,            \* the health manager still owns its end of it
  sent                 \* history: slots put on slot_channel, and by whom

vars == <<exit, highest_slot, server_to_slot, thread, pending, silence, stalled,
          slot_channel, receiver, sent>>

Init ==
  /\ exit = FALSE
  /\ highest_slot = 0
  /\ server_to_slot = [s \in Server |-> 0]
  /\ thread = [s \in Server |-> "subscribe"]
  /\ pending = [s \in Server |-> 0]
  /\ silence = [s \in Server |-> 0]
  /\ stalled = {}
  /\ slot_channel = <<>>
  /\ receiver = TRUE
  /\ sent = <<>>

-----------------------------------------------------------------------------
(* A subscription thread.                                                  *)

\* while !exit, then slot_subscribe is called; last_slot_update is set before the call.
Subscribe(s) ==
  /\ thread[s] = "subscribe"
  /\ thread' = [thread EXCEPT ![s] = IF exit THEN "exited" ELSE "connecting"]
  /\ silence' = [silence EXCEPT ![s] = 0]
  /\ UNCHANGED <<exit, highest_slot, server_to_slot, pending, stalled, slot_channel,
                 receiver, sent>>

\* slot_subscribe returns a subscription.
Connected(s) ==
  /\ thread[s] = "connecting"
  /\ thread' = [thread EXCEPT ![s] = "recv"]
  /\ UNCHANGED <<exit, highest_slot, server_to_slot, pending, silence, stalled, slot_channel,
                 receiver, sent>>

\* slot.slot > old_slot
MutWins(slot) == slot >= highest_slot
MutDiffers(slot) == slot # highest_slot
Wins(slot) == slot > highest_slot

\* A slot arrives; fetch_max decides whether this thread has to report it.
RecvSlot(s, slot) ==
  /\ thread[s] = "recv"
  /\ s \notin stalled
  /\ silence' = [silence EXCEPT ![s] = 0]
  /\ server_to_slot' = [server_to_slot EXCEPT ![s] = slot]
  /\ \/ /\ Wins(slot)
        /\ highest_slot' = slot
        /\ thread' = [thread EXCEPT ![s] = "send"]
        /\ pending' = [pending EXCEPT ![s] = slot]
     \/ /\ ~Wins(slot)
        /\ UNCHANGED <<highest_slot, thread, pending>>
  /\ UNCHANGED <<exit, stalled, slot_channel, receiver, sent>>

Room == Len(slot_channel) < SlotCapacity

\* The blocking send, some time after fetch_max.
SendSlot(s) ==
  /\ thread[s] = "send"
  /\ receiver
  /\ Room
  /\ slot_channel' = Append(slot_channel, pending[s])
  /\ sent' = Append(sent, [slot |-> pending[s], by |-> s])
  /\ thread' = [thread EXCEPT ![s] = "recv"]
  /\ pending' = [pending EXCEPT ![s] = 0]
  /\ UNCHANGED <<exit, highest_slot, server_to_slot, silence, stalled, receiver>>

\* break out of the receive loop, sleep, and start over; the connection is dropped.
Resubscribe(s) ==
  /\ thread' = [thread EXCEPT ![s] = "subscribe"]
  /\ pending' = [pending EXCEPT ![s] = 0]
  /\ stalled' = stalled \ {s}
  /\ UNCHANGED <<exit, highest_slot, server_to_slot, silence, slot_channel, receiver, sent>>

\* slot_subscribe returns an error, which is logged.
SubscribeFails(s) == thread[s] = "connecting" /\ Resubscribe(s)

MutSendSlotFails(s) == thread[s] = "send" /\ Resubscribe(s)
SendSlotFails(s) == thread[s] = "send" /\ ~receiver /\ Resubscribe(s)

\* last_slot_update.elapsed() >= DISCONNECT_WEBSOCKET_TIMEOUT
Silent(s) == silence[s] >= SilenceLimit

MutForceDisconnect(s) == thread[s] = "recv" /\ Silent(s) /\ server_to_slot[s] = 0 /\ Resubscribe(s)
ForceDisconnect(s) == thread[s] = "recv" /\ Silent(s) /\ Resubscribe(s)

\* The server closed the websocket, or exit ends the receive loop.
Disconnected(s) == thread[s] = "recv" /\ Resubscribe(s)

-----------------------------------------------------------------------------
(* The servers, the health manager, shutdown and time.                     *)

\* A server stops announcing slots on a connection that stays open.
Stall(s) ==
  /\ thread[s] = "recv"
  /\ s \notin stalled
  /\ stalled' = stalled \cup {s}
  /\ UNCHANGED <<exit, highest_slot, server_to_slot, thread, pending, silence, slot_channel,
                 receiver, sent>>

TakeSlot ==
  /\ receiver
  /\ slot_channel # <<>>
  /\ slot_channel' = Tail(slot_channel)
  /\ UNCHANGED <<exit, highest_slot, server_to_slot, thread, pending, silence, stalled,
                 receiver, sent>>

SignalExit ==
  /\ ~exit
  /\ exit' = TRUE
  /\ UNCHANGED <<highest_slot, server_to_slot, thread, pending, silence, stalled,
                 slot_channel, receiver, sent>>

ReceiverDropped ==
  /\ receiver
  /\ exit
  /\ receiver' = FALSE
  /\ slot_channel' = <<>>
  /\ UNCHANGED <<exit, highest_slot, server_to_slot, thread, pending, silence, stalled,
                 sent>>

Tick ==
  /\ silence' = [s \in Server |-> IF Silent(s) THEN silence[s] ELSE silence[s] + 1]
  /\ UNCHANGED <<exit, highest_slot, server_to_slot, thread, pending, stalled, slot_channel,
                 receiver, sent>>

Next ==
  \/ \E s \in Server : \/ Subscribe(s) \/ Connected(s) \/ SubscribeFails(s)
                       \/ SendSlot(s) \/ SendSlotFails(s)
                       \/ ForceDisconnect(s) \/ Disconnected(s) \/ Stall(s)
                       \/ \E slot \in Slot : RecvSlot(s, slot)
  \/ TakeSlot \/ SignalExit \/ ReceiverDropped \/ Tick

Spec == Init /\ [][Next]_vars

\* The scheduler runs every thread, the health manager receives and time passes.  Of the
\* servers nothing is assumed: slot_subscribe may fail for ever or never return.
Fairness ==
  /\ \A s \in Server : /\ WF_vars(Subscribe(s)) /\ WF_vars(SendSlot(s))
                       /\ WF_vars(ForceDisconnect(s))
  /\ WF_vars(TakeSlot)
  /\ WF_vars(Tick)

FairSpec == Spec /\ Fairness

-----------------------------------------------------------------------------
(* Properties.                                                             *)

\* Every variable keeps its type; the slot channel keeps its bound.
TypeOK ==
  /\ exit \in BOOLEAN
  /\ highest_slot \in 0 .. MaxSlot
  /\ server_to_slot \in [Server -> 0 .. MaxSlot]
  /\ thread \in [Server -> {"subscribe", "connecting", "recv", "send", "exited"}]
  /\ pending \in [Server -> 0 .. MaxSlot]
  /\ silence \in [Server -> 0 .. SilenceLimit]
  /\ stalled \in SUBSET Server
  /\ slot_channel \in Seq(Slot) /\ Len(slot_channel) <= SlotCapacity
  /\ receiver \in BOOLEAN
  /\ sent \in Seq([slot : Slot, by : Server])

\* fetch_max elects one reporter per slot: no slot reaches the health manager
\* twice, whatever the servers announce and however the threads interleave.
ReportedOnce ==
  \A i, j \in DOMAIN sent : sent[i].slot = sent[j].slot => i = j

\* fetch_max and send are two steps, so a slot can be sent after a higher one,
\* but then by another thread, and at most one such slot per other thread.
OvertakingBounded ==
  /\ \A i, j \in DOMAIN sent :
       i < j /\ sent[j].slot < sent[i].slot => sent[i].by # sent[j].by
  /\ \A i, j, k \in DOMAIN sent :
       i < j /\ j < k /\ sent[j].slot < sent[i].slot /\ sent[k].slot < sent[i].slot
         => sent[j].by # sent[k].by

\* The highest slot announced is not lost on the way to the health manager: it
\* was sent, or the thread that won it in fetch_max is about to send it.
HighestReported ==
  highest_slot # 0 /\ receiver =>
    \/ \E i \in DOMAIN sent : sent[i].slot = highest_slot
    \/ \E s \in Server : pending[s] = highest_slot

\* The slots that were won in fetch_max and not sent yet, and those that were sent.
Owed == {pending[s] : s \in {r \in Server : pending[r] # 0}}
Reported == [i \in DOMAIN sent |-> sent[i].slot]

Board == INSTANCE SlotBoard WITH
  highest <- highest_slot, owed <- Owed, reported <- Reported, listens <- receiver

\* The racing threads, their reconnections and the bounded channel implement the board:
\* each new highest slot is reported by one of them, and dropped only at shutdown.
ImplementsBoard == Board!BoardSpec

\* A server that falls silent on an open connection is not waited for: its thread, though
\* it may hold a slot for a full channel, gives the connection up and asks for a new one.
\* Whether it gets one is up to the server.
StallRecovered ==
  \A s \in Server : (s \in stalled) ~> (thread[s] = "connecting" \/ exit)

\* Every slot that raised the maximum is eventually sent, also by a thread that
\* waits for room in a full slot channel.
SlotReported ==
  \A slot \in Slot :
    (highest_slot = slot) ~> (exit \/ \E i \in DOMAIN sent : sent[i].slot = slot)
=============================================================================
