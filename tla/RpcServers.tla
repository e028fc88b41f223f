----------------------------- MODULE RpcServers -----------------------------
(***************************************************************************)
(* The RPC servers as the background refreshers meet them, and rpc_client  *)
(* of rpc/src/load_balancer.rs, which picks one.  A server answers with    *)
(* the chain as of the slot it has reached.  What its websocket announces  *)
(* says little about that: a fork's slot, a lower one after a reconnection *)
(* or one its answers do not show yet; server_to_slot takes them all.      *)
(***************************************************************************)
EXTENDS Naturals

CONSTANTS
  Server,              \* the pairs of RPC and websocket server
  MaxSlot,             \* bound: the chain stops here
  AnnouncedSlots       \* bound: the slots a websocket announces

Slot == 0 .. MaxSlot

VARIABLES
  exit,                \* the process-wide exit flag
  reached,             \* the slot each server has reached
  server_to_slot       \* the slot each server has announced last

rpcVars == <<exit, reached, server_to_slot>>

RpcInit ==
  /\ exit = FALSE
  /\ reached = [s \in Server |-> 0]
  /\ server_to_slot \in [Server -> AnnouncedSlots]

\* get_highest_slot and rpc_client: a server no other has announced more than.
rpc_client == {s \in Server : \A r \in Server : server_to_slot[r] <= server_to_slot[s]}

\* What servers reach after exit is of no consequence to the threads and left out.
Reach(s) ==
  /\ ~exit
  /\ reached[s] < MaxSlot
  /\ reached' = [reached EXCEPT ![s] = @ + 1]
  /\ UNCHANGED <<exit, server_to_slot>>

\* The subscription thread stores whatever slot it is sent, also a lower one.
Announce(s) ==
  /\ ~exit
  /\ \E slot \in AnnouncedSlots : server_to_slot' = [server_to_slot EXCEPT ![s] = slot]
  /\ UNCHANGED <<exit, reached>>

SignalExit ==
  /\ ~exit
  /\ exit' = TRUE
  /\ UNCHANGED <<reached, server_to_slot>>
=============================================================================
