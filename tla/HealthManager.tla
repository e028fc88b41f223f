--------------------------- MODULE HealthManager ---------------------------
(***************************************************************************)
(* relayer/src/health_manager.rs: the thread that passes slots on from the *)
(* load balancer to the relayer event loop and judges the relayer's health *)
(* by the time since the last one.                                         *)
(*                                                                         *)
(* last_update is kept as the time elapsed since, up to LongestElapsed.    *)
(* Which slot is passed on does not matter here, only that one is.  Time   *)
(* passes while the thread waits in select!: it reacts at once to a tick   *)
(* that is due, and the relayer event loop, which never blocks             *)
(* (RelayerLoop.tla), does not keep it waiting in send.                    *)
(***************************************************************************)
EXTENDS Integers

CONSTANTS
  Threshold,           \* missing_slot_unhealthy_threshold; even
  SlotCapacity         \* SLOT_QUEUE_CAPACITY, of both slot channels

CheckPeriod == Threshold \div 2
LongestElapsed == Threshold + CheckPeriod + 1

ASSUME HealthManagerAssumption ==
  /\ Threshold \in Nat \ {0} /\ 2 * CheckPeriod = Threshold
  /\ SlotCapacity \in Nat \ {0}

VARIABLES
  exit,                \* the process-wide exit flag
  incoming,            \* slots waiting in slot_receiver
  senders,             \* a subscription thread of the load balancer is alive
  manager,             \* where the thread is
  elapsed,             \* last_update.elapsed()
  next_check,          \* time until check_and_metrics_tick fires
  health_state,
  downstream,          \* slots waiting for the relayer event loop
  relayer              \* the relayer event loop still receives

vars == <<exit, incoming, senders, manager, elapsed, next_check, health_state,
          downstream, relayer>>

Init ==
  /\ exit = FALSE
  /\ incoming = 0 /\ senders = TRUE
  /\ manager = "top"
  /\ elapsed = 0
  /\ next_check = CheckPeriod
  /\ health_state = "Unhealthy"
  /\ downstream = 0 /\ relayer = TRUE

-----------------------------------------------------------------------------
(* The thread.                                                             *)

\* while !exit.load()
LoopTop ==
  /\ manager = "top"
  /\ manager' = IF exit THEN "exited" ELSE "select"
  /\ UNCHANGED <<exit, incoming, senders, elapsed, next_check, health_state, downstream,
                 relayer>>

MutNewHealthState == IF elapsed <= Threshold + 1 THEN "Healthy" ELSE "Unhealthy"
new_health_state == IF elapsed <= Threshold THEN "Healthy" ELSE "Unhealthy"

CheckHealth ==
  /\ manager = "select"
  /\ next_check = 0
  /\ next_check' = CheckPeriod
  /\ health_state' = new_health_state
  /\ manager' = "top"
  /\ UNCHANGED <<exit, incoming, senders, elapsed, downstream, relayer>>

RecvSlot ==
  /\ manager = "select"
  /\ incoming > 0
  /\ incoming' = incoming - 1
  /\ manager' = "send"
  /\ UNCHANGED <<exit, senders, elapsed, next_check, health_state, downstream, relayer>>

Room == downstream < SlotCapacity

SendSlot ==
  /\ manager = "send"
  /\ relayer
  /\ Room
  /\ downstream' = downstream + 1
  /\ elapsed' = 0
  /\ manager' = "top"
  /\ UNCHANGED <<exit, incoming, senders, next_check, health_state, relayer>>

\* One of the two expects fails.
MutExpectFails == manager = "select" /\ incoming = 0 /\ ~senders
ExpectFails == \/ manager = "select" /\ incoming = 0 /\ ~senders
               \/ manager = "send" /\ ~relayer

\* The panic hook raises exit.
Panic ==
  /\ ExpectFails
  /\ manager' = "panicked"
  /\ exit' = TRUE
  /\ UNCHANGED <<incoming, senders, elapsed, next_check, health_state, downstream, relayer>>

-----------------------------------------------------------------------------
(* The load balancer, the relayer event loop, shutdown and time.           *)

Alive == manager \in {"top", "select", "send"}

SlotArrives ==
  /\ senders /\ Alive
  /\ incoming < SlotCapacity
  /\ incoming' = incoming + 1
  /\ UNCHANGED <<exit, senders, manager, elapsed, next_check, health_state, downstream,
                 relayer>>

RelayerTakesSlot ==
  /\ relayer
  /\ downstream > 0
  /\ downstream' = downstream - 1
  /\ UNCHANGED <<exit, incoming, senders, manager, elapsed, next_check, health_state,
                 relayer>>

SignalExit ==
  /\ ~exit
  /\ exit' = TRUE
  /\ UNCHANGED <<incoming, senders, manager, elapsed, next_check, health_state,
                 downstream, relayer>>

\* The neighbours end after exit, each in its own time.
SendersExit ==
  /\ senders /\ exit
  /\ senders' = FALSE
  /\ UNCHANGED <<exit, incoming, manager, elapsed, next_check, health_state, downstream,
                 relayer>>

RelayerExits ==
  /\ relayer /\ exit
  /\ relayer' = FALSE
  /\ UNCHANGED <<exit, incoming, senders, manager, elapsed, next_check, health_state,
                 downstream>>

Tick ==
  /\ manager = "select" /\ next_check > 0
  /\ next_check' = next_check - 1
  /\ elapsed' = IF elapsed < LongestElapsed THEN elapsed + 1 ELSE elapsed
  /\ UNCHANGED <<exit, incoming, senders, manager, health_state, downstream, relayer>>

Next ==
  \/ LoopTop \/ CheckHealth \/ RecvSlot \/ SendSlot \/ Panic
  \/ SlotArrives \/ RelayerTakesSlot
  \/ SignalExit \/ SendersExit \/ RelayerExits \/ Tick

Spec == Init /\ [][Next]_vars

-----------------------------------------------------------------------------
(* Properties.                                                             *)

\* Every variable keeps its type; both channels keep their bound.
TypeOK ==
  /\ exit \in BOOLEAN
  /\ incoming \in 0 .. SlotCapacity /\ senders \in BOOLEAN
  /\ manager \in {"top", "select", "send", "exited", "panicked"}
  /\ elapsed \in 0 .. LongestElapsed
  /\ next_check \in 0 .. CheckPeriod
  /\ health_state \in {"Healthy", "Unhealthy"}
  /\ downstream \in 0 .. SlotCapacity /\ relayer \in BOOLEAN

\* The health state follows the slots: Healthy for at most the threshold plus one
\* check period after the last slot, and Unhealthy, while slots come in time,
\* only until the first check after one.
HealthFollowsSlots ==
  IF health_state = "Healthy"
  THEN elapsed <= Threshold + CheckPeriod
  ELSE elapsed <= CheckPeriod \/ elapsed > Threshold
=============================================================================
