--------------------------- MODULE ScheduleCache ---------------------------
(***************************************************************************)
(* relayer/src/schedule_cache.rs: the thread that keeps the leader         *)
(* schedule of the current epoch.  An update is two RPC calls to the same  *)
(* server, one for the epoch and one for its schedule, and the chain goes  *)
(* on between them.  The time between two updates is left open.            *)
(***************************************************************************)
EXTENDS RpcServers

CONSTANTS
  Leader,              \* the leader of each slot
  EpochLength          \* slots per epoch

ASSUME ScheduleAssumption ==
  /\ EpochLength \in Nat \ {0} /\ MaxSlot \in Nat
  /\ (MaxSlot + 1) % EpochLength = 0
  /\ DOMAIN Leader = Slot

VARIABLES
  updater,             \* where the refresh thread is, and the locals of its call
  schedules,           \* the map behind the lock: leader or NoLeader of a slot
  straddled            \* history: an epoch began between the calls behind schedules

scheduleVars == <<updater, schedules, straddled>>

NoLeader == "none"
FirstSlotOf(slot) == slot - (slot % EpochLength)

ScheduleInit ==
  /\ updater = [at |-> "top"]
  /\ schedules = [s \in Slot |-> NoLeader]
  /\ straddled = FALSE

\* while !exit.load(), then rpc_client().
UpdaterTop ==
  /\ updater.at = "top"
  /\ \/ /\ exit
        /\ updater' = [at |-> "exited"]
     \/ /\ ~exit
        /\ \E s \in rpc_client : updater' = [at |-> "epoch", rpc |-> s]
  /\ UNCHANGED <<schedules, straddled>>

\* epoch_info.absolute_slot - epoch_info.slot_index
MutEpochOffset(absolute_slot) == absolute_slot
EpochOffset(absolute_slot) == absolute_slot - (absolute_slot % EpochLength)

\* epoch is history: the first slot of the epoch the server was in.
GetEpochInfo ==
  /\ updater.at = "epoch"
  /\ updater' = [at |-> "schedule", rpc |-> updater.rpc,
                 epoch_offset |-> EpochOffset(reached[updater.rpc]),
                 epoch |-> FirstSlotOf(reached[updater.rpc])]
  /\ UNCHANGED <<schedules, straddled>>

\* The leaders of the epoch that starts at first, entered from slot offset on.
NewSchedule(first, offset) ==
  [s \in Slot |-> IF s \in offset .. offset + EpochLength - 1
                  THEN Leader[first + (s - offset)]
                  ELSE NoLeader]

\* get_leader_schedule(None) answers for the epoch the server is in by now; the map
\* is replaced under one write lock.
GetLeaderSchedule ==
  /\ updater.at = "schedule"
  /\ updater' = [at |-> "top"]
  /\ LET first == FirstSlotOf(reached[updater.rpc])
     IN  /\ schedules' = NewSchedule(first, updater.epoch_offset)
         /\ straddled' = (first # updater.epoch)

\* Either call fails: the map stays and the next update starts over.
MutUpdateFails ==
  /\ updater.at \in {"epoch", "schedule"}
  /\ updater' = [at |-> "exited"]
  /\ UNCHANGED <<schedules, straddled>>
UpdateFails ==
  /\ updater.at \in {"epoch", "schedule"}
  /\ updater' = [at |-> "top"]
  /\ UNCHANGED <<schedules, straddled>>

UpdaterStep == UpdaterTop \/ GetEpochInfo \/ GetLeaderSchedule \/ UpdateFails
=============================================================================
