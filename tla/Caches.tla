------------------------------- MODULE Caches -------------------------------
(***************************************************************************)
(* The leader schedule and the lookup tables together with the RPC servers *)
(* both are refreshed from: two threads that share rpc_client and exit,    *)
(* and whose maps the event loop and the packet threads read at any        *)
(* moment.                                                                 *)
(***************************************************************************)
EXTENDS ScheduleCache, LookupTables

vars == <<rpcVars, scheduleVars, tableVars>>

Init == RpcInit /\ ScheduleInit /\ TablesInit

Chain == \/ \E s \in Server : Reach(s) \/ Announce(s)
         \/ SignalExit

Next ==
  \/ Chain /\ UNCHANGED <<scheduleVars, tableVars>>
  \/ UpdaterStep /\ UNCHANGED <<rpcVars, tableVars>>
  \/ RefresherStep /\ UNCHANGED <<rpcVars, scheduleVars>>

\* The chain goes on, whatever is announced; a thread that can run does; a server that is
\* asked again and again answers some time.
Fairness ==
  /\ WF_reached(\E s \in Server : Reach(s))
  /\ WF_scheduleVars(UpdaterStep)
  /\ SF_scheduleVars(GetEpochInfo) /\ SF_scheduleVars(GetLeaderSchedule)
  /\ WF_tableVars(RefresherStep)
  /\ SF_tableVars(GetProgramAccounts)

Spec == Init /\ [][Next]_vars /\ Fairness

-----------------------------------------------------------------------------
(* Properties.                                                             *)

\* Every variable has its type.
TypeOK ==
  /\ exit \in BOOLEAN
  /\ reached \in [Server -> Slot] /\ server_to_slot \in [Server -> AnnouncedSlots]
  /\ updater.at \in {"top", "epoch", "schedule", "exited"}
  /\ schedules = [s \in Slot |-> schedules[s]]
  /\ refresher.at \in {"top", "seed", "fetch", "insert", "exited"}
  /\ lookup_table \in [Table -> Int]
  /\ straddled \in BOOLEAN /\ seeded \in BOOLEAN /\ steady \subseteq Table

\* update_leader_cache asks for the epoch and for the schedule in two calls.  The
\* leaders it stores are those of their slots, except after an update in which a new
\* epoch began between the two calls.
TrueLeaders ==
  \A s \in Slot : schedules[s] # NoLeader /\ ~straddled => schedules[s] = Leader[s]

\* A packet thread that looks up a table in the middle of a refresh finds it: a table
\* that every answer so far held in readable form is in the map from the first refresh
\* on, without a gap.
NoGap == seeded => \A t \in steady : lookup_table[t] # NoAccount

\* What the map should hold of a slot's tables.
Usable(n) == [t \in Table |-> IF Readable(TablesAt[n][t]) THEN TablesAt[n][t] ELSE NoAccount]

\* The slots some server has reached.
Past == {n \in Slot : \E s \in Server : n <= reached[s]}

\* A refresh inserts one table after another, skips what it cannot read and removes the
\* rest, over whatever an earlier refresh from another server left.  When it has ended,
\* the map is nonetheless what a single answer held in readable form, never a mixture.
OneSnapshot ==
  refresher.at # "insert" =>
    \/ lookup_table = [t \in Table |-> NoAccount]
    \/ \E n \in Past : lookup_table = Usable(n)

\* A failed call, a lagging server or an update that straddled two epochs is made good:
\* once the chain stays in an epoch, the schedule is that epoch's and stays so, and the
\* map of tables has every extension and none of the closed tables.
CachesCatchUp ==
  <>[](\/ exit
       \/ /\ schedules = NewSchedule(FirstSlotOf(MaxSlot), FirstSlotOf(MaxSlot))
          /\ lookup_table = Usable(MaxSlot))
=============================================================================
