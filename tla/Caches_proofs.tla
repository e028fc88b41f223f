--------------------------- MODULE Caches_proofs ---------------------------
(***************************************************************************)
(* What the two caches hold, for any number of servers and tables, any     *)
(* chain and any length of an epoch.                                       *)
(***************************************************************************)
EXTENDS Caches, TLAPS

\* Servers are at some slot, and have announced some slot.
ReachedOK ==
  reached \in [Server -> Slot] /\ server_to_slot \in [Server -> AnnouncedSlots]

\* The updater: between its calls it knows the first slot of an epoch, and that is what
\* it has computed from epoch_info.
UpdaterOK ==
  /\ updater.at \in {"top", "epoch", "schedule", "exited"}
  /\ updater.at \in {"epoch", "schedule"} => updater.rpc \in Server
  /\ updater.at = "schedule" => /\ updater.epoch \in Int
                                /\ updater.epoch_offset = updater.epoch

\* The refresher: of the accounts it was told every one that every answer held is noted
\* and inserted, or yet to do.
Fetching == [at : {"fetch"}, rpc : Server]
Inserting == [at : {"insert"}, accounts : [Table -> Int],
              todo : SUBSET Table, new_pubkeys : SUBSET Table]

RefresherOK ==
  /\ refresher \in [at : {"top", "seed", "exited"}] \cup Fetching \cup Inserting
  /\ lookup_table \in [Table -> Int]
  /\ steady \subseteq Table
  /\ refresher.at = "insert" =>
       \A t \in steady :
         /\ Readable(refresher.accounts[t])
         /\ t \in refresher.todo \/ (t \in refresher.new_pubkeys /\ lookup_table[t] # NoAccount)

IInv == ReachedOK /\ UpdaterOK /\ RefresherOK /\ TrueLeaders /\ NoGap

-----------------------------------------------------------------------------
(* The pieces the steps are made of.                                        *)

\* The first slot of an epoch is a number.
LEMMA FirstSlotInt ==
  ASSUME NEW slot \in Slot
  PROVE  FirstSlotOf(slot) \in Int /\ EpochOffset(slot) = FirstSlotOf(slot)
  BY ScheduleAssumption DEF FirstSlotOf, EpochOffset, Slot

\* The leaders entered are those of their slots when offset is the epoch's first slot.
LEMMA EnteredInPlace ==
  ASSUME NEW first \in Int, NEW s \in Slot, NewSchedule(first, first)[s] # NoLeader
  PROVE  NewSchedule(first, first)[s] = Leader[s]
<1>1. first + (s - first) = s
  BY ScheduleAssumption DEF Slot
<1> QED
  BY <1>1 DEF NewSchedule

-----------------------------------------------------------------------------
(* The steps.                                                               *)

\* Nothing is cached at first.
LEMMA InitCaches == Init => IInv
<1> SUFFICES ASSUME Init PROVE IInv
  OBVIOUS
<1> USE DEF Init, RpcInit, ScheduleInit, TablesInit
<1>1. ReachedOK
  BY ScheduleAssumption DEF ReachedOK, Slot
<1>2. UpdaterOK
  BY DEF UpdaterOK
<1>3. RefresherOK
  BY DEF RefresherOK, NoAccount
<1>4. TrueLeaders /\ NoGap
  BY DEF TrueLeaders, NoGap
<1> QED
  BY <1>1, <1>2, <1>3, <1>4 DEF IInv

\* Servers only move on.
LEMMA ChainStep ==
  ASSUME IInv, Chain, UNCHANGED <<scheduleVars, tableVars>>
  PROVE  IInv'
<1> USE DEF IInv, scheduleVars, tableVars
<1>1. ReachedOK'
  <2>1. ASSUME NEW s \in Server, Reach(s) PROVE ReachedOK'
    BY <2>1, ScheduleAssumption DEF Reach, ReachedOK, Slot
  <2>2. ASSUME NEW s \in Server, Announce(s) PROVE ReachedOK'
    BY <2>2 DEF Announce, ReachedOK
  <2>3. CASE SignalExit
    BY <2>3 DEF SignalExit, ReachedOK
  <2> QED
    BY <2>1, <2>2, <2>3 DEF Chain
<1>2. UpdaterOK' /\ TrueLeaders' /\ NoGap'
  BY DEF UpdaterOK, TrueLeaders, NoGap
<1>3. RefresherOK'
  BY DEF RefresherOK
<1> QED
  BY <1>1, <1>2, <1>3

\* An update that stays within one epoch enters true leaders.
LEMMA UpdaterKeeps ==
  ASSUME IInv, UpdaterStep, UNCHANGED <<rpcVars, tableVars>>
  PROVE  IInv'
<1> USE DEF IInv, rpcVars, tableVars
<1>1. ReachedOK' /\ RefresherOK' /\ NoGap'
  BY DEF ReachedOK, RefresherOK, NoGap
<1>2. UpdaterOK' /\ TrueLeaders'
  <2>1. CASE UpdaterTop
    BY <2>1 DEF UpdaterTop, UpdaterOK, TrueLeaders, rpc_client
  <2>2. CASE GetEpochInfo
    <3>1. updater.rpc \in Server /\ reached[updater.rpc] \in Slot
      BY <2>2 DEF GetEpochInfo, UpdaterOK, ReachedOK
    <3>2. UpdaterOK'
      BY <2>2, <3>1, FirstSlotInt DEF GetEpochInfo, UpdaterOK
    <3> QED
      BY <2>2, <3>2 DEF GetEpochInfo, TrueLeaders
  <2>3. CASE GetLeaderSchedule
    <3> DEFINE first == FirstSlotOf(reached[updater.rpc])
    <3>1. /\ updater.epoch \in Int /\ updater.epoch_offset = updater.epoch
          /\ schedules' = NewSchedule(first, updater.epoch_offset)
          /\ straddled' = (first # updater.epoch)
      BY <2>3 DEF GetLeaderSchedule, UpdaterOK
    <3>2. TrueLeaders'
      <4> SUFFICES ASSUME NEW s \in Slot, schedules'[s] # NoLeader, ~straddled'
                   PROVE  schedules'[s] = Leader[s]
        BY DEF TrueLeaders
      <4>1. schedules' = NewSchedule(updater.epoch, updater.epoch)
        BY <3>1, Zenon
      <4> QED
        BY <3>1, <4>1, EnteredInPlace
    <3>3. UpdaterOK'
      BY <2>3 DEF GetLeaderSchedule, UpdaterOK
    <3> QED
      BY <3>2, <3>3
  <2>4. CASE UpdateFails
    BY <2>4 DEF UpdateFails, UpdaterOK, TrueLeaders
  <2> QED
    BY <2>1, <2>2, <2>3, <2>4 DEF UpdaterStep
<1> QED
  BY <1>1, <1>2

\* A refresh inserts before it removes.
LEMMA RefresherKeeps ==
  ASSUME IInv, RefresherStep, UNCHANGED <<rpcVars, scheduleVars>>
  PROVE  IInv'
<1> USE DEF IInv, rpcVars, scheduleVars
<1>1. ReachedOK' /\ UpdaterOK' /\ TrueLeaders'
  BY DEF ReachedOK, UpdaterOK, TrueLeaders
<1>2. RefresherOK' /\ NoGap'
  <2>1. CASE RefresherExits
    BY <2>1 DEF RefresherExits, RefresherOK, NoGap
  <2>2. CASE RefresherPick
    <3>1. PICK s \in rpc_client : refresher' = [at |-> "fetch", rpc |-> s]
      BY <2>2 DEF RefresherPick
    <3>2. s \in Server
      BY DEF rpc_client
    <3>3. UNCHANGED <<lookup_table, seeded, steady, reached>>
      BY <2>2 DEF RefresherPick
    <3> QED
      BY <3>1, <3>2, <3>3 DEF RefresherOK, NoGap, Fetching
  <2>3. CASE FetchFails
    BY <2>3 DEF FetchFails, RefresherOK, NoGap
  <2>4. CASE GetProgramAccounts
    <3> DEFINE accounts == TablesAt[reached[refresher.rpc]]
    <3>1. refresher.rpc \in Server /\ reached[refresher.rpc] \in Slot
      BY <2>4 DEF GetProgramAccounts, RefresherOK, Fetching, Inserting, ReachedOK
    <3>2. accounts \in [Table -> Int]
      BY <3>1, TablesAssumption
    <3>3. /\ refresher' = [at |-> "insert", accounts |-> accounts,
                           todo |-> {t \in Table : accounts[t] # NoAccount},
                           new_pubkeys |-> {}]
          /\ steady' = {t \in steady : Readable(accounts[t])}
          /\ UNCHANGED <<lookup_table, seeded>>
      BY <2>4, Zenon DEF GetProgramAccounts, RefresherOK
    <3> HIDE DEF accounts
    <3>4. RefresherOK'
      BY <3>2, <3>3 DEF RefresherOK, Inserting, Readable
    <3> QED
      BY <3>3, <3>4 DEF NoGap
  <2>5. ASSUME NEW t \in Table, InsertTable(t)
        PROVE  RefresherOK' /\ NoGap'
    <3>1. refresher \in Inserting /\ refresher.at = "insert"
      BY <2>5 DEF InsertTable, RefresherOK, Fetching
    <3>2. UNCHANGED <<seeded, steady>>
      BY <2>5 DEF InsertTable
    <3>3. CASE Readable(refresher.accounts[t])
      <4>1. /\ refresher' = [refresher EXCEPT !.todo = @ \ {t}, !.new_pubkeys = @ \cup {t}]
            /\ lookup_table' = [lookup_table EXCEPT ![t] = refresher.accounts[t]]
        BY <2>5, <3>3 DEF InsertTable, Noted
      <4>2. /\ refresher' \in Inserting /\ refresher'.at = "insert"
            /\ refresher'.accounts = refresher.accounts
            /\ refresher'.todo = refresher.todo \ {t}
            /\ refresher'.new_pubkeys = refresher.new_pubkeys \cup {t}
        BY <3>1, <4>1, Zenon DEF Inserting
      <4>3. /\ lookup_table' \in [Table -> Int]
            /\ lookup_table'[t] # NoAccount
            /\ \A u \in Table \ {t} : lookup_table'[u] = lookup_table[u]
        BY <3>1, <3>3, <4>1 DEF Inserting, RefresherOK, Readable
      <4>4. RefresherOK'
        BY <3>1, <3>2, <4>2, <4>3 DEF RefresherOK
      <4> QED
        BY <3>1, <3>2, <4>2, <4>3, <4>4 DEF NoGap, RefresherOK
    <3>4. CASE ~Readable(refresher.accounts[t])
      <4>1. /\ refresher' = [refresher EXCEPT !.todo = @ \ {t}]
            /\ lookup_table' = lookup_table
        BY <2>5, <3>4 DEF InsertTable
      <4>2. /\ refresher' \in Inserting /\ refresher'.at = "insert"
            /\ refresher'.accounts = refresher.accounts
            /\ refresher'.todo = refresher.todo \ {t}
            /\ refresher'.new_pubkeys = refresher.new_pubkeys
        BY <3>1, <4>1 DEF Inserting
      <4>3. RefresherOK'
        BY <3>1, <3>2, <3>4, <4>1, <4>2 DEF RefresherOK
      <4> QED
        BY <3>1, <3>2, <4>1, <4>2, <4>3 DEF NoGap
    <3> QED
      BY <3>3, <3>4
  <2>6. CASE RetainTables
    <3>1. /\ refresher.at = "insert" /\ refresher.todo = {}
          /\ refresher' = [at |-> "top"]
          /\ lookup_table' = [t \in Table |-> IF t \in refresher.new_pubkeys
                                              THEN lookup_table[t] ELSE NoAccount]
          /\ steady' = steady
      BY <2>6 DEF RetainTables, Retained
    <3>2. RefresherOK'
      BY <3>1 DEF RefresherOK, NoAccount
    <3>3. \A t \in steady : lookup_table'[t] # NoAccount
      BY <3>1 DEF RefresherOK
    <3> QED
      BY <3>1, <3>2, <3>3 DEF NoGap
  <2> QED
    BY <2>1, <2>2, <2>3, <2>4, <2>5, <2>6 DEF RefresherStep
<1> QED
  BY <1>1, <1>2

\* What is left of the types.
Flags ==
  /\ exit \in BOOLEAN /\ straddled \in BOOLEAN /\ seeded \in BOOLEAN
  /\ schedules = [s \in Slot |-> schedules[s]]

\* Every step keeps them.
LEMMA FlagsKept == Flags /\ [Next]_vars => Flags'
<1> SUFFICES ASSUME Flags, [Next]_vars PROVE Flags'
  OBVIOUS
<1> USE DEF Flags
<1>1. CASE Chain /\ UNCHANGED <<scheduleVars, tableVars>>
  BY <1>1, Zenon DEF Chain, Reach, Announce, SignalExit, scheduleVars, tableVars
<1>2. CASE UpdaterStep /\ UNCHANGED <<rpcVars, tableVars>>
  <2>1. exit' \in BOOLEAN /\ seeded' \in BOOLEAN
    BY <1>2 DEF rpcVars, tableVars
  <2>2. straddled' \in BOOLEAN
    BY <1>2, Zenon DEF UpdaterStep, UpdaterTop, GetEpochInfo, GetLeaderSchedule, UpdateFails
  <2>3. schedules' = [s \in Slot |-> schedules'[s]]
    BY <1>2 DEF UpdaterStep, UpdaterTop, GetEpochInfo, GetLeaderSchedule, UpdateFails, NewSchedule
  <2> QED
    BY <2>1, <2>2, <2>3
<1>3. CASE RefresherStep /\ UNCHANGED <<rpcVars, scheduleVars>>
  <2>1. exit' \in BOOLEAN /\ straddled' \in BOOLEAN /\ schedules' = schedules
    BY <1>3 DEF rpcVars, scheduleVars
  <2>2. seeded' \in BOOLEAN
    BY <1>3, Zenon DEF RefresherStep, RefresherExits, RefresherPick, FetchFails, GetProgramAccounts,
                InsertTable, RetainTables
  <2> QED
    BY <2>1, <2>2
<1>4. CASE UNCHANGED vars
  BY <1>4 DEF vars, rpcVars, scheduleVars, tableVars
<1> QED
  BY <1>1, <1>2, <1>3, <1>4 DEF Next

\* Every step preserves the invariant.
LEMMA NextCaches == IInv /\ [Next]_vars => IInv'
<1> SUFFICES ASSUME IInv, [Next]_vars PROVE IInv'
  OBVIOUS
<1>1. CASE Next
  BY <1>1, ChainStep, UpdaterKeeps, RefresherKeeps DEF Next
<1>2. CASE UNCHANGED vars
  BY <1>2 DEF vars, rpcVars, scheduleVars, tableVars, IInv, ReachedOK, UpdaterOK, RefresherOK,
              TrueLeaders, NoGap
<1> QED
  BY <1>1, <1>2

-----------------------------------------------------------------------------
(* The theorems.                                                            *)

\* The invariant holds in every reachable state.
THEOREM CachesHold == Spec => []IInv
  BY InitCaches, NextCaches, PTL DEF Spec

\* Every variable of the caches and the servers keeps its type.
THEOREM TypeCorrect == Spec => []TypeOK
<1>1. Init => Flags
  BY Zenon DEF Init, RpcInit, ScheduleInit, TablesInit, Flags
<1>2. IInv /\ Flags => TypeOK
  BY DEF IInv, Flags, TypeOK, ReachedOK, UpdaterOK, RefresherOK, Fetching, Inserting
<1> QED
  BY <1>1, <1>2, FlagsKept, CachesHold, PTL DEF Spec

\* update_leader_cache stores true leaders unless an epoch began between its two calls,
\* for any schedule, any length of an epoch and any number of servers.
THEOREM LeadersAreTrue == Spec => []TrueLeaders
  BY CachesHold, PTL DEF IInv

\* A packet thread finds every table that all answers held, in the middle of a refresh
\* too, for any number of tables.
THEOREM TablesHaveNoGap == Spec => []NoGap
  BY CachesHold, PTL DEF IInv

-----------------------------------------------------------------------------
(* The caches as a whole: what they hold comes from one answer.             *)

\* The leaders cached are all of one epoch's, unless an epoch began between the calls.
WholeEpoch ==
  \/ schedules = [s \in Slot |-> NoLeader]
  \/ straddled
  \/ \E n \in Past : schedules = NewSchedule(FirstSlotOf(n), FirstSlotOf(n))

\* The epoch the updater was told of is that of a slot.
EpochOfSlot ==
  updater.at = "schedule" => \E n \in Past : /\ updater.epoch = FirstSlotOf(n)
                                             /\ updater.epoch_offset = FirstSlotOf(n)

\* In a refresh, the accounts are those of a slot, and those done are noted and in the
\* map exactly when they are readable.
DoneSoFar ==
  refresher.at = "insert" =>
    /\ \E n \in Past : refresher.accounts = TablesAt[n]
    /\ refresher.new_pubkeys =
         {t \in Table \ refresher.todo : Readable(refresher.accounts[t])}
    /\ \A t \in refresher.new_pubkeys : lookup_table[t] = refresher.accounts[t]
ContentsInv == WholeEpoch /\ EpochOfSlot /\ OneSnapshot /\ DoneSoFar

\* What a server has reached is past, and stays so.
LEMMA PastGrows ==
  /\ IInv => \A s \in Server : reached[s] \in Past
  /\ IInv /\ [Next]_vars => Past \subseteq Past'
<1>1. ASSUME IInv, NEW s \in Server PROVE reached[s] \in Past
  <2>1. reached[s] \in Slot /\ reached[s] \in Int
    BY <1>1, ScheduleAssumption DEF IInv, ReachedOK, Slot
  <2> QED
    BY <2>1 DEF Past
<1>2. ASSUME IInv, [Next]_vars PROVE Past \subseteq Past'
  <2>1. \A s \in Server : reached[s] \in Int /\ reached'[s] \in Int /\ reached[s] <= reached'[s]
    <3>1. CASE UNCHANGED reached
      BY <1>2, <3>1, ScheduleAssumption DEF IInv, ReachedOK, Slot
    <3>2. ASSUME NEW s \in Server, Reach(s)
          PROVE  \A r \in Server : reached[r] \in Int /\ reached'[r] \in Int /\ reached[r] <= reached'[r]
      BY <1>2, <3>2, ScheduleAssumption DEF IInv, ReachedOK, Reach, Slot
    <3> QED
      BY <1>2, <3>1, <3>2 DEF Next, Chain, Announce, SignalExit, vars, rpcVars
  <2>2. \A n \in Slot : n \in Int
    BY ScheduleAssumption DEF Slot
  <2> QED
    BY <2>1, <2>2 DEF Past
<1> QED
  BY <1>1, <1>2

\* An update replaces the whole map by the leaders of one epoch.
LEMMA UpdaterContents ==
  ASSUME IInv, WholeEpoch, EpochOfSlot, Past \subseteq Past', [UpdaterStep]_scheduleVars
  PROVE  WholeEpoch' /\ EpochOfSlot'
<1>1. CASE UpdaterTop
  BY <1>1 DEF UpdaterTop, WholeEpoch, EpochOfSlot
<1>2. CASE GetEpochInfo
  <2>1. updater.rpc \in Server /\ reached[updater.rpc] \in Past
    BY <1>2, PastGrows DEF IInv, GetEpochInfo, UpdaterOK
  <2>2. updater'.epoch = FirstSlotOf(reached[updater.rpc])
        /\ updater'.epoch_offset = FirstSlotOf(reached[updater.rpc])
    BY <1>2, <2>1, FirstSlotInt DEF GetEpochInfo, Past
  <2> QED
    BY <1>2, <2>1, <2>2 DEF GetEpochInfo, WholeEpoch, EpochOfSlot
<1>3. CASE GetLeaderSchedule
  <2> DEFINE first == FirstSlotOf(reached[updater.rpc])
  <2>1. PICK n \in Past : updater.epoch = FirstSlotOf(n) /\ updater.epoch_offset = FirstSlotOf(n)
    BY <1>3 DEF GetLeaderSchedule, EpochOfSlot
  <2>2. /\ schedules' = NewSchedule(first, FirstSlotOf(n))
        /\ straddled' = (first # FirstSlotOf(n))
        /\ updater' = [at |-> "top"]
    BY <1>3, <2>1, Zenon DEF GetLeaderSchedule
  <2> HIDE DEF first
  <2>3. CASE first = FirstSlotOf(n)
    BY <2>2, <2>3 DEF WholeEpoch, EpochOfSlot
  <2>4. CASE first # FirstSlotOf(n)
    BY <2>2, <2>4, Zenon DEF WholeEpoch, EpochOfSlot
  <2> QED
    BY <2>3, <2>4
<1>4. CASE UpdateFails
  BY <1>4 DEF UpdateFails, WholeEpoch, EpochOfSlot
<1>5. CASE UNCHANGED scheduleVars
  BY <1>5 DEF scheduleVars, WholeEpoch, EpochOfSlot
<1> QED
  BY <1>1, <1>2, <1>3, <1>4, <1>5 DEF UpdaterStep

\* A refresh ends with the readable tables of its answer, and nothing else.
LEMMA RefresherContents ==
  ASSUME IInv, OneSnapshot, DoneSoFar, Past \subseteq Past', [RefresherStep]_tableVars
  PROVE  OneSnapshot' /\ DoneSoFar'
<1>1. CASE RefresherExits
  BY <1>1 DEF RefresherExits, OneSnapshot, DoneSoFar
<1>2. CASE RefresherPick
  BY <1>2 DEF RefresherPick, IInv, RefresherOK, OneSnapshot, DoneSoFar
<1>3. CASE FetchFails
  BY <1>3 DEF FetchFails, OneSnapshot, DoneSoFar
<1>4. CASE GetProgramAccounts
  <2> DEFINE accounts == TablesAt[reached[refresher.rpc]]
  <2>1. refresher.rpc \in Server /\ reached[refresher.rpc] \in Past
    BY <1>4, PastGrows DEF IInv, GetProgramAccounts, RefresherOK, Fetching, Inserting
  <2>2. /\ refresher'.at = "insert" /\ refresher'.accounts = accounts
        /\ refresher'.todo = {t \in Table : accounts[t] # NoAccount}
        /\ refresher'.new_pubkeys = {}
    BY <1>4 DEF GetProgramAccounts
  <2>3. \E n \in Past : refresher'.accounts = TablesAt[n]
    BY <2>1, <2>2
  <2> HIDE DEF accounts
  <2> QED
    BY <2>2, <2>3 DEF OneSnapshot, DoneSoFar, Readable
<1>5. ASSUME NEW t \in Table, InsertTable(t)
      PROVE  OneSnapshot' /\ DoneSoFar'
  <2>1. refresher \in Inserting /\ refresher.at = "insert" /\ lookup_table \in [Table -> Int]
    BY <1>5 DEF IInv, InsertTable, RefresherOK, Fetching
  <2>2. /\ refresher'.at = "insert" /\ refresher'.accounts = refresher.accounts
        /\ refresher'.todo = refresher.todo \ {t}
    BY <1>5, <2>1, Zenon DEF InsertTable, Inserting
  <2>3. CASE Readable(refresher.accounts[t])
    <3>1. /\ refresher'.new_pubkeys = refresher.new_pubkeys \cup {t}
          /\ lookup_table' = [lookup_table EXCEPT ![t] = refresher.accounts[t]]
      BY <1>5, <2>1, <2>3, Zenon DEF InsertTable, Inserting, Noted
    <3> QED
      BY <2>1, <2>2, <2>3, <3>1 DEF OneSnapshot, DoneSoFar, Inserting
  <2>4. CASE ~Readable(refresher.accounts[t])
    <3>1. refresher'.new_pubkeys = refresher.new_pubkeys /\ lookup_table' = lookup_table
      BY <1>5, <2>1, <2>4 DEF InsertTable, Inserting
    <3> QED
      BY <2>1, <2>2, <2>4, <3>1 DEF OneSnapshot, DoneSoFar
  <2> QED
    BY <2>3, <2>4
<1>6. CASE RetainTables
  <2>1. PICK n \in Past : refresher.accounts = TablesAt[n]
    BY <1>6 DEF RetainTables, DoneSoFar
  <2>2. /\ refresher.at = "insert" /\ refresher.todo = {}
        /\ refresher' = [at |-> "top"]
        /\ lookup_table' = [t \in Table |-> IF t \in refresher.new_pubkeys
                                            THEN lookup_table[t] ELSE NoAccount]
    BY <1>6 DEF RetainTables, Retained
  <2>3. lookup_table' = Usable(n)
    BY <2>1, <2>2 DEF DoneSoFar, Usable
  <2> QED
    BY <2>2, <2>3 DEF OneSnapshot, DoneSoFar
<1>7. CASE UNCHANGED tableVars
  BY <1>7 DEF tableVars, OneSnapshot, DoneSoFar
<1> QED
  BY <1>1, <1>2, <1>3, <1>4, <1>5, <1>6, <1>7 DEF RefresherStep

\* The maps begin empty, and every step keeps their contents whole.
LEMMA ContentsKept ==
  /\ Init => ContentsInv
  /\ IInv /\ ContentsInv /\ [Next]_vars => ContentsInv'
<1>1. Init => ContentsInv
  BY DEF Init, RpcInit, ScheduleInit, TablesInit, ContentsInv, WholeEpoch, EpochOfSlot,
         OneSnapshot, DoneSoFar
<1>2. ASSUME IInv, ContentsInv, [Next]_vars PROVE ContentsInv'
  <2>1. [UpdaterStep]_scheduleVars /\ [RefresherStep]_tableVars
    BY <1>2, Zenon DEF Next, vars
  <2> QED
    BY <1>2, <2>1, PastGrows, UpdaterContents, RefresherContents DEF ContentsInv
<1> QED
  BY <1>1, <1>2

\* The schedule the event loop reads is empty or complete: update_leader_cache replaces
\* it in one piece by all leaders of the epoch of a slot some server had reached, unless
\* an epoch began between its two calls.
THEOREM ScheduleIsWhole == Spec => []WholeEpoch
  BY CachesHold, ContentsKept, PTL DEF Spec, ContentsInv

\* Failed calls, unreadable accounts and closed tables leave nothing behind: when a
\* refresh has ended, the map is exactly the readable part of the one answer it was made
\* from, whatever it held before.
THEOREM TablesAreOneAnswer == Spec => []OneSnapshot
  BY CachesHold, ContentsKept, PTL DEF Spec, ContentsInv
=============================================================================
