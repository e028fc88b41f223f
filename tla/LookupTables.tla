---------------------------- MODULE LookupTables ----------------------------
(***************************************************************************)
(* The thread of transaction-relayer/src/main.rs that keeps the address    *)
(* lookup tables the OFAC check resolves addresses with.  A refresh asks   *)
(* for every table, inserts the readable ones one by one and then removes  *)
(* those that were not among them; the packet threads read the map at any  *)
(* moment in between.  The time between two refreshes is left open.        *)
(***************************************************************************)
EXTENDS RpcServers, Integers

CONSTANTS
  Table,               \* addresses of lookup tables
  TablesAt             \* the account of each table as of each slot

\* A readable account is numbered by its contents.
NoAccount == 0
Garbled == -1

ASSUME TablesAssumption == TablesAt \in [Slot -> [Table -> Int]]

VARIABLES
  refresher,           \* where the refresher thread is, and the locals of its call
  lookup_table,        \* the shared map; NoAccount where it has no entry
  seeded,              \* history: a refresh has come to its end
  steady               \* history: tables readable in every answer

tableVars == <<refresher, lookup_table, seeded, steady>>

\* The seed refresh comes before the first look at exit.
TablesInit ==
  /\ refresher = [at |-> "seed"]
  /\ lookup_table = [t \in Table |-> NoAccount]
  /\ seeded = FALSE
  /\ steady = Table

\* while !exit.load()
RefresherExits ==
  /\ refresher.at = "top" /\ exit
  /\ refresher' = [at |-> "exited"]
  /\ UNCHANGED <<lookup_table, seeded, steady>>

\* refresh_duration is over and rpc_client() is asked for a server.
RefresherPick ==
  /\ refresher.at = "seed" \/ (refresher.at = "top" /\ ~exit)
  /\ \E s \in rpc_client : refresher' = [at |-> "fetch", rpc |-> s]
  /\ UNCHANGED <<lookup_table, seeded, steady>>

\* get_program_accounts returns with an error: nothing is touched.
FetchFails ==
  /\ refresher.at = "fetch"
  /\ refresher' = [at |-> "top"]
  /\ UNCHANGED <<lookup_table, seeded, steady>>

Readable(account) == account \notin {NoAccount, Garbled}

\* The answer is as of the slot the server has reached, older perhaps than the last.
GetProgramAccounts ==
  /\ refresher.at = "fetch"
  /\ LET accounts == TablesAt[reached[refresher.rpc]]
     IN  /\ refresher' = [at |-> "insert", accounts |-> accounts,
                          todo |-> {t \in Table : accounts[t] # NoAccount},
                          new_pubkeys |-> {}]
         /\ steady' = {t \in steady : Readable(accounts[t])}
  /\ UNCHANGED <<lookup_table, seeded>>

\* new_pubkeys.insert(pubkey)
MutNoted(t) == IF lookup_table[t] = NoAccount THEN {t} ELSE {}
Noted(t) == {t}

\* One round of the loop: an account that does not deserialize is only logged.
InsertTable(t) ==
  /\ refresher.at = "insert"
  /\ t \in refresher.todo
  /\ \/ /\ Readable(refresher.accounts[t])
        /\ refresher' = [refresher EXCEPT !.todo = @ \ {t}, !.new_pubkeys = @ \cup Noted(t)]
        /\ lookup_table' = [lookup_table EXCEPT ![t] = refresher.accounts[t]]
     \/ /\ ~Readable(refresher.accounts[t])
        /\ refresher' = [refresher EXCEPT !.todo = @ \ {t}]
        /\ UNCHANGED lookup_table
  /\ UNCHANGED <<seeded, steady>>

\* The tables the closure of retain keeps.
MutRetained == refresher.new_pubkeys \cup
               {t \in Table : refresher.accounts[t] # NoAccount}
Retained == refresher.new_pubkeys

RetainTables ==
  /\ refresher.at = "insert"
  /\ refresher.todo = {}
  /\ refresher' = [at |-> "top"]
  /\ lookup_table' = [t \in Table |-> IF t \in Retained THEN lookup_table[t] ELSE NoAccount]
  /\ seeded' = TRUE
  /\ UNCHANGED steady

RefresherStep ==
  \/ RefresherExits
  \/ RefresherPick
  \/ FetchFails
  \/ GetProgramAccounts
  \/ \E t \in Table : InsertTable(t)
  \/ RetainTables
=============================================================================
