------------------------------ MODULE Shutdown ------------------------------
(***************************************************************************)
(* The end of the process: shutdown_signal and the joins of main, the      *)
(* panic hook of core/src/lib.rs, and the two threads whose end depends on *)
(* the order in which their neighbours end, the health manager and the     *)
(* fetch stage.  Two waits of main depend on others: for validators to     *)
(* leave their streams, and for the block engine thread, whose calls have  *)
(* no timeout (BlockEngine.tla).  main joins neither the event loop nor    *)
(* the subscription threads.                                               *)
(*                                                                         *)
(* A thread that panics stays in the hook, with its ends of its channels,  *)
(* until the hook ends the process; the others run on meanwhile.           *)
(***************************************************************************)
EXTENDS HealthManager, FetchStage

VARIABLES
  main,                \* serving, draining, joining or returned
  joined,              \* how many threads main has joined
  forwarders,          \* the forwarder threads run
  process              \* running, or how it ended

mainVars == <<main, joined, forwarders, process>>
allVars == <<vars, fetchVars, mainVars>>

\* The joins of main.  Left out are those of the threads that refresh staked nodes, leaders
\* and lookup tables, which wait for nobody but an RPC client that gives up.
Joins == <<"tpu", "health_manager", "forwarders", "block_engine">>

ShutdownInit ==
  /\ Init /\ FetchInit
  /\ main = "serving" /\ joined = 0
  /\ forwarders = TRUE
  /\ process = "running"

-----------------------------------------------------------------------------
(* main and the hook.                                                      *)

\* shutdown_signal raises exit; the server stops taking calls.
Signal ==
  /\ main = "serving"
  /\ SignalExit
  /\ main' = "draining"
  /\ UNCHANGED <<fetchVars, joined, forwarders, process>>

\* serve_with_shutdown returns once no stream is open, at once or when the validators have
\* hung up.  The end of the event loop ends no stream: RelayerImpl and RelayerHandle hold
\* the senders too.
ServeReturns ==
  /\ main = "draining"
  /\ main' = "joining"
  /\ UNCHANGED <<vars, fetchVars, joined, forwarders, process>>

\* tpu.join() waits for all its threads.  The block engine thread ends some time after
\* exit, once the calls it is in are answered.
Ended(thread) ==
  CASE thread = "tpu" -> fetch = "exited" /\ ~sigverify /\ ~quic
    [] thread = "health_manager" -> manager = "exited"
    [] thread = "forwarders" -> ~forwarders
    [] thread = "block_engine" -> exit

Join ==
  /\ main = "joining"
  /\ joined < Len(Joins)
  /\ Ended(Joins[joined + 1])
  /\ joined' = joined + 1
  /\ UNCHANGED <<vars, fetchVars, main, forwarders, process>>

MainReturns ==
  /\ joined = Len(Joins)
  /\ main' = "returned"
  /\ process' = "returned"
  /\ UNCHANGED <<vars, fetchVars, joined, forwarders>>

ForwardersEnd ==
  /\ exit /\ forwarders
  /\ forwarders' = FALSE
  /\ UNCHANGED <<vars, fetchVars, main, joined, process>>

Panicked == manager = "panicked" \/ fetch = "panicked"

\* The five seconds are over: process::exit(1).
HookExits ==
  /\ Panicked
  /\ process' = "failed"
  /\ UNCHANGED <<vars, fetchVars, main, joined, forwarders>>

-----------------------------------------------------------------------------
(* The threads side by side.                                               *)

ManagerStep == LoopTop \/ CheckHealth \/ RecvSlot \/ SendSlot \/ Panic
ManagerSurroundings == SlotArrives \/ RelayerTakesSlot \/ SendersExit \/ RelayerExits \/ Tick

FetchStep == FetchTop(exit) \/ FetchRecv \/ FetchDrain \/ FetchSend
FetchSurroundings ==
  BatchArrives \/ QuicEnds(exit) \/ VerifierTakes \/ VerifierEnds(forwarders)

\* FetchPanic with the hook, which raises exit.
FetchFails ==
  /\ FetchPanic
  /\ exit' = TRUE
  /\ UNCHANGED <<incoming, senders, manager, elapsed, next_check, health_state, downstream,
                 relayer, mainVars>>

MainStep == ServeReturns \/ Join \/ MainReturns

\* main waits for validators to hang up, or for the block engine thread to end.
Waits ==
  \/ main = "draining"
  \/ main = "joining" /\ joined < Len(Joins) /\ Joins[joined + 1] = "block_engine"

ShutdownNext ==
  /\ process = "running"
  /\ \/ (ManagerStep \/ ManagerSurroundings) /\ UNCHANGED <<fetchVars, mainVars>>
     \/ (FetchStep \/ FetchSurroundings) /\ UNCHANGED <<vars, mainVars>>
     \/ FetchFails
     \/ Signal \/ MainStep \/ ForwardersEnd \/ HookExits

\* What runs goes on as long as the process does.
Goes(A) == process = "running" /\ A

\* The scheduler runs every thread, time passes and sleeps end; the event loop, the
\* forwarders and the QUIC servers notice exit.  The verifier need not notice that the
\* forwarders are gone, a subscription thread may wait for its server for ever, and
\* nothing makes a validator hang up or the block engine answer.  Threads whose steps are
\* finite in number share a condition.
ShutdownFairness ==
  /\ WF_vars(Goes(ManagerStep \/ Tick))
  /\ WF_vars(Goes(RelayerTakesSlot \/ RelayerExits))
  /\ WF_fetchVars(Goes(FetchStep \/ FetchFails \/ QuicEnds(exit) \/ VerifierTakes
                          \/ VerifierEnds(TRUE)))
  /\ WF_mainVars(Goes((MainStep /\ ~Waits) \/ HookExits \/ ForwardersEnd))

ShutdownSpec == ShutdownInit /\ [][ShutdownNext]_allVars
FairShutdownSpec == ShutdownSpec /\ ShutdownFairness

-----------------------------------------------------------------------------
(* Properties.                                                             *)

\* Every variable has its type, and the channels around the fetch stage keep their bound.
ShutdownTypeOK ==
  /\ TypeOK
  /\ fetch \in {"top", "recv", "drain", "send", "exited", "panicked"}
  /\ Len(forwards) <= QueueCapacity /\ Len(tpu) <= QueueCapacity
  /\ main \in {"serving", "draining", "joining", "returned"}
  /\ joined \in 0 .. Len(Joins)
  /\ forwarders \in BOOLEAN
  /\ process \in {"running", "returned", "failed"}

\* Once exit is raised, by a signal or by a panic, the process ends, unless main comes to
\* wait for a validator that keeps its stream or for the block engine to answer; it waits
\* for each once.  Nothing else holds it up: no thread that main joins waits for ever for
\* one that has ended, and a panic ends the process also while main waits.
ProcessEnds == exit ~> (process # "running" \/ (Waits /\ ~Panicked))

\* "signal received, starting graceful shutdown": after a signal main joins its threads
\* and returns; the process does not end in the panic hook.
GracefulShutdown == process # "failed"
=============================================================================
