--------------------------- MODULE EngineSession ---------------------------
(***************************************************************************)
(* What the block engine and /health are promised, without streams,        *)
(* queues, timers or tokens: a session opens with no batches and no        *)
(* interest left over from an earlier one, and sends what came and was     *)
(* asked for in it, in order.  BlockEngine.tla is shown to implement this  *)
(* specification.                                                          *)
(***************************************************************************)
EXTENDS Naturals, Sequences

CONSTANTS
  Batch,      \* the batches, numbered as they come
  Topics      \* the interests each packet of a batch meets; none if it may not go out

VARIABLES
  up,         \* the engine counts as connected
  fresh,      \* batches that came since the session opened
  wanted,     \* what the engine asked for in it
  sent        \* what it got, in all sessions: records [batch, packets]

sessionVars == <<up, fresh, wanted, sent>>

SessionInit == up = FALSE /\ fresh = {} /\ wanted = {} /\ sent = <<>>

Newer(n) == \A i \in DOMAIN sent : sent[i].batch < n

Open == ~up /\ up' = TRUE /\ fresh' = {} /\ wanted' = {} /\ UNCHANGED sent

Come(n) ==
  /\ Newer(n) /\ \A m \in fresh : m < n
  /\ fresh' = fresh \cup {n}
  /\ UNCHANGED <<up, wanted, sent>>

Ask == up /\ wanted \subseteq wanted' /\ UNCHANGED <<up, fresh, sent>>

Send(n, packets) ==
  /\ up
  /\ Newer(n)
  /\ packets # {} /\ \A p \in packets : Topics[n][p] \cap wanted # {}
  /\ sent' = Append(sent, [batch |-> n, packets |-> packets])
  /\ UNCHANGED <<up, fresh, wanted>>

Close == up /\ up' = FALSE /\ UNCHANGED <<fresh, wanted, sent>>

SessionNext ==
  \/ Open \/ Ask \/ Close
  \/ \E n \in Batch : Come(n)
  \/ \E n \in fresh : \E packets \in SUBSET DOMAIN Topics[n] : Send(n, packets)

SessionSpec == SessionInit /\ [][SessionNext]_sessionVars
=============================================================================
