----------------------------- MODULE SlotBoard -----------------------------
(***************************************************************************)
(* What the load balancer promises the health manager, without threads,    *)
(* connections or a channel: every slot above all earlier ones is owed a   *)
(* report, is reported once, and is not forgotten while somebody listens.  *)
(* LoadBalancer.tla is shown to implement this specification.              *)
(***************************************************************************)
EXTENDS Naturals, Sequences

CONSTANT Slot

VARIABLES
  highest,    \* the highest slot announced
  owed,       \* slots that were the highest and are not reported yet
  reported,   \* slots reported, in order
  listens     \* the health manager listens

boardVars == <<highest, owed, reported, listens>>

BoardInit == highest = 0 /\ owed = {} /\ reported = <<>> /\ listens = TRUE

Announce(slot) ==
  /\ slot > highest
  /\ highest' = slot
  /\ owed' = owed \cup {slot}
  /\ UNCHANGED <<reported, listens>>

Report(slot) ==
  /\ listens
  /\ owed' = owed \ {slot}
  /\ reported' = Append(reported, slot)
  /\ UNCHANGED <<highest, listens>>

Forget(slot) == ~listens /\ owed' = owed \ {slot} /\ UNCHANGED <<highest, reported, listens>>

Leave == listens /\ listens' = FALSE /\ UNCHANGED <<highest, owed, reported>>

BoardNext ==
  \/ \E slot \in Slot : Announce(slot)
  \/ \E slot \in owed : Report(slot) \/ Forget(slot)
  \/ Leave

BoardSpec == BoardInit /\ [][BoardNext]_boardVars
=============================================================================
