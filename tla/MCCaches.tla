------------------------------ MODULE MCCaches ------------------------------
(***************************************************************************)
(* Two epochs of two slots, and two tables: as of slot 2 one is extended   *)
(* and the account of the other cannot be read; by slot 3 that is closed.  *)
(***************************************************************************)
EXTENDS Caches, TLC

CONSTANTS extended, closed

Leaders == 0 :> "A" @@ 1 :> "B" @@ 2 :> "B" @@ 3 :> "A"

History ==
  LET at(e, c) == extended :> e @@ closed :> c
  IN  0 :> at(1, 1) @@ 1 :> at(1, 1) @@ 2 :> at(2, Garbled) @@ 3 :> at(2, NoAccount)
=============================================================================
