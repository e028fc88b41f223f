--------------------------- MODULE MCAuthService ---------------------------
(***************************************************************************)
(* Two validators, each with an address of its own, and one they share.    *)
(***************************************************************************)
EXTENDS AuthService, TLC

CONSTANTS v1, v2, shared, own1, own2

Homes == v1 :> {shared, own1} @@ v2 :> {shared, own2}
=============================================================================
