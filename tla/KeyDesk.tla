------------------------------ MODULE KeyDesk ------------------------------
(***************************************************************************)
(* What the auth service promises, without strings, locks, a capacity or   *)
(* times: a challenge stands at an address for one key; who proves to have *)
(* that key while it stands gets a session under it, and the address is    *)
(* cleared.  AuthService.tla is shown to implement this specification.     *)
(***************************************************************************)
CONSTANTS Validator, Ip, AddressesOf

VARIABLES
  standing,   \* the key each address has a challenge for, in a set; or none
  stage       \* nothing, a proof that was accepted, or a session, for each validator

deskVars == <<standing, stage>>

Nothing == [at |-> "nothing"]
Proved(ip) == [at |-> "proved", ip |-> ip]
SessionAs(key) == [at |-> "session", key |-> key]

DeskInit == standing = [i \in Ip |-> {}] /\ stage = [v \in Validator |-> Nothing]

Issue(v, ip) ==
  /\ ip \in AddressesOf[v]
  /\ stage[v] = Nothing
  /\ standing' = [standing EXCEPT ![ip] = {v}]
  /\ UNCHANGED stage

Prove(v, ip) ==
  /\ stage[v] = Nothing
  /\ standing[ip] = {v}
  /\ stage' = [stage EXCEPT ![v] = Proved(ip)]
  /\ UNCHANGED standing

OpenSession(v, ip) ==
  /\ stage[v] = Proved(ip)
  /\ standing' = [standing EXCEPT ![ip] = {}]
  /\ stage' = [stage EXCEPT ![v] = SessionAs(v)]

Leave(v) == stage' = [stage EXCEPT ![v] = Nothing] /\ UNCHANGED standing

Expire(gone) ==
  /\ standing' = [i \in Ip |-> IF i \in gone THEN {} ELSE standing[i]]
  /\ UNCHANGED stage

DeskNext ==
  \/ \E v \in Validator : \/ Leave(v)
                          \/ \E ip \in Ip : Issue(v, ip) \/ Prove(v, ip) \/ OpenSession(v, ip)
  \/ \E gone \in SUBSET Ip : Expire(gone)

DeskSpec == DeskInit /\ [][DeskNext]_deskVars
=============================================================================
