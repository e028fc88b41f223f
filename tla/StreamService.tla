--------------------------- MODULE StreamService ---------------------------
(***************************************************************************)
(* What a validator is promised of its streams, without queues, health,    *)
(* schedules or heartbeats: a stream waits, is served, and is over, never  *)
(* the other way round; a validator has one that is served; and the        *)
(* message batches on it are those of the input, in order.                 *)
(* RelayerLoop.tla is shown to implement this specification.               *)
(***************************************************************************)
EXTENDS Naturals, Sequences

CONSTANTS
  Connection,
  Message     \* the message batches of the whole input: sequences of packets <<n, i>>

VARIABLES
  owner,      \* whose each connection is
  life,       \* "new", "waiting", "served" or "over", of each connection
  got         \* the message batches put on each stream

streamVars == <<owner, life, got>>

StreamInit ==
  /\ life = [c \in Connection |-> "new"]
  /\ got = [c \in Connection |-> <<>>]

At(stage) == {c \in Connection : life[c] = stage}

Earlier(p, q) == p[1] < q[1] \/ (p[1] = q[1] /\ p[2] < q[2])
InOrder(s) ==
  \A k, l \in DOMAIN s : \A i \in DOMAIN s[k], j \in DOMAIN s[l] :
    k < l \/ (k = l /\ i < j) => Earlier(s[k][i], s[l][j])

End(gone) ==
  life' = [c \in Connection |-> IF c \in gone THEN "over" ELSE life[c]]

Join(c) == c \in At("new") /\ life' = [life EXCEPT ![c] = "waiting"] /\ UNCHANGED <<owner, got>>

\* A stream that is taken ends the one its validator had.
Begin(c) ==
  /\ c \in At("waiting")
  /\ life' = [d \in Connection |-> CASE d = c -> "served"
                                     [] d \in At("served") /\ owner[d] = owner[c] -> "over"
                                     [] OTHER -> life[d]]
  /\ UNCHANGED <<owner, got>>

Drop(gone) == End(gone) /\ UNCHANGED <<owner, got>>

\* One message batch goes to some of the streams, and others may be found closed.
Deliver(message, to, gone) ==
  /\ \A c \in to : InOrder(Append(got[c], message))
  /\ got' = [c \in Connection |-> IF c \in to THEN Append(got[c], message) ELSE got[c]]
  /\ End(gone)
  /\ UNCHANGED owner

Quit ==
  /\ life' = [c \in Connection |-> IF c \in At("waiting") THEN "over" ELSE life[c]]
  /\ UNCHANGED <<owner, got>>

StreamNext ==
  \/ \E c \in Connection : Join(c) \/ Begin(c)
  \/ \E gone \in SUBSET At("served") :
       \/ Drop(gone)
       \/ \E to \in SUBSET (At("served") \ gone), message \in Message : Deliver(message, to, gone)
  \/ Quit

StreamSpec == StreamInit /\ [][StreamNext]_streamVars
=============================================================================
