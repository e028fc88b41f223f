----------------------------- MODULE DelayLine -----------------------------
(***************************************************************************)
(* What the forwarder promises the validators, without threads, channels   *)
(* or polling: a batch that is accepted is stamped, is released at most    *)
(* once, and is not released before PacketDelay has passed since its       *)
(* stamp.  Forwarder.tla is shown to implement this specification.         *)
(***************************************************************************)
EXTENDS Naturals, Sequences

CONSTANTS
  Batch,         \* the batches that may arrive
  PacketDelay    \* the delay owed to every batch

VARIABLES
  now,    \* the monotonic clock
  held,   \* accepted and not yet released: records [batch, stamp]
  out     \* the releases, in order: records [batch, stamp, at]

lineVars == <<now, held, out>>

Known(b) == \/ \E e \in held : e.batch = b
            \/ \E i \in DOMAIN out : out[i].batch = b

LineInit == /\ now = 0
            /\ held = {}
            /\ out = <<>>

Accept(b) ==
  /\ ~Known(b)
  /\ held' = held \cup {[batch |-> b, stamp |-> now]}
  /\ UNCHANGED <<now, out>>

Release(e) ==
  /\ e \in held
  /\ now >= e.stamp + PacketDelay
  /\ held' = held \ {e}
  /\ out' = Append(out, [batch |-> e.batch, stamp |-> e.stamp, at |-> now])
  /\ UNCHANGED now

Pass == /\ now' = now + 1
        /\ UNCHANGED <<held, out>>

LineNext == \/ \E b \in Batch : Accept(b)
            \/ \E e \in held : Release(e)
            \/ Pass

LineSpec == LineInit /\ [][LineNext]_lineVars
=============================================================================
