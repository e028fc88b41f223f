-------------------------- MODULE Forwarder_proofs --------------------------
(***************************************************************************)
(* Theorems about Forwarder.tla, for any number of threads, batches, any   *)
(* delay and any channel capacities.                                       *)
(***************************************************************************)
EXTENDS Forwarder, SequenceTheorems, TLAPS

\* A thread that is about to offer a batch holds one; otherwise only a thread
\* that panicked over it still does.
HoldingInv ==
  \A t \in Threads :
    /\ pc[t] = "offer" => holding[t] \in Entry
    /\ pc[t] \notin {"offer", "panicked"} => holding[t] = NoEntry

\* The entry that marks an empty hand is not one a thread can hold.
LEMMA NoEntryNotEntry == NoEntry \notin Entry
BY DEF NoEntry, Entry, Batch

\* Removing the head shifts the others forward.
LEMMA TailFacts ==
  ASSUME NEW S, NEW s \in Seq(S), s # <<>>
  PROVE  /\ Head(s) \in S /\ Head(s) = s[1] /\ 1 \in DOMAIN s
         /\ Tail(s) \in Seq(S) /\ Len(Tail(s)) = Len(s) - 1
         /\ DOMAIN Tail(s) = 1 .. Len(s) - 1
         /\ \A i \in 1 .. Len(s) - 1 : Tail(s)[i] = s[i + 1]
BY HeadTailProperties, LenProperties, EmptySeq

\* Appending keeps the elements and adds one at the end.
LEMMA AppendFacts ==
  ASSUME NEW S, NEW s \in Seq(S), NEW e \in S
  PROVE  /\ Append(s, e) \in Seq(S) /\ Len(Append(s, e)) = Len(s) + 1
         /\ DOMAIN Append(s, e) = 1 .. Len(s) + 1
         /\ Append(s, e)[Len(s) + 1] = e
         /\ \A i \in 1 .. Len(s) : Append(s, e)[i] = s[i]
BY AppendProperties, LenProperties

-----------------------------------------------------------------------------
(* Types.                                                                  *)

TypeInv == TypeOK /\ HoldingInv

\* push_back keeps the types, whatever became of the copy for the engine.
LEMMA PushBackType ==
  ASSUME TypeInv, NEW t \in Threads, pc[t] = "offer",
         NEW o \in Outcome, PushBack(t, o),
         block_engine' \in Seq(Entry), Len(block_engine') <= EngineCapacity
  PROVE  TypeInv'
<1>1. holding[t] \in Entry /\ holding[t].batch \in Batch
  BY DEF TypeInv, HoldingInv, Entry
<1>2. Buffer(t) \in Seq(Entry)
  BY <1>1, AppendFacts DEF TypeInv, TypeOK, Buffer
<1>3. TypeOK'
  BY <1>1, <1>2 DEF TypeInv, TypeOK, PushBack, GoTo
<1>4. HoldingInv'
  BY <1>1 DEF TypeInv, TypeOK, HoldingInv, PushBack, GoTo
<1> QED BY <1>3, <1>4 DEF TypeInv

\* The threads start with empty hands, buffers and channels.
LEMMA InitType == Init => TypeInv
<1> SUFFICES ASSUME Init PROVE TypeInv
  OBVIOUS
<1>1. /\ <<>> \in Seq(Entry) /\ <<>> \in Seq(Batch) /\ <<>> \in Seq(Relay)
      /\ Len(<<>>) = 0
  OBVIOUS
<1>2. TypeOK
  <2>1. clock \in Nat /\ arrived \in 0 .. MaxBatches
    BY ForwarderAssumption DEF Init
  <2>2. verified \in Seq(Batch) /\ relayed \in Seq(Relay)
    BY <1>1 DEF Init
  <2>3. /\ block_engine \in Seq(Entry) /\ Len(block_engine) <= EngineCapacity
        /\ delay_packet \in Seq(Entry) /\ Len(delay_packet) <= DelayCapacity
    BY <1>1, ForwarderAssumption DEF Init
  <2>4. buffered \in [Threads -> Seq(Entry)]
    BY <1>1 DEF Init
  <2>5. holding \in [Threads -> Entry \cup {NoEntry}]
    BY DEF Init
  <2>6. pc \in [Threads -> {"top", "recv", "offer", "drain", "exited", "panicked"}]
    BY DEF Init
  <2>7. disable_mempool \in BOOLEAN /\ exit \in BOOLEAN /\ open \in SUBSET Channel /\ signalled \in BOOLEAN
    BY Zenon DEF Init
  <2>8. offered \in [Batch -> Outcome]
    BY DEF Init, Outcome
  <2> QED BY <2>1, <2>2, <2>3, <2>4, <2>5, <2>6, <2>7, <2>8 DEF TypeOK
<1>3. HoldingInv
  BY Zenon DEF Init, HoldingInv
<1> QED BY <1>2, <1>3 DEF TypeInv

\* Every step keeps the types.
LEMMA NextType == TypeInv /\ [Next]_vars => TypeInv'
<1> SUFFICES ASSUME TypeInv, [Next]_vars PROVE TypeInv'
  OBVIOUS
<1> USE ForwarderAssumption
<1>1. ASSUME NEW t \in Threads, LoopTop(t) PROVE TypeInv'
  BY <1>1 DEF TypeInv, TypeOK, HoldingInv, LoopTop, GoTo, queues, history
<1>2. ASSUME NEW t \in Threads, RecvBatch(t) PROVE TypeInv'
  <2>1. Head(verified) \in Batch /\ Tail(verified) \in Seq(Batch)
    BY <1>2, TailFacts DEF RecvBatch, TypeInv, TypeOK
  <2>2. [batch |-> Head(verified), stamp |-> clock] \in Entry
    BY <2>1 DEF TypeInv, TypeOK, Entry
  <2> QED
    BY <1>2, <2>1, <2>2 DEF TypeInv, TypeOK, HoldingInv, RecvBatch, GoTo, history
<1>3. ASSUME NEW t \in Threads, RecvTimeout(t) PROVE TypeInv'
  BY <1>3 DEF TypeInv, TypeOK, HoldingInv, RecvTimeout, GoTo, queues, history
<1>4. ASSUME NEW t \in Threads, Panic(t), pc[t] \in {"recv", "offer", "drain"} PROVE TypeInv'
  BY <1>4 DEF TypeInv, TypeOK, HoldingInv, Panic, GoTo, queues, history
<1>5. ASSUME NEW t \in Threads, OfferSkipped(t) PROVE TypeInv'
  BY <1>5, PushBackType DEF TypeInv, TypeOK, OfferSkipped, Skips, Outcome
<1>6. ASSUME NEW t \in Threads, OfferSent(t) PROVE TypeInv'
  <2>1. pc[t] = "offer" /\ holding[t] \in Entry
    BY <1>6 DEF OfferSent, Offers, TypeInv, HoldingInv
  <2>2. block_engine' \in Seq(Entry) /\ Len(block_engine') <= EngineCapacity
    BY <1>6, <2>1, AppendFacts, LenProperties DEF OfferSent, TypeInv, TypeOK
  <2> QED BY <1>6, <2>1, <2>2, PushBackType DEF OfferSent, Outcome
<1>7. ASSUME NEW t \in Threads, OfferFull(t) PROVE TypeInv'
  BY <1>7, PushBackType DEF TypeInv, TypeOK, OfferFull, Offers, Outcome
<1>8. ASSUME NEW t \in Threads, DrainSend(t) PROVE TypeInv'
  <2> DEFINE e == Head(buffered[t])
  <2>1. buffered[t] \in Seq(Entry) /\ buffered[t] # <<>>
    BY <1>8 DEF DrainSend, FrontDue, TypeInv, TypeOK
  <2>2. e \in Entry /\ Tail(buffered[t]) \in Seq(Entry)
    BY <2>1, TailFacts
  <2>3. [batch |-> e.batch, stamp |-> e.stamp, at |-> clock] \in Relay
    BY <2>2 DEF TypeInv, TypeOK, Entry, Relay
  <2>4. relayed' \in Seq(Relay)
    BY <1>8, <2>3, AppendFacts DEF DrainSend, TypeInv, TypeOK
  <2>5. delay_packet' \in Seq(Entry) /\ Len(delay_packet') <= DelayCapacity
    BY <1>8, <2>2, AppendFacts, LenProperties DEF DrainSend, DelayRoom, TypeInv, TypeOK
  <2> QED
    BY <1>8, <2>2, <2>4, <2>5 DEF DrainSend, TypeInv, TypeOK, HoldingInv
<1>9. ASSUME NEW t \in Threads, DrainDone(t) PROVE TypeInv'
  BY <1>9 DEF TypeInv, TypeOK, HoldingInv, DrainDone, GoTo, queues, history
<1>10. CASE Arrive
  <2>1. arrived + 1 \in Batch
    BY <1>10 DEF Arrive, TypeInv, TypeOK, Batch
  <2>2. verified' \in Seq(Batch)
    BY <1>10, <2>1, AppendFacts DEF Arrive, TypeInv, TypeOK
  <2> QED BY <1>10, <2>1, <2>2 DEF TypeInv, TypeOK, HoldingInv, Arrive, Batch, history
<1>11. CASE EngineRecv
  BY <1>11, TailFacts, LenProperties DEF TypeInv, TypeOK, HoldingInv, EngineRecv, history
<1>12. CASE RelayerRecv
  BY <1>12, TailFacts, LenProperties DEF TypeInv, TypeOK, HoldingInv, RelayerRecv, history
<1>13. CASE SignalExit
  BY <1>13 DEF TypeInv, TypeOK, HoldingInv, SignalExit, queues
<1>14. ASSUME NEW c \in Channel, Hangup(c) PROVE TypeInv'
  BY <1>14 DEF TypeInv, TypeOK, HoldingInv, Hangup, queues, history
<1>15. CASE Tick
  BY <1>15 DEF TypeInv, TypeOK, HoldingInv, Tick, queues, history
<1>16. CASE UNCHANGED vars
  BY <1>16 DEF TypeInv, TypeOK, HoldingInv, vars
<1> QED
  BY <1>1, <1>2, <1>3, <1>4, <1>5, <1>6, <1>7, <1>8, <1>9, <1>10, <1>11, <1>12, <1>13, <1>14,
     <1>15, <1>16
  DEF Next, Step, RecvDisconnected, OfferClosed, Offers, DrainDisconnected

\* Every variable keeps its type and both bounded channels their capacity, for
\* every number of forwarder threads.
THEOREM TypeCorrect == Spec => []TypeOK
<1>1. Spec => []TypeInv
  BY InitType, NextType, PTL DEF Spec
<1> QED BY <1>1, PTL DEF TypeInv

-----------------------------------------------------------------------------
(* No loss and no duplication.  A batch is its arrival number, so what the *)
(* threads have taken are the batches 1 .. Taken, and verified holds the   *)
(* rest in order.                                                          *)

Taken == arrived - Len(verified)

QueueInv ==
  /\ Len(verified) <= arrived
  /\ \A i \in DOMAIN verified : verified[i] = Taken + i

\* One thread's own batches are distinct.
DistinctInv ==
  \A t \in Threads :
    /\ \A i, j \in DOMAIN buffered[t] : buffered[t][i].batch = buffered[t][j].batch => i = j
    /\ \A i \in DOMAIN buffered[t] : buffered[t][i].batch # holding[t].batch

\* Every batch taken is in exactly one place, once.
PlaceInv ==
  /\ \A b \in Batch : b <= Taken <=> Relayed(b) \/ \E t \in Threads : HeldBy(t, b)
  /\ \A b \in Batch, t \in Threads : HeldBy(t, b) => ~Relayed(b)
  /\ \A b \in Batch, t, u \in Threads : HeldBy(t, b) /\ HeldBy(u, b) => t = u
  /\ \A i, j \in DOMAIN relayed : relayed[i].batch = relayed[j].batch => i = j

BookInv == TypeInv /\ QueueInv /\ DistinctInv /\ PlaceInv

\* What receiving the head of verified does to the books.
LEMMA RecvBook ==
  ASSUME BookInv, NEW t \in Threads, RecvBatch(t)
  PROVE  QueueInv' /\ DistinctInv' /\ PlaceInv'
<1> DEFINE new == Head(verified)
<1>1. /\ verified \in Seq(Batch) /\ verified # <<>> /\ new = Taken + 1 /\ new \in Batch
      /\ arrived \in Nat /\ Len(verified) \in Nat /\ Len(verified) <= arrived
  BY TailFacts, LenProperties DEF BookInv, TypeInv, TypeOK, QueueInv, RecvBatch
<1>2. /\ Len(verified') = Len(verified) - 1 /\ arrived' = arrived /\ Taken' = Taken + 1
      /\ DOMAIN verified = 1 .. Len(verified) /\ DOMAIN verified' = 1 .. Len(verified) - 1
      /\ \A i \in 1 .. Len(verified) - 1 : verified'[i] = verified[i + 1]
  BY <1>1, TailFacts, LenProperties DEF RecvBatch, Taken
<1>3. QueueInv'
  <2>1. ASSUME NEW i \in DOMAIN verified' PROVE verified'[i] = Taken' + i
    <3>1. i \in 1 .. Len(verified) - 1 /\ i + 1 \in DOMAIN verified
      BY <1>1, <1>2
    <3>2. verified'[i] = Taken + (i + 1)
      BY <3>1, <1>2 DEF BookInv, QueueInv
    <3> QED BY <3>1, <3>2, <1>1, <1>2 DEF Taken
  <2> QED BY <2>1, <1>1, <1>2 DEF QueueInv
<1>4. /\ holding[t] = NoEntry /\ holding'[t].batch = new
      /\ \A u \in Threads \ {t} : holding'[u] = holding[u]
      /\ buffered' = buffered /\ relayed' = relayed
  BY Zenon DEF BookInv, TypeInv, TypeOK, HoldingInv, RecvBatch, history
<1>5. \A u \in Threads, b \in Batch : HeldBy(u, b)' <=> HeldBy(u, b) \/ (u = t /\ b = new)
  BY <1>4 DEF HeldBy, NoEntry, Batch
<1>6. \A b \in Batch : Relayed(b)' <=> Relayed(b)
  BY <1>4 DEF Relayed
<1>7. ~Relayed(new) /\ \A u \in Threads : ~HeldBy(u, new)
  BY <1>1 DEF BookInv, PlaceInv, Taken
<1>8. DistinctInv'
  BY <1>4, <1>7, SMTT(30) DEF BookInv, DistinctInv, HeldBy
<1>9. \A b \in Batch : b <= Taken' <=> b <= Taken \/ b = new
  BY <1>1, <1>2 DEF Taken, Batch
<1>10. \A i, j \in DOMAIN relayed' : relayed'[i].batch = relayed'[j].batch => i = j
  BY <1>4 DEF BookInv, PlaceInv
<1>11. PlaceInv'
  BY <1>5, <1>6, <1>7, <1>9, <1>10 DEF BookInv, PlaceInv
<1> QED BY <1>3, <1>8, <1>11

\* Pushing the batch in hand to the buffer moves it, and nothing else.
LEMMA PushBook ==
  ASSUME BookInv, NEW t \in Threads, pc[t] = "offer", NEW o, PushBack(t, o)
  PROVE  QueueInv' /\ DistinctInv' /\ PlaceInv'
<1>1. /\ holding[t] \in Entry /\ buffered[t] \in Seq(Entry)
      /\ holding'[t] = NoEntry /\ buffered'[t] = Append(buffered[t], holding[t])
      /\ \A u \in Threads \ {t} : holding'[u] = holding[u] /\ buffered'[u] = buffered[u]
      /\ relayed' = relayed /\ verified' = verified /\ arrived' = arrived
  BY DEF BookInv, TypeInv, TypeOK, HoldingInv, PushBack, Buffer
<1> DEFINE n == Len(buffered[t])
<1>2. /\ n \in Nat /\ DOMAIN buffered[t] = 1 .. n /\ DOMAIN buffered'[t] = 1 .. n + 1
      /\ buffered'[t][n + 1] = holding[t]
      /\ \A i \in 1 .. n : buffered'[t][i] = buffered[t][i]
  BY <1>1, AppendFacts, LenProperties, SMTT(30)
<1>3. /\ \A i \in 1 .. n + 1 : buffered'[t][i] \in Entry
      /\ 0 \notin Batch /\ NoEntry.batch = 0
  BY <1>1, <1>2, ElementOfSeq, SMTT(30) DEF NoEntry, Batch
<1>4. QueueInv'
  BY <1>1 DEF BookInv, QueueInv, Taken
<1>5. \A b \in Batch : HeldBy(t, b)' <=> HeldBy(t, b)
  BY <1>1, <1>2, <1>3, SMTT(30) DEF HeldBy
<1>6. \A u \in Threads, b \in Batch : HeldBy(u, b)' <=> HeldBy(u, b)
  <2>1. \A u \in Threads \ {t}, b \in Batch : HeldBy(u, b)' <=> HeldBy(u, b)
    BY <1>1 DEF HeldBy
  <2> QED BY <2>1, <1>5
<1>7. DistinctInv'
  <2>0. /\ \A i, j \in 1 .. n : buffered[t][i].batch = buffered[t][j].batch => i = j
        /\ \A i \in 1 .. n : buffered[t][i].batch # holding[t].batch
    BY <1>2 DEF BookInv, DistinctInv
  <2>1. \A i, j \in DOMAIN buffered'[t] : buffered'[t][i].batch = buffered'[t][j].batch => i = j
    <3> SUFFICES ASSUME NEW i \in 1 .. n + 1, NEW j \in 1 .. n + 1,
                        buffered'[t][i].batch = buffered'[t][j].batch
                 PROVE  i = j
      BY <1>2
    <3>1. (i \in 1 .. n \/ i = n + 1) /\ (j \in 1 .. n \/ j = n + 1)
      BY <1>2
    <3> QED BY <3>1, <2>0, <1>2, Zenon
  <2>2. \A i \in DOMAIN buffered'[t] : buffered'[t][i].batch # holding'[t].batch
    BY <1>1, <1>2, <1>3 DEF Entry
  <2>3. \A u \in Threads \ {t} : buffered'[u] = buffered[u] /\ holding'[u] = holding[u]
    BY <1>1
  <2>4. ASSUME NEW u \in Threads \ {t}
        PROVE  /\ \A i, j \in DOMAIN buffered'[u] : buffered'[u][i].batch = buffered'[u][j].batch => i = j
               /\ \A i \in DOMAIN buffered'[u] : buffered'[u][i].batch # holding'[u].batch
    BY <2>3, SMTT(30) DEF BookInv, DistinctInv
  <2> QED BY <2>1, <2>2, <2>4 DEF DistinctInv
<1>8. PlaceInv'
  BY <1>1, <1>6 DEF BookInv, PlaceInv, Relayed, Taken
<1> QED BY <1>4, <1>7, <1>8

\* Sending the front of the buffer moves it to relayed, and nothing else.
LEMMA DrainBook ==
  ASSUME BookInv, NEW t \in Threads, DrainSend(t)
  PROVE  QueueInv' /\ DistinctInv' /\ PlaceInv'
<1> DEFINE e == Head(buffered[t])
           r == [batch |-> e.batch, stamp |-> e.stamp, at |-> clock]
           n == Len(buffered[t])
<1>1. /\ buffered[t] \in Seq(Entry) /\ buffered[t] # <<>> /\ buffered'[t] = Tail(buffered[t])
      /\ \A u \in Threads \ {t} : buffered'[u] = buffered[u]
      /\ holding' = holding /\ verified' = verified /\ arrived' = arrived
      /\ relayed \in Seq(Relay) /\ relayed' = Append(relayed, r)
  BY DEF BookInv, TypeInv, TypeOK, DrainSend, FrontDue
<1>2. /\ n \in Nat /\ DOMAIN buffered[t] = 1 .. n /\ DOMAIN buffered'[t] = 1 .. n - 1
      /\ e = buffered[t][1] /\ 1 \in 1 .. n /\ e \in Entry
      /\ \A i \in 1 .. n - 1 : buffered'[t][i] = buffered[t][i + 1]
  <2>1. buffered[t] \in Seq(Entry) /\ buffered[t] # <<>> /\ buffered'[t] = Tail(buffered[t])
    BY <1>1
  <2> QED BY <2>1, TailFacts, LenProperties
<1>3. /\ r \in Relay /\ r.batch = e.batch /\ e.batch \in Batch
      /\ Len(relayed) \in Nat /\ DOMAIN relayed = 1 .. Len(relayed)
      /\ DOMAIN relayed' = 1 .. Len(relayed) + 1
      /\ relayed'[Len(relayed) + 1] = r
      /\ \A i \in 1 .. Len(relayed) : relayed'[i] = relayed[i]
  <2>1. r \in Relay /\ r.batch = e.batch /\ e.batch \in Batch
    BY <1>2 DEF BookInv, TypeInv, TypeOK, Entry, Relay
  <2> QED BY <2>1, <1>1, AppendFacts, LenProperties, SMTT(30)
<1>4. QueueInv'
  BY <1>1 DEF BookInv, QueueInv, Taken
<1>0. /\ \A i, j \in 1 .. n : buffered[t][i].batch = buffered[t][j].batch => i = j
      /\ \A i \in 1 .. n : buffered[t][i].batch # holding[t].batch
  BY <1>2 DEF BookInv, DistinctInv
<1>5. DistinctInv'
  <2>1. \A i, j \in DOMAIN buffered'[t] : buffered'[t][i].batch = buffered'[t][j].batch => i = j
    <3> SUFFICES ASSUME NEW i \in 1 .. n - 1, NEW j \in 1 .. n - 1,
                        buffered'[t][i].batch = buffered'[t][j].batch
                 PROVE  i = j
      BY <1>2
    <3>1. i + 1 \in 1 .. n /\ j + 1 \in 1 .. n /\ buffered[t][i + 1].batch = buffered[t][j + 1].batch
      BY <1>2, SMTT(30)
    <3> QED BY <3>1, <1>0, <1>2, SMTT(30)
  <2>2. ASSUME NEW i \in 1 .. n - 1 PROVE buffered'[t][i].batch # holding'[t].batch
    <3>1. i + 1 \in 1 .. n /\ buffered'[t][i] = buffered[t][i + 1]
      BY <1>2
    <3> QED BY <3>1, <1>0, <1>1
  <2>3. ASSUME NEW u \in Threads \ {t}
        PROVE  /\ \A i, j \in DOMAIN buffered'[u] : buffered'[u][i].batch = buffered'[u][j].batch => i = j
               /\ \A i \in DOMAIN buffered'[u] : buffered'[u][i].batch # holding'[u].batch
    BY <1>1 DEF BookInv, DistinctInv
  <2> QED BY <1>2, <2>1, <2>2, <2>3, Zenon DEF DistinctInv
<1>6. \A b \in Batch : HeldBy(t, b)' <=> HeldBy(t, b) /\ b # e.batch
  <2> SUFFICES ASSUME NEW b \in Batch PROVE HeldBy(t, b)' <=> HeldBy(t, b) /\ b # e.batch
    OBVIOUS
  <2>1. ASSUME HeldBy(t, b)' PROVE HeldBy(t, b) /\ b # e.batch
    <3>1. CASE holding'[t].batch = b
      BY <3>1, <1>0, <1>1, <1>2 DEF HeldBy
    <3>2. ASSUME NEW i \in 1 .. n - 1, buffered'[t][i].batch = b PROVE HeldBy(t, b) /\ b # e.batch
      <4>1. i + 1 \in 1 .. n /\ i + 1 # 1 /\ buffered[t][i + 1].batch = b
        BY <3>2, <1>2
      <4> QED BY <4>1, <1>0, <1>2 DEF HeldBy
    <3> QED BY <2>1, <3>1, <3>2, <1>2 DEF HeldBy
  <2>2. ASSUME HeldBy(t, b), b # e.batch PROVE HeldBy(t, b)'
    <3>1. CASE holding[t].batch = b
      BY <3>1, <1>1 DEF HeldBy
    <3>2. ASSUME NEW i \in 1 .. n, buffered[t][i].batch = b PROVE HeldBy(t, b)'
      <4>1. i - 1 \in 1 .. n - 1 /\ buffered'[t][i - 1].batch = b
        BY <3>2, <2>2, <1>2, SMTT(30)
      <4> QED BY <4>1, <1>2 DEF HeldBy
    <3> QED BY <2>2, <3>1, <3>2, <1>2, SMTT(30) DEF HeldBy
  <2> QED BY <2>1, <2>2
<1>7. \A u \in Threads, b \in Batch : HeldBy(u, b)' <=> HeldBy(u, b) /\ ~(u = t /\ b = e.batch)
  <2>1. \A u \in Threads \ {t}, b \in Batch : HeldBy(u, b)' <=> HeldBy(u, b)
    BY <1>1 DEF HeldBy
  <2> QED BY <2>1, <1>6
<1>8. \A b \in Batch : Relayed(b)' <=> Relayed(b) \/ b = e.batch
  BY <1>3, SMTT(30) DEF Relayed
<1>9. HeldBy(t, e.batch)
  BY <1>2 DEF HeldBy
<1>10. \A i, j \in DOMAIN relayed' : relayed'[i].batch = relayed'[j].batch => i = j
  <2>1. \A i \in 1 .. Len(relayed) : relayed[i].batch # e.batch
    BY <1>3, <1>9 DEF BookInv, PlaceInv, Relayed
  <2> QED BY <2>1, <1>3, SMTT(30) DEF BookInv, PlaceInv
<1>11. Taken' = Taken
  BY <1>1 DEF Taken
<1>12. PlaceInv'
  <2>1. \A b \in Batch : b <= Taken' <=> Relayed(b)' \/ \E u \in Threads : HeldBy(u, b)'
    BY <1>7, <1>8, <1>9, <1>11 DEF BookInv, PlaceInv
  <2>2. \A b \in Batch, u \in Threads : HeldBy(u, b)' => ~Relayed(b)'
    BY <1>7, <1>8, <1>9 DEF BookInv, PlaceInv
  <2>3. \A b \in Batch, u, v \in Threads : HeldBy(u, b)' /\ HeldBy(v, b)' => u = v
    BY <1>7 DEF BookInv, PlaceInv
  <2> QED BY <1>10, <2>1, <2>2, <2>3 DEF PlaceInv
<1> QED BY <1>4, <1>5, <1>12

\* A batch that arrives is queued behind the others.
LEMMA ArriveBook ==
  ASSUME BookInv, Arrive
  PROVE  QueueInv' /\ DistinctInv' /\ PlaceInv'
<1>1. /\ verified \in Seq(Batch) /\ arrived \in Nat /\ arrived + 1 \in Batch
      /\ verified' = Append(verified, arrived + 1) /\ arrived' = arrived + 1
      /\ buffered' = buffered /\ holding' = holding /\ relayed' = relayed
  BY ForwarderAssumption DEF BookInv, TypeInv, TypeOK, Arrive, Batch, history
<1>2. /\ Len(verified) \in Nat /\ Len(verified') = Len(verified) + 1
      /\ DOMAIN verified = 1 .. Len(verified) /\ DOMAIN verified' = 1 .. Len(verified) + 1
      /\ verified'[Len(verified) + 1] = arrived + 1
      /\ \A i \in 1 .. Len(verified) : verified'[i] = verified[i]
  BY <1>1, AppendFacts, LenProperties
<1>3. Taken' = Taken
  BY <1>1, <1>2 DEF Taken
<1>4. QueueInv'
  BY <1>1, <1>2, <1>3 DEF BookInv, QueueInv, Taken
<1>5. DistinctInv'
  BY <1>1 DEF BookInv, DistinctInv
<1>6. \A b : Relayed(b)' = Relayed(b) /\ \A t \in Threads : HeldBy(t, b)' = HeldBy(t, b)
  BY <1>1 DEF HeldBy, Relayed
<1>7. PlaceInv'
  BY <1>1, <1>3, <1>6 DEF BookInv, PlaceInv
<1> QED BY <1>4, <1>5, <1>7

\* Every step keeps the books: only receiving, pushing, sending and arriving touch
\* them.
LEMMA NextBook == BookInv /\ [Next]_vars => BookInv'
<1> SUFFICES ASSUME BookInv, [Next]_vars PROVE QueueInv' /\ DistinctInv' /\ PlaceInv'
  BY NextType DEF BookInv
<1>1. ASSUME NEW t \in Threads, OfferSkipped(t) \/ OfferSent(t) \/ OfferFull(t)
      PROVE  QueueInv' /\ DistinctInv' /\ PlaceInv'
  BY <1>1, PushBook DEF OfferSkipped, Skips, OfferSent, OfferFull, Offers
<1>2. CASE UNCHANGED <<arrived, verified, buffered, holding, relayed>>
  <2>1. Taken' = Taken /\ QueueInv'
    BY <1>2 DEF BookInv, QueueInv, Taken
  <2>2. DistinctInv'
    BY <1>2 DEF BookInv, DistinctInv
  <2>3. \A b : Relayed(b)' = Relayed(b) /\ \A t \in Threads : HeldBy(t, b)' = HeldBy(t, b)
    BY <1>2 DEF HeldBy, Relayed
  <2>4. PlaceInv'
    BY <1>2, <2>1, <2>3 DEF BookInv, PlaceInv
  <2> QED BY <2>1, <2>2, <2>4
<1> QED
  BY <1>1, <1>2, RecvBook, DrainBook, ArriveBook
  DEF Next, Step, LoopTop, RecvTimeout, RecvDisconnected, OfferClosed, Panic, DrainDisconnected,
      DrainDone, EngineRecv, RelayerRecv, SignalExit, Hangup, Tick, vars, queues, history

\* At the start nothing has arrived.
LEMMA InitBook == Init => BookInv
<1> SUFFICES ASSUME Init PROVE QueueInv /\ DistinctInv /\ PlaceInv
  BY InitType DEF BookInv
<1>0. Len(<<>>) = 0 /\ 0 - 0 = 0
  OBVIOUS
<1>1. verified = <<>> /\ Len(verified) = 0 /\ arrived = 0 /\ Taken = 0 /\ relayed = <<>>
  BY <1>0, Zenon DEF Init, Taken
<1>2. \A t \in Threads : buffered[t] = <<>> /\ holding[t].batch = 0
  BY Zenon DEF Init, NoEntry
<1>3. DOMAIN <<>> = {}
  OBVIOUS
<1>4. QueueInv /\ DistinctInv
  BY <1>1, <1>2, <1>3 DEF QueueInv, DistinctInv
<1>5. \A b \in Batch : ~(b <= Taken) /\ ~Relayed(b) /\ \A t \in Threads : ~HeldBy(t, b)
  BY <1>1, <1>2, <1>3 DEF HeldBy, Relayed, Batch
<1> QED BY <1>1, <1>3, <1>4, <1>5 DEF PlaceInv

\* The books say where each batch is.
LEMMA BookExactlyOnce == BookInv => ExactlyOnce
<1> SUFFICES ASSUME BookInv PROVE ExactlyOnce
  OBVIOUS
<1>1. /\ verified \in Seq(Batch) /\ arrived \in Nat /\ Len(verified) \in Nat
      /\ DOMAIN verified = 1 .. Len(verified) /\ arrived <= MaxBatches /\ MaxBatches \in Nat
  BY ForwarderAssumption, LenProperties DEF BookInv, TypeInv, TypeOK
<1>2. \A b \in Batch : Waiting(b) <=> Taken < b /\ b <= arrived
  <2> SUFFICES ASSUME NEW b \in Batch PROVE Waiting(b) <=> Taken < b /\ b <= arrived
    OBVIOUS
  <2>1. ASSUME Waiting(b) PROVE Taken < b /\ b <= arrived
    BY <2>1, <1>1 DEF Waiting, BookInv, QueueInv, Taken
  <2>2. ASSUME Taken < b, b <= arrived PROVE Waiting(b)
    <3>1. b - Taken \in 1 .. Len(verified) /\ verified[b - Taken] = b
      BY <2>2, <1>1, SMTT(30) DEF BookInv, QueueInv, Taken, Batch
    <3> QED BY <3>1, <1>1 DEF Waiting
  <2> QED BY <2>1, <2>2
<1>3. \A b \in 1 .. arrived : b \in Batch
  BY <1>1 DEF Batch
<1>4. Taken \in Nat /\ \A b \in Batch : b \in Nat
  BY <1>1 DEF Taken, Batch, BookInv, QueueInv
<1>5. \A b \in 1 .. arrived : Waiting(b) \/ (\E t \in Threads : HeldBy(t, b)) \/ Relayed(b)
  BY <1>2, <1>3, <1>4 DEF BookInv, PlaceInv
<1>6. \A b \in Batch, t \in Threads : HeldBy(t, b) => ~Waiting(b)
  BY <1>2, <1>4 DEF BookInv, PlaceInv
<1> QED BY <1>5, <1>6 DEF ExactlyOnce, BookInv, PlaceInv

\* No batch sigverify sends is lost on its way to the relayer event loop and none
\* is sent there twice, with any number of threads taking from the channel.
THEOREM NothingLostOrDoubled == Spec => []ExactlyOnce
<1>1. Spec => []BookInv
  BY InitBook, NextBook, PTL DEF Spec
<1> QED BY <1>1, BookExactlyOnce, PTL

-----------------------------------------------------------------------------
(* The order.  A thread's buffer is increasing, and the batch in its hand  *)
(* is the latest it took.                                                  *)

OrderInv ==
  \A t \in Threads :
    /\ \A i, j \in DOMAIN buffered[t] : i < j => buffered[t][i].batch < buffered[t][j].batch
    /\ holding[t] # NoEntry =>
         \A i \in DOMAIN buffered[t] : buffered[t][i].batch < holding[t].batch

\* A batch that is received is later than all that were taken before.
LEMMA RecvOrder ==
  ASSUME BookInv, OrderInv, NEW t \in Threads, RecvBatch(t)
  PROVE  OrderInv'
<1> DEFINE new == Head(verified)
<1>1. /\ new = Taken + 1 /\ new \in Batch /\ Taken \in Int
      /\ buffered' = buffered /\ holding'[t].batch = new
      /\ \A u \in Threads \ {t} : holding'[u] = holding[u]
  BY TailFacts, LenProperties, SMTT(30) DEF BookInv, TypeInv, TypeOK, QueueInv, RecvBatch, Taken
<1>2. \A i \in DOMAIN buffered[t] : buffered[t][i].batch \in Batch
  <2>1. buffered[t] \in Seq(Entry)
    BY DEF BookInv, TypeInv, TypeOK
  <2>2. \A i \in DOMAIN buffered[t] : buffered[t][i] \in Entry
    BY <2>1, LenProperties, ElementOfSeq
  <2> QED BY <2>2 DEF Entry
<1>3. \A i \in DOMAIN buffered[t] : buffered[t][i].batch <= Taken
  BY <1>2 DEF BookInv, PlaceInv, HeldBy
<1>4. \A i \in DOMAIN buffered[t] : buffered[t][i].batch < new
  BY <1>1, <1>2, <1>3, SMTT(30) DEF Batch
<1> QED BY <1>1, <1>4 DEF OrderInv

\* push_back puts the latest batch last.
LEMMA PushOrder ==
  ASSUME TypeInv, OrderInv, NEW t \in Threads, pc[t] = "offer", NEW o, PushBack(t, o)
  PROVE  OrderInv'
<1>1. /\ holding[t] \in Entry /\ holding[t] # NoEntry /\ buffered[t] \in Seq(Entry)
      /\ holding'[t] = NoEntry /\ buffered'[t] = Append(buffered[t], holding[t])
      /\ \A u \in Threads \ {t} : holding'[u] = holding[u] /\ buffered'[u] = buffered[u]
  BY NoEntryNotEntry DEF TypeInv, TypeOK, HoldingInv, PushBack, Buffer
<1> DEFINE n == Len(buffered[t])
<1>2. /\ n \in Nat /\ DOMAIN buffered[t] = 1 .. n /\ DOMAIN buffered'[t] = 1 .. n + 1
      /\ buffered'[t][n + 1] = holding[t]
      /\ \A i \in 1 .. n : buffered'[t][i] = buffered[t][i]
  <2>1. /\ DOMAIN Append(buffered[t], holding[t]) = 1 .. n + 1
        /\ Append(buffered[t], holding[t])[n + 1] = holding[t]
        /\ \A i \in 1 .. n : Append(buffered[t], holding[t])[i] = buffered[t][i]
    BY <1>1, AppendFacts
  <2>2. n \in Nat /\ DOMAIN buffered[t] = 1 .. n
    BY <1>1, LenProperties
  <2> QED BY <1>1, <2>1, <2>2
<1>3. ASSUME NEW i \in 1 .. n + 1, NEW j \in 1 .. n + 1, i < j
      PROVE  buffered'[t][i].batch < buffered'[t][j].batch
  <2>1. i \in 1 .. n /\ (j \in 1 .. n \/ j = n + 1)
    BY <1>2, <1>3
  <2> QED BY <2>1, <1>1, <1>2, <1>3 DEF OrderInv
<1> QED BY <1>1, <1>2, <1>3, Zenon DEF OrderInv

\* pop_front leaves an increasing buffer, and takes the least batch of it.
LEMMA DrainOrder ==
  ASSUME BookInv, OrderInv, NEW t \in Threads, DrainSend(t)
  PROVE  OrderInv' /\ SendsOldest
<1> DEFINE e == Head(buffered[t])
           r == [batch |-> e.batch, stamp |-> e.stamp, at |-> clock]
           n == Len(buffered[t])
<1>1. /\ buffered[t] \in Seq(Entry) /\ buffered[t] # <<>> /\ buffered'[t] = Tail(buffered[t])
      /\ \A u \in Threads \ {t} : buffered'[u] = buffered[u]
      /\ holding' = holding /\ holding[t] \in Entry \cup {NoEntry}
      /\ relayed \in Seq(Relay) /\ relayed' = Append(relayed, r)
  BY DEF BookInv, TypeInv, TypeOK, DrainSend, FrontDue
<1>2. /\ n \in Nat /\ DOMAIN buffered[t] = 1 .. n /\ DOMAIN buffered'[t] = 1 .. n - 1
      /\ e = buffered[t][1] /\ 1 \in 1 .. n /\ e \in Entry
      /\ \A i \in 1 .. n - 1 : buffered'[t][i] = buffered[t][i + 1]
  <2>1. buffered[t] \in Seq(Entry) /\ buffered[t] # <<>> /\ buffered'[t] = Tail(buffered[t])
    BY <1>1
  <2> QED BY <2>1, TailFacts, LenProperties
<1>3. ASSUME NEW i \in 1 .. n - 1, NEW j \in 1 .. n - 1, i < j
      PROVE  buffered'[t][i].batch < buffered'[t][j].batch
  <2>1. i + 1 \in 1 .. n /\ j + 1 \in 1 .. n /\ i + 1 < j + 1
    BY <1>2, <1>3, SMTT(30)
  <2> QED BY <2>1, <1>2, Zenon DEF OrderInv
<1>4. ASSUME NEW i \in 1 .. n - 1, holding[t] # NoEntry
      PROVE  buffered'[t][i].batch < holding[t].batch
  <2>1. i + 1 \in 1 .. n
    BY <1>2, SMTT(30)
  <2> QED BY <2>1, <1>2, <1>4 DEF OrderInv
<1>5. OrderInv'
  BY <1>1, <1>2, <1>3, <1>4, Zenon DEF OrderInv
<1>6. ASSUME NEW b \in Batch, HeldBy(t, b) PROVE e.batch <= b
  <2>1. e.batch \in Nat /\ b \in Nat /\ NoEntry.batch # b
    BY <1>2, SMTT(30) DEF Entry, Batch, NoEntry
  <2>2. CASE holding[t].batch = b
    <3>1. holding[t] # NoEntry
      BY <2>1, <2>2
    <3> QED BY <3>1, <2>1, <2>2, <1>2, SMTT(30) DEF OrderInv
  <2>3. ASSUME NEW i \in 1 .. n, buffered[t][i].batch = b PROVE e.batch <= b
    <3>1. CASE i = 1
      BY <3>1, <2>1, <2>3, <1>2, SMTT(30)
    <3>2. CASE 1 < i
      <4>1. buffered[t][1].batch < buffered[t][i].batch
        BY <3>2, <1>2 DEF OrderInv
      <4> QED BY <4>1, <2>1, <2>3, <1>2, SMTT(30)
    <3> QED BY <3>1, <3>2, <1>2, SMTT(30)
  <2> QED BY <1>6, <1>2, <2>2, <2>3 DEF HeldBy
<1>7. HeldBy(t, e.batch) /\ e.batch \in Batch
  BY <1>2 DEF HeldBy, Entry
<1>8. r \in Relay /\ r.batch = e.batch
  BY <1>2 DEF BookInv, TypeInv, TypeOK, Entry, Relay
<1>9. \A i \in DOMAIN relayed' : i > Len(relayed) => relayed'[i].batch = e.batch
  BY <1>1, <1>8, AppendFacts, LenProperties, SMTT(30)
<1>10. \A u \in Threads : HeldBy(u, e.batch) => u = t
  BY <1>7 DEF BookInv, PlaceInv
<1>11. SendsOldest
  BY <1>6, <1>9, <1>10 DEF SendsOldest
<1> QED BY <1>5, <1>11

\* Every other step leaves the order, and sends nothing.
LEMMA NextOrder ==
  BookInv /\ OrderInv /\ [Next]_vars => OrderInv' /\ [SendsOldest]_vars
<1> SUFFICES ASSUME BookInv, OrderInv, [Next]_vars PROVE OrderInv' /\ [SendsOldest]_vars
  OBVIOUS
<1>1. ASSUME relayed' = relayed PROVE SendsOldest
  <2>1. DOMAIN relayed = 1 .. Len(relayed) /\ Len(relayed) \in Nat
    BY LenProperties DEF BookInv, TypeInv, TypeOK
  <2> QED BY <1>1, <2>1 DEF SendsOldest
<1>2. ASSUME NEW t \in Threads, OfferSkipped(t) \/ OfferSent(t) \/ OfferFull(t)
      PROVE  OrderInv' /\ relayed' = relayed
  <2>1. pc[t] = "offer" /\ \E o \in Outcome : PushBack(t, o)
    BY <1>2 DEF OfferSkipped, Skips, OfferSent, OfferFull, Offers, Outcome
  <2> QED BY <2>1, PushOrder, Zenon DEF BookInv, PushBack
<1>3. ASSUME NEW t \in Threads, RecvBatch(t) PROVE OrderInv' /\ relayed' = relayed
  BY <1>3, RecvOrder, Zenon DEF RecvBatch, history
<1>4. CASE UNCHANGED <<buffered, holding, relayed>>
  BY <1>4, <1>1 DEF OrderInv
<1> QED
  BY <1>1, <1>2, <1>3, <1>4, DrainOrder, Zenon
  DEF Next, Step, LoopTop, RecvTimeout, RecvDisconnected, OfferClosed, Panic, DrainDisconnected,
      DrainDone, Arrive, EngineRecv, RelayerRecv, SignalExit, Hangup, Tick, vars, queues, history

\* Each thread passes its batches on in the order in which it took them from
\* verified_receiver, with any number of threads.
THEOREM OrderIsKept == Spec => ArrivalOrder
<1>1. Init => OrderInv
  <2>1. DOMAIN <<>> = {}
    OBVIOUS
  <2> QED BY <2>1, Zenon DEF Init, OrderInv
<1> QED
  BY <1>1, InitBook, NextBook, NextOrder, PTL DEF Spec, ArrivalOrder

-----------------------------------------------------------------------------
(* The refinement: receiving a batch is accepting it, the send is its      *)
(* release, the clock's tick passes time, and every other step stutters.   *)

\* What the delay line holds, thread by thread.
LEMMA InHeld ==
  \A e : e \in Held <=> \E t \in Threads : \/ holding[t] = e /\ holding[t] # NoEntry
                                          \/ \E i \in DOMAIN buffered[t] : buffered[t][i] = e
BY SMTT(30) DEF Held

\* The delay line holds what the threads hold and nothing else.
LEMMA SameHeld ==
  ASSUME buffered' = buffered, holding' = holding
  PROVE  Held' = Held
BY DEF Held

\* An entry of the delay line is a batch with some thread.
LEMMA HeldIsHeldBy ==
  ASSUME TypeInv, NEW e \in Held
  PROVE  e \in Entry /\ e.batch \in Batch /\ \E t \in Threads : HeldBy(t, e.batch)
<1>1. PICK t \in Threads : \/ holding[t] = e /\ holding[t] # NoEntry
                          \/ \E i \in DOMAIN buffered[t] : buffered[t][i] = e
  BY InHeld
<1>2. holding[t] \in Entry \cup {NoEntry} /\ buffered[t] \in Seq(Entry)
  BY DEF TypeInv, TypeOK
<1>3. \A i \in DOMAIN buffered[t] : buffered[t][i] \in Entry
  BY <1>2, LenProperties, ElementOfSeq
<1>4. e \in Entry
  BY <1>1, <1>2, <1>3
<1> QED BY <1>1, <1>4 DEF HeldBy, Entry

\* recv_timeout returning a batch is the delay line accepting it.
LEMMA RecvAccepts ==
  ASSUME BookInv, NEW t \in Threads, RecvBatch(t)
  PROVE  \E b \in Batch : Line!Accept(b)
<1> DEFINE new == Head(verified)
           e == [batch |-> new, stamp |-> clock]
<1>1. new \in Batch /\ new = Taken + 1 /\ Taken \in Int /\ e \in Entry
  <2>1. verified \in Seq(Batch) /\ verified # <<>> /\ arrived \in Nat /\ clock \in Nat
    BY SMTT(30) DEF BookInv, TypeInv, TypeOK, RecvBatch
  <2>2. /\ new \in Batch /\ new = verified[1]
        /\ Len(verified) \in Nat /\ DOMAIN verified = 1 .. Len(verified) /\ 1 \in DOMAIN verified
    BY <2>1, TailFacts, LenProperties
  <2>3. new = Taken + 1
    BY <2>2 DEF BookInv, QueueInv
  <2>4. Taken \in Int
    BY <2>1, <2>2 DEF Taken
  <2> QED BY <2>1, <2>2, <2>3, <2>4 DEF Entry
<1>2. ~Relayed(new) /\ \A u \in Threads : ~HeldBy(u, new)
  <2>1. ~(new <= Taken)
    BY <1>1
  <2> QED BY <1>1, <2>1 DEF BookInv, PlaceInv
<1>3. ~Line!Known(new)
  BY <1>2, HeldIsHeldBy, InHeld, SMTT(30) DEF BookInv, Line!Known, Relayed, HeldBy
<1>4. /\ holding[t] = NoEntry /\ holding'[t] = e /\ e # NoEntry
      /\ \A u \in Threads \ {t} : holding'[u] = holding[u]
      /\ buffered' = buffered
  BY <1>1, NoEntryNotEntry, Zenon DEF BookInv, TypeInv, TypeOK, HoldingInv, RecvBatch
<1>5. Held' = Held \cup {e}
  <2>1. \A x : x \in Held' <=> \E u \in Threads : \/ holding'[u] = x /\ holding'[u] # NoEntry
                                                 \/ \E i \in DOMAIN buffered'[u] : buffered'[u][i] = x
    BY SMTT(30) DEF Held
  <2>2. ASSUME NEW x PROVE x \in Held' <=> x \in Held \/ x = e
    BY <2>1, InHeld, <1>4, SMTT(30)
  <2> QED BY <2>2
<1>6. UNCHANGED <<clock, relayed>>
  BY DEF RecvBatch, history
<1> QED BY <1>1, <1>3, <1>5, <1>6 DEF Line!Accept

\* push_back moves a batch from a thread's hand to its buffer: the delay line does
\* not notice.
LEMMA PushStutters ==
  ASSUME TypeInv, NEW t \in Threads, pc[t] = "offer", NEW o, PushBack(t, o)
  PROVE  Held' = Held
<1>1. /\ holding[t] \in Entry /\ holding[t] # NoEntry /\ buffered[t] \in Seq(Entry)
      /\ holding'[t] = NoEntry /\ buffered'[t] = Append(buffered[t], holding[t])
      /\ \A u \in Threads \ {t} : holding'[u] = holding[u] /\ buffered'[u] = buffered[u]
  BY NoEntryNotEntry DEF TypeInv, TypeOK, HoldingInv, PushBack, Buffer
<1>2. \A x : (\E i \in DOMAIN buffered'[t] : buffered'[t][i] = x)
              <=> x = holding[t] \/ \E i \in DOMAIN buffered[t] : buffered[t][i] = x
  <2> DEFINE n == Len(buffered[t])
  <2>1. /\ n \in Nat /\ DOMAIN buffered[t] = 1 .. n /\ DOMAIN buffered'[t] = 1 .. n + 1
        /\ buffered'[t][n + 1] = holding[t]
        /\ \A i \in 1 .. n : buffered'[t][i] = buffered[t][i]
    <3>1. /\ buffered[t] \in Seq(Entry) /\ holding[t] \in Entry
          /\ buffered'[t] = Append(buffered[t], holding[t])
      BY <1>1
    <3> QED BY <3>1, AppendFacts, LenProperties, SMTT(30)
  <2>2. ASSUME NEW x, NEW i \in 1 .. n + 1, buffered'[t][i] = x
        PROVE  x = holding[t] \/ \E j \in DOMAIN buffered[t] : buffered[t][j] = x
    <3>1. i = n + 1 \/ i \in 1 .. n
      BY <2>1, <2>2, SMTT(30)
    <3>2. CASE i = n + 1
      BY <2>1, <2>2, <3>2
    <3>3. CASE i \in 1 .. n
      BY <2>1, <2>2, <3>3
    <3> QED BY <3>1, <3>2, <3>3
  <2>3. ASSUME NEW x, NEW i \in 1 .. n, buffered[t][i] = x
        PROVE  \E j \in DOMAIN buffered'[t] : buffered'[t][j] = x
    <3>1. i \in DOMAIN buffered'[t] /\ buffered'[t][i] = x
      BY <2>1, <2>3, SMTT(30)
    <3> QED BY <3>1
  <2>4. n + 1 \in DOMAIN buffered'[t]
    BY <2>1, SMTT(30)
  <2> QED BY <2>1, <2>2, <2>3, <2>4, Zenon
<1>3. \A x : x \in Held' <=> \E u \in Threads : \/ holding'[u] = x /\ holding'[u] # NoEntry
                                               \/ \E i \in DOMAIN buffered'[u] : buffered'[u][i] = x
  BY SMTT(30) DEF Held
<1>4. ASSUME NEW x PROVE x \in Held' <=> x \in Held
  <2> DEFINE Was(u) == \/ holding[u] = x /\ holding[u] # NoEntry
                       \/ \E i \in DOMAIN buffered[u] : buffered[u][i] = x
             Is(u) == \/ holding'[u] = x /\ holding'[u] # NoEntry
                      \/ \E i \in DOMAIN buffered'[u] : buffered'[u][i] = x
  <2>1. Is(t) <=> Was(t)
    BY <1>1, <1>2
  <2>2. \A u \in Threads \ {t} : Is(u) <=> Was(u)
    BY <1>1
  <2>3. x \in Held' <=> \E u \in Threads : Is(u)
    BY <1>3
  <2>4. x \in Held <=> \E u \in Threads : Was(u)
    BY InHeld
  <2> HIDE DEF Is, Was
  <2> QED BY <2>1, <2>2, <2>3, <2>4
<1> QED BY <1>4, Zenon

\* The send is the release of a batch that is due.
LEMMA DrainReleases ==
  ASSUME BookInv, NEW t \in Threads, DrainSend(t)
  PROVE  \E e \in Held : Line!Release(e)
<1> DEFINE e == Head(buffered[t])
           n == Len(buffered[t])
<1>1. /\ buffered[t] \in Seq(Entry) /\ buffered[t] # <<>> /\ buffered'[t] = Tail(buffered[t])
      /\ \A u \in Threads \ {t} : buffered'[u] = buffered[u]
      /\ holding' = holding /\ clock' = clock
      /\ relayed \in Seq(Relay)
      /\ relayed' = Append(relayed, [batch |-> e.batch, stamp |-> e.stamp, at |-> clock])
      /\ clock >= e.stamp + PacketDelay
  BY DEF BookInv, TypeInv, TypeOK, DrainSend, FrontDue, Due
<1>2. /\ n \in Nat /\ DOMAIN buffered[t] = 1 .. n /\ DOMAIN buffered'[t] = 1 .. n - 1
      /\ e = buffered[t][1] /\ 1 \in 1 .. n /\ e \in Entry
      /\ \A i \in 1 .. n - 1 : buffered'[t][i] = buffered[t][i + 1]
  <2>1. buffered[t] \in Seq(Entry) /\ buffered[t] # <<>> /\ buffered'[t] = Tail(buffered[t])
    BY <1>1
  <2> QED BY <2>1, TailFacts, LenProperties
<1>3. e \in Held
  BY <1>2, InHeld
<1>4. \A x : x \in Held' <=> \E u \in Threads : \/ holding'[u] = x /\ holding'[u] # NoEntry
                                               \/ \E i \in DOMAIN buffered'[u] : buffered'[u][i] = x
  BY SMTT(30) DEF Held
<1>5. ASSUME NEW x \in Held' PROVE x \in Held /\ x # e
  <2>1. x \in Held
    <3>1. ASSUME NEW i \in 1 .. n - 1, buffered'[t][i] = x PROVE x \in Held
      <4>1. i + 1 \in DOMAIN buffered[t] /\ buffered[t][i + 1] = x
        BY <3>1, <1>2, SMTT(30)
      <4> QED BY <4>1, InHeld
    <3>2. PICK u \in Threads : \/ holding'[u] = x /\ holding'[u] # NoEntry
                              \/ \E i \in DOMAIN buffered'[u] : buffered'[u][i] = x
      BY <1>4, <1>5
    <3>3. CASE u = t
      BY <3>1, <3>2, <3>3, <1>1, <1>2, InHeld
    <3>4. CASE u # t
      BY <3>2, <3>4, <1>1, InHeld
    <3> QED BY <3>3, <3>4
  <2> PICK b \in Batch : b = e.batch
    BY <1>2 DEF Entry
  <2>2. Relayed(b)'
    <3>1. [batch |-> e.batch, stamp |-> e.stamp, at |-> clock] \in Relay
      BY <1>2 DEF BookInv, TypeInv, TypeOK, Entry, Relay
    <3>2. /\ relayed \in Seq(Relay)
          /\ relayed' = Append(relayed, [batch |-> e.batch, stamp |-> e.stamp, at |-> clock])
      BY <1>1
    <3>3. relayed'[Len(relayed) + 1].batch = b /\ Len(relayed) + 1 \in DOMAIN relayed'
      BY <3>1, <3>2, AppendFacts, LenProperties, SMTT(30)
    <3> QED BY <3>3 DEF Relayed
  <2>3. \A u \in Threads : ~HeldBy(u, b)'
    BY <2>2, DrainBook DEF PlaceInv, BookInv
  <2>4. x # e
    BY <2>3, <1>4, <1>5 DEF HeldBy
  <2> QED BY <2>1, <2>4
<1>6. ASSUME NEW x \in Held, x # e PROVE x \in Held'
  <2>1. ASSUME NEW i \in 1 .. n, buffered[t][i] = x PROVE x \in Held'
    <3>0. i # 1
      BY <2>1, <1>2, <1>6
    <3>1. i - 1 \in 1 .. n - 1
      BY <3>0, <1>2, SMTT(30)
    <3>2. i - 1 \in DOMAIN buffered'[t] /\ buffered'[t][i - 1] = buffered[t][(i - 1) + 1]
      BY <3>1, <1>2
    <3>3. (i - 1) + 1 = i
      OBVIOUS
    <3> QED BY <3>2, <3>3, <2>1, <1>4
  <2>2. PICK u \in Threads : \/ holding[u] = x /\ holding[u] # NoEntry
                            \/ \E i \in DOMAIN buffered[u] : buffered[u][i] = x
    BY <1>6, InHeld
  <2>3. CASE u = t
    BY <2>1, <2>2, <2>3, <1>1, <1>2, <1>4
  <2>4. CASE u # t
    BY <2>2, <2>4, <1>1, <1>4
  <2> QED BY <2>3, <2>4
<1>7. Held' = Held \ {e}
  BY <1>5, <1>6
<1> QED BY <1>1, <1>3, <1>7, Zenon DEF Line!Release

\* Every step of the forwarder is a step of the delay line or leaves it alone.
LEMMA NextLine == BookInv /\ [Next]_vars => [Line!LineNext]_(Line!lineVars)
<1> SUFFICES ASSUME BookInv, [Next]_vars PROVE [Line!LineNext]_(Line!lineVars)
  OBVIOUS
<1>1. ASSUME NEW t \in Threads, RecvBatch(t) PROVE Line!LineNext
  BY <1>1, RecvAccepts DEF Line!LineNext
<1>2. ASSUME NEW t \in Threads, DrainSend(t) PROVE Line!LineNext
  BY <1>2, DrainReleases DEF Line!LineNext
<1>3. ASSUME NEW t \in Threads, OfferSkipped(t) \/ OfferSent(t) \/ OfferFull(t)
      PROVE  UNCHANGED Line!lineVars
  <2>1. Held' = Held
    BY <1>3, PushStutters DEF BookInv, OfferSkipped, Skips, OfferSent, OfferFull, Offers
  <2> QED BY <1>3, <2>1 DEF OfferSkipped, OfferSent, OfferFull, PushBack, Line!lineVars
<1>4. CASE Tick
  <2>1. buffered' = buffered /\ holding' = holding
    BY <1>4 DEF Tick
  <2>2. Held' = Held
    BY <2>1, SameHeld
  <2> QED BY <1>4, <2>2, Zenon DEF Tick, history, Line!LineNext, Line!Pass
<1>5. CASE UNCHANGED <<clock, buffered, holding, relayed>>
  BY <1>5, SameHeld DEF Line!lineVars
<1> QED
  BY <1>1, <1>2, <1>3, <1>4, <1>5
  DEF Next, Step, LoopTop, RecvTimeout, RecvDisconnected, OfferClosed, Panic, DrainDisconnected,
      DrainDone, Arrive, EngineRecv, RelayerRecv, SignalExit, Hangup, vars, queues, history

\* The threads, the channels and the polling loop implement the delay line, for
\* any number of threads: what they send is what DelayLine may release.
THEOREM ForwarderImplementsDelayLine == Spec => ImplementsDelayLine
<1>1. Init => Line!LineInit
  <2>1. ASSUME Init PROVE Held = {}
    <3>1. \A t \in Threads : buffered[t] = <<>> /\ holding[t] = NoEntry
      BY <2>1, Zenon DEF Init
    <3>0. DOMAIN <<>> = {}
      OBVIOUS
    <3>2. \A t \in Threads : DOMAIN buffered[t] = {}
      BY <3>0, <3>1, Zenon
    <3>3. ASSUME NEW e \in Held PROVE FALSE
      <4>1. PICK t \in Threads : \/ holding[t] = e /\ holding[t] # NoEntry
                                \/ \E i \in DOMAIN buffered[t] : buffered[t][i] = e
        BY <3>3, InHeld, Zenon
      <4> QED BY <4>1, <3>1, <3>2, Zenon
    <3> QED BY <3>3, Zenon
  <2> QED BY <2>1, Zenon DEF Init, Line!LineInit
<1> QED
  BY <1>1, InitBook, NextBook, NextLine, PTL DEF Spec, ImplementsDelayLine, Line!LineSpec

-----------------------------------------------------------------------------
(* The block engine's copy.                                                *)

\* The copy of a batch that a thread buffers or has sent is settled.
Settled(b) == offered[b] \in IF disable_mempool THEN {"skipped"} ELSE {"sent", "full"}
BufferSettled == \A t \in Threads : \A i \in DOMAIN buffered[t] : Settled(buffered[t][i].batch)

\* push_back follows the offer of the same batch.
LEMMA PushSettles ==
  ASSUME TypeInv, BufferSettled, EngineFirst, NEW t \in Threads, pc[t] = "offer",
         NEW o \in IF disable_mempool THEN {"skipped"} ELSE {"sent", "full"}, PushBack(t, o)
  PROVE  BufferSettled' /\ EngineFirst'
<1>1. holding[t] \in Entry /\ holding[t].batch \in Batch
  BY DEF TypeInv, HoldingInv, Entry
<1>2. /\ offered' = [offered EXCEPT ![holding[t].batch] = o]
      /\ buffered' = [buffered EXCEPT ![t] = Append(buffered[t], holding[t])]
      /\ UNCHANGED <<relayed, disable_mempool>>
  BY DEF PushBack, Buffer
<1>3. \A b : Settled(b) => Settled(b)'
  BY <1>2, SMTT(30) DEF TypeInv, TypeOK, Settled
<1>4. PICK b \in Batch : b = holding[t].batch
  BY <1>1
<1>5. Settled(b)'
  <2>1. offered'[b] = o
    BY <1>2, <1>4 DEF TypeInv, TypeOK
  <2> QED BY <1>2, <2>1 DEF Settled
<1>6. EngineFirst'
  BY <1>2, <1>3 DEF EngineFirst, Settled
<1>7. BufferSettled'
  <2> SUFFICES ASSUME NEW u \in Threads, NEW i \in DOMAIN buffered'[u]
               PROVE  Settled(buffered[u][i].batch)'
    BY DEF BufferSettled
  <2>1. buffered \in [Threads -> Seq(Entry)]
    BY DEF TypeInv, TypeOK
  <2>2. CASE u # t
    <3>1. buffered'[u] = buffered[u]
      BY <1>2, <2>1, <2>2
    <3>2. Settled(buffered[u][i].batch)
      BY <3>1 DEF BufferSettled
    <3>3. PICK c : c = buffered[u][i].batch
      OBVIOUS
    <3>4. Settled(c)'
      BY <1>3, <3>2, <3>3
    <3> QED BY <3>1, <3>3, <3>4 DEF Settled
  <2>3. CASE u = t
    <3>1. buffered'[t] = Append(buffered[t], holding[t]) /\ buffered[t] \in Seq(Entry)
      BY <1>2, <2>1
    <3>2. \/ i \in DOMAIN buffered[t] /\ buffered'[t][i] = buffered[t][i]
          \/ buffered'[t][i] = holding[t]
      BY <1>1, <2>3, <3>1, AppendFacts, LenProperties, SMTT(30)
    <3>3. PICK c : c = buffered'[t][i].batch
      OBVIOUS
    <3>4. Settled(c)'
      BY <1>3, <1>4, <1>5, <3>2, <3>3 DEF BufferSettled
    <3> QED BY <2>3, <3>3, <3>4 DEF Settled
  <2> QED BY <2>2, <2>3
<1> QED BY <1>6, <1>7

\* DrainSend passes on what is settled.
LEMMA DrainSettled ==
  ASSUME TypeInv, BufferSettled, EngineFirst, NEW t \in Threads, DrainSend(t)
  PROVE  BufferSettled' /\ EngineFirst'
<1> DEFINE e == Head(buffered[t])
           r == [batch |-> e.batch, stamp |-> e.stamp, at |-> clock]
<1>1. buffered \in [Threads -> Seq(Entry)] /\ buffered[t] # <<>>
  BY DEF TypeInv, TypeOK, DrainSend, FrontDue
<1>2. /\ e \in Entry /\ 1 \in DOMAIN buffered[t] /\ e = buffered[t][1]
      /\ DOMAIN Tail(buffered[t]) = 1 .. Len(buffered[t]) - 1
      /\ \A i \in 1 .. Len(buffered[t]) - 1 : Tail(buffered[t])[i] = buffered[t][i + 1]
      /\ DOMAIN buffered[t] = 1 .. Len(buffered[t]) /\ Len(buffered[t]) \in Nat
  BY <1>1, TailFacts, LenProperties
<1>3. /\ buffered' = [buffered EXCEPT ![t] = Tail(buffered[t])]
      /\ relayed' = Append(relayed, r)
      /\ UNCHANGED <<offered, disable_mempool>>
  BY DEF DrainSend
<1>4. relayed \in Seq(Relay) /\ r \in Relay /\ r.batch = e.batch
  BY <1>2 DEF TypeInv, TypeOK, Relay, Entry
<1>5. Settled(e.batch)
  BY <1>2 DEF BufferSettled
<1> HIDE DEF e, r
<1>6. EngineFirst'
  <2>1. /\ DOMAIN relayed = 1 .. Len(relayed) /\ DOMAIN relayed' = 1 .. Len(relayed) + 1
        /\ Len(relayed) \in Nat /\ relayed'[Len(relayed) + 1] = r
        /\ \A i \in 1 .. Len(relayed) : relayed'[i] = relayed[i]
    BY <1>3, <1>4, AppendFacts, LenProperties, SMTT(30)
  <2>2. \A i \in DOMAIN relayed' : \/ i \in DOMAIN relayed /\ relayed'[i] = relayed[i]
                                  \/ relayed'[i] = r
    BY <2>1
  <2> QED BY <1>3, <1>4, <1>5, <2>2 DEF EngineFirst, Settled
<1>7. BufferSettled'
  <2>1. \A i \in 1 .. Len(buffered[t]) - 1 : i + 1 \in DOMAIN buffered[t]
    BY <1>2, SMTT(30)
  <2>2. \A i \in DOMAIN buffered'[t] : \E j \in DOMAIN buffered[t] : buffered'[t][i] = buffered[t][j]
    BY <1>1, <1>2, <1>3, <2>1
  <2>3. \A u \in Threads : u # t => buffered'[u] = buffered[u]
    BY <1>1, <1>3
  <2>4. \A b : Settled(b) <=> Settled(b)'
    BY <1>3 DEF Settled
  <2>5. ASSUME NEW u \in Threads, NEW i \in DOMAIN buffered'[u]
        PROVE  Settled(buffered[u][i].batch)'
    <3>1. PICK j \in DOMAIN buffered[u] : buffered'[u][i] = buffered[u][j]
      BY <2>2, <2>3
    <3>2. PICK c : c = buffered[u][j].batch
      OBVIOUS
    <3>3. Settled(c)
      BY <3>2 DEF BufferSettled
    <3>4. Settled(c)'
      BY <2>4, <3>3
    <3> QED BY <3>1, <3>2, <3>4 DEF Settled
  <2> QED BY <2>5 DEF BufferSettled
<1> QED BY <1>6, <1>7

\* EngineFirst: try_send to the block engine comes before the batch can reach a
\* validator, for every batch.
THEOREM CopyComesFirst == Spec => []EngineFirst
<1>1. Init => BufferSettled /\ EngineFirst
  BY DEF Init, BufferSettled, EngineFirst
<1>2. TypeInv /\ BufferSettled /\ EngineFirst /\ [Next]_vars => BufferSettled' /\ EngineFirst'
  <2> SUFFICES ASSUME TypeInv, BufferSettled, EngineFirst, [Next]_vars
               PROVE  BufferSettled' /\ EngineFirst'
    OBVIOUS
  <2>1. ASSUME NEW t \in Threads, OfferSkipped(t) PROVE BufferSettled' /\ EngineFirst'
    BY <2>1, PushSettles DEF OfferSkipped, Skips
  <2>2. ASSUME NEW t \in Threads, OfferSent(t) \/ OfferFull(t) PROVE BufferSettled' /\ EngineFirst'
    BY <2>2, PushSettles DEF OfferSent, OfferFull, Offers
  <2>3. ASSUME NEW t \in Threads, DrainSend(t) PROVE BufferSettled' /\ EngineFirst'
    BY <2>3, DrainSettled
  <2>4. CASE UNCHANGED <<buffered, relayed, offered, disable_mempool>>
    BY <2>4 DEF BufferSettled, EngineFirst, Settled
  <2> QED
    BY <2>1, <2>2, <2>3, <2>4, Zenon
    DEF Next, Step, LoopTop, RecvBatch, RecvTimeout, RecvDisconnected, OfferClosed, Panic,
        DrainDisconnected, DrainDone, Arrive, EngineRecv, RelayerRecv, SignalExit, Hangup, Tick, vars,
        history
<1> QED
  BY <1>1, <1>2, InitType, NextType, PTL DEF Spec

-----------------------------------------------------------------------------
(* Panics.                                                                 *)

\* exit is raised from outside first; a channel closes after that, or is the block
\* engine's and not used.
RaisedFirst ==
  /\ exit => signalled
  /\ "verified" \notin open \/ "delay_packet" \notin open => signalled
  /\ "block_engine" \notin open => signalled \/ disable_mempool

\* PanicOnlyInShutdown: with a block engine configured a forwarder thread panics only
\* over a channel that a shutdown has closed.
THEOREM PanicsFollowShutdown ==
  ASSUME EngineConfigured
  PROVE  Spec => []PanicOnlyInShutdown
<1> DEFINE I == RaisedFirst /\ PanicOnlyInShutdown
<1>1. Init => I
  BY DEF Init, RaisedFirst, PanicOnlyInShutdown, Channel
<1>2. TypeInv /\ I /\ [Next]_vars => I'
  <2> SUFFICES ASSUME TypeInv, I, [Next]_vars PROVE I'
    OBVIOUS
  <2> USE DEF history, queues
  <2>1. ASSUME NEW t \in Threads, RecvDisconnected(t) \/ OfferClosed(t) \/ DrainDisconnected(t)
        PROVE  I'
    <3>1. signalled /\ Panic(t)
      BY <2>1 DEF RecvDisconnected, OfferClosed, Offers, DrainDisconnected, RaisedFirst
    <3> QED BY <3>1, Zenon DEF Panic, RaisedFirst, PanicOnlyInShutdown
  <2>2. ASSUME NEW t \in Threads, NEW l \in {"top", "recv", "offer", "drain", "exited"}, GoTo(t, l),
               UNCHANGED <<exit, open, signalled, disable_mempool>>
        PROVE  I'
    BY <2>2 DEF GoTo, RaisedFirst, PanicOnlyInShutdown, TypeInv, TypeOK
  <2>3. ASSUME NEW t \in Threads,
               \/ LoopTop(t) \/ RecvBatch(t) \/ RecvTimeout(t)
               \/ OfferSkipped(t) \/ OfferSent(t) \/ OfferFull(t) \/ DrainDone(t)
        PROVE  I'
    BY <2>2, <2>3 DEF LoopTop, RecvBatch, RecvTimeout, OfferSkipped, OfferSent, OfferFull, PushBack,
                      DrainDone
  <2>4. ASSUME NEW c \in Channel, Hangup(c) PROVE I'
    BY <2>4 DEF Hangup, RaisedFirst, PanicOnlyInShutdown
  <2>5. CASE SignalExit
    BY <2>5 DEF SignalExit, RaisedFirst, PanicOnlyInShutdown
  <2>6. CASE UNCHANGED <<pc, exit, open, signalled, disable_mempool>>
    BY <2>6 DEF RaisedFirst, PanicOnlyInShutdown
  <2> QED
    BY <2>1, <2>3, <2>4, <2>5, <2>6, Zenon
    DEF Next, Step, DrainSend, Arrive, EngineRecv, RelayerRecv, Tick, vars
<1> QED
  BY <1>1, <1>2, InitType, NextType, PTL DEF Spec
=============================================================================
