-------------------------- MODULE Shutdown_proofs --------------------------
(***************************************************************************)
(* The health manager and the fetch stage inside the whole process, and    *)
(* the order in which its threads end, for any threshold, capacities,      *)
(* batches and read limit.                                                 *)
(***************************************************************************)
EXTENDS Shutdown, TLAPS

-----------------------------------------------------------------------------
(* The health manager by itself.                                            *)

\* Time since the last check of the health state.
SinceCheck == CheckPeriod - next_check

\* HealthFollowsSlots is not inductive: it does not say how far the last check is
\* back.  A healthy verdict was right at the last check and the silence has grown by
\* no more than the time since; an unhealthy one was right, or a slot came since.
Verdict ==
  /\ health_state = "Healthy" => elapsed <= Threshold + SinceCheck
  /\ health_state = "Unhealthy" => elapsed <= SinceCheck \/ elapsed > Threshold

IInv == TypeOK /\ Verdict

\* The threshold is twice the period of the checks.
LEMMA Period == CheckPeriod \in Nat /\ Threshold = 2 * CheckPeriod
<1>1. Threshold \div 2 \in Nat
  BY HealthManagerAssumption
<1> QED
  BY <1>1, HealthManagerAssumption DEF CheckPeriod

\* The thread starts out unhealthy, with a whole period until its first check.
LEMMA InitVerdict == Init => IInv
<1> SUFFICES ASSUME Init PROVE IInv
  OBVIOUS
<1>1. TypeOK
  <2>1. /\ exit \in BOOLEAN /\ senders \in BOOLEAN /\ relayer \in BOOLEAN
        /\ manager \in {"top", "select", "send", "exited", "panicked"}
        /\ health_state \in {"Healthy", "Unhealthy"}
    BY Zenon DEF Init
  <2>2. /\ incoming \in 0 .. SlotCapacity /\ downstream \in 0 .. SlotCapacity
        /\ elapsed \in 0 .. LongestElapsed
        /\ next_check \in 0 .. CheckPeriod
    BY Period, HealthManagerAssumption DEF Init, LongestElapsed
  <2> QED
    BY <2>1, <2>2 DEF TypeOK
<1>2. Verdict
  BY Period DEF Init, Verdict, SinceCheck
<1> QED
  BY <1>1, <1>2 DEF IInv

\* No step of the thread, of its neighbours or of time breaks the verdict.
LEMMA NextVerdict == IInv /\ [Next]_vars => IInv'
<1> SUFFICES ASSUME IInv, [Next]_vars PROVE IInv'
  OBVIOUS
<1> USE Period, HealthManagerAssumption DEF IInv, TypeOK, Verdict, SinceCheck, LongestElapsed
<1>1. CASE LoopTop
  BY <1>1 DEF LoopTop
<1>2. CASE CheckHealth
  BY <1>2 DEF CheckHealth, new_health_state
<1>3. CASE RecvSlot
  BY <1>3 DEF RecvSlot
<1>4. CASE SendSlot
  BY <1>4 DEF SendSlot, Room
<1>5. CASE Panic
  BY <1>5 DEF Panic
<1>6. CASE SlotArrives
  BY <1>6 DEF SlotArrives
<1>7. CASE RelayerTakesSlot
  BY <1>7 DEF RelayerTakesSlot
<1>8. CASE SignalExit \/ SendersExit \/ RelayerExits
  BY <1>8, Zenon DEF SignalExit, SendersExit, RelayerExits
<1>9. CASE Tick
  BY <1>9 DEF Tick
<1>10. CASE UNCHANGED vars
  BY <1>10 DEF vars
<1> QED
  BY <1>1, <1>2, <1>3, <1>4, <1>5, <1>6, <1>7, <1>8, <1>9, <1>10 DEF Next

\* The invariant holds in every reachable state.
THEOREM VerdictHolds == Spec => []IInv
  BY InitVerdict, NextVerdict, PTL DEF Spec

\* Every variable of the health manager keeps its type and both slot channels keep
\* their bound.
THEOREM TypeCorrect == Spec => []TypeOK
  BY VerdictHolds, PTL DEF IInv

\* The health state that subscribe_packets, the auth service and the event loop read is
\* never Healthy longer than the threshold and one check after the last slot, and never
\* Unhealthy past the first check after a slot, whatever the threshold.
THEOREM HealthIsTruthful == Spec => []HealthFollowsSlots
<1>1. IInv => HealthFollowsSlots
  BY Period, HealthManagerAssumption DEF IInv, TypeOK, Verdict, SinceCheck, HealthFollowsSlots
<1> QED
  BY <1>1, VerdictHolds, PTL

-----------------------------------------------------------------------------
(* The process runs the health manager.                                     *)

\* Seen by the health manager alone, every step of the process is a step of
\* HealthManager or none.
LEMMA StepsOfManager == [ShutdownNext]_allVars => [Next]_vars
<1> SUFFICES ASSUME [ShutdownNext]_allVars PROVE [Next]_vars
  OBVIOUS
<1>1. CASE ManagerStep \/ ManagerSurroundings
  BY <1>1 DEF ManagerStep, ManagerSurroundings, Next
<1>2. CASE FetchFails
  <2>1. exit' = TRUE
    BY <1>2 DEF FetchFails
  <2>2. UNCHANGED <<incoming, senders, manager, elapsed, next_check, health_state, downstream,
                    relayer>>
    BY <1>2 DEF FetchFails
  <2>3. CASE ~exit
    BY <2>1, <2>2, <2>3 DEF SignalExit, Next
  <2>4. CASE exit
    BY <2>1, <2>2, <2>4 DEF vars
  <2> QED
    BY <2>3, <2>4
<1>3. CASE Signal
  BY <1>3 DEF Signal, Next
<1>4. CASE UNCHANGED vars
  BY <1>4
<1>5. CASE MainStep \/ ForwardersEnd \/ HookExits
  BY <1>5 DEF MainStep, ServeReturns, Join, MainReturns, ForwardersEnd, HookExits
<1>6. CASE UNCHANGED allVars
  BY <1>6 DEF allVars
<1> QED
  BY <1>1, <1>2, <1>3, <1>4, <1>5, <1>6 DEF ShutdownNext

\* The process runs the health manager that HealthManager.tla specifies.
THEOREM RunsHealthManager == ShutdownSpec => Spec
<1>1. ShutdownInit => Init
  BY DEF ShutdownInit
<1> QED
  BY <1>1, StepsOfManager, PTL DEF ShutdownSpec, Spec

\* So the health state follows the slots in the process too, through signals, panics of
\* other threads and the end of its neighbours.
THEOREM HealthIsTruthfulToTheEnd == ShutdownSpec => []HealthFollowsSlots
  BY RunsHealthManager, HealthIsTruthful, PTL

-----------------------------------------------------------------------------
(* The fetch stage.                                                         *)

Marked(n) == [id |-> n, forwarded |-> TRUE]
Unmarked(n) == [id |-> n, forwarded |-> FALSE]
Batch == {Marked(n) : n \in Nat} \cup {Unmarked(n) : n \in Nat}

FetchType ==
  /\ arrived \in 0 .. Batches
  /\ verified \in Seq(Batch) /\ tpu \in Seq(Batch)
  /\ packet_batches \in Seq(Batch) /\ forwards \in Seq(Batch)
  /\ fetch \in {"drain", "send"} => packet_batches # <<>>

\* ForwardsKept one place at a time, which is how the steps change it.
Placed ==
  LET v == Len(verified) t == Len(tpu) p == Len(packet_batches) f == Len(forwards)
  IN  /\ v + t + p + f = arrived
      /\ \A i \in 1 .. v : verified[i] = Marked(i)
      /\ \A i \in 1 .. t : tpu[i] = Marked(v + i)
      /\ \A i \in 1 .. p : packet_batches[i] = Marked(v + t + i)
      /\ \A i \in 1 .. f : forwards[i] = Unmarked(v + t + p + i)

FetchInv == FetchType /\ Placed

\* mark_forwarded changes the mark alone.
LEMMA Marking ==
  ASSUME NEW n \in Nat
  PROVE  /\ Marked(n) \in Batch /\ Unmarked(n) \in Batch
         /\ mark_forwarded(Unmarked(n)) = Marked(n)
<1>1. Marked(n) \in Batch /\ Unmarked(n) \in Batch
  BY DEF Batch
<1>2. ASSUME NEW F, NEW T
      PROVE  [[id |-> n, forwarded |-> F] EXCEPT !.forwarded = T] = [id |-> n, forwarded |-> T]
  OBVIOUS
<1>3. mark_forwarded(Unmarked(n)) = Marked(n)
  BY <1>2, Zenon DEF Marked, Unmarked, mark_forwarded
<1> QED
  BY <1>1, <1>3

\* A sequence with one more element at its end.
LEMMA AtEnd ==
  ASSUME NEW S, NEW s \in Seq(S), NEW e \in S
  PROVE  /\ Append(s, e) \in Seq(S) /\ Len(s) \in Nat /\ Len(Append(s, e)) = Len(s) + 1
         /\ \A i \in 1 .. Len(s) : Append(s, e)[i] = s[i]
         /\ Append(s, e)[Len(s) + 1] = e
         /\ Append(s, e) # <<>>
  OBVIOUS

\* A sequence without its first element.
LEMMA AtFront ==
  ASSUME NEW S, NEW s \in Seq(S), s # <<>>
  PROVE  /\ Len(s) \in Nat /\ Len(s) >= 1
         /\ Head(s) = s[1] /\ Head(s) \in S
         /\ Tail(s) \in Seq(S) /\ Len(Tail(s)) = Len(s) - 1
         /\ \A i \in 1 .. Len(s) - 1 : Tail(s)[i] = s[i + 1]
         /\ Len(s) # 1 => Tail(s) # <<>>
<1>1. Len(s) \in Nat /\ Len(s) >= 1
  OBVIOUS
<1>2. Head(s) = s[1] /\ Head(s) \in S
  OBVIOUS
<1>3. Tail(s) \in Seq(S) /\ Len(Tail(s)) = Len(s) - 1
  OBVIOUS
<1>4. \A i \in 1 .. Len(s) - 1 : Tail(s)[i] = s[i + 1]
  OBVIOUS
<1>5. Len(s) # 1 => Tail(s) # <<>>
  BY <1>1, <1>3
<1> QED
  BY <1>1, <1>2, <1>3, <1>4, <1>5

\* Nothing has arrived at first.
LEMMA InitFetch == FetchInit => FetchInv
<1> SUFFICES ASSUME FetchInit PROVE FetchInv
  OBVIOUS
<1>1. /\ arrived = 0 /\ fetch = "top"
      /\ verified = <<>> /\ tpu = <<>> /\ packet_batches = <<>> /\ forwards = <<>>
  BY DEF FetchInit
<1>2. FetchType
  BY <1>1, FetchStageAssumption DEF FetchType
<1>3. Placed
  BY <1>1 DEF Placed
<1> QED
  BY <1>2, <1>3 DEF FetchInv

\* Taking a batch marks it and moves it to the end of what the thread holds.
LEMMA TakeStep ==
  ASSUME FetchInv, NEW n, forwards # <<>>, Take(n),
         UNCHANGED <<arrived, tpu, verified>>
  PROVE  FetchInv'
<1> DEFINE v == Len(verified) t == Len(tpu) p == Len(packet_batches) f == Len(forwards)
           e == Marked(v + t + p + 1)
<1>1. /\ verified \in Seq(Batch) /\ tpu \in Seq(Batch)
      /\ packet_batches \in Seq(Batch) /\ forwards \in Seq(Batch)
      /\ v \in Nat /\ t \in Nat /\ p \in Nat
  BY DEF FetchInv, FetchType
<1>2. /\ f \in Nat /\ f >= 1 /\ Head(forwards) = forwards[1]
      /\ Tail(forwards) \in Seq(Batch) /\ Len(Tail(forwards)) = f - 1
      /\ \A i \in 1 .. f - 1 : Tail(forwards)[i] = forwards[i + 1]
  BY <1>1, AtFront
<1>3. /\ v + t + p + f = arrived
      /\ \A i \in 1 .. v : verified[i] = Marked(i)
      /\ \A i \in 1 .. t : tpu[i] = Marked(v + i)
      /\ \A i \in 1 .. p : packet_batches[i] = Marked(v + t + i)
      /\ \A i \in 1 .. f : forwards[i] = Unmarked(v + t + p + i)
  BY DEF FetchInv, Placed
<1>4. mark_forwarded(Head(forwards)) = e /\ e \in Batch
  <2>1. 1 \in 1 .. f /\ v + t + p + 1 \in Nat
    BY <1>1, <1>2
  <2>2. Head(forwards) = Unmarked(v + t + p + 1)
    BY <1>2, <1>3, <2>1
  <2> HIDE DEF v, t, p, f
  <2> QED
    BY <2>1, <2>2, Marking
<1>5. packet_batches' = Append(packet_batches, e) /\ forwards' = Tail(forwards)
  BY <1>4 DEF Take
<1> HIDE DEF e
<1>6. /\ packet_batches' \in Seq(Batch) /\ Len(packet_batches') = p + 1
      /\ \A i \in 1 .. p : packet_batches'[i] = packet_batches[i]
      /\ packet_batches'[p + 1] = e
      /\ packet_batches' # <<>>
  BY <1>1, <1>4, <1>5, AtEnd
<1>7. FetchType'
  BY <1>1, <1>2, <1>5, <1>6 DEF FetchInv, FetchType
<1>8. Placed'
  <2>1. v + t + (p + 1) + (f - 1) = arrived
    BY <1>1, <1>2, <1>3
  <2>2. \A i \in 1 .. p + 1 : packet_batches'[i] = Marked(v + t + i)
    <3> TAKE i \in 1 .. p + 1
    <3>1. CASE i \in 1 .. p
      BY <1>3, <1>6, <3>1, Zenon
    <3>2. CASE i = p + 1
      <4>1. v + t + i = v + t + p + 1
        BY <1>1, <3>2
      <4> QED
        BY <1>6, <3>2, <4>1 DEF e
    <3> QED
      BY <1>1, <3>1, <3>2
  <2>3. \A i \in 1 .. f - 1 : forwards'[i] = Unmarked(v + t + (p + 1) + i)
    <3> TAKE i \in 1 .. f - 1
    <3>1. i + 1 \in 1 .. f /\ v + t + p + (i + 1) = v + t + (p + 1) + i
      BY <1>1, <1>2
    <3>2. forwards[i + 1] = Unmarked(v + t + p + (i + 1))
      BY <1>3, <3>1, Zenon
    <3> QED
      BY <1>2, <1>5, <3>1, <3>2
  <2> QED
    BY <1>2, <1>3, <1>5, <1>6, <2>1, <2>2, <2>3 DEF Placed
<1> QED
  BY <1>7, <1>8 DEF FetchInv

\* Sending moves the first batch the thread holds to the end of the next channel.
LEMMA SendStep ==
  ASSUME FetchInv, FetchSend
  PROVE  FetchInv'
<1> DEFINE v == Len(verified) t == Len(tpu) p == Len(packet_batches) f == Len(forwards)
           e == Head(packet_batches)
<1>1. /\ verified \in Seq(Batch) /\ tpu \in Seq(Batch)
      /\ packet_batches \in Seq(Batch) /\ forwards \in Seq(Batch)
      /\ v \in Nat /\ t \in Nat /\ f \in Nat
      /\ packet_batches # <<>>
  BY DEF FetchInv, FetchType, FetchSend
<1>2. /\ tpu' = Append(tpu, e) /\ packet_batches' = Tail(packet_batches)
      /\ UNCHANGED <<arrived, verified, forwards>>
      /\ fetch' = IF p = 1 THEN "top" ELSE "send"
  BY DEF FetchSend
<1>3. /\ p \in Nat /\ p >= 1 /\ e = packet_batches[1] /\ e \in Batch
      /\ packet_batches' \in Seq(Batch) /\ Len(packet_batches') = p - 1
      /\ \A i \in 1 .. p - 1 : packet_batches'[i] = packet_batches[i + 1]
      /\ p # 1 => packet_batches' # <<>>
  BY <1>1, <1>2, AtFront
<1>4. /\ v + t + p + f = arrived
      /\ \A i \in 1 .. v : verified[i] = Marked(i)
      /\ \A i \in 1 .. t : tpu[i] = Marked(v + i)
      /\ \A i \in 1 .. p : packet_batches[i] = Marked(v + t + i)
      /\ \A i \in 1 .. f : forwards[i] = Unmarked(v + t + p + i)
  BY DEF FetchInv, Placed
<1>5. e = Marked(v + t + 1)
  <2>1. 1 \in 1 .. p
    BY <1>3
  <2> QED
    BY <1>3, <1>4, <2>1
<1> HIDE DEF e
<1>6. /\ tpu' \in Seq(Batch) /\ Len(tpu') = t + 1
      /\ \A i \in 1 .. t : tpu'[i] = tpu[i]
      /\ tpu'[t + 1] = e
  BY <1>1, <1>2, <1>3, AtEnd
<1>7. FetchType'
  BY <1>1, <1>2, <1>3, <1>6 DEF FetchInv, FetchType
<1>8. Placed'
  <2>1. v + (t + 1) + (p - 1) + f = arrived
    BY <1>1, <1>3, <1>4
  <2>2. \A i \in 1 .. t + 1 : tpu'[i] = Marked(v + i)
    <3> TAKE i \in 1 .. t + 1
    <3>1. CASE i \in 1 .. t
      BY <1>4, <1>6, <3>1
    <3>2. CASE i = t + 1
      <4>1. v + i = v + t + 1
        BY <1>1, <3>2
      <4> QED
        BY <1>5, <1>6, <3>2, <4>1
    <3> QED
      BY <1>1, <3>1, <3>2
  <2>3. \A i \in 1 .. p - 1 : packet_batches'[i] = Marked(v + (t + 1) + i)
    <3> TAKE i \in 1 .. p - 1
    <3>1. i + 1 \in 1 .. p /\ v + t + (i + 1) = v + (t + 1) + i
      BY <1>1, <1>3
    <3>2. packet_batches[i + 1] = Marked(v + t + (i + 1))
      BY <1>4, <3>1
    <3> QED
      BY <1>3, <3>1, <3>2
  <2>4. \A i \in 1 .. f : forwards[i] = Unmarked(v + (t + 1) + (p - 1) + i)
    <3> TAKE i \in 1 .. f
    <3>1. v + (t + 1) + (p - 1) + i = v + t + p + i
      BY <1>1, <1>3
    <3> QED
      BY <1>4, <3>1
  <2> QED
    BY <1>2, <1>3, <1>4, <1>6, <2>1, <2>2, <2>3, <2>4 DEF Placed
<1> QED
  BY <1>7, <1>8 DEF FetchInv

\* The verifier takes the first batch that waits for it.
LEMMA VerifierStep ==
  ASSUME FetchInv, VerifierTakes
  PROVE  FetchInv'
<1> DEFINE v == Len(verified) t == Len(tpu) p == Len(packet_batches) f == Len(forwards)
           e == Head(tpu)
<1>1. /\ verified \in Seq(Batch) /\ tpu \in Seq(Batch) /\ tpu # <<>>
      /\ v \in Nat /\ p \in Nat /\ f \in Nat
  BY DEF FetchInv, FetchType, VerifierTakes
<1>2. /\ verified' = Append(verified, e) /\ tpu' = Tail(tpu)
      /\ UNCHANGED <<arrived, packet_batches, forwards, fetch>>
  BY DEF VerifierTakes
<1>3. /\ t \in Nat /\ t >= 1 /\ e = tpu[1] /\ e \in Batch
      /\ tpu' \in Seq(Batch) /\ Len(tpu') = t - 1
      /\ \A i \in 1 .. t - 1 : tpu'[i] = tpu[i + 1]
  BY <1>1, <1>2, AtFront
<1>4. /\ v + t + p + f = arrived
      /\ \A i \in 1 .. v : verified[i] = Marked(i)
      /\ \A i \in 1 .. t : tpu[i] = Marked(v + i)
      /\ \A i \in 1 .. p : packet_batches[i] = Marked(v + t + i)
      /\ \A i \in 1 .. f : forwards[i] = Unmarked(v + t + p + i)
  BY DEF FetchInv, Placed
<1>5. e = Marked(v + 1)
  <2>1. 1 \in 1 .. t
    BY <1>3
  <2> QED
    BY <1>3, <1>4, <2>1
<1> HIDE DEF e
<1>6. /\ verified' \in Seq(Batch) /\ Len(verified') = v + 1
      /\ \A i \in 1 .. v : verified'[i] = verified[i]
      /\ verified'[v + 1] = e
  BY <1>1, <1>2, <1>3, AtEnd
<1>7. FetchType'
  BY <1>2, <1>3, <1>6 DEF FetchInv, FetchType
<1>8. Placed'
  <2>1. (v + 1) + (t - 1) + p + f = arrived /\ (v + 1) + (t - 1) = v + t
    BY <1>1, <1>3, <1>4
  <2>2. \A i \in 1 .. v + 1 : verified'[i] = Marked(i)
    <3> TAKE i \in 1 .. v + 1
    <3>1. CASE i \in 1 .. v
      BY <1>4, <1>6, <3>1
    <3>2. CASE i = v + 1
      BY <1>5, <1>6, <3>2
    <3> QED
      BY <1>1, <3>1, <3>2
  <2>3. \A i \in 1 .. t - 1 : tpu'[i] = Marked((v + 1) + i)
    <3> TAKE i \in 1 .. t - 1
    <3>1. i + 1 \in 1 .. t /\ v + (i + 1) = (v + 1) + i
      BY <1>1, <1>3
    <3>2. tpu[i + 1] = Marked(v + (i + 1))
      BY <1>4, <3>1
    <3> QED
      BY <1>3, <3>1, <3>2
  <2> QED
    BY <1>2, <1>3, <1>4, <1>6, <2>1, <2>2, <2>3 DEF Placed
<1> QED
  BY <1>7, <1>8 DEF FetchInv

\* A batch that arrives is the last, and not marked.
LEMMA ArrivalStep ==
  ASSUME FetchInv, BatchArrives
  PROVE  FetchInv'
<1> DEFINE v == Len(verified) t == Len(tpu) p == Len(packet_batches) f == Len(forwards)
           e == Unmarked(arrived + 1)
<1>1. /\ forwards \in Seq(Batch) /\ arrived \in 0 .. Batches /\ arrived < Batches
      /\ v \in Nat /\ t \in Nat /\ p \in Nat /\ f \in Nat
  BY DEF FetchInv, FetchType, BatchArrives
<1>2. /\ arrived' = arrived + 1 /\ forwards' = Append(forwards, e)
      /\ UNCHANGED <<verified, tpu, packet_batches, fetch>>
  BY DEF BatchArrives, Unmarked
<1>3. Batches \in Nat
  BY FetchStageAssumption
<1>4. arrived' \in 0 .. Batches /\ arrived + 1 \in Nat
  BY <1>1, <1>2, <1>3
<1>5. e \in Batch
  BY <1>4, Marking
<1>6. /\ v + t + p + f = arrived
      /\ \A i \in 1 .. f : forwards[i] = Unmarked(v + t + p + i)
  BY DEF FetchInv, Placed
<1>7. arrived + 1 = v + t + p + (f + 1)
  BY <1>1, <1>6
<1> HIDE DEF e
<1>8. /\ forwards' \in Seq(Batch) /\ Len(forwards') = f + 1
      /\ \A i \in 1 .. f : forwards'[i] = forwards[i]
      /\ forwards'[f + 1] = e
  BY <1>1, <1>2, <1>5, AtEnd
<1>9. FetchType'
  BY <1>2, <1>4, <1>8 DEF FetchInv, FetchType
<1>10. Placed'
  <2>1. \A i \in 1 .. f + 1 : forwards'[i] = Unmarked(v + t + p + i)
    <3> TAKE i \in 1 .. f + 1
    <3>1. CASE i \in 1 .. f
      BY <1>6, <1>8, <3>1
    <3>2. CASE i = f + 1
      BY <1>7, <1>8, <3>2 DEF e
    <3> QED
      BY <1>1, <3>1, <3>2
  <2> QED
    BY <1>2, <1>7, <1>8, <2>1 DEF FetchInv, Placed
<1> QED
  BY <1>9, <1>10 DEF FetchInv

\* Every step keeps every batch in its place.
LEMMA NextFetch == FetchInv /\ [ShutdownNext]_allVars => FetchInv'
<1> SUFFICES ASSUME FetchInv, [ShutdownNext]_allVars PROVE FetchInv'
  OBVIOUS
<1>1. CASE FetchTop(exit) \/ FetchPanic \/ QuicEnds(exit) \/ VerifierEnds(forwarders)
  <2>1. /\ UNCHANGED <<arrived, forwards, packet_batches, tpu, verified>>
        /\ fetch' \in {"drain", "send"} => fetch' = fetch
    BY <1>1 DEF FetchTop, FetchPanic, QuicEnds, VerifierEnds
  <2> QED
    BY <2>1 DEF FetchInv, FetchType, Placed
<1>2. CASE FetchRecv
  BY <1>2, TakeStep DEF FetchRecv
<1>3. CASE FetchDrain
  <2>1. CASE forwards = <<>>
    <3>1. /\ UNCHANGED <<arrived, forwards, packet_batches, tpu, verified>>
          /\ fetch = "drain"
      BY <1>3, <2>1 DEF FetchDrain
    <3> QED
      BY <3>1 DEF FetchInv, FetchType, Placed
  <2>2. CASE forwards # <<>>
    BY <1>3, <2>2, TakeStep DEF FetchDrain
  <2> QED
    BY <2>1, <2>2
<1>4. CASE FetchSend \/ BatchArrives \/ VerifierTakes
  BY <1>4, SendStep, ArrivalStep, VerifierStep
<1>5. CASE UNCHANGED fetchVars
  BY <1>5 DEF fetchVars, FetchInv, FetchType, Placed
<1>6. CASE ~(FetchStep \/ FetchSurroundings \/ FetchFails)
  <2>1. UNCHANGED fetchVars
    BY <1>6 DEF ShutdownNext, Signal, MainStep, ServeReturns, Join, MainReturns, ForwardersEnd,
                HookExits, allVars
  <2> QED
    BY <1>5, <2>1
<1> QED
  BY <1>1, <1>2, <1>3, <1>4, <1>6, Zenon DEF FetchStep, FetchSurroundings, FetchFails

\* Batches in their places are the channels one after the other.
LEMMA PlacedIsKept == FetchInv => ForwardsKept
<1> SUFFICES ASSUME FetchInv PROVE ForwardsKept
  OBVIOUS
<1> DEFINE v == Len(verified) t == Len(tpu) p == Len(packet_batches) f == Len(forwards)
           all == verified \o tpu \o packet_batches \o forwards
<1>1. /\ verified \in Seq(Batch) /\ tpu \in Seq(Batch)
      /\ packet_batches \in Seq(Batch) /\ forwards \in Seq(Batch)
      /\ v \in Nat /\ t \in Nat /\ p \in Nat /\ f \in Nat
  BY DEF FetchInv, FetchType
<1>2. /\ v + t + p + f = arrived
      /\ \A i \in 1 .. v : verified[i] = Marked(i)
      /\ \A i \in 1 .. t : tpu[i] = Marked(v + i)
      /\ \A i \in 1 .. p : packet_batches[i] = Marked(v + t + i)
      /\ \A i \in 1 .. f : forwards[i] = Unmarked(v + t + p + i)
  BY DEF FetchInv, Placed
<1>3. all \in Seq(Batch) /\ Len(all) = v + t + p + f
  BY <1>1
<1>4. \A i \in 1 .. arrived : all[i] = [id |-> i, forwarded |-> i <= arrived - f]
  <2> SUFFICES ASSUME NEW i \in 1 .. arrived
               PROVE  all[i] = [id |-> i, forwarded |-> i <= arrived - f]
    BY Zenon
  <2>1. CASE i \in 1 .. v
    <3>1. all[i] = verified[i]
      BY <1>1, <1>2, <2>1
    <3>2. (i <= arrived - f) = TRUE
      BY <1>1, <1>2, <2>1
    <3> QED
      BY <1>2, <2>1, <3>1, <3>2, Zenon DEF Marked
  <2>2. CASE i \in v + 1 .. v + t
    <3>1. all[i] = tpu[i - v] /\ i - v \in 1 .. t /\ v + (i - v) = i
      BY <1>1, <1>2, <2>2, SMTT(30)
    <3>2. (i <= arrived - f) = TRUE
      BY <1>1, <1>2, <2>2
    <3> QED
      BY <1>2, <3>1, <3>2, Zenon DEF Marked
  <2>3. CASE i \in v + t + 1 .. v + t + p
    <3>1. all[i] = packet_batches[i - (v + t)] /\ i - (v + t) \in 1 .. p
          /\ v + t + (i - (v + t)) = i
      BY <1>1, <1>2, <2>3
    <3>2. (i <= arrived - f) = TRUE
      BY <1>1, <1>2, <2>3
    <3> QED
      BY <1>2, <3>1, <3>2, Zenon DEF Marked
  <2>4. CASE i \in v + t + p + 1 .. v + t + p + f
    <3>1. all[i] = forwards[i - (v + t + p)] /\ i - (v + t + p) \in 1 .. f
          /\ v + t + p + (i - (v + t + p)) = i
      BY <1>1, <1>2, <2>4
    <3>2. (i <= arrived - f) = FALSE
      BY <1>1, <1>2, <2>4
    <3> QED
      BY <1>2, <3>1, <3>2, Zenon DEF Unmarked
  <2> QED
    BY <1>1, <1>2, <2>1, <2>2, <2>3, <2>4, SMTT(30)
<1>5. all = [i \in 1 .. arrived |-> all[i]]
  <2>1. all \in Seq(Batch) /\ Len(all) = arrived
    BY <1>2, <1>3
  <2> HIDE DEF all
  <2> QED
    BY <2>1
<1>6. all = [i \in 1 .. arrived |-> [id |-> i, forwarded |-> i <= arrived - f]]
  <2> HIDE DEF all, f
  <2> QED
    BY <1>4, <1>5, Zenon
<1> QED
  BY <1>6 DEF ForwardsKept

\* The fetch stage loses, repeats and reorders nothing and marks all it passes on, for
\* any number of batches of any size, any capacity and any read limit, and whatever
\* thread ends first.
THEOREM ForwardsAreKept == ShutdownSpec => []ForwardsKept
<1>1. ShutdownInit => FetchInv
  BY InitFetch DEF ShutdownInit
<1> QED
  BY <1>1, NextFetch, PlacedIsKept, PTL DEF ShutdownSpec

\* The part of the types that is not the health manager's.
Ends ==
  /\ main \in {"serving", "draining", "joining", "returned"}
  /\ joined \in 0 .. Len(Joins)
  /\ forwarders \in BOOLEAN
  /\ process \in {"running", "returned", "failed"}

Queues ==
  /\ fetch \in {"top", "recv", "drain", "send", "exited", "panicked"}
  /\ Len(forwards) <= QueueCapacity /\ Len(tpu) <= QueueCapacity

\* Every step keeps main's.
LEMMA EndsKept == Ends /\ [ShutdownNext]_allVars => Ends'
<1> SUFFICES ASSUME Ends, [ShutdownNext]_allVars PROVE Ends'
  OBVIOUS
<1> USE DEF Ends
<1>1. Len(Joins) = 4
  BY DEF Joins
<1>2. CASE Join
  BY <1>1, <1>2 DEF Join
<1>3. CASE Signal \/ ServeReturns \/ MainReturns \/ ForwardersEnd \/ HookExits
  BY <1>3, Zenon DEF Signal, ServeReturns, MainReturns, ForwardersEnd, HookExits
<1>4. CASE UNCHANGED mainVars
  BY <1>4 DEF mainVars
<1>5. CASE FetchFails
  BY <1>4, <1>5 DEF FetchFails, mainVars
<1> QED
  BY <1>2, <1>3, <1>4, <1>5 DEF ShutdownNext, MainStep, allVars

\* Every step keeps the fetch stage's.
LEMMA QueuesKept == FetchInv /\ Queues /\ [ShutdownNext]_allVars => Queues'
<1> SUFFICES ASSUME FetchInv, Queues, [ShutdownNext]_allVars PROVE Queues'
  OBVIOUS
<1> USE DEF Queues
<1>0. /\ QueueCapacity \in Nat
      /\ tpu \in Seq(Batch) /\ forwards \in Seq(Batch) /\ packet_batches \in Seq(Batch)
  BY FetchStageAssumption DEF FetchInv, FetchType
<1>1. CASE FetchTop(exit) \/ FetchPanic \/ QuicEnds(exit) \/ VerifierEnds(forwarders)
  BY <1>1 DEF FetchTop, FetchPanic, QuicEnds, VerifierEnds
<1>2. CASE FetchRecv
  <2>1. Len(Tail(forwards)) <= QueueCapacity
    BY <1>0, <1>2, AtFront DEF FetchRecv
  <2> QED
    BY <1>2, <2>1 DEF FetchRecv, Take
<1>3. CASE FetchDrain
  <2>1. CASE forwards = <<>>
    BY <1>3, <2>1 DEF FetchDrain
  <2>2. CASE forwards # <<>>
    <3>1. Len(Tail(forwards)) <= QueueCapacity
      BY <1>0, <2>2, AtFront
    <3> QED
      BY <1>3, <2>2, <3>1 DEF FetchDrain, Take
  <2> QED
    BY <2>1, <2>2
<1>4. CASE FetchSend
  <2>1. Head(packet_batches) \in Batch
    BY <1>0, <1>4, AtFront DEF FetchSend, FetchInv, FetchType
  <2>2. Len(tpu') <= QueueCapacity
    BY <1>0, <1>4, <2>1, AtEnd DEF FetchSend
  <2> QED
    BY <1>4, <2>2 DEF FetchSend
<1>5. CASE BatchArrives
  <2>1. Len(forwards') <= QueueCapacity
    BY <1>0, <1>5 DEF BatchArrives
  <2> QED
    BY <1>5, <2>1 DEF BatchArrives
<1>6. CASE VerifierTakes
  <2>1. Len(tpu') <= QueueCapacity
    BY <1>0, <1>6, AtFront DEF VerifierTakes
  <2> QED
    BY <1>6, <2>1 DEF VerifierTakes
<1>7. CASE UNCHANGED fetchVars
  BY <1>7 DEF fetchVars
<1>8. CASE ~(FetchStep \/ FetchSurroundings \/ FetchFails)
  <2>1. UNCHANGED fetchVars
    BY <1>8 DEF ShutdownNext, Signal, MainStep, ServeReturns, Join, MainReturns, ForwardersEnd,
                HookExits, allVars
  <2> QED
    BY <1>7, <2>1
<1> QED
  BY <1>1, <1>2, <1>3, <1>4, <1>5, <1>6, <1>8, Zenon DEF FetchStep, FetchSurroundings, FetchFails

\* Every variable keeps its type and every channel around the fetch stage its bound.
THEOREM ShutdownTypeCorrect == ShutdownSpec => []ShutdownTypeOK
<1>1. ShutdownInit => FetchInv
  BY InitFetch DEF ShutdownInit
<1>2. ShutdownInit => Ends
  <2> SUFFICES ASSUME ShutdownInit PROVE Ends
    OBVIOUS
  <2>1. joined \in 0 .. Len(Joins)
    BY DEF ShutdownInit, Joins
  <2> QED
    BY <2>1, Zenon DEF ShutdownInit, Ends
<1>3. ShutdownInit => Queues
  BY FetchStageAssumption DEF ShutdownInit, FetchInit, Queues
<1>4. TypeOK /\ Ends /\ Queues => ShutdownTypeOK
  BY DEF Ends, Queues, ShutdownTypeOK
<1> QED
  BY <1>1, <1>2, <1>3, <1>4, NextFetch, EndsKept, QueuesKept, RunsHealthManager, TypeCorrect,
     PTL DEF ShutdownSpec

-----------------------------------------------------------------------------
(* The order of the end.                                                    *)

\* The threads joined have ended, and a thread that has ended holds nothing.
JoinedHaveEnded ==
  /\ joined > 0 => main \in {"joining", "returned"}
  /\ joined >= 1 => fetch = "exited" /\ ~sigverify /\ ~quic
  /\ joined >= 2 => manager = "exited"
  /\ joined >= 3 => ~forwarders
  /\ fetch \in {"top", "recv", "exited"} => packet_batches = <<>>
  /\ process = "returned" => joined = Len(Joins)

\* When main has returned, the threads it joins have ended and the fetch stage has passed
\* on all it had taken.
ReturnedClean ==
  process = "returned" =>
    /\ ~quic /\ ~sigverify /\ ~forwarders
    /\ manager = "exited" /\ fetch = "exited" /\ packet_batches = <<>>

\* What each join waits for.
LEMMA JoinWaits ==
  ASSUME Ended(Joins[joined + 1])
  PROVE  /\ joined = 0 => fetch = "exited" /\ ~sigverify /\ ~quic
         /\ joined = 1 => manager = "exited"
         /\ joined = 2 => ~forwarders
<1>1. Joins[1] = "tpu" /\ Joins[2] = "health_manager" /\ Joins[3] = "forwarders"
  BY DEF Joins
<1>2. /\ Ended("tpu") => fetch = "exited" /\ ~sigverify /\ ~quic
      /\ Ended("health_manager") => manager = "exited"
      /\ Ended("forwarders") => ~forwarders
  BY DEF Ended
<1> QED
  BY <1>1, <1>2

\* A thread that has ended stays so, and main joins in order.
LEMMA NextJoined ==
  FetchInv /\ Ends /\ JoinedHaveEnded /\ [ShutdownNext]_allVars => JoinedHaveEnded'
<1> SUFFICES ASSUME FetchInv, Ends, JoinedHaveEnded, [ShutdownNext]_allVars
             PROVE  JoinedHaveEnded'
  OBVIOUS
<1>0. joined \in 0 .. 4 /\ Len(Joins) = 4
  BY DEF Ends, Joins
<1>1. CASE ManagerStep /\ UNCHANGED <<fetchVars, mainVars>>
  BY <1>0, <1>1, SMTT(30)
     DEF JoinedHaveEnded, ManagerStep, LoopTop, CheckHealth, RecvSlot, SendSlot, Panic,
                    ExpectFails, fetchVars, mainVars
<1>2. CASE ManagerSurroundings /\ UNCHANGED <<fetchVars, mainVars>>
  BY <1>0, <1>2, SMTT(30)
     DEF JoinedHaveEnded, ManagerSurroundings, SlotArrives, RelayerTakesSlot, SendersExit,
                    RelayerExits, Tick, fetchVars, mainVars
<1>3. CASE FetchSend /\ UNCHANGED <<vars, mainVars>>
  <2>1. packet_batches \in Seq(Batch) /\ packet_batches # <<>>
    BY <1>3 DEF FetchInv, FetchType, FetchSend
  <2>2. ASSUME Len(packet_batches) = 1 PROVE Tail(packet_batches) = <<>>
    <3>1. Tail(packet_batches) \in Seq(Batch) /\ Len(Tail(packet_batches)) = 0
      BY <2>1, <2>2, AtFront
    <3>2. ASSUME NEW s \in Seq(Batch), Len(s) = 0 PROVE s = <<>>
      BY <3>2
    <3> QED
      BY <3>1, <3>2, Zenon
  <2> QED
    BY <1>0, <1>3, <2>2 DEF JoinedHaveEnded, FetchSend, vars, mainVars
<1>4. CASE (FetchTop(exit) \/ FetchRecv \/ FetchDrain) /\ UNCHANGED <<vars, mainVars>>
  BY <1>0, <1>4, SMTT(30) DEF JoinedHaveEnded, FetchTop, FetchRecv, FetchDrain, vars, mainVars
<1>5. CASE FetchSurroundings /\ UNCHANGED <<vars, mainVars>>
  BY <1>0, <1>5, SMTT(30) DEF JoinedHaveEnded, FetchSurroundings, BatchArrives, QuicEnds, VerifierTakes,
                    VerifierEnds, vars, mainVars
<1>6. CASE FetchFails
  BY <1>0, <1>6 DEF JoinedHaveEnded, FetchFails, FetchPanic, ChannelClosed, mainVars
<1>7. CASE Signal \/ ServeReturns \/ ForwardersEnd
  BY <1>0, <1>7, SMTT(30)
     DEF JoinedHaveEnded, Signal, SignalExit, ServeReturns, ForwardersEnd, vars, fetchVars
<1>8. CASE (MainReturns \/ HookExits) /\ process = "running"
  BY <1>0, <1>8, SMTT(30) DEF JoinedHaveEnded, MainReturns, HookExits, vars, fetchVars
<1>9. CASE Join /\ process = "running"
  BY <1>0, <1>9, JoinWaits, SMTT(30) DEF JoinedHaveEnded, Join, vars, fetchVars
<1>10. CASE UNCHANGED allVars
  BY <1>10 DEF JoinedHaveEnded, allVars, vars, fetchVars, mainVars
<1> QED
  BY <1>1, <1>2, <1>3, <1>4, <1>5, <1>6, <1>7, <1>8, <1>9, <1>10
     DEF ShutdownNext, FetchStep, MainStep

\* main returns when everything it waits for has ended, with nothing left in the hands of
\* the fetch stage.
THEOREM MainReturnsLast == ShutdownSpec => []ReturnedClean
<1>1. ShutdownInit => FetchInv /\ Ends /\ JoinedHaveEnded
  <2> SUFFICES ASSUME ShutdownInit PROVE FetchInv /\ Ends /\ JoinedHaveEnded
    OBVIOUS
  <2>1. joined = 0 /\ Len(Joins) = 4
    BY DEF ShutdownInit, Joins
  <2>2. Ends
    BY <2>1 DEF ShutdownInit, Ends
  <2>3. JoinedHaveEnded
    BY <2>1 DEF ShutdownInit, FetchInit, JoinedHaveEnded
  <2> QED
    BY <2>2, <2>3, InitFetch DEF ShutdownInit
<1>2. JoinedHaveEnded => ReturnedClean
  <2>1. Len(Joins) = 4
    BY DEF Joins
  <2> QED
    BY <2>1 DEF JoinedHaveEnded, ReturnedClean
<1> QED
  BY <1>1, <1>2, NextFetch, EndsKept, NextJoined, PTL DEF ShutdownSpec
=============================================================================
