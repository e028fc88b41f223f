------------------------ MODULE LoadBalancer_proofs ------------------------
(***************************************************************************)
(* What the subscription threads report, for any number of servers, slots  *)
(* and any capacity of the slot channel.                                   *)
(***************************************************************************)
EXTENDS LoadBalancer, TLAPS

\* fetch_max hands out rising slots: one that is won and not sent yet is above none
\* that is sent already, belongs to one thread and stays below the maximum.
Won ==
  /\ \A s \in Server : pending[s] # 0 <=> thread[s] = "send"
  /\ \A s \in Server : pending[s] <= highest_slot
  /\ \A i \in DOMAIN sent : sent[i].slot <= highest_slot
  /\ \A s, r \in Server : pending[s] # 0 /\ pending[s] = pending[r] => s = r
  /\ \A s \in Server, i \in DOMAIN sent : sent[i].slot # pending[s]

\* A thread wins its slot after it has sent the one before: everything that was sent by
\* then is lower.
WonLater ==
  \A s \in Server, i, j \in DOMAIN sent :
    pending[s] # 0 /\ i <= j /\ sent[j].by = s => sent[i].slot < pending[s]

IInv == TypeOK /\ Won /\ WonLater /\ ReportedOnce /\ OvertakingBounded /\ HighestReported

-----------------------------------------------------------------------------
(* The steps that leave the won and the sent slots alone.                   *)

\* Nothing has been won or sent at first.
LEMMA InitBook == Init => IInv
<1> SUFFICES ASSUME Init PROVE IInv
  OBVIOUS
<1>1. DOMAIN sent = {}
  BY DEF Init
<1>2. TypeOK
  <2>1. /\ exit \in BOOLEAN /\ receiver \in BOOLEAN
        /\ stalled \in SUBSET Server
    BY Zenon DEF Init
  <2>2. /\ highest_slot \in 0 .. MaxSlot
        /\ server_to_slot \in [Server -> 0 .. MaxSlot]
        /\ pending \in [Server -> 0 .. MaxSlot]
        /\ silence \in [Server -> 0 .. SilenceLimit]
    BY LoadBalancerAssumption DEF Init
  <2>3. thread \in [Server -> {"subscribe", "connecting", "recv", "send", "exited"}]
    BY DEF Init
  <2>4. /\ slot_channel \in Seq(Slot) /\ Len(slot_channel) <= SlotCapacity
        /\ sent \in Seq([slot : Slot, by : Server])
    BY LoadBalancerAssumption DEF Init
  <2> QED
    BY <2>1, <2>2, <2>3, <2>4 DEF TypeOK
<1>3. Won
  BY <1>1 DEF Init, Won
<1>4. WonLater /\ ReportedOnce /\ OvertakingBounded
  BY <1>1 DEF WonLater, ReportedOnce, OvertakingBounded
<1>5. HighestReported
  BY DEF Init, HighestReported
<1> QED
  BY <1>2, <1>3, <1>4, <1>5 DEF IInv

\* Every step keeps the types.
LEMMA NextType == TypeOK /\ Won /\ [Next]_vars => TypeOK'
<1> SUFFICES ASSUME TypeOK, Won, [Next]_vars PROVE TypeOK'
  OBVIOUS
<1> USE LoadBalancerAssumption DEF TypeOK
<1>0. ASSUME NEW s \in Server, Connected(s) PROVE TypeOK'
  BY <1>0 DEF Connected
<1>1. ASSUME NEW s \in Server, Subscribe(s) PROVE TypeOK'
  <2>1. /\ thread' \in [Server -> {"subscribe", "connecting", "recv", "send", "exited"}]
        /\ silence' \in [Server -> 0 .. SilenceLimit]
    BY <1>1 DEF Subscribe
  <2>2. UNCHANGED <<exit, highest_slot, server_to_slot, pending, stalled, slot_channel, receiver,
                    sent>>
    BY <1>1 DEF Subscribe
  <2> QED
    BY <2>1, <2>2, Zenon
<1>2. ASSUME NEW s \in Server, NEW slot \in Slot, RecvSlot(s, slot) PROVE TypeOK'
  <2>1. /\ silence' \in [Server -> 0 .. SilenceLimit]
        /\ server_to_slot' \in [Server -> 0 .. MaxSlot]
    BY <1>2 DEF RecvSlot, Slot
  <2>2. /\ highest_slot' \in 0 .. MaxSlot
        /\ pending' \in [Server -> 0 .. MaxSlot]
        /\ thread' \in [Server -> {"subscribe", "connecting", "recv", "send", "exited"}]
    <3>1. CASE Wins(slot)
      <4>1. slot \in 0 .. MaxSlot
        BY DEF Slot
      <4>2. /\ highest_slot' = slot
            /\ thread' = [thread EXCEPT ![s] = "send"]
            /\ pending' = [pending EXCEPT ![s] = slot]
        BY <1>2, <3>1, Zenon DEF RecvSlot
      <4> QED
        BY <4>1, <4>2
    <3>2. CASE ~Wins(slot)
      BY <1>2, <3>2 DEF RecvSlot
    <3> QED
      BY <3>1, <3>2, Zenon
  <2>3. UNCHANGED <<exit, stalled, slot_channel, receiver, sent>>
    BY <1>2 DEF RecvSlot
  <2> QED
    BY <2>1, <2>2, <2>3, Zenon
<1>3. ASSUME NEW s \in Server, SendSlot(s) PROVE TypeOK'
  <2>1. pending[s] \in Slot
    BY <1>3, SMTT(30) DEF SendSlot, Won, Slot
  <2>2. slot_channel' \in Seq(Slot) /\ Len(slot_channel') <= SlotCapacity
    BY <1>3, <2>1 DEF SendSlot, Room
  <2>3. sent' \in Seq([slot : Slot, by : Server])
    BY <1>3, <2>1 DEF SendSlot
  <2>4. /\ thread' \in [Server -> {"subscribe", "connecting", "recv", "send", "exited"}]
        /\ pending' \in [Server -> 0 .. MaxSlot]
    BY <1>3 DEF SendSlot
  <2>5. UNCHANGED <<exit, highest_slot, server_to_slot, silence, stalled, receiver>>
    BY <1>3 DEF SendSlot
  <2> QED
    BY <2>2, <2>3, <2>4, <2>5, Zenon
<1>4. ASSUME NEW s \in Server, Resubscribe(s) PROVE TypeOK'
  BY <1>4, SMTT(30) DEF Resubscribe
<1>5. ASSUME NEW s \in Server, Stall(s) PROVE TypeOK'
  BY <1>5 DEF Stall
<1>6. CASE TakeSlot
  <2>1. slot_channel' \in Seq(Slot) /\ Len(slot_channel') <= SlotCapacity
    BY <1>6 DEF TakeSlot
  <2> QED
    BY <1>6, <2>1 DEF TakeSlot
<1>7. CASE SignalExit
  BY <1>7 DEF SignalExit
<1>8. CASE ReceiverDropped
  <2>1. slot_channel' \in Seq(Slot) /\ Len(slot_channel') <= SlotCapacity
    BY <1>8 DEF ReceiverDropped
  <2> QED
    BY <1>8, <2>1, Zenon DEF ReceiverDropped
<1>9. CASE Tick
  BY <1>9 DEF Tick, Silent
<1>10. CASE UNCHANGED vars
  BY <1>10 DEF vars
<1> QED
  BY <1>0, <1>1, <1>2, <1>3, <1>4, <1>5, <1>6, <1>7, <1>8, <1>9, <1>10, Zenon
  DEF Next, SubscribeFails, SendSlotFails, ForceDisconnect, Disconnected

\* What has been sent are slots.
LEMMA SentSlots ==
  ASSUME TypeOK
  PROVE  \A i \in DOMAIN sent : sent[i].slot \in Nat \ {0}
<1> TAKE i \in DOMAIN sent
<1> DEFINE Report == [slot : Slot, by : Server]
<1>1. sent \in Seq(Report)
  BY DEF TypeOK
<1>2. \A r \in Report : r.slot \in Slot
  OBVIOUS
<1> HIDE DEF Report
<1>3. sent[i] \in Report
  BY <1>1
<1>4. sent[i].slot \in Slot
  BY <1>2, <1>3
<1> QED
  BY <1>4, LoadBalancerAssumption DEF Slot

\* A step that sends nothing, wins nothing and only gives up what it may.
LEMMA QuietStep ==
  ASSUME IInv, UNCHANGED <<highest_slot, pending, sent>>,
         receiver' => receiver,
         \A s \in Server : thread'[s] = "send" <=> thread[s] = "send"
  PROVE  Won' /\ WonLater' /\ ReportedOnce' /\ OvertakingBounded' /\ HighestReported'
<1>1. Won'
  BY DEF IInv, Won
<1>2. WonLater' /\ ReportedOnce' /\ OvertakingBounded'
  BY DEF IInv, WonLater, ReportedOnce, OvertakingBounded
<1>3. HighestReported'
  BY DEF IInv, HighestReported
<1> QED
  BY <1>1, <1>2, <1>3

-----------------------------------------------------------------------------
(* The steps that win, send or give up a slot.                              *)

\* RecvSlot: a slot that raises the maximum is above every slot won or sent before.
LEMMA RecvBook ==
  ASSUME IInv, NEW s \in Server, NEW slot \in Slot, RecvSlot(s, slot)
  PROVE  Won' /\ WonLater' /\ ReportedOnce' /\ OvertakingBounded' /\ HighestReported'
<1>1. CASE ~Wins(slot)
  <2>1. /\ UNCHANGED <<highest_slot, pending, sent, receiver, thread>>
    BY <1>1 DEF RecvSlot
  <2> QED
    BY <2>1, QuietStep
<1>2. CASE Wins(slot)
  <2>1. /\ slot > highest_slot
        /\ highest_slot' = slot
        /\ thread' = [thread EXCEPT ![s] = "send"]
        /\ pending' = [pending EXCEPT ![s] = slot]
        /\ sent' = sent /\ receiver' = receiver
    BY <1>2 DEF RecvSlot, Wins
  <2>2. /\ \A r \in Server : pending[r] <= highest_slot
        /\ \A i \in DOMAIN sent : sent[i].slot \in Nat \ {0}
        /\ \A i \in DOMAIN sent : sent[i].slot <= highest_slot
    BY SentSlots DEF IInv, Won
  <2>3. /\ slot \in Nat \ {0} /\ highest_slot \in Nat
        /\ \A r \in Server : pending[r] \in Nat
    BY LoadBalancerAssumption DEF IInv, TypeOK, Slot
  <2>4. /\ \A r \in Server \ {s} : pending'[r] = pending[r] /\ thread'[r] = thread[r]
        /\ pending'[s] = slot /\ thread'[s] = "send"
    BY <2>1 DEF IInv, TypeOK
  <2>5. Won'
    <3>1. \A r \in Server : pending'[r] # 0 <=> thread'[r] = "send"
      BY <2>3, <2>4 DEF IInv, Won
    <3>2. \A r \in Server : pending'[r] <= highest_slot'
      BY <2>1, <2>2, <2>3, <2>4
    <3>3. \A i \in DOMAIN sent' : sent'[i].slot <= highest_slot'
      BY <2>1, <2>2, <2>3
    <3>4. \A r, q \in Server : pending'[r] # 0 /\ pending'[r] = pending'[q] => r = q
      <4>1. \A r \in Server \ {s} : pending'[r] < slot
        BY <2>1, <2>2, <2>3, <2>4
      <4>2. \A r \in Server : pending'[r] \in Nat
        BY <2>3, <2>4
      <4> QED
        BY <2>4, <4>1, <4>2, <2>3 DEF IInv, Won
    <3>5. \A r \in Server, i \in DOMAIN sent' : sent'[i].slot # pending'[r]
      <4> SUFFICES ASSUME NEW r \in Server, NEW i \in DOMAIN sent
                   PROVE  sent[i].slot # pending'[r]
        BY <2>1
      <4>1. CASE r = s
        BY <2>1, <2>2, <2>3, <2>4, <4>1
      <4>2. CASE r # s
        BY <2>4, <4>2 DEF IInv, Won
      <4> QED
        BY <4>1, <4>2
    <3> QED
      BY <3>1, <3>2, <3>3, <3>4, <3>5 DEF Won
  <2>6. WonLater'
    <3> SUFFICES ASSUME NEW r \in Server, NEW i \in DOMAIN sent, NEW j \in DOMAIN sent,
                        pending'[r] # 0, i <= j, sent[j].by = r
                 PROVE  sent[i].slot < pending'[r]
      BY <2>1 DEF WonLater
    <3>1. CASE r = s
      BY <2>1, <2>2, <2>3, <2>4, <3>1
    <3>2. CASE r # s
      BY <2>4, <3>2 DEF IInv, WonLater
    <3> QED
      BY <3>1, <3>2
  <2>7. ReportedOnce' /\ OvertakingBounded'
    BY <2>1 DEF IInv, ReportedOnce, OvertakingBounded
  <2>8. HighestReported'
    BY <2>1, <2>4 DEF HighestReported
  <2> QED
    BY <2>5, <2>6, <2>7, <2>8
<1> QED
  BY <1>1, <1>2

\* SendSlot: what is appended is above everything this thread sent and whatever was
\* sent before that.
LEMMA SendBook ==
  ASSUME IInv, NEW s \in Server, SendSlot(s)
  PROVE  Won' /\ WonLater' /\ ReportedOnce' /\ OvertakingBounded' /\ HighestReported'
<1> DEFINE n == Len(sent)
           e == [slot |-> pending[s], by |-> s]
<1>1. /\ thread[s] = "send"
      /\ sent' = Append(sent, e)
      /\ thread' = [thread EXCEPT ![s] = "recv"]
      /\ pending' = [pending EXCEPT ![s] = 0]
      /\ UNCHANGED <<highest_slot, receiver>>
  BY DEF SendSlot
<1>2. pending[s] # 0 /\ pending[s] \in Nat
  BY <1>1 DEF IInv, TypeOK, Won
<1>3. /\ n \in Nat
      /\ DOMAIN sent = 1 .. n /\ DOMAIN sent' = 1 .. n + 1
      /\ \A i \in 1 .. n : sent'[i] = sent[i]
      /\ sent'[n + 1] = e
  BY <1>1 DEF IInv, TypeOK
<1>4. \A i \in 1 .. n : sent[i].slot \in Nat \ {0}
  BY <1>3, SentSlots DEF IInv
<1>5. \A r \in Server \ {s} : pending'[r] = pending[r] /\ thread'[r] = thread[r]
  BY <1>1 DEF IInv, TypeOK
<1>6. pending'[s] = 0 /\ thread'[s] = "recv"
  BY <1>1 DEF IInv, TypeOK
<1>7. e.slot = pending[s] /\ e.by = s
  OBVIOUS
<1> HIDE DEF n, e
<1>8. Won'
  <2>1. \A r \in Server : pending'[r] # 0 <=> thread'[r] = "send"
    BY <1>5, <1>6 DEF IInv, Won
  <2>2. \A r \in Server : pending'[r] <= highest_slot'
    BY <1>1, <1>5, <1>6, LoadBalancerAssumption DEF IInv, TypeOK, Won
  <2>3. \A i \in DOMAIN sent' : sent'[i].slot <= highest_slot'
    BY <1>1, <1>3, <1>7 DEF IInv, Won
  <2>4. \A r, q \in Server : pending'[r] # 0 /\ pending'[r] = pending'[q] => r = q
    BY <1>5, <1>6 DEF IInv, Won
  <2>5. \A r \in Server, i \in DOMAIN sent' : sent'[i].slot # pending'[r]
    <3> SUFFICES ASSUME NEW r \in Server, NEW i \in 1 .. n + 1
                 PROVE  sent'[i].slot # pending'[r]
      BY <1>3
    <3>1. CASE r = s
      BY <1>2, <1>3, <1>4, <1>6, <1>7, <3>1
    <3>2. CASE r # s
      BY <1>2, <1>3, <1>5, <1>7, <3>2 DEF IInv, Won
    <3> QED
      BY <3>1, <3>2
  <2> QED
    BY <2>1, <2>2, <2>3, <2>4, <2>5 DEF Won
<1>9. WonLater'
  <2> SUFFICES ASSUME NEW r \in Server, NEW i \in 1 .. n + 1, NEW j \in 1 .. n + 1,
                      pending'[r] # 0, i <= j, sent'[j].by = r
               PROVE  sent'[i].slot < pending'[r]
    BY <1>3 DEF WonLater
  <2>1. r # s
    BY <1>6
  <2>2. j # n + 1
    BY <1>3, <1>7, <2>1
  <2>3. i \in 1 .. n /\ j \in 1 .. n
    BY <1>3, <2>2
  <2> QED
    BY <1>3, <1>5, <2>1, <2>3 DEF IInv, WonLater
<1>10. \A i \in 1 .. n : sent[i].slot # pending[s]
  BY <1>3 DEF IInv, Won
<1>11. ReportedOnce'
  <2> SUFFICES ASSUME NEW i \in 1 .. n + 1, NEW j \in 1 .. n + 1, sent'[i].slot = sent'[j].slot
               PROVE  i = j
    BY <1>3 DEF ReportedOnce
  <2>1. CASE i \in 1 .. n /\ j \in 1 .. n
    BY <1>3, <2>1 DEF IInv, ReportedOnce
  <2>2. CASE i = n + 1 \/ j = n + 1
    BY <1>3, <1>7, <1>10, <2>2
  <2> QED
    BY <1>3, <2>1, <2>2
<1>12. \A i, j \in 1 .. n : i <= j /\ sent[j].by = s => sent[i].slot < pending[s]
  BY <1>2, <1>3 DEF IInv, WonLater
<1>13. \A i, j \in DOMAIN sent' :
         i < j /\ sent'[j].slot < sent'[i].slot => sent'[i].by # sent'[j].by
  <2> SUFFICES ASSUME NEW i \in 1 .. n + 1, NEW j \in 1 .. n + 1,
                      i < j, sent'[j].slot < sent'[i].slot
               PROVE  sent'[i].by # sent'[j].by
    BY <1>3
  <2>1. i \in 1 .. n
    BY <1>3
  <2>2. CASE j \in 1 .. n
    BY <1>3, <2>1, <2>2 DEF IInv, OvertakingBounded
  <2>3. CASE j = n + 1
    BY <1>2, <1>3, <1>4, <1>7, <1>12, <2>1, <2>3
  <2> QED
    BY <1>3, <2>2, <2>3
<1>14. \A i, j, k \in DOMAIN sent' :
         i < j /\ j < k /\ sent'[j].slot < sent'[i].slot /\ sent'[k].slot < sent'[i].slot
           => sent'[j].by # sent'[k].by
  <2> SUFFICES ASSUME NEW i \in 1 .. n + 1, NEW j \in 1 .. n + 1, NEW k \in 1 .. n + 1,
                      i < j, j < k,
                      sent'[j].slot < sent'[i].slot, sent'[k].slot < sent'[i].slot
               PROVE  sent'[j].by # sent'[k].by
    BY <1>3
  <2>1. i \in 1 .. n /\ j \in 1 .. n
    BY <1>3
  <2>2. CASE k \in 1 .. n
    BY <1>3, <2>1, <2>2 DEF IInv, OvertakingBounded
  <2>3. CASE k = n + 1
    BY <1>2, <1>3, <1>4, <1>7, <1>12, <2>1, <2>3, SMTT(30)
  <2> QED
    BY <1>3, <2>2, <2>3
<1>15. HighestReported'
  <2> SUFFICES ASSUME highest_slot # 0, receiver
               PROVE  \/ \E i \in DOMAIN sent' : sent'[i].slot = highest_slot
                      \/ \E r \in Server : pending'[r] = highest_slot
    BY <1>1 DEF HighestReported
  <2>1. CASE \E i \in DOMAIN sent : sent[i].slot = highest_slot
    BY <1>3, <2>1, SMTT(30)
  <2>2. CASE pending[s] = highest_slot
    BY <1>3, <1>7, <2>2
  <2>3. CASE \E r \in Server \ {s} : pending[r] = highest_slot
    BY <1>5, <2>3
  <2> QED
    BY <2>1, <2>2, <2>3 DEF IInv, HighestReported
<1> QED
  BY <1>8, <1>9, <1>11, <1>13, <1>14, <1>15 DEF OvertakingBounded

\* Resubscribe gives up a slot only when the health manager is gone.
LEMMA ResubscribeBook ==
  ASSUME IInv, NEW s \in Server, Resubscribe(s),
         thread[s] \in {"connecting", "recv"} \/ (thread[s] = "send" /\ ~receiver)
  PROVE  Won' /\ WonLater' /\ ReportedOnce' /\ OvertakingBounded' /\ HighestReported'
<1>1. /\ UNCHANGED <<highest_slot, sent, receiver>>
      /\ pending' = [pending EXCEPT ![s] = 0]
      /\ thread' = [thread EXCEPT ![s] = "subscribe"]
  BY DEF Resubscribe
<1>2. /\ \A r \in Server \ {s} : pending'[r] = pending[r] /\ thread'[r] = thread[r]
      /\ pending'[s] = 0 /\ thread'[s] = "subscribe"
  BY <1>1 DEF IInv, TypeOK
<1>3. Won'
  <2>1. \A r \in Server : pending'[r] # 0 <=> thread'[r] = "send"
    BY <1>2 DEF IInv, Won
  <2>2. \A r \in Server : pending'[r] <= highest_slot'
    BY <1>1, <1>2, LoadBalancerAssumption, SMTT(30) DEF IInv, TypeOK, Won
  <2>3. \A i \in DOMAIN sent' : sent'[i].slot <= highest_slot'
    BY <1>1 DEF IInv, Won
  <2>4. \A r, q \in Server : pending'[r] # 0 /\ pending'[r] = pending'[q] => r = q
    BY <1>2, SMTT(30) DEF IInv, Won
  <2>5. \A r \in Server, i \in DOMAIN sent' : sent'[i].slot # pending'[r]
    <3> SUFFICES ASSUME NEW r \in Server, NEW i \in DOMAIN sent
                 PROVE  sent[i].slot # pending'[r]
      BY <1>1
    <3>1. CASE r = s
      BY <1>2, <3>1, SentSlots DEF IInv
    <3>2. CASE r # s
      BY <1>2, <3>2, SMTT(30) DEF IInv, Won
    <3> QED
      BY <3>1, <3>2
  <2> QED
    BY <2>1, <2>2, <2>3, <2>4, <2>5 DEF Won
<1>4. WonLater'
  BY <1>1, <1>2 DEF IInv, WonLater
<1>5. ReportedOnce' /\ OvertakingBounded'
  BY <1>1, SMTT(30) DEF IInv, ReportedOnce, OvertakingBounded
<1>6. HighestReported'
  BY <1>1, <1>2 DEF IInv, Won, HighestReported
<1> QED
  BY <1>3, <1>4, <1>5, <1>6

-----------------------------------------------------------------------------
(* The theorems.                                                            *)

\* Every step preserves the invariant.
LEMMA NextBook == IInv /\ [Next]_vars => IInv'
<1> SUFFICES ASSUME IInv, [Next]_vars PROVE IInv'
  OBVIOUS
<1> DEFINE Kept == Won' /\ WonLater' /\ ReportedOnce' /\ OvertakingBounded' /\ HighestReported'
<1>0. TypeOK'
  BY NextType DEF IInv
<1> SUFFICES Kept
  BY <1>0 DEF IInv
<1>1. ASSUME NEW s \in Server, Subscribe(s) \/ Connected(s) PROVE Kept
  <2>1. UNCHANGED <<highest_slot, pending, sent, receiver>>
    BY <1>1 DEF Subscribe, Connected
  <2>2. \A r \in Server : thread'[r] = "send" <=> thread[r] = "send"
    BY <1>1 DEF Subscribe, Connected, IInv, TypeOK
  <2> QED
    BY <2>1, <2>2, QuietStep
<1>2. ASSUME NEW s \in Server, NEW slot \in Slot, RecvSlot(s, slot) PROVE Kept
  BY <1>2, RecvBook
<1>3. ASSUME NEW s \in Server, SendSlot(s) PROVE Kept
  BY <1>3, SendBook
<1>4. ASSUME NEW s \in Server,
             SubscribeFails(s) \/ SendSlotFails(s) \/ ForceDisconnect(s) \/ Disconnected(s)
      PROVE  Kept
  BY <1>4, ResubscribeBook DEF SubscribeFails, SendSlotFails, ForceDisconnect, Disconnected
<1>5. ASSUME NEW s \in Server, Stall(s) PROVE Kept
  BY <1>5, QuietStep DEF Stall
<1>6. CASE TakeSlot \/ SignalExit \/ Tick
  BY <1>6, QuietStep DEF TakeSlot, SignalExit, Tick
<1>7. CASE ReceiverDropped
  BY <1>7, QuietStep DEF ReceiverDropped
<1>8. CASE UNCHANGED vars
  BY <1>8, QuietStep DEF vars
<1> QED
  BY <1>1, <1>2, <1>3, <1>4, <1>5, <1>6, <1>7, <1>8 DEF Next

\* The invariant holds in every reachable state.
THEOREM BookHolds == Spec => []IInv
  BY InitBook, NextBook, PTL DEF Spec

\* Every variable of the subscription threads keeps its type and the slot channel its
\* bound.
THEOREM TypeCorrect == Spec => []TypeOK
  BY BookHolds, PTL DEF IInv

\* fetch_max elects one reporter per slot, for any number of servers.
THEOREM NoSlotTwice == Spec => []ReportedOnce
  BY BookHolds, PTL DEF IInv

\* A slot sent late comes from another thread than the higher one before it, and each
\* thread has at most one such slot, for any number of servers.
THEOREM OvertakingIsBounded == Spec => []OvertakingBounded
  BY BookHolds, PTL DEF IInv

\* The highest slot announced has been sent or is about to be, for any number of
\* servers.
THEOREM HighestIsReported == Spec => []HighestReported
  BY BookHolds, PTL DEF IInv

-----------------------------------------------------------------------------
(* The board that the health manager is promised.                          *)

\* A thread holds a slot it has won only while it is about to send it.
LEMMA OwedAt ==
  ASSUME IInv, NEW s \in Server
  PROVE  /\ thread[s] = "send" => pending[s] \in Owed
         /\ thread[s] # "send" => pending[s] = 0
<1>1. pending[s] # 0 <=> thread[s] = "send"
  BY DEF IInv, Won
<1> QED
  BY <1>1, Zenon DEF Owed

\* A thread that has sent its slot, or gives it up, takes it off the board: nobody else
\* has won the same slot.
LEMMA OwedLess ==
  ASSUME IInv, NEW s \in Server, pending[s] # 0, pending' = [pending EXCEPT ![s] = 0]
  PROVE  Owed' = Owed \ {pending[s]}
<1>1. pending'[s] = 0 /\ \A r \in Server \ {s} : pending'[r] = pending[r]
  BY DEF IInv, TypeOK
<1>2. \A r \in Server : pending[r] = pending[s] => r = s
  BY DEF IInv, Won
<1> QED
  BY <1>1, <1>2, Zenon DEF Owed

\* RecvSlot: the slot that raises the maximum is owed.
LEMMA RecvAnnounces ==
  ASSUME IInv, NEW s \in Server, NEW slot \in Slot, RecvSlot(s, slot)
  PROVE  Board!BoardNext \/ UNCHANGED Board!boardVars
<1>1. UNCHANGED <<sent, receiver>>
  BY DEF RecvSlot
<1>2. Reported' = Reported
  BY <1>1, Zenon DEF Reported
<1>3. CASE Wins(slot)
  <2>1. /\ slot > highest_slot /\ highest_slot' = slot
        /\ pending' = [pending EXCEPT ![s] = slot]
    BY <1>3 DEF RecvSlot, Wins
  <2>2. pending[s] = 0
    BY OwedAt DEF RecvSlot
  <2>3. slot # 0
    BY LoadBalancerAssumption DEF Slot
  <2>4. pending'[s] = slot /\ \A r \in Server \ {s} : pending'[r] = pending[r]
    BY <2>1 DEF IInv, TypeOK
  <2>5. Owed' = Owed \cup {slot}
    BY <2>2, <2>3, <2>4, Zenon DEF Owed
  <2>6. Board!Announce(slot)
    BY <1>1, <1>2, <2>1, <2>5, Zenon DEF Board!Announce
  <2> QED
    BY <2>6, Zenon DEF Board!BoardNext
<1>4. CASE ~Wins(slot)
  <2>1. UNCHANGED <<highest_slot, pending>>
    BY <1>4 DEF RecvSlot
  <2>2. Owed' = Owed
    BY <2>1, Zenon DEF Owed
  <2> QED
    BY <1>1, <1>2, <2>1, <2>2, Zenon DEF Board!boardVars
<1> QED
  BY <1>3, <1>4

\* SendSlot: the slot that is sent is the next report.
LEMMA SendReports ==
  ASSUME IInv, NEW s \in Server, SendSlot(s)
  PROVE  Board!BoardNext
<1> DEFINE n == Len(sent)
           x == pending[s]
           e == [slot |-> x, by |-> s]
<1>1. /\ thread[s] = "send" /\ receiver
      /\ sent' = Append(sent, e)
      /\ pending' = [pending EXCEPT ![s] = 0]
      /\ UNCHANGED <<highest_slot, receiver>>
  BY DEF SendSlot
<1>2. x \in Owed /\ x # 0
  BY <1>1, OwedAt DEF IInv, Won
<1>3. Owed' = Owed \ {x}
  BY <1>1, <1>2, OwedLess, Zenon
<1>4. /\ n \in Nat /\ DOMAIN sent = 1 .. n /\ DOMAIN sent' = 1 .. n + 1
      /\ \A i \in 1 .. n : sent'[i] = sent[i]
      /\ sent'[n + 1] = e
  BY <1>1, SMTT(30) DEF IInv, TypeOK
<1>5. e.slot = x
  OBVIOUS
<1> HIDE DEF n, e
<1>6. Reported = [i \in 1 .. n |-> sent[i].slot] /\ Reported' = [i \in 1 .. n + 1 |-> sent'[i].slot]
  BY <1>4, Zenon DEF Reported
<1>7. Reported \in Seq(Nat) /\ Len(Reported) = n
  <2>1. \A i \in 1 .. n : sent[i].slot \in Nat
    BY <1>4, SentSlots DEF IInv
  <2> QED
    BY <1>4, <1>6, <2>1
<1>8. Append(Reported, x) = [i \in 1 .. n + 1 |-> IF i <= n THEN Reported[i] ELSE x]
  BY <1>4, <1>7
<1>9. \A i \in 1 .. n + 1 : sent'[i].slot = IF i <= n THEN Reported[i] ELSE x
  BY <1>4, <1>5, <1>6, SMTT(30)
<1>10. Reported' = Append(Reported, x)
  BY <1>6, <1>8, <1>9, Zenon
<1>11. Board!Report(x)
  BY <1>1, <1>3, <1>10, Zenon DEF Board!Report
<1> QED
  BY <1>2, <1>11, Zenon DEF Board!BoardNext

\* Every step of the threads is a step of the board or leaves it alone.
LEMMA NextBoard == IInv /\ [Next]_vars => [Board!BoardNext]_(Board!boardVars)
<1> SUFFICES ASSUME IInv, [Next]_vars PROVE [Board!BoardNext]_(Board!boardVars)
  OBVIOUS
<1>1. ASSUME UNCHANGED <<highest_slot, pending, sent, receiver>> PROVE UNCHANGED Board!boardVars
  <2>1. Owed' = Owed /\ Reported' = Reported
    BY <1>1, Zenon DEF Owed, Reported
  <2> QED
    BY <1>1, <2>1, Zenon DEF Board!boardVars
<1>2. ASSUME NEW s \in Server, NEW slot \in Slot, RecvSlot(s, slot)
      PROVE  [Board!BoardNext]_(Board!boardVars)
  BY <1>2, RecvAnnounces
<1>3. ASSUME NEW s \in Server, SendSlot(s) PROVE Board!BoardNext
  BY <1>3, SendReports
<1>4. ASSUME NEW s \in Server, SendSlotFails(s) PROVE Board!BoardNext
  <2>1. /\ thread[s] = "send" /\ ~receiver
        /\ pending' = [pending EXCEPT ![s] = 0]
        /\ UNCHANGED <<highest_slot, sent, receiver>>
    BY <1>4 DEF SendSlotFails, Resubscribe
  <2>2. pending[s] \in Owed /\ pending[s] # 0
    BY <2>1, OwedAt DEF IInv, Won
  <2>3. Owed' = Owed \ {pending[s]} /\ Reported' = Reported
    BY <2>1, <2>2, OwedLess, Zenon DEF Reported
  <2>4. Board!Forget(pending[s])
    BY <2>1, <2>3, Zenon DEF Board!Forget
  <2> QED
    BY <2>2, <2>4, Zenon DEF Board!BoardNext
<1>5. ASSUME NEW s \in Server, SubscribeFails(s) \/ ForceDisconnect(s) \/ Disconnected(s)
      PROVE  UNCHANGED Board!boardVars
  <2>1. /\ thread[s] \in {"connecting", "recv"} /\ pending' = [pending EXCEPT ![s] = 0]
        /\ UNCHANGED <<highest_slot, sent, receiver>>
    BY <1>5 DEF SubscribeFails, ForceDisconnect, Disconnected, Resubscribe
  <2>2. pending[s] = 0
    BY <2>1, OwedAt
  <2>3. pending' = pending
    BY <2>1, <2>2 DEF IInv, TypeOK
  <2> QED
    BY <1>1, <2>1, <2>3
<1>6. ASSUME NEW s \in Server, Subscribe(s) \/ Connected(s) \/ Stall(s)
      PROVE  UNCHANGED Board!boardVars
  BY <1>1, <1>6 DEF Subscribe, Connected, Stall
<1>7. CASE TakeSlot \/ SignalExit \/ Tick \/ UNCHANGED vars
  BY <1>1, <1>7, Zenon DEF TakeSlot, SignalExit, Tick, vars
<1>8. CASE ReceiverDropped
  <2>1. receiver /\ receiver' = FALSE /\ UNCHANGED <<highest_slot, pending, sent>>
    BY <1>8 DEF ReceiverDropped
  <2>2. Owed' = Owed /\ Reported' = Reported
    BY <2>1, Zenon DEF Owed, Reported
  <2> QED
    BY <2>1, <2>2, Zenon DEF Board!BoardNext, Board!Leave
<1> QED
  BY <1>2, <1>3, <1>4, <1>5, <1>6, <1>7, <1>8, Zenon DEF Next

\* ImplementsBoard: the racing threads, their reconnections and the bounded channel report
\* each new highest slot once and drop none before shutdown, for any number of servers.
THEOREM ThreadsImplementBoard == Spec => ImplementsBoard
<1>1. Init => Board!BoardInit
  <2> SUFFICES ASSUME Init PROVE Board!BoardInit
    OBVIOUS
  <2>1. /\ highest_slot = 0 /\ receiver = TRUE /\ sent = <<>>
        /\ \A s \in Server : pending[s] = 0
    BY DEF Init
  <2>2. Owed = {}
    BY <2>1, Zenon DEF Owed
  <2>3. Reported = <<>>
    BY <2>1 DEF Reported
  <2> QED
    BY <2>1, <2>2, <2>3, Zenon DEF Board!BoardInit
<1> QED
  BY <1>1, NextBoard, BookHolds, PTL DEF Spec, ImplementsBoard, Board!BoardSpec
=============================================================================
