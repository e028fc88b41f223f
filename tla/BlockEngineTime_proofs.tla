----------------------- MODULE BlockEngineTime_proofs -----------------------
(***************************************************************************)
(* What the watchdog and the refresh of the tokens achieve in time, and    *)
(* which periods have to be longer than which for it.  The code has a      *)
(* heartbeat every 500 ms, metrics every second, a look at the tokens      *)
(* every minute, a send timeout of 3 s, a response timeout of 30 s and a   *)
(* margin of 5 minutes: it satisfies every condition below as long as a    *)
(* call takes less than 29 s.                                              *)
(***************************************************************************)
EXTENDS BlockEngine_proofs

InCall == pc \in {"reauth", "refresh"}
AuthPeriod == Period["auth"]
HeartbeatPeriod == Period["heartbeat"]

\* The time that a stalled engine has held up a send in this session, at most.
HeldUp == IF engine = "prompt" THEN 0
          ELSE IF engine = "resumed" THEN SendTimeout
          ELSE IF pc = "send" THEN waited ELSE 0

\* The time the last call for tokens has taken, at most.
CallTime == IF InCall THEN waited ELSE CallLag

\* A send waits only for a stalled engine and at most SendTimeout, a call at most CallLag.
AwaitsEnd ==
  /\ pc = "send" => /\ waited <= SendTimeout
                    /\ waited > 0 => engine # "prompt" /\ (engine = "stalled" => ~Room)
  /\ Calling => waited <= CallLag

\* An interval is late by what holds up a send and by one call: after a call the next
\* is a whole period away.
AfterCall(late) ==
  late <= HeldUp + CallTime /\ timer["auth"] >= AuthPeriod - HeldUp - CallTime
IntervalsKept ==
  Streaming =>
    /\ ~InCall => timer["auth"] >= -HeldUp
    /\ (~InCall /\ timer["metrics"] >= -HeldUp) \/ AfterCall(-timer["metrics"])
    /\ (~InCall /\ timer["heartbeat"] >= -HeldUp) \/ AfterCall(-timer["heartbeat"])

\* The watchdog looks at the silence once in every metrics period.
SilenceWatched ==
  Streaming => silence + timer["metrics"] <= ResponseTimeout + Period["metrics"]

TimeInv == AwaitsEnd /\ IntervalsKept /\ SilenceWatched

\* auth_refresh_interval is longer than a send and a call together.
CallsApart == AuthPeriod > SendTimeout + CallLag

\* The clocks one by one.
ClockFacts ==
  /\ waited \in Nat /\ silence \in Nat
  /\ timer["auth"] \in Int /\ timer["metrics"] \in Int /\ timer["heartbeat"] \in Int
  /\ timer["auth"] <= AuthPeriod /\ timer["metrics"] <= Period["metrics"]
  /\ timer["heartbeat"] <= HeartbeatPeriod
  /\ engine \in {"prompt", "stalled", "resumed"}
  /\ HeldUp \in Nat /\ CallTime \in Nat

\* The clocks have their types.
LEMMA ClocksTyped == TypeOK => ClockFacts
<1> SUFFICES ASSUME TypeOK PROVE ClockFacts
  OBVIOUS
<1>1. ControlOK /\ FlagsOK /\ ClocksOK
  BY TypeParts
<1>2. waited \in Nat /\ silence \in Nat
  BY <1>1, Numbers, SMTT(30) DEF ControlOK, ClocksOK
<1>3. \A k \in Timer : timer[k] \in Int /\ timer[k] <= Period[k]
  BY <1>1, Numbers, SMTT(30) DEF ClocksOK
<1>4. {"auth", "metrics", "heartbeat"} = Timer
  BY DEF Timer
<1>5. engine \in {"prompt", "stalled", "resumed"}
  BY <1>1 DEF FlagsOK
<1>6. HeldUp \in Nat /\ CallTime \in Nat
  BY <1>2, Numbers DEF HeldUp, CallTime
<1> QED
  BY <1>2, <1>3, <1>4, <1>5, <1>6 DEF ClockFacts, AuthPeriod, HeartbeatPeriod

\* The same facts, to cite in a step.
LEMMA Clocks ==
  ASSUME TypeOK
  PROVE  /\ waited \in Nat /\ silence \in Nat
         /\ timer["auth"] \in Int /\ timer["metrics"] \in Int /\ timer["heartbeat"] \in Int
         /\ timer["auth"] <= AuthPeriod /\ timer["metrics"] <= Period["metrics"]
         /\ timer["heartbeat"] <= HeartbeatPeriod
         /\ engine \in {"prompt", "stalled", "resumed"}
         /\ HeldUp \in Nat /\ CallTime \in Nat
BY ClocksTyped DEF ClockFacts

\* The numbers among the constants.
LEMMA Spans ==
  /\ AuthPeriod \in Nat \ {0} /\ HeartbeatPeriod \in Nat \ {0} /\ Period["metrics"] \in Nat \ {0}
  /\ SendTimeout \in Nat \ {0} /\ CallLag \in Nat \ {0} /\ RetryDelay \in Nat \ {0}
  /\ ResponseTimeout \in Nat \ {0} /\ Margin \in Nat \ {0}
  /\ LongestWait = SendTimeout + RetryDelay + CallLag
  /\ LongestSilence = ResponseTimeout + Period["metrics"] + SendTimeout + CallLag + 1
<1>1. "auth" \in Timer /\ "heartbeat" \in Timer /\ "metrics" \in Timer
  BY DEF Timer
<1> QED
  BY <1>1, Numbers DEF AuthPeriod, HeartbeatPeriod, LongestWait, LongestSilence

\* The steps of a session.  Some move the thread, some an interval.
Moved(from, to) == pc \in from /\ pc' \in to /\ waited' = 0 /\ UNCHANGED <<engine, stream>>
Quiet == UNCHANGED <<pc, waited, timer, silence, engine, tokens>> /\ (engine = "stalled" => UNCHANGED stream)
Still == UNCHANGED <<silence, tokens>>
NewTokens ==
  access' \in Lifetime /\ (refresh' \in Lifetime \/ (pc = "refresh" /\ refresh' = refresh))

\* Every step within a session, by what it does to the clocks.
LEMMA SessionSteps ==
  ASSUME [Next]_vars, Streaming'
  PROVE  \/ StartStreaming
         \/ Tick
         \/ AuthTick /\ Moved({"select"}, {"select", "reauth", "refresh"}) /\ Still
         \/ Ticks("metrics") /\ ~Overdue /\ Moved({"select"}, {"select"}) /\ Still
         \/ SendHeartbeat /\ Moved({"select"}, {"send"}) /\ Still
         \/ RecvReply /\ Moved({"select"}, {"select"}) /\ UNCHANGED <<timer, tokens>> /\ silence' = 0
         \/ Moved({"select"}, {"select", "send"}) /\ Still /\ UNCHANGED timer
         \/ SendDone /\ pc' = "select" /\ waited' = 0 /\ Still /\ UNCHANGED <<timer, engine>>
         \/ Moved({"reauth", "refresh"}, {"select"}) /\ UNCHANGED <<timer, silence>> /\ NewTokens
         \/ EngineStalls
         \/ Quiet
<1> USE DEF Await, Streaming, Still, tokens, link
<1>1. CASE SetupFails \/ LoopTop \/ Wake \/ SessionOver
  BY <1>1 DEF SetupFails, LoopTop, Wake, SessionOver, Return
<1>2. CASE StreamEnds \/ RecvDisconnected \/ SendTimesOut \/ SendClosed \/ RefreshFails
  BY <1>2, Zenon DEF StreamEnds, RecvDisconnected, SendTimesOut, SendClosed, RefreshFails, Return
<1>3. CASE RecvReply
  BY <1>3, Zenon DEF RecvReply, Continue, Moved
<1>4. CASE SendHeartbeat
  BY <1>4, Zenon DEF SendHeartbeat, Moved, Ticks
<1>5. CASE Interest \/ RecvBatch
  BY <1>5, Zenon DEF Interest, handle_aoi, handle_poi, HandleUpdate, Continue, RecvBatch, Moved
<1>6. CASE SendDone
  BY <1>6, Zenon DEF SendDone, Continue
<1>7. CASE AuthTick
  BY <1>7, Zenon DEF AuthTick, Continue, Ticks, Moved
<1>8. CASE MetricsTick
  BY <1>8, Zenon DEF MetricsTick, Continue, Ticks, Return, Moved
<1>9. CASE Reply
  <2>1. CASE ConnectReply
    BY <2>1 DEF ConnectReply
  <2>2. ASSUME NEW a \in Lifetime, RefreshReply(a)
        PROVE  Moved({"reauth", "refresh"}, {"select"}) /\ UNCHANGED <<timer, silence>> /\ NewTokens
    BY <2>2, Zenon DEF RefreshReply, Continue, Moved, NewTokens
  <2>3. ASSUME NEW a \in Lifetime, NEW r \in Lifetime, ReauthReply(a, r)
        PROVE  Moved({"reauth", "refresh"}, {"select"}) /\ UNCHANGED <<timer, silence>> /\ NewTokens
    BY <2>3, Zenon DEF ReauthReply, Continue, Return, Moved, NewTokens
  <2>4. ASSUME NEW a \in Lifetime, NEW r \in Lifetime, AuthReply(a, r)
        PROVE  FALSE
    BY <2>4 DEF AuthReply, Return, Panic
  <2> QED
    BY <1>9, <2>1, <2>2, <2>3, <2>4, Zenon DEF Reply
<1>10. CASE Offer \/ EngineReads \/ SignalExit \/ DrainBatch
  BY <1>10, Zenon DEF Offer, EngineReads, SignalExit, DrainBatch, Quiet
<1>11. CASE UNCHANGED vars
  BY <1>11 DEF vars, Quiet
<1> QED
  BY <1>1, <1>2, <1>3, <1>4, <1>5, <1>6, <1>7, <1>8, <1>9, <1>10, <1>11, Zenon DEF Next

\* How late the intervals can be.
LEMMA Lateness ==
  ASSUME TypeOK, Streaming, AwaitsEnd, IntervalsKept, CallsApart
  PROVE  /\ HeldUp <= SendTimeout /\ CallTime <= CallLag
         /\ timer["metrics"] >= -SendTimeout - CallLag
         /\ timer["heartbeat"] >= -SendTimeout - CallLag
         /\ timer["auth"] >= -SendTimeout
<1>1. HeldUp <= SendTimeout
  BY Clocks, Spans, SMTT(30) DEF HeldUp, AwaitsEnd
<1>2. CallTime <= CallLag
  BY Clocks, Spans, SMTT(30) DEF CallTime, AwaitsEnd, Calling, InCall
<1>3. /\ timer["metrics"] >= -SendTimeout - CallLag
      /\ timer["heartbeat"] >= -SendTimeout - CallLag
  BY <1>1, <1>2, Clocks, Spans, SMTT(30) DEF IntervalsKept, AfterCall
<1>4. timer["auth"] >= -SendTimeout
  BY <1>1, <1>2, Clocks, Spans, SMTT(30) DEF IntervalsKept, AfterCall, CallsApart
<1> QED
  BY <1>1, <1>2, <1>3, <1>4

\* Time passes in a session: for all clocks alike, and only where it is waited for.
LEMMA TickSteps ==
  ASSUME TypeOK, Streaming, AwaitsEnd, IntervalsKept, CallsApart, AuthAnswers, Tick
  PROVE  /\ pc' = pc /\ engine' = engine /\ UNCHANGED <<stream, replies, sending>>
         /\ timer'["auth"] = timer["auth"] - 1
         /\ timer'["metrics"] = timer["metrics"] - 1
         /\ timer'["heartbeat"] = timer["heartbeat"] - 1
         /\ silence' <= silence + 1
         /\ access' = Down(access) /\ refresh' = Down(refresh)
         /\ \/ /\ pc = "select" /\ waited' = waited /\ HeldUp' = HeldUp
               /\ timer["auth"] > 0 /\ timer["metrics"] > 0 /\ timer["heartbeat"] > 0
               /\ ~replies /\ (engine = "prompt" => stream = <<>>)
            \/ /\ pc = "send" /\ engine = "stalled" /\ ~Room /\ waited < SendTimeout
               /\ waited' = waited + 1 /\ HeldUp' = HeldUp + 1
            \/ /\ InCall /\ waited < CallLag /\ waited' = waited + 1 /\ HeldUp' = HeldUp
<1>1. pc' = pc /\ engine' = engine /\ UNCHANGED <<stream, replies, sending>>
  BY DEF Tick, link
<1>2. /\ timer' = [k \in Timer |-> IF timer[k] > -LongestWait THEN timer[k] - 1 ELSE timer[k]]
      /\ silence' = IF silence < LongestSilence THEN silence + 1 ELSE silence
      /\ access' = Down(access) /\ refresh' = Down(refresh)
      /\ engine = "stalled" \/ stream = <<>>
      /\ waited' = IF pc # "select" /\ waited < LongestWait THEN waited + 1 ELSE waited
  BY Zenon DEF Tick
<1>3. /\ timer["metrics"] > -LongestWait /\ timer["heartbeat"] > -LongestWait
      /\ timer["auth"] > -LongestWait
  BY Lateness, Clocks, Spans, SMTT(30)
<1>4. /\ timer'["auth"] = timer["auth"] - 1
      /\ timer'["metrics"] = timer["metrics"] - 1
      /\ timer'["heartbeat"] = timer["heartbeat"] - 1
  BY <1>2, <1>3 DEF Timer
<1>5. silence' <= silence + 1
  BY <1>2, Clocks, SMTT(30)
<1>6. \/ /\ pc = "select" /\ ~replies
         /\ timer["auth"] > 0 /\ timer["metrics"] > 0 /\ timer["heartbeat"] > 0
      \/ pc = "send" /\ ~Room /\ waited < SendTimeout
      \/ InCall /\ waited < CallLag
  BY DEF Tick, Timer, Streaming, Calling, InCall
<1>7. CASE pc = "select"
  <2>1. waited' = waited /\ HeldUp' = HeldUp
    BY <1>1, <1>2, <1>7 DEF HeldUp
  <2> QED
    BY <1>1, <1>2, <1>4, <1>5, <1>6, <1>7, <2>1 DEF InCall
<1>8. CASE pc = "send"
  <2>1. ~Room /\ waited < SendTimeout
    BY <1>6, <1>8 DEF InCall
  <2>2. stream # <<>>
    BY <2>1, Numbers DEF Room
  <2>3. engine = "stalled"
    BY <1>2, <2>2
  <2>4. waited' = waited + 1
    BY <1>2, <1>8, <2>1, Clocks, Spans, SMTT(30)
  <2>5. HeldUp' = HeldUp + 1
    BY <1>1, <1>8, <2>3, <2>4 DEF HeldUp
  <2> QED
    BY <1>1, <1>2, <1>4, <1>5, <1>8, <2>1, <2>3, <2>4, <2>5
<1>9. CASE InCall
  <2>1. waited < CallLag
    BY <1>6, <1>9 DEF InCall
  <2>2. waited' = waited + 1
    <3>1. pc # "select"
      BY <1>9 DEF InCall
    <3>2. waited < LongestWait
      BY <2>1, Clocks, Spans, SMTT(30)
    <3> QED
      BY <1>2, <3>1, <3>2
  <2>3. HeldUp' = HeldUp
    BY <1>1, <1>9 DEF HeldUp, InCall
  <2> QED
    BY <1>1, <1>2, <1>4, <1>5, <1>9, <2>1, <2>2, <2>3
<1> QED
  BY <1>6, <1>7, <1>8, <1>9

\* What a stall has cost a session changes with Tick and with the engine only.
LEMMA HeldUpSteps ==
  ASSUME TypeOK, AwaitsEnd
  PROVE  /\ \A to \in SUBSET {"select", "send", "reauth", "refresh"} :
              Moved({"select"}, to) => HeldUp' = HeldUp
         /\ Moved({"reauth", "refresh"}, {"select"}) => HeldUp' = HeldUp
         /\ SendDone /\ pc' = "select" /\ waited' = 0 /\ engine' = engine => HeldUp' = HeldUp
         /\ Quiet => HeldUp' = HeldUp
         /\ EngineStalls => HeldUp <= HeldUp' /\ pc' = pc /\ UNCHANGED <<waited, stream, timer, silence>>
<1>1. ASSUME NEW to \in SUBSET {"select", "send", "reauth", "refresh"}, Moved({"select"}, to)
      PROVE  HeldUp' = HeldUp
  BY <1>1 DEF Moved, HeldUp
<1>2. Moved({"reauth", "refresh"}, {"select"}) => HeldUp' = HeldUp
  BY DEF Moved, HeldUp
<1>3. ASSUME SendDone, pc' = "select", waited' = 0, engine' = engine PROVE HeldUp' = HeldUp
  <2>1. pc = "send" /\ Room
    BY <1>3 DEF SendDone
  <2>2. engine = "stalled" => waited = 0
    BY <2>1, Clocks DEF AwaitsEnd
  <2>3. CASE engine = "stalled"
    BY <1>3, <2>1, <2>2, <2>3 DEF HeldUp
  <2>4. CASE engine # "stalled"
    BY <1>3, <2>4, Clocks DEF HeldUp
  <2> QED
    BY <2>3, <2>4
<1>4. Quiet => HeldUp' = HeldUp
  BY DEF Quiet, HeldUp
<1>5. ASSUME EngineStalls
      PROVE  HeldUp <= HeldUp' /\ pc' = pc /\ UNCHANGED <<waited, stream, timer, silence>>
  <2>1. /\ pc' = pc /\ waited' = waited /\ UNCHANGED <<waited, stream, timer, silence>>
        /\ engine' = IF engine = "stalled" THEN "resumed" ELSE "stalled"
        /\ engine \in {"prompt", "stalled"}
    BY <1>5, Clocks DEF EngineStalls
  <2>2. CASE engine = "prompt"
    BY <2>1, <2>2, Clocks, SMTT(30) DEF HeldUp, AwaitsEnd
  <2>3. CASE engine = "stalled"
    BY <2>1, <2>3, Clocks, Spans, SMTT(30) DEF HeldUp, AwaitsEnd
  <2> QED
    BY <2>1, <2>2, <2>3
<1> QED
  BY <1>1, <1>2, <1>3, <1>4, <1>5

\* The time in an await starts at 0 and only Tick adds to it.
LEMMA Waits ==
  ASSUME [Next]_vars
  PROVE  waited' = 0 \/ UNCHANGED <<pc, waited>> \/ Tick
<1> USE DEF Await
<1>1. CASE SetupFails \/ LoopTop \/ Wake \/ SessionOver \/ DrainBatch \/ StartStreaming
  BY <1>1 DEF SetupFails, LoopTop, Wake, SessionOver, DrainBatch, StartStreaming, Return, Continue
<1>2. CASE StreamEnds \/ RecvDisconnected \/ SendTimesOut \/ SendClosed \/ RefreshFails
  BY <1>2, Zenon DEF StreamEnds, RecvDisconnected, SendTimesOut, SendClosed, RefreshFails, Return
<1>3. CASE RecvReply \/ SendHeartbeat \/ SendDone \/ AuthTick \/ MetricsTick
  BY <1>3, Zenon DEF RecvReply, SendHeartbeat, SendDone, AuthTick, MetricsTick, Continue, Return
<1>4. CASE Interest \/ RecvBatch
  BY <1>4, Zenon DEF Interest, handle_aoi, handle_poi, HandleUpdate, Continue, RecvBatch
<1>5. CASE Reply
  BY <1>5, Zenon DEF Reply, ConnectReply, RefreshReply, AuthReply, ReauthReply, Continue, Return, Panic
<1>6. CASE Offer \/ EngineReads \/ EngineStalls \/ SignalExit
  BY <1>6 DEF Offer, EngineReads, EngineStalls, SignalExit
<1>7. CASE UNCHANGED vars
  BY <1>7 DEF vars
<1> QED
  BY <1>1, <1>2, <1>3, <1>4, <1>5, <1>6, <1>7 DEF Next

\* Every step keeps AwaitsEnd: a call that is answered ends within CallLag, and a send that
\* waits ends with send_timeout.
LEMMA NextAwaits ==
  ASSUME TypeOK, AwaitsEnd, IntervalsKept, CallsApart, AuthAnswers, [Next]_vars
  PROVE  AwaitsEnd'
<1>1. CASE waited' = 0
  BY <1>1, Spans, SMTT(30) DEF AwaitsEnd
<1>2. CASE Tick
  <2>1. ASSUME pc' = "send"
        PROVE  waited' <= SendTimeout /\ engine' = "stalled" /\ ~Room'
    <3>1. Streaming /\ pc = "send"
      BY <1>2, <2>1 DEF Tick, Streaming
    <3> QED
      BY <1>2, <3>1, TickSteps, Clocks, Spans, SMTT(30) DEF Room, InCall
  <2>2. ASSUME Calling' PROVE waited' <= CallLag
    <3>1. pc' = pc /\ Calling
      BY <1>2, <2>2 DEF Tick, Calling
    <3>2. waited < CallLag /\ waited' \in {waited, waited + 1}
      BY <1>2, <3>1 DEF Tick, Calling
    <3> QED
      BY <3>2, Clocks, Spans, SMTT(30)
  <2> QED
    BY <2>1, <2>2 DEF AwaitsEnd
<1>3. CASE UNCHANGED <<pc, waited>> /\ ~Tick /\ waited' # 0
  <2>1. ASSUME pc' = "send" PROVE Quiet \/ EngineStalls
    BY <1>3, <2>1, SessionSteps DEF Moved, Streaming, StartStreaming
  <2>2. CASE pc' = "send"
    BY <1>3, <2>1, <2>2, Clocks DEF AwaitsEnd, Quiet, EngineStalls, Room, Calling
  <2> QED
    BY <1>3, <2>2 DEF AwaitsEnd, Calling
<1> QED
  BY <1>1, <1>2, <1>3, Waits

\* A tick moves its own interval by a whole period.
LEMMA TickMoves ==
  ASSUME TypeOK, NEW k \in Timer, Ticks(k)
  PROVE  /\ pc = "select" /\ timer[k] <= 0 /\ timer'[k] = timer[k] + Period[k]
         /\ \A j \in Timer \ {k} : timer'[j] = timer[j]
<1>1. timer \in [Timer -> Int]
  BY DEF TypeOK
<1> QED
  BY <1>1 DEF Ticks

\* Every step keeps IntervalsKept: maybe_refresh_auth calls only on its own tick, so that a
\* second call cannot delay an interval that the first has delayed.
LEMMA NextIntervals ==
  ASSUME TypeOK, TypeOK', AwaitsEnd, IntervalsKept, CallsApart, AuthAnswers, [Next]_vars
  PROVE  IntervalsKept'
<1> SUFFICES ASSUME Streaming' PROVE IntervalsKept'
  BY DEF IntervalsKept
<1>c. /\ waited' \in Nat /\ HeldUp' \in Nat /\ CallTime' \in Nat
      /\ timer'["auth"] \in Int /\ timer'["metrics"] \in Int /\ timer'["heartbeat"] \in Int
  <2>1. ClockFacts'
    BY ClocksTyped, PTL
  <2> QED
    BY <2>1 DEF ClockFacts
<1>1. CASE StartStreaming
  <2>1. timer'["auth"] = 0 /\ timer'["metrics"] = 0 /\ timer'["heartbeat"] = 0 /\ ~InCall'
    BY <1>1 DEF StartStreaming, Timer, Continue, Await, InCall
  <2>2. 0 >= -HeldUp'
    <3>1. ASSUME NEW n \in Nat PROVE 0 >= -n
      OBVIOUS
    <3> QED
      BY <1>c, <3>1, Zenon
  <2> QED
    BY <2>1, <2>2 DEF IntervalsKept
<1>2. CASE Streaming /\ Tick
  <2>1. /\ timer'["auth"] = timer["auth"] - 1
        /\ timer'["metrics"] = timer["metrics"] - 1
        /\ timer'["heartbeat"] = timer["heartbeat"] - 1
        /\ InCall' = InCall
    BY <1>2, TickSteps DEF InCall
  <2>2. CASE pc = "select"
    <3>1. timer["auth"] > 0 /\ timer["metrics"] > 0 /\ timer["heartbeat"] > 0 /\ ~InCall
      BY <1>2, <2>2, TickSteps DEF InCall
    <3> QED
      BY <2>1, <3>1, <1>c, Clocks, SMTT(30) DEF IntervalsKept
  <2>3. CASE pc = "send"
    <3>1. HeldUp' = HeldUp + 1 /\ ~InCall /\ CallTime' = CallTime
      BY <1>2, <2>1, <2>3, TickSteps DEF InCall, CallTime
    <3> QED
      BY <1>2, <2>1, <3>1, <1>c, Clocks, Spans, SMTT(30) DEF IntervalsKept, AfterCall
  <2>4. CASE InCall
    <3>1. HeldUp' = HeldUp /\ CallTime' = CallTime + 1
      BY <1>2, <2>1, <2>4, TickSteps DEF InCall, CallTime
    <3> QED
      BY <1>2, <2>1, <2>4, <3>1, <1>c, Clocks, Spans, SMTT(30) DEF IntervalsKept, AfterCall
  <2> QED
    BY <1>2, <2>2, <2>3, <2>4 DEF InCall, Streaming
<1>3. CASE AuthTick /\ Moved({"select"}, {"select", "reauth", "refresh"})
  <2>1. HeldUp' = HeldUp
    BY <1>3, HeldUpSteps
  <2>2. /\ pc = "select" /\ timer["auth"] <= 0 /\ timer'["auth"] = timer["auth"] + AuthPeriod
        /\ timer'["metrics"] = timer["metrics"] /\ timer'["heartbeat"] = timer["heartbeat"]
    BY <1>3, TickMoves DEF AuthTick, AuthPeriod, Timer
  <2>3. /\ timer["auth"] >= -HeldUp /\ timer["metrics"] >= -HeldUp
        /\ timer["heartbeat"] >= -HeldUp
    BY <2>2, Lateness, Clocks, Spans, SMTT(30)
       DEF IntervalsKept, AfterCall, InCall, Streaming, CallsApart
  <2> QED
    BY <2>1, <2>2, <2>3, <1>c, Clocks, Spans, SMTT(30) DEF IntervalsKept, AfterCall
<1>4. ASSUME Streaming, ~InCall, ~InCall', HeldUp' = HeldUp, timer'["auth"] = timer["auth"],
             timer'["metrics"] >= timer["metrics"], timer'["heartbeat"] >= timer["heartbeat"]
      PROVE  IntervalsKept'
  BY <1>4, <1>c, Clocks, Spans, SMTT(30) DEF IntervalsKept, AfterCall, CallTime
<1>5. CASE (Ticks("metrics") \/ Ticks("heartbeat")) /\ Moved({"select"}, {"select", "send"})
  <2>1. HeldUp' = HeldUp
    BY <1>5, HeldUpSteps
  <2>2. Streaming /\ ~InCall /\ ~InCall'
    BY <1>5 DEF Moved, InCall, Streaming
  <2>3. /\ timer'["auth"] = timer["auth"]
        /\ timer'["metrics"] >= timer["metrics"] /\ timer'["heartbeat"] >= timer["heartbeat"]
    BY <1>5, TickMoves, Clocks, Spans, SMTT(30) DEF Timer, HeartbeatPeriod
  <2> QED
    BY <1>4, <2>1, <2>2, <2>3
<1>6. CASE Moved({"select"}, {"select", "send"}) /\ UNCHANGED timer
  <2>1. HeldUp' = HeldUp
    BY <1>6, HeldUpSteps
  <2>2. Streaming /\ ~InCall /\ ~InCall'
    BY <1>6 DEF Moved, InCall, Streaming
  <2> QED
    BY <1>4, <1>6, <2>1, <2>2, Clocks, SMTT(30)
<1>7. CASE SendDone /\ pc' = "select" /\ waited' = 0 /\ UNCHANGED <<timer, engine>>
  <2>1. HeldUp' = HeldUp
    BY <1>7, HeldUpSteps
  <2>2. Streaming /\ ~InCall /\ ~InCall'
    BY <1>7 DEF SendDone, InCall, Streaming
  <2> QED
    BY <1>4, <1>7, <2>1, <2>2, Clocks, SMTT(30)
<1>8. CASE Moved({"reauth", "refresh"}, {"select"}) /\ UNCHANGED timer
  <2>1. HeldUp' = HeldUp
    BY <1>8, HeldUpSteps
  <2>2. Streaming /\ InCall /\ ~InCall'
    BY <1>8 DEF Moved, InCall, Streaming
  <2>3. CallTime' = CallLag /\ CallTime <= CallLag /\ HeldUp <= SendTimeout
    BY <2>2, Lateness DEF CallTime
  <2> QED
    BY <1>8, <2>1, <2>2, <2>3, <1>c, Clocks, Spans, SMTT(30) DEF IntervalsKept, AfterCall, CallsApart
<1>9. CASE (EngineStalls \/ Quiet)
  <2>1. /\ HeldUp <= HeldUp' /\ pc' = pc /\ UNCHANGED <<waited, timer>>
    BY <1>9, HeldUpSteps, Clocks, SMTT(30) DEF Quiet
  <2>2. Streaming /\ InCall' = InCall /\ CallTime' = CallTime
    BY <2>1 DEF Streaming, InCall, CallTime
  <2> QED
    BY <2>1, <2>2, <1>c, Clocks, Spans, SMTT(30) DEF IntervalsKept, AfterCall
<1> QED
  <2>1. Tick => Streaming
    BY DEF Tick, Streaming
  <2> QED
    BY <1>1, <1>2, <1>3, <1>5, <1>6, <1>7, <1>8, <1>9, <2>1, SessionSteps, Zenon
       DEF SendHeartbeat, Moved

\* Every step keeps SilenceWatched: the metrics tick goes on only if the last response is
\* recent.
LEMMA NextSilence ==
  ASSUME TypeOK, TypeOK', AwaitsEnd, IntervalsKept, SilenceWatched, CallsApart, AuthAnswers,
         [Next]_vars
  PROVE  SilenceWatched'
<1> SUFFICES ASSUME Streaming' PROVE SilenceWatched'
  BY DEF SilenceWatched
<1>c. silence' \in Nat /\ timer'["metrics"] \in Int /\ timer'["metrics"] <= Period["metrics"]
  <2>1. ClockFacts'
    BY ClocksTyped, PTL
  <2> QED
    BY <2>1 DEF ClockFacts
<1>1. CASE StartStreaming
  <2>1. timer'["metrics"] = 0 /\ silence' = 0
    BY <1>1 DEF StartStreaming, Timer
  <2> QED
    BY <2>1, Spans, SMTT(30) DEF SilenceWatched
<1>2. CASE Streaming /\ Tick
  <2>1. silence' <= silence + 1 /\ timer'["metrics"] = timer["metrics"] - 1
    BY <1>2, TickSteps
  <2> QED
    BY <1>2, <2>1, <1>c, Clocks, Spans, SMTT(30) DEF SilenceWatched
<1>3. CASE Ticks("metrics") /\ ~Overdue /\ Still
  <2>1. silence' = silence /\ silence <= ResponseTimeout
    BY <1>3, Clocks, Spans, SMTT(30) DEF Still, Overdue
  <2>2. timer["metrics"] <= 0 /\ timer'["metrics"] = timer["metrics"] + Period["metrics"]
    BY <1>3, TickMoves DEF Timer
  <2> QED
    BY <2>1, <2>2, <1>c, Clocks, Spans, SMTT(30) DEF SilenceWatched
<1>4. CASE silence' = 0
  BY <1>4, <1>c, Clocks, Spans, SMTT(30) DEF SilenceWatched
<1>5. CASE Streaming /\ silence' = silence /\ timer'["metrics"] = timer["metrics"]
  BY <1>5 DEF SilenceWatched
<1>6. ASSUME AuthTick \/ SendHeartbeat
      PROVE  Streaming /\ timer'["metrics"] = timer["metrics"]
  BY <1>6, TickMoves DEF AuthTick, SendHeartbeat, Streaming, Timer
<1>7. CASE EngineStalls \/ Quiet
  <2>1. pc' = pc /\ UNCHANGED <<silence, timer>>
    BY <1>7 DEF EngineStalls, Quiet
  <2> QED
    BY <1>5, <2>1 DEF Streaming
<1>8. Tick => Streaming
  BY DEF Tick, Streaming
<1>9. SendDone \/ Moved({"select"}, {"select", "send"}) \/ Moved({"reauth", "refresh"}, {"select"})
      => Streaming
  BY DEF SendDone, Moved, Streaming
<1> QED
  BY <1>1, <1>2, <1>3, <1>4, <1>5, <1>6, <1>7, <1>8, <1>9, SessionSteps, Zenon DEF Still

\* SilenceBounded: the watchdog of the metrics tick ends a session that hears nothing.
THEOREM SilenceIsBounded ==
  ASSUME CallsApart
  PROVE  Spec => []SilenceBounded
<1>1. CASE AuthAnswers
  <2>1. ASSUME Init PROVE TimeInv
    <3>1. pc = "top" /\ waited = 0
      BY <2>1 DEF Init
    <3> QED
      BY <3>1, Spans DEF TimeInv, AwaitsEnd, IntervalsKept, SilenceWatched, Streaming, Calling
  <2>2. TypeOK /\ TypeOK' /\ TimeInv /\ [Next]_vars => TimeInv'
    BY <1>1, NextAwaits, NextIntervals, NextSilence DEF TimeInv
  <2>3. TypeOK /\ TimeInv => SilenceBounded
    <3> SUFFICES ASSUME TypeOK, TimeInv, Streaming PROVE SilenceBounded
      BY DEF SilenceBounded
    <3>1. timer["metrics"] >= -SendTimeout - CallLag
      BY Lateness DEF TimeInv
    <3> QED
      BY <3>1, Clocks, Spans, SMTT(30) DEF TimeInv, SilenceWatched, SilenceBounded
  <2> QED
    BY <2>1, <2>2, <2>3, TypeCorrect, PTL DEF Spec
<1>2. CASE ~AuthAnswers
  <2>1. SilenceBounded
    BY <1>2 DEF SilenceBounded
  <2> QED
    BY <2>1, PTL
<1> QED
  BY <1>1, <1>2

-----------------------------------------------------------------------------
(* No false alarm.                                                          *)

\* A heartbeat or its reply is on its way.
Pending ==
  replies \/ (pc = "send" /\ sending = Heartbeat) \/ (\E i \in DOMAIN stream : stream[i] = 0)

\* A prompt engine replies within a heartbeat period, and within a call if there is one.
PromptReplies ==
  Streaming /\ engine = "prompt" =>
    /\ ~Pending => silence + timer["heartbeat"] <= HeartbeatPeriod
    /\ \/ ~InCall /\ silence <= HeartbeatPeriod
       \/ silence <= HeartbeatPeriod + CallTime /\ timer["auth"] >= AuthPeriod - CallTime

\* What is on its way stays until the thread receives the reply.
LEMMA PendingKept ==
  ASSUME TypeOK, [Next]_vars, Streaming', ~StartStreaming, ~RecvReply, Pending
  PROVE  Pending'
<1>t. stream \in Seq(Batch \cup {0})
  BY TypeParts DEF QueuesOK
<1>1. CASE UNCHANGED <<replies, stream>> /\ pc # "send"
  BY <1>1 DEF Pending
<1>2. CASE UNCHANGED <<replies, stream, pc, sending>>
  BY <1>2 DEF Pending
<1>3. CASE SendDone
  <2>1. stream' = Append(stream, sending.batch) /\ replies' = replies
    BY <1>3 DEF SendDone
  <2>2. CASE sending = Heartbeat
    <3>1. stream' = Append(stream, 0)
      BY <2>1, <2>2 DEF Heartbeat
    <3>2. Len(stream) + 1 \in DOMAIN stream' /\ stream'[Len(stream) + 1] = 0
      BY <1>t, <3>1
    <3> QED
      BY <3>2 DEF Pending
  <2>3. CASE replies
    BY <2>1, <2>3 DEF Pending
  <2>4. ASSUME NEW i \in DOMAIN stream, stream[i] = 0 PROVE Pending'
    <3>1. i \in DOMAIN stream' /\ stream'[i] = 0
      BY <1>t, <2>1, <2>4
    <3> QED
      BY <3>1 DEF Pending
  <2> QED
    BY <2>2, <2>3, <2>4 DEF Pending
<1>4. CASE EngineReads
  <2>1. /\ replies' = (replies \/ Head(stream) = 0) /\ stream' = Tail(stream) /\ stream # <<>>
        /\ pc' = pc /\ sending' = sending
    BY <1>4 DEF EngineReads
  <2>2. CASE replies \/ Head(stream) = 0 \/ (pc = "send" /\ sending = Heartbeat)
    BY <2>1, <2>2, Zenon DEF Pending
  <2>3. ASSUME NEW i \in DOMAIN stream, stream[i] = 0, Head(stream) # 0 PROVE Pending'
    <3>1. i - 1 \in DOMAIN stream' /\ stream'[i - 1] = 0
      BY <1>t, <2>1, <2>3
    <3> QED
      BY <3>1 DEF Pending
  <2> QED
    BY <2>2, <2>3 DEF Pending
<1> QED
  <2> USE DEF Await, Streaming
  <2>1. CASE SetupFails \/ LoopTop \/ Wake \/ SessionOver
    BY <2>1 DEF SetupFails, LoopTop, Wake, SessionOver, Return
  <2>2. CASE StreamEnds \/ RecvDisconnected \/ SendTimesOut \/ SendClosed \/ RefreshFails
    BY <2>2, Zenon DEF StreamEnds, RecvDisconnected, SendTimesOut, SendClosed, RefreshFails, Return
  <2>3. CASE SendHeartbeat \/ AuthTick
    BY <1>1, <2>3 DEF SendHeartbeat, AuthTick, Ticks, link
  <2>4. CASE Interest \/ RecvBatch
    BY <1>1, <2>4, Zenon DEF Interest, handle_aoi, handle_poi, HandleUpdate, RecvBatch, link
  <2>5. CASE MetricsTick
    BY <1>1, <2>5 DEF MetricsTick, Ticks, Return, link
  <2>6. CASE Reply
    <3>1. CASE ConnectReply
      BY <3>1 DEF ConnectReply
    <3>2. ASSUME NEW a \in Lifetime, RefreshReply(a) PROVE Pending'
      BY <1>1, <3>2 DEF RefreshReply, link
    <3>3. ASSUME NEW a \in Lifetime, NEW r \in Lifetime, AuthReply(a, r) \/ ReauthReply(a, r)
          PROVE  Pending'
      BY <1>1, <3>3 DEF AuthReply, ReauthReply, Return, Panic, link
    <3> QED
      BY <2>6, <3>1, <3>2, <3>3, Zenon DEF Reply
  <2>7. CASE Offer \/ EngineStalls \/ SignalExit \/ DrainBatch \/ Tick
    BY <1>2, <2>7 DEF Offer, EngineStalls, SignalExit, DrainBatch, Tick, link
  <2>8. CASE UNCHANGED vars
    BY <1>2, <2>8 DEF vars, link
  <2> QED
    BY <1>3, <1>4, <2>1, <2>2, <2>3, <2>4, <2>5, <2>6, <2>7, <2>8, Zenon DEF Next

\* Every step keeps PromptReplies.
LEMMA NextReplies ==
  ASSUME TypeOK, TypeOK', AwaitsEnd, IntervalsKept, PromptReplies, CallsApart, AuthAnswers,
         [Next]_vars
  PROVE  PromptReplies'
<1> SUFFICES ASSUME Streaming', engine' = "prompt" PROVE PromptReplies'
  BY DEF PromptReplies
<1>c. /\ silence' \in Nat /\ CallTime' \in Nat /\ timer'["auth"] \in Int
      /\ timer'["heartbeat"] \in Int /\ timer'["heartbeat"] <= HeartbeatPeriod
  <2>1. ClockFacts'
    BY ClocksTyped, PTL
  <2> QED
    BY <2>1 DEF ClockFacts
<1>1. CASE StartStreaming
  <2>1. timer'["heartbeat"] = 0 /\ silence' = 0 /\ ~InCall'
    BY <1>1 DEF StartStreaming, Timer, Continue, Await, InCall
  <2> QED
    BY <2>1, Spans, SMTT(30) DEF PromptReplies
<1>2. CASE Streaming /\ Tick
  <2>1. /\ timer'["auth"] = timer["auth"] - 1
        /\ timer'["heartbeat"] = timer["heartbeat"] - 1
        /\ silence' <= silence + 1
        /\ InCall' = InCall /\ engine = "prompt" /\ pc' = pc
    BY <1>2, TickSteps DEF InCall
  <2>2. ~Pending' => silence' + timer'["heartbeat"] <= HeartbeatPeriod
    <3>1. Pending => Pending'
      <4>1. ~RecvReply
        BY <1>2, TickSteps DEF RecvReply
      <4>2. ~StartStreaming
        BY <1>2 DEF StartStreaming, Streaming
      <4> QED
        BY <4>1, <4>2, PendingKept
    <3> QED
      BY <1>2, <2>1, <3>1, <1>c, Clocks, Spans, SMTT(30) DEF PromptReplies
  <2>3. CASE pc = "select"
    <3>1. /\ timer["heartbeat"] > 0 /\ ~replies /\ stream = <<>> /\ ~InCall
      BY <1>2, <2>1, <2>3, TickSteps DEF InCall
    <3>2. ~Pending
      BY <3>1, <2>3 DEF Pending
    <3>3. silence' <= HeartbeatPeriod
      <4>1. silence + timer["heartbeat"] <= HeartbeatPeriod
        BY <1>2, <2>1, <3>2 DEF PromptReplies
      <4>2. timer["heartbeat"] > 0 /\ silence' <= silence + 1
        BY <2>1, <3>1
      <4> QED
        BY <4>1, <4>2, <1>c, Clocks, Spans, SMTT(30)
    <3> QED
      BY <2>1, <2>2, <3>1, <3>3 DEF PromptReplies
  <2>4. CASE InCall
    <3>1. CallTime' = CallTime + 1
      BY <1>2, <2>1, <2>4, TickSteps DEF InCall, CallTime
    <3>2. silence' <= HeartbeatPeriod + CallTime' /\ timer'["auth"] >= AuthPeriod - CallTime'
      BY <1>2, <2>1, <2>4, <3>1, <1>c, Clocks, Spans, SMTT(30) DEF PromptReplies
    <3> QED
      BY <2>2, <3>2 DEF PromptReplies
  <2> QED
    BY <1>2, <2>1, <2>3, <2>4, TickSteps
<1>3. ASSUME Streaming, engine = "prompt", ~StartStreaming, ~RecvReply,
             silence' = silence, timer'["heartbeat"] = timer["heartbeat"]
      PROVE  ~Pending' => silence' + timer'["heartbeat"] <= HeartbeatPeriod
  BY <1>3, PendingKept DEF PromptReplies
<1>4. CASE AuthTick /\ Moved({"select"}, {"select", "reauth", "refresh"}) /\ Still /\ ~RecvReply
  <2>1. /\ pc = "select" /\ timer["auth"] <= 0 /\ timer'["auth"] = timer["auth"] + AuthPeriod
        /\ timer'["heartbeat"] = timer["heartbeat"] /\ silence' = silence
        /\ engine = "prompt" /\ waited' = 0
    BY <1>4, TickMoves DEF AuthTick, AuthPeriod, Timer, Still, Moved
  <2>2. Streaming /\ ~InCall /\ HeldUp = 0 /\ CallTime = CallLag
    BY <2>1 DEF Streaming, InCall, HeldUp, CallTime
  <2>3. timer["auth"] >= 0 /\ silence <= HeartbeatPeriod
    BY <2>1, <2>2, Clocks, Spans, SMTT(30) DEF IntervalsKept, PromptReplies, CallsApart
  <2>4. ~Pending' => silence' + timer'["heartbeat"] <= HeartbeatPeriod
    BY <1>3, <1>4, <2>1, <2>2 DEF StartStreaming
  <2>5. silence' <= HeartbeatPeriod + CallTime' /\ timer'["auth"] >= AuthPeriod - CallTime'
    <3>1. ASSUME NEW c \in Nat
          PROVE  silence' <= HeartbeatPeriod + c /\ timer'["auth"] >= AuthPeriod - c
      BY <2>1, <2>3, Clocks, Spans, SMTT(30)
    <3> QED
      BY <1>c, <3>1
  <2> QED
    BY <2>4, <2>5 DEF PromptReplies
<1>5. CASE RecvReply /\ Moved({"select"}, {"select"}) /\ silence' = 0
  <2>1. ~InCall'
    BY <1>5 DEF Moved, InCall
  <2>2. silence' <= HeartbeatPeriod /\ silence' + timer'["heartbeat"] <= HeartbeatPeriod
    BY <1>5, <1>c, Spans, SMTT(30)
  <2> QED
    BY <2>1, <2>2 DEF PromptReplies
<1>6. ASSUME Streaming, engine = "prompt", ~InCall, ~InCall', silence' = silence,
             timer'["auth"] = timer["auth"],
             ~Pending' => silence' + timer'["heartbeat"] <= HeartbeatPeriod
      PROVE  PromptReplies'
  BY <1>6 DEF PromptReplies, CallTime
<1>7. CASE SendHeartbeat /\ Moved({"select"}, {"send"}) /\ Still
  <2>1. Pending'
    BY <1>7 DEF SendHeartbeat, Pending, Await
  <2>2. timer'["auth"] = timer["auth"]
    BY <1>7, TickMoves DEF SendHeartbeat, Timer
  <2> QED
    BY <1>6, <1>7, <2>1, <2>2 DEF Moved, Still, Streaming, InCall
<1>8. CASE Ticks("metrics") /\ ~Overdue /\ Moved({"select"}, {"select"}) /\ Still /\ ~RecvReply
  <2>1. timer'["auth"] = timer["auth"] /\ timer'["heartbeat"] = timer["heartbeat"]
    BY <1>8, TickMoves DEF Timer
  <2>2. Streaming /\ ~InCall /\ ~InCall' /\ engine = "prompt" /\ silence' = silence /\ ~StartStreaming
    BY <1>8 DEF Moved, Still, Streaming, InCall, StartStreaming
  <2> QED
    BY <1>3, <1>6, <1>8, <2>1, <2>2
<1>9. CASE /\ Moved({"select"}, {"select", "send"}) \/ (SendDone /\ pc' = "select")
           /\ Still /\ UNCHANGED <<timer, engine>> /\ ~RecvReply
  <2>1. Streaming /\ ~InCall /\ ~InCall' /\ engine = "prompt" /\ silence' = silence /\ ~StartStreaming
    BY <1>9 DEF Moved, SendDone, Still, Streaming, InCall, StartStreaming
  <2> QED
    BY <1>3, <1>6, <1>9, <2>1
<1>10. CASE Moved({"reauth", "refresh"}, {"select"}) /\ UNCHANGED <<timer, silence>>
  <2>1. Streaming /\ InCall /\ ~InCall' /\ engine = "prompt" /\ ~StartStreaming /\ ~RecvReply
    BY <1>10 DEF Moved, Streaming, InCall, StartStreaming, RecvReply
  <2>2. CallTime' = CallLag /\ CallTime <= CallLag
    BY <2>1, Lateness DEF CallTime
  <2>3. ~Pending' => silence' + timer'["heartbeat"] <= HeartbeatPeriod
    BY <1>3, <1>10, <2>1
  <2>4. silence' <= HeartbeatPeriod + CallTime' /\ timer'["auth"] >= AuthPeriod - CallTime'
    BY <1>10, <2>1, <2>2, Clocks, Spans, SMTT(30) DEF PromptReplies
  <2> QED
    BY <2>3, <2>4 DEF PromptReplies
<1>11. CASE Quiet /\ ~RecvReply /\ ~StartStreaming
  <2>1. Streaming /\ engine = "prompt" /\ InCall' = InCall /\ CallTime' = CallTime
    BY <1>11 DEF Quiet, Streaming, InCall, CallTime
  <2>2. silence' = silence /\ timer' = timer
    BY <1>11 DEF Quiet
  <2>3. ~Pending' => silence' + timer'["heartbeat"] <= HeartbeatPeriod
    BY <1>3, <1>11, <2>1, <2>2
  <2> QED
    BY <2>1, <2>2, <2>3 DEF PromptReplies
<1>12. ~EngineStalls
  BY DEF EngineStalls
<1>13. RecvReply => Moved({"select"}, {"select"}) /\ silence' = 0
  BY Zenon DEF RecvReply, Continue, Await, Moved, Streaming
<1>14. Tick => Streaming
  BY DEF Tick, Streaming
<1> QED
  BY <1>1, <1>2, <1>4, <1>5, <1>7, <1>8, <1>9, <1>10, <1>11, <1>12, <1>13, <1>14, SessionSteps,
     Zenon DEF Moved

\* A timeout is one of a send or of the watchdog.
LEMMA TimeoutSteps ==
  ASSUME Next, Streaming, pc' = "failed", cause' = "timeout"
  PROVE  SendTimesOut \/ (MetricsTick /\ Overdue)
<1> USE DEF Await, Streaming
<1>1. CASE SetupFails \/ LoopTop \/ Wake \/ SessionOver \/ DrainBatch \/ StartStreaming
  BY <1>1 DEF SetupFails, LoopTop, Wake, SessionOver, DrainBatch, StartStreaming
<1>2. CASE StreamEnds \/ RecvDisconnected \/ SendClosed \/ RefreshFails
  BY <1>2 DEF StreamEnds, RecvDisconnected, SendClosed, RefreshFails, Return
<1>3. CASE RecvReply \/ SendHeartbeat \/ SendDone \/ AuthTick
  BY <1>3 DEF RecvReply, SendHeartbeat, SendDone, AuthTick, Continue
<1>4. CASE Interest \/ RecvBatch
  BY <1>4 DEF Interest, handle_aoi, handle_poi, HandleUpdate, Continue, RecvBatch
<1>5. CASE MetricsTick
  BY <1>5 DEF MetricsTick, Continue
<1>6. CASE Reply
  BY <1>6 DEF Reply, ConnectReply, RefreshReply, AuthReply, ReauthReply, Continue, Return
<1>7. CASE Offer \/ EngineReads \/ EngineStalls \/ SignalExit \/ Tick
  BY <1>7, Zenon DEF Offer, EngineReads, EngineStalls, SignalExit, Tick
<1> QED
  BY <1>1, <1>2, <1>3, <1>4, <1>5, <1>6, <1>7 DEF Next

\* NoFalseAlarm: neither the watchdog nor send_timeout gives up an engine that reads and
\* replies, if calls are answered and the response timeout covers a heartbeat period and a call.
THEOREM PromptEngineIsKept ==
  ASSUME AuthAnswers, CallsApart, ResponseTimeout >= HeartbeatPeriod + CallLag
  PROVE  Spec => NoFalseAlarm
<1> DEFINE J == TimeInv /\ PromptReplies
<1>1. ASSUME Init PROVE J
  <2>1. pc = "top" /\ waited = 0
    BY <1>1 DEF Init
  <2> QED
    BY <2>1, Spans
       DEF TimeInv, AwaitsEnd, IntervalsKept, SilenceWatched, PromptReplies, Streaming, Calling
<1>2. TypeOK /\ TypeOK' /\ J /\ [Next]_vars => J'
  BY NextAwaits, NextIntervals, NextSilence, NextReplies DEF TimeInv
<1>3. TypeOK /\ J /\ [Next]_vars =>
        [Streaming /\ engine = "prompt" /\ pc' = "failed" => cause' # "timeout"]_vars
  <2> SUFFICES ASSUME TypeOK, J, Next, Streaming, engine = "prompt", pc' = "failed",
                      cause' = "timeout"
               PROVE  FALSE
    OBVIOUS
  <2>1. SendTimesOut \/ (MetricsTick /\ Overdue)
    BY TimeoutSteps
  <2>2. ~SendTimesOut
    BY Clocks, Spans, SMTT(30) DEF SendTimesOut, TimedOut, TimeInv, AwaitsEnd
  <2>3. ~Overdue
    BY Lateness, Clocks, Spans, SMTT(30) DEF Overdue, TimeInv, PromptReplies
  <2> QED
    BY <2>1, <2>2, <2>3
<1> QED
  BY <1>1, <1>2, <1>3, TypeCorrect, PTL DEF Spec, NoFalseAlarm

-----------------------------------------------------------------------------
(* Tokens.                                                                  *)

\* A token that has not run out lasts to Margin, less the time since it was looked at.
Lasts(left, age) == left <= 0 \/ left >= Margin - age

\* The time since the auth interval ticked.
SinceTick == AuthPeriod - timer["auth"]

\* maybe_refresh_auth looks at both tokens once in every auth period.  A call replaces
\* the token it found expiring.
StreamTokensLast ==
  /\ Lasts(access, SinceTick + (IF InCall THEN AuthPeriod ELSE 0))
  /\ Lasts(refresh, SinceTick + (IF pc = "reauth" THEN AuthPeriod ELSE 0))
TokensLast ==
  /\ pc = "connect" => access >= Margin - waited /\ refresh >= Margin - waited
  /\ pc = "drain" => access >= Margin - CallLag /\ refresh >= Margin - CallLag
  /\ Streaming => StreamTokensLast

\* Every token the auth service gives lasts as long as maybe_refresh_auth wants, or has no
\* expiry or has run out.
TokensWorthwhile == \A l \in Lifetime : l <= 0 \/ l >= Margin

\* Margin leaves time for a tick, a send and a call.
MarginSuffices == Margin > AuthPeriod + SendTimeout + CallLag

TokenTypes == access \in Int /\ refresh \in Int

\* The tokens have their type.
LEMMA TokensTyped == TypeOK => TokenTypes
  BY TypeParts, SMTT(30) DEF ClocksOK, TokenTypes, NoExpiry

\* How the tokens change.
LEMMA TokenSteps ==
  ASSUME [Next]_vars
  PROVE  \/ access' = 0 /\ refresh' = 0 /\ pc' = "failed"
         \/ Tick
         \/ UNCHANGED tokens
         \/ /\ access' \in Lifetime /\ (refresh' \in Lifetime \/ refresh' = refresh)
            /\ pc \in {"auth", "reauth", "refresh"} /\ pc' \in {"connect", "select", "closed"}
<1> USE DEF tokens
<1>1. CASE SetupFails \/ LoopTop \/ Wake \/ SessionOver \/ DrainBatch \/ StartStreaming
  BY <1>1 DEF SetupFails, LoopTop, Wake, SessionOver, DrainBatch, StartStreaming, Return, Await
<1>2. CASE StreamEnds \/ RecvDisconnected \/ SendTimesOut \/ SendClosed \/ RefreshFails
  BY <1>2, Zenon
     DEF StreamEnds, RecvDisconnected, SendTimesOut, SendClosed, RefreshFails, Return, Await
<1>3. CASE RecvReply \/ SendHeartbeat \/ SendDone \/ AuthTick \/ MetricsTick
  BY <1>3, Zenon DEF RecvReply, SendHeartbeat, SendDone, AuthTick, MetricsTick, Return, Await
<1>4. CASE Interest \/ RecvBatch
  BY <1>4, Zenon DEF Interest, handle_aoi, handle_poi, HandleUpdate, RecvBatch
<1>5. CASE Reply
  <2>1. CASE ConnectReply
    BY <2>1 DEF ConnectReply
  <2>2. ASSUME NEW a \in Lifetime, RefreshReply(a)
        PROVE  /\ access' \in Lifetime /\ refresh' = refresh
               /\ pc = "refresh" /\ pc' \in {"select", "closed"}
    BY <2>2 DEF RefreshReply, Continue, Await
  <2>3. ASSUME NEW a \in Lifetime, NEW r \in Lifetime, AuthReply(a, r) \/ ReauthReply(a, r)
        PROVE  \/ access' = 0 /\ refresh' = 0 /\ pc' = "failed"
               \/ UNCHANGED tokens
               \/ /\ access' \in Lifetime /\ refresh' \in Lifetime
                  /\ pc \in {"auth", "reauth"} /\ pc' \in {"connect", "select", "closed"}
    BY <2>3 DEF AuthReply, ReauthReply, Continue, Return, Panic, Await
  <2> QED
    BY <1>5, <2>1, <2>2, <2>3, Zenon DEF Reply
<1>6. CASE Offer \/ EngineReads \/ EngineStalls \/ SignalExit
  BY <1>6 DEF Offer, EngineReads, EngineStalls, SignalExit
<1>7. CASE UNCHANGED vars
  BY <1>7 DEF vars
<1> QED
  BY <1>1, <1>2, <1>3, <1>4, <1>5, <1>6, <1>7 DEF Next

\* ExpiryKnown, for an auth service that gives every token an expiry.
THEOREM ExpiryIsKnown ==
  ASSUME NoExpiry \notin Lifetime
  PROVE  Spec => []ExpiryKnown
<1> DEFINE K == access # NoExpiry
<1>1. Init => K
  BY DEF Init, NoExpiry
<1>2. TypeOK /\ K /\ [Next]_vars => K'
  <2> SUFFICES ASSUME TypeOK, K, [Next]_vars PROVE K'
    OBVIOUS
  <2>1. CASE Tick
    <3>1. access' = Down(access) /\ access \in Int
      BY <2>1, TokensTyped DEF Tick, TokenTypes
    <3> QED
      BY <3>1 DEF Down, NoExpiry
  <2> QED
    BY <2>1, TokenSteps DEF NoExpiry, tokens
<1>3. K => ExpiryKnown
  BY DEF ExpiryKnown
<1> QED
  BY <1>1, <1>2, <1>3, TypeCorrect, PTL DEF Spec

\* How the thread gets to the call that opens the streams, and to the drain.
LEMMA SetupSteps ==
  ASSUME [Next]_vars, pc' \in {"connect", "drain"}
  PROVE  \/ UNCHANGED <<pc, waited, tokens>>
         \/ Tick /\ pc = "connect"
         \/ pc' = "connect" /\ \E a, r \in Lifetime : AuthReply(a, r)
         \/ pc = "connect" /\ pc' = "drain" /\ UNCHANGED tokens
<1> USE DEF Await, tokens
<1>1. CASE SetupFails \/ LoopTop \/ Wake \/ SessionOver \/ DrainBatch \/ StartStreaming
  BY <1>1, Zenon DEF SetupFails, LoopTop, Wake, SessionOver, DrainBatch, StartStreaming, Continue, Return
<1>2. CASE StreamEnds \/ RecvDisconnected \/ SendTimesOut \/ SendClosed \/ RefreshFails
  BY <1>2, Zenon DEF StreamEnds, RecvDisconnected, SendTimesOut, SendClosed, RefreshFails, Return
<1>3. CASE RecvReply \/ SendHeartbeat \/ SendDone \/ AuthTick \/ MetricsTick
  BY <1>3, Zenon DEF RecvReply, SendHeartbeat, SendDone, AuthTick, MetricsTick, Continue, Return
<1>4. CASE Interest \/ RecvBatch
  BY <1>4, Zenon DEF Interest, handle_aoi, handle_poi, HandleUpdate, RecvBatch, Continue
<1>5. CASE Reply
  <2>1. CASE ConnectReply
    BY <2>1 DEF ConnectReply
  <2>2. ASSUME NEW a \in Lifetime, NEW r \in Lifetime, RefreshReply(a) \/ ReauthReply(a, r)
        PROVE  FALSE
    BY <2>2 DEF RefreshReply, ReauthReply, Continue, Return
  <2>3. ASSUME NEW a \in Lifetime, NEW r \in Lifetime, AuthReply(a, r)
        PROVE  pc' = "connect"
    BY <2>3 DEF AuthReply, Return, Panic
  <2> QED
    BY <1>5, <2>1, <2>2, <2>3, Zenon DEF Reply
<1>6. CASE Offer \/ EngineReads \/ EngineStalls \/ SignalExit
  BY <1>6 DEF Offer, EngineReads, EngineStalls, SignalExit
<1>7. CASE Tick
  BY <1>7, Zenon DEF Tick, Calling
<1>8. CASE UNCHANGED vars
  BY <1>8 DEF vars
<1> QED
  BY <1>1, <1>2, <1>3, <1>4, <1>5, <1>6, <1>7, <1>8, Zenon DEF Next

\* Every step keeps TokensLast: what a look of maybe_refresh_auth leaves, and what a call
\* brings, is not expiring soon.
LEMMA NextTokens ==
  ASSUME TypeOK, TypeOK', AwaitsEnd, IntervalsKept, TokensLast, CallsApart, AuthAnswers,
         TokensWorthwhile, [Next]_vars
  PROVE  TokensLast'
<1>t. /\ access \in Int /\ refresh \in Int /\ access' \in Int /\ refresh' \in Int
      /\ timer'["auth"] \in Int /\ timer'["auth"] <= AuthPeriod /\ waited' \in Nat
  <2>1. ClockFacts' /\ TokenTypes'
    BY ClocksTyped, TokensTyped, PTL
  <2> QED
    BY <2>1, TokensTyped DEF ClockFacts, TokenTypes
<1>w. Lifetime \subseteq Int
  BY BlockEngineAssumption, SMTT(30) DEF NoExpiry
<1>1. pc' = "connect" => access' >= Margin - waited' /\ refresh' >= Margin - waited'
  <2> SUFFICES ASSUME pc' = "connect"
               PROVE  access' >= Margin - waited' /\ refresh' >= Margin - waited'
    OBVIOUS
  <2>1. CASE UNCHANGED <<pc, waited, tokens>>
    BY <2>1 DEF TokensLast, tokens
  <2>2. CASE Tick
    <3>1. pc = "connect" /\ access' = Down(access) /\ refresh' = Down(refresh)
      BY <2>2 DEF Tick
    <3>2. waited' = waited + 1
      BY <2>2, <3>1, Clocks, Spans, SMTT(30) DEF Tick, Calling
    <3> QED
      BY <3>1, <3>2, <1>t, Clocks, Spans, SMTT(30) DEF TokensLast, Down
  <2>3. ASSUME NEW a \in Lifetime, NEW r \in Lifetime, AuthReply(a, r)
        PROVE  access' >= Margin - waited' /\ refresh' >= Margin - waited'
    <3>1. access' = a /\ refresh' = r /\ waited' = 0 /\ a # 0 /\ r # 0 /\ a # NoExpiry /\ r # NoExpiry
      BY <2>3, Zenon DEF AuthReply, Return, Panic, Await
    <3>2. a > 0 /\ r > 0
      BY <3>1, BlockEngineAssumption, SMTT(30) DEF NoExpiry
    <3> QED
      BY <3>1, <3>2, <1>w, Spans, SMTT(30) DEF TokensWorthwhile
  <2> QED
    BY <2>1, <2>2, <2>3, SetupSteps
<1>2. pc' = "drain" => access' >= Margin - CallLag /\ refresh' >= Margin - CallLag
  <2> SUFFICES ASSUME pc' = "drain"
               PROVE  access' >= Margin - CallLag /\ refresh' >= Margin - CallLag
    OBVIOUS
  <2>1. UNCHANGED tokens /\ (pc = "drain" \/ (pc = "connect" /\ Calling))
    <3>1. ~Tick \/ pc' = pc
      BY DEF Tick
    <3> QED
      BY <3>1, SetupSteps DEF Calling
  <2> QED
    BY <2>1, <1>t, Clocks, Spans, SMTT(30) DEF TokensLast, tokens, AwaitsEnd
<1>3. ASSUME Streaming' PROVE StreamTokensLast'
  <2>1. CASE StartStreaming
    <3>1. timer'["auth"] = 0 /\ pc' = "select" /\ UNCHANGED tokens /\ pc = "drain"
      BY <1>3, <2>1 DEF StartStreaming, Timer, Continue, Await, Streaming
    <3>2. access >= Margin - CallLag /\ refresh >= Margin - CallLag
      BY <3>1 DEF TokensLast
    <3> QED
      BY <3>1, <3>2, <1>t, Spans, SMTT(30)
         DEF StreamTokensLast, Lasts, SinceTick, InCall, CallsApart, tokens
  <2>2. CASE Streaming /\ Tick
    <3>1. /\ timer'["auth"] = timer["auth"] - 1 /\ pc' = pc
          /\ access' = Down(access) /\ refresh' = Down(refresh)
      BY <2>2, TickSteps
    <3>2. StreamTokensLast
      BY <2>2 DEF TokensLast
    <3> QED
      BY <3>1, <3>2, <1>t, Clocks, Spans, SMTT(30) DEF StreamTokensLast, Lasts, SinceTick, InCall, Down
  <2>3. CASE AuthTick /\ Still /\ Moved({"select"}, {"select", "reauth", "refresh"})
    <3>1. /\ timer["auth"] <= 0 /\ timer'["auth"] = timer["auth"] + AuthPeriod
          /\ access' = access /\ refresh' = refresh /\ pc = "select"
      BY <2>3, TickMoves DEF AuthTick, AuthPeriod, Timer, Still, Moved, tokens
    <3>2. StreamTokensLast
      BY <3>1 DEF TokensLast, Streaming
    <3>3. CASE pc' = "reauth"
      BY <3>1, <3>2, <3>3, <1>t, Clocks, Spans, SMTT(30) DEF StreamTokensLast, Lasts, SinceTick, InCall
    <3>4. CASE pc' = "refresh"
      <4>1. ~ExpiringSoon(refresh)
        BY <3>4, <2>3 DEF AuthTick, Await, Continue
      <4>2. refresh >= Margin
        BY <4>1, <1>t, Spans, SMTT(30) DEF ExpiringSoon
      <4> QED
        BY <3>1, <3>2, <3>4, <4>2, <1>t, Clocks, Spans, SMTT(30)
           DEF StreamTokensLast, Lasts, SinceTick, InCall
    <3>5. CASE pc' = "select"
      <4>1. ~ExpiringSoon(refresh) /\ ~ExpiringSoon(access)
        BY <3>5, <2>3 DEF AuthTick, Await, Continue
      <4>2. refresh >= Margin /\ access >= Margin
        BY <4>1, <1>t, Spans, SMTT(30) DEF ExpiringSoon
      <4> QED
        BY <3>1, <3>5, <4>2, <1>t, Clocks, Spans, SMTT(30) DEF StreamTokensLast, Lasts, SinceTick, InCall
    <3> QED
      BY <2>3, <3>3, <3>4, <3>5 DEF Moved
  <2>4. ASSUME Streaming, InCall' = InCall, (pc' = "reauth") = (pc = "reauth"), UNCHANGED tokens,
               timer'["auth"] = timer["auth"]
        PROVE  StreamTokensLast'
    BY <2>4 DEF TokensLast, StreamTokensLast, Lasts, SinceTick, tokens
  <2>5. CASE (Ticks("metrics") \/ SendHeartbeat) /\ Still /\ Moved({"select"}, {"select", "send"})
    <3>1. timer'["auth"] = timer["auth"]
      BY <2>5, TickMoves DEF SendHeartbeat, Timer
    <3> QED
      BY <2>4, <2>5, <3>1, SMTT(30) DEF Moved, Still, Streaming, InCall
  <2>6. CASE /\ Moved({"select"}, {"select", "send"}) \/ (SendDone /\ pc' = "select")
             /\ UNCHANGED <<timer, tokens>>
    BY <2>4, <2>6, SMTT(30) DEF Moved, SendDone, Streaming, InCall
  <2>7. CASE Moved({"reauth", "refresh"}, {"select"}) /\ UNCHANGED timer /\ NewTokens
    <3>1. pc \in {"reauth", "refresh"} /\ pc' = "select" /\ SinceTick' = SinceTick
      BY <2>7 DEF Moved, SinceTick
    <3>2. SinceTick \in Nat
      BY Clocks, Spans, SMTT(30) DEF SinceTick
    <3>3. access' <= 0 \/ access' >= Margin
      BY <2>7 DEF NewTokens, TokensWorthwhile
    <3>4. Lasts(refresh, SinceTick) \/ refresh' <= 0 \/ refresh' >= Margin
      BY <2>7, <3>1, <3>2, <1>t, Spans, SMTT(30)
         DEF NewTokens, TokensWorthwhile, TokensLast, StreamTokensLast, Streaming, Lasts
    <3>5. refresh' = refresh \/ refresh' <= 0 \/ refresh' >= Margin
      BY <2>7 DEF NewTokens, TokensWorthwhile
    <3> QED
      BY <3>1, <3>2, <3>3, <3>4, <3>5, <1>t, Spans, SMTT(30) DEF StreamTokensLast, Lasts, InCall
  <2>8. CASE EngineStalls \/ Quiet
    <3>1. UNCHANGED <<pc, timer, tokens>>
      BY <2>8, Zenon DEF EngineStalls, Quiet
    <3>2. Streaming /\ InCall' = InCall /\ (pc' = "reauth") = (pc = "reauth")
      BY <1>3, <3>1 DEF Streaming, InCall
    <3> QED
      BY <2>4, <3>1, <3>2
  <2>9. Tick => Streaming
    BY <1>3 DEF Tick, Streaming
  <2> QED
    BY <1>3, <2>1, <2>2, <2>3, <2>5, <2>6, <2>7, <2>8, <2>9, SessionSteps, Zenon
       DEF Still, Moved, RecvReply
<1> QED
  BY <1>1, <1>2, <1>3 DEF TokensLast

\* TokensFresh: neither token runs out in a session, although maybe_refresh_auth may look
\* late and its call takes time.
THEOREM TokensStayFresh ==
  ASSUME CallsApart, MarginSuffices, TokensWorthwhile
  PROVE  Spec => TokensFresh
<1>1. CASE AuthAnswers
  <2> DEFINE J == TimeInv /\ TokensLast
  <2>1. ASSUME Init PROVE J
    <3>1. pc = "top" /\ waited = 0
      BY <2>1 DEF Init
    <3> QED
      BY <3>1, Spans
         DEF TimeInv, AwaitsEnd, IntervalsKept, SilenceWatched, TokensLast, Streaming, Calling
  <2>2. TypeOK /\ TypeOK' /\ J /\ [Next]_vars => J'
    BY <1>1, NextAwaits, NextIntervals, NextSilence, NextTokens DEF TimeInv
  <2>3. TypeOK /\ J /\ [Next]_vars =>
          [Streaming /\ AuthAnswers /\ pc' = pc =>
             (access > 0 => access' > 0) /\ (refresh > 0 => refresh' > 0)]_vars
    <3> SUFFICES ASSUME TypeOK, J, [Next]_vars, Streaming, pc' = pc
                 PROVE  (access > 0 => access' > 0) /\ (refresh > 0 => refresh' > 0)
      OBVIOUS
    <3>t. access \in Int /\ refresh \in Int
      BY TokensTyped DEF TokenTypes
    <3>1. CASE UNCHANGED tokens
      BY <3>1 DEF tokens
    <3>2. CASE Tick
      <4>1. access' = Down(access) /\ refresh' = Down(refresh)
        BY <3>2 DEF Tick
      <4>2. SinceTick + (IF InCall THEN AuthPeriod ELSE 0) < Margin - 1
        <5>1. CASE InCall
          <6>1. waited < CallLag /\ HeldUp <= SendTimeout /\ CallTime = waited
            BY <1>1, <3>2, <5>1, TickSteps, Lateness DEF TimeInv, InCall, CallTime
          <6>2. timer["auth"] >= AuthPeriod - HeldUp - CallTime
            BY <5>1 DEF TimeInv, IntervalsKept, AfterCall
          <6> QED
            BY <5>1, <6>1, <6>2, Clocks, Spans, SMTT(30) DEF SinceTick, MarginSuffices
        <5>2. CASE ~InCall
          <6>1. timer["auth"] >= -SendTimeout
            BY Lateness DEF TimeInv
          <6> QED
            BY <5>2, <6>1, Clocks, Spans, SMTT(30) DEF SinceTick, MarginSuffices
        <5> QED
          BY <5>1, <5>2
      <4>3. SinceTick + (IF pc = "reauth" THEN AuthPeriod ELSE 0) < Margin - 1
        <5>1. CASE InCall
          BY <4>2, <5>1, Clocks, Spans, SMTT(30) DEF SinceTick, InCall
        <5>2. CASE ~InCall
          BY <4>2, <5>2 DEF InCall
        <5> QED
          BY <5>1, <5>2
      <4>4. StreamTokensLast
        BY DEF TokensLast
      <4>5. access > 0 => access > 1
        BY <4>2, <4>4, <3>t, Clocks, Spans, SMTT(30) DEF StreamTokensLast, Lasts, SinceTick
      <4>6. refresh > 0 => refresh > 1
        BY <4>3, <4>4, <3>t, Clocks, Spans, SMTT(30) DEF StreamTokensLast, Lasts, SinceTick
      <4> QED
        BY <4>1, <4>5, <4>6, <3>t DEF Down
    <3> QED
      BY <3>1, <3>2, TokenSteps DEF Streaming
  <2> QED
    BY <2>1, <2>2, <2>3, TypeCorrect, PTL DEF Spec, TokensFresh
<1>2. CASE ~AuthAnswers
  <2>1. [Streaming /\ AuthAnswers /\ pc' = pc =>
             (access > 0 => access' > 0) /\ (refresh > 0 => refresh' > 0)]_vars
    BY <1>2
  <2> QED
    BY <2>1, PTL DEF TokensFresh
<1> QED
  BY <1>1, <1>2
=============================================================================
