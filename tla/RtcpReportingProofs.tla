------------------------ MODULE RtcpReportingProofs ------------------------
(***************************************************************************)
(* Theorems about the reports and the end of a session, for any finite     *)
(* number of report managers, any limits and any failing sends.            *)
(***************************************************************************)
EXTENDS RtcpReporting, TLAPS, FiniteSetTheorems, SequenceTheorems

(* The inductive invariant.                                                *)

Aborted == Handler("report", FALSE)
Expired == Handler("report", TRUE)

\* A send is under way only when there is a packet to send.
WritingQueued == \A m \in Managers : writing[m] => m_vDeliveryQueue[m] # <<>>

\* What a manager of a running session waits for.  A handler that an early report
\* has aborted is still queued only until the next report, and then no further
\* early one is allowed.
Waits(m) ==
  \/ /\ m_rtcpTimer[m] = "report" /\ ~due[m]
     /\ ready[m] = <<>> \/ (ready[m] = <<Aborted>> /\ ~m_bAllowEarly[m])
  \/ /\ m_rtcpTimer[m] = "none" /\ (due[m] \/ ~m_bAllowEarly[m])
     /\ ready[m] = <<Expired>> \/ (ready[m] = <<Aborted, Expired>> /\ ~m_bAllowEarly[m])

Running ==
  /\ \A m \in m_vRtcpReportManagers :
       /\ m_bShuttingDown[m] <=> m_state = "SS_SHUTTING_DOWN"
       /\ m_bEarlyScheduled[m] => ~m_bAllowEarly[m]
       /\ m_state = "SS_STARTED" => Waits(m)

Only(q, p) == \A i \in DOMAIN q : q[i] = p
InOrder(q) == \A i, j \in DOMAIN q : i < j /\ q[i] = "bye" => q[j] = "bye"

\* No BYE is queued before stop(), and none is followed by a report.
QueueInv ==
  \A m \in m_vRtcpReportManagers :
    /\ InOrder(m_vDeliveryQueue[m])
    /\ m_state = "SS_STARTED" => Only(m_vDeliveryQueue[m], "report")

-----------------------------------------------------------------------------
\* A single path session: from the first BYE on it is complete and closed, and
\* only BYEs are left to send.
SinglePath ==
  ~Multipath =>
    \/ m_uiByeSentCount = 0 /\ completed = 0 /\ open
    \/ /\ m_uiByeSentCount >= 1 /\ completed = 1 /\ ~open
       /\ m_state = "SS_SHUTTING_DOWN"
       /\ \A m \in m_vRtcpReportManagers : Only(m_vDeliveryQueue[m], "bye")

ByeQueued(q) == q # <<>> /\ \A i \in DOMAIN q : q[i] = "bye" <=> i = Len(q)

\* The way of a manager's only BYE, without loss detection: not yet, a handler or
\* the timer will send it, it is in the queue, it has left.
OneBye(m) ==
  \/ ~m_bShuttingDown[m] /\ m \notin byeEnded
  \/ /\ m_bShuttingDown[m] /\ m \notin byeEnded /\ Only(m_vDeliveryQueue[m], "report")
     /\ \/ m_rtcpTimer[m] = "none" /\ Len(ready[m]) = 1
        \/ m_rtcpTimer[m] = "bye" /\ ready[m] = <<>>
  \/ /\ m_bShuttingDown[m] /\ m_rtcpTimer[m] = "none" /\ ready[m] = <<>>
     /\ \/ m \notin byeEnded /\ ByeQueued(m_vDeliveryQueue[m])
        \/ m \in byeEnded /\ m_vDeliveryQueue[m] = <<>>

\* The count is the number of managers whose BYE has left.
CountRight ==
  /\ byeEnded \subseteq m_vRtcpReportManagers /\ m_uiByeSentCount = Cardinality(byeEnded)
  /\ completed = IF byeEnded = m_vRtcpReportManagers THEN 1 ELSE 0
  /\ open <=> byeEnded # m_vRtcpReportManagers

NeverEarly(m) == m_bAllowEarly[m] /\ ~m_bEarlyScheduled[m]

Counted ==
  predictor = "none" =>
    /\ ~detecting
    /\ CountRight
    /\ \A m \in m_vRtcpReportManagers : NeverEarly(m) /\ OneBye(m)

Sessions == m_vRtcpReportManagers # {}

CountInv == Running /\ QueueInv /\ Sessions /\ SinglePath /\ Counted

-----------------------------------------------------------------------------
(* Sequences of one and two elements.                                      *)

LEMMA AppendToShort ==
  ASSUME NEW x, NEW y
  PROVE  Append(<<>>, x) = <<x>> /\ Append(<<x>>, y) = <<x, y>>
<1> DEFINE S == {x, y}
<1>1. <<>> \in Seq(S) /\ <<x>> \in Seq(S) /\ <<x, y>> \in Seq(S)
  OBVIOUS
<1>2. Append(<<>>, x) \in Seq(S) /\ Len(Append(<<>>, x)) = 1 /\ Append(<<>>, x)[1] = x
  BY <1>1
<1>3. /\ Append(<<x>>, y) \in Seq(S) /\ Len(Append(<<x>>, y)) = 2
      /\ Append(<<x>>, y)[1] = x /\ Append(<<x>>, y)[2] = y
  BY <1>1
<1>4. Append(<<>>, x) = <<x>>
  BY <1>1, <1>2, SeqEqual
<1>5. Append(<<x>>, y) = <<x, y>>
  <2> HIDE DEF S
  <2>1. Len(<<x, y>>) = 2 /\ <<x, y>>[1] = x /\ <<x, y>>[2] = y
    OBVIOUS
  <2>2. \A i \in 1..Len(Append(<<x>>, y)) : Append(<<x>>, y)[i] = <<x, y>>[i]
    BY <1>3, <2>1
  <2> QED BY <1>1, <1>3, <2>1, <2>2, SeqEqual, Zenon
<1> QED BY <1>4, <1>5

LEMMA HeadTailOfShort ==
  ASSUME NEW x, NEW y
  PROVE  /\ Head(<<x>>) = x /\ Tail(<<x>>) = <<>>
         /\ Head(<<x, y>>) = x /\ Tail(<<x, y>>) = <<y>>
  OBVIOUS

LEMMA AppendFacts ==
  ASSUME NEW S, NEW q \in Seq(S), NEW x \in S
  PROVE  /\ Append(q, x) \in Seq(S) /\ Append(q, x) # <<>> /\ Len(Append(q, x)) = Len(q) + 1
         /\ \A i \in 1..Len(q) : Append(q, x)[i] = q[i]
         /\ Append(q, x)[Len(q) + 1] = x
  OBVIOUS

LEMMA TailFacts ==
  ASSUME NEW S, NEW q \in Seq(S), q # <<>>
  PROVE  /\ Head(q) = q[1] /\ Head(q) \in S /\ Len(q) > 0
         /\ Tail(q) \in Seq(S) /\ Len(Tail(q)) = Len(q) - 1
         /\ \A i \in 1..(Len(q) - 1) : Tail(q)[i] = q[i + 1]
  OBVIOUS

LEMMA Handlers1 ==
  /\ Aborted \in Handlers /\ Expired \in Handlers /\ Aborted # Expired
  /\ Aborted.fn = "report" /\ Expired.fn = "report" /\ ~Aborted.ok /\ Expired.ok
  /\ \A b \in BOOLEAN : Handler("bye", b) \in Handlers /\ Handler("bye", b).fn = "bye"
  BY DEF Aborted, Expired, Handler, Handlers

-----------------------------------------------------------------------------
(* Types.                                                                  *)

TypeInv == TypeOK /\ WritingQueued

LEMMA OutgoingType ==
  ASSUME TypeInv, NEW m \in Managers, NEW p \in Packets, onOutgoingRtcp(m, p)
  PROVE  /\ m_state' = m_state /\ m_uiByeSentCount' \in Nat /\ open' \in BOOLEAN
         /\ completed' \in Nat /\ byeEnded' \in SUBSET Managers
  BY DEF TypeInv, TypeOK, onOutgoingRtcp

LEMMA SendType ==
  ASSUME TypeInv, NEW m \in Managers, NEW p \in Packets, Send(m, p)
  PROVE  /\ m_state' = m_state /\ m_uiByeSentCount' \in Nat /\ open' \in BOOLEAN
         /\ completed' \in Nat /\ byeEnded' \in SUBSET Managers
         /\ m_vDeliveryQueue' \in [Managers -> Seq(Packets)]
         /\ writing' \in [Managers -> BOOLEAN] /\ WritingQueued'
<1>1. CASE open
  <2>1. /\ m_vDeliveryQueue' = [m_vDeliveryQueue EXCEPT ![m] = Append(@, p)]
        /\ writing' = [writing EXCEPT ![m] = @ \/ m_vDeliveryQueue[m] = <<>>]
        /\ UNCHANGED sessionVars
    BY <1>1 DEF Send
  <2>2. Append(m_vDeliveryQueue[m], p) \in Seq(Packets) /\ Append(m_vDeliveryQueue[m], p) # <<>>
    <3>1. m_vDeliveryQueue[m] \in Seq(Packets)
      BY DEF TypeInv, TypeOK
    <3> QED BY <3>1, AppendFacts
  <2> QED BY <2>1, <2>2 DEF TypeInv, TypeOK, WritingQueued, sessionVars
<1>2. CASE ~open
  <2>1. onOutgoingRtcp(m, p) /\ UNCHANGED socketVars
    BY <1>2 DEF Send
  <2> QED BY <2>1, OutgoingType DEF TypeInv, TypeOK, WritingQueued, socketVars
<1> QED BY <1>1, <1>2

LEMMA WriteType ==
  ASSUME TypeInv, NEW m \in Managers, NEW ok \in BOOLEAN, writeCompletionHandler(m, ok),
         errors' \in 0..MaxErrors
  PROVE  TypeInv'
<1>1. /\ m_vDeliveryQueue[m] \in Seq(Packets) /\ m_vDeliveryQueue[m] # <<>>
  BY DEF TypeInv, TypeOK, WritingQueued, writeCompletionHandler
<1>2. Head(m_vDeliveryQueue[m]) \in Packets /\ Tail(m_vDeliveryQueue[m]) \in Seq(Packets)
  BY <1>1
<1>3. /\ m_state' = m_state /\ m_uiByeSentCount' \in Nat /\ open' \in BOOLEAN
      /\ completed' \in Nat /\ byeEnded' \in SUBSET Managers
  BY <1>2, OutgoingType DEF writeCompletionHandler
<1>4. /\ m_vDeliveryQueue' = [m_vDeliveryQueue EXCEPT ![m] = Tail(@)]
      /\ writing' = [writing EXCEPT ![m] = ok /\ Tail(m_vDeliveryQueue[m]) # <<>>]
      /\ UNCHANGED <<feedbackVars, m_bShuttingDown, earlyVars, timerVars>>
  BY DEF writeCompletionHandler
<1>5. WritingQueued' /\ m_vDeliveryQueue' \in [Managers -> Seq(Packets)]
      /\ writing' \in [Managers -> BOOLEAN]
  BY <1>2, <1>4 DEF TypeInv, TypeOK, WritingQueued
<1> QED BY <1>3, <1>4, <1>5 DEF TypeInv, TypeOK, feedbackVars, earlyVars, timerVars

LEMMA CancelledType ==
  ASSUME TypeInv, NEW m \in Managers
  PROVE  Cancelled(m) \in Seq(Handlers) /\ (ready[m] # <<>> => Tail(Cancelled(m)) \in Seq(Handlers))
<1>1. ready[m] \in Seq(Handlers) /\ m_rtcpTimer[m] \in {"none", "report", "bye"}
  BY DEF TypeInv, TypeOK
<1>2. m_rtcpTimer[m] # "none" => Handler(m_rtcpTimer[m], FALSE) \in Handlers
  BY <1>1 DEF Handler, Handlers
<1>3. CASE m_rtcpTimer[m] = "none"
  BY <1>1, <1>3 DEF Cancelled
<1>4. CASE m_rtcpTimer[m] # "none"
  <2> DEFINE h == Handler(m_rtcpTimer[m], FALSE)
  <2>1. Append(ready[m], h) \in Seq(Handlers) /\ Append(ready[m], h) # <<>>
    <3>1. ready[m] \in Seq(Handlers) /\ h \in Handlers
      BY <1>1, <1>2, <1>4
    <3> HIDE DEF h
    <3> QED BY <3>1, AppendFacts
  <2>2. Tail(Append(ready[m], h)) \in Seq(Handlers)
    <3> HIDE DEF h
    <3> QED BY <2>1
  <2> QED BY <2>1, <2>2, <1>4 DEF Cancelled
<1> QED BY <1>3, <1>4

LEMMA InitTypeInv == Init => TypeInv
  BY ReportingAssumption DEF Init, TypeInv, TypeOK, WritingQueued

LEMMA ReportType ==
  ASSUME TypeInv, NEW m \in Managers, Report(m)
  PROVE  TypeInv'
<1>1. ready' \in [Managers -> Seq(Handlers)]
  <2>1. ready[m] # <<>> /\ ready[m] \in Seq(Handlers) /\ ready' = [ready EXCEPT ![m] = Tail(@)]
    BY DEF Report, TypeInv, TypeOK
  <2>2. Tail(ready[m]) \in Seq(Handlers)
    BY <2>1
  <2> QED BY <2>1, <2>2 DEF TypeInv, TypeOK
<1>2. /\ m_rtcpTimer' \in [Managers -> {"none", "report", "bye"}]
      /\ due' \in [Managers -> BOOLEAN] /\ m_bEarlyScheduled' \in [Managers -> BOOLEAN]
      /\ m_bAllowEarly' \in [Managers -> BOOLEAN]
  BY DEF Report, setNextRtcpTimeout, TypeInv, TypeOK
<1>3. /\ m_state' = m_state /\ m_uiByeSentCount' \in Nat /\ open' \in BOOLEAN
      /\ completed' \in Nat /\ byeEnded' \in SUBSET Managers
      /\ m_vDeliveryQueue' \in [Managers -> Seq(Packets)]
      /\ writing' \in [Managers -> BOOLEAN] /\ WritingQueued'
  <2>1. CASE Send(m, "report")
    BY <2>1, SendType DEF Packets
  <2>2. CASE UNCHANGED <<sessionVars, socketVars>>
    BY <2>2 DEF TypeInv, TypeOK, WritingQueued, sessionVars, socketVars
  <2> QED BY <2>1, <2>2 DEF Report
<1>4. assumedLost' = 0 /\ UNCHANGED <<m_vRtcpReportManagers, predictor, detecting, m_bShuttingDown, errors>>
  BY DEF Report
<1> QED BY <1>1, <1>2, <1>3, <1>4, ReportingAssumption DEF TypeInv, TypeOK

LEMMA FinaliseType ==
  ASSUME TypeInv, NEW m \in Managers, ready[m] # <<>>, finaliseSession(m),
         UNCHANGED <<feedbackVars, m_bShuttingDown, earlyVars, errors>>
  PROVE  TypeInv'
<1>1. CASE Send(m, "bye") /\ ready' = [ready EXCEPT ![m] = Tail(@)] /\ UNCHANGED m_rtcpTimer
  <2>1. Tail(ready[m]) \in Seq(Handlers)
    BY DEF TypeInv, TypeOK
  <2>2. ready' \in [Managers -> Seq(Handlers)]
    BY <1>1, <2>1 DEF TypeInv, TypeOK
  <2>3. /\ m_state' = m_state /\ m_uiByeSentCount' \in Nat /\ open' \in BOOLEAN
        /\ completed' \in Nat /\ byeEnded' \in SUBSET Managers
        /\ m_vDeliveryQueue' \in [Managers -> Seq(Packets)]
        /\ writing' \in [Managers -> BOOLEAN] /\ WritingQueued'
    BY <1>1, SendType DEF Packets
  <2> QED BY <1>1, <2>2, <2>3 DEF TypeInv, TypeOK, feedbackVars, earlyVars
<1>2. CASE /\ ready' = [ready EXCEPT ![m] = Tail(Cancelled(m))]
           /\ m_rtcpTimer' = [m_rtcpTimer EXCEPT ![m] = "bye"]
           /\ UNCHANGED <<sessionVars, socketVars>>
  <2>1. ready' \in [Managers -> Seq(Handlers)]
    BY <1>2, CancelledType DEF TypeInv, TypeOK
  <2> QED BY <1>2, <2>1 DEF TypeInv, TypeOK, WritingQueued, feedbackVars, earlyVars, sessionVars, socketVars
<1> QED BY <1>1, <1>2 DEF finaliseSession

LEMMA StepTypeInv == TypeInv /\ [Next]_vars => TypeInv'
<1> SUFFICES ASSUME TypeInv, [Next]_vars PROVE TypeInv'
  OBVIOUS
<1>1. CASE stop
  <2>1. ready' \in [Managers -> Seq(Handlers)]
    BY <1>1, CancelledType DEF stop
  <2>2. m_bShuttingDown' \in [Managers -> BOOLEAN]
    BY <1>1 DEF stop
  <2>3. m_rtcpTimer' \in [Managers -> {"none", "report", "bye"}]
    BY <1>1 DEF stop
  <2>4. WritingQueued'
    BY <1>1 DEF stop, socketVars, TypeInv, WritingQueued
  <2> QED BY <1>1, <2>1, <2>2, <2>3, <2>4 DEF stop, TypeInv, TypeOK, earlyVars, socketVars
<1>2. CASE onRtpPacketLate
  <2>1. assumedLost' \in 0..MaxLost
    BY <1>2, ReportingAssumption DEF onRtpPacketLate, TypeInv, TypeOK
  <2> QED BY <1>2, <2>1 DEF onRtpPacketLate, TypeInv, TypeOK, WritingQueued, sessionVars,
          earlyVars, timerVars, socketVars
<1>3. CASE onByeReceived
  BY <1>3 DEF onByeReceived, TypeInv, TypeOK, WritingQueued, sessionVars, earlyVars,
     timerVars, socketVars
<1>4. ASSUME NEW m \in Managers, TimerExpires(m) PROVE TypeInv'
  <2>1. Handler(m_rtcpTimer[m], TRUE) \in Handlers
    BY <1>4 DEF TimerExpires, TypeInv, TypeOK, Handler, Handlers
  <2>2. Append(ready[m], Handler(m_rtcpTimer[m], TRUE)) \in Seq(Handlers)
    BY <2>1, AppendFacts DEF TypeInv, TypeOK
  <2>3. ready' \in [Managers -> Seq(Handlers)]
    BY <1>4, <2>2 DEF TimerExpires, TypeInv, TypeOK
  <2>4. due' \in [Managers -> BOOLEAN]
    BY <1>4 DEF TimerExpires, TypeInv, TypeOK
  <2> QED BY <1>4, <2>3, <2>4 DEF TimerExpires, TypeInv, TypeOK, WritingQueued, sessionVars,
          feedbackVars, socketVars
<1>5. ASSUME NEW m \in Managers, onRtcpIntervalTimeout(m) PROVE TypeInv'
  <2>1. CASE finaliseSession(m) /\ UNCHANGED <<feedbackVars, m_bShuttingDown, earlyVars, errors>>
    BY <1>5, <2>1, FinaliseType DEF onRtcpIntervalTimeout
  <2>2. CASE Report(m)
    BY <2>2, ReportType
  <2>3. CASE /\ ready' = [ready EXCEPT ![m] = Tail(@)]
             /\ UNCHANGED <<sessionVars, feedbackVars, m_bShuttingDown, earlyVars, m_rtcpTimer,
                            socketVars, errors>>
    <3>1. Tail(ready[m]) \in Seq(Handlers)
      BY <1>5, TailFacts DEF onRtcpIntervalTimeout, TypeInv, TypeOK
    <3>2. ready' \in [Managers -> Seq(Handlers)]
      BY <2>3, <3>1 DEF TypeInv, TypeOK
    <3> QED BY <2>3, <3>2 DEF TypeInv, TypeOK, WritingQueued, sessionVars, feedbackVars, earlyVars,
            socketVars
  <2> QED BY <1>5, <2>1, <2>2, <2>3 DEF onRtcpIntervalTimeout
<1>6. ASSUME NEW m \in Managers, onScheduleByeTimeout(m) PROVE TypeInv'
  <2>1. Tail(ready[m]) \in Seq(Handlers)
    BY <1>6, TailFacts DEF onScheduleByeTimeout, TypeInv, TypeOK
  <2>2. ready' \in [Managers -> Seq(Handlers)]
    BY <1>6, <2>1 DEF onScheduleByeTimeout, TypeInv, TypeOK
  <2>3. /\ m_state' = m_state /\ m_uiByeSentCount' \in Nat /\ open' \in BOOLEAN
        /\ completed' \in Nat /\ byeEnded' \in SUBSET Managers
        /\ m_vDeliveryQueue' \in [Managers -> Seq(Packets)]
        /\ writing' \in [Managers -> BOOLEAN] /\ WritingQueued'
    BY <1>6, SendType DEF onScheduleByeTimeout, Packets
  <2> QED BY <1>6, <2>2, <2>3 DEF onScheduleByeTimeout, TypeInv, TypeOK, feedbackVars, earlyVars
<1>7. ASSUME NEW m \in Managers, SendSucceeds(m) PROVE TypeInv'
  BY <1>7, WriteType DEF SendSucceeds, TypeInv, TypeOK
<1>8. ASSUME NEW m \in Managers, SendFails(m) PROVE TypeInv'
  <2>1. errors' \in 0..MaxErrors
    BY <1>8, ReportingAssumption DEF SendFails, TypeInv, TypeOK
  <2> QED BY <1>8, <2>1, WriteType DEF SendFails
<1>9. ASSUME NEW m \in Managers, onPacketAssumedLost(m) PROVE TypeInv'
  <2>1. assumedLost' \in 0..MaxLost
    BY <1>9, ReportingAssumption DEF onPacketAssumedLost, TypeInv, TypeOK
  <2>2. ready' \in [Managers -> Seq(Handlers)]
    <3>1. Cancelled(m) \in Seq(Handlers) /\ ready \in [Managers -> Seq(Handlers)]
      BY <1>9, CancelledType DEF TypeInv, TypeOK
    <3>2. ready' = [ready EXCEPT ![m] = Cancelled(m)] \/ ready' = ready
      BY <1>9 DEF onPacketAssumedLost, scheduleEarlyFeedback, timerVars
    <3> QED BY <3>1, <3>2
  <2> QED BY <1>9, <2>1, <2>2 DEF onPacketAssumedLost, scheduleEarlyFeedback, TypeInv, TypeOK,
          WritingQueued, sessionVars, timerVars, socketVars
<1>10. CASE UNCHANGED vars
  BY <1>10 DEF vars, TypeInv, TypeOK, WritingQueued, sessionVars, feedbackVars, earlyVars,
     timerVars, socketVars
<1>11. m_vRtcpReportManagers \in SUBSET Managers
  BY DEF TypeInv, TypeOK
<1> QED BY <1>1, <1>2, <1>3, <1>4, <1>5, <1>6, <1>7, <1>8, <1>9, <1>10, <1>11 DEF Next

\* Every variable keeps its type, whatever timers, losses and sends do.
THEOREM TypeCorrect == Spec => []TypeOK
<1>1. TypeInv => TypeOK
  BY DEF TypeInv
<1> QED BY InitTypeInv, StepTypeInv, <1>1, PTL DEF Spec

-----------------------------------------------------------------------------
(* Queues.                                                                 *)

LEMMA AppendReport ==
  ASSUME NEW q \in Seq(Packets), Only(q, "report")
  PROVE  Only(Append(q, "report"), "report") /\ InOrder(Append(q, "report"))
<1>1. /\ Len(Append(q, "report")) = Len(q) + 1 /\ Append(q, "report") \in Seq(Packets)
      /\ \A i \in 1..Len(q) : Append(q, "report")[i] = q[i]
      /\ Append(q, "report")[Len(q) + 1] = "report"
  BY AppendFacts DEF Packets
<1>2. Len(q) \in Nat /\ DOMAIN q = 1..Len(q) /\ DOMAIN Append(q, "report") = 1..(Len(q) + 1)
  BY <1>1
<1>3. Only(Append(q, "report"), "report")
  BY <1>1, <1>2 DEF Only
<1> QED BY <1>3 DEF Only, InOrder

LEMMA AppendBye ==
  ASSUME NEW q \in Seq(Packets)
  PROVE  /\ InOrder(q) => InOrder(Append(q, "bye"))
         /\ Only(q, "bye") => Only(Append(q, "bye"), "bye")
<1>1. /\ Len(Append(q, "bye")) = Len(q) + 1 /\ Append(q, "bye") \in Seq(Packets)
      /\ \A i \in 1..Len(q) : Append(q, "bye")[i] = q[i]
      /\ Append(q, "bye")[Len(q) + 1] = "bye"
  BY AppendFacts DEF Packets
<1>2. Len(q) \in Nat /\ DOMAIN q = 1..Len(q) /\ DOMAIN Append(q, "bye") = 1..(Len(q) + 1)
  BY <1>1
<1>3. ASSUME InOrder(q), NEW i \in 1..(Len(q) + 1), NEW j \in 1..(Len(q) + 1), i < j,
             Append(q, "bye")[i] = "bye"
      PROVE  Append(q, "bye")[j] = "bye"
  BY <1>1, <1>2, <1>3 DEF InOrder
<1>4. Only(q, "bye") => Only(Append(q, "bye"), "bye")
  BY <1>1, <1>2 DEF Only
<1> QED BY <1>2, <1>3, <1>4 DEF InOrder

LEMMA TailOfQueue ==
  ASSUME NEW q \in Seq(Packets), q # <<>>
  PROVE  /\ InOrder(q) => InOrder(Tail(q))
         /\ InOrder(q) /\ Head(q) = "bye" => Only(Tail(q), "bye")
         /\ \A p \in Packets : Only(q, p) => Only(Tail(q), p) /\ Head(q) = p
<1>1. /\ Head(q) = q[1] /\ Len(q) > 0 /\ Tail(q) \in Seq(Packets) /\ Len(Tail(q)) = Len(q) - 1
      /\ \A i \in 1..(Len(q) - 1) : Tail(q)[i] = q[i + 1]
  BY TailFacts
<1>2. Len(q) \in Nat /\ DOMAIN q = 1..Len(q) /\ DOMAIN Tail(q) = 1..(Len(q) - 1)
  BY <1>1
<1>3. \A i \in DOMAIN Tail(q) : i + 1 \in DOMAIN q /\ Tail(q)[i] = q[i + 1] /\ 1 < i + 1 /\ i \in Nat
  BY <1>1, <1>2
<1>4. 1 \in DOMAIN q
  BY <1>1, <1>2
<1>5. InOrder(q) => InOrder(Tail(q))
  <2> SUFFICES ASSUME InOrder(q), NEW i \in DOMAIN Tail(q), NEW j \in DOMAIN Tail(q), i < j,
                      Tail(q)[i] = "bye"
               PROVE  Tail(q)[j] = "bye"
    BY DEF InOrder
  <2>1. i + 1 < j + 1
    BY <1>3
  <2> QED BY <1>3, <2>1 DEF InOrder
<1>6. InOrder(q) /\ Head(q) = "bye" => Only(Tail(q), "bye")
  BY <1>1, <1>3, <1>4 DEF InOrder, Only
<1>7. \A p \in Packets : Only(q, p) => Only(Tail(q), p) /\ Head(q) = p
  BY <1>1, <1>3, <1>4 DEF Only
<1> QED BY <1>5, <1>6, <1>7

LEMMA EmptyQueue == InOrder(<<>>) /\ \A p : Only(<<>>, p)
  BY DEF InOrder, Only

-----------------------------------------------------------------------------
(* The chain of reports.                                                   *)

LEMMA InitRunning == Init => Running /\ QueueInv
  BY EmptyQueue DEF Init, Running, Waits, QueueInv

\* A step that leaves the timers of manager n alone.
LEMMA RunningElsewhere ==
  ASSUME TypeInv, Running, NEW n \in Managers, n \in m_vRtcpReportManagers,
         m_state' = m_state, m_bShuttingDown' = m_bShuttingDown,
         m_bEarlyScheduled'[n] = m_bEarlyScheduled[n], m_bAllowEarly'[n] = m_bAllowEarly[n],
         m_rtcpTimer'[n] = m_rtcpTimer[n], due'[n] = due[n], ready'[n] = ready[n]
  PROVE  /\ m_bShuttingDown'[n] <=> m_state' = "SS_SHUTTING_DOWN"
         /\ m_bEarlyScheduled'[n] => ~m_bAllowEarly'[n]
         /\ m_state' = "SS_STARTED" => Waits(n)'
  BY DEF Running, Waits

LEMMA StepRunning ==
  ASSUME TypeInv, Running, [Next]_vars
  PROVE  Running'
<1> USE DEF TypeInv
<1>1. m_vRtcpReportManagers \in SUBSET Managers
  BY DEF TypeOK
<1>2. CASE stop
  BY <1>1, <1>2 DEF stop, Running, earlyVars
<1>3. CASE onRtpPacketLate \/ onByeReceived \/ UNCHANGED vars
  BY <1>1, <1>3 DEF onRtpPacketLate, onByeReceived, vars, Running, Waits, sessionVars, feedbackVars, earlyVars, timerVars
<1>4. ASSUME NEW m \in m_vRtcpReportManagers, SendSucceeds(m) \/ SendFails(m) PROVE Running'
  BY <1>1, <1>4 DEF SendSucceeds, SendFails, writeCompletionHandler, onOutgoingRtcp, Running, Waits,
     feedbackVars, earlyVars, timerVars
<1>5. ASSUME NEW m \in m_vRtcpReportManagers, TimerExpires(m) PROVE Running'
  <2>1. /\ m_state' = m_state /\ m_bShuttingDown' = m_bShuttingDown
        /\ m_bEarlyScheduled' = m_bEarlyScheduled /\ m_bAllowEarly' = m_bAllowEarly
        /\ m_vRtcpReportManagers' = m_vRtcpReportManagers
    BY <1>5 DEF TimerExpires, sessionVars, feedbackVars
  <2>2. \A n \in m_vRtcpReportManagers : n # m =>
           m_rtcpTimer'[n] = m_rtcpTimer[n] /\ due'[n] = due[n] /\ ready'[n] = ready[n]
    BY <1>1, <1>5 DEF TimerExpires, TypeOK
  <2>3. ASSUME m_state = "SS_STARTED" PROVE Waits(m)'
    <3>1. /\ m_rtcpTimer[m] = "report" /\ ~due[m]
          /\ ready[m] = <<>> \/ (ready[m] = <<Aborted>> /\ ~m_bAllowEarly[m])
      BY <1>5, <2>3 DEF Running, Waits, TimerExpires
    <3>2. /\ m_rtcpTimer'[m] = "none" /\ ready'[m] = Append(ready[m], Expired)
          /\ due'[m] \/ m_bEarlyScheduled[m]
      BY <1>1, <1>5, <3>1 DEF TimerExpires, TypeOK, Expired
    <3>3. ready'[m] = <<Expired>> \/ (ready'[m] = <<Aborted, Expired>> /\ ~m_bAllowEarly'[m])
      BY <2>1, <3>1, <3>2, AppendToShort
    <3> QED BY <2>1, <3>2, <3>3 DEF Running, Waits
  <2> QED BY <1>1, <2>1, <2>2, <2>3, RunningElsewhere DEF Running
<1>6. ASSUME NEW m \in m_vRtcpReportManagers, onPacketAssumedLost(m) PROVE Running'
  <2>1. CASE UNCHANGED <<timerVars, m_bAllowEarly, m_bEarlyScheduled>>
    BY <1>1, <1>6, <2>1 DEF onPacketAssumedLost, Running, Waits, sessionVars, timerVars
  <2>2. CASE EarlyPossible(m) /\ scheduleEarlyFeedback(m)
    <3>1. /\ m_state' = m_state /\ m_bShuttingDown' = m_bShuttingDown /\ due' = due
          /\ m_vRtcpReportManagers' = m_vRtcpReportManagers
      BY <1>6 DEF onPacketAssumedLost, sessionVars
    <3>2. \A n \in m_vRtcpReportManagers : n # m =>
             /\ m_rtcpTimer'[n] = m_rtcpTimer[n] /\ ready'[n] = ready[n]
             /\ m_bEarlyScheduled'[n] = m_bEarlyScheduled[n] /\ m_bAllowEarly'[n] = m_bAllowEarly[n]
      BY <1>1, <2>2 DEF scheduleEarlyFeedback, TypeOK
    <3>3. /\ m_rtcpTimer'[m] = "report" /\ ready'[m] = Cancelled(m)
          /\ ~m_bAllowEarly'[m] /\ m_bAllowEarly[m] /\ ~due[m]
      BY <1>1, <2>2 DEF scheduleEarlyFeedback, EarlyPossible, TypeOK
    <3>4. ASSUME m_state = "SS_STARTED" PROVE Waits(m)'
      <4>1. ready[m] = <<>> /\ m_rtcpTimer[m] = "report"
        BY <3>3, <3>4 DEF Running, Waits
      <4>2. Cancelled(m) = <<Aborted>>
        BY <4>1, AppendToShort DEF Cancelled, Aborted
      <4> QED BY <3>1, <3>3, <4>2 DEF Waits
    <3> QED BY <1>1, <3>1, <3>2, <3>3, <3>4, RunningElsewhere DEF Running
  <2> QED BY <1>6, <2>1, <2>2 DEF onPacketAssumedLost
<1>7. ASSUME NEW m \in m_vRtcpReportManagers, onRtcpIntervalTimeout(m) PROVE Running'
  <2>1. CASE Finalises(m) /\ finaliseSession(m) /\ UNCHANGED <<feedbackVars, m_bShuttingDown, earlyVars, errors>>
    <3>1. m_bShuttingDown[m] /\ m_state # "SS_STARTED"
      BY <2>1 DEF Finalises, Running
    <3>2. m_state' = m_state
      BY <2>1 DEF finaliseSession, Send, onOutgoingRtcp, sessionVars
    <3> QED BY <1>1, <2>1, <3>1, <3>2 DEF Running, feedbackVars, earlyVars
  <2>2. CASE Report(m)
    <3>1. /\ m_state' = m_state /\ m_bShuttingDown' = m_bShuttingDown
          /\ m_vRtcpReportManagers' = m_vRtcpReportManagers
      BY <2>2 DEF Report, Send, onOutgoingRtcp, sessionVars
    <3>2. \A n \in m_vRtcpReportManagers : n # m =>
             /\ m_rtcpTimer'[n] = m_rtcpTimer[n] /\ ready'[n] = ready[n] /\ due'[n] = due[n]
             /\ m_bEarlyScheduled'[n] = m_bEarlyScheduled[n] /\ m_bAllowEarly'[n] = m_bAllowEarly[n]
      BY <1>1, <2>2 DEF Report, setNextRtcpTimeout, TypeOK
    <3>3. /\ m_rtcpTimer'[m] = "report" /\ ready'[m] = Tail(ready[m]) /\ ~due'[m]
          /\ ~m_bEarlyScheduled'[m] /\ Head(ready[m]) = Expired /\ ready[m] # <<>>
      BY <1>1, <2>2 DEF Report, setNextRtcpTimeout, TypeOK, Expired
    <3>4. ASSUME m_state = "SS_STARTED" PROVE Waits(m)'
      <4>1. \/ ready[m] = <<Aborted>> \/ ready[m] = <<Expired>> \/ ready[m] = <<Aborted, Expired>>
        BY <3>3, <3>4 DEF Running, Waits
      <4>2. ready[m] = <<Expired>>
        BY <3>3, <4>1, HeadTailOfShort, Handlers1
      <4>3. ready'[m] = <<>>
        BY <3>3, <4>2, HeadTailOfShort
      <4> QED BY <3>3, <4>3 DEF Waits
    <3> QED BY <1>1, <3>1, <3>2, <3>3, <3>4, RunningElsewhere DEF Running
  <2>3. CASE /\ ready[m] # <<>> /\ ~Head(ready[m]).ok
             /\ ready' = [ready EXCEPT ![m] = Tail(@)]
             /\ UNCHANGED <<sessionVars, feedbackVars, m_bShuttingDown, earlyVars, m_rtcpTimer,
                            socketVars, errors>>
    <3>1. \A n \in m_vRtcpReportManagers : n # m => ready'[n] = ready[n]
      BY <1>1, <2>3 DEF TypeOK
    <3>2. ready'[m] = Tail(ready[m])
      BY <1>1, <2>3 DEF TypeOK
    <3>3. ASSUME m_state = "SS_STARTED" PROVE Waits(m)'
      <4>1. \/ ready[m] = <<Aborted>> \/ ready[m] = <<Expired>> \/ ready[m] = <<Aborted, Expired>>
        BY <2>3, <3>3 DEF Running, Waits
      <4>2. \/ ready[m] = <<Aborted>> /\ ready'[m] = <<>>
            \/ ready[m] = <<Aborted, Expired>> /\ ready'[m] = <<Expired>>
        <5>1. ready[m] # <<Expired>>
          <6> SUFFICES ASSUME ready[m] = <<Expired>> PROVE FALSE
            OBVIOUS
          <6>1. Head(ready[m]) = Expired
            BY HeadTailOfShort
          <6> QED BY <2>3, <6>1, Handlers1, Zenon
        <5> QED BY <3>2, <4>1, <5>1, HeadTailOfShort
      <4>3. <<Aborted>> # <<Expired>> /\ <<Aborted>> # <<>> /\ <<Aborted>> # <<Aborted, Expired>>
            /\ <<Aborted, Expired>> # <<>> /\ <<Aborted, Expired>> # <<Expired>>
        BY Handlers1
      <4>4. Waits(m) /\ UNCHANGED <<m_rtcpTimer, due, m_bAllowEarly>>
        BY <2>3, <3>3 DEF Running, earlyVars
      <4> QED BY <4>2, <4>3, <4>4 DEF Waits
    <3> QED BY <1>1, <2>3, <3>1, <3>3, RunningElsewhere DEF Running, sessionVars, feedbackVars, earlyVars
  <2> QED BY <1>7, <2>1, <2>2, <2>3 DEF onRtcpIntervalTimeout
<1>8. ASSUME NEW m \in m_vRtcpReportManagers, onScheduleByeTimeout(m) PROVE Running'
  <2>1. m_state # "SS_STARTED"
    <3> SUFFICES ASSUME m_state = "SS_STARTED" PROVE FALSE
      OBVIOUS
    <3>1. \/ ready[m] = <<Aborted>> \/ ready[m] = <<Expired>> \/ ready[m] = <<Aborted, Expired>>
      BY <1>8 DEF Running, Waits, onScheduleByeTimeout
    <3>2. Head(ready[m]).fn = "report"
      BY <3>1, HeadTailOfShort, Handlers1
    <3> QED BY <1>8, <3>2 DEF onScheduleByeTimeout
  <2>2. m_state' = m_state
    BY <1>8 DEF onScheduleByeTimeout, Send, onOutgoingRtcp, sessionVars
  <2> QED BY <1>1, <1>8, <2>1, <2>2 DEF Running, onScheduleByeTimeout, feedbackVars, earlyVars
<1> QED BY <1>2, <1>3, <1>4, <1>5, <1>6, <1>7, <1>8 DEF Next

LEMMA RunningMeansAlive == TypeInv /\ Running => ReportingAlive
<1> SUFFICES ASSUME TypeInv, Running, m_state = "SS_STARTED", NEW m \in m_vRtcpReportManagers
             PROVE  LET posted == {i \in DOMAIN ready[m] : ready[m][i] = Expired}
                    IN IF m_rtcpTimer[m] = "report" THEN posted = {} ELSE Cardinality(posted) = 1
  BY DEF ReportingAlive, Expired
<1> DEFINE posted == {i \in DOMAIN ready[m] : ready[m][i] = Expired}
<1>1. Waits(m)
  BY DEF Running
<1>2. CASE ready[m] = <<>>
  BY <1>1, <1>2 DEF Waits
<1>3. CASE ready[m] = <<Aborted>>
  <2>1. posted = {}
    BY <1>3, Handlers1
  <2>2. <<Aborted>> # <<Expired>> /\ <<Aborted>> # <<Aborted, Expired>>
    BY Handlers1
  <2> QED BY <1>1, <1>3, <2>1, <2>2 DEF Waits
<1>4. CASE ready[m] = <<Expired>>
  <2>1. posted = {1}
    BY <1>4
  <2>2. <<Expired>> # <<Aborted>> /\ <<Expired>> # <<>>
    BY Handlers1
  <2>3. m_rtcpTimer[m] # "report"
    BY <1>1, <1>4, <2>2 DEF Waits
  <2> QED BY <2>1, <2>3, FS_Singleton
<1>5. CASE ready[m] = <<Aborted, Expired>>
  <2>1. posted = {2}
    BY <1>5, Handlers1
  <2>2. <<Aborted, Expired>> # <<Aborted>> /\ <<Aborted, Expired>> # <<>>
    OBVIOUS
  <2>3. m_rtcpTimer[m] # "report"
    BY <1>1, <1>5, <2>2 DEF Waits
  <2> QED BY <2>1, <2>3, FS_Singleton
<1> QED BY <1>1, <1>2, <1>3, <1>4, <1>5 DEF Waits

-----------------------------------------------------------------------------
(* Nothing follows a BYE.                                                  *)

\* What a send does to the queues.
LEMMA SendQueue ==
  ASSUME TypeInv, QueueInv, NEW m \in m_vRtcpReportManagers, NEW p \in Packets, Send(m, p),
         m_vRtcpReportManagers' = m_vRtcpReportManagers,
         p = "report" => m_state = "SS_STARTED",
         p = "bye" => m_state # "SS_STARTED"
  PROVE  QueueInv'
<1>1. m_vRtcpReportManagers \in SUBSET Managers /\ m_vDeliveryQueue \in [Managers -> Seq(Packets)]
  BY DEF TypeInv, TypeOK
<1>2. m_state' = m_state
  BY DEF Send, onOutgoingRtcp, sessionVars
<1>3. CASE ~open
  BY <1>2, <1>3 DEF Send, socketVars, QueueInv
<1>4. CASE open
  <2>1. m_vDeliveryQueue' = [m_vDeliveryQueue EXCEPT ![m] = Append(@, p)]
    BY <1>4 DEF Send
  <2>2. /\ InOrder(Append(m_vDeliveryQueue[m], p))
        /\ m_state = "SS_STARTED" => Only(Append(m_vDeliveryQueue[m], p), "report")
    BY <1>1, AppendReport, AppendBye DEF QueueInv, Packets
  <2> QED BY <1>1, <1>2, <2>1, <2>2 DEF QueueInv
<1> QED BY <1>3, <1>4

LEMMA StepQueue ==
  ASSUME TypeInv, Running, QueueInv, [Next]_vars
  PROVE  QueueInv'
<1>1. m_vRtcpReportManagers \in SUBSET Managers /\ m_vDeliveryQueue \in [Managers -> Seq(Packets)]
  BY DEF TypeInv, TypeOK
<1>2. CASE stop
  BY <1>2 DEF stop, QueueInv, socketVars
<1>3. CASE \/ onRtpPacketLate \/ onByeReceived \/ UNCHANGED vars
           \/ \E m \in m_vRtcpReportManagers : TimerExpires(m) \/ onPacketAssumedLost(m)
  BY <1>3 DEF onRtpPacketLate, onByeReceived, vars, TimerExpires, onPacketAssumedLost, QueueInv,
     sessionVars, feedbackVars, socketVars
<1>4. ASSUME NEW m \in m_vRtcpReportManagers, SendSucceeds(m) \/ SendFails(m) PROVE QueueInv'
  <2>1. /\ m_vDeliveryQueue' = [m_vDeliveryQueue EXCEPT ![m] = Tail(@)] /\ m_state' = m_state
        /\ m_vRtcpReportManagers' = m_vRtcpReportManagers /\ writing[m]
    BY <1>4 DEF SendSucceeds, SendFails, writeCompletionHandler, onOutgoingRtcp, feedbackVars
  <2>2. m_vDeliveryQueue[m] # <<>>
    BY <1>1, <2>1 DEF TypeInv, WritingQueued
  <2>3. /\ InOrder(Tail(m_vDeliveryQueue[m]))
        /\ m_state = "SS_STARTED" => Only(Tail(m_vDeliveryQueue[m]), "report")
    BY <1>1, <2>2, TailOfQueue DEF QueueInv, Packets
  <2> QED BY <1>1, <2>1, <2>3 DEF QueueInv
<1>5. ASSUME NEW m \in m_vRtcpReportManagers, onRtcpIntervalTimeout(m) PROVE QueueInv'
  <2>1. CASE Finalises(m) /\ finaliseSession(m) /\ UNCHANGED feedbackVars
    <3>1. m_state # "SS_STARTED" /\ m_vRtcpReportManagers' = m_vRtcpReportManagers
      BY <2>1 DEF Finalises, Running, feedbackVars
    <3>2. CASE Send(m, "bye")
      BY <3>1, <3>2, SendQueue DEF Packets
    <3>3. CASE UNCHANGED <<sessionVars, socketVars>>
      BY <3>1, <3>3 DEF QueueInv, sessionVars, socketVars
    <3> QED BY <2>1, <3>2, <3>3 DEF finaliseSession
  <2>2. CASE Report(m)
    <3>1. m_state = "SS_STARTED" /\ m_vRtcpReportManagers' = m_vRtcpReportManagers
      BY <1>1, <2>2 DEF Report, Finalises, Running, TypeInv, TypeOK
    <3>2. CASE Send(m, "report")
      BY <3>1, <3>2, SendQueue DEF Packets
    <3>3. CASE UNCHANGED <<sessionVars, socketVars>>
      BY <3>1, <3>3 DEF QueueInv, sessionVars, socketVars
    <3> QED BY <2>2, <3>2, <3>3 DEF Report
  <2>3. CASE UNCHANGED <<sessionVars, feedbackVars, socketVars>>
    BY <2>3 DEF QueueInv, sessionVars, feedbackVars, socketVars
  <2> QED BY <1>5, <2>1, <2>2, <2>3 DEF onRtcpIntervalTimeout
<1>6. ASSUME NEW m \in m_vRtcpReportManagers, onScheduleByeTimeout(m) PROVE QueueInv'
  <2>1. m_state # "SS_STARTED"
    <3> SUFFICES ASSUME m_state = "SS_STARTED" PROVE FALSE
      OBVIOUS
    <3>1. \/ ready[m] = <<Aborted>> \/ ready[m] = <<Expired>> \/ ready[m] = <<Aborted, Expired>>
      BY <1>6 DEF Running, Waits, onScheduleByeTimeout
    <3>2. Head(ready[m]).fn = "report"
      BY <3>1, HeadTailOfShort, Handlers1
    <3> QED BY <1>6, <3>2 DEF onScheduleByeTimeout
  <2> QED BY <1>6, <2>1, SendQueue DEF onScheduleByeTimeout, Packets, feedbackVars
<1> QED BY <1>2, <1>3, <1>4, <1>5, <1>6 DEF Next

LEMMA RunInvInductive ==
  /\ Init => TypeInv /\ Running /\ QueueInv
  /\ TypeInv /\ Running /\ QueueInv /\ [Next]_vars => (TypeInv /\ Running /\ QueueInv)'
  BY InitTypeInv, StepTypeInv, InitRunning, StepRunning, StepQueue

\* While the session runs every manager has exactly one way on to its next report.
THEOREM ReportingAliveAlways == Spec => []ReportingAlive
  BY RunInvInductive, RunningMeansAlive, PTL DEF Spec

\* No report follows a BYE in a send queue.
THEOREM ByeIsLastAlways == Spec => []ByeIsLast
<1>1. QueueInv => ByeIsLast
  BY DEF QueueInv, ByeIsLast, InOrder
<1> QED BY RunInvInductive, <1>1, PTL DEF Spec

-----------------------------------------------------------------------------
(* The end of a single path session.                                       *)

LEMMA SingleMeans ==
  ASSUME TypeOK, Sessions, ~Multipath
  PROVE  /\ Cardinality(m_vRtcpReportManagers) = 1
         /\ \A m, n \in m_vRtcpReportManagers : m = n
<1>1. IsFiniteSet(m_vRtcpReportManagers)
  BY ReportingAssumption, FS_Subset DEF TypeOK
<1>2. Cardinality(m_vRtcpReportManagers) \in Nat /\ Cardinality(m_vRtcpReportManagers) # 0
  BY <1>1, FS_CardinalityType, FS_EmptySet DEF Sessions
<1>3. Cardinality(m_vRtcpReportManagers) = 1
  BY <1>2 DEF Multipath
<1> QED BY <1>1, <1>3, FS_Singleton

LEMMA OutgoingSingle ==
  ASSUME TypeInv, Sessions, SinglePath, ~Multipath, NEW m, NEW p \in Packets, onOutgoingRtcp(m, p),
         p = "report" => open
  PROVE  /\ open /\ p = "report" => m_uiByeSentCount' = 0 /\ completed' = 0 /\ open'
         /\ p = "bye" \/ ~open => m_uiByeSentCount' >= 1 /\ completed' = 1 /\ ~open'
<1>1. Cardinality(m_vRtcpReportManagers) = 1
  BY SingleMeans DEF TypeInv
<1>2. CASE open /\ p = "report"
  <2>1. m_uiByeSentCount = 0 /\ completed = 0
    BY <1>2 DEF SinglePath
  <2>2. m_uiByeSentCount' = 0 /\ completed' = 0
    BY <1>1, <1>2, <2>1 DEF onOutgoingRtcp, AllByesSent
  <2>3. ~AllByesSent(m_uiByeSentCount')
    BY <1>1, <2>2 DEF AllByesSent
  <2>4. open' = (open /\ ~AllByesSent(m_uiByeSentCount'))
    BY DEF onOutgoingRtcp
  <2>5. open'
    BY <1>2, <2>3, <2>4, Zenon
  <2> QED BY <1>2, <2>2, <2>5
<1>3. CASE open /\ p = "bye"
  <2>1. m_uiByeSentCount = 0 /\ completed = 0
    BY <1>3 DEF SinglePath
  <2>2. m_uiByeSentCount' = 1 /\ completed' = 1
    BY <1>1, <1>3, <2>1 DEF onOutgoingRtcp, AllByesSent
  <2>3. AllByesSent(m_uiByeSentCount')
    BY <1>1, <2>2 DEF AllByesSent
  <2>4. open' = (open /\ ~AllByesSent(m_uiByeSentCount'))
    BY DEF onOutgoingRtcp
  <2>5. ~open'
    BY <2>3, <2>4, Zenon
  <2> QED BY <1>3, <2>2, <2>5
<1>4. CASE ~open /\ p = "bye"
  <2>1. m_uiByeSentCount \in Nat /\ m_uiByeSentCount >= 1 /\ completed = 1
    BY <1>4 DEF SinglePath, TypeInv, TypeOK
  <2>2. m_uiByeSentCount' >= 1 /\ completed' = 1
    BY <1>1, <1>4, <2>1 DEF onOutgoingRtcp, AllByesSent
  <2>3. ~open'
    BY <1>4 DEF onOutgoingRtcp
  <2> QED BY <1>4, <2>2, <2>3
<1> QED BY <1>2, <1>3, <1>4 DEF Packets

LEMMA SendSingle ==
  ASSUME TypeInv, Sessions, SinglePath, QueueInv, NEW m \in m_vRtcpReportManagers, NEW p \in Packets,
         Send(m, p), m_vRtcpReportManagers' = m_vRtcpReportManagers,
         p = "report" => m_state = "SS_STARTED"
  PROVE  SinglePath'
<1> SUFFICES ASSUME ~Multipath PROVE SinglePath'
  BY DEF SinglePath, Multipath
<1>1. CASE open
  BY <1>1 DEF SinglePath, Send, sessionVars, Multipath
<1>2. CASE ~open
  <2>1. p = "bye" /\ m_state = "SS_SHUTTING_DOWN"
    BY <1>2 DEF SinglePath, Packets
  <2>2. onOutgoingRtcp(m, p) /\ UNCHANGED socketVars
    BY <1>2 DEF Send
  <2>3. m_uiByeSentCount' >= 1 /\ completed' = 1 /\ ~open'
    BY <2>1, <2>2, OutgoingSingle
  <2>4. m_state' = m_state
    BY <2>2 DEF onOutgoingRtcp
  <2> QED BY <1>2, <2>1, <2>2, <2>3, <2>4 DEF SinglePath, socketVars
<1> QED BY <1>1, <1>2

LEMMA WriteSingle ==
  ASSUME TypeInv, Sessions, SinglePath, QueueInv, NEW m \in m_vRtcpReportManagers,
         NEW ok \in BOOLEAN, writeCompletionHandler(m, ok)
  PROVE  SinglePath'
<1> DEFINE q == m_vDeliveryQueue[m]
<1>1. m \in Managers /\ q \in Seq(Packets) /\ q # <<>>
  BY DEF TypeInv, TypeOK, WritingQueued, writeCompletionHandler
<1>2. Head(q) \in Packets
  BY <1>1, TailFacts
<1>3. /\ m_vDeliveryQueue' = [m_vDeliveryQueue EXCEPT ![m] = Tail(@)] /\ onOutgoingRtcp(m, Head(q))
      /\ m_vRtcpReportManagers' = m_vRtcpReportManagers /\ m_state' = m_state
  BY DEF writeCompletionHandler, onOutgoingRtcp, feedbackVars
<1> SUFFICES ASSUME ~Multipath PROVE SinglePath'
  BY <1>3 DEF SinglePath, Multipath
<1>4. m_vDeliveryQueue'[m] = Tail(q) /\ \A n \in m_vRtcpReportManagers : n = m
  BY <1>1, <1>3, SingleMeans DEF TypeInv, TypeOK
<1>5. CASE open /\ Head(q) = "report"
  <2>1. m_uiByeSentCount' = 0 /\ completed' = 0 /\ open'
    BY <1>2, <1>3, <1>5, OutgoingSingle
  <2> QED BY <2>1 DEF SinglePath
<1>6. CASE ~open
  <2>1. Only(q, "bye") /\ m_state = "SS_SHUTTING_DOWN"
    BY <1>6 DEF SinglePath, Only
  <2>2. Head(q) = "bye" /\ Only(Tail(q), "bye")
    BY <1>1, <2>1, TailOfQueue DEF Packets
  <2>3. m_uiByeSentCount' >= 1 /\ completed' = 1 /\ ~open'
    BY <1>2, <1>3, <2>2, OutgoingSingle DEF Packets
  <2> QED BY <1>3, <1>4, <2>1, <2>2, <2>3 DEF SinglePath, Only
<1>7. CASE open /\ Head(q) = "bye"
  <2>1. InOrder(q) /\ (m_state = "SS_STARTED" => Only(q, "report"))
    BY DEF QueueInv
  <2>2. Only(Tail(q), "bye") /\ m_state = "SS_SHUTTING_DOWN"
    BY <1>1, <1>7, <2>1, TailOfQueue DEF Packets, TypeInv, TypeOK
  <2>3. m_uiByeSentCount' >= 1 /\ completed' = 1 /\ ~open'
    BY <1>2, <1>3, <1>7, OutgoingSingle
  <2> QED BY <1>3, <1>4, <2>2, <2>3 DEF SinglePath, Only
<1> QED BY <1>2, <1>5, <1>6, <1>7 DEF Packets

LEMMA InitSingle == Init => Sessions /\ SinglePath
<1> SUFFICES ASSUME Init PROVE Sessions /\ SinglePath
  OBVIOUS
<1>1. m_uiByeSentCount = 0 /\ completed = 0 /\ open
  BY Zenon DEF Init
<1>2. m_vRtcpReportManagers # {}
  BY DEF Init
<1> QED BY <1>1, <1>2, Zenon DEF Sessions, SinglePath

LEMMA StepSingle ==
  ASSUME TypeInv, Running, QueueInv, Sessions, SinglePath, [Next]_vars
  PROVE  (Sessions /\ SinglePath)'
<1>1. m_vRtcpReportManagers' = m_vRtcpReportManagers
  BY DEF Next, stop, onRtpPacketLate, onByeReceived, TimerExpires, onRtcpIntervalTimeout, Report,
     onScheduleByeTimeout, SendSucceeds, SendFails, writeCompletionHandler, onPacketAssumedLost,
     feedbackVars, vars
<1>2. Sessions'
  BY <1>1 DEF Sessions
<1>3. CASE UNCHANGED <<sessionVars, socketVars>>
  BY <1>1, <1>2, <1>3 DEF SinglePath, Multipath, sessionVars, socketVars
<1>4. CASE stop
  BY <1>1, <1>2, <1>4 DEF stop, SinglePath, Multipath, socketVars
<1>5. ASSUME NEW m \in m_vRtcpReportManagers, SendSucceeds(m) \/ SendFails(m) PROVE SinglePath'
  BY <1>5, WriteSingle DEF SendSucceeds, SendFails
<1>6. ASSUME NEW m \in m_vRtcpReportManagers, Report(m), Send(m, "report") PROVE SinglePath'
  <2>1. m_state = "SS_STARTED"
    BY <1>6 DEF Report, Finalises, Running, TypeInv, TypeOK
  <2> QED BY <1>1, <1>6, <2>1, SendSingle DEF Packets
<1>7. ASSUME NEW m \in m_vRtcpReportManagers, Send(m, "bye") PROVE SinglePath'
  BY <1>1, <1>7, SendSingle DEF Packets
<1>8. \/ UNCHANGED <<sessionVars, socketVars>> \/ stop
      \/ \E m \in m_vRtcpReportManagers :
           SendSucceeds(m) \/ SendFails(m) \/ (Report(m) /\ Send(m, "report")) \/ Send(m, "bye")
  <2>1. CASE onRtpPacketLate \/ onByeReceived \/ stop \/ UNCHANGED vars
    BY <2>1 DEF onRtpPacketLate, onByeReceived, vars
  <2>2. ASSUME NEW m \in m_vRtcpReportManagers, TimerExpires(m) \/ onPacketAssumedLost(m)
        PROVE  UNCHANGED <<sessionVars, socketVars>>
    BY <2>2 DEF TimerExpires, onPacketAssumedLost
  <2>3. ASSUME NEW m \in m_vRtcpReportManagers, onRtcpIntervalTimeout(m)
        PROVE  UNCHANGED <<sessionVars, socketVars>> \/ (Report(m) /\ Send(m, "report")) \/ Send(m, "bye")
    BY <2>3 DEF onRtcpIntervalTimeout, finaliseSession, Report
  <2>4. ASSUME NEW m \in m_vRtcpReportManagers, onScheduleByeTimeout(m) PROVE Send(m, "bye")
    BY <2>4 DEF onScheduleByeTimeout
  <2> QED BY <2>1, <2>2, <2>3, <2>4 DEF Next
<1> QED BY <1>2, <1>3, <1>4, <1>5, <1>6, <1>7, <1>8

-----------------------------------------------------------------------------
(* The end of a session without loss detection.                            *)

LEMMA AppendOneBye ==
  ASSUME NEW q \in Seq(Packets), Only(q, "report")
  PROVE  ByeQueued(Append(q, "bye"))
<1>1. /\ Len(Append(q, "bye")) = Len(q) + 1 /\ Append(q, "bye") \in Seq(Packets)
      /\ \A i \in 1..Len(q) : Append(q, "bye")[i] = q[i]
      /\ Append(q, "bye")[Len(q) + 1] = "bye" /\ Append(q, "bye") # <<>>
  BY AppendFacts DEF Packets
<1>2. Len(q) \in Nat /\ DOMAIN q = 1..Len(q) /\ DOMAIN Append(q, "bye") = 1..(Len(q) + 1)
  BY <1>1
<1> QED BY <1>1, <1>2 DEF ByeQueued, Only

LEMMA TailOneBye ==
  ASSUME NEW q \in Seq(Packets), ByeQueued(q)
  PROVE  /\ Head(q) = "report" => ByeQueued(Tail(q))
         /\ Head(q) = "bye" => Tail(q) = <<>>
<1>1. /\ Head(q) = q[1] /\ Len(q) > 0 /\ Tail(q) \in Seq(Packets) /\ Len(Tail(q)) = Len(q) - 1
      /\ \A i \in 1..(Len(q) - 1) : Tail(q)[i] = q[i + 1]
  BY TailFacts DEF ByeQueued
<1>2. Len(q) \in Nat /\ DOMAIN q = 1..Len(q) /\ DOMAIN Tail(q) = 1..(Len(q) - 1)
  BY <1>1
<1>3. ASSUME Head(q) = "bye" PROVE Tail(q) = <<>>
  <2>1. Len(q) = 1
    BY <1>1, <1>2, <1>3 DEF ByeQueued
  <2>2. Len(Tail(q)) = 0
    BY <1>1, <2>1
  <2> QED BY <1>1, <2>2, EmptySeq, Zenon
<1>4. ASSUME Head(q) = "report" PROVE ByeQueued(Tail(q))
  <2>1. Len(q) # 1
    BY <1>1, <1>2, <1>4 DEF ByeQueued
  <2>2. Tail(q) # <<>>
    <3>1. Len(Tail(q)) # 0
      BY <1>1, <1>2, <2>1
    <3> QED BY <1>1, <3>1, EmptySeq, Zenon
  <2>3. ASSUME NEW i \in 1..(Len(q) - 1) PROVE Tail(q)[i] = "bye" <=> i = Len(q) - 1
    <3>1. i + 1 \in DOMAIN q /\ Tail(q)[i] = q[i + 1]
      BY <1>1, <1>2
    <3>2. q[i + 1] = "bye" <=> i + 1 = Len(q)
      BY <3>1 DEF ByeQueued
    <3>3. i + 1 = Len(q) <=> i = Len(q) - 1
      BY <1>2
    <3> QED BY <3>1, <3>2, <3>3, Zenon
  <2> QED BY <1>1, <1>2, <2>2, <2>3 DEF ByeQueued
<1> QED BY <1>3, <1>4

LEMMA OutgoingCounted ==
  ASSUME TypeInv, CountRight, NEW m \in m_vRtcpReportManagers, m \notin byeEnded,
         NEW p \in Packets, onOutgoingRtcp(m, p), m_vRtcpReportManagers' = m_vRtcpReportManagers
  PROVE  CountRight' /\ byeEnded' = IF p = "bye" THEN byeEnded \cup {m} ELSE byeEnded
<1> DEFINE N == m_vRtcpReportManagers
           B == byeEnded'
<1>1. IsFiniteSet(N) /\ IsFiniteSet(byeEnded)
  BY ReportingAssumption, FS_Subset DEF TypeInv, TypeOK, CountRight
<1>2. B = IF p = "bye" THEN byeEnded \cup {m} ELSE byeEnded
  BY DEF onOutgoingRtcp
<1>3. B \in SUBSET N
  BY <1>2 DEF CountRight
<1>4. Cardinality(byeEnded) \in Nat /\ Cardinality(byeEnded \cup {m}) = Cardinality(byeEnded) + 1
  BY <1>1, FS_CardinalityType, FS_AddElement
<1>5. m_uiByeSentCount' = Cardinality(B)
  BY <1>2, <1>4 DEF onOutgoingRtcp, CountRight
<1>6. AllByesSent(m_uiByeSentCount') <=> B = N
  BY <1>1, <1>3, <1>5, FS_Subset DEF AllByesSent
<1>7. completed = 0 /\ open
  BY DEF CountRight
<1>8. /\ open' = (open /\ ~AllByesSent(m_uiByeSentCount'))
      /\ completed' = IF AllByesSent(m_uiByeSentCount') THEN completed + 1 ELSE completed
  BY DEF onOutgoingRtcp
<1>9. completed' = IF B = N THEN 1 ELSE 0
  BY <1>6, <1>7, <1>8
<1>10. open' <=> B # N
  BY <1>6, <1>7, <1>8, Zenon
<1> QED BY <1>2, <1>3, <1>5, <1>9, <1>10 DEF CountRight

\* A step of another manager.
LEMMA OneByeElsewhere ==
  ASSUME NEW n \in Managers, OneBye(n), NeverEarly(n), m_bShuttingDown' = m_bShuttingDown,
         n \in byeEnded' <=> n \in byeEnded, m_vDeliveryQueue'[n] = m_vDeliveryQueue[n],
         m_rtcpTimer'[n] = m_rtcpTimer[n], ready'[n] = ready[n],
         m_bAllowEarly'[n] = m_bAllowEarly[n], m_bEarlyScheduled'[n] = m_bEarlyScheduled[n]
  PROVE  NeverEarly(n)' /\ OneBye(n)'
  BY DEF OneBye, NeverEarly

LEMMA InitCounted == Init => Counted
<1> SUFFICES ASSUME Init, predictor = "none" PROVE Counted
  BY DEF Counted
<1>1. ~detecting /\ open /\ byeEnded = {} /\ m_uiByeSentCount = 0 /\ completed = 0
  BY Zenon DEF Init
<1>2. CountRight
  <2>1. m_vRtcpReportManagers # {} /\ Cardinality({}) = 0
    BY FS_EmptySet DEF Init
  <2> QED BY <1>1, <2>1 DEF CountRight
<1>3. \A m \in m_vRtcpReportManagers : NeverEarly(m) /\ OneBye(m)
  BY <1>1 DEF Init, NeverEarly, OneBye
<1> QED BY <1>1, <1>2, <1>3 DEF Counted

\* A send of a manager whose BYE has not left finds the interface open.
LEMMA SendCounted ==
  ASSUME CountRight, NEW m \in m_vRtcpReportManagers, m \notin byeEnded, NEW p, Send(m, p)
  PROVE  /\ m_vDeliveryQueue' = [m_vDeliveryQueue EXCEPT ![m] = Append(@, p)]
         /\ UNCHANGED sessionVars
<1>1. open
  BY DEF CountRight
<1> QED BY <1>1 DEF Send

LEMMA WriteCounted ==
  ASSUME TypeInv, Running, QueueInv, Counted, predictor = "none", NEW m \in m_vRtcpReportManagers,
         NEW ok \in BOOLEAN, writeCompletionHandler(m, ok)
  PROVE  Counted'
<1> DEFINE q == m_vDeliveryQueue[m]
<1>1. m \in Managers /\ q \in Seq(Packets) /\ q # <<>>
  BY DEF TypeInv, TypeOK, WritingQueued, writeCompletionHandler
<1>2. Head(q) \in Packets
  BY <1>1, TailFacts
<1>3. /\ m_vDeliveryQueue' = [m_vDeliveryQueue EXCEPT ![m] = Tail(@)] /\ onOutgoingRtcp(m, Head(q))
      /\ UNCHANGED <<m_vRtcpReportManagers, predictor, detecting, m_bShuttingDown, m_bAllowEarly,
                     m_bEarlyScheduled, m_rtcpTimer, ready>>
  BY DEF writeCompletionHandler, feedbackVars, earlyVars, timerVars
<1>4. ~detecting /\ CountRight /\ \A n \in m_vRtcpReportManagers : NeverEarly(n) /\ OneBye(n)
  BY DEF Counted
<1>5. m \notin byeEnded
  BY <1>1, <1>4 DEF OneBye
<1>6. CountRight' /\ byeEnded' = IF Head(q) = "bye" THEN byeEnded \cup {m} ELSE byeEnded
  BY <1>2, <1>3, <1>4, <1>5, OutgoingCounted
<1>7. m_vDeliveryQueue'[m] = Tail(q) /\ \A n \in Managers : n # m => m_vDeliveryQueue'[n] = m_vDeliveryQueue[n]
  BY <1>1, <1>3 DEF TypeInv, TypeOK
<1>8. OneBye(m)'
  <2>1. CASE ~m_bShuttingDown[m]
    <3>1. Only(q, "report")
      BY <2>1 DEF Running, QueueInv, TypeInv, TypeOK
    <3>2. Head(q) = "report"
      BY <1>1, <3>1, TailOfQueue DEF Packets
    <3> QED BY <1>3, <1>5, <1>6, <2>1, <3>2 DEF OneBye
  <2>2. CASE m_bShuttingDown[m] /\ Only(q, "report")
             /\ \/ m_rtcpTimer[m] = "none" /\ Len(ready[m]) = 1
                \/ m_rtcpTimer[m] = "bye" /\ ready[m] = <<>>
    <3>1. Head(q) = "report" /\ Only(Tail(q), "report")
      BY <1>1, <2>2, TailOfQueue DEF Packets
    <3>2. m \notin byeEnded'
      BY <1>5, <1>6, <3>1
    <3> QED BY <1>3, <1>7, <2>2, <3>1, <3>2 DEF OneBye
  <2>3. CASE m_bShuttingDown[m] /\ m_rtcpTimer[m] = "none" /\ ready[m] = <<>> /\ ByeQueued(q)
    <3>1. Head(q) = "report" => ByeQueued(Tail(q)) /\ m \notin byeEnded'
      BY <1>1, <1>5, <1>6, <2>3, TailOneBye
    <3>2. Head(q) = "bye" => Tail(q) = <<>> /\ m \in byeEnded'
      BY <1>1, <1>6, <2>3, TailOneBye
    <3> QED BY <1>2, <1>3, <1>7, <2>3, <3>1, <3>2 DEF OneBye, Packets
  <2> QED BY <1>1, <1>4, <1>5, <2>1, <2>2, <2>3 DEF OneBye
<1>9. NeverEarly(m)'
  BY <1>3, <1>4 DEF NeverEarly
<1>10. ASSUME NEW n \in m_vRtcpReportManagers, n # m PROVE NeverEarly(n)' /\ OneBye(n)'
  <2>1. n \in Managers /\ (n \in byeEnded' <=> n \in byeEnded)
    BY <1>6, <1>10 DEF TypeInv, TypeOK
  <2> QED BY <1>3, <1>4, <1>7, <1>10, <2>1, OneByeElsewhere
<1> QED BY <1>3, <1>4, <1>6, <1>8, <1>9, <1>10 DEF Counted

\* The BYE of a manager joins the queue.
LEMMA ByeCounted ==
  ASSUME TypeInv, Counted, predictor = "none", NEW m \in m_vRtcpReportManagers,
         m_bShuttingDown[m], ready[m] # <<>>, Send(m, "bye"),
         ready' = [ready EXCEPT ![m] = Tail(@)],
         UNCHANGED <<m_vRtcpReportManagers, predictor, detecting, m_bShuttingDown, m_bAllowEarly,
                     m_bEarlyScheduled, m_rtcpTimer>>
  PROVE  Counted'
<1>1. ~detecting /\ CountRight /\ \A n \in m_vRtcpReportManagers : NeverEarly(n) /\ OneBye(n)
  BY DEF Counted
<1>2. /\ m \in Managers /\ m_vDeliveryQueue[m] \in Seq(Packets) /\ ready[m] \in Seq(Handlers)
  BY DEF TypeInv, TypeOK
<1>3. /\ m \notin byeEnded /\ Only(m_vDeliveryQueue[m], "report")
      /\ m_rtcpTimer[m] = "none" /\ Len(ready[m]) = 1
  BY <1>1 DEF OneBye
<1>4. /\ m_vDeliveryQueue' = [m_vDeliveryQueue EXCEPT ![m] = Append(@, "bye")]
      /\ UNCHANGED sessionVars
  BY <1>1, <1>3, SendCounted
<1>5. Tail(ready[m]) = <<>>
  <2>1. Tail(ready[m]) \in Seq(Handlers) /\ Len(Tail(ready[m])) = 0
    BY <1>2, <1>3, TailFacts
  <2> QED BY <2>1, EmptySeq, Zenon
<1>6. /\ ready'[m] = <<>> /\ ByeQueued(m_vDeliveryQueue'[m])
  BY <1>2, <1>3, <1>4, <1>5, AppendOneBye DEF TypeInv, TypeOK
<1>7. OneBye(m)' /\ NeverEarly(m)'
  BY <1>1, <1>3, <1>4, <1>6 DEF OneBye, NeverEarly, sessionVars
<1>8. ASSUME NEW n \in m_vRtcpReportManagers, n # m PROVE NeverEarly(n)' /\ OneBye(n)'
  <2>1. n \in Managers /\ ready'[n] = ready[n] /\ m_vDeliveryQueue'[n] = m_vDeliveryQueue[n]
    BY <1>4, <1>8 DEF TypeInv, TypeOK
  <2> QED BY <1>1, <1>4, <2>1, OneByeElsewhere DEF sessionVars
<1> QED BY <1>1, <1>4, <1>7, <1>8 DEF Counted, CountRight, sessionVars

LEMMA StepCounted ==
  ASSUME TypeInv, Running, QueueInv, Counted, predictor = "none", [Next]_vars
  PROVE  Counted'
<1>1. ~detecting /\ CountRight /\ \A n \in m_vRtcpReportManagers : NeverEarly(n) /\ OneBye(n)
  BY DEF Counted
<1>2. m_vRtcpReportManagers \in SUBSET Managers
  BY DEF TypeInv, TypeOK
<1>3. CASE stop
  <2>1. /\ UNCHANGED <<m_uiByeSentCount, open, completed, byeEnded, m_vRtcpReportManagers, predictor,
                       m_bAllowEarly, m_bEarlyScheduled, m_vDeliveryQueue>>
        /\ detecting' = FALSE /\ m_state = "SS_STARTED"
        /\ m_bShuttingDown' = [m \in Managers |-> m \in m_vRtcpReportManagers]
        /\ ready' = [m \in Managers |-> Cancelled(m)]
        /\ m_rtcpTimer' = [m \in Managers |-> "none"]
    BY <1>3 DEF stop, earlyVars, socketVars
  <2>2. ASSUME NEW n \in m_vRtcpReportManagers PROVE NeverEarly(n)' /\ OneBye(n)'
    <3>1. Waits(n) /\ m_bAllowEarly[n] /\ ~m_bShuttingDown[n]
      BY <1>1, <2>1 DEF Running, NeverEarly
    <3>2. Cancelled(n) = <<Aborted>> \/ Cancelled(n) = <<Expired>>
      BY <3>1, AppendToShort DEF Waits, Cancelled, Aborted
    <3>3. Len(Cancelled(n)) = 1
      BY <3>2
    <3>4. n \in Managers /\ n \notin byeEnded /\ Only(m_vDeliveryQueue[n], "report")
      BY <1>1, <1>2, <2>1, <3>1 DEF OneBye, QueueInv
    <3> QED BY <1>1, <2>1, <3>3, <3>4 DEF OneBye, NeverEarly
  <2>3. CountRight'
    BY <1>1, <2>1 DEF CountRight
  <2> QED BY <2>1, <2>2, <2>3 DEF Counted
<1>4. CASE onRtpPacketLate \/ onByeReceived \/ \E m \in m_vRtcpReportManagers : onPacketAssumedLost(m)
  BY <1>1, <1>4 DEF onRtpPacketLate, onByeReceived, onPacketAssumedLost
<1>5. CASE UNCHANGED vars
  BY <1>5 DEF vars, sessionVars, feedbackVars, earlyVars, timerVars, socketVars, Counted, CountRight,
     NeverEarly, OneBye
<1>6. ASSUME NEW m \in m_vRtcpReportManagers, TimerExpires(m) PROVE Counted'
  <2>1. /\ UNCHANGED <<m_uiByeSentCount, open, completed, byeEnded, m_vRtcpReportManagers, predictor,
                       detecting, m_bShuttingDown, m_bAllowEarly, m_bEarlyScheduled, m_vDeliveryQueue>>
        /\ m_rtcpTimer[m] # "none"
    BY <1>6 DEF TimerExpires, sessionVars, feedbackVars, socketVars
  <2>2. /\ m_rtcpTimer'[m] = "none" /\ ready'[m] = Append(ready[m], Handler(m_rtcpTimer[m], TRUE))
        /\ \A n \in Managers : n # m => m_rtcpTimer'[n] = m_rtcpTimer[n] /\ ready'[n] = ready[n]
    BY <1>2, <1>6 DEF TimerExpires, TypeInv, TypeOK
  <2>3. OneBye(m)'
    <3>1. CASE ~m_bShuttingDown[m] /\ m \notin byeEnded
      BY <2>1, <3>1 DEF OneBye
    <3>2. CASE m_bShuttingDown[m]
      <4>1. /\ m \notin byeEnded /\ Only(m_vDeliveryQueue[m], "report") /\ ready[m] = <<>>
        BY <1>1, <2>1, <3>2 DEF OneBye
      <4>2. ready'[m] = <<Handler(m_rtcpTimer[m], TRUE)>>
        BY <2>2, <4>1, AppendToShort
      <4>3. Len(ready'[m]) = 1
        BY <4>2
      <4> QED BY <2>1, <2>2, <3>2, <4>1, <4>3 DEF OneBye
    <3> QED BY <1>1, <3>1, <3>2 DEF OneBye
  <2>4. ASSUME NEW n \in m_vRtcpReportManagers, n # m PROVE OneBye(n)'
    BY <1>1, <1>2, <2>1, <2>2, <2>4 DEF OneBye
  <2> QED BY <1>1, <2>1, <2>3, <2>4 DEF Counted, CountRight, NeverEarly
<1>7. ASSUME NEW m \in m_vRtcpReportManagers, SendSucceeds(m) \/ SendFails(m) PROVE Counted'
  BY <1>7, WriteCounted DEF SendSucceeds, SendFails
<1>8. ASSUME NEW m \in m_vRtcpReportManagers, onScheduleByeTimeout(m) PROVE Counted'
  <2>1. m_state # "SS_STARTED"
    <3> SUFFICES ASSUME m_state = "SS_STARTED" PROVE FALSE
      OBVIOUS
    <3>1. \/ ready[m] = <<Aborted>> \/ ready[m] = <<Expired>> \/ ready[m] = <<Aborted, Expired>>
      BY <1>8 DEF Running, Waits, onScheduleByeTimeout
    <3>2. Head(ready[m]).fn = "report"
      BY <3>1, HeadTailOfShort, Handlers1
    <3> QED BY <1>8, <3>2 DEF onScheduleByeTimeout
  <2>2. m_bShuttingDown[m]
    BY <2>1 DEF Running, TypeInv, TypeOK
  <2> QED BY <1>8, <2>2, ByeCounted DEF onScheduleByeTimeout, feedbackVars, earlyVars
<1>9. ASSUME NEW m \in m_vRtcpReportManagers, onRtcpIntervalTimeout(m) PROVE Counted'
  <2>1. ready[m] # <<>>
    BY <1>9 DEF onRtcpIntervalTimeout
  <2>2. ASSUME Finalises(m), finaliseSession(m), UNCHANGED <<feedbackVars, m_bShuttingDown, earlyVars>>
        PROVE  Counted'
    <3>1. CASE Send(m, "bye") /\ ready' = [ready EXCEPT ![m] = Tail(@)] /\ UNCHANGED m_rtcpTimer
      BY <2>1, <2>2, <3>1, ByeCounted DEF Finalises, feedbackVars, earlyVars
    <3>2. CASE /\ ready' = [ready EXCEPT ![m] = Tail(Cancelled(m))]
               /\ m_rtcpTimer' = [m_rtcpTimer EXCEPT ![m] = "bye"]
               /\ UNCHANGED <<sessionVars, socketVars>>
      <4>1. /\ m \notin byeEnded /\ Only(m_vDeliveryQueue[m], "report")
            /\ m_rtcpTimer[m] = "none" /\ Len(ready[m]) = 1 /\ m_bShuttingDown[m]
        BY <1>1, <2>1, <2>2 DEF OneBye, Finalises
      <4>2. Tail(Cancelled(m)) = <<>>
        <5>1. Cancelled(m) = ready[m] /\ ready[m] \in Seq(Handlers)
          BY <1>2, <4>1 DEF Cancelled, TypeInv, TypeOK
        <5>2. Tail(ready[m]) \in Seq(Handlers) /\ Len(Tail(ready[m])) = 0
          BY <2>1, <4>1, <5>1, TailFacts
        <5> QED BY <5>1, <5>2, EmptySeq, Zenon
      <4>3. /\ m_rtcpTimer'[m] = "bye" /\ ready'[m] = <<>>
            /\ \A n \in Managers : n # m => m_rtcpTimer'[n] = m_rtcpTimer[n] /\ ready'[n] = ready[n]
        BY <1>2, <3>2, <4>2 DEF TypeInv, TypeOK
      <4>4. /\ UNCHANGED <<m_uiByeSentCount, open, completed, byeEnded, m_vRtcpReportManagers, predictor,
                           detecting, m_bShuttingDown, m_bAllowEarly, m_bEarlyScheduled, m_vDeliveryQueue>>
        BY <2>2, <3>2 DEF sessionVars, feedbackVars, earlyVars, socketVars
      <4>5. OneBye(m)'
        BY <4>1, <4>3, <4>4 DEF OneBye
      <4>6. ASSUME NEW n \in m_vRtcpReportManagers, n # m PROVE OneBye(n)'
        BY <1>1, <1>2, <4>3, <4>4, <4>6 DEF OneBye
      <4> QED BY <1>1, <4>4, <4>5, <4>6 DEF Counted, CountRight, NeverEarly
    <3> QED BY <2>2, <3>1, <3>2 DEF finaliseSession
  <2>3. ASSUME Report(m) PROVE Counted'
    <3>1. m \notin byeEnded /\ ~m_bShuttingDown[m]
      BY <1>1, <2>3 DEF Report, Finalises, OneBye
    <3>2. /\ UNCHANGED sessionVars
          /\ \A n \in Managers : n # m => m_vDeliveryQueue'[n] = m_vDeliveryQueue[n]
      <4>1. CASE Send(m, "report")
        BY <1>1, <3>1, <4>1, SendCounted DEF TypeInv, TypeOK
      <4>2. CASE UNCHANGED <<sessionVars, socketVars>>
        BY <4>2 DEF socketVars
      <4> QED BY <2>3, <4>1, <4>2 DEF Report
    <3>3. /\ UNCHANGED <<m_vRtcpReportManagers, predictor, detecting, m_bShuttingDown>>
          /\ m_bAllowEarly'[m] = ~m_bEarlyScheduled[m] /\ ~m_bEarlyScheduled'[m]
          /\ \A n \in Managers : n # m =>
               /\ m_rtcpTimer'[n] = m_rtcpTimer[n] /\ ready'[n] = ready[n]
               /\ m_bAllowEarly'[n] = m_bAllowEarly[n] /\ m_bEarlyScheduled'[n] = m_bEarlyScheduled[n]
      BY <1>2, <2>3 DEF Report, setNextRtcpTimeout, TypeInv, TypeOK
    <3>4. NeverEarly(m)' /\ OneBye(m)'
      <4>1. ~m_bEarlyScheduled[m]
        BY <1>1 DEF NeverEarly
      <4>2. NeverEarly(m)'
        BY <3>3, <4>1, Zenon DEF NeverEarly
      <4> QED BY <3>1, <3>2, <3>3, <4>2 DEF OneBye, sessionVars
    <3>5. ASSUME NEW n \in m_vRtcpReportManagers, n # m PROVE NeverEarly(n)' /\ OneBye(n)'
      BY <1>1, <1>2, <3>2, <3>3, <3>5, OneByeElsewhere DEF sessionVars
    <3> QED BY <1>1, <3>2, <3>3, <3>4, <3>5 DEF Counted, CountRight, sessionVars
  <2>4. ASSUME ~Finalises(m), ready' = [ready EXCEPT ![m] = Tail(@)],
               UNCHANGED <<sessionVars, feedbackVars, m_bShuttingDown, earlyVars, m_rtcpTimer, socketVars>>
        PROVE  Counted'
    <3>1. UNCHANGED <<m_uiByeSentCount, open, completed, byeEnded, m_vRtcpReportManagers, predictor,
                      detecting, m_bShuttingDown, m_bAllowEarly, m_bEarlyScheduled, m_vDeliveryQueue,
                      m_rtcpTimer>>
      BY <2>4 DEF sessionVars, feedbackVars, earlyVars, socketVars
    <3>2. OneBye(m)'
      BY <1>1, <2>4, <3>1 DEF OneBye, Finalises
    <3>3. ASSUME NEW n \in m_vRtcpReportManagers, n # m PROVE OneBye(n)'
      <4>1. ready'[n] = ready[n]
        BY <1>2, <2>4, <3>3 DEF TypeInv, TypeOK
      <4> QED BY <1>1, <3>1, <4>1 DEF OneBye
    <3> QED BY <1>1, <3>1, <3>2, <3>3 DEF Counted, CountRight, NeverEarly
  <2> QED BY <1>9, <2>2, <2>3, <2>4 DEF onRtcpIntervalTimeout
<1> QED BY <1>3, <1>4, <1>5, <1>6, <1>7, <1>8, <1>9 DEF Next

-----------------------------------------------------------------------------
LEMMA PredictorFixed == [Next]_vars => predictor' = predictor
  BY DEF Next, stop, onRtpPacketLate, onByeReceived, TimerExpires, onRtcpIntervalTimeout, Report,
     onScheduleByeTimeout, SendSucceeds, SendFails, writeCompletionHandler, onPacketAssumedLost,
     feedbackVars, vars

LEMMA CountInvInductive ==
  /\ Init => TypeInv /\ CountInv
  /\ TypeInv /\ CountInv /\ [Next]_vars => (TypeInv /\ CountInv)'
<1>1. Init => TypeInv /\ CountInv
  BY InitTypeInv, InitRunning, InitSingle, InitCounted DEF CountInv
<1>2. ASSUME TypeInv, CountInv, [Next]_vars PROVE (TypeInv /\ CountInv)'
  <2>1. (TypeInv /\ Running /\ QueueInv /\ Sessions /\ SinglePath)'
    BY <1>2, RunInvInductive, StepSingle DEF CountInv
  <2>2. Counted'
    BY <1>2, StepCounted, PredictorFixed DEF CountInv, Counted
  <2> QED BY <2>1, <2>2 DEF CountInv
<1> QED BY <1>1, <1>2

\* Without loss detection a session of any number of managers closes its
\* interfaces and is complete only when the BYE of every manager has left.
THEOREM CompleteAfterByesAlways == Spec => []CompleteAfterByes
<1>1. TypeInv /\ CountInv => CompleteAfterByes
  BY DEF CountInv, Counted, CountRight, CompleteAfterByes
<1> QED BY CountInvInductive, <1>1, PTL DEF Spec

\* The session is reported complete at most once, in single path sessions with
\* any loss detection and any number of repeated BYEs.
THEOREM CompletedOnceAlways == Spec => []CompletedOnce
<1>1. TypeInv /\ CountInv => CompletedOnce
  BY DEF CountInv, Counted, CountRight, SinglePath, CompletedOnce
<1> QED BY CountInvInductive, <1>1, PTL DEF Spec

\* A session of any number of managers leaves in order: BYEs last, then the
\* interfaces, then completion, once.
THEOREM LeavesInOrderAlways == Spec => []LeavesInOrder
BY ByeIsLastAlways, CompleteAfterByesAlways, CompletedOnceAlways, PTL DEF LeavesInOrder

=============================================================================
