---------------------- MODULE ClientTransactionProofs ----------------------
(***************************************************************************)
(* Theorems about the client transaction, for every value of its timer     *)
(* constants: type correctness, the inductive invariant that ties timers   *)
(* and outcome to the state, and what follows from it.                     *)
(***************************************************************************)
EXTENDS ClientTransaction, TLAPS

LEMMA SmallerIsPositive ==
  ASSUME NEW a \in Nat \ {0}, NEW b \in Nat \ {0}
  PROVE  Smaller(a, b) \in Nat \ {0}
  BY DEF Smaller

LEMMA CancelType ==
  ASSUME TypeOK, NEW S
  PROVE  Cancel(S) \in [Timers -> Nat]
  BY DEF Cancel, TypeOK

LEMMA TimersAtStartType ==
  ASSUME TypeOK
  PROVE  TimersAtStart \in [Timers -> Nat]
<1>1. 64 * T1 \in Nat /\ (IF isTransportUnreliable THEN T1 ELSE 0) \in Nat
  BY TimingAssumption
<1> QED BY <1>1 DEF TimersAtStart, TypeOK

\* The state of the transaction keeps its type through every handler, and no
\* retransmission interval becomes zero.
THEOREM TypeCorrect == Spec => []TypeOK
<1>1. Init => TypeOK
  <2> SUFFICES ASSUME Init PROVE TypeOK
    OBVIOUS
  <2>1. m_bTuHasBeenNotififedOfFinalResponse \in BOOLEAN
    BY DEF Init
  <2>2. left \in [Timers -> Nat] /\ queued \in SUBSET Timers
    BY DEF Init
  <2>3. faults \in SUBSET {"assert", "dangling"}
    BY DEF Init
  <2>4. m_timerAInterval \in Nat \ {0} /\ m_timerEInterval \in Nat \ {0}
    BY TimingAssumption DEF Init, InitialInterval
  <2> QED BY <2>1, <2>2, <2>3, <2>4 DEF Init, TypeOK, States, Outcomes
<1>2. TypeOK /\ [Next]_vars => TypeOK'
  <2> SUFFICES ASSUME TypeOK, [Next]_vars PROVE TypeOK'
    OBVIOUS
  <2> USE DEF TypeOK, States, Outcomes, fixed
  <2>1. CASE begin
    BY <2>1, TimersAtStartType DEF begin, NoReport
  <2>2. CASE handleTimerATimeout
    <3>1. NextIntervalA \in Nat \ {0}
      BY SmallerIsPositive, TimingAssumption DEF NextIntervalA
    <3> QED BY <2>2, <3>1 DEF handleTimerATimeout, Runs, Terminate, NoReport
  <2>3. CASE handleTimerBTimeout
    BY <2>3 DEF handleTimerBTimeout, Runs, TimesOut, Ignored, Terminate, ReportFinal, NoReport
  <2>4. CASE handleTimerDTimeout
    <3>1. faults' \in SUBSET {"assert", "dangling"}
      BY <2>4 DEF handleTimerDTimeout
    <3> QED BY <2>4, <3>1 DEF handleTimerDTimeout, Runs, Terminate, NoReport
  <2>5. CASE handleTimerETimeout
    <3>1. Smaller(2 * m_timerEInterval, T2) \in Nat \ {0} /\ T2 \in Nat \ {0}
      BY SmallerIsPositive, TimingAssumption
    <3>2. CASE timerEInCalling
      BY <2>5, <3>1, <3>2 DEF handleTimerETimeout, timerEInCalling, Runs, Terminate, NoReport
    <3>3. CASE timerEInProceeding
      BY <2>5, <3>1, <3>3 DEF handleTimerETimeout, timerEInProceeding, Runs, Terminate, NoReport
    <3>4. CASE timerEInCompleted
      BY <2>5, <3>4 DEF handleTimerETimeout, timerEInCompleted, Runs, NoReport
    <3> QED BY <2>5, <3>2, <3>3, <3>4 DEF handleTimerETimeout
  <2>6. CASE handleTimerFTimeout
    BY <2>6 DEF handleTimerFTimeout, Runs, TimesOut, Ignored, Terminate, ReportFinal, NoReport
  <2>7. CASE handleTimerKTimeout
    <3>1. faults' \in SUBSET {"assert", "dangling"}
      BY <2>7 DEF handleTimerKTimeout
    <3> QED BY <2>7, <3>1 DEF handleTimerKTimeout, Runs, Terminate, NoReport
  <2>8. CASE \E t \in Timers : handlerAfterDestruction(t)
    BY <2>8 DEF handlerAfterDestruction, NoReport
  <2>9. CASE \E code \in Responses : onResponseReceived(code)
    <3> PICK code \in Responses : onResponseReceived(code)
      BY <2>9
    <3>0. \A S : Cancel(S) \in [Timers -> Nat]
      BY CancelType
    <3>1. TimerAStopped \in [Timers -> Nat]
      BY <3>0 DEF TimerAStopped
    <3>2. CASE onInviteResponseReceived(code)
      <4>1. CASE inviteProvisional
        BY <3>0, <3>1, <3>2, <4>1 DEF onInviteResponseReceived, inviteProvisional
      <4>2. CASE inviteFailure
        <5>1. left' \in [Timers -> Nat]
          BY <3>1, <4>2, TimingAssumption DEF inviteFailure, Terminate
        <5>2. queued' \in SUBSET Timers
          BY <4>2 DEF inviteFailure, Timers
        <5> QED BY <3>2, <4>2, <5>1, <5>2
                DEF onInviteResponseReceived, inviteFailure, ReportFinal, Terminate
      <4>3. CASE inviteSuccess
        BY <3>2, <4>3 DEF onInviteResponseReceived, inviteSuccess, ReportFinal, Terminate
      <4>4. CASE inviteCompleted
        <5>1. left' \in [Timers -> Nat]
          BY <3>1, <4>4 DEF inviteCompleted, Terminate
        <5> QED BY <3>2, <4>4, <5>1
                DEF onInviteResponseReceived, inviteCompleted, Terminate, NoReport
      <4> QED BY <3>2, <4>1, <4>2, <4>3, <4>4 DEF onInviteResponseReceived
    <3>3. CASE onNonInviteResponseReceived(code)
      <4>1. left' \in [Timers -> Nat]
        BY <3>0, <3>3, TimingAssumption
           DEF onNonInviteResponseReceived, nonInviteProvisional, nonInviteFinal, Ignored
      <4>2. outcome' \in Outcomes /\ m_eTxState' \in States
        BY <3>3 DEF onNonInviteResponseReceived, nonInviteProvisional, nonInviteFinal,
           Ignored, NoReport, ReportFinal, isResponseFinal
      <4> QED BY <3>3, <4>1, <4>2 DEF onNonInviteResponseReceived
    <3> QED BY <3>2, <3>3 DEF onResponseReceived
  <2>10. CASE Tick
    BY <2>10 DEF Tick, NoReport
  <2>11. CASE UNCHANGED vars
    BY <2>11 DEF vars
  <2> QED
    BY <2>1, <2>2, <2>3, <2>4, <2>5, <2>6, <2>7, <2>8, <2>9, <2>10, <2>11
    DEF Next, RunHandler
<1> QED BY <1>1, <1>2, PTL DEF Spec

-----------------------------------------------------------------------------
(***************************************************************************)
(* The inductive invariant.  AlwaysAWayOut and NoAssertionFails are not    *)
(* inductive alone: the first needs that nothing but its own handler       *)
(* removes a timer of the state, the second that D and K are due only in   *)
(* Completed, which nothing but termination leaves.                        *)
(***************************************************************************)
TimersMatchState == Alive /\ (Due("D") \/ Due("K")) => m_eTxState = "completed"

NothingBeforeBegin ==
  m_eTxState = "constructing" => \A t \in Timers : left[t] = 0 /\ t \notin queued

\* Each kind of transaction runs the timers of its own kind only.
OwnTimers ==
  /\ m_eTxType = "CT_INVITE" => \A t \in {"E", "F", "K"} : ~Due(t)
  /\ m_eTxType = "CT_NON_INVITE" => \A t \in {"A", "B", "D"} : ~Due(t)

OutcomeMatchesState ==
  /\ m_eTxState \in {"constructing", "refused", "calling", "proceeding"} => outcome = "none"
  /\ m_eTxState = "completed" => outcome # "none"
  /\ m_eTxState = "completed" /\ m_eTxType = "CT_INVITE" => outcome = "failure"

Inv ==
  /\ TimersMatchState
  /\ NothingBeforeBegin
  /\ OwnTimers
  /\ OutcomeMatchesState
  /\ NoAssertionFails
  /\ AlwaysAWayOut

LEMMA InvInit == Init => Inv
  BY DEF Init, Inv, TimersMatchState, NothingBeforeBegin, OwnTimers, OutcomeMatchesState,
     NoAssertionFails, AlwaysAWayOut, Alive, Due, Timers

LEMMA TimerAStoppedKeepsOthers ==
  ASSUME TypeOK, NEW t \in Timers, t # "A"
  PROVE  TimerAStopped[t] = left[t] /\ Cancel({"A"})[t] = left[t]
  BY DEF TimerAStopped, Cancel, TypeOK

LEMMA InvNext == TypeOK /\ TypeOK' /\ Inv /\ [Next]_vars => Inv'
<1> SUFFICES ASSUME TypeOK, TypeOK', Inv, [Next]_vars PROVE Inv'
  OBVIOUS
<1> USE DEF Inv, TimersMatchState, NothingBeforeBegin, OwnTimers, OutcomeMatchesState,
    NoAssertionFails, AlwaysAWayOut, Alive, Due, TypeOK, States, Types, Timers, fixed,
    isTransportUnreliable
<1>1. CASE begin
  <2>1. T1 \in Nat /\ 64 * T1 > 0
    BY TimingAssumption
  <2> QED BY <1>1, <2>1 DEF begin, TimersAtStart, NoReport
<1>2. CASE handleTimerATimeout
  BY <1>2 DEF handleTimerATimeout, Runs, Terminate, NoReport
<1>3. CASE handleTimerBTimeout
  BY <1>3 DEF handleTimerBTimeout, Runs, TimesOut, Ignored, Terminate, ReportFinal, NoReport
<1>4. CASE handleTimerDTimeout
  BY <1>4 DEF handleTimerDTimeout, Runs, Terminate, NoReport
<1>5. CASE handleTimerETimeout
  <2>1. CASE timerEInCalling
    <3>1. "E" \in queued /\ queued' = queued \ {"E"} /\ UNCHANGED <<fixed, outcome, faults>>
      BY <1>5 DEF handleTimerETimeout, Runs, NoReport
    <3>2. m_eTxType = "CT_NON_INVITE"
      BY <3>1
    <3>3. CASE m_eTxState' = "terminated" /\ left' = [t \in Timers |-> 0]
      BY <2>1, <3>1, <3>2, <3>3 DEF timerEInCalling
    <3>4. CASE m_eTxState' = m_eTxState /\ \A t \in Timers \ {"E"} : left'[t] = left[t]
      BY <2>1, <3>1, <3>2, <3>4 DEF timerEInCalling
    <3> QED BY <2>1, <3>3, <3>4 DEF timerEInCalling, Terminate
  <2>2. CASE timerEInProceeding
    BY <1>5, <2>2 DEF handleTimerETimeout, timerEInProceeding, Runs, Terminate, NoReport
  <2>3. CASE timerEInCompleted
    BY <1>5, <2>3 DEF handleTimerETimeout, timerEInCompleted, Runs, NoReport
  <2> QED BY <1>5, <2>1, <2>2, <2>3 DEF handleTimerETimeout
<1>6. CASE handleTimerFTimeout
  BY <1>6 DEF handleTimerFTimeout, TimeoutStillApplies, Runs, TimesOut, Ignored, Terminate,
     ReportFinal, NoReport
<1>7. CASE handleTimerKTimeout
  BY <1>7 DEF handleTimerKTimeout, Runs, Terminate, NoReport
<1>8. CASE \E t \in Timers : handlerAfterDestruction(t)
  BY <1>8 DEF handlerAfterDestruction, NoReport
<1>9. CASE \E code \in Responses : onResponseReceived(code)
  <2> PICK code \in Responses : onResponseReceived(code)
    BY <1>9
  <2>0. \A t \in Timers : t # "A" => TimerAStopped[t] = left[t] /\ Cancel({"A"})[t] = left[t]
    BY TimerAStoppedKeepsOthers
  <2>1. CASE onInviteResponseReceived(code)
    <3>1. CASE inviteProvisional
      BY <2>0, <2>1, <3>1 DEF onInviteResponseReceived, inviteProvisional, AwaitsFinalResponse
    <3>2. CASE inviteFailure
      BY <2>0, <2>1, <3>2, TimingAssumption, CancelType
         DEF onInviteResponseReceived, inviteFailure, AwaitsFinalResponse, ReportFinal,
             Terminate, TimerAStopped
    <3>3. CASE inviteSuccess
      BY <2>1, <3>3 DEF onInviteResponseReceived, inviteSuccess, ReportFinal, Terminate
    <3>4. CASE inviteCompleted
      BY <2>0, <2>1, <3>4 DEF onInviteResponseReceived, inviteCompleted, Terminate, NoReport
    <3> QED BY <2>1, <3>1, <3>2, <3>3, <3>4 DEF onInviteResponseReceived
  <2>2. CASE onNonInviteResponseReceived(code)
    <3>1. CASE nonInviteProvisional
      BY <2>2, <3>1 DEF onNonInviteResponseReceived, nonInviteProvisional, AwaitsFinalResponse
    <3>2. CASE isResponseFinal(code) /\ nonInviteFinal(code)
      BY <2>2, <3>2, TimingAssumption
         DEF onNonInviteResponseReceived, nonInviteFinal, ReportFinal, isResponseFinal, Cancel
    <3>3. CASE m_eTxState = "completed" /\ Ignored
      BY <2>2, <3>3 DEF onNonInviteResponseReceived, Ignored, NoReport
    <3> QED BY <2>2, <3>1, <3>2, <3>3 DEF onNonInviteResponseReceived
  <2> QED BY <2>1, <2>2 DEF onResponseReceived
<1>10. CASE Tick
  BY <1>10 DEF Tick, NoReport
<1>11. CASE UNCHANGED vars
  BY <1>11 DEF vars
<1> QED
  BY <1>1, <1>2, <1>3, <1>4, <1>5, <1>6, <1>7, <1>8, <1>9, <1>10, <1>11
  DEF Next, RunHandler

LEMMA Invariance == Spec => []Inv
<1> QED BY InvInit, InvNext, TypeCorrect, PTL DEF Spec

\* No assert of the timer handlers can fail, whatever the intervals are and
\* however handlers and responses interleave.
THEOREM AssertsHold == Spec => []NoAssertionFails
<1>1. Inv => NoAssertionFails
  BY DEF Inv
<1> QED BY Invariance, <1>1, PTL

\* A live transaction is always due to be ended by a timer, except where the
\* code arms none.
THEOREM WayOut == Spec => []AlwaysAWayOut
<1>1. Inv => AlwaysAWayOut
  BY DEF Inv
<1> QED BY Invariance, <1>1, PTL

\* An ACK is sent for reported failures only: it needs the invariant because a
\* retransmitted response is acknowledged from Completed without its code
\* being looked at.
THEOREM AcksOnlyFailures == Spec => AckOnlyAfterFailure
<1>1. TypeOK /\ Inv /\ [Next]_vars => [Sends("ack")' => outcome' = "failure"]_vars
  <2> SUFFICES ASSUME TypeOK, Inv, Next, Sends("ack")' PROVE outcome' = "failure"
    BY DEF Sends, vars
  <2> USE DEF Sends, Send, SendFails
  <2>1. CASE begin
    BY <2>1 DEF begin
  <2>2. CASE handleTimerATimeout
    BY <2>2 DEF handleTimerATimeout
  <2>3. CASE handleTimerBTimeout \/ handleTimerDTimeout \/ handleTimerFTimeout \/ handleTimerKTimeout
    BY <2>3 DEF handleTimerBTimeout, handleTimerDTimeout, handleTimerFTimeout, handleTimerKTimeout
  <2>4. CASE handleTimerETimeout
    BY <2>4 DEF handleTimerETimeout, timerEInCalling, timerEInProceeding, timerEInCompleted
  <2>5. CASE \E t \in Timers : handlerAfterDestruction(t)
    BY <2>5 DEF handlerAfterDestruction
  <2>6. CASE \E code \in Responses : onResponseReceived(code)
    <3> PICK code \in Responses : onResponseReceived(code)
      BY <2>6
    <3>1. onInviteResponseReceived(code)
      BY DEF onResponseReceived, onNonInviteResponseReceived
    <3>2. CASE inviteCompleted
      BY <3>1, <3>2 DEF onInviteResponseReceived, inviteCompleted, NoReport, Inv, OutcomeMatchesState
    <3>3. CASE inviteFailure
      BY <3>3 DEF inviteFailure, ReportFinal
    <3> QED BY <3>1, <3>2, <3>3 DEF onInviteResponseReceived, inviteProvisional, inviteSuccess
  <2>7. CASE Tick
    BY <2>7 DEF Tick
  <2> QED BY <2>1, <2>2, <2>3, <2>4, <2>5, <2>6, <2>7 DEF Next, RunHandler
<1> QED BY <1>1, Invariance, TypeCorrect, PTL DEF Spec, AckOnlyAfterFailure

-----------------------------------------------------------------------------
(***************************************************************************)
(* How many requests fit before the timeout.  It depends on the intervals  *)
(* of the code, of which only the ratio matters: T2 is eight times T1, and *)
(* the bound of the model does not cut the intervals timer A reaches.      *)
(*                                                                         *)
(* While an unanswered request is retransmitted over UDP its two timers    *)
(* run together.  Timer A (or E) is armed with its interval when the       *)
(* request leaves; as long as the interval doubles, the request of         *)
(* interval i left i - T1 after the first, so the two timers and the       *)
(* interval satisfy a linear equation that a tick and a retransmission     *)
(* both keep.  Once timer E runs at T2 the equation counts the requests    *)
(* instead.  When B or F expires the equation leaves one number of         *)
(* requests.                                                               *)
(***************************************************************************)
DefaultIntervals == T2 = 8 * T1 /\ MaxInterval >= 64 * T1

\* A waiting timer is not queued, a queued one is not waiting, and one of the
\* two holds: the timers of a request that is being retransmitted.
Running(t) == left[t] = 0 <=> t \in queued

\* The retransmission timer and the timeout count down together, the next
\* request being due 2 * interval - T1 after the first.
Doubling(retry, timeout, interval) ==
  left[timeout] + 2 * interval = left[retry] + 65 * T1

InviteDoubled ==
  \/ requests = 1 /\ m_timerAInterval = T1
  \/ requests = 2 /\ m_timerAInterval = 2 * T1
  \/ requests = 3 /\ m_timerAInterval = 4 * T1
  \/ requests = 4 /\ m_timerAInterval = 8 * T1
  \/ requests = 5 /\ m_timerAInterval = 16 * T1
  \/ requests = 6 /\ m_timerAInterval = 32 * T1
  \/ requests = 7 /\ m_timerAInterval = 64 * T1

InviteSchedule ==
  /\ Running("A") /\ Running("B")
  /\ left["A"] <= m_timerAInterval
  /\ Doubling("A", "B", m_timerAInterval)
  /\ InviteDoubled

NonInviteDoubled ==
  \/ requests = 1 /\ m_timerEInterval = T1
  \/ requests = 2 /\ m_timerEInterval = 2 * T1
  \/ requests = 3 /\ m_timerEInterval = 4 * T1

\* From the fourth request on they leave every T2.
NonInviteSteady ==
  /\ m_timerEInterval = 8 * T1
  /\ \/ requests = 4  /\ left["F"] = left["E"] + 49 * T1
     \/ requests = 5  /\ left["F"] = left["E"] + 41 * T1
     \/ requests = 6  /\ left["F"] = left["E"] + 33 * T1
     \/ requests = 7  /\ left["F"] = left["E"] + 25 * T1
     \/ requests = 8  /\ left["F"] = left["E"] + 17 * T1
     \/ requests = 9  /\ left["F"] = left["E"] + 9 * T1
     \/ requests = 10 /\ left["F"] = left["E"] + T1
     \/ requests = 11 /\ left["F"] + 7 * T1 = left["E"]

NonInviteSchedule ==
  /\ Running("E") /\ Running("F")
  /\ left["E"] <= m_timerEInterval
  /\ \/ Doubling("E", "F", m_timerEInterval) /\ NonInviteDoubled
     \/ NonInviteSteady

OnSchedule ==
  isTransportUnreliable =>
    /\ m_eTxState = "constructing" => m_timerAInterval = T1 /\ m_timerEInterval = T1
    /\ m_eTxType = "CT_INVITE" /\ m_eTxState = "calling" => InviteSchedule
    /\ m_eTxType = "CT_NON_INVITE" /\ m_eTxState = "calling" => NonInviteSchedule
    /\ m_eTxType = "CT_NON_INVITE" /\ m_eTxState \notin {"constructing", "refused"}
         => requests \in 1..11
    /\ RequestsBeforeTimeout

LEMMA ScheduleInit == Init => OnSchedule
  BY DEF Init, InitialInterval, OnSchedule, RequestsBeforeTimeout

LEMMA ScheduleBegins ==
  ASSUME TypeOK, Inv, OnSchedule, begin
  PROVE  OnSchedule'
<1>1. outcome' = "none"
  BY DEF begin, NoReport, Inv, OutcomeMatchesState
<1>2. CASE m_eTxState' = "refused"
  BY <1>1, <1>2 DEF OnSchedule, RequestsBeforeTimeout
<1>3. CASE m_eTxState' = "calling" /\ isTransportUnreliable
  <2>1. /\ requests' = 1 /\ left' = TimersAtStart /\ m_eTxType' = m_eTxType
        /\ m_timerAInterval' = T1 /\ m_timerEInterval' = T1
    BY <1>3 DEF begin, fixed, OnSchedule
  <2>2. queued' = {}
    BY DEF begin, Inv, NothingBeforeBegin, TypeOK, Timers
  <2>3. T1 \in Nat /\ T1 > 0
    BY TimingAssumption
  <2>4. CASE m_eTxType = "CT_INVITE"
    <3>1. left'["A"] = T1 /\ left'["B"] = 64 * T1
      BY <1>3, <2>1, <2>4 DEF TimersAtStart, TypeOK, Timers
    <3>2. InviteSchedule'
      BY <2>1, <2>2, <2>3, <3>1 DEF InviteSchedule, Running, Doubling, InviteDoubled
    <3> QED BY <1>1, <1>3, <2>1, <2>4, <3>2 DEF OnSchedule, RequestsBeforeTimeout
  <2>5. CASE m_eTxType = "CT_NON_INVITE"
    <3>1. left'["E"] = T1 /\ left'["F"] = 64 * T1
      BY <1>3, <2>1, <2>5 DEF TimersAtStart, TypeOK, Timers
    <3>2. NonInviteSchedule'
      BY <2>1, <2>2, <2>3, <3>1 DEF NonInviteSchedule, Running, Doubling, NonInviteDoubled
    <3> QED BY <1>1, <1>3, <2>1, <2>5, <3>2 DEF OnSchedule, RequestsBeforeTimeout
  <2> QED BY <2>4, <2>5 DEF TypeOK, Types
<1>4. CASE ~isTransportUnreliable
  BY <1>4 DEF begin, fixed, OnSchedule, isTransportUnreliable
<1> QED BY <1>2, <1>3, <1>4 DEF begin

\* A retransmission of the INVITE keeps the schedule: timer A fires at most six
\* times before timer B, and the interval never meets the model's bound.
LEMMA ScheduleA ==
  ASSUME DefaultIntervals, TypeOK, InviteSchedule, "A" \in queued,
         m_timerAInterval' = NextIntervalA, requests' = requests + 1,
         left' = [left EXCEPT !["A"] = NextIntervalA], queued' = queued \ {"A"}
  PROVE  InviteSchedule'
<1>1. T1 \in Nat /\ T1 > 0 /\ MaxInterval \in Nat /\ MaxInterval >= 64 * T1
  BY TimingAssumption DEF DefaultIntervals
<1>2. left["A"] = 0 /\ left["B"] \in Nat /\ m_timerAInterval \in Nat
  BY DEF InviteSchedule, Running, TypeOK, Timers
<1>3. 2 * m_timerAInterval <= 64 * T1
  BY <1>1, <1>2 DEF InviteSchedule, Doubling, InviteDoubled
<1>4. NextIntervalA = 2 * m_timerAInterval
  BY <1>1, <1>2, <1>3 DEF NextIntervalA, Smaller
<1>5. left'["A"] = 2 * m_timerAInterval /\ left'["B"] = left["B"]
  BY <1>4 DEF TypeOK, Timers
<1>6. 2 * m_timerAInterval > 0
  BY <1>1, <1>2 DEF InviteSchedule, InviteDoubled
<1>7. Running("A")' /\ Running("B")'
  BY <1>2, <1>5, <1>6 DEF InviteSchedule, Running
<1>8. Doubling("A", "B", m_timerAInterval)'
  BY <1>1, <1>2, <1>4, <1>5 DEF InviteSchedule, Doubling
<1>9. InviteDoubled'
  BY <1>1, <1>2, <1>3, <1>4 DEF InviteSchedule, InviteDoubled
<1> QED BY <1>2, <1>4, <1>5, <1>7, <1>8, <1>9 DEF InviteSchedule

\* Likewise for timer E, which fires at most ten times before timer F.
LEMMA ScheduleE ==
  ASSUME DefaultIntervals, TypeOK, NonInviteSchedule, "E" \in queued,
         m_timerEInterval' = Smaller(2 * m_timerEInterval, T2), requests' = requests + 1,
         left' = [left EXCEPT !["E"] = Smaller(2 * m_timerEInterval, T2)],
         queued' = queued \ {"E"}
  PROVE  NonInviteSchedule'
<1>1. T1 \in Nat /\ T1 > 0 /\ T2 = 8 * T1
  BY TimingAssumption DEF DefaultIntervals
<1>2. left["E"] = 0 /\ left["F"] \in Nat /\ m_timerEInterval \in Nat
  BY DEF NonInviteSchedule, Running, TypeOK, Timers
<1>3. left'["E"] = m_timerEInterval' /\ left'["F"] = left["F"]
  BY DEF TypeOK, Timers
<1>4. Running("F")'
  BY <1>3 DEF NonInviteSchedule, Running
<1>5. CASE Doubling("E", "F", m_timerEInterval) /\ NonInviteDoubled
  <2>1. m_timerEInterval' = 2 * m_timerEInterval /\ m_timerEInterval' > 0
    BY <1>1, <1>2, <1>5 DEF NonInviteDoubled, Smaller
  <2>2. Running("E")'
    BY <1>3, <2>1 DEF Running
  <2>3. CASE requests = 3
    <3>1. NonInviteSteady'
      BY <1>1, <1>2, <1>3, <1>5, <2>1, <2>3 DEF NonInviteDoubled, NonInviteSteady, Doubling
    <3> QED BY <1>2, <1>3, <1>4, <2>1, <2>2, <3>1 DEF NonInviteSchedule
  <2>4. CASE requests # 3
    <3>1. Doubling("E", "F", m_timerEInterval)'
      BY <1>1, <1>2, <1>3, <1>5, <2>1 DEF Doubling
    <3>2. NonInviteDoubled'
      BY <1>1, <1>2, <1>5, <2>1, <2>4 DEF NonInviteDoubled
    <3> QED BY <1>2, <1>3, <1>4, <2>1, <2>2, <3>1, <3>2 DEF NonInviteSchedule
  <2> QED BY <2>3, <2>4
<1>6. CASE NonInviteSteady
  <2>1. m_timerEInterval' = 8 * T1
    BY <1>1, <1>6 DEF NonInviteSteady, Smaller
  <2>2. Running("E")'
    BY <1>1, <1>3, <2>1 DEF Running
  <2>3. NonInviteSteady'
    BY <1>1, <1>2, <1>3, <1>6, <2>1 DEF NonInviteSteady
  <2> QED BY <1>1, <1>3, <1>4, <2>1, <2>2, <2>3 DEF NonInviteSchedule
<1> QED BY <1>5, <1>6 DEF NonInviteSchedule

\* Both timers of a schedule count down together.
LEMMA ScheduleTick ==
  ASSUME TypeOK, Tick, NEW t \in Timers, Running(t)
  PROVE  left[t] \in Nat \ {0} /\ left'[t] = left[t] - 1 /\ Running(t)'
<1>1. left[t] \in Nat /\ left[t] # 0
  BY DEF Tick, Running, TypeOK
<1>2. left'[t] = left[t] - 1
  BY <1>1 DEF Tick
<1>3. t \in queued' <=> left[t] = 1
  BY DEF Tick
<1> QED BY <1>1, <1>2, <1>3 DEF Running

LEMMA ScheduleTicks ==
  ASSUME TypeOK, Tick
  PROVE  /\ InviteSchedule => InviteSchedule'
         /\ NonInviteSchedule => NonInviteSchedule'
<1>0. T1 \in Nat /\ m_timerAInterval \in Nat /\ m_timerEInterval \in Nat
  BY TimingAssumption DEF TypeOK
<1>1. UNCHANGED <<m_timerAInterval, m_timerEInterval, requests>>
  BY DEF Tick
<1>2. ASSUME InviteSchedule PROVE InviteSchedule'
  <2>1. /\ left["A"] \in Nat \ {0} /\ left'["A"] = left["A"] - 1 /\ Running("A")'
        /\ left["B"] \in Nat \ {0} /\ left'["B"] = left["B"] - 1 /\ Running("B")'
    BY <1>2, ScheduleTick DEF InviteSchedule, Timers
  <2>2. Doubling("A", "B", m_timerAInterval)'
    BY <1>0, <1>1, <1>2, <2>1 DEF InviteSchedule, Doubling
  <2>3. left'["A"] <= m_timerAInterval'
    BY <1>0, <1>1, <1>2, <2>1 DEF InviteSchedule
  <2> QED BY <1>1, <1>2, <2>1, <2>2, <2>3 DEF InviteSchedule, InviteDoubled
<1>3. ASSUME NonInviteSchedule PROVE NonInviteSchedule'
  <2>1. /\ left["E"] \in Nat \ {0} /\ left'["E"] = left["E"] - 1 /\ Running("E")'
        /\ left["F"] \in Nat \ {0} /\ left'["F"] = left["F"] - 1 /\ Running("F")'
    BY <1>3, ScheduleTick DEF NonInviteSchedule, Timers
  <2>2. Doubling("E", "F", m_timerEInterval) => Doubling("E", "F", m_timerEInterval)'
    BY <1>0, <1>1, <2>1 DEF Doubling
  <2>3. NonInviteSteady => NonInviteSteady'
    BY <1>0, <1>1, <2>1 DEF NonInviteSteady
  <2>4. left'["E"] <= m_timerEInterval'
    BY <1>0, <1>1, <1>3, <2>1 DEF NonInviteSchedule
  <2> QED BY <1>1, <1>3, <2>1, <2>2, <2>3, <2>4 DEF NonInviteSchedule, NonInviteDoubled
<1> QED BY <1>2, <1>3

\* What the schedule says when the timeout expires.
LEMMA ScheduleAtTimeout ==
  ASSUME TypeOK
  PROVE  /\ InviteSchedule /\ "B" \in queued => requests = 7
         /\ NonInviteSchedule => requests \in 1..11
<1>1. T1 \in Nat /\ T1 > 0 /\ left["A"] \in Nat /\ m_timerAInterval \in Nat
  BY TimingAssumption DEF TypeOK, Timers
<1>2. ASSUME InviteSchedule, "B" \in queued PROVE requests = 7
  <2>1. left["B"] = 0 /\ left["A"] <= m_timerAInterval
    BY <1>2 DEF InviteSchedule, Running
  <2> QED BY <1>1, <1>2, <2>1 DEF InviteSchedule, Doubling, InviteDoubled
<1>3. NonInviteSchedule => requests \in 1..11
  BY DEF NonInviteSchedule, NonInviteDoubled, NonInviteSteady
<1> QED BY <1>2, <1>3

\* A step that sends no request in Calling and arms no timer of the schedule.
LEMMA ScheduleKept ==
  ASSUME OnSchedule, m_eTxState \in {"calling", "proceeding", "completed", "terminated"},
         m_eTxState' \in {"calling", "proceeding", "completed", "terminated"},
         m_eTxState' = "calling" =>
           /\ m_eTxState = "calling"
           /\ UNCHANGED <<left, m_timerAInterval, m_timerEInterval>>
           /\ m_eTxType = "CT_INVITE" => ("A" \in queued' <=> "A" \in queued)
                                          /\ ("B" \in queued' <=> "B" \in queued)
           /\ m_eTxType = "CT_NON_INVITE" => ("E" \in queued' <=> "E" \in queued)
                                          /\ ("F" \in queued' <=> "F" \in queued),
         UNCHANGED <<fixed, requests>>, outcome' = "timeout" => outcome = "timeout"
  PROVE  OnSchedule'
  BY DEF OnSchedule, InviteSchedule, NonInviteSchedule, Running, Doubling, InviteDoubled,
     NonInviteDoubled, NonInviteSteady, RequestsBeforeTimeout, fixed, isTransportUnreliable

LEMMA ScheduleNext ==
  ASSUME DefaultIntervals, TypeOK, Inv, OnSchedule, [Next]_vars
  PROVE  OnSchedule'
<1> USE DEF Alive, fixed
<1>1. CASE begin
  BY <1>1, ScheduleBegins
<1>2. CASE handleTimerATimeout
  <2>1. outcome' = outcome /\ Alive /\ UNCHANGED fixed
    BY <1>2 DEF handleTimerATimeout, Runs, NoReport
  <2>2. CASE m_eTxState' = "terminated" /\ UNCHANGED requests
    BY <2>1, <2>2, ScheduleKept
  <2>3. CASE m_eTxState' = m_eTxState /\ m_eTxState # "calling" /\ UNCHANGED requests
    BY <2>1, <2>3, ScheduleKept
  <2>4. CASE /\ m_eTxState' = m_eTxState /\ m_eTxState = "calling" /\ requests' = requests + 1
             /\ left' = [left EXCEPT !["A"] = NextIntervalA]
    <3>1. "A" \in queued /\ queued' = queued \ {"A"} /\ m_timerAInterval' = NextIntervalA
      BY <1>2 DEF handleTimerATimeout, Runs
    <3>2. InviteSchedule => InviteSchedule'
      BY <2>4, <3>1, ScheduleA
    <3>3. outcome = "none" /\ m_eTxType = "CT_INVITE"
      BY <2>4, <3>1 DEF Inv, OutcomeMatchesState, OwnTimers, Due, TypeOK, Types
    <3> QED BY <2>1, <2>4, <3>2, <3>3
            DEF OnSchedule, RequestsBeforeTimeout, isTransportUnreliable
  <2> QED BY <1>2, <2>2, <2>3, <2>4 DEF handleTimerATimeout, Terminate
<1>3. CASE handleTimerBTimeout
  <2>1. /\ "B" \in queued /\ queued' = queued \ {"B"} /\ Alive
        /\ UNCHANGED <<fixed, m_timerAInterval, m_timerEInterval, requests>>
    BY <1>3 DEF handleTimerBTimeout, Runs
  <2>2. m_eTxType = "CT_INVITE"
    BY <2>1 DEF Inv, OwnTimers, Due, TypeOK, Types
  <2>3. CASE m_eTxState = "calling"
    <3>1. m_eTxState' = "terminated"
      BY <1>3, <2>3 DEF handleTimerBTimeout, TimesOut, Terminate
    <3>2. InviteSchedule => requests = 7
      BY <2>1, ScheduleAtTimeout
    <3> QED BY <2>1, <2>2, <2>3, <3>1, <3>2
            DEF OnSchedule, RequestsBeforeTimeout, isTransportUnreliable
  <2>4. CASE m_eTxState # "calling"
    <3>1. UNCHANGED <<m_eTxState, outcome>>
      BY <1>3, <2>4 DEF handleTimerBTimeout, Ignored, NoReport
    <3> QED BY <2>1, <2>4, <3>1, ScheduleKept
  <2> QED BY <2>3, <2>4
<1>4. CASE handleTimerDTimeout
  <2>1. Due("D") /\ Alive
    BY <1>4 DEF handleTimerDTimeout, Runs, Due
  <2>2. m_eTxState = "completed"
    BY <2>1 DEF Inv, TimersMatchState
  <2> QED BY <1>4, <2>2, ScheduleKept DEF handleTimerDTimeout, Runs, Terminate, NoReport
<1>5. CASE handleTimerETimeout
  <2>1. /\ "E" \in queued /\ queued' = queued \ {"E"} /\ Alive /\ outcome' = outcome
        /\ UNCHANGED fixed
    BY <1>5 DEF handleTimerETimeout, Runs, NoReport
  <2>2. CASE m_eTxState' = "terminated" /\ UNCHANGED requests
    BY <2>1, <2>2, ScheduleKept
  <2>3. CASE m_eTxState' = m_eTxState /\ m_eTxState # "calling" /\ UNCHANGED requests
    BY <2>1, <2>3, ScheduleKept
  <2>4. CASE /\ m_eTxState' = m_eTxState /\ m_eTxState = "calling" /\ requests' = requests + 1
             /\ m_timerEInterval' = Smaller(2 * m_timerEInterval, T2)
             /\ left' = [left EXCEPT !["E"] = Smaller(2 * m_timerEInterval, T2)]
    <3>1. NonInviteSchedule => NonInviteSchedule'
      BY <2>1, <2>4, ScheduleE
    <3>2. outcome = "none" /\ m_eTxType = "CT_NON_INVITE"
      BY <2>1, <2>4 DEF Inv, OutcomeMatchesState, OwnTimers, Due, TypeOK, Types
    <3>3. NonInviteSchedule' => requests' \in 1..11
      BY DEF NonInviteSchedule, NonInviteDoubled, NonInviteSteady
    <3> QED BY <2>1, <2>4, <3>1, <3>2, <3>3
            DEF OnSchedule, RequestsBeforeTimeout, isTransportUnreliable
  <2> QED BY <1>5, <2>2, <2>3, <2>4
          DEF handleTimerETimeout, timerEInCalling, timerEInProceeding, timerEInCompleted, Terminate
<1>6. CASE handleTimerFTimeout
  <2>1. /\ "F" \in queued /\ Alive
        /\ UNCHANGED <<fixed, m_timerAInterval, m_timerEInterval, requests>>
    BY <1>6 DEF handleTimerFTimeout, Runs
  <2>2. m_eTxType = "CT_NON_INVITE"
    BY <2>1 DEF Inv, OwnTimers, Due, TypeOK, Types
  <2>3. CASE TimeoutStillApplies
    <3>1. m_eTxState' = "terminated"
      BY <1>6, <2>3 DEF handleTimerFTimeout, TimesOut, Terminate
    <3> QED BY <2>1, <2>2, <3>1 DEF OnSchedule, RequestsBeforeTimeout, isTransportUnreliable
  <2>4. CASE ~TimeoutStillApplies
    <3>1. UNCHANGED <<m_eTxState, outcome>> /\ m_eTxState # "calling"
      BY <1>6, <2>4 DEF handleTimerFTimeout, Ignored, NoReport, TimeoutStillApplies
    <3> QED BY <2>1, <3>1, ScheduleKept
  <2> QED BY <2>3, <2>4
<1>7. CASE handleTimerKTimeout
  BY <1>7, ScheduleKept DEF handleTimerKTimeout, Runs, Terminate, NoReport
<1>8. CASE \E t \in Timers : handlerAfterDestruction(t)
  BY <1>8, ScheduleKept DEF handlerAfterDestruction, NoReport
<1>9. CASE \E code \in Responses : onResponseReceived(code)
  <2> PICK code \in Responses : onResponseReceived(code)
    BY <1>9
  <2>1. Alive /\ UNCHANGED <<fixed, requests>>
    BY DEF onResponseReceived, onInviteResponseReceived, onNonInviteResponseReceived
  <2>2. CASE onInviteResponseReceived(code)
    <3>1. m_eTxState' \in {"proceeding", "completed", "terminated"}
      BY <2>2 DEF onInviteResponseReceived, inviteProvisional, inviteFailure, inviteSuccess,
         inviteCompleted, Terminate
    <3>2. outcome' = "timeout" => outcome = "timeout"
      BY <2>2 DEF onInviteResponseReceived, inviteProvisional, inviteFailure, inviteSuccess,
         inviteCompleted, ReportFinal, NoReport
    <3> QED BY <2>1, <3>1, <3>2, ScheduleKept
  <2>3. CASE onNonInviteResponseReceived(code)
    <3>1. m_eTxState' \in {"proceeding", "completed"}
      BY <2>3 DEF onNonInviteResponseReceived, nonInviteProvisional, nonInviteFinal, Ignored
    <3>2. outcome' = "timeout" => outcome = "timeout"
      BY <2>3 DEF onNonInviteResponseReceived, nonInviteProvisional, nonInviteFinal, Ignored,
         isResponseFinal, ReportFinal, NoReport
    <3> QED BY <2>1, <3>1, <3>2, ScheduleKept
  <2> QED BY <2>2, <2>3 DEF onResponseReceived
<1>10. CASE Tick
  <2>1. Alive /\ UNCHANGED <<fixed, m_eTxState, requests, outcome>>
    BY <1>10 DEF Tick, NoReport
  <2>2. /\ InviteSchedule => InviteSchedule'
        /\ NonInviteSchedule => NonInviteSchedule'
    BY <1>10, ScheduleTicks
  <2> QED BY <2>1, <2>2 DEF OnSchedule, RequestsBeforeTimeout, isTransportUnreliable
<1>11. CASE UNCHANGED vars
  BY <1>11 DEF vars, OnSchedule, InviteSchedule, NonInviteSchedule, Running, Doubling,
     InviteDoubled, NonInviteDoubled, NonInviteSteady, RequestsBeforeTimeout,
     isTransportUnreliable
<1> QED
  BY <1>1, <1>2, <1>3, <1>4, <1>5, <1>6, <1>7, <1>8, <1>9, <1>10, <1>11
  DEF Next, RunHandler

\* With the ratios of the code's intervals, whatever T1 is, an INVITE over UDP
\* is sent exactly seven times before it times out, and a non-INVITE at most
\* eleven times.
THEOREM RequestsBeforeTimeoutAlways ==
  ASSUME DefaultIntervals
  PROVE  Spec => []RequestsBeforeTimeout
<1>1. TypeOK /\ Inv /\ OnSchedule /\ [Next]_vars => OnSchedule'
  BY ScheduleNext
<1>2. OnSchedule => RequestsBeforeTimeout
  BY DEF OnSchedule, RequestsBeforeTimeout
<1> QED BY <1>1, <1>2, ScheduleInit, Invariance, TypeCorrect, PTL DEF Spec

-----------------------------------------------------------------------------
(* Refinement of TransactionService.                                       *)

Phase == IF m_eTxState \in {"terminated", "refused"} THEN "over"
         ELSE IF outcome = "none" THEN "open" ELSE "told"

\* The client transaction implements the promise to the transaction user: one
\* outcome at most, and silence after it.
THEOREM ImplementsService == Spec => KeepsPromise
<1>1. Init => Service!Init
  BY DEF Init, Service!Init
<1>2. TypeOK /\ Inv /\ [Next]_vars => [Service!Next]_<<Phase, tu>>
  <2> SUFFICES ASSUME TypeOK, Inv, [Next]_vars PROVE [Service!Next]_<<Phase, tu>>
    OBVIOUS
  <2> USE DEF Inv, OutcomeMatchesState, Phase, Service!Next, Service!Silent, TypeOK, States
  <2>1. CASE begin
    BY <2>1 DEF begin, NoReport
  <2>2. CASE handleTimerATimeout
    BY <2>2 DEF handleTimerATimeout, Runs, Terminate, NoReport
  <2>3. CASE handleTimerBTimeout
    BY <2>3 DEF handleTimerBTimeout, Runs, TimesOut, Ignored, Terminate, ReportFinal, Notify,
       NoReport, Service!ReportOutcome
  <2>4. CASE handleTimerDTimeout
    BY <2>4 DEF handleTimerDTimeout, Runs, Terminate, NoReport
  <2>5. CASE handleTimerETimeout
    BY <2>5 DEF handleTimerETimeout, timerEInCalling, timerEInProceeding, timerEInCompleted,
       Runs, Terminate, NoReport
  <2>6. CASE handleTimerFTimeout
    BY <2>6 DEF handleTimerFTimeout, TimeoutStillApplies, Runs, TimesOut, Ignored, Terminate,
       ReportFinal, Notify, NoReport, Service!ReportOutcome
  <2>7. CASE handleTimerKTimeout
    BY <2>7 DEF handleTimerKTimeout, Runs, Terminate, NoReport
  <2>8. CASE \E t \in Timers : handlerAfterDestruction(t)
    BY <2>8 DEF handlerAfterDestruction, NoReport
  <2>9. CASE \E code \in Responses : onResponseReceived(code)
    <3> PICK code \in Responses : onResponseReceived(code)
      BY <2>9
    <3>1. CASE onInviteResponseReceived(code)
      <4>1. CASE inviteProvisional
        BY <3>1, <4>1 DEF onInviteResponseReceived, inviteProvisional, AwaitsFinalResponse,
           Service!PassProvisional
      <4>2. CASE inviteFailure \/ inviteSuccess
        BY <3>1, <4>2 DEF onInviteResponseReceived, inviteFailure, inviteSuccess,
           AwaitsFinalResponse, ReportFinal, Notify, Terminate, Service!ReportOutcome
      <4>3. CASE inviteCompleted
        BY <3>1, <4>3 DEF onInviteResponseReceived, inviteCompleted, Terminate, NoReport
      <4> QED BY <3>1, <4>1, <4>2, <4>3 DEF onInviteResponseReceived
    <3>2. CASE onNonInviteResponseReceived(code)
      <4>1. CASE nonInviteProvisional
        BY <3>2, <4>1 DEF onNonInviteResponseReceived, nonInviteProvisional,
           AwaitsFinalResponse, Service!PassProvisional
      <4>2. CASE isResponseFinal(code) /\ nonInviteFinal(code)
        BY <3>2, <4>2 DEF onNonInviteResponseReceived, nonInviteFinal, AwaitsFinalResponse,
           isResponseFinal, ReportFinal, Notify, Service!ReportOutcome
      <4>3. CASE m_eTxState = "completed" /\ Ignored
        BY <3>2, <4>3 DEF onNonInviteResponseReceived, Ignored, NoReport
      <4> QED BY <3>2, <4>1, <4>2, <4>3 DEF onNonInviteResponseReceived
    <3> QED BY <3>1, <3>2 DEF onResponseReceived
  <2>10. CASE Tick
    BY <2>10 DEF Tick, NoReport
  <2>11. CASE UNCHANGED vars
    BY <2>11 DEF vars
  <2> QED
    BY <2>1, <2>2, <2>3, <2>4, <2>5, <2>6, <2>7, <2>8, <2>9, <2>10, <2>11
    DEF Next, RunHandler
<1> QED BY <1>1, <1>2, Invariance, TypeCorrect, PTL DEF Spec, KeepsPromise, Service!Spec, Phase

=============================================================================
