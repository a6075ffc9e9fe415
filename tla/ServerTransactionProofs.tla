---------------------- MODULE ServerTransactionProofs ----------------------
(***************************************************************************)
(* Theorems about the server transaction, for every value of T1 and T4:    *)
(* type correctness, the invariant that ties timers, the final response    *)
(* and the ACK to the state, and the action properties that follow.        *)
(***************************************************************************)
EXTENDS ServerTransaction, TLAPS

LEMMA NextIntervalGPositive ==
  ASSUME TypeOK
  PROVE  NextIntervalG \in Nat \ {0}
  BY ServerTimingAssumption DEF NextIntervalG, Smaller, TypeOK

LEMMA DurationsAreTimes ==
  /\ T1 \in Nat /\ T1 > 0 /\ T4 \in Nat /\ T4 > 0
  /\ TimerH \in Nat /\ TimerH > 0
  /\ TimerG \in Nat /\ (isTransportUnreliable => TimerG > 0)
  /\ TimerI \in Nat
  /\ (IF isTransportUnreliable THEN 64 * T1 ELSE 0) \in Nat
  BY ServerTimingAssumption DEF TimerH, TimerG, TimerI

LEMMA WaitType ==
  ASSUME TypeOK, NEW l \in [Timers -> Nat], NEW t \in Timers, NEW d \in Nat, Wait(l, t, d)
  PROVE  left' \in [Timers -> Nat] /\ queued' \in SUBSET Timers
<1>1. left' \in [Timers -> Nat]
  BY DEF Wait
<1>2. queued' \in SUBSET Timers
  BY DEF Wait, TypeOK
<1> QED BY <1>1, <1>2

\* Every timer that Wait starts is due: waiting, or queued when its time is 0.
LEMMA WaitIsDue ==
  ASSUME NEW l \in [Timers -> Nat], NEW t \in Timers, NEW d \in Nat, Wait(l, t, d)
  PROVE  Due(t)'
  BY DEF Wait, Due

LEMMA AbortType ==
  ASSUME TypeOK, Abort
  PROVE  /\ left' \in [Timers -> Nat] /\ queued' \in SUBSET Timers
         /\ m_eState' \in States /\ finals' \in Nat
         /\ faults' \in SUBSET {"assert", "dangling"}
         /\ m_finalSipResponse' \in {"none", "success", "failure"}
<1>1. left' \in [Timers -> Nat] /\ queued' \in SUBSET Timers
  BY DEF Abort, Unarmed
<1>2. faults' \in SUBSET {"assert", "dangling"}
  BY DEF Abort, TypeOK
<1> QED BY <1>1, <1>2 DEF Abort, NothingSent, States, TypeOK

LEMMA CompleteType ==
  ASSUME TypeOK, Complete
  PROVE  left' \in [Timers -> Nat] /\ queued' \in SUBSET Timers /\ m_eState' \in States
<1>1. left' \in [Timers -> Nat]
  BY DurationsAreTimes DEF Complete, Unarmed
<1> QED BY <1>1 DEF Complete, States, TypeOK

LEMMA SendInviteResponseType ==
  ASSUME TypeOK, NEW code, sendInviteResponse(code)
  PROVE  /\ left' \in [Timers -> Nat] /\ queued' \in SUBSET Timers
         /\ m_eState' \in States /\ finals' \in Nat
         /\ faults' \in SUBSET {"assert", "dangling"}
         /\ m_finalSipResponse' \in {"none", "success", "failure"}
<1>1. CASE m_eState # "proceeding" /\ answersTooLate
  BY <1>1, AbortType DEF answersTooLate
<1>2. CASE Complete /\ SendFinal /\ m_finalSipResponse' = "failure" /\ UNCHANGED faults
  BY <1>2, CompleteType DEF SendFinal, TypeOK
<1>3. CASE Terminate /\ SendFinal /\ m_finalSipResponse' = "success" /\ UNCHANGED <<queued, faults>>
  BY <1>3 DEF Terminate, Unarmed, SendFinal, TypeOK, States
<1>4. CASE UNCHANGED <<m_eState, left, queued, m_finalSipResponse, finals, faults>>
  BY <1>4 DEF TypeOK
<1> QED BY <1>1, <1>2, <1>3, <1>4 DEF sendInviteResponse

\* The state of the transaction keeps its type, and the interval of timer G
\* is never zero.
THEOREM TypeCorrect == Spec => []TypeOK
<1>1. Init => TypeOK
  <2> SUFFICES ASSUME Init PROVE TypeOK
    OBVIOUS
  <2>1. acked \in BOOLEAN
    BY DEF Init
  <2>2. left \in [Timers -> Nat] /\ queued \in SUBSET Timers
    BY DEF Init
  <2>3. faults \in SUBSET {"assert", "dangling"}
    BY DEF Init
  <2>4. m_timerGInterval \in Nat \ {0}
    BY ServerTimingAssumption DEF Init, InitialIntervalG
  <2> QED BY <2>1, <2>2, <2>3, <2>4 DEF Init, TypeOK, States
<1>2. TypeOK /\ [Next]_vars => TypeOK'
  <2> SUFFICES ASSUME TypeOK, [Next]_vars PROVE TypeOK'
    OBVIOUS
  <2> USE DEF TypeOK, fixed
  <2>1. CASE constructInvite
    <3>1. CASE Complete /\ m_finalSipResponse' = "failure" /\ SendFinal /\ UNCHANGED faults
      BY <2>1, <3>1, CompleteType DEF constructInvite, SendFinal
    <3>2. CASE /\ m_eState' = "proceeding"
               /\ UNCHANGED <<left, queued, m_finalSipResponse, finals, faults>>
      BY <2>1, <3>2 DEF constructInvite, States
    <3>3. CASE Abort
      BY <2>1, <3>3, AbortType DEF constructInvite
    <3> QED BY <2>1, <3>1, <3>2, <3>3 DEF constructInvite
  <2>2. CASE constructNonInvite
    <3>1. CASE m_eState' = "trying" /\ NothingSent /\ UNCHANGED <<left, queued, m_finalSipResponse>>
      BY <2>2, <3>1 DEF constructNonInvite, States, NothingSent
    <3>2. CASE /\ m_finalSipResponse' \in {"success", "failure"}
               /\ SendFinal
               /\ CompleteNonInvite
      <4>1. left' \in [Timers -> Nat] /\ queued' \in SUBSET Timers
        BY <3>2, WaitType, DurationsAreTimes DEF CompleteNonInvite, Timers
      <4> QED BY <2>2, <3>2, <4>1 DEF constructNonInvite, States, SendFinal, CompleteNonInvite
    <3> QED BY <2>2, <3>1, <3>2 DEF constructNonInvite
  <2>3. CASE ringing \/ accept \/ reject
    BY <2>3, SendInviteResponseType DEF ringing, accept, reject, answer
  <2>4. CASE onAckReceived
    <3>1. acked' \in BOOLEAN
      BY <2>4 DEF onAckReceived
    <3>2. CASE Abort
      BY <2>4, <3>1, <3>2, AbortType DEF onAckReceived
    <3>3. CASE Confirm /\ NothingSent /\ UNCHANGED <<faults, m_finalSipResponse>>
      <4>1. left' \in [Timers -> Nat] /\ queued' \in SUBSET Timers
        BY <3>3, WaitType, DurationsAreTimes DEF Confirm, Timers
      <4> QED BY <2>4, <3>1, <3>3, <4>1 DEF onAckReceived, Confirm, NothingSent, States
    <3> QED BY <2>4, <3>2, <3>3 DEF onAckReceived
  <2>5. CASE onRequestReceived
    BY <2>5 DEF onRequestReceived, NothingSent
  <2>6. CASE handleTimerGTimeout
    <3>1. faults' \in SUBSET {"assert", "dangling"}
      BY <2>6 DEF handleTimerGTimeout
    <3>2. left' \in [Timers -> Nat] /\ m_timerGInterval' \in Nat \ {0} /\ finals' \in Nat
      BY <2>6, NextIntervalGPositive DEF handleTimerGTimeout, NothingSent
    <3> QED BY <2>6, <3>1, <3>2 DEF handleTimerGTimeout, Runs
  <2>7. CASE handleTimerHTimeout
    <3>1. faults' \in SUBSET {"assert", "dangling"}
      BY <2>7 DEF handleTimerHTimeout
    <3>2. left' \in [Timers -> Nat] /\ m_eState' \in States
      BY <2>7 DEF handleTimerHTimeout, Terminate, Unarmed, States
    <3> QED BY <2>7, <3>1, <3>2 DEF handleTimerHTimeout, Runs, NothingSent
  <2>8. CASE \E t \in {"I", "J"} : handleTimerIOrJTimeout(t)
    BY <2>8 DEF handleTimerIOrJTimeout, Runs, Terminate, Unarmed, NothingSent, States
  <2>9. CASE \E t \in Timers : handlerAfterDestruction(t)
    BY <2>9 DEF handlerAfterDestruction
  <2>10. CASE Tick
    BY <2>10 DEF Tick, NothingSent
  <2>11. CASE UNCHANGED vars
    BY <2>11 DEF vars
  <2> QED
    BY <2>1, <2>2, <2>3, <2>4, <2>5, <2>6, <2>7, <2>8, <2>9, <2>10, <2>11
    DEF Next, construct, RunHandler
<1> QED BY <1>1, <1>2, PTL DEF Spec

-----------------------------------------------------------------------------
(***************************************************************************)
(* The inductive invariant.  The way out of Completed and Confirmed needs  *)
(* only that the entry of the state arms its timer and that nothing but    *)
(* its handler removes it; the action properties need that a response is   *)
(* stored exactly when the states that still answer have been left, and    *)
(* that an acknowledged transaction is in none of the states that send or  *)
(* report.                                                                 *)
(***************************************************************************)
StateMatchesMethod ==
  /\ IsInvite => m_eState # "trying"
  /\ ~IsInvite => m_eState \notin {"proceeding", "confirmed"}

FinalStoredWhenLeft ==
  m_eState \in {"new", "trying", "proceeding"} => m_finalSipResponse = "none" /\ ~acked

AckedIsSettled == acked => m_eState \in {"confirmed", "terminated", "aborted"}

Inv ==
  /\ StateMatchesMethod
  /\ FinalStoredWhenLeft
  /\ AckedIsSettled
  /\ AlwaysAWayOut
  /\ RetransmittedUntilAcked

LEMMA InvInit == Init => Inv
  BY DEF Init, Inv, StateMatchesMethod, FinalStoredWhenLeft, AckedIsSettled, AlwaysAWayOut,
     RetransmittedUntilAcked

LEMMA CompleteArmsTimers ==
  ASSUME TypeOK, Complete, UNCHANGED m_eProtocol
  PROVE  Due("H")' /\ (isTransportUnreliable' => Due("G")')
<1>1. left'["H"] = TimerH /\ left'["G"] = TimerG
  BY DEF Complete, Unarmed, Timers
<1>2. isTransportUnreliable' <=> isTransportUnreliable
  BY DEF isTransportUnreliable
<1> QED BY <1>1, <1>2, DurationsAreTimes DEF Due

LEMMA InvNext == TypeOK /\ TypeOK' /\ Inv /\ [Next]_vars => Inv'
<1> SUFFICES ASSUME TypeOK, TypeOK', Inv, [Next]_vars PROVE Inv'
  OBVIOUS
<1> USE DEF Inv, StateMatchesMethod, FinalStoredWhenLeft, AckedIsSettled, AlwaysAWayOut,
    RetransmittedUntilAcked, IsInvite, fixed
<1>1. CASE constructInvite
  <2>1. CASE Complete
    BY <1>1, <2>1, CompleteArmsTimers DEF constructInvite, Complete
  <2>2. CASE m_eState' = "proceeding" /\ UNCHANGED m_finalSipResponse
    BY <1>1, <2>2 DEF constructInvite
  <2>3. CASE Abort
    BY <1>1, <2>3 DEF constructInvite, Abort
  <2> QED BY <1>1, <2>1, <2>2, <2>3 DEF constructInvite
<1>2. CASE constructNonInvite
  <2>1. CASE CompleteNonInvite
    <3>1. Due("J")'
      BY <2>1, WaitIsDue, DurationsAreTimes DEF CompleteNonInvite, Timers, TypeOK
    <3> QED BY <1>2, <2>1, <3>1 DEF constructNonInvite, CompleteNonInvite
  <2>2. CASE m_eState' = "trying" /\ UNCHANGED m_finalSipResponse
    BY <1>2, <2>2 DEF constructNonInvite
  <2> QED BY <1>2, <2>1, <2>2 DEF constructNonInvite
<1>3. CASE ringing \/ accept \/ reject
  <2> PICK code : answer(code)
    BY <1>3 DEF ringing, accept, reject
  <2>1. CASE answersTooLate
    BY <2>1 DEF answer, answersTooLate, Abort
  <2>2. CASE Complete /\ m_eState = "proceeding"
    BY <2>2, CompleteArmsTimers DEF answer, Complete
  <2>3. CASE Terminate
    BY <2>3 DEF answer, Terminate
  <2>4. CASE UNCHANGED <<m_eState, left, queued, m_finalSipResponse>> /\ m_eState = "proceeding"
    BY <2>4 DEF answer
  <2> QED BY <2>1, <2>2, <2>3, <2>4 DEF answer, sendInviteResponse
<1>4. CASE onAckReceived
  <2>1. CASE Abort
    BY <1>4, <2>1 DEF onAckReceived, Abort
  <2>2. CASE IsInvite /\ Confirm
    <3>1. Due("I")'
      BY <2>2, WaitIsDue, DurationsAreTimes DEF Confirm, Timers, TypeOK
    <3> QED BY <1>4, <2>2, <3>1 DEF onAckReceived, Confirm
  <2> QED BY <1>4, <2>1, <2>2 DEF onAckReceived
<1>5. CASE onRequestReceived
  BY <1>5 DEF onRequestReceived, Due, isTransportUnreliable
<1>6. CASE handleTimerGTimeout
  BY <1>6, NextIntervalGPositive
     DEF handleTimerGTimeout, Runs, Retransmits, Due, TypeOK, Timers, isTransportUnreliable
<1>7. CASE handleTimerHTimeout
  BY <1>7 DEF handleTimerHTimeout, Runs, AckNeverArrived, Terminate, Due, isTransportUnreliable
<1>8. CASE \E t \in {"I", "J"} : handleTimerIOrJTimeout(t)
  BY <1>8 DEF handleTimerIOrJTimeout, Runs, Terminate
<1>9. CASE \E t \in Timers : handlerAfterDestruction(t)
  BY <1>9 DEF handlerAfterDestruction
<1>10. CASE Tick
  BY <1>10 DEF Tick, Due, TypeOK, Timers, isTransportUnreliable
<1>11. CASE UNCHANGED vars
  BY <1>11 DEF vars, Due, isTransportUnreliable
<1> QED
  BY <1>1, <1>2, <1>3, <1>4, <1>5, <1>6, <1>7, <1>8, <1>9, <1>10, <1>11
  DEF Next, construct, RunHandler

LEMMA Invariance == Spec => []Inv
<1> QED BY InvInit, InvNext, TypeCorrect, PTL DEF Spec

\* A transaction that has sent its final response always has the timer that
\* will erase it, even if that timer runs for zero milliseconds.
THEOREM WayOut == Spec => []AlwaysAWayOut
<1>1. Inv => AlwaysAWayOut
  BY DEF Inv
<1> QED BY Invariance, <1>1, PTL

\* Until it is acknowledged, a failure response over UDP is due to be resent.
THEOREM RetransmissionDue == Spec => []RetransmittedUntilAcked
<1>1. Inv => RetransmittedUntilAcked
  BY DEF Inv
<1> QED BY Invariance, <1>1, PTL

-----------------------------------------------------------------------------
(* Action properties.                                                      *)

\* Nothing but the stored final response is sent once there is one, and it is
\* never replaced: late answers of the application, retransmissions of the
\* request, ACKs and every timer included.
THEOREM FinalResponseStands == Spec => FinalIsFinal
<1>1. TypeOK /\ Inv /\ [Next]_vars =>
        [m_finalSipResponse # "none" =>
           /\ m_finalSipResponse' = m_finalSipResponse
           /\ wire' \in {<<>>, <<m_finalSipResponse>>}]_vars
  <2> SUFFICES ASSUME Inv, Next, m_finalSipResponse # "none"
               PROVE  /\ m_finalSipResponse' = m_finalSipResponse
                      /\ wire' \in {<<>>, <<m_finalSipResponse>>}
    BY DEF vars
  <2>0. m_eState \notin {"new", "trying", "proceeding"}
    BY DEF Inv, FinalStoredWhenLeft
  <2> USE DEF Sent, NotSent, NothingSent
  <2>1. CASE construct
    BY <2>0, <2>1 DEF construct, constructInvite, constructNonInvite
  <2>2. CASE ringing \/ accept \/ reject
    <3>1. answersTooLate
      BY <2>0, <2>2 DEF ringing, accept, reject, answer, sendInviteResponse
    <3> QED BY <3>1 DEF answersTooLate, Abort
  <2>3. CASE onAckReceived
    BY <2>3 DEF onAckReceived, Abort
  <2>4. CASE onRequestReceived
    BY <2>4 DEF onRequestReceived
  <2>5. CASE handleTimerGTimeout
    BY <2>5 DEF handleTimerGTimeout, Runs
  <2>6. CASE handleTimerHTimeout \/ \E t \in {"I", "J"} : handleTimerIOrJTimeout(t)
    BY <2>6 DEF handleTimerHTimeout, handleTimerIOrJTimeout, Runs
  <2>7. CASE \E t \in Timers : handlerAfterDestruction(t)
    BY <2>7 DEF handlerAfterDestruction
  <2>8. CASE Tick
    BY <2>8 DEF Tick
  <2> QED BY <2>1, <2>2, <2>3, <2>4, <2>5, <2>6, <2>7, <2>8 DEF Next, RunHandler
<1> QED BY <1>1, Invariance, TypeCorrect, PTL DEF Spec, FinalIsFinal

\* An acknowledged transaction is never reported as timed out, although G is
\* not cancelled by the ACK and the handler of H may already be queued.
THEOREM AckedNeverTimesOut == Spec => NoTimeoutOnceAcked
<1>1. Inv /\ [Next]_vars => [acked => tu' = <<>>]_vars
  <2> SUFFICES ASSUME Inv, Next, acked PROVE tu' = <<>>
    BY DEF vars
  <2>0. m_eState \in {"confirmed", "terminated", "aborted"}
    BY DEF Inv, AckedIsSettled
  <2>1. CASE construct
    BY <2>0, <2>1 DEF construct, constructInvite, constructNonInvite
  <2>2. CASE ringing \/ accept \/ reject
    BY <2>2 DEF ringing, accept, reject, answer
  <2>3. CASE onAckReceived \/ onRequestReceived
    BY <2>3 DEF onAckReceived, onRequestReceived
  <2>4. CASE handleTimerGTimeout
    BY <2>0, <2>4 DEF handleTimerGTimeout, Retransmits
  <2>5. CASE handleTimerHTimeout
    BY <2>0, <2>5 DEF handleTimerHTimeout, AckNeverArrived
  <2>6. CASE \E t \in {"I", "J"} : handleTimerIOrJTimeout(t)
    BY <2>6 DEF handleTimerIOrJTimeout
  <2>7. CASE \E t \in Timers : handlerAfterDestruction(t)
    BY <2>7 DEF handlerAfterDestruction
  <2>8. CASE Tick
    BY <2>8 DEF Tick
  <2> QED BY <2>1, <2>2, <2>3, <2>4, <2>5, <2>6, <2>7, <2>8 DEF Next, RunHandler
<1> QED BY <1>1, Invariance, PTL DEF Spec, NoTimeoutOnceAcked

\* Nothing is sent in Confirmed: timer G still runs there, late answers of the
\* application abort, and requests are ignored.
THEOREM ConfirmedIsSilent == Spec => SilentOnceConfirmed
<1>1. Inv /\ [Next]_vars => [m_eState = "confirmed" => wire' = <<>>]_vars
  <2> SUFFICES ASSUME Inv, Next, m_eState = "confirmed" PROVE wire' = <<>>
    BY DEF vars
  <2>0. IsInvite
    BY DEF Inv, StateMatchesMethod
  <2> USE DEF NothingSent
  <2>1. CASE construct
    BY <2>1 DEF construct, constructInvite, constructNonInvite
  <2>2. CASE ringing \/ accept \/ reject
    <3>1. answersTooLate
      BY <2>0, <2>2 DEF ringing, accept, reject, answer, sendInviteResponse
    <3> QED BY <3>1 DEF answersTooLate, Abort
  <2>3. CASE onAckReceived
    BY <2>3 DEF onAckReceived, Abort
  <2>4. CASE onRequestReceived
    BY <2>4 DEF onRequestReceived
  <2>5. CASE handleTimerGTimeout
    BY <2>5 DEF handleTimerGTimeout, Retransmits
  <2>6. CASE handleTimerHTimeout \/ \E t \in {"I", "J"} : handleTimerIOrJTimeout(t)
    BY <2>6 DEF handleTimerHTimeout, handleTimerIOrJTimeout
  <2>7. CASE \E t \in Timers : handlerAfterDestruction(t)
    BY <2>7 DEF handlerAfterDestruction, Alive
  <2>8. CASE Tick
    BY <2>8 DEF Tick
  <2> QED BY <2>1, <2>2, <2>3, <2>4, <2>5, <2>6, <2>7, <2>8 DEF Next, RunHandler
<1> QED BY <1>1, Invariance, PTL DEF Spec, SilentOnceConfirmed
=============================================================================
