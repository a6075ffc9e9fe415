-------------------------- MODULE ClientTransaction --------------------------
(***************************************************************************)
(* One SIP client transaction (rfc3261/ClientTransaction.cpp) as the       *)
(* TransactionUser that owns it sees it: the constructor sends the         *)
(* request, responses that match it arrive from the transport layer, its   *)
(* boost::asio timers fire, and it reports to the transaction user (TU)    *)
(* until the termination notifier erases it.                               *)
(*                                                                         *)
(* Time advances in ticks of 500 ms, the largest unit of which every       *)
(* interval of the code is a multiple.  A timer is waiting (left[t] > 0),  *)
(* expired with its handler in the io_service queue (t \in queued), or     *)
(* idle.  As in asio, cancel() stops a waiting timer and cannot recall a   *)
(* handler that is already queued: that handler still runs, without error. *)
(***************************************************************************)
EXTENDS Naturals, Sequences

CONSTANTS
  T1, T2, T4,       \* INTERVAL_T1/T2/T4_DEFAULT_MS, in ticks
  TimerD,           \* INTERVAL_UNRELIABLE_PROTOCOL_TIMEOUT_S, in ticks
  MaxInterval,      \* bound: longer timer A intervals are not told apart
  SendMayFail       \* whether sendSipMessage may return an error

ASSUME TimingAssumption ==
  /\ T1 \in Nat \ {0} /\ T2 \in Nat \ {0} /\ T4 \in Nat \ {0}
  /\ TimerD \in Nat \ {0} /\ MaxInterval \in Nat \ {0}
  /\ SendMayFail \in BOOLEAN

VARIABLES
  m_eTxType,        \* CT_INVITE or CT_NON_INVITE
  m_eProtocol,      \* TP_UDP or TP_TCP
  m_eTxState,
  left,             \* ticks until each waiting timer expires, 0 if not waiting
  queued,           \* timers whose handler waits in the io_service queue
  m_timerAInterval, m_timerEInterval,
  m_bTuHasBeenNotififedOfFinalResponse,
  wire,             \* the messages the last step gave to the transport layer
  tu,               \* the notifications the last step gave to the TU
  outcome,          \* the last final outcome of which the TU was notified
  requests,         \* requests sent before any response arrived
  faults            \* "assert": an assert(...) of the code failed;
                    \* "dangling": a handler ran on a destroyed transaction

vars == <<m_eTxType, m_eProtocol, m_eTxState, left, queued, m_timerAInterval,
          m_timerEInterval, m_bTuHasBeenNotififedOfFinalResponse, wire, tu,
          outcome, requests, faults>>

fixed == <<m_eTxType, m_eProtocol>>

Types == {"CT_INVITE", "CT_NON_INVITE"}
Protocols == {"TP_UDP", "TP_TCP"}
Timers == {"A", "B", "D", "E", "F", "K"}

\* "constructing" precedes the constructor's send; "refused" is a transaction
\* whose first send failed, which beginTransaction drops again.
States == {"constructing", "refused", "calling", "proceeding", "completed", "terminated"}

Alive == m_eTxState \in {"calling", "proceeding", "completed"}

\* The classes of response codes that the code tells apart.
Responses == {"provisional", "success", "failure"}
Outcomes == {"none", "timeout", "success", "failure"}

isResponseProvisional(code) == code = "provisional"
isResponseSuccessfull(code) == code = "success"
isFinalNonSuccessfulResponse(code) == code = "failure"
isResponseFinal(code) == code \in {"success", "failure"}
isTransportUnreliable == m_eProtocol = "TP_UDP"

Smaller(a, b) == IF a < b THEN a ELSE b

ZeroInterval == 0
InitialInterval == T1

Init ==
  /\ m_eTxType \in Types
  /\ m_eProtocol \in Protocols
  /\ m_eTxState = "constructing"
  /\ left = [t \in Timers |-> 0]
  /\ queued = {}
  /\ m_timerAInterval = InitialInterval
  /\ m_timerEInterval = InitialInterval
  /\ m_bTuHasBeenNotififedOfFinalResponse = FALSE
  /\ wire = <<>>
  /\ tu = <<>>
  /\ outcome = "none"
  /\ requests = 0
  /\ faults = {}

-----------------------------------------------------------------------------
(* Fragments shared by the handlers.                                       *)

\* sendSipMessage(m): an error is returned only if no connection could be
\* obtained; what happens to the message on the way is never known here.
Send(m) == wire' = <<m>>
SendFails == SendMayFail /\ wire' = <<>>

Notify(event) == tu' = <<event>>
NoReport == tu' = <<>> /\ UNCHANGED outcome

\* m_tuNotifier called with a final response or with timed_out.
ReportFinal(what) == outcome' = what /\ Notify(what)

Cancel(timers) == [t \in Timers |-> IF t \in timers THEN 0 ELSE left[t]]

\* updateState(CTXS_TERMINATED): the termination notifier erases the object,
\* whose destructor cancels every timer.
Terminate ==
  /\ m_eTxState' = "terminated"
  /\ left' = [t \in Timers |-> 0]

\* The handler of timer t runs on a live transaction.
Runs(t) ==
  /\ t \in queued
  /\ Alive
  /\ queued' = queued \ {t}
  /\ UNCHANGED <<fixed, m_bTuHasBeenNotififedOfFinalResponse>>

-----------------------------------------------------------------------------
(* Constructor: beginInviteTransaction and beginNonInviteTransaction.      *)

\* Timer A or E for unreliable transports, timer B or F always.
TimersAtStart ==
  IF m_eTxType = "CT_INVITE"
  THEN [left EXCEPT !["A"] = IF isTransportUnreliable THEN T1 ELSE 0, !["B"] = 64 * T1]
  ELSE [left EXCEPT !["E"] = IF isTransportUnreliable THEN T1 ELSE 0, !["F"] = 64 * T1]

\* When the send fails the timers that were started die with the object.
begin ==
  /\ m_eTxState = "constructing"
  /\ \/ /\ SendFails
        /\ m_eTxState' = "refused"
        /\ UNCHANGED <<left, requests>>
     \/ /\ Send("request")
        /\ m_eTxState' = "calling"
        /\ left' = TimersAtStart
        /\ requests' = 1
  /\ NoReport
  /\ UNCHANGED <<fixed, queued, m_timerAInterval, m_timerEInterval,
                 m_bTuHasBeenNotififedOfFinalResponse, faults>>

-----------------------------------------------------------------------------
(* Timer handlers.                                                         *)

ConstantIntervalA == m_timerAInterval
NextIntervalA == Smaller(2 * m_timerAInterval, MaxInterval)

\* The request is resent whatever the state: the handler does not look at it.
handleTimerATimeout ==
  /\ Runs("A")
  /\ m_timerAInterval' = NextIntervalA
  /\ \/ SendFails /\ Terminate /\ UNCHANGED requests
     \/ /\ Send("request")
        /\ left' = [left EXCEPT !["A"] = NextIntervalA]
        /\ requests' = IF m_eTxState = "calling" THEN requests + 1 ELSE requests
        /\ UNCHANGED m_eTxState
  /\ NoReport
  /\ UNCHANGED <<m_timerEInterval, faults>>

TimesOut == ReportFinal("timeout") /\ Terminate
Ignored == NoReport /\ UNCHANGED <<m_eTxState, left>>

handleTimerBTimeout ==
  /\ Runs("B")
  /\ IF m_eTxState = "calling" THEN TimesOut ELSE Ignored
  /\ wire' = <<>>
  /\ UNCHANGED <<m_timerAInterval, m_timerEInterval, requests, faults>>

handleTimerDTimeout ==
  /\ Runs("D")
  /\ IF m_eTxState = "completed"
     THEN Terminate /\ UNCHANGED faults
     ELSE faults' = faults \union {"assert"} /\ UNCHANGED <<m_eTxState, left>>
  /\ wire' = <<>>
  /\ NoReport
  /\ UNCHANGED <<m_timerAInterval, m_timerEInterval, requests>>

timerEInCalling ==
  /\ m_eTxState = "calling"
  /\ m_timerEInterval' = Smaller(2 * m_timerEInterval, T2)
  /\ \/ SendFails /\ Terminate /\ UNCHANGED requests
     \/ /\ Send("request")
        /\ left' = [left EXCEPT !["E"] = Smaller(2 * m_timerEInterval, T2)]
        /\ requests' = requests + 1
        /\ UNCHANGED m_eTxState

\* The expiry is set to T2, but no handler is installed for it.
timerEInProceeding ==
  /\ m_eTxState = "proceeding"
  /\ \/ SendFails /\ Terminate /\ UNCHANGED m_timerEInterval
     \/ Send("request") /\ m_timerEInterval' = T2 /\ UNCHANGED <<m_eTxState, left>>
  /\ UNCHANGED requests

timerEInCompleted ==
  /\ m_eTxState = "completed"
  /\ wire' = <<>>
  /\ UNCHANGED <<m_eTxState, left, m_timerEInterval, requests>>

handleTimerETimeout ==
  /\ Runs("E")
  /\ timerEInCalling \/ timerEInProceeding \/ timerEInCompleted
  /\ NoReport
  /\ UNCHANGED <<m_timerAInterval, faults>>

TimeoutInCallingOnly == m_eTxState = "calling"
TimeoutStillApplies == m_eTxState \in {"calling", "proceeding"}

handleTimerFTimeout ==
  /\ Runs("F")
  /\ IF TimeoutStillApplies THEN TimesOut ELSE Ignored
  /\ wire' = <<>>
  /\ UNCHANGED <<m_timerAInterval, m_timerEInterval, requests, faults>>

handleTimerKTimeout ==
  /\ Runs("K")
  /\ faults' = IF m_eTxState = "completed" THEN faults ELSE faults \union {"assert"}
  /\ Terminate
  /\ wire' = <<>>
  /\ NoReport
  /\ UNCHANGED <<m_timerAInterval, m_timerEInterval, requests>>

\* A queued handler whose transaction has been erased runs on a dead object:
\* undefined behaviour, of which the model keeps "nothing happens" and "the
\* stale request is sent".
handlerAfterDestruction(t) ==
  /\ t \in queued
  /\ m_eTxState = "terminated"
  /\ queued' = queued \ {t}
  /\ faults' = faults \union {"dangling"}
  /\ Send("request") \/ wire' = <<>>
  /\ NoReport
  /\ UNCHANGED <<fixed, m_eTxState, left, m_timerAInterval, m_timerEInterval,
                 requests, m_bTuHasBeenNotififedOfFinalResponse>>

-----------------------------------------------------------------------------
(* Responses that the user agent matched to this transaction.              *)

NotYetTerminated == Alive
AwaitsFinalResponse == m_eTxState \in {"calling", "proceeding"}

\* Every response to an INVITE stops its retransmission on UDP.
TimerAStopped == IF isTransportUnreliable THEN Cancel({"A"}) ELSE left

\* A provisional response in Calling runs through both case labels of the
\* switch, and each of them notifies the TU.
inviteProvisional ==
  /\ AwaitsFinalResponse
  /\ m_eTxState' = "proceeding"
  /\ tu' = IF m_eTxState = "calling" THEN <<"provisional", "provisional">>
                                     ELSE <<"provisional">>
  /\ left' = IF m_eTxState = "calling" THEN Cancel({"A"}) ELSE TimerAStopped
  /\ wire' = <<>>
  /\ UNCHANGED <<outcome, queued, m_bTuHasBeenNotififedOfFinalResponse>>

\* Timer D runs for m_timerDIntervalS: with 0 its handler is queued at once.
\* When the ACK cannot be sent the transaction ends immediately (sendAck).
inviteFailure ==
  /\ AwaitsFinalResponse
  /\ ReportFinal("failure")
  /\ m_bTuHasBeenNotififedOfFinalResponse' = TRUE
  /\ \/ SendFails /\ Terminate /\ UNCHANGED queued
     \/ /\ Send("ack")
        /\ m_eTxState' = "completed"
        /\ IF isTransportUnreliable
           THEN left' = [TimerAStopped EXCEPT !["D"] = TimerD] /\ UNCHANGED queued
           ELSE queued' = queued \union {"D"} /\ UNCHANGED left

inviteSuccess ==
  /\ AwaitsFinalResponse
  /\ ReportFinal("success")
  /\ Terminate
  /\ wire' = <<>>
  /\ UNCHANGED <<queued, m_bTuHasBeenNotififedOfFinalResponse>>

\* Whatever its code, a response in Completed is answered by an ACK.
inviteCompleted ==
  /\ m_eTxState = "completed"
  /\ \/ m_bTuHasBeenNotififedOfFinalResponse /\ SendFails /\ Terminate
     \/ /\ IF m_bTuHasBeenNotififedOfFinalResponse THEN Send("ack") ELSE wire' = <<>>
        /\ left' = TimerAStopped
        /\ UNCHANGED m_eTxState
  /\ NoReport
  /\ UNCHANGED <<queued, m_bTuHasBeenNotififedOfFinalResponse>>

onInviteResponseReceived(code) ==
  /\ m_eTxType = "CT_INVITE"
  /\ \/ isResponseProvisional(code) /\ inviteProvisional
     \/ isFinalNonSuccessfulResponse(code) /\ inviteFailure
     \/ isResponseSuccessfull(code) /\ inviteSuccess
     \/ inviteCompleted
  /\ UNCHANGED <<fixed, m_timerAInterval, m_timerEInterval, requests, faults>>

\* Only the provisional response that leaves Trying is passed to the TU.
nonInviteProvisional ==
  /\ AwaitsFinalResponse
  /\ m_eTxState' = "proceeding"
  /\ tu' = IF m_eTxState = "calling" THEN <<"provisional">> ELSE <<>>
  /\ UNCHANGED <<outcome, left>>

\* Timer K is started for unreliable transports only.
nonInviteFinal(code) ==
  /\ AwaitsFinalResponse
  /\ m_eTxState' = "completed"
  /\ left' = [Cancel({"E", "F"}) EXCEPT !["K"] = IF isTransportUnreliable THEN T4 ELSE 0]
  /\ ReportFinal(code)

onNonInviteResponseReceived(code) ==
  /\ m_eTxType = "CT_NON_INVITE"
  /\ \/ isResponseProvisional(code) /\ nonInviteProvisional
     \/ isResponseFinal(code) /\ nonInviteFinal(code)
     \/ m_eTxState = "completed" /\ Ignored
  /\ wire' = <<>>
  /\ UNCHANGED <<fixed, queued, m_timerAInterval, m_timerEInterval, requests,
                 m_bTuHasBeenNotififedOfFinalResponse, faults>>

onResponseReceived(code) ==
  /\ Alive
  /\ onInviteResponseReceived(code) \/ onNonInviteResponseReceived(code)

-----------------------------------------------------------------------------
\* 500 ms pass.  The io_service runs its queue within one tick, so time does
\* not advance while handlers wait.
Tick ==
  /\ queued = {}
  /\ Alive
  /\ left' = [t \in Timers |-> IF left[t] > 0 THEN left[t] - 1 ELSE 0]
  /\ queued' = {t \in Timers : left[t] = 1}
  /\ wire' = <<>>
  /\ NoReport
  /\ UNCHANGED <<fixed, m_eTxState, m_timerAInterval, m_timerEInterval, requests,
                 m_bTuHasBeenNotififedOfFinalResponse, faults>>

RunHandler ==
  \/ handleTimerATimeout
  \/ handleTimerBTimeout
  \/ handleTimerDTimeout
  \/ handleTimerETimeout
  \/ handleTimerFTimeout
  \/ handleTimerKTimeout
  \/ \E t \in Timers : handlerAfterDestruction(t)

Next ==
  \/ begin
  \/ RunHandler
  \/ \E code \in Responses : onResponseReceived(code)
  \/ Tick

\* The io_service keeps running its queue and the clock keeps advancing;
\* nothing obliges a peer to answer.
Spec == Init /\ [][Next]_vars /\ WF_vars(begin) /\ WF_vars(RunHandler) /\ WF_vars(Tick)

-----------------------------------------------------------------------------
(* Properties.                                                             *)

\* The values the state can take; in particular no retransmission interval is
\* ever zero, which would turn timer A or E into a busy loop of requests.
TypeOK ==
  /\ m_eTxType \in Types
  /\ m_eProtocol \in Protocols
  /\ m_eTxState \in States
  /\ left \in [Timers -> Nat]
  /\ queued \in SUBSET Timers
  /\ m_timerAInterval \in Nat \ {0}
  /\ m_timerEInterval \in Nat \ {0}
  /\ m_bTuHasBeenNotififedOfFinalResponse \in BOOLEAN
  /\ outcome \in Outcomes
  /\ requests \in Nat
  /\ faults \in SUBSET {"assert", "dangling"}

\* No assert of the timer handlers fails: however responses, expiries and
\* already queued handlers interleave, timers D and K find a live transaction
\* in Completed.
NoAssertionFails == "assert" \notin faults

Due(t) == left[t] > 0 \/ t \in queued

\* A live transaction always has a timer that will end it, waiting or queued:
\* B or F until a final response, D or K after it.  Left out are the two
\* places where the code arms none: an INVITE that has a provisional response,
\* and a non-INVITE completed over a reliable transport.
AlwaysAWayOut ==
  /\ m_eTxType = "CT_INVITE" =>
       /\ m_eTxState = "calling" => Due("B")
       /\ m_eTxState = "completed" => Due("D")
  /\ m_eTxType = "CT_NON_INVITE" =>
       /\ m_eTxState \in {"calling", "proceeding"} => Due("F")
       /\ m_eTxState = "completed" /\ isTransportUnreliable => Due("K")

\* The wait of 64*T1 is exactly the time of seven requests when an INVITE over
\* UDP gets no answer (the comment in handleTimerBTimeout), and of at most
\* eleven for a non-INVITE, whose interval stops growing at T2.
RequestsBeforeTimeout ==
  outcome = "timeout" /\ isTransportUnreliable =>
    \/ m_eTxType = "CT_INVITE" /\ requests = 7
    \/ m_eTxType = "CT_NON_INVITE" /\ requests \in 1..11

Sends(m) == m \in {wire[i] : i \in DOMAIN wire}

\* The transaction acknowledges only a failure that it has reported: never a
\* timeout, never a 2xx (which the UAC core acknowledges).
AckOnlyAfterFailure == [][Sends("ack")' => outcome' = "failure"]_vars

\* Under a running io_service an INVITE leaves Calling, and a completed one is
\* destroyed; a non-INVITE over UDP is destroyed whatever the peer does.
EventuallyLeaves ==
  /\ (m_eTxType = "CT_INVITE" /\ m_eTxState = "calling") ~> (m_eTxState # "calling")
  /\ (m_eTxType = "CT_INVITE" /\ m_eTxState = "completed") ~> (m_eTxState = "terminated")
  /\ (m_eTxType = "CT_NON_INVITE" /\ isTransportUnreliable /\ Alive) ~> ~Alive

Service == INSTANCE TransactionService WITH
  phase <- IF m_eTxState \in {"terminated", "refused"} THEN "over"
           ELSE IF outcome = "none" THEN "open" ELSE "told"

\* The transaction keeps the promise made to the TU: no second outcome and no
\* provisional response after the outcome, although retransmitted responses
\* and queued timeouts keep arriving.
KeepsPromise == Service!Spec

-----------------------------------------------------------------------------
(* What comments in the code claim and the code does not do.               *)

\* "the provisional response MUST be passed to the TU" (comment in
\* onInviteResponseReceived): each response is passed on once.
ResponsePassedOnce == [][Len(tu') <= 1]_vars

\* "In the "Proceeding" state, the client transaction SHOULD NOT retransmit the
\* request any longer" (same place).
NoRequestAfterResponse ==
  [][m_eTxType = "CT_INVITE" /\ m_eTxState = "proceeding" => ~Sends("request")']_vars

\* "Timer E MUST be reset with a value of T2 seconds" when it fires in
\* Proceeding (comment in handleTimerETimeout): it stays armed until F fires.
TimerEKeepsRunning ==
  m_eTxType = "CT_NON_INVITE" /\ isTransportUnreliable /\ m_eTxState = "proceeding" => Due("E")

\* "it MUST set Timer K to fire in T4 seconds for unreliable transports, and
\* zero seconds for reliable transports" (comment in updateState): a completed
\* non-INVITE transaction terminates on every transport.
CompletedTerminates == (m_eTxState = "completed") ~> (m_eTxState = "terminated")

\* "the tx object becomes invalid!!" (TransactionUser::onTransactionTermination):
\* no handler of a destroyed transaction runs.
NoHandlerAfterDestruction == "dangling" \notin faults
==============================================================================
