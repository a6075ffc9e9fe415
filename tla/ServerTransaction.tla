-------------------------- MODULE ServerTransaction --------------------------
(***************************************************************************)
(* One SIP server transaction (rfc3261/ServerTransaction.cpp) in the       *)
(* UserAgentServer that owns it.  It is created by a request, asks the     *)
(* transaction user for an answer inside its constructor, and later takes  *)
(* the application's ringing, accept and reject, retransmissions of the    *)
(* request, ACKs and its own timers, until it is erased.                   *)
(*                                                                         *)
(* Ticks, timers and the io_service queue are those of ClientTransaction.  *)
(* The build has asserts enabled: a failing assert aborts the process,     *)
(* which the model shows as the state "aborted", where nothing happens.    *)
(***************************************************************************)
EXTENDS Naturals, Sequences

CONSTANTS
  T1, T4,           \* INTERVAL_T1/T4_DEFAULT_MS, in ticks
  SendMayFail       \* whether sendSipMessage may return an error

ASSUME ServerTimingAssumption ==
  /\ T1 \in Nat \ {0} /\ T4 \in Nat \ {0}
  /\ SendMayFail \in BOOLEAN

VARIABLES
  method,           \* of m_request; the code keeps it and m_eTxType
  m_eProtocol,
  m_eState,         \* m_eInviteState or m_eNonInviteState
  left, queued,     \* as in ClientTransaction
  m_timerGInterval,
  m_finalSipResponse,
  received,         \* the message whose receipt the last step was
  wire,             \* the responses the last step gave to the transport layer
  tu,               \* the notifications the last step gave to the TU
  finals,           \* how often the final response was given to the transport
  acked,            \* an ACK has arrived
  faults            \* as in ClientTransaction

vars == <<method, m_eProtocol, m_eState, left, queued, m_timerGInterval,
          m_finalSipResponse, received, wire, tu, finals, acked, faults>>

\* An ACK for a 2xx arrives as a request of its own.
Methods == {"INVITE", "ACK", "BYE"}
Protocols == {"TP_UDP", "TP_TCP"}
Timers == {"G", "H", "I", "J"}
States == {"new", "trying", "proceeding", "completed", "confirmed", "terminated", "aborted"}

IsInvite == method = "INVITE"
Alive == m_eState \in {"trying", "proceeding", "completed", "confirmed"}
isTransportUnreliable == m_eProtocol = "TP_UDP"

Smaller(a, b) == IF a < b THEN a ELSE b

ZeroInterval == 0
InitialIntervalG == T1

Init ==
  /\ method \in Methods
  /\ m_eProtocol \in Protocols
  /\ m_eState = "new"
  /\ left = [t \in Timers |-> 0]
  /\ queued = {}
  /\ m_timerGInterval = InitialIntervalG
  /\ m_finalSipResponse = "none"
  /\ received = "none"
  /\ wire = <<>>
  /\ tu = <<>>
  /\ finals = 0
  /\ acked = FALSE
  /\ faults = {}

-----------------------------------------------------------------------------
(* Fragments shared by the handlers.                                       *)

fixed == <<method, m_eProtocol>>

\* sendSipMessage: the result is examined by some callers only.
Sent(m) == wire' = <<m>>
NotSent == SendMayFail /\ wire' = <<>>
NothingSent == wire' = <<>> /\ UNCHANGED finals

\* A final response counts as sent once the transaction handed it over.
SendFinal == (Sent(m_finalSipResponse') \/ NotSent) /\ finals' = finals + 1

\* t.expires_from_now(d), t.async_wait(...).
Wait(l, t, d) ==
  /\ left' = [l EXCEPT ![t] = d]
  /\ queued' = IF d = 0 THEN queued \union {t} ELSE queued

Unarmed == [t \in Timers |-> 0]

Abort ==
  /\ m_eState' = "aborted"
  /\ left' = Unarmed
  /\ queued' = {}
  /\ faults' = faults \union {"assert"}
  /\ NothingSent
  /\ UNCHANGED m_finalSipResponse

\* updateInviteState / updateNonInviteState: Terminated erases the object.
Terminate == m_eState' = "terminated" /\ left' = Unarmed

TimerH == 64 * T1

TimerG == IF isTransportUnreliable THEN T1 ELSE 0

\* Entry of Completed (INVITE): H always, G for unreliable transports.
Complete ==
  /\ m_eState' = "completed"
  /\ left' = [Unarmed EXCEPT !["H"] = TimerH, !["G"] = TimerG]
  /\ UNCHANGED queued

TimerI == IF isTransportUnreliable THEN T4 ELSE 0

OnlyPositiveTimerI ==
  /\ m_eState' = "confirmed"
  /\ left' = [left EXCEPT !["H"] = 0, !["I"] = TimerI]
  /\ UNCHANGED queued

\* Entry of Confirmed: H is cancelled, I started; G keeps running.
Confirm ==
  /\ m_eState' = "confirmed"
  /\ Wait([left EXCEPT !["H"] = 0], "I", TimerI)

\* Entry of Completed (non-INVITE).
CompleteNonInvite ==
  /\ m_eState' = "completed"
  /\ Wait(left, "J", IF isTransportUnreliable THEN 64 * T1 ELSE 0)

-----------------------------------------------------------------------------
(* sendResponse and sendProvisionalResponse.                               *)

ringsTooLate ==
  /\ Sent("provisional")
  /\ UNCHANGED <<m_eState, left, queued, m_finalSipResponse, finals, faults>>

\* A response for an INVITE that was already answered.
answersTooLate == Abort

sendInviteResponse(code) ==
  \/ /\ code = "provisional" /\ m_eState = "proceeding"
     /\ Sent("provisional") \/ NotSent
     /\ UNCHANGED <<m_eState, left, queued, m_finalSipResponse, finals, faults>>
  \/ /\ code = "success" /\ m_eState = "proceeding"
     /\ m_finalSipResponse' = "success"
     /\ SendFinal
     /\ Terminate
     /\ UNCHANGED <<queued, faults>>
  \/ /\ code = "failure" /\ m_eState = "proceeding"
     /\ m_finalSipResponse' = "failure"
     /\ SendFinal
     /\ Complete
     /\ UNCHANGED faults
  \/ m_eState # "proceeding" /\ answersTooLate

\* The constructor of an INVITE transaction: outside of a dialog the TU leaves
\* the answer to the application (a 100 Trying goes out); inside of one it
\* refuses the request (481, 487, 500), or fails on SipDialog's assert.
constructInvite ==
  /\ m_eState = "new" /\ IsInvite
  /\ \/ /\ m_eState' = "proceeding"
        /\ \/ Sent("provisional") /\ tu' = <<>>
           \/ NotSent /\ tu' = <<"timed_out">>
        /\ UNCHANGED <<left, queued, m_finalSipResponse, finals, faults>>
     \/ /\ m_finalSipResponse' = "failure"
        /\ SendFinal
        /\ Complete
        /\ tu' = <<>>
        /\ UNCHANGED faults
     \/ Abort /\ tu' = <<>>
  /\ received' = "request"
  /\ UNCHANGED <<fixed, m_timerGInterval, acked>>

\* The constructor of any other transaction: the TU provides the final
\* response at once, or none (the ACK of a dialog, a BYE outside of any).  An
\* ACK whose dialog is gone is answered like any other request.
constructNonInvite ==
  /\ m_eState = "new" /\ ~IsInvite
  /\ \/ /\ m_eState' = "trying"
        /\ NothingSent
        /\ UNCHANGED <<left, queued, m_finalSipResponse>>
     \/ /\ m_finalSipResponse' \in (IF method = "ACK" THEN {"failure"} ELSE {"success", "failure"})
        /\ SendFinal
        /\ CompleteNonInvite
  /\ tu' = <<>>
  /\ received' = "request"
  /\ UNCHANGED <<fixed, m_timerGInterval, acked, faults>>

\* UserAgentServer::ringing, accept and reject find the transaction in the map
\* and call sendResponse; the application learns ids of INVITEs only.
answer(code) ==
  /\ IsInvite /\ Alive
  /\ sendInviteResponse(code)
  /\ tu' = <<>>
  /\ received' = "none"
  /\ UNCHANGED <<fixed, m_timerGInterval, acked>>

ringing == answer("provisional")
accept == answer("success")
reject == answer("failure")

-----------------------------------------------------------------------------
(* Requests matched to this transaction.                                   *)

\* The client acknowledges the final response, every copy of it that it
\* receives; the ACK of another kind of transaction is its retransmission.
onAckReceived ==
  /\ \/ IsInvite /\ m_finalSipResponse = "failure"
     \/ method = "ACK"
  /\ Alive
  /\ \/ /\ IsInvite /\ m_eState = "completed"
        /\ Confirm
        /\ NothingSent
        /\ UNCHANGED <<faults, m_finalSipResponse>>
     \/ /\ ~IsInvite \/ m_eState # "completed"
        /\ Abort
  /\ acked' = TRUE
  /\ received' = "ack"
  /\ tu' = <<>>
  /\ UNCHANGED <<fixed, m_timerGInterval>>

\* A retransmitted BYE is matched and then ignored; a retransmitted INVITE is
\* not matched to its transaction at all.
onRequestReceived ==
  /\ method = "BYE" /\ Alive
  /\ received' = "request"
  /\ NothingSent
  /\ tu' = <<>>
  /\ UNCHANGED <<fixed, m_eState, left, queued, m_timerGInterval, m_finalSipResponse,
                 acked, faults>>

-----------------------------------------------------------------------------
(* Timer handlers.                                                         *)

Runs(t) ==
  /\ t \in queued /\ Alive
  /\ received' = "none"
  /\ UNCHANGED <<fixed, acked, m_finalSipResponse>>

Retransmits == m_eState = "completed"

\* The minimum is taken with T1, so the interval never grows.
NextIntervalG == Smaller(2 * m_timerGInterval, T1)

handleTimerGTimeout ==
  /\ Runs("G")
  /\ \/ /\ Retransmits
        /\ finals' = finals + 1
        /\ \/ Sent(m_finalSipResponse) /\ tu' = <<>>
           \/ NotSent /\ tu' = <<"timed_out">>
        /\ m_timerGInterval' = NextIntervalG
        /\ left' = [left EXCEPT !["G"] = NextIntervalG]
        /\ UNCHANGED faults
     \/ /\ ~Retransmits
        /\ NothingSent /\ tu' = <<>>
        /\ faults' = IF m_eState = "confirmed" THEN faults ELSE faults \union {"assert"}
        /\ UNCHANGED <<left, m_timerGInterval>>
  /\ queued' = queued \ {"G"}
  /\ UNCHANGED m_eState

TimesOutAnyway == TRUE
AckNeverArrived == m_eState = "completed"

handleTimerHTimeout ==
  /\ Runs("H")
  /\ queued' = queued \ {"H"}
  /\ IF AckNeverArrived
     THEN tu' = <<"timed_out">> /\ Terminate
     ELSE tu' = <<>> /\ UNCHANGED <<m_eState, left>>
  /\ faults' = IF m_eState = "proceeding" THEN faults \union {"assert"} ELSE faults
  /\ NothingSent
  /\ UNCHANGED m_timerGInterval

\* handleTimerITimeout and handleTimerJTimeout only terminate.
handleTimerIOrJTimeout(t) ==
  /\ Runs(t)
  /\ queued' = queued \ {t}
  /\ Terminate
  /\ NothingSent /\ tu' = <<>>
  /\ UNCHANGED <<m_timerGInterval, faults>>

\* A queued handler of an erased transaction: undefined behaviour, of which
\* the model keeps "nothing happens" and "the stale response is sent".
handlerAfterDestruction(t) ==
  /\ t \in queued /\ m_eState = "terminated"
  /\ queued' = queued \ {t}
  /\ faults' = faults \union {"dangling"}
  /\ Sent(m_finalSipResponse) \/ wire' = <<>>
  /\ received' = "none" /\ tu' = <<>>
  /\ UNCHANGED <<fixed, acked, m_finalSipResponse, m_eState, left, m_timerGInterval, finals>>

-----------------------------------------------------------------------------
Tick ==
  /\ queued = {} /\ Alive
  /\ left' = [t \in Timers |-> IF left[t] > 0 THEN left[t] - 1 ELSE 0]
  /\ queued' = {t \in Timers : left[t] = 1}
  /\ NothingSent /\ tu' = <<>> /\ received' = "none"
  /\ UNCHANGED <<fixed, acked, m_eState, m_timerGInterval, m_finalSipResponse, faults>>

construct == constructInvite \/ constructNonInvite

RunHandler ==
  \/ handleTimerGTimeout
  \/ handleTimerHTimeout
  \/ \E t \in {"I", "J"} : handleTimerIOrJTimeout(t)
  \/ \E t \in Timers : handlerAfterDestruction(t)

Next ==
  \/ construct
  \/ ringing \/ accept \/ reject
  \/ onAckReceived \/ onRequestReceived
  \/ RunHandler
  \/ Tick

\* The io_service runs its queue and the clock advances; neither the
\* application nor the client is obliged to do anything.
Spec == Init /\ [][Next]_vars /\ WF_vars(construct) /\ WF_vars(RunHandler) /\ WF_vars(Tick)

-----------------------------------------------------------------------------
(* Properties.                                                             *)

\* The values the state can take, with a retransmission interval that is
\* never zero.
TypeOK ==
  /\ method \in Methods
  /\ m_eProtocol \in Protocols
  /\ m_eState \in States
  /\ left \in [Timers -> Nat]
  /\ queued \in SUBSET Timers
  /\ m_timerGInterval \in Nat \ {0}
  /\ m_finalSipResponse \in {"none", "success", "failure"}
  /\ finals \in Nat
  /\ acked \in BOOLEAN
  /\ faults \in SUBSET {"assert", "dangling"}

Due(t) == left[t] > 0 \/ t \in queued

\* In every state that the transaction must leave by itself, the timer that
\* ends it is due: H until the ACK, I after it, J for a non-INVITE.
AlwaysAWayOut ==
  /\ IsInvite /\ m_eState = "completed" => Due("H")
  /\ m_eState = "confirmed" => Due("I")
  /\ ~IsInvite /\ m_eState = "completed" => Due("J")

\* Over UDP a failure response is due to be sent again for as long as no ACK
\* has arrived.
RetransmittedUntilAcked ==
  IsInvite /\ isTransportUnreliable /\ m_eState = "completed" => Due("G")

\* The final response, once chosen, is the only response that leaves the
\* transaction: no provisional response after it and no second decision,
\* whatever the application still asks for.
FinalIsFinal ==
  [][m_finalSipResponse # "none" =>
       /\ m_finalSipResponse' = m_finalSipResponse
       /\ wire' \in {<<>>, <<m_finalSipResponse>>}]_vars

\* "As Timer G is ignored in this state, any retransmissions of the response
\* will cease": although G is not cancelled, nothing is sent in Confirmed.
SilentOnceConfirmed == [][m_eState = "confirmed" => wire' = <<>>]_vars

\* A transaction that was acknowledged is never reported as failed, even when
\* H had already expired as the ACK arrived.
NoTimeoutOnceAcked == [][acked => tu' = <<>>]_vars

\* A transaction that has sent its final response is erased in the end.
EventuallyErased == (m_eState \in {"completed", "confirmed"}) ~> ~Alive

-----------------------------------------------------------------------------
(* What comments in the code claim and the code does not do.               *)

\* "timer G is reset with a value that doubles, unless that value exceeds T2"
\* (comment in handleTimerGTimeout): with doubling, at most eleven responses
\* fit in the 64*T1 before H fires.
TimerGBacksOff == finals <= 11

\* "The purpose of the Confirmed state is to absorb any additional ACK messages
\* that arrive" (comment in updateInviteState).
AcksAbsorbed == [][received' = "ack" /\ m_eState = "confirmed" => m_eState' # "aborted"]_vars

\* "the server transaction MUST pass the final response to the transport layer
\* for retransmission whenever a retransmission of the request is received"
\* (comment in onRequestRetransmissionReceived).
RetransmissionAnswered ==
  [][method = "BYE" /\ m_eState = "completed" /\ received' = "request"
       => wire' = <<m_finalSipResponse>>]_vars

\* "cancel timers as the transaction will be destroyed" (comment in
\* updateInviteState): no handler of a destroyed transaction runs.
NoHandlerAfterDestruction == "dangling" \notin faults
==============================================================================
