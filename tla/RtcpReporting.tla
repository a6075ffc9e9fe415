--------------------------- MODULE RtcpReporting ---------------------------
(***************************************************************************)
(* The RTCP side of an RtpSession, from start() to the call of             *)
(* m_onRtpSessionComplete: the report managers (one per flow of a          *)
(* multipath session, else one), each with a timer whose handler sends a   *)
(* report and sets the timer again; the early reports of RFC 4585, which   *)
(* set the timer anew when a packet is assumed lost; the send queue of     *)
(* each manager's RTCP socket; and stop(), after which every manager sends *)
(* a BYE.  The session closes its interfaces and is complete when it has   *)
(* counted as many BYEs as it has managers.                                *)
(*                                                                         *)
(* One thread runs the handlers.  A timer that is set anew or cancelled    *)
(* posts its handler with operation_aborted, and the handler runs later,   *)
(* after other handlers that were posted before it.  Time is left out: a   *)
(* pending timer may expire at any moment, and where the code compares     *)
(* times within an interval both outcomes are possible.                    *)
(***************************************************************************)
EXTENDS Naturals, Sequences, FiniteSets

CONSTANTS
  Managers,     \* report managers that a session may have
  MaxRtx,       \* MAX_RTX: so many assumed losses are not asked for
  MaxLost,      \* bound: packets assumed lost and not yet reported
  MaxQueue,     \* bound: reports in a socket's queue
  MaxErrors     \* bound: failed sends

ASSUME ReportingAssumption ==
  /\ IsFiniteSet(Managers) /\ Managers # {}
  /\ MaxRtx \in Nat /\ MaxLost \in Nat /\ MaxQueue \in Nat /\ MaxErrors \in Nat

VARIABLES
  m_vRtcpReportManagers,  \* the managers of this session
  predictor,            \* the loss detection that it is configured with
  m_state,              \* RtpSession
  m_uiByeSentCount,
  open,                 \* m_bInitialised of the network interfaces
  completed,            \* calls of m_onRtpSessionComplete
  detecting,            \* ~m_bShuttingdown of the loss detection
  assumedLost,          \* size of m_vAssumedLost
  m_bShuttingDown, m_bAllowEarly, m_bEarlyScheduled,    \* of each manager
  due,                  \* whether m_tNext of a manager has passed
  m_rtcpTimer,          \* the handler that waits for the timer
  ready,                \* handlers posted and not yet run
  m_vDeliveryQueue,     \* UdpSocketWrapper of the manager's RTCP socket
  writing,              \* whether an async_send_to is under way on it
  errors,               \* failed sends so far
  byeEnded              \* managers whose BYE reached onOutgoingRtcp

sessionVars == <<m_state, m_uiByeSentCount, open, completed, byeEnded>>
feedbackVars == <<m_vRtcpReportManagers, predictor, detecting, assumedLost>>
earlyVars == <<m_bAllowEarly, m_bEarlyScheduled, due>>
timerVars == <<m_rtcpTimer, ready>>
socketVars == <<m_vDeliveryQueue, writing>>
vars == <<sessionVars, feedbackVars, m_bShuttingDown, earlyVars, timerVars, socketVars,
          errors>>

Multipath == Cardinality(m_vRtcpReportManagers) > 1

Handler(fn, ok) == [fn |-> fn, ok |-> ok]
Handlers == [fn : {"report", "bye"}, ok : BOOLEAN]

\* initialise, with startReporting of every manager.
Init ==
  /\ m_vRtcpReportManagers \in (SUBSET Managers) \ {{}}
  /\ predictor \in {"none", "simple", "timed"} /\ (predictor = "simple" => ~Multipath)
  /\ m_state = "SS_STARTED" /\ m_uiByeSentCount = 0 /\ open = TRUE /\ completed = 0
  /\ detecting = (predictor # "none") /\ assumedLost = 0
  /\ m_bShuttingDown = [m \in Managers |-> FALSE]
  /\ m_bAllowEarly = [m \in Managers |-> TRUE]
  /\ m_bEarlyScheduled = [m \in Managers |-> FALSE]
  /\ due = [m \in Managers |-> FALSE]
  /\ m_rtcpTimer = [m \in Managers |-> IF m \in m_vRtcpReportManagers THEN "report" ELSE "none"]
  /\ ready = [m \in Managers |-> <<>>]
  /\ m_vDeliveryQueue = [m \in Managers |-> <<>>]
  /\ writing = [m \in Managers |-> FALSE]
  /\ errors = 0
  /\ byeEnded = {}

-----------------------------------------------------------------------------
(* boost::asio: what cancelling a timer posts, and its expiry.             *)

Cancelled(m) ==
  IF m_rtcpTimer[m] = "none" THEN ready[m]
  ELSE Append(ready[m], Handler(m_rtcpTimer[m], FALSE))

TimerExpires(m) ==
  /\ m_rtcpTimer[m] # "none"
  /\ ready' = [ready EXCEPT ![m] = Append(@, Handler(m_rtcpTimer[m], TRUE))]
  /\ m_rtcpTimer' = [m_rtcpTimer EXCEPT ![m] = "none"]
  /\ due' = [due EXCEPT ![m] = @ \/ (m_rtcpTimer[m] = "report" /\ ~m_bEarlyScheduled[m])]
  /\ UNCHANGED <<sessionVars, feedbackVars, m_bShuttingDown, m_bAllowEarly,
                 m_bEarlyScheduled, socketVars, errors>>

-----------------------------------------------------------------------------
(* RtpSession: the end of a send, and the count of the BYEs.               *)

EnoughByesSent(count) == count >= Cardinality(m_vRtcpReportManagers)
AllByesSent(count) == count = Cardinality(m_vRtcpReportManagers)

onOutgoingRtcp(m, packet) ==
  LET count == IF packet = "bye" THEN m_uiByeSentCount + 1 ELSE m_uiByeSentCount
      last == AllByesSent(count)
  IN /\ m_uiByeSentCount' = count
     /\ byeEnded' = IF packet = "bye" THEN byeEnded \cup {m} ELSE byeEnded
     /\ open' = (open /\ ~last)
     /\ completed' = IF last THEN completed + 1 ELSE completed
     /\ UNCHANGED m_state

\* onRtcpReportGeneration, RtpNetworkInterface::send and UdpSocketWrapper::send.
\* An interface that is shut down refuses the packet, and the session counts it.
Send(m, packet) ==
  IF open
  THEN /\ m_vDeliveryQueue' = [m_vDeliveryQueue EXCEPT ![m] = Append(@, packet)]
       /\ writing' = [writing EXCEPT ![m] = @ \/ m_vDeliveryQueue[m] = <<>>]
       /\ UNCHANGED sessionVars
  ELSE onOutgoingRtcp(m, packet) /\ UNCHANGED socketVars

\* writeCompletionHandler: the next packet is sent only after a success.
writeCompletionHandler(m, ok) ==
  /\ writing[m]
  /\ m_vDeliveryQueue' = [m_vDeliveryQueue EXCEPT ![m] = Tail(@)]
  /\ writing' = [writing EXCEPT ![m] = ok /\ Tail(m_vDeliveryQueue[m]) # <<>>]
  /\ onOutgoingRtcp(m, Head(m_vDeliveryQueue[m]))
  /\ UNCHANGED <<feedbackVars, m_bShuttingDown, earlyVars, timerVars>>

SendSucceeds(m) == writeCompletionHandler(m, TRUE) /\ UNCHANGED errors

\* The network refuses the packet, or the socket was closed.
SendFails(m) ==
  /\ open => errors < MaxErrors
  /\ errors' = IF open THEN errors + 1 ELSE errors
  /\ writeCompletionHandler(m, FALSE)

\* stop() of the session manager: RtpSession::stop, shutdownRtcp with
\* scheduleFinalReportAndShutdown of every manager, FeedbackManager::shutdown.
stop ==
  /\ m_state = "SS_STARTED"
  /\ m_state' = "SS_SHUTTING_DOWN"
  /\ m_bShuttingDown' = [m \in Managers |-> m \in m_vRtcpReportManagers]
  /\ ready' = [m \in Managers |-> Cancelled(m)]
  /\ m_rtcpTimer' = [m \in Managers |-> "none"]
  /\ detecting' = FALSE
  /\ UNCHANGED <<m_uiByeSentCount, open, completed, byeEnded, m_vRtcpReportManagers, predictor,
                 assumedLost, earlyVars, socketVars, errors>>

-----------------------------------------------------------------------------
(* Loss feedback.                                                          *)

\* scheduleEarlyFeedbackIfPossible.  A manager that shuts down is not told apart.
EarlyWhenAllowed(m) == m_bAllowEarly[m]
EarlyPossible(m) == ~due[m] /\ m_bAllowEarly[m]

CancelWithoutWait(m) ==
  /\ ready' = [ready EXCEPT ![m] = Cancelled(m)]
  /\ m_rtcpTimer' = [m_rtcpTimer EXCEPT ![m] = "none"]
  /\ m_bAllowEarly' = [m_bAllowEarly EXCEPT ![m] = FALSE]
  /\ m_bEarlyScheduled' = [m_bEarlyScheduled EXCEPT ![m] = TRUE]

scheduleEarlyFeedback(m) ==
  /\ ready' = [ready EXCEPT ![m] = Cancelled(m)]
  /\ m_rtcpTimer' = [m_rtcpTimer EXCEPT ![m] = "report"]
  /\ m_bAllowEarly' = [m_bAllowEarly EXCEPT ![m] = FALSE]
  /\ m_bEarlyScheduled' = [m_bEarlyScheduled EXCEPT ![m] = TRUE]

\* onRtpPacketAssumedLost and onPacketAssumedLost.  The early report may be
\* refused because the dithering interval ends after m_tNext.
onPacketAssumedLost(m) ==
  /\ open /\ detecting /\ assumedLost < MaxLost
  /\ assumedLost' = assumedLost + 1
  /\ \/ EarlyPossible(m) /\ scheduleEarlyFeedback(m)
     \/ UNCHANGED <<timerVars, m_bAllowEarly, m_bEarlyScheduled>>
  /\ UNCHANGED <<sessionVars, m_vRtcpReportManagers, predictor, detecting, m_bShuttingDown,
                 due, socketVars, errors>>

LateWithoutLookup ==
  /\ open /\ detecting
  /\ assumedLost' = assumedLost - 1
  /\ UNCHANGED <<sessionVars, m_vRtcpReportManagers, predictor, detecting, m_bShuttingDown,
                 earlyVars, timerVars, socketVars, errors>>

\* onRtpPacketLate: the packet arrives before the report that asks for it.
onRtpPacketLate ==
  /\ open /\ detecting /\ assumedLost > 0
  /\ assumedLost' = assumedLost - 1
  /\ UNCHANGED <<sessionVars, m_vRtcpReportManagers, predictor, detecting, m_bShuttingDown,
                 earlyVars, timerVars, socketVars, errors>>

\* A BYE of the other side: reset() lets SimplePacketLossDetection start again.
onByeReceived ==
  /\ open /\ predictor = "simple"
  /\ detecting' = TRUE
  /\ UNCHANGED <<sessionVars, m_vRtcpReportManagers, predictor, assumedLost, m_bShuttingDown,
                 earlyVars, timerVars, socketVars, errors>>

-----------------------------------------------------------------------------
(* The handlers of the report managers.                                    *)

\* After an early report the timer keeps to the schedule of the regular ones.
setNextRtcpTimeout(m) ==
  /\ m_rtcpTimer' = [m_rtcpTimer EXCEPT ![m] = "report"]
  /\ due' = [due EXCEPT ![m] = FALSE]
  /\ m_bEarlyScheduled' = [m_bEarlyScheduled EXCEPT ![m] = FALSE]
  /\ m_bAllowEarly' = [m_bAllowEarly EXCEPT ![m] = ~m_bEarlyScheduled[m]]

\* onFeedbackGeneration takes all assumed losses, and drops them if they are many.
HasFeedback == assumedLost > 0 /\ assumedLost < MaxRtx

\* The handler looks at m_bShuttingDown before it looks at the error code.
ExpiredFinalises(m) == m_bShuttingDown[m] /\ Head(ready[m]).ok
Finalises(m) == m_bShuttingDown[m]

\* onRtcpIntervalTimeout, when the timer has expired.  A report without feedback
\* may be suppressed.
Report(m) ==
  /\ ready[m] # <<>> /\ Head(ready[m]) = Handler("report", TRUE) /\ ~Finalises(m)
  /\ Len(m_vDeliveryQueue[m]) < MaxQueue
  /\ ready' = [ready EXCEPT ![m] = Tail(@)]
  /\ assumedLost' = 0
  /\ \/ Send(m, "report")
     \/ ~HasFeedback /\ predictor # "none" /\ UNCHANGED <<sessionVars, socketVars>>
  /\ setNextRtcpTimeout(m)
  /\ UNCHANGED <<m_vRtcpReportManagers, predictor, detecting, m_bShuttingDown, errors>>

\* finaliseSession: the BYE is sent at once, or after a delay in a large group.
finaliseSession(m) ==
  \/ /\ Send(m, "bye")
     /\ ready' = [ready EXCEPT ![m] = Tail(@)]
     /\ UNCHANGED m_rtcpTimer
  \/ /\ ready' = [ready EXCEPT ![m] = Tail(Cancelled(m))]
     /\ m_rtcpTimer' = [m_rtcpTimer EXCEPT ![m] = "bye"]
     /\ UNCHANGED <<sessionVars, socketVars>>

onRtcpIntervalTimeout(m) ==
  /\ ready[m] # <<>> /\ Head(ready[m]).fn = "report"
  /\ \/ /\ Finalises(m)
        /\ finaliseSession(m)
        /\ UNCHANGED <<feedbackVars, m_bShuttingDown, earlyVars, errors>>
     \/ Report(m)
     \/ /\ ~Finalises(m) /\ ~Head(ready[m]).ok
        /\ ready' = [ready EXCEPT ![m] = Tail(@)]
        /\ UNCHANGED <<sessionVars, feedbackVars, m_bShuttingDown, earlyVars, m_rtcpTimer,
                       socketVars, errors>>

\* onScheduleByeTimeout does not look at the error code.
onScheduleByeTimeout(m) ==
  /\ ready[m] # <<>> /\ Head(ready[m]).fn = "bye"
  /\ ready' = [ready EXCEPT ![m] = Tail(@)]
  /\ Send(m, "bye")
  /\ UNCHANGED <<feedbackVars, m_bShuttingDown, earlyVars, m_rtcpTimer, errors>>

-----------------------------------------------------------------------------
HandlerRuns(m) == onRtcpIntervalTimeout(m) \/ onScheduleByeTimeout(m)

Next ==
  \/ stop
  \/ onRtpPacketLate
  \/ onByeReceived
  \/ \E m \in m_vRtcpReportManagers :
       \/ TimerExpires(m)
       \/ onRtcpIntervalTimeout(m)
       \/ onScheduleByeTimeout(m)
       \/ SendSucceeds(m)
       \/ SendFails(m)
       \/ onPacketAssumedLost(m)

Spec == Init /\ [][Next]_vars

\* Timers expire, sends end, and the io_service runs every handler it holds.
Fairness ==
  \A m \in Managers :
    /\ WF_vars(TimerExpires(m))
    /\ WF_vars(HandlerRuns(m))
    /\ WF_vars(SendSucceeds(m) \/ SendFails(m))

FairSpec == Spec /\ Fairness

-----------------------------------------------------------------------------
(* Properties.                                                             *)

Packets == {"report", "bye"}

TypeOK ==
  /\ m_vRtcpReportManagers \in SUBSET Managers /\ predictor \in {"none", "simple", "timed"}
  /\ m_state \in {"SS_STARTED", "SS_SHUTTING_DOWN"}
  /\ m_uiByeSentCount \in Nat /\ completed \in Nat /\ assumedLost \in 0..MaxLost
  /\ open \in BOOLEAN /\ detecting \in BOOLEAN
  /\ m_bShuttingDown \in [Managers -> BOOLEAN] /\ m_bAllowEarly \in [Managers -> BOOLEAN]
  /\ m_bEarlyScheduled \in [Managers -> BOOLEAN] /\ due \in [Managers -> BOOLEAN]
  /\ m_rtcpTimer \in [Managers -> {"none", "report", "bye"}]
  /\ ready \in [Managers -> Seq(Handlers)]
  /\ m_vDeliveryQueue \in [Managers -> Seq(Packets)]
  /\ writing \in [Managers -> BOOLEAN]
  /\ errors \in 0..MaxErrors
  /\ byeEnded \in SUBSET Managers

\* While the session runs, every manager has exactly one way on to its next
\* report: its timer, or one handler that was posted with success.  The chain of
\* onRtcpIntervalTimeout and setNextRtcpTimeout is neither broken nor doubled by
\* the early reports that set the timer anew.
ReportingAlive ==
  m_state = "SS_STARTED" =>
    \A m \in m_vRtcpReportManagers :
      LET posted == {i \in DOMAIN ready[m] : ready[m][i] = Handler("report", TRUE)}
      IN IF m_rtcpTimer[m] = "report" THEN posted = {} ELSE Cardinality(posted) = 1

\* A manager's BYE is the last thing it sends: no report follows one in its send
\* queue, although handlers of the regular and of the early timer may be queued
\* when stop() is called.
ByeIsLast ==
  \A m \in m_vRtcpReportManagers :
    LET q == m_vDeliveryQueue[m]
    IN \A i, j \in DOMAIN q : i < j /\ q[i] = "bye" => q[j] = "bye"

\* Without loss detection onOutgoingRtcp counts every manager's BYE once: the
\* interfaces are closed, and the session is complete, only when all have left.
CompleteAfterByes ==
  predictor = "none" /\ (completed > 0 \/ ~open) => byeEnded = m_vRtcpReportManagers

\* m_onRtpSessionComplete is called at most once, in single path sessions even
\* when an early report or a reset of the loss detection leads to two BYEs.
CompletedOnce == predictor = "none" \/ ~Multipath => completed <= 1

\* stop() leaves in order: the BYE is the last packet of its manager, the
\* interfaces stay open until every manager's has left (onOutgoingRtcp), and
\* completion is reported once.
LeavesInOrder == ByeIsLast /\ CompleteAfterByes /\ CompletedOnce

\* A socket whose queue is not empty and on which nothing is under way: every
\* later packet only joins the queue.
Stuck(m) == m_vDeliveryQueue[m] # <<>> /\ ~writing[m]

\* A session that is stopped is complete in the end, unless a failed send has
\* left a socket stuck.
StopCompletes ==
  m_state = "SS_SHUTTING_DOWN" ~> completed > 0 \/ \E m \in Managers : Stuck(m)

\* A manager goes on reporting for as long as the session runs, early reports or
\* not, unless its socket is stuck.
ReportsContinue ==
  \A m \in Managers :
    \/ []<><<Report(m)>>_vars
    \/ <>(m_state = "SS_SHUTTING_DOWN" \/ Stuck(m) \/ m \notin m_vRtcpReportManagers)

-----------------------------------------------------------------------------
(* What comments say, and the code does not do.                            *)

\* onOutgoingRtcp: "it assumes that each RtcpReportManager must send a BYE at the
\* end of the session and that each sent BYE results in this method being called".
EveryManagerSaysBye == completed > 0 => byeEnded = m_vRtcpReportManagers

\* RtpSession.h: the session "is over once the RTCP BYE is sent ... completing all
\* outstanding asynchronous actions".
StopAlwaysCompletes == m_state = "SS_SHUTTING_DOWN" ~> completed > 0
=============================================================================
