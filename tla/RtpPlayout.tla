----------------------------- MODULE RtpPlayout -----------------------------
(***************************************************************************)
(* The receive path of an RtpSessionManager with an RtpJitterBufferV2:     *)
(* MemberEntry gives a packet its presentation time, the buffer groups the *)
(* packets of one RTP timestamp in a node and computes the node's playout  *)
(* time, and the session manager starts one timer per node.  The timer's   *)
(* handler plays the node at the front of the buffer, whichever node that  *)
(* is.  A sender report replaces the reference of the presentation times.  *)
(*                                                                         *)
(* Packets are lost, repeated and reordered.  One thread runs the handlers *)
(* and stop(); a handler may run up to MaxLag after its timer expires.     *)
(* Times are in ms, and the RTP clock ticks once per ms, so that no        *)
(* conversion rounds.  A time is not_a_date_time while the flag that       *)
(* guards its use is unset.                                                *)
(***************************************************************************)
EXTENDS Integers, Sequences, SequencesExt

CONSTANTS
  NumPackets,         \* bound: packets that the sender sends
  PacketsPerFrame,    \* packets that share a timestamp
  FrameTicks,         \* timestamp units between frames
  MaxCopies,          \* bound: arrivals of one packet
  SrOffsets,          \* sender clock minus RTP clock, in the sender reports
  Latency,            \* m_uiPlayoutBufferLatencyMs
  HistorySize,        \* capacity of m_recentHistory
  TsMod,              \* range of uint32_t
  MaxLag,             \* bound: delay of a timer's handler
  LastArrival,        \* bound: time of the last arrival
  MaxTime             \* bound: end of time

ASSUME PlayoutAssumption ==
  /\ NumPackets \in Nat /\ PacketsPerFrame \in Nat \ {0} /\ FrameTicks \in Nat \ {0}
  /\ MaxCopies \in Nat /\ SrOffsets \subseteq Int /\ Latency \in Nat
  /\ HistorySize \in Nat \ {0} /\ TsMod \in Nat \ {0}
  /\ MaxLag \in Nat /\ LastArrival \in Nat /\ MaxTime \in Nat

Packets == 0..(NumPackets - 1)
Timestamp(p) == (p \div PacketsPerFrame) * FrameTicks

VARIABLES
  now,
  copies,                               \* arrivals of each packet so far
  syncOffset, m_bIsRtcpSynchronised,    \* MemberEntry: m_tSyncRef minus m_uiSyncRtpRef
  m_bFirst, m_tFirstPacket, m_tFirstPts, m_uiFirstRtpTs,
  m_bRtcpSync, m_tFirstSyncedPts, m_uiRtpDiffMs,
  m_playoutBufferList, m_recentHistory,
  m_mPlayoutTimers,                     \* expiry of every pending timer, soonest first
  cancelled,                            \* timers whose handler is to run with operation_aborted
  stopped,
  played                                \* timestamps of the nodes played

memberVars == <<syncOffset, m_bIsRtcpSynchronised>>
referenceVars == <<m_bFirst, m_tFirstPacket, m_tFirstPts, m_uiFirstRtpTs,
                   m_bRtcpSync, m_tFirstSyncedPts, m_uiRtpDiffMs>>
bufferVars == <<m_playoutBufferList, m_recentHistory>>
timerVars == <<m_mPlayoutTimers, cancelled, stopped>>
vars == <<now, copies, memberVars, referenceVars, bufferVars, timerVars, played>>

Node(p, pts, playout) == [ts |-> Timestamp(p), pts |-> pts, playout |-> playout, packets |-> {p}]
Nodes == [ts : Nat, pts : Int, playout : Int, packets : SUBSET Packets]

Init ==
  /\ now = 0
  /\ copies = [p \in Packets |-> 0]
  /\ syncOffset = 0 /\ m_bIsRtcpSynchronised = FALSE
  /\ m_bFirst = FALSE /\ m_tFirstPacket = 0 /\ m_tFirstPts = 0 /\ m_uiFirstRtpTs = 0
  /\ m_bRtcpSync = FALSE /\ m_tFirstSyncedPts = 0 /\ m_uiRtpDiffMs = 0
  /\ m_playoutBufferList = <<>> /\ m_recentHistory = <<>>
  /\ m_mPlayoutTimers = <<>> /\ cancelled = 0 /\ stopped = FALSE
  /\ played = {}

-----------------------------------------------------------------------------
(* MemberEntry.                                                            *)

\* onSrReceived.
onSrReceived(offset) ==
  /\ syncOffset' = offset
  /\ m_bIsRtcpSynchronised' = TRUE
  /\ UNCHANGED <<now, copies, referenceVars, bufferVars, timerVars, played>>

\* onReceiveRtpPacket: the first packet is the reference unless a sender report
\* came before it.  Later packets move m_tSyncRef and m_uiSyncRtpRef alike.
SyncOffset(p) ==
  IF m_bFirst \/ m_bIsRtcpSynchronised THEN syncOffset ELSE now - Timestamp(p)

PresentationTime(p) == SyncOffset(p) + Timestamp(p)

-----------------------------------------------------------------------------
(* RtpJitterBufferV2::calculatePlayoutTime.                                *)

\* The first packet after the sender report fixes the second reference.
FirstSynced == m_bIsRtcpSynchronised /\ ~m_bRtcpSync

\* A uint32_t difference of timestamps in ms, at 1000 Hz.
DiffMs(d) == (((d % TsMod) * 1000) % TsMod) \div 1000

RtpDiffMs(p) ==
  IF FirstSynced
  THEN DiffMs(Timestamp(p) - (IF m_bFirst THEN m_uiFirstRtpTs ELSE Timestamp(p)))
  ELSE m_uiRtpDiffMs

SyncedPts(p) == IF FirstSynced THEN PresentationTime(p) ELSE m_tFirstSyncedPts

PlayoutFromArrival(p) == now + Latency

PlayoutTime(p) ==
  IF ~m_bFirst THEN now + Latency
  ELSE IF m_bIsRtcpSynchronised
  THEN m_tFirstPacket + (PresentationTime(p) - SyncedPts(p)) + Latency + RtpDiffMs(p)
  ELSE m_tFirstPacket + (PresentationTime(p) - m_tFirstPts) + Latency

calculatePlayoutTime(p) ==
  /\ m_bRtcpSync' = m_bIsRtcpSynchronised
  /\ m_tFirstSyncedPts' = SyncedPts(p)
  /\ m_uiRtpDiffMs' = RtpDiffMs(p)
  /\ m_bFirst' = TRUE
  /\ IF m_bFirst
     THEN UNCHANGED <<m_tFirstPacket, m_tFirstPts, m_uiFirstRtpTs>>
     ELSE /\ m_tFirstPacket' = now
          /\ m_tFirstPts' = PresentationTime(p)
          /\ m_uiFirstRtpTs' = Timestamp(p)

-----------------------------------------------------------------------------
(* RtpJitterBufferV2::doAddRtpPacket.                                      *)

Holds(nodes, ts) == {i \in DOMAIN nodes : nodes[i].ts = ts}

\* A packet of a known timestamp joins its node, unless it is there already.
JoinsNode(nodes, i, p) == [nodes EXCEPT ![i].packets = @ \union {p}]

AtTheBack(i, pts) == i = Len(m_playoutBufferList) + 1

\* insertAccordingToPts: behind the last node with a smaller presentation time.
InsertionPoint(i, pts) ==
  /\ i > 1 => m_playoutBufferList[i - 1].pts < pts
  /\ \A k \in i..Len(m_playoutBufferList) : m_playoutBufferList[k].pts >= pts

InsertNode(node) ==
  \E i \in 1..(Len(m_playoutBufferList) + 1) :
    /\ InsertionPoint(i, node.pts)
    /\ m_playoutBufferList' = InsertAt(m_playoutBufferList, i, node)

\* The asio timer queue: a new timer goes behind those that expire no later.
AddTimer(at) ==
  \E i \in 1..(Len(m_mPlayoutTimers) + 1) :
    /\ i > 1 => m_mPlayoutTimers[i - 1] <= at
    /\ \A k \in i..Len(m_mPlayoutTimers) : m_mPlayoutTimers[k] > at
    /\ m_mPlayoutTimers' = InsertAt(m_mPlayoutTimers, i, at)

addsToNodeAndTimer(p) ==
  /\ \E i \in Holds(m_playoutBufferList, Timestamp(p)) :
       m_playoutBufferList' = JoinsNode(m_playoutBufferList, i, p)
  /\ AddTimer(PlayoutTime(p))
  /\ UNCHANGED m_recentHistory

addsToNode(p) ==
  /\ \E i \in Holds(m_playoutBufferList, Timestamp(p)) :
       m_playoutBufferList' = JoinsNode(m_playoutBufferList, i, p)
  /\ UNCHANGED <<m_recentHistory, m_mPlayoutTimers>>

IsNotWaiting(p) == Holds(m_playoutBufferList, Timestamp(p)) = {}

\* The node is neither waiting nor in the recent history.
IsNew(p) ==
  Holds(m_playoutBufferList, Timestamp(p)) = {} /\ Holds(m_recentHistory, Timestamp(p)) = {}

isLate(p) ==
  /\ Holds(m_playoutBufferList, Timestamp(p)) = {}
  /\ \E i \in Holds(m_recentHistory, Timestamp(p)) :
       /\ \A j \in Holds(m_recentHistory, Timestamp(p)) : j <= i
       /\ m_recentHistory' = JoinsNode(m_recentHistory, i, p)
  /\ UNCHANGED <<m_playoutBufferList, m_mPlayoutTimers>>

missesPlayout(p) ==
  /\ IsNew(p)
  /\ PlayoutTime(p) < now
  /\ UNCHANGED <<bufferVars, m_mPlayoutTimers>>

createsWithoutTimer(p) ==
  /\ IsNew(p)
  /\ PlayoutTime(p) >= now
  /\ InsertNode(Node(p, PresentationTime(p), PlayoutTime(p)))
  /\ UNCHANGED <<m_recentHistory, m_mPlayoutTimers>>

createsNode(p) ==
  /\ IsNew(p)
  /\ PlayoutTime(p) >= now
  /\ InsertNode(Node(p, PresentationTime(p), PlayoutTime(p)))
  /\ AddTimer(PlayoutTime(p))
  /\ UNCHANGED m_recentHistory

-----------------------------------------------------------------------------
(* RtpSessionManager.                                                      *)

\* Packets are handled after stop() as before it.
doHandleIncomingRtp(p) ==
  /\ now <= LastArrival
  /\ copies[p] < MaxCopies
  /\ copies' = [copies EXCEPT ![p] = @ + 1]
  /\ syncOffset' = SyncOffset(p)
  /\ calculatePlayoutTime(p)
  /\ addsToNode(p) \/ isLate(p) \/ missesPlayout(p) \/ createsNode(p)
  /\ UNCHANGED <<now, m_bIsRtcpSynchronised, cancelled, stopped, played>>

RememberAll(node) == Append(m_recentHistory, node)

\* m_recentHistory is a circular buffer.
Remember(node) ==
  Append(IF Len(m_recentHistory) < HistorySize THEN m_recentHistory ELSE Tail(m_recentHistory), node)

onScheduledSampleTimeout ==
  /\ m_mPlayoutTimers # <<>>
  /\ Head(m_mPlayoutTimers) <= now
  /\ m_playoutBufferList # <<>>         \* assert in getNextPlayoutBufferNode
  /\ m_mPlayoutTimers' = Tail(m_mPlayoutTimers)
  /\ m_playoutBufferList' = Tail(m_playoutBufferList)
  /\ m_recentHistory' = Remember(Head(m_playoutBufferList))
  /\ played' = played \union {Head(m_playoutBufferList).ts}
  /\ UNCHANGED <<now, copies, memberVars, referenceVars, cancelled, stopped>>

\* The handler of a cancelled timer only erases the timer.
abortedSampleTimeout ==
  /\ cancelled > 0
  /\ cancelled' = cancelled - 1
  /\ UNCHANGED <<now, copies, memberVars, referenceVars, bufferVars, m_mPlayoutTimers, stopped, played>>

\* All timers are cancelled; the handlers of k expired ones are queued already.
stop ==
  /\ ~stopped
  /\ stopped' = TRUE
  /\ \E k \in 0..Len(m_mPlayoutTimers) :
       /\ \A i \in 1..k : m_mPlayoutTimers[i] <= now
       /\ m_mPlayoutTimers' = SubSeq(m_mPlayoutTimers, 1, k)
       /\ cancelled' = Len(m_mPlayoutTimers) - k
  /\ UNCHANGED <<now, copies, memberVars, referenceVars, bufferVars, played>>

Tick ==
  /\ now < MaxTime
  /\ m_mPlayoutTimers # <<>> => now < Head(m_mPlayoutTimers) + MaxLag
  /\ now' = now + 1
  /\ UNCHANGED <<copies, memberVars, referenceVars, bufferVars, timerVars, played>>

Next ==
  \/ \E p \in Packets : doHandleIncomingRtp(p)
  \/ \E offset \in SrOffsets : onSrReceived(offset)
  \/ onScheduledSampleTimeout \/ abortedSampleTimeout \/ stop \/ Tick

Spec == Init /\ [][Next]_vars

\* asio runs the handler of an expired timer, and time passes.
FairSpec == Spec /\ WF_vars(onScheduledSampleTimeout) /\ WF_vars(abortedSampleTimeout) /\ WF_vars(Tick)

-----------------------------------------------------------------------------
(* Properties.                                                             *)

\* The values the state can take; the history keeps to its capacity.
TypeOK ==
  /\ now \in Nat
  /\ copies \in [Packets -> Nat]
  /\ syncOffset \in Int /\ m_bIsRtcpSynchronised \in BOOLEAN
  /\ m_bFirst \in BOOLEAN /\ m_tFirstPacket \in Nat /\ m_tFirstPts \in Int /\ m_uiFirstRtpTs \in Nat
  /\ m_bRtcpSync \in BOOLEAN /\ m_tFirstSyncedPts \in Int /\ m_uiRtpDiffMs \in Nat
  /\ m_playoutBufferList \in Seq(Nodes)
  /\ m_recentHistory \in Seq(Nodes) /\ Len(m_recentHistory) <= HistorySize
  /\ m_mPlayoutTimers \in Seq(Int)
  /\ cancelled \in Nat /\ stopped \in BOOLEAN
  /\ played \subseteq Nat

\* The assert in getNextPlayoutBufferNode holds: however packets arrive, and
\* whatever stop() cancels, every timer that is to play has a node to play.
NodeForEveryTimer == Len(m_mPlayoutTimers) <= Len(m_playoutBufferList)

\* The nodes wait in the order of their presentation times, also when a sender
\* report moved the reference while they waited.
OrderedByPts ==
  \A i, j \in DOMAIN m_playoutBufferList :
    i < j => m_playoutBufferList[i].pts <= m_playoutBufferList[j].pts

Plays == m_playoutBufferList # <<>> /\ m_playoutBufferList' = Tail(m_playoutBufferList)

\* No timestamp is played twice, although the history forgets.
PlayedOnce == [][Plays => Head(m_playoutBufferList).ts \notin played]_vars

\* A node is played when its own playout time has come ("It is the callees
\* responsibility to only call this method once the scheduled playout time has
\* been reached", IRtpJitterBuffer).
PlayedOnTime == [][Plays => Head(m_playoutBufferList).playout <= now]_vars

\* Nodes are played at the distances of their timestamps, counted from the first
\* packet ("now we are using the arrival of the *first* packet, and therefore
\* have to add the RTP offset between the first RTP and the first synced RTP
\* packet as an offset", calculatePlayoutTime).
PlayoutFollowsTimestamps ==
  \A i \in DOMAIN m_playoutBufferList :
    m_playoutBufferList[i].playout =
      m_tFirstPacket + (m_playoutBufferList[i].ts - m_uiFirstRtpTs) + Latency

\* Every node is played in the end, unless the session stops.
EventuallyPlayed ==
  \A p \in Packets :
    Holds(m_playoutBufferList, Timestamp(p)) # {} ~> (Timestamp(p) \in played \/ stopped)
=============================================================================
