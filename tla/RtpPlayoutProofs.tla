-------------------------- MODULE RtpPlayoutProofs --------------------------
(***************************************************************************)
(* Proofs about the receive path, for every number of packets, latency and *)
(* clock.  What a sender report does to the presentation times is in the   *)
(* first part; the second part is about sessions without sender reports.   *)
(***************************************************************************)
EXTENDS RtpPlayout, SequenceTheorems, TLAPS

-----------------------------------------------------------------------------
(* Lemmas on sequences and numbers.                                        *)

\* insert() of a list: one element more, the others keep their order.
LEMMA InsertAtFacts ==
  ASSUME NEW T, NEW s \in Seq(T), NEW i \in 1..(Len(s) + 1), NEW e \in T
  PROVE  /\ InsertAt(s, i, e) \in Seq(T)
         /\ Len(InsertAt(s, i, e)) = Len(s) + 1
         /\ \A k \in 1..(i - 1) : InsertAt(s, i, e)[k] = s[k]
         /\ InsertAt(s, i, e)[i] = e
         /\ \A k \in (i + 1)..(Len(s) + 1) : InsertAt(s, i, e)[k] = s[k - 1]
<1> DEFINE a == SubSeq(s, 1, i - 1)
           b == SubSeq(s, i, Len(s))
<1>1. Len(s) \in Nat /\ \A k \in 1..Len(s) : s[k] \in T
  BY LenProperties
<1>2. a \in Seq(T) /\ Len(a) = i - 1 /\ \A k \in 1..(i - 1) : a[k] = s[k]
  <2>1. \A k \in 1..(i - 1) : s[k] \in T
    BY <1>1
  <2>2. /\ a \in Seq(T)
        /\ Len(a) = IF 1 <= i - 1 THEN (i - 1) - 1 + 1 ELSE 0
        /\ \A k \in 1..((i - 1) - 1 + 1) : a[k] = s[1 + k - 1]
    BY <1>1, <2>1, SubSeqProperties
  <2> QED
    BY <1>1, <2>2
<1>3. /\ b \in Seq(T) /\ Len(b) = Len(s) - i + 1
      /\ \A k \in 1..(Len(s) - i + 1) : b[k] = s[i + k - 1]
  <2>1. \A k \in i..Len(s) : s[k] \in T
    BY <1>1
  <2>2. /\ b \in Seq(T)
        /\ Len(b) = IF i <= Len(s) THEN Len(s) - i + 1 ELSE 0
        /\ \A k \in 1..(Len(s) - i + 1) : b[k] = s[i + k - 1]
    BY <1>1, <2>1, SubSeqProperties
  <2> QED
    BY <1>1, <2>2
<1> HIDE DEF a, b
<1> DEFINE c == a \o <<e>>
<1>4. <<e>> \in Seq(T) /\ Len(<<e>>) = 1 /\ <<e>>[1] = e
  OBVIOUS
<1>5. /\ c \in Seq(T) /\ Len(c) = i
      /\ \A k \in 1..i : c[k] = IF k <= i - 1 THEN s[k] ELSE e
  <2>1. /\ c \in Seq(T) /\ Len(c) = Len(a) + Len(<<e>>)
        /\ \A k \in 1..(Len(a) + Len(<<e>>)) :
             c[k] = IF k <= Len(a) THEN a[k] ELSE <<e>>[k - Len(a)]
    BY <1>2, <1>4, ConcatProperties
  <2> HIDE DEF c
  <2>2. Len(a) + Len(<<e>>) = i
    BY <1>1, <1>2, <1>4
  <2>3. ASSUME NEW k \in 1..i PROVE c[k] = IF k <= i - 1 THEN s[k] ELSE e
    <3>1. CASE k <= i - 1
      BY <3>1, <1>1, <1>2, <2>1, <2>2
    <3>2. CASE k = i
      <4>1. c[k] = <<e>>[k - Len(a)] /\ k - Len(a) = 1
        BY <3>2, <1>1, <1>2, <2>1, <2>2
      <4> QED
        BY <4>1, <1>4, <3>2, <1>1
    <3> QED
      BY <3>1, <3>2, <1>1
  <2> QED
    BY <2>1, <2>2, <2>3
<1> HIDE DEF c
<1>6. /\ c \o b \in Seq(T) /\ Len(c \o b) = Len(s) + 1
      /\ \A k \in 1..(Len(s) + 1) :
           (c \o b)[k] = IF k <= i THEN c[k] ELSE b[k - i]
  <2>1. /\ c \o b \in Seq(T) /\ Len(c \o b) = Len(c) + Len(b)
        /\ \A k \in 1..(Len(c) + Len(b)) :
             (c \o b)[k] = IF k <= Len(c) THEN c[k] ELSE b[k - Len(c)]
    BY <1>3, <1>5, ConcatProperties
  <2>2. Len(c) + Len(b) = Len(s) + 1
    BY <1>1, <1>3, <1>5
  <2> QED
    BY <2>1, <2>2, <1>5
<1>7. InsertAt(s, i, e) = c \o b
  BY DEF InsertAt, a, b, c
<1>8. \A k \in (i + 1)..(Len(s) + 1) : b[k - i] = s[k - 1]
  BY <1>1, <1>3
<1> QED
  BY <1>1, <1>5, <1>6, <1>7, <1>8

\* Removing the front: the others move up by one.
LEMMA TailFacts ==
  ASSUME NEW T, NEW s \in Seq(T), s # <<>>
  PROVE  /\ Tail(s) \in Seq(T) /\ Len(Tail(s)) = Len(s) - 1
         /\ Head(s) = s[1] /\ Head(s) \in T /\ Len(s) \in Nat \ {0}
         /\ \A k \in 1..(Len(s) - 1) : Tail(s)[k] = s[k + 1]
  BY HeadTailProperties, LenProperties, EmptySeq

LEMMA TimestampIsNat == \A p \in Packets : Timestamp(p) \in Nat
<1> SUFFICES ASSUME NEW p \in Packets PROVE Timestamp(p) \in Nat
  OBVIOUS
<1> DEFINE q == p \div PacketsPerFrame
<1>1. q \in Nat
  BY PlayoutAssumption DEF Packets
<1> HIDE DEF q
<1>2. \A a, b \in Nat : a * b \in Nat
  OBVIOUS
<1> QED
  BY <1>1, <1>2, PlayoutAssumption DEF Timestamp, q

LEMMA DiffMsIsNat == ASSUME NEW d \in Int PROVE DiffMs(d) \in Nat
<1>1. \A a \in Int : a % TsMod \in Nat
  BY PlayoutAssumption
<1>2. \A a \in Nat : a \div 1000 \in Nat
  OBVIOUS
<1>3. (d % TsMod) * 1000 \in Int
  BY <1>1
<1> QED
  BY <1>1, <1>2, <1>3 DEF DiffMs

LEMMA JoinsNodeFacts ==
  ASSUME NEW s \in Seq(Nodes), NEW i \in DOMAIN s, NEW p \in Packets
  PROVE  /\ JoinsNode(s, i, p) \in Seq(Nodes)
         /\ Len(JoinsNode(s, i, p)) = Len(s)
         /\ \A k \in 1..Len(s) : /\ JoinsNode(s, i, p)[k].ts = s[k].ts
                                 /\ JoinsNode(s, i, p)[k].pts = s[k].pts
                                 /\ JoinsNode(s, i, p)[k].playout = s[k].playout
<1> DEFINE n == [s[i] EXCEPT !.packets = @ \union {p}]
<1>1. s[i] \in Nodes /\ DOMAIN s = 1..Len(s) /\ Len(s) \in Nat
  BY LenProperties
<1>2. n \in Nodes /\ n.ts = s[i].ts /\ n.pts = s[i].pts /\ n.playout = s[i].playout
  BY <1>1 DEF Nodes
<1>3. JoinsNode(s, i, p) = [s EXCEPT ![i] = n]
  BY DEF JoinsNode
<1> HIDE DEF n
<1>4. /\ JoinsNode(s, i, p) \in Seq(Nodes) /\ Len(JoinsNode(s, i, p)) = Len(s)
      /\ \A k \in 1..Len(s) : JoinsNode(s, i, p)[k] = IF k = i THEN n ELSE s[k]
  BY <1>1, <1>2, <1>3, ExceptSeq
<1> QED
  BY <1>2, <1>4

-----------------------------------------------------------------------------
(* Type correctness.                                                       *)

LEMMA TimesAreInt ==
  ASSUME TypeOK, NEW p \in Packets
  PROVE  /\ SyncOffset(p) \in Int /\ PresentationTime(p) \in Int
         /\ RtpDiffMs(p) \in Nat /\ SyncedPts(p) \in Int /\ PlayoutTime(p) \in Int
<1>1. Timestamp(p) \in Nat /\ now \in Nat /\ syncOffset \in Int /\ m_uiFirstRtpTs \in Nat
  BY TimestampIsNat DEF TypeOK
<1>2. SyncOffset(p) \in Int /\ PresentationTime(p) \in Int
  BY <1>1 DEF SyncOffset, PresentationTime
<1>3. RtpDiffMs(p) \in Nat
  <2>1. Timestamp(p) - (IF m_bFirst THEN m_uiFirstRtpTs ELSE Timestamp(p)) \in Int
    BY <1>1
  <2> QED
    BY <2>1, DiffMsIsNat DEF RtpDiffMs, TypeOK
<1>4. SyncedPts(p) \in Int
  BY <1>2 DEF SyncedPts, TypeOK
<1>5. PlayoutTime(p) \in Int
  <2>1. Latency \in Nat /\ m_tFirstPacket \in Nat /\ m_tFirstPts \in Int
    BY PlayoutAssumption DEF TypeOK
  <2> QED
    BY <1>1, <1>2, <1>3, <1>4, <2>1 DEF PlayoutTime
<1> QED
  BY <1>2, <1>3, <1>4, <1>5

\* The new node and timer of a packet.
LEMMA NodeIsNode ==
  ASSUME TypeOK, NEW p \in Packets
  PROVE  Node(p, PresentationTime(p), PlayoutTime(p)) \in Nodes
  BY TimesAreInt, TimestampIsNat DEF Node, Nodes

LEMMA InsertNodeKeepsType ==
  ASSUME TypeOK, NEW node \in Nodes, InsertNode(node)
  PROVE  m_playoutBufferList' \in Seq(Nodes) /\ Len(m_playoutBufferList') = Len(m_playoutBufferList) + 1
  BY InsertAtFacts DEF InsertNode, TypeOK

LEMMA AddTimerKeepsType ==
  ASSUME TypeOK, NEW at \in Int, AddTimer(at)
  PROVE  m_mPlayoutTimers' \in Seq(Int) /\ Len(m_mPlayoutTimers') = Len(m_mPlayoutTimers) + 1
  BY InsertAtFacts DEF AddTimer, TypeOK

\* The cases of doAddRtpPacket, which leave the history within its capacity and
\* add as many timers as nodes.
LEMMA AddRtpPacketKeepsType ==
  ASSUME TypeOK, NEW p \in Packets,
         addsToNode(p) \/ isLate(p) \/ missesPlayout(p) \/ createsNode(p)
  PROVE  /\ m_playoutBufferList' \in Seq(Nodes)
         /\ m_recentHistory' \in Seq(Nodes) /\ Len(m_recentHistory') <= HistorySize
         /\ m_mPlayoutTimers' \in Seq(Int)
         /\ NodeForEveryTimer => NodeForEveryTimer'
<1> USE DEF TypeOK, NodeForEveryTimer
<1>1. CASE addsToNode(p)
  BY <1>1, JoinsNodeFacts DEF addsToNode, Holds
<1>2. CASE isLate(p)
  BY <1>2, JoinsNodeFacts DEF isLate, Holds
<1>3. CASE missesPlayout(p)
  BY <1>3 DEF missesPlayout, bufferVars
<1>4. CASE createsNode(p)
  <2>1. m_playoutBufferList' \in Seq(Nodes) /\ Len(m_playoutBufferList') = Len(m_playoutBufferList) + 1
    BY <1>4, NodeIsNode, InsertNodeKeepsType DEF createsNode
  <2>2. m_mPlayoutTimers' \in Seq(Int) /\ Len(m_mPlayoutTimers') = Len(m_mPlayoutTimers) + 1
    BY <1>4, TimesAreInt, AddTimerKeepsType DEF createsNode
  <2>3. UNCHANGED m_recentHistory
    BY <1>4 DEF createsNode
  <2>4. Len(m_mPlayoutTimers) \in Nat /\ Len(m_playoutBufferList) \in Nat
    BY LenProperties
  <2> QED
    BY <2>1, <2>2, <2>3, <2>4
<1> QED
  BY <1>1, <1>2, <1>3, <1>4

LEMMA RememberFacts ==
  ASSUME TypeOK, NEW node \in Nodes
  PROVE  Remember(node) \in Seq(Nodes) /\ Len(Remember(node)) <= HistorySize
<1>1. Len(m_recentHistory) \in Nat /\ HistorySize \in Nat \ {0}
  BY LenProperties, PlayoutAssumption DEF TypeOK
<1>2. CASE Len(m_recentHistory) < HistorySize
  BY <1>1, <1>2, AppendProperties DEF Remember, TypeOK
<1>3. CASE ~(Len(m_recentHistory) < HistorySize)
  <2>1. m_recentHistory # <<>>
    BY <1>1, <1>3
  <2>2. Tail(m_recentHistory) \in Seq(Nodes) /\ Len(Tail(m_recentHistory)) = Len(m_recentHistory) - 1
    BY <2>1, TailFacts DEF TypeOK
  <2> QED
    BY <1>1, <1>3, <2>2, AppendProperties DEF Remember, TypeOK
<1> QED
  BY <1>2, <1>3

\* The values of the reference points.
LEMMA CalculatePlayoutTimeKeepsType ==
  ASSUME TypeOK, NEW p \in Packets, calculatePlayoutTime(p)
  PROVE  /\ m_bFirst' \in BOOLEAN /\ m_tFirstPacket' \in Nat /\ m_tFirstPts' \in Int
         /\ m_uiFirstRtpTs' \in Nat /\ m_bRtcpSync' \in BOOLEAN
         /\ m_tFirstSyncedPts' \in Int /\ m_uiRtpDiffMs' \in Nat
<1>1. /\ m_bRtcpSync' = m_bIsRtcpSynchronised /\ m_bFirst' = TRUE
      /\ m_tFirstSyncedPts' = SyncedPts(p) /\ m_uiRtpDiffMs' = RtpDiffMs(p)
  BY DEF calculatePlayoutTime
<1>2. /\ m_tFirstPacket' \in Nat /\ m_tFirstPts' \in Int /\ m_uiFirstRtpTs' \in Nat
  BY TimesAreInt, TimestampIsNat DEF calculatePlayoutTime, TypeOK
<1> QED
  BY <1>1, <1>2, TimesAreInt DEF TypeOK

LEMMA PacketStep ==
  ASSUME TypeOK, NEW p \in Packets, doHandleIncomingRtp(p)
  PROVE  TypeOK' /\ (NodeForEveryTimer => NodeForEveryTimer')
<1>1. /\ m_playoutBufferList' \in Seq(Nodes)
      /\ m_recentHistory' \in Seq(Nodes) /\ Len(m_recentHistory') <= HistorySize
      /\ m_mPlayoutTimers' \in Seq(Int)
      /\ NodeForEveryTimer => NodeForEveryTimer'
  BY AddRtpPacketKeepsType DEF doHandleIncomingRtp
<1>2. /\ m_bFirst' \in BOOLEAN /\ m_tFirstPacket' \in Nat /\ m_tFirstPts' \in Int
      /\ m_uiFirstRtpTs' \in Nat /\ m_bRtcpSync' \in BOOLEAN
      /\ m_tFirstSyncedPts' \in Int /\ m_uiRtpDiffMs' \in Nat
  BY CalculatePlayoutTimeKeepsType DEF doHandleIncomingRtp
<1>3. syncOffset' \in Int
  BY TimesAreInt DEF doHandleIncomingRtp
<1>4. copies' \in [Packets -> Nat]
  BY DEF doHandleIncomingRtp, TypeOK
<1>5. UNCHANGED <<now, m_bIsRtcpSynchronised, cancelled, stopped, played>>
  BY DEF doHandleIncomingRtp
<1>6. TypeOK'
  BY <1>1, <1>2, <1>3, <1>4, <1>5 DEF TypeOK
<1> QED
  BY <1>1, <1>6

LEMMA TimeoutStep ==
  ASSUME TypeOK, onScheduledSampleTimeout
  PROVE  TypeOK' /\ (NodeForEveryTimer => NodeForEveryTimer')
<1>1. /\ m_mPlayoutTimers # <<>> /\ m_mPlayoutTimers' = Tail(m_mPlayoutTimers)
      /\ m_playoutBufferList # <<>> /\ m_playoutBufferList' = Tail(m_playoutBufferList)
      /\ m_recentHistory' = Remember(Head(m_playoutBufferList))
      /\ played' = played \union {Head(m_playoutBufferList).ts}
      /\ UNCHANGED <<now, copies, memberVars, referenceVars, cancelled, stopped>>
  BY DEF onScheduledSampleTimeout
<1>2. /\ m_mPlayoutTimers' \in Seq(Int) /\ Len(m_mPlayoutTimers') = Len(m_mPlayoutTimers) - 1
      /\ Len(m_mPlayoutTimers) \in Nat
  BY <1>1, TailFacts DEF TypeOK
<1>3. /\ m_playoutBufferList' \in Seq(Nodes) /\ Len(m_playoutBufferList') = Len(m_playoutBufferList) - 1
      /\ Len(m_playoutBufferList) \in Nat /\ Head(m_playoutBufferList) \in Nodes
  BY <1>1, TailFacts DEF TypeOK
<1>4. m_recentHistory' \in Seq(Nodes) /\ Len(m_recentHistory') <= HistorySize
  BY <1>1, <1>3, RememberFacts
<1>5. played' \subseteq Nat
  BY <1>1, <1>3 DEF TypeOK, Nodes
<1>6. TypeOK'
  BY <1>1, <1>2, <1>3, <1>4, <1>5 DEF TypeOK, memberVars, referenceVars
<1>7. NodeForEveryTimer => NodeForEveryTimer'
  BY <1>2, <1>3 DEF NodeForEveryTimer
<1> QED
  BY <1>6, <1>7

\* stop() keeps the timers that had expired already.
LEMMA StopKeepsPrefix ==
  ASSUME TypeOK, stop
  PROVE  /\ m_mPlayoutTimers' \in Seq(Int)
         /\ Len(m_mPlayoutTimers') <= Len(m_mPlayoutTimers)
         /\ \A i \in 1..Len(m_mPlayoutTimers') : m_mPlayoutTimers'[i] = m_mPlayoutTimers[i]
         /\ cancelled' \in Nat
<1>1. PICK k \in 0..Len(m_mPlayoutTimers) :
        /\ m_mPlayoutTimers' = SubSeq(m_mPlayoutTimers, 1, k)
        /\ cancelled' = Len(m_mPlayoutTimers) - k
  BY DEF stop
<1>2. Len(m_mPlayoutTimers) \in Nat /\ \A i \in 1..k : m_mPlayoutTimers[i] \in Int
  BY LenProperties DEF TypeOK
<1>3. /\ m_mPlayoutTimers' \in Seq(Int)
      /\ Len(m_mPlayoutTimers') = IF 1 <= k THEN k - 1 + 1 ELSE 0
      /\ \A i \in 1..(k - 1 + 1) : m_mPlayoutTimers'[i] = m_mPlayoutTimers[1 + i - 1]
  BY <1>1, <1>2, SubSeqProperties
<1>4. Len(m_mPlayoutTimers') = k
  BY <1>2, <1>3
<1>5. \A i \in 1..k : m_mPlayoutTimers'[i] = m_mPlayoutTimers[i]
  BY <1>2, <1>3
<1> QED
  BY <1>1, <1>2, <1>3, <1>4, <1>5

\* Every step keeps the type and, with it, a node for every timer.
LEMMA TypeStep ==
  ASSUME TypeOK, [Next]_vars
  PROVE  TypeOK' /\ (NodeForEveryTimer => NodeForEveryTimer')
<1>1. ASSUME NEW p \in Packets, doHandleIncomingRtp(p)
      PROVE  TypeOK' /\ (NodeForEveryTimer => NodeForEveryTimer')
  BY <1>1, PacketStep
<1>2. ASSUME NEW offset \in SrOffsets, onSrReceived(offset)
      PROVE  TypeOK' /\ (NodeForEveryTimer => NodeForEveryTimer')
  BY <1>2, PlayoutAssumption
  DEF onSrReceived, TypeOK, NodeForEveryTimer, referenceVars, bufferVars, timerVars
<1>3. CASE onScheduledSampleTimeout
  BY <1>3, TimeoutStep
<1>4. CASE abortedSampleTimeout
  BY <1>4 DEF abortedSampleTimeout, TypeOK, NodeForEveryTimer, memberVars, referenceVars, bufferVars
<1>5. CASE stop
  <2>1. UNCHANGED <<now, copies, memberVars, referenceVars, bufferVars, played>> /\ stopped' = TRUE
    BY <1>5 DEF stop
  <2>2. Len(m_mPlayoutTimers) \in Nat /\ Len(m_mPlayoutTimers') \in Nat /\ Len(m_playoutBufferList) \in Nat
    BY <1>5, StopKeepsPrefix, LenProperties DEF TypeOK
  <2>3. TypeOK'
    BY <1>5, <2>1, StopKeepsPrefix DEF TypeOK, memberVars, referenceVars, bufferVars
  <2>4. NodeForEveryTimer => NodeForEveryTimer'
    BY <1>5, <2>1, <2>2, StopKeepsPrefix DEF NodeForEveryTimer, bufferVars
  <2> QED
    BY <2>3, <2>4
<1>6. CASE Tick
  BY <1>6 DEF Tick, TypeOK, NodeForEveryTimer, memberVars, referenceVars, bufferVars, timerVars
<1>7. CASE UNCHANGED vars
  BY <1>7 DEF vars, TypeOK, NodeForEveryTimer, memberVars, referenceVars, bufferVars, timerVars
<1> QED
  BY <1>1, <1>2, <1>3, <1>4, <1>5, <1>6, <1>7 DEF Next

LEMMA TypeAtStart == Init => TypeOK
<1> SUFFICES ASSUME Init PROVE TypeOK
  OBVIOUS
<1>1. \A T : <<>> \in Seq(T) /\ Len(<<>>) = 0
  OBVIOUS
<1>2. HistorySize \in Nat /\ copies \in [Packets -> Nat]
  BY PlayoutAssumption DEF Init
<1>3. 0 <= HistorySize
  BY <1>2
<1>4. /\ m_playoutBufferList = <<>> /\ m_recentHistory = <<>> /\ m_mPlayoutTimers = <<>>
      /\ now = 0 /\ syncOffset = 0 /\ m_tFirstPacket = 0 /\ m_tFirstPts = 0 /\ m_uiFirstRtpTs = 0
      /\ m_tFirstSyncedPts = 0 /\ m_uiRtpDiffMs = 0 /\ cancelled = 0 /\ played = {}
  BY DEF Init
<1>5. /\ m_bIsRtcpSynchronised \in BOOLEAN /\ m_bFirst \in BOOLEAN
      /\ m_bRtcpSync \in BOOLEAN /\ stopped \in BOOLEAN
  BY DEF Init
<1>6. m_playoutBufferList \in Seq(Nodes) /\ m_recentHistory \in Seq(Nodes) /\ m_mPlayoutTimers \in Seq(Int)
  BY <1>1, <1>4
<1>7. Len(m_recentHistory) <= HistorySize
  BY <1>1, <1>3, <1>4
<1> QED
  BY <1>2, <1>4, <1>5, <1>6, <1>7 DEF TypeOK

\* The state keeps its type; the history of the buffer keeps to its capacity.
THEOREM TypeCorrect == Spec => []TypeOK
<1>1. TypeOK /\ [Next]_vars => TypeOK'
  BY TypeStep
<1> QED
  BY TypeAtStart, <1>1, PTL DEF Spec

\* The assert in getNextPlayoutBufferNode holds for any arrivals, sender reports
\* and times of stop(): there are never more timers to play than nodes.
THEOREM AssertHolds == Spec => []NodeForEveryTimer
<1>1. Init => TypeOK /\ NodeForEveryTimer
  BY TypeAtStart DEF Init, NodeForEveryTimer
<1>2. TypeOK /\ NodeForEveryTimer /\ [Next]_vars => TypeOK' /\ NodeForEveryTimer'
  BY TypeStep
<1> QED
  BY <1>1, <1>2, PTL DEF Spec

-----------------------------------------------------------------------------
(* The order of the nodes.                                                 *)

Sorted(L) == \A j, k \in 1..Len(L) : j < k => L[j].pts <= L[k].pts
Fits(L, i, pts) ==
  /\ i > 1 => L[i - 1].pts < pts
  /\ \A k \in i..Len(L) : L[k].pts >= pts

\* A node goes where it belongs.
LEMMA SortedInsert ==
  ASSUME NEW L \in Seq(Nodes), NEW node \in Nodes, NEW i \in 1..(Len(L) + 1),
         Fits(L, i, node.pts), Sorted(L)
  PROVE  \A j, k \in 1..(Len(L) + 1) :
           j < k => InsertAt(L, i, node)[j].pts <= InsertAt(L, i, node)[k].pts
<1> DEFINE M == InsertAt(L, i, node)
           n == Len(L)
<1>1. \A x \in Nodes : x.pts \in Int
  BY DEF Nodes
<1>2. n \in Nat /\ DOMAIN L = 1..n /\ \A k \in 1..n : L[k].pts \in Int
  <2>1. n \in Nat /\ DOMAIN L = 1..n /\ \A k \in 1..n : L[k] \in Nodes
    BY LenProperties
  <2> QED
    BY <1>1, <2>1
<1>3. /\ M \in Seq(Nodes) /\ Len(M) = n + 1
      /\ \A k \in 1..(i - 1) : M[k] = L[k]
      /\ M[i] = node
      /\ \A k \in (i + 1)..(n + 1) : M[k] = L[k - 1]
  BY InsertAtFacts
<1>5. node.pts \in Int
  BY <1>1
<1>6. /\ i > 1 => L[i - 1].pts < node.pts
      /\ \A k \in i..n : L[k].pts >= node.pts
  BY DEF Fits
<1>7. \A j, k \in 1..n : j < k => L[j].pts <= L[k].pts
  BY DEF Sorted
<1>8. \A k \in 1..(i - 1) : L[k].pts <= node.pts
  <2> SUFFICES ASSUME NEW k \in 1..(i - 1) PROVE L[k].pts <= node.pts
    OBVIOUS
  <2>1. i - 1 \in 1..n /\ k \in 1..n /\ (k < i - 1 \/ k = i - 1)
    BY <1>2
  <2>3. L[k].pts \in Int /\ L[i - 1].pts \in Int
    BY <2>1, <1>2
  <2>2. L[k].pts <= L[i - 1].pts
    BY <2>1, <2>3, <1>7
  <2> QED
    BY <2>1, <2>2, <2>3, <1>5, <1>6
<1> HIDE DEF M, n
<1>9. ASSUME NEW j \in 1..(n + 1), NEW k \in 1..(n + 1), j < k
      PROVE  M[j].pts <= M[k].pts
  <2>1. CASE k < i
    <3>1. j \in 1..(i - 1) /\ k \in 1..(i - 1) /\ j \in 1..n /\ k \in 1..n
      BY <2>1, <1>9, <1>2 DEF n
    <3>2. M[j] = L[j] /\ M[k] = L[k]
      BY <3>1, <1>3
    <3> QED
      BY <1>9, <3>1, <3>2, <1>7
  <2>2. CASE k = i
    BY <2>2, <1>9, <1>2, <1>3, <1>8
  <2>3. CASE k > i /\ j < i
    <3>1. M[k] = L[k - 1] /\ M[j] = L[j] /\ k - 1 \in 1..n /\ j \in 1..n /\ j < k - 1
      BY <2>3, <1>2, <1>3
    <3> QED
      BY <3>1, <1>7
  <2>4. CASE k > i /\ j = i
    <3>1. M[k] = L[k - 1] /\ M[j] = node /\ k - 1 \in i..n
      BY <2>4, <1>2, <1>3
    <3>2. L[k - 1].pts >= node.pts /\ L[k - 1].pts \in Int
      BY <3>1, <1>2, <1>6
    <3> QED
      BY <3>1, <3>2, <1>5
  <2>5. CASE k > i /\ j > i
    <3>1. M[k] = L[k - 1] /\ M[j] = L[j - 1] /\ k - 1 \in 1..n /\ j - 1 \in 1..n /\ j - 1 < k - 1
      BY <2>5, <1>9, <1>2, <1>3
    <3> QED
      BY <3>1, <1>7
  <2> QED
    BY <2>1, <2>2, <2>3, <2>4, <2>5, <1>2
<1> QED
  BY <1>9 DEF M, n

LEMMA InsertKeepsOrder ==
  ASSUME TypeOK, OrderedByPts, NEW node \in Nodes, InsertNode(node)
  PROVE  OrderedByPts'
<1> DEFINE n == Len(m_playoutBufferList)
<1>1. PICK i \in 1..(n + 1) :
        /\ Fits(m_playoutBufferList, i, node.pts)
        /\ m_playoutBufferList' = InsertAt(m_playoutBufferList, i, node)
  BY DEF InsertNode, InsertionPoint, Fits
<1>2. m_playoutBufferList \in Seq(Nodes) /\ DOMAIN m_playoutBufferList = 1..n
  BY LenProperties DEF TypeOK
<1>3. Sorted(m_playoutBufferList)
  BY <1>2 DEF OrderedByPts, Sorted
<1>4. \A j, k \in 1..(n + 1) : j < k => m_playoutBufferList'[j].pts <= m_playoutBufferList'[k].pts
  BY <1>1, <1>2, <1>3, SortedInsert
<1>5. DOMAIN m_playoutBufferList' = 1..(n + 1)
  BY InsertNodeKeepsType, LenProperties
<1> QED
  BY <1>4, <1>5 DEF OrderedByPts

LEMMA JoinKeepsOrder ==
  ASSUME TypeOK, OrderedByPts, NEW p \in Packets, addsToNode(p)
  PROVE  OrderedByPts'
<1>1. PICK i \in DOMAIN m_playoutBufferList : m_playoutBufferList' = JoinsNode(m_playoutBufferList, i, p)
  BY DEF addsToNode, Holds
<1>2. /\ m_playoutBufferList' \in Seq(Nodes) /\ Len(m_playoutBufferList') = Len(m_playoutBufferList)
      /\ \A k \in 1..Len(m_playoutBufferList) : m_playoutBufferList'[k].pts = m_playoutBufferList[k].pts
  BY <1>1, JoinsNodeFacts DEF TypeOK
<1>3. /\ DOMAIN m_playoutBufferList = 1..Len(m_playoutBufferList)
      /\ DOMAIN m_playoutBufferList' = 1..Len(m_playoutBufferList)
  BY <1>2, LenProperties DEF TypeOK
<1> QED
  BY <1>2, <1>3 DEF OrderedByPts

LEMMA PlayKeepsOrder ==
  ASSUME TypeOK, OrderedByPts, m_playoutBufferList # <<>>,
         m_playoutBufferList' = Tail(m_playoutBufferList)
  PROVE  OrderedByPts'
<1> DEFINE n == Len(m_playoutBufferList)
<1>1. /\ m_playoutBufferList' \in Seq(Nodes) /\ Len(m_playoutBufferList') = n - 1 /\ n \in Nat \ {0}
      /\ \A k \in 1..(n - 1) : m_playoutBufferList'[k] = m_playoutBufferList[k + 1]
  BY TailFacts DEF TypeOK
<1>2. DOMAIN m_playoutBufferList = 1..n /\ DOMAIN m_playoutBufferList' = 1..(n - 1)
  BY <1>1, LenProperties DEF TypeOK
<1> HIDE DEF n
<1>3. ASSUME NEW j \in 1..(n - 1), NEW k \in 1..(n - 1), j < k
      PROVE  m_playoutBufferList'[j].pts <= m_playoutBufferList'[k].pts
  <2>1. j + 1 \in 1..n /\ k + 1 \in 1..n /\ j + 1 < k + 1
    BY <1>1, <1>3
  <2> QED
    BY <2>1, <1>1, <1>2 DEF OrderedByPts
<1> QED
  BY <1>2, <1>3 DEF OrderedByPts

LEMMA OrderStep ==
  ASSUME TypeOK, OrderedByPts, [Next]_vars
  PROVE  OrderedByPts'
<1>1. ASSUME NEW p \in Packets, doHandleIncomingRtp(p) PROVE OrderedByPts'
  <2>1. CASE addsToNode(p)
    BY <2>1, JoinKeepsOrder
  <2>2. CASE isLate(p) \/ missesPlayout(p)
    BY <2>2 DEF isLate, missesPlayout, bufferVars, OrderedByPts
  <2>3. CASE createsNode(p)
    BY <2>3, NodeIsNode, InsertKeepsOrder DEF createsNode
  <2> QED
    BY <1>1, <2>1, <2>2, <2>3 DEF doHandleIncomingRtp
<1>2. CASE onScheduledSampleTimeout
  BY <1>2, PlayKeepsOrder DEF onScheduledSampleTimeout
<1>3. CASE UNCHANGED m_playoutBufferList
  BY <1>3 DEF OrderedByPts
<1> QED
  BY <1>1, <1>2, <1>3
  DEF Next, onSrReceived, abortedSampleTimeout, stop, Tick, vars, bufferVars

\* The nodes wait in presentation order, however packets are reordered and
\* wherever sender reports move the reference.
THEOREM PresentationOrder == Spec => []OrderedByPts
<1>1. Init => TypeOK /\ OrderedByPts
  BY TypeAtStart DEF Init, OrderedByPts
<1>2. TypeOK /\ OrderedByPts /\ [Next]_vars => TypeOK' /\ OrderedByPts'
  BY TypeStep, OrderStep
<1> QED
  BY <1>1, <1>2, PTL DEF Spec

-----------------------------------------------------------------------------
(* A session without sender reports.  All presentation times then have one *)
(* reference, the arrival of the first packet, so that presentation and    *)
(* playout order agree, and the k-th timer from the front never expires    *)
(* before the k-th node is due.  After stop() there are fewer timers than  *)
(* nodes, and a timer plays a node that was due long ago.                  *)

OneReference ==
  /\ m_bIsRtcpSynchronised = FALSE
  /\ m_bFirst => m_tFirstPacket = m_tFirstPts /\ m_tFirstPts = syncOffset + m_uiFirstRtpTs
  /\ ~m_bFirst => m_playoutBufferList = <<>>
  /\ \A i \in 1..Len(m_playoutBufferList) :
       /\ m_playoutBufferList[i].pts = syncOffset + m_playoutBufferList[i].ts
       /\ m_playoutBufferList[i].playout = m_playoutBufferList[i].pts + Latency

\* The timers are behind the nodes.
DueInTime(nodes, timers) ==
  \A k \in 1..Len(timers) : nodes[k].playout <= timers[k]

TimersFollowNodes == DueInTime(m_playoutBufferList, m_mPlayoutTimers)

PlayoutInv ==
  TypeOK /\ NodeForEveryTimer /\ OrderedByPts /\ OneReference /\ TimersFollowNodes

SortedByPlayout(L) == \A j, k \in 1..Len(L) : j <= k => L[j].playout <= L[k].playout
FitsPlayout(L, i, at) ==
  /\ i > 1 => L[i - 1].playout < at
  /\ \A k \in i..Len(L) : L[k].playout >= at
FitsTimers(t, i, at) ==
  /\ i > 1 => t[i - 1] <= at
  /\ \A k \in i..Len(t) : t[k] > at

\* A node and its timer are inserted at different places; the k-th timer is
\* still behind the k-th node.
LEMMA InsertBoth ==
  ASSUME NEW L \in Seq(Nodes), NEW t \in Seq(Int), NEW node \in Nodes,
         NEW a \in 1..(Len(L) + 1), NEW b \in 1..(Len(t) + 1), Len(t) <= Len(L),
         SortedByPlayout(L), FitsPlayout(L, a, node.playout),
         FitsTimers(t, b, node.playout), DueInTime(L, t)
  PROVE  DueInTime(InsertAt(L, a, node), InsertAt(t, b, node.playout))
<1> DEFINE M == InsertAt(L, a, node)
           u == InsertAt(t, b, node.playout)
           n == Len(L)
           m == Len(t)
           at == node.playout
<1>1. \A x \in Nodes : x.playout \in Int
  BY DEF Nodes
<1>2. n \in Nat /\ m \in Nat /\ m <= n /\ at \in Int
  BY <1>1, LenProperties
<1>3. /\ \A k \in 1..n : L[k].playout \in Int
      /\ \A k \in 1..m : t[k] \in Int
  <2>1. (\A k \in 1..n : L[k] \in Nodes) /\ \A k \in 1..m : t[k] \in Int
    BY LenProperties
  <2> QED
    BY <1>1, <2>1
<1>4. /\ \A k \in 1..(a - 1) : M[k] = L[k]
      /\ M[a] = node
      /\ \A k \in (a + 1)..(n + 1) : M[k] = L[k - 1]
  BY InsertAtFacts
<1>5. /\ Len(u) = m + 1
      /\ \A k \in 1..(b - 1) : u[k] = t[k]
      /\ u[b] = at
      /\ \A k \in (b + 1)..(m + 1) : u[k] = t[k - 1]
  BY <1>2, InsertAtFacts
<1>6. \A j, k \in 1..n : j <= k => L[j].playout <= L[k].playout
  BY DEF SortedByPlayout
<1>7. (a > 1 => L[a - 1].playout < at) /\ \A k \in a..n : L[k].playout >= at
  BY DEF FitsPlayout
<1>8. (b > 1 => t[b - 1] <= at) /\ \A k \in b..m : t[k] > at
  BY DEF FitsTimers
<1>9. \A k \in 1..m : L[k].playout <= t[k]
  BY DEF DueInTime
<1> HIDE DEF M, u, n, m, at
<1>10. \A k \in 1..(a - 1) : L[k].playout < at
  <2> SUFFICES ASSUME NEW k \in 1..(a - 1) PROVE L[k].playout < at
    OBVIOUS
  <2>1. a - 1 \in 1..n /\ k \in 1..n /\ k <= a - 1 /\ a > 1
    BY <1>2 DEF n
  <2> QED
    BY <2>1, <1>2, <1>3, <1>6, <1>7
<1>11. a \in 1..(n + 1) /\ b \in 1..(m + 1)
  BY DEF n, m
<1>12. ASSUME NEW k \in 1..(m + 1) PROVE M[k].playout <= u[k]
  <2>1. CASE k < b
    <3>1. u[k] = t[k] /\ k \in 1..m /\ k \in 1..n /\ L[k].playout <= t[k]
      BY <2>1, <1>2, <1>5, <1>9, <1>11
    <3>2. CASE k < a
      <4>1. k \in 1..(a - 1)
        BY <3>1, <3>2, <1>2, <1>11
      <4>2. M[k] = L[k]
        BY <4>1, <1>4
      <4> QED
        BY <3>1, <4>2
    <3>3. CASE k = a
      <4>1. M[k].playout = at /\ L[k].playout >= at
        BY <3>1, <3>3, <1>2, <1>4, <1>7, <1>11 DEF at
      <4>2. at \in Int /\ L[k].playout \in Int /\ t[k] \in Int
        BY <3>1, <1>2, <1>3
      <4> QED
        BY <4>1, <4>2, <3>1
    <3>4. CASE k > a
      <4>1. M[k] = L[k - 1] /\ k - 1 \in 1..n /\ k - 1 <= k
        BY <3>1, <3>4, <1>2, <1>4, <1>11
      <4>2. L[k - 1].playout <= L[k].playout
        BY <4>1, <3>1, <1>6
      <4>3. L[k - 1].playout \in Int /\ L[k].playout \in Int /\ t[k] \in Int
        BY <4>1, <3>1, <1>3
      <4>4. M[k].playout = L[k - 1].playout /\ u[k] = t[k] /\ L[k].playout <= t[k]
        BY <4>1, <3>1
      <4> DEFINE x == L[k - 1].playout
                 y == L[k].playout
                 z == t[k]
      <4>5. x \in Int /\ y \in Int /\ z \in Int /\ x <= y /\ y <= z
        BY <4>2, <4>3, <4>4
      <4>6. M[k].playout = x /\ u[k] = z
        BY <4>4
      <4> HIDE DEF x, y, z
      <4> QED
        BY <4>5, <4>6
    <3> QED
      BY <3>2, <3>3, <3>4, <1>11
  <2>2. CASE k = b
    <3>1. u[k] = at
      BY <2>2, <1>5
    <3>2. CASE k < a
      BY <3>1, <3>2, <1>2, <1>3, <1>4, <1>10, <1>11
    <3>3. CASE k = a
      BY <3>1, <3>3, <1>2, <1>4 DEF at
    <3>4. CASE k > a
      <4>1. M[k] = L[k - 1] /\ k - 1 \in 1..m /\ k - 1 \in 1..n
        BY <2>2, <3>4, <1>2, <1>4, <1>11
      <4>2. L[k - 1].playout <= t[k - 1]
        BY <4>1, <1>9
      <4>3. t[k - 1] <= at
        BY <2>2, <3>4, <1>8, <1>11
      <4> QED
        BY <4>1, <4>2, <4>3, <3>1, <1>2, <1>3
    <3> QED
      BY <3>2, <3>3, <3>4, <1>11
  <2>3. CASE k > b
    <3>1. u[k] = t[k - 1] /\ k - 1 \in 1..m /\ k - 1 \in 1..n /\ t[k - 1] > at /\ t[k - 1] \in Int
      BY <2>3, <1>2, <1>3, <1>5, <1>8, <1>11
    <3>2. CASE k < a
      <4>1. M[k] = L[k] /\ k \in 1..n /\ L[k].playout < at
        BY <3>2, <1>2, <1>4, <1>10, <1>11
      <4>2. L[k].playout \in Int /\ L[k].playout <= t[k - 1]
        BY <4>1, <3>1, <1>2, <1>3
      <4> QED
        BY <4>1, <4>2, <3>1
    <3>3. CASE k = a
      <4>1. M[k].playout = at
        BY <3>3, <1>4 DEF at
      <4> QED
        BY <4>1, <3>1, <1>2
    <3>4. CASE k > a
      <4>1. M[k] = L[k - 1]
        BY <3>1, <3>4, <1>2, <1>4, <1>11
      <4> QED
        BY <4>1, <3>1, <1>9
    <3> QED
      BY <3>2, <3>3, <3>4, <1>11
  <2> QED
    BY <2>1, <2>2, <2>3, <1>11
<1> QED
  BY <1>5, <1>12 DEF DueInTime, M, u, at

\* A packet is played Latency after its presentation time.
LEMMA PacketTimes ==
  ASSUME TypeOK, OneReference, NEW p \in Packets
  PROVE  /\ PresentationTime(p) = SyncOffset(p) + Timestamp(p)
         /\ PlayoutTime(p) = PresentationTime(p) + Latency
         /\ m_bFirst => SyncOffset(p) = syncOffset
<1>1. /\ Timestamp(p) \in Nat /\ now \in Nat /\ syncOffset \in Int /\ Latency \in Nat
      /\ m_tFirstPacket \in Nat /\ m_tFirstPts \in Int /\ m_uiFirstRtpTs \in Nat
  BY TimestampIsNat, PlayoutAssumption DEF TypeOK
<1>2. PresentationTime(p) = SyncOffset(p) + Timestamp(p)
  BY DEF PresentationTime
<1>3. CASE m_bFirst
  <2>1. SyncOffset(p) = syncOffset /\ m_tFirstPacket = m_tFirstPts
    BY <1>3 DEF SyncOffset, OneReference
  <2>2. PlayoutTime(p) = m_tFirstPacket + (PresentationTime(p) - m_tFirstPts) + Latency
    BY <1>3 DEF PlayoutTime, OneReference
  <2> QED
    BY <1>1, <1>2, <2>1, <2>2
<1>4. CASE ~m_bFirst
  <2>1. SyncOffset(p) = now - Timestamp(p) /\ PlayoutTime(p) = now + Latency
    BY <1>4 DEF SyncOffset, PlayoutTime, OneReference
  <2> QED
    BY <1>1, <1>2, <1>4, <2>1
<1> QED
  BY <1>3, <1>4

\* Nodes that are timed as the reference says.
Timed(nodes, offset) ==
  \A i \in 1..Len(nodes) :
    nodes[i].pts = offset + nodes[i].ts /\ nodes[i].playout = nodes[i].pts + Latency

LEMMA InsertKeepsTimes ==
  ASSUME NEW L \in Seq(Nodes), NEW node \in Nodes, NEW i \in 1..(Len(L) + 1), NEW offset \in Int,
         Timed(L, offset), node.pts = offset + node.ts, node.playout = node.pts + Latency
  PROVE  Timed(InsertAt(L, i, node), offset)
<1> DEFINE M == InsertAt(L, i, node)
<1>1. /\ Len(M) = Len(L) + 1 /\ Len(L) \in Nat
      /\ \A k \in 1..(i - 1) : M[k] = L[k]
      /\ M[i] = node
      /\ \A k \in (i + 1)..(Len(L) + 1) : M[k] = L[k - 1]
  BY InsertAtFacts, LenProperties
<1> HIDE DEF M
<1>2. ASSUME NEW k \in 1..(Len(L) + 1)
      PROVE  M[k].pts = offset + M[k].ts /\ M[k].playout = M[k].pts + Latency
  <2>1. CASE k < i
    BY <2>1, <1>1 DEF Timed
  <2>2. CASE k = i
    BY <2>2, <1>1
  <2>3. CASE k > i
    <3>1. M[k] = L[k - 1] /\ k - 1 \in 1..Len(L)
      BY <2>3, <1>1
    <3> QED
      BY <3>1 DEF Timed
  <2> QED
    BY <2>1, <2>2, <2>3, <1>1
<1> QED
  BY <1>1, <1>2 DEF Timed, M

\* What a packet does to the nodes, with the reference that it leaves.
LEMMA PacketKeepsTimes ==
  ASSUME TypeOK, OneReference, NEW p \in Packets, doHandleIncomingRtp(p)
  PROVE  Timed(m_playoutBufferList', syncOffset')
<1>1. syncOffset' = SyncOffset(p) /\ SyncOffset(p) \in Int
  BY TimesAreInt DEF doHandleIncomingRtp
<1>2. m_playoutBufferList \in Seq(Nodes) /\ Timed(m_playoutBufferList, SyncOffset(p))
  <2>1. Timed(m_playoutBufferList, syncOffset)
    BY DEF OneReference, Timed
  <2>2. CASE m_bFirst
    BY <2>1, <2>2, PacketTimes DEF TypeOK
  <2>3. CASE ~m_bFirst
    BY <2>3 DEF OneReference, Timed, TypeOK
  <2> QED
    BY <2>2, <2>3
<1>3. CASE addsToNode(p)
  <2>1. PICK i \in DOMAIN m_playoutBufferList :
          m_playoutBufferList' = JoinsNode(m_playoutBufferList, i, p)
    BY <1>3 DEF addsToNode, Holds
  <2>2. /\ Len(m_playoutBufferList') = Len(m_playoutBufferList)
        /\ \A k \in 1..Len(m_playoutBufferList) :
             /\ m_playoutBufferList'[k].ts = m_playoutBufferList[k].ts
             /\ m_playoutBufferList'[k].pts = m_playoutBufferList[k].pts
             /\ m_playoutBufferList'[k].playout = m_playoutBufferList[k].playout
    BY <1>2, <2>1, JoinsNodeFacts
  <2> QED
    BY <1>1, <1>2, <2>2 DEF Timed
<1>4. CASE isLate(p) \/ missesPlayout(p)
  BY <1>1, <1>2, <1>4 DEF isLate, missesPlayout, bufferVars
<1>5. CASE createsNode(p)
  <2> DEFINE node == Node(p, PresentationTime(p), PlayoutTime(p))
  <2>1. PICK i \in 1..(Len(m_playoutBufferList) + 1) :
          m_playoutBufferList' = InsertAt(m_playoutBufferList, i, node)
    BY <1>5 DEF createsNode, InsertNode
  <2>2. /\ node \in Nodes /\ node.ts = Timestamp(p)
        /\ node.pts = PresentationTime(p) /\ node.playout = PlayoutTime(p)
    BY NodeIsNode DEF Node
  <2> HIDE DEF node
  <2> QED
    BY <1>1, <1>2, <2>1, <2>2, PacketTimes, InsertKeepsTimes
<1> QED
  BY <1>3, <1>4, <1>5 DEF doHandleIncomingRtp

LEMMA ReferenceStep ==
  ASSUME SrOffsets = {}, TypeOK, OneReference, [Next]_vars
  PROVE  OneReference'
<1>1. ASSUME NEW p \in Packets, doHandleIncomingRtp(p) PROVE OneReference'
  <2>1. m_bIsRtcpSynchronised' = FALSE /\ m_bFirst' = TRUE
    BY <1>1 DEF doHandleIncomingRtp, calculatePlayoutTime, OneReference
  <2>2. m_tFirstPacket' = m_tFirstPts' /\ m_tFirstPts' = syncOffset' + m_uiFirstRtpTs'
    <3>1. /\ Timestamp(p) \in Nat /\ now \in Nat /\ syncOffset' = SyncOffset(p)
          /\ PresentationTime(p) = SyncOffset(p) + Timestamp(p)
      BY <1>1, TimestampIsNat, PacketTimes DEF TypeOK, doHandleIncomingRtp
    <3>2. CASE m_bFirst
      BY <1>1, <3>1, <3>2, PacketTimes DEF doHandleIncomingRtp, calculatePlayoutTime, OneReference
    <3>3. CASE ~m_bFirst
      <4>1. SyncOffset(p) = now - Timestamp(p)
        BY <3>3 DEF SyncOffset, OneReference
      <4>2. m_tFirstPacket' = now /\ m_tFirstPts' = PresentationTime(p) /\ m_uiFirstRtpTs' = Timestamp(p)
        BY <1>1, <3>3 DEF doHandleIncomingRtp, calculatePlayoutTime
      <4> QED
        BY <3>1, <4>1, <4>2
    <3> QED
      BY <3>2, <3>3
  <2>3. Timed(m_playoutBufferList', syncOffset')
    BY <1>1, PacketKeepsTimes
  <2> QED
    BY <2>1, <2>2, <2>3 DEF OneReference, Timed
<1>2. CASE onScheduledSampleTimeout
  <2> DEFINE n == Len(m_playoutBufferList)
  <2>1. UNCHANGED <<syncOffset, m_bIsRtcpSynchronised, m_bFirst, m_tFirstPacket, m_tFirstPts, m_uiFirstRtpTs>>
    BY <1>2 DEF onScheduledSampleTimeout, memberVars, referenceVars
  <2>2. m_playoutBufferList # <<>> /\ m_playoutBufferList' = Tail(m_playoutBufferList) /\ m_bFirst
    BY <1>2 DEF onScheduledSampleTimeout, OneReference
  <2>3. /\ Len(m_playoutBufferList') = n - 1 /\ n \in Nat \ {0}
        /\ \A k \in 1..(n - 1) : m_playoutBufferList'[k] = m_playoutBufferList[k + 1]
    BY <2>2, TailFacts DEF TypeOK
  <2>4. Timed(m_playoutBufferList, syncOffset)
    BY DEF OneReference, Timed
  <2>5. \A k \in 1..(n - 1) : k + 1 \in 1..n
    BY <2>3
  <2>6. Timed(m_playoutBufferList', syncOffset)
    BY <2>3, <2>4, <2>5 DEF Timed
  <2> QED
    BY <2>1, <2>2, <2>6 DEF OneReference, Timed
<1>3. ASSUME UNCHANGED <<syncOffset, m_bIsRtcpSynchronised, m_bFirst, m_tFirstPacket,
                         m_tFirstPts, m_uiFirstRtpTs, m_playoutBufferList>>
      PROVE  OneReference'
  BY <1>3 DEF OneReference
<1>4. CASE abortedSampleTimeout \/ stop \/ Tick \/ UNCHANGED vars
  BY <1>3, <1>4 DEF abortedSampleTimeout, stop, Tick, vars, memberVars, referenceVars, bufferVars
<1> QED
  BY <1>1, <1>2, <1>4 DEF Next

\* Without sender reports presentation order is playout order.
LEMMA PlayoutOrder ==
  ASSUME TypeOK, OrderedByPts, OneReference
  PROVE  SortedByPlayout(m_playoutBufferList)
<1> DEFINE L == m_playoutBufferList
<1>1. Len(L) \in Nat /\ DOMAIN L = 1..Len(L) /\ \A k \in 1..Len(L) : L[k] \in Nodes
  BY LenProperties DEF TypeOK
<1>2. \A k \in 1..Len(L) : L[k].pts \in Int
  BY <1>1 DEF Nodes
<1>3. \A k \in 1..Len(L) : L[k].playout = L[k].pts + Latency
  BY DEF OneReference
<1>4. \A j, k \in 1..Len(L) : j < k => L[j].pts <= L[k].pts
  BY <1>1 DEF OrderedByPts
<1>5. Latency \in Nat
  BY PlayoutAssumption
<1> HIDE DEF L
<1>6. ASSUME NEW j \in 1..Len(L), NEW k \in 1..Len(L), j <= k
      PROVE  L[j].playout <= L[k].playout
  <2>1. L[j].pts <= L[k].pts /\ L[j].pts \in Int /\ L[k].pts \in Int
    BY <1>1, <1>2, <1>4, <1>6
  <2> QED
    BY <2>1, <1>3, <1>5
<1> QED
  BY <1>6 DEF SortedByPlayout, L

LEMMA PacketKeepsTimers ==
  ASSUME TypeOK, NodeForEveryTimer, OrderedByPts, OneReference, TimersFollowNodes,
         NEW p \in Packets, doHandleIncomingRtp(p)
  PROVE  TimersFollowNodes'
<1>0. Len(m_mPlayoutTimers) \in Nat /\ Len(m_playoutBufferList) \in Nat
      /\ Len(m_mPlayoutTimers) <= Len(m_playoutBufferList)
  BY LenProperties DEF TypeOK, NodeForEveryTimer
<1>1. CASE addsToNode(p)
  <2>1. PICK i \in DOMAIN m_playoutBufferList :
          m_playoutBufferList' = JoinsNode(m_playoutBufferList, i, p)
    BY <1>1 DEF addsToNode, Holds
  <2>2. \A k \in 1..Len(m_playoutBufferList) :
          m_playoutBufferList'[k].playout = m_playoutBufferList[k].playout
    BY <2>1, JoinsNodeFacts DEF TypeOK
  <2>3. UNCHANGED m_mPlayoutTimers
    BY <1>1 DEF addsToNode
  <2>4. \A k \in 1..Len(m_mPlayoutTimers) : k \in 1..Len(m_playoutBufferList)
    BY <1>0
  <2> QED
    BY <2>2, <2>3, <2>4 DEF TimersFollowNodes, DueInTime
<1>2. CASE isLate(p) \/ missesPlayout(p)
  BY <1>2 DEF isLate, missesPlayout, bufferVars, TimersFollowNodes
<1>3. CASE createsNode(p)
  <2> DEFINE node == Node(p, PresentationTime(p), PlayoutTime(p))
             L == m_playoutBufferList
             t == m_mPlayoutTimers
  <2>1. node \in Nodes /\ node.pts = PresentationTime(p) /\ node.playout = PlayoutTime(p)
    BY NodeIsNode DEF Node
  <2> HIDE DEF node
  <2>2. PICK a \in 1..(Len(L) + 1) : Fits(L, a, node.pts) /\ L' = InsertAt(L, a, node)
    BY <1>3 DEF createsNode, InsertNode, InsertionPoint, Fits, node
  <2>3. PICK b \in 1..(Len(t) + 1) :
          FitsTimers(t, b, node.playout) /\ t' = InsertAt(t, b, node.playout)
    BY <1>3, <2>1 DEF createsNode, AddTimer, FitsTimers
  <2>4. L \in Seq(Nodes) /\ t \in Seq(Int)
    BY DEF TypeOK
  <2>5. FitsPlayout(L, a, node.playout)
    <3>1. /\ a > 1 => L[a - 1].pts < node.pts
          /\ \A k \in a..Len(L) : L[k].pts >= node.pts
      BY <2>2 DEF Fits
    <3>2. \A k \in 1..Len(L) : L[k].playout = L[k].pts + Latency /\ L[k].pts \in Int
      <4>1. \A k \in 1..Len(L) : L[k] \in Nodes
        BY <2>4, LenProperties
      <4> QED
        BY <4>1 DEF OneReference, Nodes
    <3>3. node.playout = node.pts + Latency /\ node.pts \in Int /\ Latency \in Nat
      BY <2>1, PacketTimes, TimesAreInt, PlayoutAssumption
    <3>4. a > 1 => a - 1 \in 1..Len(L)
      BY <1>0
    <3>5. a > 1 => L[a - 1].playout < node.playout
      BY <3>1, <3>2, <3>3, <3>4
    <3>6. ASSUME NEW k \in a..Len(L) PROVE L[k].playout >= node.playout
      <4>1. k \in 1..Len(L) /\ L[k].pts >= node.pts
        BY <1>0, <3>1
      <4> QED
        BY <4>1, <3>2, <3>3
    <3> QED
      BY <3>5, <3>6 DEF FitsPlayout
  <2>6. SortedByPlayout(L) /\ DueInTime(L, t)
    BY PlayoutOrder DEF TimersFollowNodes
  <2>7. DueInTime(InsertAt(L, a, node), InsertAt(t, b, node.playout))
    BY <1>0, <2>1, <2>3, <2>4, <2>5, <2>6, InsertBoth
  <2> QED
    BY <2>2, <2>3, <2>7 DEF TimersFollowNodes
<1> QED
  BY <1>1, <1>2, <1>3 DEF doHandleIncomingRtp

LEMMA TimersStep ==
  ASSUME SrOffsets = {}, PlayoutInv, [Next]_vars
  PROVE  TimersFollowNodes'
<1> USE DEF PlayoutInv
<1>1. ASSUME NEW p \in Packets, doHandleIncomingRtp(p) PROVE TimersFollowNodes'
  BY <1>1, PacketKeepsTimers
<1>2. CASE onScheduledSampleTimeout
  <2> DEFINE m == Len(m_mPlayoutTimers)
             n == Len(m_playoutBufferList)
  <2>1. /\ m_mPlayoutTimers # <<>> /\ m_mPlayoutTimers' = Tail(m_mPlayoutTimers)
        /\ m_playoutBufferList # <<>> /\ m_playoutBufferList' = Tail(m_playoutBufferList)
    BY <1>2 DEF onScheduledSampleTimeout
  <2>2. /\ Len(m_mPlayoutTimers') = m - 1 /\ m \in Nat \ {0}
        /\ \A k \in 1..(m - 1) : m_mPlayoutTimers'[k] = m_mPlayoutTimers[k + 1]
    BY <2>1, TailFacts DEF TypeOK
  <2>3. /\ n \in Nat \ {0}
        /\ \A k \in 1..(n - 1) : m_playoutBufferList'[k] = m_playoutBufferList[k + 1]
    BY <2>1, TailFacts DEF TypeOK
  <2>4. m <= n
    BY DEF NodeForEveryTimer
  <2>5. \A k \in 1..m : m_playoutBufferList[k].playout <= m_mPlayoutTimers[k]
    BY DEF TimersFollowNodes, DueInTime
  <2> HIDE DEF m, n
  <2>6. ASSUME NEW k \in 1..(m - 1)
        PROVE  m_playoutBufferList'[k].playout <= m_mPlayoutTimers'[k]
    <3>1. k \in 1..(n - 1) /\ k + 1 \in 1..m
      BY <2>2, <2>3, <2>4
    <3> QED
      BY <3>1, <2>2, <2>3, <2>5
  <2> QED
    BY <2>2, <2>6 DEF TimersFollowNodes, DueInTime
<1>3. CASE stop
  <2>1. UNCHANGED m_playoutBufferList
    BY <1>3 DEF stop, bufferVars
  <2>2. /\ Len(m_mPlayoutTimers') <= Len(m_mPlayoutTimers)
        /\ m_mPlayoutTimers' \in Seq(Int)
        /\ \A i \in 1..Len(m_mPlayoutTimers') : m_mPlayoutTimers'[i] = m_mPlayoutTimers[i]
    BY <1>3, StopKeepsPrefix
  <2>3. Len(m_mPlayoutTimers) \in Nat /\ Len(m_mPlayoutTimers') \in Nat
    BY <2>2, LenProperties DEF TypeOK
  <2>4. \A i \in 1..Len(m_mPlayoutTimers') : i \in 1..Len(m_mPlayoutTimers)
    BY <2>2, <2>3
  <2> QED
    BY <2>1, <2>2, <2>4 DEF TimersFollowNodes, DueInTime
<1>4. CASE UNCHANGED <<m_mPlayoutTimers, m_playoutBufferList>>
  BY <1>4 DEF TimersFollowNodes
<1>5. CASE abortedSampleTimeout \/ Tick \/ UNCHANGED vars
  BY <1>4, <1>5 DEF abortedSampleTimeout, Tick, vars, bufferVars, timerVars
<1> QED
  BY <1>1, <1>2, <1>3, <1>5 DEF Next

LEMMA InvariantAtStart == Init => PlayoutInv
<1>1. Init => TypeOK
  BY TypeAtStart
<1>2. Init => NodeForEveryTimer /\ OrderedByPts /\ OneReference /\ TimersFollowNodes
  BY DEF Init, NodeForEveryTimer, OrderedByPts, OneReference, TimersFollowNodes, DueInTime
<1> QED
  BY <1>1, <1>2 DEF PlayoutInv

LEMMA InvariantStep ==
  ASSUME SrOffsets = {}, PlayoutInv, [Next]_vars
  PROVE  PlayoutInv'
  BY TypeStep, OrderStep, ReferenceStep, TimersStep DEF PlayoutInv

\* Without sender reports, nodes are to be played at the distances of their
\* timestamps, counted from the first packet (calculatePlayoutTime).
THEOREM TimestampsKept ==
  ASSUME SrOffsets = {}
  PROVE  Spec => []PlayoutFollowsTimestamps
<1>1. PlayoutInv => PlayoutFollowsTimestamps
  <2> SUFFICES ASSUME PlayoutInv, NEW i \in DOMAIN m_playoutBufferList
               PROVE  m_playoutBufferList[i].playout =
                        m_tFirstPacket + (m_playoutBufferList[i].ts - m_uiFirstRtpTs) + Latency
    BY DEF PlayoutFollowsTimestamps
  <2>1. i \in 1..Len(m_playoutBufferList) /\ m_playoutBufferList[i] \in Nodes
    BY LenProperties DEF PlayoutInv, TypeOK
  <2>2. m_playoutBufferList[i].ts \in Nat
    BY <2>1 DEF Nodes
  <2>3. /\ m_playoutBufferList[i].pts = syncOffset + m_playoutBufferList[i].ts
        /\ m_playoutBufferList[i].playout = m_playoutBufferList[i].pts + Latency
    BY <2>1 DEF PlayoutInv, OneReference
  <2>4. m_bFirst
    BY <2>1 DEF PlayoutInv, OneReference
  <2>5. m_tFirstPacket = syncOffset + m_uiFirstRtpTs
    BY <2>4 DEF PlayoutInv, OneReference
  <2>6. syncOffset \in Int /\ m_uiFirstRtpTs \in Nat /\ Latency \in Nat
    BY PlayoutAssumption DEF PlayoutInv, TypeOK
  <2> QED
    BY <2>2, <2>3, <2>5, <2>6
<1>2. PlayoutInv /\ [Next]_vars => PlayoutInv'
  BY InvariantStep
<1> QED
  BY InvariantAtStart, <1>1, <1>2, PTL DEF Spec

\* Only the timer's handler takes a node from the front, and then the node is
\* due.
LEMMA PlayStep ==
  ASSUME PlayoutInv, SrOffsets = {}, [Next]_vars, Plays
  PROVE  Head(m_playoutBufferList).playout <= now
<1> DEFINE n == Len(m_playoutBufferList)
<1>1. /\ Len(m_playoutBufferList') = n - 1 /\ n \in Nat
      /\ Head(m_playoutBufferList) = m_playoutBufferList[1] /\ m_playoutBufferList[1] \in Nodes
  BY TailFacts DEF PlayoutInv, TypeOK, Plays
<1>2. m_playoutBufferList' # m_playoutBufferList
  BY <1>1
<1>3. ASSUME NEW p \in Packets, doHandleIncomingRtp(p) PROVE FALSE
  <2>1. CASE addsToNode(p)
    <3>1. PICK i \in DOMAIN m_playoutBufferList :
            m_playoutBufferList' = JoinsNode(m_playoutBufferList, i, p)
      BY <2>1 DEF addsToNode, Holds
    <3>2. Len(m_playoutBufferList') = n
      BY <3>1, JoinsNodeFacts DEF PlayoutInv, TypeOK
    <3> QED
      BY <1>1, <3>2
  <2>2. CASE isLate(p) \/ missesPlayout(p)
    BY <1>2, <2>2 DEF isLate, missesPlayout, bufferVars
  <2>3. CASE createsNode(p)
    <3>1. Len(m_playoutBufferList') = n + 1
      BY <2>3, NodeIsNode, InsertNodeKeepsType DEF createsNode, PlayoutInv
    <3> QED
      BY <1>1, <3>1
  <2> QED
    BY <1>3, <2>1, <2>2, <2>3 DEF doHandleIncomingRtp
<1>4. onScheduledSampleTimeout
  BY <1>2, <1>3 DEF Next, abortedSampleTimeout, stop, Tick, vars, bufferVars
<1>5. m_mPlayoutTimers # <<>> /\ Head(m_mPlayoutTimers) <= now /\ now \in Int
  BY <1>4 DEF onScheduledSampleTimeout, PlayoutInv, TypeOK
<1>6. Head(m_mPlayoutTimers) = m_mPlayoutTimers[1] /\ Len(m_mPlayoutTimers) \in Nat \ {0} /\ m_mPlayoutTimers[1] \in Int
  BY <1>5, TailFacts DEF PlayoutInv, TypeOK
<1>7. m_playoutBufferList[1].playout <= m_mPlayoutTimers[1]
  BY <1>6 DEF PlayoutInv, TimersFollowNodes, DueInTime
<1>8. m_playoutBufferList[1].playout \in Int
  BY <1>1 DEF Nodes
<1> QED
  BY <1>1, <1>5, <1>6, <1>7, <1>8

\* Without sender reports a node is played when its own playout time has come,
\* although the handler of a timer plays whichever node is in front
\* (onScheduledSampleTimeout), before stop() and after it.
THEOREM OnTime ==
  ASSUME SrOffsets = {}
  PROVE  Spec => PlayedOnTime
<1>1. PlayoutInv /\ [Next]_vars => [Plays => Head(m_playoutBufferList).playout <= now]_vars
  BY PlayStep
<1>2. PlayoutInv /\ [Next]_vars => PlayoutInv'
  BY InvariantStep
<1> QED
  BY InvariantAtStart, <1>1, <1>2, PTL DEF Spec, PlayedOnTime

-----------------------------------------------------------------------------
(* Nothing is played twice.  The history holds a bounded number of nodes,  *)
(* so a timestamp that was played may be forgotten; a packet that repeats  *)
(* it is then told from a new one by its playout time alone.  Without      *)
(* sender reports that is enough: nodes are played in the order of their   *)
(* timestamps, the last of them is always remembered, and a packet that is *)
(* not too late is not older than the last.                                *)

Distinct(L) == \A j, k \in 1..Len(L) : j # k => L[j].ts # L[k].ts

\* The last node of the history is the newest that was played.
NewestRemembered ==
  LET last == m_recentHistory[Len(m_recentHistory)].ts
  IN  /\ Len(m_recentHistory) > 0 /\ last \in played
      /\ \A s \in played : s <= last

PlayedBefore ==
  /\ \A s \in played : syncOffset + s + Latency <= now
  /\ \A s \in played, i \in 1..Len(m_playoutBufferList) : s < m_playoutBufferList[i].ts
  /\ played # {} => m_bFirst /\ NewestRemembered
  /\ Distinct(m_playoutBufferList)

LEMMA InsertAddsNode ==
  ASSUME NEW L \in Seq(Nodes), NEW node \in Nodes, NEW i \in 1..(Len(L) + 1),
         Distinct(L), \A k \in 1..Len(L) : L[k].ts # node.ts
  PROVE  /\ Distinct(InsertAt(L, i, node))
         /\ \A k \in 1..Len(InsertAt(L, i, node)) :
              \/ InsertAt(L, i, node)[k] = node
              \/ \E j \in 1..Len(L) : InsertAt(L, i, node)[k] = L[j]
<1> DEFINE M == InsertAt(L, i, node)
           n == Len(L)
           Old(k) == IF k < i THEN k ELSE k - 1
<1>1. /\ Len(M) = n + 1 /\ n \in Nat
      /\ \A k \in 1..(i - 1) : M[k] = L[k]
      /\ M[i] = node
      /\ \A k \in (i + 1)..(n + 1) : M[k] = L[k - 1]
  BY InsertAtFacts, LenProperties
<1> HIDE DEF M, n
<1>2. ASSUME NEW k \in 1..(n + 1), k # i PROVE Old(k) \in 1..n /\ M[k] = L[Old(k)]
  <2>1. CASE k < i
    BY <1>1, <1>2, <2>1 DEF n
  <2>2. CASE k > i
    BY <1>1, <1>2, <2>2 DEF n
  <2> QED BY <1>1, <1>2, <2>1, <2>2 DEF n
<1>3. \A j, k \in 1..(n + 1) : j # i /\ k # i /\ j # k => Old(j) # Old(k)
  BY <1>1 DEF n
<1> HIDE DEF Old
<1>4. \A j, k \in 1..n : j # k => L[j].ts # L[k].ts
  BY DEF Distinct, n
<1>5. \A k \in 1..n : L[k].ts # node.ts
  BY DEF n
<1>6. ASSUME NEW j \in 1..(n + 1), NEW k \in 1..(n + 1), j # k PROVE M[j].ts # M[k].ts
  <2>1. CASE j = i \/ k = i
    BY <1>1, <1>2, <1>5, <1>6, <2>1
  <2>2. CASE j # i /\ k # i
    BY <1>2, <1>3, <1>4, <1>6, <2>2
  <2> QED BY <2>1, <2>2
<1>7. Distinct(M)
  BY <1>1, <1>6 DEF Distinct
<1>8. \A k \in 1..(n + 1) : M[k] = node \/ \E j \in 1..n : M[k] = L[j]
  BY <1>1, <1>2
<1> QED BY <1>1, <1>7, <1>8 DEF M, n

\* A packet that makes a node is newer than everything that was played.
LEMMA NewIsNewer ==
  ASSUME PlayoutInv, PlayedBefore, NEW p \in Packets, createsNode(p), NEW s \in played
  PROVE  s < Timestamp(p)
<1> DEFINE h == Len(m_recentHistory)
           last == m_recentHistory[h].ts
<1>1. m_bFirst /\ h > 0 /\ last \in played /\ s <= last
  BY DEF PlayedBefore, NewestRemembered
<1>2. /\ Timestamp(p) \in Nat /\ s \in Nat /\ last \in Nat
      /\ now \in Nat /\ syncOffset \in Int /\ Latency \in Nat
  BY <1>1, TimestampIsNat, PlayoutAssumption DEF PlayoutInv, TypeOK
<1>3. syncOffset + last + Latency <= now
  BY <1>1 DEF PlayedBefore
<1>4. PlayoutTime(p) = syncOffset + Timestamp(p) + Latency
  BY <1>1, PacketTimes DEF PlayoutInv
<1>5. PlayoutTime(p) >= now
  BY DEF createsNode
<1>6. last # Timestamp(p)
  <2>1. h \in DOMAIN m_recentHistory
    BY <1>1, LenProperties DEF PlayoutInv, TypeOK
  <2> QED BY <2>1 DEF createsNode, IsNew, Holds
<1> HIDE DEF last
<1> QED BY <1>1, <1>2, <1>3, <1>4, <1>5, <1>6

LEMMA PlayedPacket ==
  ASSUME PlayoutInv, PlayedBefore, NEW p \in Packets, doHandleIncomingRtp(p)
  PROVE  PlayedBefore'
<1> DEFINE L == m_playoutBufferList
<1>1. UNCHANGED <<now, played>> /\ m_bFirst' = TRUE
  BY DEF doHandleIncomingRtp, calculatePlayoutTime
<1>2. \A s \in played : syncOffset' + s + Latency <= now
  <2>1. played # {} => syncOffset' = syncOffset
    BY PacketTimes DEF doHandleIncomingRtp, PlayedBefore, PlayoutInv
  <2> QED BY <2>1 DEF PlayedBefore
<1>3. L \in Seq(Nodes) /\ Len(L) \in Nat /\ m_recentHistory \in Seq(Nodes)
      /\ DOMAIN L = 1..Len(L)
  BY LenProperties DEF PlayoutInv, TypeOK
<1>4. CASE addsToNode(p)
  <2>1. PICK i \in DOMAIN L : L' = JoinsNode(L, i, p)
    BY <1>4 DEF addsToNode, Holds
  <2>2. Len(L') = Len(L) /\ \A k \in 1..Len(L) : L'[k].ts = L[k].ts
    BY <1>3, <2>1, JoinsNodeFacts
  <2>3. Distinct(L')
    BY <2>2 DEF Distinct, PlayedBefore
  <2>4. UNCHANGED m_recentHistory
    BY <1>4 DEF addsToNode
  <2> QED BY <1>1, <1>2, <2>2, <2>3, <2>4 DEF PlayedBefore, NewestRemembered
<1>5. CASE isLate(p)
  <2>1. PICK i \in DOMAIN m_recentHistory : m_recentHistory' = JoinsNode(m_recentHistory, i, p)
    BY <1>5 DEF isLate, Holds
  <2>2. /\ Len(m_recentHistory') = Len(m_recentHistory)
        /\ \A k \in 1..Len(m_recentHistory) : m_recentHistory'[k].ts = m_recentHistory[k].ts
    BY <1>3, <2>1, JoinsNodeFacts
  <2>3. NewestRemembered => NewestRemembered'
    <3> SUFFICES ASSUME NewestRemembered PROVE NewestRemembered'
      OBVIOUS
    <3>1. Len(m_recentHistory) \in 1..Len(m_recentHistory)
      BY <1>3, LenProperties DEF NewestRemembered
    <3>2. m_recentHistory'[Len(m_recentHistory)].ts = m_recentHistory[Len(m_recentHistory)].ts
      BY <2>2, <3>1
    <3> QED BY <1>1, <2>2, <3>2 DEF NewestRemembered
  <2>4. UNCHANGED L
    BY <1>5 DEF isLate
  <2> QED BY <1>1, <1>2, <2>3, <2>4 DEF PlayedBefore
<1>6. CASE missesPlayout(p)
  BY <1>1, <1>2, <1>6 DEF missesPlayout, bufferVars, PlayedBefore, NewestRemembered
<1>7. CASE createsNode(p)
  <2> DEFINE node == Node(p, PresentationTime(p), PlayoutTime(p))
  <2>1. PICK i \in 1..(Len(L) + 1) : L' = InsertAt(L, i, node)
    BY <1>7 DEF createsNode, InsertNode
  <2>2. node \in Nodes /\ node.ts = Timestamp(p)
    BY NodeIsNode DEF Node, PlayoutInv
  <2> HIDE DEF node
  <2>3. \A k \in 1..Len(L) : L[k].ts # node.ts
    BY <1>3, <1>7, <2>2 DEF createsNode, IsNew, Holds
  <2>4. /\ Distinct(L')
        /\ \A k \in 1..Len(L') : L'[k] = node \/ \E j \in 1..Len(L) : L'[k] = L[j]
    BY <1>3, <2>1, <2>2, <2>3, InsertAddsNode DEF PlayedBefore
  <2>5. \A s \in played, k \in 1..Len(L') : s < L'[k].ts
    BY <1>7, <2>2, <2>4, NewIsNewer DEF PlayedBefore
  <2>6. UNCHANGED m_recentHistory
    BY <1>7 DEF createsNode
  <2> QED BY <1>1, <1>2, <2>4, <2>5, <2>6 DEF PlayedBefore, NewestRemembered
<1> QED BY <1>4, <1>5, <1>6, <1>7 DEF doHandleIncomingRtp

LEMMA RememberLast ==
  ASSUME TypeOK, NEW node \in Nodes
  PROVE  Len(Remember(node)) \in Nat \ {0} /\ Remember(node)[Len(Remember(node))] = node
<1> DEFINE h == IF Len(m_recentHistory) < HistorySize THEN m_recentHistory ELSE Tail(m_recentHistory)
<1>1. h \in Seq(Nodes)
  <2>1. CASE Len(m_recentHistory) < HistorySize
    BY <2>1 DEF TypeOK
  <2>2. CASE ~(Len(m_recentHistory) < HistorySize)
    <3>1. m_recentHistory # <<>>
      BY <2>2, PlayoutAssumption
    <3> QED BY <2>2, <3>1, TailFacts DEF TypeOK
  <2> QED BY <2>1, <2>2
<1> HIDE DEF h
<1>2. Append(h, node)[Len(h) + 1] = node /\ Len(Append(h, node)) = Len(h) + 1 /\ Len(h) \in Nat
  BY <1>1, AppendProperties, LenProperties
<1>3. Remember(node) = Append(h, node)
  BY DEF Remember, h
<1> QED BY <1>2, <1>3

\* A timeout plays a node that is newer than the played ones and older than
\* those that wait.
LEMMA PlayedTimeout ==
  ASSUME SrOffsets = {}, PlayoutInv, PlayedBefore, onScheduledSampleTimeout
  PROVE  PlayedBefore'
<1> DEFINE L == m_playoutBufferList
           n == Len(L)
           head == Head(L)
<1>1. /\ L # <<>> /\ L' = Tail(L) /\ m_recentHistory' = Remember(head)
      /\ played' = played \union {head.ts}
      /\ UNCHANGED <<now, syncOffset, m_bFirst>>
  BY DEF onScheduledSampleTimeout, memberVars, referenceVars
<1>2. /\ Len(L') = n - 1 /\ n \in Nat \ {0} /\ head = L[1] /\ head \in Nodes
      /\ \A k \in 1..(n - 1) : L'[k] = L[k + 1]
  BY <1>1, TailFacts DEF PlayoutInv, TypeOK
<1>3. \A k \in 1..n : L[k] \in Nodes /\ L[k].ts \in Nat
  <2>1. \A k \in 1..n : L[k] \in Nodes
    BY LenProperties DEF PlayoutInv, TypeOK
  <2> QED BY <2>1 DEF Nodes
<1>4. \A k \in 1..n : /\ L[k].pts = syncOffset + L[k].ts
                      /\ L[k].playout = L[k].pts + Latency
  BY DEF PlayoutInv, OneReference
<1>5. /\ DOMAIN L = 1..n /\ syncOffset \in Int /\ Latency \in Nat /\ now \in Nat
      /\ played \subseteq Nat
  BY LenProperties, PlayoutAssumption DEF PlayoutInv, TypeOK
<1>6. \A k \in 2..n : L[1].pts <= L[k].pts /\ L[1].ts # L[k].ts
  <2>1. \A j, k \in 1..n : j < k => L[j].pts <= L[k].pts
    BY <1>5 DEF PlayoutInv, OrderedByPts
  <2>2. \A j, k \in 1..n : j # k => L[j].ts # L[k].ts
    BY DEF PlayedBefore, Distinct
  <2>3. \A k \in 2..n : k \in 1..n /\ 1 < k /\ 1 # k /\ 1 \in 1..n
    BY <1>2
  <2> HIDE DEF L, n
  <2> QED BY <2>1, <2>2, <2>3
<1>7. \A s \in played : s < L[1].ts
  BY <1>2 DEF PlayedBefore
<1>8. head.playout <= now
  BY <1>1, PlayStep DEF Plays, Next
<1>9. /\ Len(m_recentHistory') \in Nat \ {0}
      /\ m_recentHistory'[Len(m_recentHistory')] = head
  BY <1>1, <1>2, RememberLast DEF PlayoutInv
<1>10. \A j, k \in 1..n : j # k => L[j].ts # L[k].ts
  BY DEF PlayedBefore, Distinct
<1>11. m_bFirst
  BY <1>1 DEF PlayoutInv, OneReference
<1> HIDE DEF L, n, head
<1>12. \A k \in 2..n : L[1].ts < L[k].ts
  BY <1>2, <1>3, <1>4, <1>5, <1>6
<1>13. \A s \in played' : s <= head.ts /\ syncOffset' + s + Latency <= now'
  <2>1. syncOffset + head.ts + Latency <= now
    BY <1>2, <1>3, <1>4, <1>5, <1>8
  <2>2. head.ts \in Nat
    BY <1>2, <1>3
  <2> QED BY <1>1, <1>2, <1>5, <1>7, <2>1, <2>2
<1>14. \A s \in played', k \in 1..(n - 1) : s < L'[k].ts
  <2> SUFFICES ASSUME NEW s \in played', NEW k \in 1..(n - 1) PROVE s < L'[k].ts
    OBVIOUS
  <2>1. k + 1 \in 2..n /\ k + 1 \in 1..n
    BY <1>2
  <2>2. s <= L[1].ts /\ s \in Nat
    BY <1>1, <1>2, <1>3, <1>5, <1>13
  <2>3. L'[k] = L[k + 1] /\ L[1].ts < L[k + 1].ts /\ L[1].ts \in Nat /\ L[k + 1].ts \in Nat
    BY <1>2, <1>3, <1>12, <2>1
  <2> QED BY <2>2, <2>3
<1>15. ASSUME NEW j \in 1..(n - 1), NEW k \in 1..(n - 1), j # k PROVE L'[j].ts # L'[k].ts
  <2>1. j + 1 \in 1..n /\ k + 1 \in 1..n /\ j + 1 # k + 1
    BY <1>2, <1>15
  <2> QED BY <1>2, <1>10, <2>1
<1>16. Distinct(L')
  BY <1>2, <1>15 DEF Distinct
<1>17. NewestRemembered'
  BY <1>1, <1>9, <1>13 DEF NewestRemembered
<1> QED BY <1>1, <1>2, <1>11, <1>13, <1>14, <1>16, <1>17 DEF PlayedBefore, L

LEMMA PlayedStep ==
  ASSUME SrOffsets = {}, PlayoutInv, PlayedBefore, [Next]_vars
  PROVE  PlayedBefore'
<1>1. ASSUME NEW p \in Packets, doHandleIncomingRtp(p) PROVE PlayedBefore'
  BY <1>1, PlayedPacket
<1>2. CASE onScheduledSampleTimeout
  BY <1>2, PlayedTimeout
<1>3. ASSUME UNCHANGED <<played, syncOffset, m_bFirst, m_playoutBufferList, m_recentHistory>>,
             now' \in Nat, now' >= now
      PROVE  PlayedBefore'
  <2>1. \A s \in played : syncOffset + s + Latency <= now'
    <3> SUFFICES ASSUME NEW s \in played PROVE syncOffset + s + Latency <= now'
      OBVIOUS
    <3>1. syncOffset + s + Latency <= now
      BY DEF PlayedBefore
    <3>2. s \in Nat /\ syncOffset \in Int /\ Latency \in Nat /\ now \in Nat
      BY PlayoutAssumption DEF PlayoutInv, TypeOK
    <3> QED BY <1>3, <3>1, <3>2
  <2> QED BY <1>3, <2>1 DEF PlayedBefore, NewestRemembered
<1>4. CASE abortedSampleTimeout \/ stop \/ UNCHANGED vars
  <2>1. UNCHANGED <<played, syncOffset, m_bFirst, m_playoutBufferList, m_recentHistory, now>>
    BY <1>4 DEF abortedSampleTimeout, stop, vars, memberVars, referenceVars, bufferVars
  <2>2. now \in Nat /\ now >= now
    BY DEF PlayoutInv, TypeOK
  <2> QED BY <1>3, <2>1, <2>2
<1>5. CASE Tick
  <2>1. UNCHANGED <<played, syncOffset, m_bFirst, m_playoutBufferList, m_recentHistory>>
        /\ now' = now + 1
    BY <1>5 DEF Tick, memberVars, referenceVars, bufferVars
  <2>2. now + 1 \in Nat /\ now + 1 >= now
    BY DEF PlayoutInv, TypeOK
  <2> QED BY <1>3, <2>1, <2>2
<1> QED BY <1>1, <1>2, <1>4, <1>5 DEF Next

\* Without sender reports no timestamp is played twice, whatever the capacity
\* of the history, and however packets are repeated and delayed.
THEOREM PlayedOnceAlways ==
  ASSUME SrOffsets = {}
  PROVE  Spec => PlayedOnce
<1>1. Init => PlayedBefore
  BY DEF Init, PlayedBefore, Distinct
<1>2. PlayoutInv /\ PlayedBefore /\ [Next]_vars => PlayoutInv' /\ PlayedBefore'
  BY InvariantStep, PlayedStep
<1>3. PlayoutInv /\ PlayedBefore /\ [Next]_vars
        => [Plays => Head(m_playoutBufferList).ts \notin played]_vars
  <2> SUFFICES ASSUME PlayoutInv, PlayedBefore, Plays
               PROVE  Head(m_playoutBufferList).ts \notin played
    OBVIOUS
  <2>1. /\ Head(m_playoutBufferList) = m_playoutBufferList[1] /\ 1 \in 1..Len(m_playoutBufferList)
        /\ m_playoutBufferList[1] \in Nodes
    BY TailFacts DEF PlayoutInv, TypeOK, Plays
  <2>2. m_playoutBufferList[1].ts \in Nat
    BY <2>1 DEF Nodes
  <2>3. \A s \in played : s < m_playoutBufferList[1].ts
    BY <2>1 DEF PlayedBefore
  <2> QED BY <2>1, <2>2, <2>3
<1> QED
  BY InvariantAtStart, <1>1, <1>2, <1>3, PTL DEF Spec, PlayedOnce
=============================================================================
