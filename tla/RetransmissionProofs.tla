------------------------ MODULE RetransmissionProofs ------------------------
(***************************************************************************)
(* Proofs about the retransmission buffer, for every modulus of the        *)
(* sequence numbers, every capacity below it, and any number of flows.     *)
(***************************************************************************)
EXTENDS Retransmission, TLAPS

(***************************************************************************)
(* Sequence numbers.                                                       *)
(***************************************************************************)
\* Numbers less than a cycle apart do not coincide.
LEMMA ModDistinct ==
  ASSUME NEW a \in Nat, NEW b \in Nat, a < b, b - a < SeqMod
  PROVE  a % SeqMod # b % SeqMod
<1> DEFINE M == SeqMod
           p == a \div M
           q == b \div M
           k == q - p
<1>1. M \in Nat /\ M > 0
  BY RetransmissionAssumption
<1>2. SUFFICES ASSUME a % M = b % M
               PROVE  FALSE
  OBVIOUS
<1>3. a = M * p + (a % M) /\ b = M * q + (b % M) /\ q \in Int /\ p \in Int /\ a % M \in Int
  BY <1>1
<1> HIDE DEF p, q
<1>4. k \in Int /\ b - a = M * k
  BY <1>1, <1>2, <1>3
<1> HIDE DEF k
<1>5. CASE k >= 1
  <2>1. M * k >= M
    BY <1>1, <1>4, <1>5
  <2> QED BY <1>1, <1>4, <2>1
<1>6. CASE k <= 0
  <2>1. M * k <= 0
    BY <1>1, <1>4, <1>6
  <2> QED BY <1>1, <1>4, <2>1
<1> QED BY <1>4, <1>5, <1>6

LEMMA ModType ==
  ASSUME NEW a \in Nat
  PROVE  a % SeqMod \in SNs
BY RetransmissionAssumption DEF SNs

LEMMA SNDistinct ==
  ASSUME first \in SNs, NEW i \in Nat, NEW j \in Nat, 1 <= i, i < j, j - i < SeqMod
  PROVE  SN(i) # SN(j)
<1> DEFINE a == first + i - 1
           b == first + j - 1
<1>1. a \in Nat /\ b \in Nat /\ a < b /\ b - a < SeqMod
  BY RetransmissionAssumption DEF SNs
<1>2. a % SeqMod # b % SeqMod
  BY <1>1, ModDistinct
<1> QED BY <1>2 DEF SN

LEMMA SNType ==
  ASSUME first \in SNs, NEW i \in Nat, 1 <= i
  PROVE  SN(i) \in SNs
<1>1. first + i - 1 \in Nat
  BY RetransmissionAssumption DEF SNs
<1> QED BY <1>1, ModType DEF SN

(***************************************************************************)
(* The inductive invariant.                                                *)
(***************************************************************************)
\* The packets of a flow are counted one by one.
Counted ==
  /\ \A i \in Packets :
       /\ sent[i].before < sentOn[sent[i].flow]
       /\ sentOn[sent[i].flow] - sent[i].before <= Len(sent) + 1 - i
  /\ \A i, j \in Packets :
       i < j /\ sent[i].flow = sent[j].flow =>
         /\ sent[i].before < sent[j].before
         /\ sent[j].before - sent[i].before <= j - i

\* The ring holds the numbers of the last packets, and zeros before them.
Ring ==
  \A k \in 1 .. Capacity :
    m_qCircularBuffer[k] =
      IF Len(sent) - Capacity + k >= 1 THEN SN(Len(sent) - Capacity + k) ELSE 0

\* What is retained is in the map under its number, nothing else is, and
\* none of it is a cycle old.
Held ==
  /\ \A i \in Retained : m_mTxMap[SN(i)] = i /\ Len(sent) - i < SeqMod
  /\ \A sn \in SNs : m_mTxMap[sn] # None => m_mTxMap[sn] \in Retained /\ SN(m_mTxMap[sn]) = sn

\* The labels follow.
Paths ==
  /\ ~multipath => m_mSnMap = {}
  /\ multipath /\ m_bIsMpRtpSession =>
       /\ \A i \in Retained : <<SN(i), Label(i)>> \in m_mSnMap
       /\ \A p \in m_mSnMap : \E i \in Retained : p = <<SN(i), Label(i)>>

\* Retransmissions are of packets sent before the NACK.
Asked == rtx # NoRtx => rtx.packet <= rtx.outOf /\ rtx.outOf <= Len(sent)

\* With a ring or timers the answer to a NACK is the newest packet, and has the label
\* that was asked for when labels are removed.
AnswersForgetting ==
  rtx # NoRtx /\ Forgets =>
    /\ Newest(rtx.original, rtx.packet, rtx.outOf)
    /\ m_bIsMpRtpSession => \A label \in rtx.asked : label = Label(rtx.packet)

Inv ==
  /\ TypeOK /\ Counted
  /\ m_eMode = "CIRCULAR_MODE" => Ring
  /\ Forgets => Held /\ Paths
  /\ ~multipath => m_mSnMap = {}
  /\ m_eMode # "NACK_TIMED_MODE" => m_mRtxTimers = {}
  /\ Asked /\ AnswersForgetting

LEMMA InitInv == Init => Inv
<1> SUFFICES ASSUME Init PROVE Inv
  OBVIOUS
<1> USE RetransmissionAssumption
<1>1. TypeOK
  <2>1. first \in SNs /\ m_uiRtxSequenceNumber \in SNs /\ 0 \in SNs
    BY DEF Init, SNs
  <2>4. flowFirst \in [Flows -> SNs]
    BY DEF Init, SNs
  <2>5. m_qCircularBuffer \in [1 .. Capacity -> SNs]
    BY <2>1 DEF Init
  <2>6. m_mTxMap \in [SNs -> {None} \cup Packets]
    BY DEF Init
  <2>2. sent \in Seq(Sendings) /\ sentOn \in [Flows -> Nat] /\ generated \in Nat
    BY DEF Init
  <2>3. rtx \in {NoRtx} \cup Rtxs /\ restored \in {NoRtx} \cup Restorations
    BY DEF Init
  <2> QED BY <2>1, <2>2, <2>3, <2>4, <2>5, <2>6 DEF Init, TypeOK
<1>2. Packets = {} /\ Len(sent) = 0
  BY DEF Init, Packets
<1>3. Counted
  BY <1>2 DEF Counted
<1>4. Ring
  BY <1>2 DEF Init, Ring
<1>5. Retained = {}
  BY <1>2 DEF Init, Retained
<1>6. Held /\ Paths
  BY <1>5 DEF Init, Held, Paths
<1>7. Asked /\ AnswersForgetting
  BY DEF Init, Asked, AnswersForgetting
<1> QED BY <1>1, <1>3, <1>4, <1>6, <1>7 DEF Inv, Init

(***************************************************************************)
(* Sending a packet.                                                       *)
(***************************************************************************)
\* What sending adds to the history.
LEMMA SendAppends ==
  ASSUME TypeOK, NEW f \in Flows, sendRtpPacket(f)
  PROVE  /\ Len(sent) \in Nat /\ sent' \in Seq(Sendings) /\ Len(sent') = Len(sent) + 1
         /\ Packets = 1 .. Len(sent) /\ Packets' = 1 .. Len(sent) + 1
         /\ \A i \in Packets : sent'[i] = sent[i] /\ sent[i] \in Sendings
         /\ sent'[Len(sent) + 1] = [flow |-> f, before |-> sentOn[f]]
         /\ sentOn' \in [Flows -> Nat]
         /\ sentOn' = [sentOn EXCEPT ![f] = sentOn[f] + 1]
         /\ UNCHANGED confVars /\ UNCHANGED rtxVars
<1>1. sent \in Seq(Sendings) /\ sentOn \in [Flows -> Nat]
  BY DEF TypeOK
<1>2. [flow |-> f, before |-> sentOn[f]] \in Sendings
  BY <1>1 DEF Sendings
<1>3. /\ sent' = Append(sent, [flow |-> f, before |-> sentOn[f]])
      /\ sentOn' = [sentOn EXCEPT ![f] = sentOn[f] + 1]
      /\ UNCHANGED confVars /\ UNCHANGED rtxVars
  BY DEF sendRtpPacket
<1> QED BY <1>1, <1>2, <1>3 DEF Packets

LEMMA SendCounted ==
  ASSUME TypeOK, Counted, NEW f \in Flows, sendRtpPacket(f)
  PROVE  Counted'
<1> DEFINE n == Len(sent)
           flow(i) == sent[i].flow
           before(i) == sent[i].before
<1>1. /\ n \in Nat /\ Len(sent') = n + 1 /\ Packets = 1 .. n /\ Packets' = 1 .. n + 1
      /\ \A i \in 1 .. n : sent'[i] = sent[i] /\ sent[i] \in Sendings
      /\ sent'[n + 1] = [flow |-> f, before |-> sentOn[f]]
      /\ sentOn' = [sentOn EXCEPT ![f] = sentOn[f] + 1]
  BY SendAppends
<1>2. sentOn \in [Flows -> Nat]
  BY DEF TypeOK
<1>3. \A i \in 1 .. n : flow(i) \in Flows /\ before(i) \in Nat
                      /\ sent'[i].flow = flow(i) /\ sent'[i].before = before(i)
  BY <1>1 DEF Sendings
<1>4. sent'[n + 1].flow = f /\ sent'[n + 1].before = sentOn[f]
  BY <1>1
<1>5. \A i \in 1 .. n : before(i) < sentOn[flow(i)] /\ sentOn[flow(i)] - before(i) <= n + 1 - i
  BY <1>1 DEF Counted
<1>6. \A i, j \in 1 .. n :
        i < j /\ flow(i) = flow(j) => before(i) < before(j) /\ before(j) - before(i) <= j - i
  BY <1>1 DEF Counted
<1> HIDE DEF n, flow, before
<1>7. ASSUME NEW i \in 1 .. n + 1
      PROVE  /\ sent'[i].before < sentOn'[sent'[i].flow]
             /\ sentOn'[sent'[i].flow] - sent'[i].before <= Len(sent') + 1 - i
  <2>1. CASE i = n + 1
    <3>1. sentOn'[f] = sentOn[f] + 1 /\ sentOn[f] \in Nat
      BY <1>1, <1>2
    <3> QED BY <1>1, <1>4, <2>1, <3>1
  <2>2. CASE i \in 1 .. n
    <3>1. flow(i) \in Flows /\ before(i) \in Nat /\ sentOn[flow(i)] \in Nat
      BY <1>2, <1>3, <2>2
    <3>2. sentOn'[flow(i)] = sentOn[flow(i)] \/ sentOn'[flow(i)] = sentOn[flow(i)] + 1
      BY <1>1, <1>2, <3>1
    <3>3. before(i) < sentOn[flow(i)] /\ sentOn[flow(i)] - before(i) <= n + 1 - i
      BY <1>5, <2>2
    <3>4. before(i) < sentOn'[flow(i)] /\ sentOn'[flow(i)] - before(i) <= n + 2 - i
      <4>1. \A x, y \in Nat : \A z \in Int :
              x < y /\ y - x <= z =>
                x < y + 1 /\ y - x <= z + 1 /\ (y + 1) - x <= z + 1
        OBVIOUS
      <4>2. n + 1 - i \in Int /\ (n + 1 - i) + 1 = n + 2 - i
        BY <1>1, <2>2
      <4> QED BY <3>1, <3>2, <3>3, <4>1, <4>2
    <3> QED BY <1>1, <1>3, <2>2, <3>4
  <2> QED BY <1>1, <2>1, <2>2
<1>8. ASSUME NEW i \in 1 .. n + 1, NEW j \in 1 .. n + 1, i < j, sent'[i].flow = sent'[j].flow
      PROVE  sent'[i].before < sent'[j].before /\ sent'[j].before - sent'[i].before <= j - i
  <2>1. CASE j = n + 1
    <3>1. i \in 1 .. n
      BY <1>1, <1>8, <2>1
    <3>2. flow(i) = f
      BY <1>3, <1>4, <1>8, <2>1, <3>1
    <3>3. before(i) < sentOn[f] /\ sentOn[f] - before(i) <= n + 1 - i
      BY <1>5, <3>1, <3>2
    <3>4. sent'[j].before = sentOn[f] /\ sent'[i].before = before(i)
      BY <1>3, <1>4, <2>1, <3>1
    <3>5. before(i) \in Nat /\ sentOn[f] \in Nat
      BY <1>2, <1>3, <3>1
    <3> QED BY <1>1, <2>1, <3>1, <3>3, <3>4, <3>5
  <2>2. CASE j \in 1 .. n
    <3>1. i \in 1 .. n
      BY <1>1, <1>8, <2>2
    <3>2. flow(i) = flow(j)
      BY <1>3, <1>8, <2>2, <3>1
    <3>3. before(i) < before(j) /\ before(j) - before(i) <= j - i
      BY <1>6, <1>8, <2>2, <3>1, <3>2
    <3> QED BY <1>3, <2>2, <3>1, <3>3
  <2> QED BY <1>1, <2>1, <2>2
<1> QED BY <1>1, <1>7, <1>8 DEF Counted

LEMMA RetainedSent ==
  ASSUME TypeOK
  PROVE  Retained \subseteq Packets /\ Packets \subseteq Nat \ {0} /\ Len(sent) \in Nat
<1>1. Len(sent) \in Nat
  BY DEF TypeOK
<1>2. Packets \subseteq Nat \ {0}
  BY <1>1 DEF Packets
<1>3. m_mRtxTimers \subseteq Packets
  BY DEF TypeOK
<1> QED BY <1>1, <1>2, <1>3 DEF Retained

\* The number and the label of the packet that is sent are not in use.
LEMMA Fresh ==
  ASSUME Inv, Forgets, NEW f \in Flows, sendRtpPacket(f),
         NEW i \in Retained
  PROVE  /\ Len(sent) + 1 - i < SeqMod
         /\ SN(i) # SN(Len(sent) + 1)
         /\ Label(i) # <<f, (flowFirst[f] + sentOn[f]) % SeqMod>>
<1> DEFINE n == Len(sent)
<1>1. TypeOK /\ Counted /\ n \in Nat /\ i \in Nat /\ 1 <= i /\ i <= n /\ i \in Packets
  BY RetainedSent DEF Inv, Packets
<1>2. n + 1 - i < SeqMod
  <2>1. CASE m_eMode = "CIRCULAR_MODE"
    BY <1>1, <2>1, RetransmissionAssumption DEF Retained
  <2>2. CASE m_eMode # "CIRCULAR_MODE"
    BY <1>1, <2>2 DEF Retained, sendRtpPacket, CycleOutlastsTimers
  <2> QED BY <2>1, <2>2
<1>3. SN(i) # SN(n + 1)
  <2>1. first \in SNs /\ n + 1 \in Nat /\ i < n + 1
    BY <1>1 DEF TypeOK
  <2> HIDE DEF n
  <2> QED BY <1>1, <1>2, <2>1, SNDistinct
<1>4. ASSUME sent[i].flow = f
      PROVE  FSSN(i) # (flowFirst[f] + sentOn[f]) % SeqMod
  <2> DEFINE a == flowFirst[f] + sent[i].before
             b == flowFirst[f] + sentOn[f]
  <2>1. sent[i] \in Sendings /\ flowFirst[f] \in Nat /\ sentOn[f] \in Nat
    BY <1>1 DEF TypeOK, Packets, SNs
  <2>2. sent[i].before < sentOn[f] /\ sentOn[f] - sent[i].before <= n + 1 - i
    BY <1>1, <1>4 DEF Counted
  <2>5. sent[i].before \in Nat
    BY <2>1 DEF Sendings
  <2>3. a \in Nat /\ b \in Nat /\ a < b /\ b - a < SeqMod
    <3>1. SeqMod \in Nat
      BY RetransmissionAssumption
    <3> HIDE DEF n
    <3> QED BY <1>1, <1>2, <2>1, <2>2, <2>5, <3>1
  <2>4. a % SeqMod # b % SeqMod
    BY <2>3, ModDistinct
  <2> QED BY <1>4, <2>4 DEF FSSN
<1> QED BY <1>2, <1>3, <1>4 DEF Label

\* So both maps take the packet.
LEMMA SendInserts ==
  ASSUME Inv, Forgets, NEW f \in Flows, sendRtpPacket(f)
  PROVE  LET n == Len(sent)
             label == <<f, (flowFirst[f] + sentOn[f]) % SeqMod>>
         IN /\ Inserted(SN(n + 1), n + 1) = [m_mTxMap EXCEPT ![SN(n + 1)] = n + 1]
            /\ multipath /\ m_bIsMpRtpSession =>
                 Mapped(SN(n + 1), Labels(label)) = m_mSnMap \cup {<<SN(n + 1), label>>}
            /\ ~multipath => Mapped(SN(n + 1), Labels(label)) = {}
<1> DEFINE n == Len(sent)
           label == <<f, (flowFirst[f] + sentOn[f]) % SeqMod>>
<1>1. TypeOK /\ Held /\ Paths /\ n \in Nat
  BY RetainedSent DEF Inv
<1>2. SN(n + 1) \in SNs
  BY <1>1, SNType DEF TypeOK
<1>3. m_mTxMap[SN(n + 1)] = None
  BY <1>1, <1>2, Fresh DEF Held
<1>4. Inserted(SN(n + 1), n + 1) = [m_mTxMap EXCEPT ![SN(n + 1)] = n + 1]
  BY <1>3 DEF Inserted
<1>5. ASSUME multipath, m_bIsMpRtpSession
      PROVE  Mapped(SN(n + 1), Labels(label)) = m_mSnMap \cup {<<SN(n + 1), label>>}
  <2>1. \A p \in m_mSnMap : p[1] # SN(n + 1) /\ p[2] # label
    BY <1>1, <1>5, Fresh DEF Paths
  <2>2. Labels(label) = {label}
    BY <1>5 DEF Labels
  <2> HIDE DEF label, n
  <2> QED BY <2>1, <2>2 DEF Mapped
<1>6. ASSUME ~multipath
      PROVE  Mapped(SN(n + 1), Labels(label)) = {}
  BY <1>1, <1>6 DEF Mapped, Labels, Paths
<1> QED BY <1>4, <1>5, <1>6

\* Sending keeps Held and Paths when the packets whose numbers are in gone
\* are forgotten, and only they.
LEMMA SendKeepsMaps ==
  ASSUME Inv, Forgets, NEW f \in Flows, sendRtpPacket(f),
         NEW gone,
         TypeOK',
         \A s \in SNs : m_mTxMap'[s] = IF s \in gone THEN None
                                       ELSE IF s = SN(Len(sent) + 1) THEN Len(sent) + 1
                                       ELSE m_mTxMap[s],
         Retained' = {i \in Retained \cup {Len(sent) + 1} : SN(i) \notin gone},
         multipath /\ m_bIsMpRtpSession =>
           m_mSnMap' = {p \in m_mSnMap \cup
                         {<<SN(Len(sent) + 1), <<f, (flowFirst[f] + sentOn[f]) % SeqMod>> >>} :
                         p[1] \notin gone},
         ~multipath => m_mSnMap' = {}
  PROVE  Held' /\ Paths'
<1> DEFINE n == Len(sent)
           label == <<f, (flowFirst[f] + sentOn[f]) % SeqMod>>
<1>1. /\ TypeOK /\ Held /\ Paths /\ n \in Nat /\ SeqMod \in Nat /\ 1 < SeqMod
      /\ Retained \subseteq Nat \ {0} /\ Retained \subseteq 1 .. n
  BY RetainedSent, RetransmissionAssumption DEF Inv, Packets
<1>2. /\ Len(sent') = n + 1 /\ UNCHANGED <<first, multipath, m_bIsMpRtpSession>>
      /\ \A i \in 1 .. n : sent'[i] = sent[i]
      /\ sent'[n + 1] = [flow |-> f, before |-> sentOn[f]]
      /\ flowFirst' = flowFirst
  BY <1>1, SendAppends DEF confVars
<1>3. \A i : SN(i)' = SN(i)
  BY <1>2 DEF SN
<1>4. \A i \in 1 .. n : Label(i)' = Label(i)
  BY <1>2 DEF Label, FSSN
<1>5. ASSUME NEW i, i = n + 1
      PROVE  Label(i)' = label
  <2>1. sent'[i].flow = f /\ sent'[i].before = sentOn[f]
    BY <1>2, <1>5
  <2> QED BY <1>2, <2>1 DEF Label, FSSN
<1>6. \A i \in Retained : n + 1 - i < SeqMod /\ SN(i) # SN(n + 1)
  BY Fresh
<1>7. \A i \in Retained \cup {n + 1} : SN(i) \in SNs
  <2>1. first \in SNs /\ \A i \in Retained \cup {n + 1} : i \in Nat /\ 1 <= i
    BY <1>1 DEF TypeOK
  <2> HIDE DEF n
  <2> QED BY <2>1, SNType
<1> HIDE DEF n, label
<1>8. \A i \in Retained' : i \in Retained \cup {n + 1} /\ SN(i) \notin gone /\ SN(i) \in SNs
  BY <1>7 DEF n
<1>9. \A s \in SNs : m_mTxMap'[s] = IF s \in gone THEN None ELSE IF s = SN(n + 1) THEN n + 1
                                    ELSE m_mTxMap[s]
  BY DEF n
<1>10. Held'
  <2>1. ASSUME NEW i \in Retained'
        PROVE  m_mTxMap'[SN(i)] = i /\ Len(sent') - i < SeqMod
    <3>1. CASE i = n + 1
      BY <1>1, <1>2, <1>7, <1>8, <1>9, <3>1
    <3>2. CASE i \in Retained
      <4>1. m_mTxMap[SN(i)] = i
        BY <1>1, <3>2 DEF Held
      <4>2. m_mTxMap'[SN(i)] = i
        BY <1>6, <1>8, <1>9, <3>2, <4>1
      <4>3. n + 1 - i < SeqMod
        BY <1>6, <3>2
      <4>4. Len(sent') = n + 1 /\ n \in Nat /\ i \in Nat /\ SeqMod \in Nat
        BY <1>1, <1>2, <3>2
      <4> QED BY <4>2, <4>3, <4>4
    <3> QED BY <1>8, <3>1, <3>2
  <2>2. ASSUME NEW s \in SNs, m_mTxMap'[s] # None
        PROVE  m_mTxMap'[s] \in Retained' /\ SN(m_mTxMap'[s]) = s
    <3>1. s \notin gone
      BY <1>9, <2>2
    <3>2. CASE s = SN(n + 1)
      BY <1>9, <3>1, <3>2 DEF n
    <3>3. CASE s # SN(n + 1)
      <4>1. m_mTxMap'[s] = m_mTxMap[s]
        BY <1>9, <3>1, <3>3
      <4>2. m_mTxMap[s] \in Retained /\ SN(m_mTxMap[s]) = s
        BY <1>1, <2>2, <4>1 DEF Held
      <4> QED BY <3>1, <4>1, <4>2
    <3> QED BY <3>2, <3>3
  <2>3. SNs' = SNs /\ None' = None
    BY DEF SNs, None
  <2> QED BY <1>3, <2>1, <2>2, <2>3 DEF Held
<1>11. ASSUME multipath, m_bIsMpRtpSession
       PROVE  /\ \A i \in Retained' : <<SN(i), Label(i)'>> \in m_mSnMap'
              /\ \A p \in m_mSnMap' : \E i \in Retained' : p = <<SN(i), Label(i)'>>
  <2>1. m_mSnMap' = {p \in m_mSnMap \cup {<<SN(n + 1), label>>} : p[1] \notin gone}
    BY <1>11 DEF n, label
  <2>2. ASSUME NEW i \in Retained'
        PROVE  <<SN(i), Label(i)'>> \in m_mSnMap'
    <3>1. CASE i = n + 1
      BY <1>5, <1>8, <2>1, <3>1
    <3>2. CASE i \in Retained
      <4>1. <<SN(i), Label(i)>> \in m_mSnMap
        BY <1>1, <1>11, <3>2 DEF Paths
      <4>2. Label(i)' = Label(i)
        BY <1>1, <1>4, <3>2
      <4> QED BY <1>8, <2>1, <4>1, <4>2
    <3> QED BY <1>8, <3>1, <3>2
  <2>3. ASSUME NEW p \in m_mSnMap'
        PROVE  \E i \in Retained' : p = <<SN(i), Label(i)'>>
    <3>1. p[1] \notin gone
      BY <2>1
    <3>2. CASE p = <<SN(n + 1), label>>
      <4>1. PICK i : i = n + 1
        OBVIOUS
      <4>2. i \in Retained'
        BY <3>1, <3>2, <4>1 DEF n
      <4> QED BY <1>5, <3>2, <4>1, <4>2
    <3>3. CASE p \in m_mSnMap
      <4>1. PICK i \in Retained : p = <<SN(i), Label(i)>>
        BY <1>1, <1>11, <3>3 DEF Paths
      <4>2. i \in Retained' /\ Label(i)' = Label(i)
        BY <1>1, <1>4, <3>1, <4>1
      <4> QED BY <4>1, <4>2
    <3> QED BY <2>1, <3>2, <3>3
  <2> QED BY <2>2, <2>3
<1>12. Paths'
  BY <1>2, <1>3, <1>11 DEF Paths
<1> QED BY <1>10, <1>12

\* The ring after a packet was sent.
LEMMA RingTurns ==
  ASSUME TypeOK, NEW sn \in SNs
  PROVE  /\ Rotated(sn) \in [1 .. Capacity -> SNs]
         /\ \A k \in 1 .. Capacity :
              Rotated(sn)[k] = IF k = Capacity THEN sn ELSE m_qCircularBuffer[k + 1]
         /\ RemovesOldest(sn) = m_qCircularBuffer[1]
<1> DEFINE q == m_qCircularBuffer
           g == Append(q, sn)
<1>1. Capacity \in Nat /\ Capacity >= 1 /\ q \in [1 .. Capacity -> SNs]
  BY RetransmissionAssumption DEF TypeOK
<1>2. q \in Seq(SNs) /\ Len(q) = Capacity
  BY <1>1
<1>3. /\ g \in Seq(SNs) /\ Len(g) = Capacity + 1
      /\ \A k \in 1 .. Capacity : g[k] = q[k]
      /\ g[Capacity + 1] = sn
  BY <1>1, <1>2
<1> HIDE DEF g, q
<1>4. Tail(g) \in Seq(SNs) /\ Len(Tail(g)) = Capacity /\ \A k \in 1 .. Capacity : Tail(g)[k] = g[k + 1]
  BY <1>1, <1>3
<1>5. Tail(g) \in [1 .. Capacity -> SNs]
  <2>1. \A s \in Seq(SNs) : s \in [1 .. Len(s) -> SNs]
    OBVIOUS
  <2> QED BY <1>4, <2>1
<1>6. \A k \in 1 .. Capacity : Tail(g)[k] = IF k = Capacity THEN sn ELSE q[k + 1]
  BY <1>1, <1>3, <1>4
<1>7. Head(g) = q[1]
  BY <1>1, <1>3
<1> QED BY <1>5, <1>6, <1>7 DEF Rotated, RemovesOldest, Grown, g, q

LEMMA SendRing ==
  ASSUME TypeOK, Ring, NEW f \in Flows, sendRtpPacket(f),
         m_qCircularBuffer' = Rotated(SN(Len(sent) + 1))
  PROVE  Ring'
<1> DEFINE n == Len(sent)
<1>1. n \in Nat /\ Len(sent') = n + 1 /\ UNCHANGED first
  BY SendAppends DEF confVars
<1>2. Capacity \in Nat /\ Capacity >= 1
  BY RetransmissionAssumption
<1>3. SN(n + 1) \in SNs
  BY <1>1, SNType DEF TypeOK
<1>4. \A i : SN(i)' = SN(i)
  BY <1>1 DEF SN
<1>5. \A k \in 1 .. Capacity :
        m_qCircularBuffer'[k] = IF k = Capacity THEN SN(n + 1) ELSE m_qCircularBuffer[k + 1]
  BY <1>3, RingTurns
<1>6. \A k \in 1 .. Capacity :
        m_qCircularBuffer[k] = IF n - Capacity + k >= 1 THEN SN(n - Capacity + k) ELSE 0
  BY DEF Ring
<1> HIDE DEF n
<1>7. ASSUME NEW k \in 1 .. Capacity
      PROVE  m_qCircularBuffer'[k] =
               IF n + 1 - Capacity + k >= 1 THEN SN(n + 1 - Capacity + k) ELSE 0
  <2>1. CASE k = Capacity
    <3>1. n + 1 - Capacity + k = n + 1
      BY <1>1, <1>2, <2>1
    <3> QED BY <1>1, <1>5, <2>1, <3>1
  <2>2. CASE k # Capacity
    <3>1. k + 1 \in 1 .. Capacity /\ n - Capacity + (k + 1) = n + 1 - Capacity + k
      BY <1>1, <1>2, <2>2
    <3> QED BY <1>5, <1>6, <2>2, <3>1
  <2> QED BY <2>1, <2>2
<1>8. ASSUME NEW k \in 1 .. Capacity
      PROVE  (m_qCircularBuffer[k] =
               IF Len(sent) - Capacity + k >= 1 THEN SN(Len(sent) - Capacity + k) ELSE 0)'
  <2>1. PICK i : i = n + 1 - Capacity + k
    OBVIOUS
  <2>2. i = Len(sent') - Capacity + k
    BY <1>1, <1>2, <2>1
  <2>3. SN(i)' = SN(i)
    BY <1>4
  <2>4. m_qCircularBuffer'[k] = IF i >= 1 THEN SN(i) ELSE 0
    BY <1>7, <2>1
  <2> QED BY <2>2, <2>3, <2>4 DEF SN
<1> QED BY <1>8 DEF Ring

\* The ring retains what it retained, and the new packet, without those whose
\* number is the one it gave up.
LEMMA RingRetains ==
  ASSUME TypeOK, Ring, m_eMode = "CIRCULAR_MODE", NEW f \in Flows, sendRtpPacket(f)
  PROVE  Retained' = {i \in Retained \cup {Len(sent) + 1} : SN(i) # m_qCircularBuffer[1]}
<1> DEFINE n == Len(sent)
           C == Capacity
           out == m_qCircularBuffer[1]
<1>1. /\ n \in Nat /\ Len(sent') = n + 1 /\ UNCHANGED <<first, m_eMode>>
      /\ Packets = 1 .. n /\ Packets' = 1 .. n + 1
  BY SendAppends DEF confVars
<1>2. C \in Nat /\ C >= 1 /\ SeqMod \in Nat /\ C < SeqMod
  BY RetransmissionAssumption
<1>3. \A i : SN(i)' = SN(i)
  BY <1>1 DEF SN
<1>4. out = IF n - C + 1 >= 1 THEN SN(n - C + 1) ELSE 0
  BY <1>2 DEF Ring
<1>5. Retained = {i \in 1 .. n : i > n - C /\ (SN(i) = 0 => i > C)}
  BY <1>1 DEF Retained
<1>6. Retained' = {i \in 1 .. n + 1 : i > n + 1 - C /\ (SN(i) = 0 => i > C)}
  <2>1. Retained' = {i \in Packets' : i > Len(sent') - C /\ (SN(i)' = 0 => i > C)}
    BY <1>1 DEF Retained
  <2>2. \A i : i \in Retained' <=> i \in 1 .. n + 1 /\ i > n + 1 - C /\ (SN(i) = 0 => i > C)
    <3>1. \A i : i \in Retained' <=> i \in Packets' /\ i > Len(sent') - C /\ (SN(i) = 0 => i > C)
      BY <1>3, <2>1
    <3>2. Len(sent') - C = n + 1 - C
      BY <1>1, <1>2
    <3> QED BY <1>1, <3>1, <3>2
  <2> QED BY <2>2
<1>7. first \in SNs
  BY DEF TypeOK
<1> HIDE DEF n, C, out
<1>8. CASE n >= C
  <2>1. out = SN(n - C + 1)
    BY <1>1, <1>2, <1>4, <1>8
  <2>2. ASSUME NEW i \in 1 .. n + 1, i > n + 1 - C
        PROVE  SN(i) # out
    <3>1. n - C + 1 \in Nat /\ i \in Nat /\ 1 <= n - C + 1 /\ n - C + 1 < i /\ i - (n - C + 1) < SeqMod
      BY <1>1, <1>2, <1>8, <2>2
    <3> QED BY <1>7, <2>1, <3>1, SNDistinct
  <2>3. ASSUME NEW i \in Retained \cup {n + 1}, SN(i) # out
        PROVE  i \in Retained'
    <3>1. i \in 1 .. n + 1 /\ i > n - C /\ (SN(i) = 0 => i > C)
      BY <1>1, <1>2, <1>5, <1>8
    <3>2. i # n - C + 1
      BY <2>1, <2>3
    <3> QED BY <1>1, <1>2, <1>6, <3>1, <3>2
  <2>4. ASSUME NEW i \in Retained'
        PROVE  i \in Retained \cup {n + 1} /\ SN(i) # out
    <3>1. i \in 1 .. n + 1 /\ i > n + 1 - C /\ (SN(i) = 0 => i > C)
      BY <1>6
    <3>2. i \in Retained \cup {n + 1}
      BY <1>1, <1>2, <1>5, <3>1
    <3> QED BY <2>2, <3>1, <3>2
  <2> QED BY <2>3, <2>4 DEF n, out
<1>9. CASE n < C
  <2>1. out = 0
    BY <1>1, <1>2, <1>4, <1>9
  <2>2. ASSUME NEW i \in Retained \cup {n + 1}, SN(i) # out
        PROVE  i \in Retained'
    <3>1. i \in 1 .. n + 1
      BY <1>1, <1>5
    <3>2. i > n + 1 - C
      BY <1>1, <1>2, <1>9, <3>1
    <3> QED BY <1>6, <2>1, <2>2, <3>1, <3>2
  <2>3. ASSUME NEW i \in Retained'
        PROVE  i \in Retained \cup {n + 1} /\ SN(i) # out
    <3>1. i \in 1 .. n + 1 /\ (SN(i) = 0 => i > C)
      BY <1>6
    <3>2. SN(i) # 0
      BY <1>1, <1>2, <1>9, <3>1
    <3>3. i = n + 1 \/ (i \in 1 .. n /\ i > n - C)
      BY <1>1, <1>2, <1>9, <3>1
    <3> QED BY <1>5, <2>1, <3>1, <3>2, <3>3
  <2> QED BY <2>2, <2>3 DEF n, out
<1> QED BY <1>1, <1>2, <1>8, <1>9

(***************************************************************************)
(* Types.                                                                  *)
(***************************************************************************)
\* The maps with a packet added, and after a removal.
LEMMA MapTypes ==
  ASSUME TypeOK, NEW i, NEW sn \in SNs, NEW label \in Flows \X SNs
  PROVE  /\ Inserted(sn, i) \in [SNs -> {None} \cup Packets \cup {i}]
         /\ Mapped(sn, Labels(label)) \subseteq SNs \X (Flows \X SNs)
<1>1. m_mTxMap \in [SNs -> {None} \cup Packets] /\ m_mSnMap \subseteq SNs \X (Flows \X SNs)
  BY DEF TypeOK
<1>2. Inserted(sn, i) \in [SNs -> {None} \cup Packets \cup {i}]
  BY <1>1 DEF Inserted
<1>3. Labels(label) \subseteq {label}
  BY DEF Labels
<1>4. ASSUME NEW l \in Labels(label)
      PROVE  <<sn, l>> \in SNs \X (Flows \X SNs)
  <2>1. l = label
    BY <1>3
  <2> QED BY <2>1
<1>5. Mapped(sn, Labels(label)) \subseteq SNs \X (Flows \X SNs)
  BY <1>1, <1>4 DEF Mapped
<1> QED BY <1>2, <1>5

LEMMA SendType ==
  ASSUME Inv, NEW f \in Flows, sendRtpPacket(f)
  PROVE  TypeOK'
<1> DEFINE n == Len(sent)
           label == <<f, (flowFirst[f] + sentOn[f]) % SeqMod>>
           sn == SN(n + 1)
           M == Inserted(sn, n + 1)
           P == Mapped(sn, Labels(label))
<1>1. TypeOK
  BY DEF Inv
<1>2. /\ n \in Nat /\ Len(sent') = n + 1 /\ Packets = 1 .. n /\ Packets' = 1 .. n + 1
      /\ sent' \in Seq(Sendings) /\ sentOn' \in [Flows -> Nat]
      /\ UNCHANGED confVars /\ UNCHANGED rtxVars
  BY <1>1, SendAppends
<1>3. sn \in SNs
  <2>1. first \in SNs /\ n + 1 \in Nat /\ 1 <= n + 1
    BY <1>1, <1>2 DEF TypeOK
  <2> HIDE DEF n
  <2> QED BY <2>1, SNType
<1>4. label \in Flows \X SNs
  <2>1. flowFirst[f] + sentOn[f] \in Nat
    BY <1>1 DEF TypeOK, SNs
  <2> QED BY <2>1, ModType
<1>5. Packets \cup {n + 1} = Packets' /\ Packets \subseteq Packets' /\ n + 1 \in Packets'
  BY <1>2
<1>6. M \in [SNs -> {None} \cup Packets \cup {n + 1}] /\ P \subseteq SNs \X (Flows \X SNs)
  <2> HIDE DEF label, sn, n
  <2> QED BY <1>1, <1>3, <1>4, MapTypes
<1>7. M \in [SNs -> {None} \cup Packets']
  <2> HIDE DEF M
  <2> QED BY <1>5, <1>6
<1>8. /\ storePacketForRetransmission(sn, n + 1, Labels(label), FALSE)
      /\ Stores(FALSE)
  BY DEF sendRtpPacket, Stores
<1> HIDE DEF n, label, sn, M, P
<1>9. /\ m_mTxMap' \in [SNs -> {None} \cup Packets'] /\ acked' \subseteq Packets'
      /\ m_qCircularBuffer' \in [1 .. Capacity -> SNs]
      /\ m_mRtxTimers' \subseteq Packets' /\ waiting' \subseteq m_mRtxTimers'
      /\ m_mSnMap' \subseteq SNs \X (Flows \X SNs)
  <2>1. /\ acked \subseteq Packets /\ m_qCircularBuffer \in [1 .. Capacity -> SNs]
        /\ m_mRtxTimers \subseteq Packets /\ waiting \subseteq m_mRtxTimers
    BY <1>1 DEF TypeOK
  <2>2. CASE storeCircular(sn, n + 1, Labels(label))
    <3> DEFINE out == RemovesOldest(sn)
    <3>1. /\ m_mTxMap' = [M EXCEPT ![out] = None] /\ acked' \subseteq acked
          /\ m_mSnMap' \subseteq P /\ m_qCircularBuffer' = Rotated(sn)
          /\ UNCHANGED <<m_mRtxTimers, waiting>>
      BY <2>2 DEF storeCircular, removePacketFromTxBuffer, M, P
    <3>2. Rotated(sn) \in [1 .. Capacity -> SNs]
      BY <1>1, <1>3, RingTurns
    <3>3. m_mTxMap' \in [SNs -> {None} \cup Packets']
      BY <1>7, <3>1
    <3> QED BY <1>5, <1>6, <2>1, <3>1, <3>2, <3>3
  <2>3. CASE storeTimed(sn, n + 1, Labels(label))
    <3>1. /\ m_mTxMap' = M /\ m_mSnMap' = P /\ UNCHANGED <<acked, m_qCircularBuffer>>
          /\ m_mRtxTimers' = m_mRtxTimers \cup {n + 1} /\ waiting' = waiting \cup {n + 1}
      BY <2>3 DEF storeTimed, insertPacketIntoTxBuffer, M, P
    <3> QED BY <1>5, <1>6, <1>7, <2>1, <3>1
  <2>4. CASE storeAcked(sn, n + 1, Labels(label))
    <3>1. /\ m_mTxMap' = M /\ m_mSnMap' = P
          /\ UNCHANGED <<acked, m_qCircularBuffer, m_mRtxTimers, waiting>>
      BY <2>4 DEF storeAcked, insertPacketIntoTxBuffer, M, P
    <3> QED BY <1>5, <1>6, <1>7, <2>1, <3>1
  <2> QED BY <1>8, <2>2, <2>3, <2>4 DEF storePacketForRetransmission
<1>10. rtx' \in {NoRtx} \cup Rtxs' /\ restored' \in {NoRtx} \cup Restorations'
  <2>1. rtx' = rtx /\ restored' = restored
    BY <1>2 DEF rtxVars
  <2>2. rtx \in {NoRtx} \cup Rtxs /\ restored \in {NoRtx} \cup Restorations
    BY <1>1 DEF TypeOK
  <2>3. SNs' = SNs
    BY DEF SNs
  <2>4. Rtxs \subseteq Rtxs' /\ Restorations \subseteq Restorations'
    BY <1>5, <2>3 DEF Rtxs, Restorations
  <2> QED BY <2>1, <2>2, <2>4
<1>11. SNs' = SNs /\ None' = None /\ NoRtx' = NoRtx /\ Sendings' = Sendings
  BY DEF SNs, None, NoRtx, Sendings
<1> QED BY <1>1, <1>2, <1>9, <1>10, <1>11 DEF TypeOK, confVars, rtxVars

LEMMA SendInv ==
  ASSUME Inv, NEW f \in Flows, sendRtpPacket(f)
  PROVE  Inv'
<1> DEFINE n == Len(sent)
           label == <<f, (flowFirst[f] + sentOn[f]) % SeqMod>>
           sn == SN(n + 1)
           labels == Labels(label)
<1>1. TypeOK /\ Counted /\ TypeOK' /\ Counted'
  BY SendType, SendCounted DEF Inv
<1>2. /\ n \in Nat /\ Len(sent') = n + 1 /\ Packets = 1 .. n
      /\ \A i \in Packets : sent'[i] = sent[i]
      /\ UNCHANGED confVars /\ UNCHANGED rtxVars
  BY <1>1, SendAppends
<1>3. sn \in SNs
  <2>1. first \in SNs /\ n + 1 \in Nat /\ 1 <= n + 1
    BY <1>1, <1>2 DEF TypeOK
  <2> HIDE DEF n
  <2> QED BY <2>1, SNType
<1>4. \/ storeCircular(sn, n + 1, labels)
      \/ storeTimed(sn, n + 1, labels)
      \/ storeAcked(sn, n + 1, labels)
  BY DEF sendRtpPacket, storePacketForRetransmission, Stores
<1>5. ASSUME Forgets
      PROVE  Held' /\ Paths' /\ (m_eMode = "CIRCULAR_MODE" => Ring')
  <2>1. /\ Inserted(sn, n + 1) = [m_mTxMap EXCEPT ![sn] = n + 1]
        /\ multipath /\ m_bIsMpRtpSession => Mapped(sn, labels) = m_mSnMap \cup {<<sn, label>>}
        /\ ~multipath => Mapped(sn, labels) = {}
    BY <1>5, SendInserts
  <2>2. m_mTxMap \in [SNs -> {None} \cup Packets]
    BY <1>1 DEF TypeOK
  <2> HIDE DEF labels
  <2>3. CASE storeCircular(sn, n + 1, labels)
    <3> DEFINE out == m_qCircularBuffer[1]
               gone == {out}
    <3>1. m_eMode = "CIRCULAR_MODE" /\ Ring
      BY <2>3 DEF storeCircular, Inv
    <3>2. RemovesOldest(sn) = out
      BY <1>1, <1>3, RingTurns
    <3>3. /\ m_mTxMap' = [Inserted(sn, n + 1) EXCEPT ![out] = None]
          /\ m_mSnMap' = IF m_bIsMpRtpSession THEN {p \in Mapped(sn, labels) : p[1] # out}
                         ELSE Mapped(sn, labels)
          /\ m_qCircularBuffer' = Rotated(sn)
      BY <2>3, <3>2 DEF storeCircular, removePacketFromTxBuffer
    <3>4. Retained' = {i \in Retained \cup {n + 1} : SN(i) \notin gone}
      BY <1>1, <3>1, RingRetains
    <3>5. \A s \in SNs : m_mTxMap'[s] = IF s \in gone THEN None ELSE IF s = sn THEN n + 1 ELSE m_mTxMap[s]
      <4> HIDE DEF n, sn, out
      <4> QED BY <1>3, <2>1, <2>2, <3>3
    <3>6. multipath /\ m_bIsMpRtpSession =>
            m_mSnMap' = {p \in m_mSnMap \cup {<<sn, label>>} : p[1] \notin gone}
      <4> HIDE DEF n, sn, out, label
      <4> QED BY <2>1, <3>3
    <3>7. ~multipath => m_mSnMap' = {}
      <4> HIDE DEF n, sn, out, label
      <4> QED BY <2>1, <3>3
    <3>8. Held' /\ Paths'
      <4> HIDE DEF gone, out
      <4> QED BY <1>1, <1>5, <3>4, <3>5, <3>6, <3>7, SendKeepsMaps
    <3>9. Ring'
      BY <1>1, <3>1, <3>3, SendRing
    <3> QED BY <3>8, <3>9
  <2>4. CASE storeTimed(sn, n + 1, labels)
    <3> DEFINE gone == {}
    <3>1. /\ m_eMode = "NACK_TIMED_MODE" /\ m_mTxMap' = Inserted(sn, n + 1)
          /\ m_mSnMap' = Mapped(sn, labels) /\ m_mRtxTimers' = m_mRtxTimers \cup {n + 1}
      BY <2>4 DEF storeTimed, insertPacketIntoTxBuffer
    <3>2. m_eMode' = m_eMode
      BY <1>2 DEF confVars
    <3>3. Retained = m_mRtxTimers /\ Retained' = m_mRtxTimers'
      BY <3>1, <3>2 DEF Retained
    <3>4. Retained' = {i \in Retained \cup {n + 1} : SN(i) \notin gone}
      BY <3>1, <3>3
    <3>5. \A s \in SNs : m_mTxMap'[s] = IF s \in gone THEN None ELSE IF s = sn THEN n + 1 ELSE m_mTxMap[s]
      <4> HIDE DEF n, sn
      <4> QED BY <1>3, <2>1, <2>2, <3>1
    <3>6. multipath /\ m_bIsMpRtpSession =>
            m_mSnMap' = {p \in m_mSnMap \cup {<<sn, label>>} : p[1] \notin gone}
      <4> HIDE DEF n, sn, label
      <4> QED BY <2>1, <3>1
    <3>7. ~multipath => m_mSnMap' = {}
      BY <2>1, <3>1
    <3>8. Held' /\ Paths'
      <4> HIDE DEF gone
      <4> QED BY <1>1, <1>5, <3>4, <3>5, <3>6, <3>7, SendKeepsMaps
    <3> QED BY <3>1, <3>8
  <2>5. CASE storeAcked(sn, n + 1, labels)
    BY <1>5, <2>5 DEF storeAcked, Forgets
  <2> QED BY <1>4, <2>3, <2>4, <2>5
<1>6. ASSUME ~multipath
      PROVE  m_mSnMap' = {}
  <2>1. Mapped(sn, labels) = {}
    BY <1>6 DEF Mapped, Labels, Inv
  <2> HIDE DEF n, sn, labels
  <2> QED BY <1>4, <2>1 DEF storeCircular, storeTimed, storeAcked, removePacketFromTxBuffer,
                           insertPacketIntoTxBuffer
<1>7. Asked'
  BY <1>1, <1>2 DEF Asked, Inv, rtxVars, TypeOK, Rtxs, NoRtx
<1>8. AnswersForgetting'
  <2>1. SUFFICES ASSUME rtx # NoRtx, Forgets
                 PROVE  /\ Newest(rtx.original, rtx.packet, rtx.outOf)'
                        /\ m_bIsMpRtpSession => \A l \in rtx.asked : l = Label(rtx.packet)'
    BY <1>2 DEF AnswersForgetting, rtxVars, confVars, NoRtx, Forgets
  <2>2. /\ Newest(rtx.original, rtx.packet, rtx.outOf)
        /\ m_bIsMpRtpSession => \A l \in rtx.asked : l = Label(rtx.packet)
    BY <2>1 DEF AnswersForgetting, Inv
  <2>3. rtx.packet \in Packets
    BY <1>1, <2>1 DEF TypeOK, Rtxs
  <2>4. Label(rtx.packet)' = Label(rtx.packet)
    BY <1>2, <2>3 DEF Label, FSSN, rtxVars, confVars
  <2>5. Newest(rtx.original, rtx.packet, rtx.outOf)'
    BY <1>2, <2>2 DEF Newest, SN, rtxVars, confVars
  <2> QED BY <2>2, <2>4, <2>5
<1>9. m_eMode # "NACK_TIMED_MODE" => m_mRtxTimers' = {}
  BY <1>4 DEF Inv, storeCircular, storeTimed, storeAcked
<1> QED BY <1>1, <1>2, <1>5, <1>6, <1>7, <1>8, <1>9 DEF Inv, confVars, Forgets

(***************************************************************************)
(* The other steps.                                                        *)
(***************************************************************************)
\* What depends on the history and the configuration only.
LEMMA SameHistory ==
  ASSUME UNCHANGED confVars, UNCHANGED sentVars
  PROVE  /\ \A i : SN(i)' = SN(i) /\ Label(i)' = Label(i)
         /\ Packets' = Packets /\ SNs' = SNs /\ Rtxs' = Rtxs /\ Restorations' = Restorations
         /\ \A s, i, k : Newest(s, i, k)' = Newest(s, i, k)
         /\ Counted' = Counted /\ Forgets' = Forgets
BY DEF confVars, sentVars, SN, Label, FSSN, Packets, SNs, Rtxs, Restorations, Newest, Counted, Forgets

\* Steps that leave the maps alone.
LEMMA SameBuffer ==
  ASSUME Inv, UNCHANGED confVars, UNCHANGED sentVars,
         UNCHANGED <<m_mTxMap, m_qCircularBuffer, m_mRtxTimers, m_mSnMap>>
  PROVE  /\ m_eMode' = "CIRCULAR_MODE" => Ring'
         /\ Forgets' => Held' /\ Paths'
         /\ ~multipath' => m_mSnMap' = {}
         /\ m_eMode' # "NACK_TIMED_MODE" => m_mRtxTimers' = {}
         /\ Counted'
<1>1. Retained' = Retained
  BY DEF Retained, confVars, sentVars, Packets, SN
<1>2. Ring' = Ring
  BY DEF Ring, confVars, sentVars, SN
<1>3. Held' = Held
  BY <1>1 DEF Held, confVars, sentVars, SN, SNs
<1>4. Paths' = Paths
  BY <1>1 DEF Paths, confVars, sentVars, SN, Label, FSSN
<1> QED BY <1>1, <1>2, <1>3, <1>4, SameHistory DEF Inv, confVars

\* Steps that leave the retransmission on its way alone.
LEMMA SameRtx ==
  ASSUME Inv, UNCHANGED confVars, UNCHANGED sentVars, UNCHANGED rtx
  PROVE  Asked' /\ AnswersForgetting'
<1>1. Asked'
  BY DEF Asked, Inv, sentVars, NoRtx
<1>2. AnswersForgetting'
  BY DEF AnswersForgetting, Inv, confVars, sentVars, NoRtx, Forgets, Newest, SN, Label, FSSN
<1> QED BY <1>1, <1>2

LEMMA RemovalInv ==
  ASSUME Inv, NEW x \in m_mRtxTimers, onRemoveRtpPacketTimeout(x)
  PROVE  Inv'
<1>1. /\ TypeOK /\ m_mRtxTimers \subseteq Packets /\ m_mTxMap \in [SNs -> {None} \cup Packets]
      /\ acked \subseteq Packets /\ waiting \subseteq m_mRtxTimers
      /\ Packets \subseteq Nat \ {0} /\ Len(sent) \in Nat
  BY RetainedSent DEF Inv, TypeOK
<1>2. /\ UNCHANGED confVars /\ UNCHANGED sentVars /\ UNCHANGED rtxVars
      /\ UNCHANGED <<m_qCircularBuffer, waiting>>
      /\ m_mRtxTimers' = m_mRtxTimers \ {x} /\ x \notin waiting
      /\ m_mTxMap' = [m_mTxMap EXCEPT ![SN(x)] = None] /\ acked' \subseteq acked
      /\ m_mSnMap' = IF m_bIsMpRtpSession THEN {p \in m_mSnMap : p[1] # SN(x)} ELSE m_mSnMap
  BY DEF onRemoveRtpPacketTimeout, removePacketFromTxBuffer
<1>3. SN(x) \in SNs
  BY <1>1, SNType DEF TypeOK
<1>4. /\ \A i : SN(i)' = SN(i) /\ Label(i)' = Label(i)
      /\ Packets' = Packets /\ SNs' = SNs /\ Rtxs' = Rtxs /\ Restorations' = Restorations
      /\ Counted' = Counted /\ Forgets' = Forgets
  BY <1>2, SameHistory
<1>5. TypeOK'
  BY <1>1, <1>2, <1>4 DEF TypeOK, confVars, sentVars, rtxVars, NoRtx, None, Sendings
<1>6. m_eMode = "NACK_TIMED_MODE" /\ Forgets /\ m_eMode' = m_eMode
  BY <1>2 DEF Inv, Forgets, confVars
<1>7. Retained = m_mRtxTimers /\ Retained' = m_mRtxTimers \ {x} /\ Held /\ Paths
  BY <1>2, <1>6 DEF Retained, Inv
<1>8. ASSUME NEW i \in Retained'
      PROVE  SN(i) # SN(x)
  <2>1. /\ i \in Nat /\ x \in Nat /\ 1 <= i /\ 1 <= x /\ i # x /\ i <= Len(sent) /\ x <= Len(sent)
        /\ Len(sent) - i < SeqMod /\ Len(sent) - x < SeqMod /\ first \in SNs
    BY <1>1, <1>7 DEF Held, TypeOK, Packets
  <2>2. SeqMod \in Nat
    BY RetransmissionAssumption
  <2>3. CASE i < x
    <3>1. x - i < SeqMod
      BY <1>1, <2>1, <2>2
    <3> QED BY <2>1, <2>3, <3>1, SNDistinct
  <2>4. CASE x < i
    <3>1. i - x < SeqMod
      BY <1>1, <2>1, <2>2
    <3> QED BY <2>1, <2>4, <3>1, SNDistinct
  <2> QED BY <2>1, <2>3, <2>4
<1>9. Held'
  <2>1. ASSUME NEW i \in Retained'
        PROVE  m_mTxMap'[SN(i)] = i /\ Len(sent) - i < SeqMod
    <3>1. m_mTxMap[SN(i)] = i /\ Len(sent) - i < SeqMod
      BY <1>7 DEF Held
    <3>2. SN(i) \in SNs
      BY <1>1, <1>7, SNType DEF TypeOK
    <3> QED BY <1>1, <1>2, <1>8, <3>1, <3>2
  <2>2. ASSUME NEW s \in SNs, m_mTxMap'[s] # None
        PROVE  m_mTxMap'[s] \in Retained' /\ SN(m_mTxMap'[s]) = s
    <3>1. s # SN(x) /\ m_mTxMap'[s] = m_mTxMap[s]
      BY <1>1, <1>2, <1>3, <2>2
    <3>2. m_mTxMap[s] \in Retained /\ SN(m_mTxMap[s]) = s
      BY <1>7, <2>2, <3>1 DEF Held
    <3> QED BY <1>7, <3>1, <3>2
  <2>3. Len(sent') = Len(sent) /\ None' = None
    BY <1>2 DEF sentVars, None
  <2> QED BY <1>4, <2>1, <2>2, <2>3 DEF Held
<1>10. Paths'
  <2>1. ~multipath => m_mSnMap' = {}
    BY <1>2, <1>7 DEF Paths
  <2>2. ASSUME multipath, m_bIsMpRtpSession
        PROVE  /\ \A i \in Retained' : <<SN(i), Label(i)>> \in m_mSnMap'
               /\ \A p \in m_mSnMap' : \E i \in Retained' : p = <<SN(i), Label(i)>>
    <3>1. m_mSnMap' = {p \in m_mSnMap : p[1] # SN(x)}
      BY <1>2, <2>2
    <3>2. ASSUME NEW i \in Retained'
          PROVE  <<SN(i), Label(i)>> \in m_mSnMap'
      <4>1. <<SN(i), Label(i)>> \in m_mSnMap
        BY <1>7, <2>2 DEF Paths
      <4> QED BY <1>8, <3>1, <4>1
    <3>3. ASSUME NEW p \in m_mSnMap'
          PROVE  \E i \in Retained' : p = <<SN(i), Label(i)>>
      <4>1. p \in m_mSnMap /\ p[1] # SN(x)
        BY <3>1
      <4>2. PICK i \in Retained : p = <<SN(i), Label(i)>>
        BY <1>7, <2>2, <4>1 DEF Paths
      <4>3. i # x
        BY <4>1, <4>2
      <4> QED BY <1>7, <4>2, <4>3
    <3> QED BY <3>2, <3>3
  <2> QED BY <1>2, <1>4, <2>1, <2>2 DEF Paths, confVars
<1>11. Asked' /\ AnswersForgetting'
  BY <1>2, SameRtx DEF rtxVars
<1>12. ~multipath' => m_mSnMap' = {}
  BY <1>2 DEF Inv, confVars
<1> QED BY <1>4, <1>5, <1>6, <1>9, <1>10, <1>11, <1>12 DEF Inv

LEMMA TimerInv ==
  ASSUME Inv, TimerExpires \/ stop
  PROVE  Inv'
<1>1. /\ UNCHANGED confVars /\ UNCHANGED sentVars /\ UNCHANGED rtxVars
      /\ UNCHANGED <<m_mTxMap, m_qCircularBuffer, m_mRtxTimers, m_mSnMap>> /\ UNCHANGED acked
      /\ waiting' \subseteq waiting
  BY DEF TimerExpires, stop
<1>2. TypeOK'
  BY <1>1, SameHistory DEF Inv, TypeOK, confVars, sentVars, rtxVars, NoRtx, None, Sendings
<1> QED BY <1>1, <1>2, SameBuffer, SameRtx DEF Inv, rtxVars

LEMMA AckInv ==
  ASSUME Inv, NEW sn \in SNs, ack(sn)
  PROVE  Inv'
<1>1. /\ UNCHANGED confVars /\ UNCHANGED sentVars /\ UNCHANGED rtxVars
      /\ UNCHANGED <<m_mTxMap, m_qCircularBuffer, m_mRtxTimers, m_mSnMap>> /\ UNCHANGED waiting
      /\ acked' = acked \cup {m_mTxMap[sn]} /\ m_mTxMap[sn] # None
  BY DEF ack
<1>2. acked' \subseteq Packets
  BY <1>1 DEF Inv, TypeOK
<1>3. TypeOK'
  BY <1>1, <1>2, SameHistory DEF Inv, TypeOK, confVars, sentVars, rtxVars, NoRtx, None, Sendings
<1> QED BY <1>1, <1>3, SameBuffer, SameRtx DEF Inv, rtxVars

\* A retransmission is generated for the packet that was asked for.
LEMMA GenerateInv ==
  ASSUME Inv, NEW sn \in SNs, NEW asked \in SUBSET (Flows \X SNs),
         \A label \in asked : <<sn, label>> \in m_mSnMap,
         generateRetransmissionPacket(sn, asked)
  PROVE  Inv'
<1> DEFINE i == m_mTxMap[sn]
<1>1. /\ TypeOK /\ i \in Packets /\ Packets = 1 .. Len(sent) /\ Len(sent) \in Nat
      /\ m_mSnMap \subseteq SNs \X (Flows \X SNs)
  BY DEF Inv, TypeOK, generateRetransmissionPacket, Packets
<1>2. /\ UNCHANGED confVars /\ UNCHANGED sentVars /\ UNCHANGED bufferVars /\ UNCHANGED restored
      /\ rtx' = [packet |-> i, number |-> m_uiRtxSequenceNumber, original |-> SN(i),
                 labels |-> CarriedLabels(sn), nack |-> sn, asked |-> asked,
                 outOf |-> Len(sent), sent |-> FALSE]
      /\ m_uiRtxSequenceNumber' = (m_uiRtxSequenceNumber + 1) % SeqMod
      /\ generated' = generated + 1
  BY DEF generateRetransmissionPacket
<1>3. SN(i) \in SNs
  BY <1>1, SNType DEF TypeOK
<1>4. CarriedLabels(sn) \subseteq Flows \X Nat
  <2>1. \A p \in m_mSnMap : p[2][1] \in Flows /\ p[2][2] % ByteMod \in Nat
    BY <1>1, RetransmissionAssumption DEF SNs
  <2> QED BY <2>1 DEF CarriedLabels
<1>5. m_uiRtxSequenceNumber' \in SNs /\ m_uiRtxSequenceNumber \in SNs /\ generated' \in Nat
  <2>1. m_uiRtxSequenceNumber + 1 \in Nat /\ m_uiRtxSequenceNumber \in SNs /\ generated' \in Nat
    BY <1>1, <1>2 DEF TypeOK, SNs
  <2> QED BY <1>2, <2>1, ModType
<1>6. rtx' \in Rtxs
  <2> HIDE DEF i
  <2> QED BY <1>1, <1>2, <1>3, <1>4, <1>5 DEF Rtxs
<1>7. TypeOK'
  <2> HIDE DEF i
  <2> QED BY <1>1, <1>2, <1>5, <1>6, SameHistory
          DEF TypeOK, confVars, sentVars, bufferVars, NoRtx, None, Sendings
<1>8. Asked'
  BY <1>1, <1>2 DEF Asked, sentVars
<1>9. AnswersForgetting'
  <2>1. SUFFICES ASSUME Forgets
                 PROVE  /\ Newest(SN(i), i, Len(sent))
                        /\ m_bIsMpRtpSession => \A label \in asked : label = Label(i)
    <3>1. /\ rtx'.original = SN(i) /\ rtx'.packet = i /\ rtx'.outOf = Len(sent)
          /\ rtx'.asked = asked
      BY <1>2
    <3> HIDE DEF i
    <3> QED BY <1>2, <3>1
            DEF AnswersForgetting, confVars, sentVars, Forgets, Newest, SN, Label, FSSN
  <2>2. Held /\ Paths
    BY <2>1 DEF Inv
  <2>3. i \in Retained /\ SN(i) = sn
    BY <2>2 DEF Held, generateRetransmissionPacket
  <2>4. ASSUME NEW j \in i + 1 .. Len(sent)
        PROVE  SN(j) # SN(i)
    <3>1. /\ i \in Nat /\ j \in Nat /\ 1 <= i /\ i < j /\ Len(sent) - i < SeqMod
          /\ SeqMod \in Nat /\ first \in SNs
      BY <1>1, <2>2, <2>3, <2>4, RetransmissionAssumption DEF Held, TypeOK
    <3>2. j - i < SeqMod
      BY <1>1, <2>4, <3>1
    <3> HIDE DEF i
    <3> QED BY <3>1, <3>2, SNDistinct
  <2>5. ASSUME m_bIsMpRtpSession, NEW label \in asked
        PROVE  label = Label(i)
    <3>1. <<sn, label>> \in m_mSnMap
      OBVIOUS
    <3>2. multipath /\ m_bIsMpRtpSession
      BY <2>5, <3>1 DEF Inv
    <3>3. PICK j \in Retained : <<sn, label>> = <<SN(j), Label(j)>>
      BY <2>2, <3>1, <3>2 DEF Paths
    <3>4. m_mTxMap[SN(j)] = j
      BY <2>2 DEF Held
    <3> QED BY <3>3, <3>4
  <2> QED BY <1>1, <2>3, <2>4, <2>5 DEF Newest
<1> QED BY <1>2, <1>7, <1>8, <1>9, SameBuffer DEF Inv, bufferVars

LEMMA RtxSentInv ==
  ASSUME Inv, sendRtxPacket
  PROVE  Inv'
<1>1. /\ UNCHANGED confVars /\ UNCHANGED sentVars /\ UNCHANGED bufferVars
      /\ UNCHANGED <<m_uiRtxSequenceNumber, restored, generated>>
      /\ rtx # NoRtx /\ rtx' = [rtx EXCEPT !.sent = TRUE]
  BY DEF sendRtxPacket, storePacketForRetransmission, Stores
<1>2. rtx \in Rtxs /\ TypeOK
  BY <1>1 DEF Inv, TypeOK
<1>3. /\ rtx' \in Rtxs /\ rtx'.packet = rtx.packet /\ rtx'.original = rtx.original
      /\ rtx'.outOf = rtx.outOf /\ rtx'.nack = rtx.nack /\ rtx'.asked = rtx.asked
  BY <1>1, <1>2 DEF Rtxs
<1>4. TypeOK'
  BY <1>1, <1>2, <1>3, SameHistory
     DEF TypeOK, confVars, sentVars, bufferVars, NoRtx, None, Sendings
<1>5. Asked'
  BY <1>1, <1>3 DEF Inv, Asked, sentVars
<1>6. AnswersForgetting'
  BY <1>1, <1>3 DEF Inv, AnswersForgetting, confVars, sentVars, Forgets, Newest, SN, Label, FSSN
<1> QED BY <1>1, <1>4, <1>5, <1>6, SameBuffer DEF Inv, bufferVars

LEMMA RtxGoneInv ==
  ASSUME Inv, processRetransmission \/ loseRtx
  PROVE  Inv'
<1>1. /\ UNCHANGED confVars /\ UNCHANGED sentVars /\ UNCHANGED bufferVars
      /\ UNCHANGED <<m_uiRtxSequenceNumber, generated>> /\ rtx # NoRtx /\ rtx' = NoRtx
  BY DEF processRetransmission, loseRtx
<1>2. rtx \in Rtxs /\ TypeOK
  BY <1>1 DEF Inv, TypeOK
<1>3. restored' \in {NoRtx} \cup Restorations
  <2>1. CASE loseRtx
    BY <1>2, <2>1 DEF loseRtx, TypeOK
  <2>2. CASE processRetransmission
    BY <1>2, <2>2 DEF processRetransmission, Rtxs, Restorations
  <2> QED BY <2>1, <2>2
<1>4. TypeOK'
  BY <1>1, <1>2, <1>3, SameHistory
     DEF TypeOK, confVars, sentVars, bufferVars, NoRtx, None, Sendings
<1>5. Asked' /\ AnswersForgetting'
  BY <1>1 DEF Asked, AnswersForgetting, NoRtx
<1> QED BY <1>1, <1>4, <1>5, SameBuffer DEF Inv, bufferVars

LEMMA StepInv == Inv /\ [Next]_vars => Inv'
<1> SUFFICES ASSUME Inv, [Next]_vars PROVE Inv'
  OBVIOUS
<1>1. CASE \E f \in Flows : sendRtpPacket(f)
  BY <1>1, SendInv
<1>2. CASE TimerExpires \/ stop
  BY <1>2, TimerInv
<1>3. CASE \E i \in m_mRtxTimers : onRemoveRtpPacketTimeout(i)
  BY <1>3, RemovalInv
<1>4. CASE \E sn \in SNs : ack(sn)
  BY <1>4, AckInv
<1>5. CASE \E sn \in SNs : handleNack(sn)
  <2>1. PICK sn \in SNs : generateRetransmissionPacket(sn, {})
    BY <1>5 DEF handleNack
  <2> QED BY <2>1, GenerateInv
<1>6. CASE \E f \in Flows, fssn \in SNs : handleNackOfFlow(f, fssn)
  <2>0. PICK f \in Flows, fssn \in SNs : handleNackOfFlow(f, fssn)
    BY <1>6
  <2>1. PICK p \in FoundByLabel(<<f, fssn>>) : generateRetransmissionPacket(p[1], {<<f, fssn>>})
    BY <2>0 DEF handleNackOfFlow
  <2>2. p \in m_mSnMap /\ p[2] = <<f, fssn>> /\ p[1] \in SNs /\ p = <<p[1], p[2]>>
    BY <2>1 DEF FoundByLabel, Inv, TypeOK
  <2>3. {<<f, fssn>>} \in SUBSET (Flows \X SNs) /\ <<p[1], <<f, fssn>> >> \in m_mSnMap
    BY <2>2
  <2> QED BY <2>1, <2>2, <2>3, GenerateInv
<1>7. CASE sendRtxPacket
  BY <1>7, RtxSentInv
<1>8. CASE processRetransmission \/ loseRtx
  BY <1>8, RtxGoneInv
<1>9. CASE UNCHANGED vars
  <2>1. UNCHANGED confVars /\ UNCHANGED sentVars /\ UNCHANGED bufferVars /\ UNCHANGED rtxVars
    BY <1>9 DEF vars
  <2>2. TypeOK'
    BY <2>1, SameHistory
       DEF Inv, TypeOK, confVars, sentVars, bufferVars, rtxVars, NoRtx, None, Sendings
  <2> QED BY <2>1, <2>2, SameBuffer, SameRtx DEF Inv, bufferVars, rtxVars
<1> QED BY <1>1, <1>2, <1>3, <1>4, <1>5, <1>6, <1>7, <1>8, <1>9 DEF Next

(***************************************************************************)
(* What holds in every mode, and what ACK_MODE keeps.                      *)
(***************************************************************************)
\* An entry has the number under which it is found, and a label is that of a packet.
Numbered == \A sn \in SNs : m_mTxMap[sn] # None => SN(m_mTxMap[sn]) = sn
Labelled == \A p \in m_mSnMap : \E i \in Packets : p = <<SN(i), Label(i)>>

\* In ACK_MODE a number once used stays used, by no later packet.
KeepsAll ==
  ~Forgets => \A i \in Packets : m_mTxMap[SN(i)] # None /\ m_mTxMap[SN(i)] <= i

\* The answers to NACKs, as far as AnswersForgetting does not give them.
AnswersOthers ==
  rtx # NoRtx =>
    /\ rtx.nack = rtx.original
    /\ ~Forgets => First(rtx.original, rtx.packet)
    /\ rtx.outOf <= SeqMod => \A label \in rtx.asked : label = Label(rtx.packet)

KeptInv == Numbered /\ Labelled /\ KeepsAll /\ AnswersOthers

LEMMA FirstHeld ==
  ASSUME Inv, Numbered, KeepsAll, ~Forgets, NEW sn \in SNs, m_mTxMap[sn] # None
  PROVE  First(sn, m_mTxMap[sn])
<1>1. PICK k : k = m_mTxMap[sn]
  OBVIOUS
<1>2. k \in Packets /\ Packets = 1 .. Len(sent) /\ Len(sent) \in Nat
  BY <1>1 DEF Inv, TypeOK, Packets
<1>3. SN(k) = sn
  BY <1>1 DEF Numbered
<1>4. ASSUME NEW j \in 1 .. k - 1, SN(j) = sn
      PROVE  FALSE
  <2>1. j \in Packets /\ j < k /\ j \in Nat /\ k \in Nat
    BY <1>2
  <2>2. m_mTxMap[SN(j)] <= j
    BY <2>1 DEF KeepsAll
  <2> QED BY <1>1, <1>4, <2>1, <2>2
<1> QED BY <1>1, <1>2, <1>3, <1>4 DEF First

\* Packets of one cycle have different numbers.
LEMMA SameNumber ==
  ASSUME TypeOK, NEW i \in Packets, NEW k \in Packets, SN(i) = SN(k), Len(sent) <= SeqMod
  PROVE  i = k
<1>1. /\ i \in Nat /\ k \in Nat /\ 1 <= i /\ 1 <= k /\ i <= Len(sent) /\ k <= Len(sent)
      /\ Len(sent) \in Nat /\ SeqMod \in Nat /\ first \in SNs
  BY RetransmissionAssumption DEF TypeOK, Packets
<1>2. CASE i < k
  <2>1. k - i < SeqMod
    BY <1>1
  <2> QED BY <1>1, <1>2, <2>1, SNDistinct
<1>3. CASE k < i
  <2>1. i - k < SeqMod
    BY <1>1
  <2> QED BY <1>1, <1>3, <2>1, SNDistinct
<1> QED BY <1>1, <1>2, <1>3

LEMMA SendKept ==
  ASSUME Inv, KeptInv, NEW f \in Flows, sendRtpPacket(f)
  PROVE  KeptInv'
<1> DEFINE n == Len(sent)
           label == <<f, (flowFirst[f] + sentOn[f]) % SeqMod>>
           sn == SN(n + 1)
           labels == Labels(label)
<1>1. /\ TypeOK /\ n \in Nat /\ Len(sent') = n + 1 /\ Packets = 1 .. n /\ Packets' = 1 .. n + 1
      /\ \A i \in Packets : sent'[i] = sent[i]
      /\ sent'[n + 1] = [flow |-> f, before |-> sentOn[f]]
      /\ UNCHANGED confVars /\ UNCHANGED rtxVars
  BY SendAppends DEF Inv
<1>2. sn \in SNs
  <2>1. first \in SNs /\ n + 1 \in Nat /\ 1 <= n + 1
    BY <1>1 DEF TypeOK
  <2> HIDE DEF n
  <2> QED BY <2>1, SNType
<1>3. \/ storeCircular(sn, n + 1, labels)
      \/ storeTimed(sn, n + 1, labels)
      \/ storeAcked(sn, n + 1, labels)
  BY DEF sendRtpPacket, storePacketForRetransmission, Stores
<1>4. m_mTxMap \in [SNs -> {None} \cup Packets] /\ m_qCircularBuffer[1] \in SNs
  <2>1. m_mTxMap \in [SNs -> {None} \cup Packets]
    BY <1>1 DEF TypeOK
  <2>2. 1 \in 1 .. Capacity
    BY RetransmissionAssumption
  <2>3. m_qCircularBuffer[1] \in SNs
    BY <1>1, <2>2 DEF TypeOK
  <2> QED BY <2>1, <2>3
<1>k. PICK k : k = n + 1
  OBVIOUS
<1>5. RemovesOldest(sn) = m_qCircularBuffer[1]
  BY <1>1, <1>2, RingTurns
<1>6. /\ \A i : SN(i)' = SN(i)
      /\ \A i \in Packets : Label(i)' = Label(i)
      /\ Label(k)' = label /\ Forgets' = Forgets /\ None' = None /\ SNs' = SNs
  <2>1. flowFirst' = flowFirst /\ first' = first /\ m_eMode' = m_eMode
    BY <1>1 DEF confVars
  <2>2. \A i \in Packets : Label(i)' = Label(i)
    BY <1>1, <2>1 DEF Label, FSSN
  <2>3. Label(k)' = label
    <3>1. sent'[k].flow = f /\ sent'[k].before = sentOn[f]
      BY <1>1, <1>k
    <3> QED BY <2>1, <3>1 DEF Label, FSSN
  <2>4. \A i : SN(i)' = SN(i)
    BY <2>1 DEF SN
  <2> QED BY <2>1, <2>2, <2>3, <2>4 DEF Forgets, None, SNs
<1>7. /\ Inserted(sn, n + 1) \in {m_mTxMap, [m_mTxMap EXCEPT ![sn] = n + 1]}
      /\ Mapped(sn, labels) \subseteq m_mSnMap \cup {<<sn, label>>}
  <2>1. labels \subseteq {label}
    BY DEF Labels
  <2> HIDE DEF n, sn, label, labels
  <2>2. Mapped(sn, labels) \subseteq m_mSnMap \cup {<<sn, label>>}
    BY <2>1 DEF Mapped
  <2>3. Inserted(sn, n + 1) \in {m_mTxMap, [m_mTxMap EXCEPT ![sn] = n + 1]}
    BY DEF Inserted
  <2> QED BY <2>2, <2>3
<1>8. /\ \A s \in SNs : m_mTxMap'[s] \in {None, m_mTxMap[s]} \/ (s = sn /\ m_mTxMap'[s] = n + 1)
      /\ m_mSnMap' \subseteq m_mSnMap \cup {<<sn, label>>}
  <2> HIDE DEF n, sn, label, labels
  <2>1. CASE storeCircular(sn, n + 1, labels)
    <3>1. /\ m_mTxMap' = [Inserted(sn, n + 1) EXCEPT ![m_qCircularBuffer[1]] = None]
          /\ m_mSnMap' \subseteq Mapped(sn, labels)
      BY <1>5, <2>1 DEF storeCircular, removePacketFromTxBuffer
    <3> QED BY <1>2, <1>4, <1>7, <3>1
  <2>2. CASE storeTimed(sn, n + 1, labels) \/ storeAcked(sn, n + 1, labels)
    <3>1. m_mTxMap' = Inserted(sn, n + 1) /\ m_mSnMap' = Mapped(sn, labels)
      BY <2>2 DEF storeTimed, storeAcked, insertPacketIntoTxBuffer
    <3> QED BY <1>2, <1>4, <1>7, <3>1
  <2> QED BY <1>3, <2>1, <2>2
<1>9. Numbered'
  <2> SUFFICES ASSUME NEW s \in SNs, m_mTxMap'[s] # None
               PROVE  SN(m_mTxMap'[s]) = s
    BY <1>6 DEF Numbered
  <2>1. m_mTxMap'[s] = m_mTxMap[s] \/ (s = sn /\ m_mTxMap'[s] = n + 1)
    BY <1>8
  <2> QED BY <2>1 DEF KeptInv, Numbered
<1>10. Labelled'
  <2> SUFFICES ASSUME NEW p \in m_mSnMap'
               PROVE  \E i \in Packets' : p = <<SN(i)', Label(i)'>>
    BY DEF Labelled
  <2>1. CASE p = <<sn, label>>
    <3>1. k \in Packets'
      BY <1>1, <1>k
    <3>2. SN(k)' = sn /\ Label(k)' = label
      BY <1>6, <1>k
    <3> HIDE DEF n, sn, label
    <3> QED BY <2>1, <3>1, <3>2
  <2>2. CASE p \in m_mSnMap
    <3>1. PICK i \in Packets : p = <<SN(i), Label(i)>>
      BY <2>2 DEF KeptInv, Labelled
    <3>2. i \in Packets'
      BY <1>1
    <3> QED BY <1>6, <3>1, <3>2
  <2> HIDE DEF sn, label
  <2> QED BY <1>8, <2>1, <2>2
<1>11. KeepsAll'
  <2> SUFFICES ASSUME ~Forgets, NEW i \in Packets'
               PROVE  m_mTxMap'[SN(i)] # None /\ m_mTxMap'[SN(i)] <= i
    BY <1>6 DEF KeepsAll
  <2>1. m_mTxMap' = Inserted(sn, n + 1)
    BY <1>3 DEF Forgets, storeCircular, storeTimed, storeAcked, insertPacketIntoTxBuffer
  <2>2. None = 0
    BY DEF None
  <2> HIDE DEF sn
  <2>3. CASE i \in Packets
    <3>1. m_mTxMap[SN(i)] # None /\ m_mTxMap[SN(i)] <= i
      BY <2>3 DEF KeptInv, KeepsAll
    <3>2. SN(i) = sn => m_mTxMap' = m_mTxMap
      BY <2>1, <3>1 DEF Inserted
    <3>3. SN(i) # sn => m_mTxMap'[SN(i)] = m_mTxMap[SN(i)]
      <4>1. SN(i) \in SNs
        BY <1>1, <2>3, SNType DEF TypeOK
      <4> HIDE DEF n
      <4> QED BY <1>4, <1>7, <2>1, <4>1
    <3> QED BY <3>1, <3>2, <3>3
  <2>4. CASE i = n + 1
    <3>1. SN(i) = sn
      BY <2>4 DEF sn
    <3>2. m_mTxMap[sn] \in {None} \cup 1 .. n
      BY <1>1, <1>2, <1>4
    <3>3. m_mTxMap'[sn] = IF m_mTxMap[sn] = None THEN n + 1 ELSE m_mTxMap[sn]
      <4> HIDE DEF n
      <4> QED BY <1>2, <1>4, <2>1 DEF Inserted
    <3> QED BY <1>1, <2>2, <2>4, <3>1, <3>2, <3>3
  <2> QED BY <1>1, <2>3, <2>4
<1>12. AnswersOthers'
  <2> SUFFICES ASSUME rtx # NoRtx
               PROVE  /\ rtx.nack = rtx.original
                      /\ ~Forgets => First(rtx.original, rtx.packet)'
                      /\ rtx.outOf <= SeqMod => \A l \in rtx.asked : l = Label(rtx.packet)'
    BY <1>1, <1>6 DEF AnswersOthers, rtxVars, NoRtx
  <2>1. /\ rtx.nack = rtx.original
        /\ ~Forgets => First(rtx.original, rtx.packet)
        /\ rtx.outOf <= SeqMod => \A l \in rtx.asked : l = Label(rtx.packet)
    BY DEF KeptInv, AnswersOthers
  <2>2. rtx.packet \in Packets /\ rtx' = rtx
    BY <1>1 DEF TypeOK, Rtxs, rtxVars
  <2>3. Label(rtx.packet)' = Label(rtx.packet)
    BY <1>6, <2>2
  <2>4. First(rtx.original, rtx.packet) => First(rtx.original, rtx.packet)'
    BY <1>1, <1>6, <2>2 DEF First
  <2> QED BY <2>1, <2>3, <2>4
<1> QED BY <1>9, <1>10, <1>11, <1>12 DEF KeptInv

LEMMA SameKept ==
  ASSUME Inv, KeptInv, UNCHANGED confVars, UNCHANGED sentVars,
         \A s \in SNs : m_mTxMap'[s] \in {None, m_mTxMap[s]},
         ~Forgets => m_mTxMap' = m_mTxMap,
         m_mSnMap' \subseteq m_mSnMap
  PROVE  Numbered' /\ Labelled' /\ KeepsAll'
<1>1. /\ \A i : SN(i)' = SN(i) /\ Label(i)' = Label(i)
      /\ Packets' = Packets /\ SNs' = SNs /\ Forgets' = Forgets /\ None' = None
  BY SameHistory DEF None
<1>2. Numbered'
  <2> SUFFICES ASSUME NEW s \in SNs, m_mTxMap'[s] # None
               PROVE  SN(m_mTxMap'[s]) = s
    BY <1>1 DEF Numbered
  <2>1. m_mTxMap'[s] = m_mTxMap[s]
    OBVIOUS
  <2> QED BY <2>1 DEF KeptInv, Numbered
<1>3. Labelled'
  BY <1>1 DEF KeptInv, Labelled
<1>4. KeepsAll'
  BY <1>1 DEF KeptInv, KeepsAll
<1> QED BY <1>2, <1>3, <1>4

LEMMA SameAnswer ==
  ASSUME KeptInv, UNCHANGED confVars, UNCHANGED sentVars, UNCHANGED rtx
  PROVE  AnswersOthers'
<1>1. /\ \A i : Label(i)' = Label(i) /\ Forgets' = Forgets
      /\ \A s, i : First(s, i)' = First(s, i)
  BY SameHistory DEF First, confVars, sentVars, Packets, SN
<1> QED BY <1>1 DEF KeptInv, AnswersOthers, NoRtx

LEMMA GenerateKept ==
  ASSUME Inv, KeptInv, NEW sn \in SNs, NEW asked \in SUBSET (Flows \X SNs),
         \A label \in asked : <<sn, label>> \in m_mSnMap,
         generateRetransmissionPacket(sn, asked)
  PROVE  KeptInv'
<1>0. PICK i : i = m_mTxMap[sn]
  OBVIOUS
<1>1. TypeOK /\ i \in Packets /\ i # None
  BY <1>0 DEF Inv, TypeOK, generateRetransmissionPacket
<1>2. /\ UNCHANGED confVars /\ UNCHANGED sentVars /\ UNCHANGED bufferVars
      /\ rtx'.packet = i /\ rtx'.original = SN(i) /\ rtx'.nack = sn /\ rtx'.asked = asked
      /\ rtx'.outOf = Len(sent)
  BY <1>0 DEF generateRetransmissionPacket
<1>3. SN(i) = sn
  BY <1>0, <1>1 DEF KeptInv, Numbered
<1>4. ~Forgets => First(sn, i)
  BY <1>0, <1>1, FirstHeld DEF KeptInv
<1>5. ASSUME Len(sent) <= SeqMod, NEW label \in asked
      PROVE  label = Label(i)
  <2>1. PICK k \in Packets : <<sn, label>> = <<SN(k), Label(k)>>
    BY DEF KeptInv, Labelled
  <2>2. SN(k) = SN(i) /\ label = Label(k)
    BY <1>3, <2>1
  <2>3. k = i
    BY <1>1, <1>5, <2>2, SameNumber
  <2> QED BY <2>2, <2>3
<1>6. AnswersOthers'
  <2>1. Label(i)' = Label(i) /\ Forgets' = Forgets /\ First(sn, i)' = First(sn, i)
    BY <1>2, SameHistory DEF First, confVars, sentVars, Packets, SN
  <2> SUFFICES /\ rtx'.nack = rtx'.original
               /\ ~Forgets => First(rtx.original, rtx.packet)'
               /\ rtx'.outOf <= SeqMod => \A label \in rtx'.asked : label = Label(rtx.packet)'
    BY <2>1 DEF AnswersOthers
  <2>2. First(rtx.original, rtx.packet)' = First(sn, i)'
    BY <1>2, <1>3 DEF First
  <2>3. Label(rtx.packet)' = Label(i)'
    BY <1>2 DEF Label, FSSN
  <2> QED BY <1>2, <1>3, <1>4, <1>5, <2>1, <2>2, <2>3
<1>7. Numbered' /\ Labelled' /\ KeepsAll'
  BY <1>2, SameKept DEF bufferVars
<1> QED BY <1>6, <1>7 DEF KeptInv

LEMMA KeptStep == Inv /\ KeptInv /\ [Next]_vars => KeptInv'
<1> SUFFICES ASSUME Inv, KeptInv, [Next]_vars PROVE KeptInv'
  OBVIOUS
<1>1. CASE \E f \in Flows : sendRtpPacket(f)
  BY <1>1, SendKept
<1>2. CASE TimerExpires \/ stop
  <2>1. UNCHANGED confVars /\ UNCHANGED sentVars /\ UNCHANGED <<m_mTxMap, m_mSnMap, rtx>>
    BY <1>2 DEF TimerExpires, stop, rtxVars
  <2> QED BY <2>1, SameKept, SameAnswer DEF KeptInv
<1>3. CASE \E i \in m_mRtxTimers : onRemoveRtpPacketTimeout(i)
  <2>1. PICK x \in m_mRtxTimers : onRemoveRtpPacketTimeout(x)
    BY <1>3
  <2>2. /\ UNCHANGED confVars /\ UNCHANGED sentVars /\ UNCHANGED rtx
        /\ m_mTxMap' = [m_mTxMap EXCEPT ![SN(x)] = None]
        /\ m_mSnMap' \subseteq m_mSnMap
    BY <2>1 DEF onRemoveRtpPacketTimeout, removePacketFromTxBuffer, rtxVars
  <2>3. Forgets
    BY <2>1 DEF Inv, Forgets
  <2>4. \A s \in SNs : m_mTxMap'[s] \in {None, m_mTxMap[s]}
    BY <2>2 DEF Inv, TypeOK
  <2> QED BY <2>2, <2>3, <2>4, SameKept, SameAnswer DEF KeptInv
<1>4. CASE \E sn \in SNs : ack(sn)
  <2>1. UNCHANGED confVars /\ UNCHANGED sentVars /\ UNCHANGED <<m_mTxMap, m_mSnMap, rtx>>
    BY <1>4 DEF ack, rtxVars
  <2> QED BY <2>1, SameKept, SameAnswer DEF KeptInv
<1>5. CASE \E sn \in SNs : handleNack(sn)
  <2>1. PICK sn \in SNs : generateRetransmissionPacket(sn, {})
    BY <1>5 DEF handleNack
  <2> QED BY <2>1, GenerateKept
<1>6. CASE \E f \in Flows, fssn \in SNs : handleNackOfFlow(f, fssn)
  <2>0. PICK f \in Flows, fssn \in SNs : handleNackOfFlow(f, fssn)
    BY <1>6
  <2>1. PICK p \in FoundByLabel(<<f, fssn>>) : generateRetransmissionPacket(p[1], {<<f, fssn>>})
    BY <2>0 DEF handleNackOfFlow
  <2>2. p \in m_mSnMap /\ p[2] = <<f, fssn>> /\ p[1] \in SNs /\ p = <<p[1], p[2]>>
    BY <2>1 DEF FoundByLabel, Inv, TypeOK
  <2>3. {<<f, fssn>>} \in SUBSET (Flows \X SNs) /\ <<p[1], <<f, fssn>> >> \in m_mSnMap
    BY <2>2
  <2> QED BY <2>1, <2>2, <2>3, GenerateKept
<1>7. CASE sendRtxPacket
  <2>1. /\ UNCHANGED confVars /\ UNCHANGED sentVars /\ UNCHANGED bufferVars
        /\ rtx # NoRtx /\ rtx' = [rtx EXCEPT !.sent = TRUE] /\ rtx \in Rtxs
    BY <1>7 DEF sendRtxPacket, storePacketForRetransmission, Stores, Inv, TypeOK
  <2>2. /\ rtx'.packet = rtx.packet /\ rtx'.original = rtx.original
        /\ rtx'.outOf = rtx.outOf /\ rtx'.nack = rtx.nack /\ rtx'.asked = rtx.asked
    BY <2>1 DEF Rtxs
  <2>3. AnswersOthers'
    BY <2>1, <2>2 DEF KeptInv, AnswersOthers, confVars, sentVars, Forgets, First, Packets, SN,
                      Label, FSSN
  <2> QED BY <2>1, <2>3, SameKept DEF KeptInv, bufferVars
<1>8. CASE processRetransmission \/ loseRtx
  <2>1. /\ UNCHANGED confVars /\ UNCHANGED sentVars /\ UNCHANGED bufferVars /\ rtx' = NoRtx
    BY <1>8 DEF processRetransmission, loseRtx
  <2>2. AnswersOthers'
    BY <2>1 DEF AnswersOthers, NoRtx
  <2> QED BY <2>1, <2>2, SameKept DEF KeptInv, bufferVars
<1>9. CASE UNCHANGED vars
  <2>1. /\ UNCHANGED confVars /\ UNCHANGED sentVars /\ UNCHANGED bufferVars /\ UNCHANGED rtx
    BY <1>9 DEF vars, rtxVars
  <2> QED BY <2>1, SameKept, SameAnswer DEF KeptInv, bufferVars
<1> QED BY <1>1, <1>2, <1>3, <1>4, <1>5, <1>6, <1>7, <1>8, <1>9 DEF Next

(***************************************************************************)
(* The theorems.                                                           *)
(***************************************************************************)
\* Counted, Ring, Held, Paths and Asked hold in every state.
THEOREM Invariance == Spec => []Inv
BY InitInv, StepInv, PTL DEF Spec

LEMMA KeptInvariance == Spec => [](Inv /\ KeptInv)
<1>1. Init => KeptInv
  <2> SUFFICES ASSUME Init PROVE KeptInv
    OBVIOUS
  <2>1. Packets = {} /\ m_mSnMap = {} /\ rtx = NoRtx /\ \A sn \in SNs : m_mTxMap[sn] = None
    <3>1. sent = <<>> /\ Len(sent) = 0
      BY DEF Init
    <3> QED BY <3>1 DEF Init, Packets
  <2> QED BY <2>1 DEF Init, KeptInv, Numbered, Labelled, KeepsAll, AnswersOthers
<1> QED BY <1>1, KeptStep, Invariance, PTL DEF Spec

\* The retransmission buffer keeps its type: the ring keeps to its capacity and
\* the tables to packets that were sent.
THEOREM TypeCorrect == Spec => []TypeOK
<1>1. Inv => TypeOK
  BY DEF Inv
<1> QED BY <1>1, Invariance, PTL

\* With the ring or with timers, an entry is the last packet sent with its
\* number, for any number of wraps.
THEOREM NewestWithNumberAlways == Spec => []NewestWithNumber
<1>1. Inv => NewestWithNumber
  <2>1. SUFFICES ASSUME Inv, Forgets, NEW sn \in SNs, m_mTxMap[sn] # None
                 PROVE  Newest(sn, m_mTxMap[sn], Len(sent))
    BY DEF NewestWithNumber
  <2>2. PICK i : i = m_mTxMap[sn]
    OBVIOUS
  <2>3. i \in Retained /\ SN(i) = sn /\ Len(sent) - i < SeqMod /\ TypeOK
    BY <2>1, <2>2 DEF Inv, Held
  <2>4. i \in 1 .. Len(sent) /\ i \in Nat /\ 1 <= i /\ Len(sent) \in Nat /\ SeqMod \in Nat
    BY <2>3, RetainedSent, RetransmissionAssumption DEF Packets
  <2>5. ASSUME NEW j \in i + 1 .. Len(sent)
        PROVE  SN(j) # sn
    <3>1. j \in Nat /\ i < j /\ j - i < SeqMod /\ first \in SNs
      BY <2>3, <2>4, <2>5 DEF TypeOK
    <3> QED BY <2>3, <2>4, <3>1, SNDistinct
  <2> QED BY <2>2, <2>3, <2>4, <2>5 DEF Newest
<1> QED BY <1>1, Invariance, PTL

\* The ring holds the last Capacity packets but for a first one with number 0,
\* the timed buffer those whose timer has not run out, and nothing else.
THEOREM RetainedIsHeldAlways == Spec => []RetainedIsHeld
<1>1. Inv => RetainedIsHeld
  <2>1. SUFFICES ASSUME Inv, Forgets
                 PROVE  {m_mTxMap[sn] : sn \in SNs} \ {None} = Retained
    BY DEF RetainedIsHeld
  <2>2. Held /\ TypeOK
    BY <2>1 DEF Inv
  <2>3. \A i \in Retained : i # None /\ SN(i) \in SNs /\ m_mTxMap[SN(i)] = i
    <3>1. first \in SNs /\ \A i \in Retained : i \in Nat /\ 1 <= i /\ i # None
      BY <2>2, RetainedSent DEF TypeOK, None
    <3> QED BY <2>2, <3>1, SNType DEF Held
  <2>4. \A sn \in SNs : m_mTxMap[sn] # None => m_mTxMap[sn] \in Retained
    BY <2>2 DEF Held
  <2> QED BY <2>3, <2>4
<1> QED BY <1>1, Invariance, PTL

\* When m_bIsMpRtpSession happens to be true the labels are those of the
\* packets retained, for any number of flows.
THEOREM PathMapFollowsAlways == Spec => []PathMapFollows
<1>1. Inv => PathMapFollows
  BY DEF Inv, Paths, PathMapFollows
<1> QED BY <1>1, Invariance, PTL

\* ACK_MODE holds the first packet with each number that was used.
THEOREM HoldsFirstAlways == Spec => []HoldsFirst
<1>1. Inv /\ KeptInv => HoldsFirst
  BY FirstHeld DEF KeptInv, KeepsAll, HoldsFirst
<1> QED BY <1>1, KeptInvariance, PTL

\* A NACK is answered with a packet that has its number: the newest one with the ring or
\* with timers, the oldest one in ACK_MODE; and with the label asked for in the first
\* cycle of sequence numbers, and later as long as labels are removed.
THEOREM AnswersNackAlways == Spec => []AnswersNack
<1>1. Inv /\ KeptInv => AnswersNack
  BY DEF Inv, AnswersForgetting, KeptInv, AnswersOthers, AnswersNack
<1> QED BY <1>1, KeptInvariance, PTL

\* The buffer is exact for any modulus, capacity, number of packets and flows.
THEOREM BufferExactAlways == Spec => []BufferExact
BY NewestWithNumberAlways, RetainedIsHeldAlways, PathMapFollowsAlways, HoldsFirstAlways, PTL
   DEF BufferExact

=============================================================================
