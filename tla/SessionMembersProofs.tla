------------------------ MODULE SessionMembersProofs ------------------------
(***************************************************************************)
(* Proofs about the entries of the session database, for every modulus of  *)
(* the sequence numbers and every limit on gaps and reordering that the    *)
(* constants allow.                                                        *)
(***************************************************************************)
EXTENDS SessionMembers, FiniteSetTheorems, TLAPS

(***************************************************************************)
(* Sequence numbers.                                                       *)
(***************************************************************************)
LEMMA SNType ==
  ASSUME NEW n \in Nat
  PROVE  SN(n) \in 0 .. SeqMod - 1
BY MembersAssumption DEF SN

\* Two numbers less than a cycle apart differ by as much as their sequence
\* numbers, or by a cycle more.
LEMMA SNDifference ==
  ASSUME NEW n \in Nat, NEW h \in Nat, 0 <= n - h, n - h < SeqMod
  PROVE  n - h = IF SN(n) >= SN(h) THEN SN(n) - SN(h) ELSE SN(n) - SN(h) + SeqMod
<1> DEFINE M == SeqMod
           q == n \div M
           p == h \div M
<1>1. M \in Nat /\ M > 0
  BY MembersAssumption
<1>2. n = M * q + SN(n) /\ h = M * p + SN(h) /\ q \in Int /\ p \in Int
  BY <1>1 DEF SN
<1>3. SN(n) \in 0 .. M - 1 /\ SN(h) \in 0 .. M - 1
  BY SNType
<1> HIDE DEF q, p
<1>4. n - h = M * (q - p) + (SN(n) - SN(h))
  BY <1>1, <1>2, <1>3
<1>5. DEFINE k == q - p
<1>6. k \in Int /\ n - h = M * k + (SN(n) - SN(h))
  BY <1>2, <1>4
<1> HIDE DEF k
<1>7. CASE k >= 2
  <2>1. M * k >= M * 2
    BY <1>1, <1>6, <1>7
  <2> QED BY <1>1, <1>3, <1>6, <2>1
<1>8. CASE k <= -1
  <2>1. M * k <= M * (-1)
    BY <1>1, <1>6, <1>8
  <2> QED BY <1>1, <1>3, <1>6, <2>1
<1>9. CASE k = 0
  <2>1. M * k = 0
    BY <1>1, <1>9
  <2> QED BY <1>1, <1>3, <1>6, <2>1
<1>10. CASE k = 1
  <2>1. M * k = M
    BY <1>1, <1>10
  <2> QED BY <1>1, <1>3, <1>6, <2>1
<1> QED BY <1>6, <1>7, <1>8, <1>9, <1>10

\* The remainder of a number between -W and W: the number itself, or W more than it.
LEMMA ModSmall ==
  ASSUME NEW W \in Nat \ {0}, NEW x \in Int, -W < x, x < W
  PROVE  x % W = IF x >= 0 THEN x ELSE x + W
<1> DEFINE q == x \div W
<1>1. W \in Nat /\ W > 0
  OBVIOUS
<1>2. x = W * q + (x % W) /\ q \in Int /\ x % W \in 0 .. W - 1
  BY <1>1
<1> HIDE DEF q
<1>3. CASE q >= 1
  <2>1. W * q >= W
    BY <1>1, <1>2, <1>3
  <2> QED BY <1>1, <1>2, <2>1
<1>4. CASE q <= -2
  <2>1. W * q <= W * (-2)
    BY <1>1, <1>2, <1>4
  <2> QED BY <1>1, <1>2, <2>1
<1>5. CASE q = 0
  <2>1. W * q = 0
    BY <1>1, <1>5
  <2> QED BY <1>1, <1>2, <2>1
<1>6. CASE q = -1
  <2>1. W * q = -W
    BY <1>1, <1>6
  <2> QED BY <1>1, <1>2, <2>1
<1> QED BY <1>2, <1>3, <1>4, <1>5, <1>6

\* A number below Word is its own 32-bit value, and a small negative number
\* is Word less than it.
LEMMA WordSmall ==
  ASSUME NEW x \in Int, -Word < x, x < Word
  PROVE  x % Word = IF x >= 0 THEN x ELSE x + Word
<1>1. Word \in Nat \ {0}
  BY MembersAssumption
<1> QED BY <1>1, ModSmall

\* The place of a packet of the window, from the difference that the code
\* computes when max_seq stands for the packet high.
LEMMA UdeltaWindow ==
  ASSUME TypeOK, NEW n \in Window, NEW m \in Entries, m.max_seq = SN(high)
  PROVE  /\ n >= high => /\ udelta(m, SN(n)) = n - high
                         /\ n - high = IF SN(n) >= SN(high) THEN SN(n) - SN(high)
                                       ELSE SN(n) - SN(high) + SeqMod
         /\ n < high => /\ udelta(m, SN(n)) = SeqMod - (high - n)
                        /\ high - n = IF SN(high) >= SN(n) THEN SN(high) - SN(n)
                                      ELSE SN(high) - SN(n) + SeqMod
         /\ high - n <= Behind /\ n - high <= Ahead
<1>1. /\ n \in Nat /\ high \in Nat /\ high - n <= Behind /\ n - high <= Ahead
      /\ Behind < SeqMod /\ Ahead < SeqMod /\ SeqMod \in Nat
  BY MembersAssumption DEF TypeOK, Window
<1>2. SN(n) \in 0 .. SeqMod - 1 /\ SN(high) \in 0 .. SeqMod - 1
  BY <1>1, SNType
<1>3. ASSUME n >= high
      PROVE  n - high = IF SN(n) >= SN(high) THEN SN(n) - SN(high)
                        ELSE SN(n) - SN(high) + SeqMod
  <2>1. 0 <= n - high /\ n - high < SeqMod
    BY <1>1, <1>3, MembersAssumption
  <2> QED BY <1>1, <2>1, SNDifference
<1>4. ASSUME n < high
      PROVE  high - n = IF SN(high) >= SN(n) THEN SN(high) - SN(n)
                        ELSE SN(high) - SN(n) + SeqMod
  <2>1. 0 <= high - n /\ high - n < SeqMod
    BY <1>1, <1>4, MembersAssumption
  <2> QED BY <1>1, <2>1, SNDifference
<1> QED BY <1>1, <1>2, <1>3, <1>4 DEF udelta

\* In the window only the next packet is in sequence.
LEMMA InSequenceIsNext ==
  ASSUME TypeOK, NEW n \in Window, NEW m \in Entries, m.max_seq = SN(high)
  PROVE  /\ InSequence(m, SN(n)) => n = high + 1 /\ SN(n) = SN(high) + 1
         /\ ~InSequence(m, SN(n)) /\ n = high + 1 => SN(n) = 0
<1>1. /\ n \in Nat /\ high \in Nat /\ SeqMod \in Nat /\ SeqMod > 1
      /\ Behind + 1 < SeqMod /\ Ahead < SeqMod /\ Behind \in Nat /\ Ahead \in Nat
  BY MembersAssumption DEF TypeOK, Window
<1>2. SN(n) \in 0 .. SeqMod - 1 /\ SN(high) \in 0 .. SeqMod - 1
  BY <1>1, SNType
<1> QED BY <1>1, <1>2, UdeltaWindow DEF InSequence

(***************************************************************************)
(* Types.                                                                  *)
(***************************************************************************)
LEMMA InitSeqType ==
  ASSUME NEW m \in Entries, NEW seq \in 0 .. SeqMod - 1
  PROVE  init_seq(m, seq) \in Entries
<1>1. SeqMod + 1 \in 0 .. SeqMod + 1 /\ 0 \in Nat /\ 0 \in 0 .. MaxReceived /\ 0 \in 0 .. Word - 1
  BY MembersAssumption
<1> QED BY <1>1, Zenon DEF init_seq, Entries

LEMMA InitSequenceType ==
  ASSUME NEW m \in Entries, NEW seq \in 0 .. SeqMod - 1
  PROVE  initSequence(m, seq) \in Entries
<1>1. MinSequential \in 0 .. MinSequential
      /\ (IF seq = 0 THEN SeqMod - 1 ELSE seq - 1) \in 0 .. SeqMod - 1
  BY MembersAssumption
<1>2. init_seq(m, seq) \in Entries
  BY InitSeqType
<1> QED BY <1>1, <1>2, Zenon DEF initSequence, Entries

LEMMA FreshType == MemberEntry \in Entries
<1>1. /\ MinSequential \in 0 .. MinSequential /\ 0 \in 0 .. SeqMod - 1 /\ 0 \in Nat
      /\ 0 \in 0 .. SeqMod + 1 /\ 0 \in 0 .. MaxReceived /\ 0 \in 0 .. Word - 1
      /\ Never \in 0 .. Never /\ 0 \in 0 .. ByeTimeout
  BY MembersAssumption DEF Never
<1> QED BY <1>1, Zenon DEF MemberEntry, Entries

\* The entry that update_seq is called on.
Ready(n) == Heard(processParticipant(SN(n)))

LEMMA ReadyEntry ==
  ASSUME TypeOK, NEW n \in Window
  PROVE  /\ Ready(n) \in Entries /\ Ready(n).m_bInit
         /\ e.m_bInit => /\ Ready(n).m_uiProbation = e.m_uiProbation
                         /\ Ready(n).max_seq = e.max_seq /\ Ready(n).cycles = e.cycles
                         /\ Ready(n).base_seq = e.base_seq
                         /\ Ready(n).bad_seq = e.bad_seq
                         /\ Ready(n).received = e.received
                         /\ Ready(n).expected_prior = e.expected_prior
                         /\ Ready(n).received_prior = e.received_prior
         /\ ~e.m_bInit => /\ Ready(n).m_uiProbation = MinSequential
                          /\ Ready(n).received = 0
<1>1. n \in Nat /\ e \in Entries
  BY DEF Window, TypeOK
<1>2. SN(n) \in 0 .. SeqMod - 1
  BY <1>1, SNType
<1>3. 0 \in 0 .. Never
  BY MembersAssumption DEF Never
<1>4. initSequence(e, SN(n)) \in Entries
  BY <1>1, <1>2, InitSequenceType
<1>5. processParticipant(SN(n)) \in Entries
  BY <1>1, <1>4, Zenon DEF processParticipant
<1>6. Ready(n) \in Entries
  BY <1>3, <1>5, Zenon DEF Ready, Heard, Entries
<1>7. CASE e.m_bInit
  BY <1>1, <1>6, <1>7 DEF Ready, Heard, processParticipant, Entries
<1>8. CASE ~e.m_bInit
  BY <1>1, <1>6, <1>8 DEF Ready, Heard, processParticipant, initSequence, init_seq, Entries
<1> QED BY <1>1, <1>6, <1>7, <1>8 DEF Entries

\* One step of update_seq keeps the types.
LEMMA UpdateType ==
  ASSUME TypeOK, NEW n \in Window, NEW m \in Entries, m.received < MaxReceived,
         update_seq(m, n)
  PROVE  /\ e' \in Entries /\ high' \in 0 .. MaxTrue /\ base' \in 0 .. MaxTrue
         /\ anchored' \in BOOLEAN /\ arrived' \subseteq 0 .. MaxTrue
         /\ run' \in Nat /\ by' \in {"none", "rtp", "sdes"}
         /\ pkt' \in [place : {"none", "highest", "behind", "jumped"}, shift : Int]
<1>1. n \in Nat /\ n \in 0 .. MaxTrue
  BY DEF Window
<1>2. SN(n) \in 0 .. SeqMod - 1 /\ SN(n) \in Int
  BY <1>1, SNType, MembersAssumption
<1>3. SeqMod \in Nat /\ MinSequential \in Nat /\ MinSequential >= 2 /\ MaxReceived \in Nat
      /\ SeqMod > 0 /\ 1 < Word
  BY MembersAssumption
<1>4. /\ m.m_uiProbation \in 0 .. MinSequential /\ m.received \in 0 .. MaxReceived
      /\ m.cycles \in Nat
  BY Zenon DEF Entries
<1>5. /\ 0 \in 0 .. MinSequential /\ 1 \in 0 .. MaxReceived
      /\ MinSequential - 1 \in 0 .. MinSequential
      /\ m.received + 1 \in 0 .. MaxReceived
      /\ (SN(n) + 1) % SeqMod \in 0 .. SeqMod + 1
      /\ (IF SN(n) < m.max_seq THEN m.cycles + SeqMod ELSE m.cycles) \in Nat
  BY <1>2, <1>3, <1>4
<1>6. init_seq(m, SN(n)) \in Entries
  BY <1>2, InitSeqType
<1>7. Counted(n) \subseteq 0 .. MaxTrue
  BY <1>1 DEF Counted, TypeOK
<1>8. ASSUME NEW x \in Entries, NEW place \in {"highest", "behind", "jumped"}
      PROVE  /\ Label(x, n, place)
                  \in [place : {"none", "highest", "behind", "jumped"}, shift : Int]
             /\ Labelled(x, n, place)
                  \in [place : {"none", "highest", "behind", "jumped"}, shift : Int]
  <2>1. x.cycles \in Nat
    BY Zenon DEF Entries
  <2>2. x.cycles + SN(n) - n \in Int
    BY <1>1, <1>2, <2>1
  <2> QED BY <2>2, Zenon DEF Label, Labelled, TypeOK
<1>9. (IF run > 0 /\ n = high + 1 THEN run + 1 ELSE 1) \in Nat
  BY DEF TypeOK
<1>10. CASE OutOfSequence(m, n)
  <2>1. e' \in Entries
    BY <1>2, <1>5, <1>10, Zenon DEF OutOfSequence, Entries
  <2> QED BY <1>1, <1>9, <1>10, <2>1, Zenon DEF OutOfSequence, TypeOK
<1>11. CASE Sequential(m, n)
  <2>1. m.m_uiProbation - 1 \in 0 .. MinSequential
    BY <1>4, <1>3, <1>11 DEF Sequential
  <2>2. e' \in Entries
    BY <1>2, <1>11, <2>1, Zenon DEF Sequential, Entries
  <2> QED BY <1>1, <1>9, <1>11, <2>2, Zenon DEF Sequential, TypeOK
<1>12. CASE Validated(m, n)
  <2>1. e' \in Entries
    BY <1>5, <1>6, <1>12, Zenon DEF Validated, Entries
  <2> QED BY <1>1, <1>8, <1>9, <1>12, <2>1, Zenon DEF Validated
<1>13. CASE Advanced(m, n)
  <2>1. e' \in Entries
    <3> DEFINE c == IF SN(n) < m.max_seq THEN m.cycles + SeqMod ELSE m.cycles
    <3>1. e' = [m EXCEPT !.cycles = c, !.max_seq = SN(n), !.received = m.received + 1]
      BY <1>13, Zenon DEF Advanced
    <3>2. c \in Nat /\ m.received + 1 \in 0 .. MaxReceived
      BY <1>5
    <3> HIDE DEF c
    <3> QED BY <1>2, <3>1, <3>2, Zenon DEF Entries
  <2> QED BY <1>1, <1>7, <1>8, <1>13, <2>1, Zenon DEF Advanced, TypeOK
<1>14. CASE Resynchronised(m, n)
  <2>1. e' \in Entries
    BY <1>5, <1>6, <1>14, Zenon DEF Resynchronised, Entries
  <2> QED BY <1>1, <1>8, <1>14, <2>1, Zenon DEF Resynchronised, TypeOK
<1>15. CASE Jumped(m, n)
  <2>1. e' \in Entries
    BY <1>5, <1>15, Zenon DEF Jumped, Entries
  <2> QED BY <1>1, <1>8, <1>15, <2>1, Zenon DEF Jumped, TypeOK
<1>16. CASE Reordered(m, n)
  <2>1. e' \in Entries
    BY <1>5, <1>16, Zenon DEF Reordered, Entries
  <2> QED BY <1>1, <1>7, <1>8, <1>16, <2>1, Zenon DEF Reordered, TypeOK
<1> QED BY <1>10, <1>11, <1>12, <1>13, <1>14, <1>15, <1>16 DEF update_seq

LEMMA TypeInit == Init => TypeOK
<1> SUFFICES ASSUME Init
             PROVE  TypeOK
  OBVIOUS
<1>1. high \in 0 .. MaxTrue /\ base \in 0 .. MaxTrue /\ run \in Nat /\ 0 \in Int
  BY MembersAssumption DEF Init
<1> QED BY <1>1, FreshType, Zenon DEF Init, TypeOK, NoPacket

LEMMA TypeStep == TypeOK /\ [Next]_vars => TypeOK'
<1> SUFFICES ASSUME TypeOK, [Next]_vars
             PROVE  TypeOK'
  OBVIOUS
<1>0. /\ e \in Entries /\ 0 \in 0 .. Never /\ 0 \in 0 .. ByeTimeout
      /\ 0 \in 0 .. MinSequential /\ 0 \in 0 .. MaxTrue /\ 0 \in Nat /\ 0 \in Int
  BY MembersAssumption DEF TypeOK, Never
<1>1. ASSUME NEW n \in Window, processIncomingRtpPacket(n)
      PROVE  TypeOK'
  <2>1. /\ Ready(n) \in Entries
        /\ e.m_bInit => Ready(n).received = e.received
        /\ ~e.m_bInit => Ready(n).received = 0
    BY ReadyEntry, Zenon
  <2>2. update_seq(Ready(n), n) /\ inDb' = TRUE /\ quiet' = quiet /\ e.received < MaxReceived
    BY <1>1, Zenon DEF processIncomingRtpPacket, Ready
  <2>3. e.received \in 0 .. MaxReceived
    BY Zenon DEF TypeOK, Entries
  <2>4. Ready(n).received < MaxReceived
    BY <2>1, <2>2, <2>3, MembersAssumption
  <2>5. /\ e' \in Entries /\ high' \in 0 .. MaxTrue /\ base' \in 0 .. MaxTrue
        /\ anchored' \in BOOLEAN /\ arrived' \subseteq 0 .. MaxTrue
        /\ run' \in Nat /\ by' \in {"none", "rtp", "sdes"}
        /\ pkt' \in [place : {"none", "highest", "behind", "jumped"}, shift : Int]
    BY <2>1, <2>2, <2>4, UpdateType
  <2> QED BY <2>2, <2>5, Zenon DEF TypeOK
<1>2. ASSUME NEW seq \in Others, processCsrc(seq)
      PROVE  TypeOK'
  <2>1. seq \in 0 .. SeqMod - 1
    BY MembersAssumption
  <2>2. initSequence(e, seq) \in Entries
    BY <1>0, <2>1, InitSequenceType
  <2>3. e' \in Entries
    BY <1>0, <1>2, <2>2, Zenon DEF processCsrc, processParticipant
  <2> QED BY <1>2, <2>3, Zenon DEF processCsrc, ghost, TypeOK
<1>3. CASE processSenderReport
  <2>1. e' \in Entries
    BY <1>0, <1>3, Zenon DEF processSenderReport, Entries
  <2> QED BY <1>3, <2>1, Zenon DEF processSenderReport, ghost, TypeOK
<1>4. CASE processReceiverReport
  <2>1. e' \in Entries
    BY <1>0, <1>4, Zenon DEF processReceiverReport, Entries
  <2> QED BY <1>4, <2>1, Zenon DEF processReceiverReport, ghost, TypeOK
<1>5. CASE processSdesReportBlocks
  <2>1. e' \in Entries
    BY <1>0, <1>5, Zenon DEF processSdesReportBlocks, Entries
  <2> QED BY <1>5, <2>1, Zenon DEF processSdesReportBlocks, TypeOK
<1>6. CASE processBye
  <2>1. (IF e.m_bInactive THEN e.tInactive ELSE 0) \in 0 .. ByeTimeout
    BY <1>0, Zenon DEF Entries
  <2>2. e' \in Entries
    BY <1>0, <1>6, <2>1, Zenon DEF processBye, Entries
  <2> QED BY <1>6, <2>2, Zenon DEF processBye, ghost, TypeOK
<1>7. CASE onRtcpIntervalTimeout
  <2>1. CASE TimedOut(e, Timeout) \/ isInactiveAndCanBeRemoved(e)
    <3>1. /\ inDb' = FALSE /\ e' = MemberEntry /\ quiet' = quiet /\ high' = high
          /\ base' = 0 /\ anchored' = FALSE /\ arrived' = {} /\ run' = 0 /\ by' = "none"
          /\ pkt' = NoPacket
      BY <1>7, <2>1 DEF onRtcpIntervalTimeout, checkMemberDatabase
    <3> QED BY <1>0, <3>1, FreshType, Zenon DEF TypeOK, NoPacket
  <2>2. CASE ~(TimedOut(e, Timeout) \/ isInactiveAndCanBeRemoved(e))
    <3> DEFINE m == [e EXCEPT !.m_bIsSender = @ /\ ~TimedOut(e, SenderTimeout)]
    <3>1. m \in Entries
      BY <1>0, Zenon DEF Entries
    <3>2. e' = IF m.m_bIsSender THEN getLostFraction(m) ELSE m
      BY <1>7, <2>2 DEF onRtcpIntervalTimeout, checkMemberDatabase
    <3> HIDE DEF m
    <3>3. m.cycles \in Nat /\ m.max_seq \in 0 .. SeqMod - 1 /\ m.base_seq \in 0 .. SeqMod - 1
          /\ m.received \in 0 .. MaxReceived
      BY <3>1, Zenon DEF Entries
    <3>4. Expected(m) \in 0 .. Word - 1
      BY <3>3, MembersAssumption DEF Expected
    <3>5. getLostFraction(m) \in Entries
      BY <3>1, <3>3, <3>4, Zenon DEF getLostFraction, Entries
    <3>6. e' \in Entries
      BY <3>1, <3>2, <3>5, Zenon
    <3>7. UNCHANGED <<inDb, quiet, high, base, anchored, arrived, run, by, pkt>>
      BY <1>7, <2>2 DEF onRtcpIntervalTimeout, checkMemberDatabase, ghost
    <3> QED BY <3>6, <3>7, Zenon DEF TypeOK
  <2> QED BY <2>1, <2>2
<1>8. CASE Tick
  <2>1. e.tLast \in 0 .. Never /\ e.tInactive \in 0 .. ByeTimeout
    BY <1>0, Zenon DEF Entries
  <2>2. /\ (IF e.tLast <= Timeout THEN e.tLast + 1 ELSE e.tLast) \in 0 .. Never
        /\ (IF e.m_bInactive /\ e.tInactive < ByeTimeout THEN e.tInactive + 1
            ELSE e.tInactive) \in 0 .. ByeTimeout
    BY <2>1, MembersAssumption DEF Never
  <2>3. e' \in Entries
    BY <1>0, <1>8, <2>2, Zenon DEF Tick, Entries
  <2> QED BY <1>8, <2>3, Zenon DEF Tick, ghost, TypeOK
<1>9. CASE Leave
  BY <1>9, Zenon DEF Leave, ghost, TypeOK
<1>10. CASE UNCHANGED vars
  BY <1>10, Zenon DEF vars, TypeOK
<1> QED BY <1>1, <1>2, <1>3, <1>4, <1>5, <1>6, <1>7, <1>8, <1>9, <1>10 DEF Next

\* Sequence numbers stay below RTP_SEQ_MOD and the counters in their widths,
\* in every session.
THEOREM TypeCorrect == Spec => []TypeOK
BY TypeInit, TypeStep, PTL DEF Spec

(***************************************************************************)
(* The inductive invariant.                                                *)
(***************************************************************************)
\* Once anchored, max_seq stands for high, cycles is the rest of the way from
\* base, and the counted packets are all in received.
Anchored ==
  anchored =>
    /\ e.m_bInit /\ e.m_uiProbation = 0
    /\ e.max_seq = SN(high) /\ base <= high
    /\ e.cycles + e.max_seq - e.base_seq = high - base
    /\ Cardinality(arrived) <= e.received

\* In probation a run of packets has brought m_uiProbation down by one each,
\* or since sequence number 0 if that was later.
Probation ==
  /\ ~e.m_bInit => run = 0 /\ e.received = 0
  /\ e.m_uiProbation > 0 /\ run = 0 => e.m_uiProbation = MinSequential
  /\ e.m_uiProbation > 0 /\ run > 0 =>
       /\ e.max_seq = SN(high)
       /\ run <= SN(high) + 1 => e.m_uiProbation = MinSequential - run
       /\ run > SN(high) + 1 => e.m_uiProbation = MinSequential - (SN(high) + 1)

SeqInv == Anchored /\ Probation /\ FractionFits /\ ValidOnlyAfterSequence /\ ExtendedNumber

\* What is expected is the distance from the first packet to the highest.
LEMMA ExpectedIsDistance ==
  ASSUME NEW m, NEW h \in 0 .. MaxTrue, NEW b \in 0 .. MaxTrue, b <= h,
         m.cycles + m.max_seq - m.base_seq = h - b,
         m.cycles \in Nat, m.max_seq \in Nat, m.base_seq \in Nat
  PROVE  Expected(m) = h - b + 1
<1>1. m.cycles + m.max_seq - m.base_seq + 1 = h - b + 1
  BY MembersAssumption
<1>2. h - b + 1 \in Int /\ -Word < h - b + 1 /\ h - b + 1 < Word /\ h - b + 1 >= 0
  BY MembersAssumption
<1> HIDE DEF Expected
<1> QED BY <1>1, <1>2, WordSmall DEF Expected

LEMMA EntryFields ==
  ASSUME NEW m \in Entries
  PROVE  /\ m.m_bInit \in BOOLEAN /\ m.m_uiProbation \in 0 .. MinSequential
         /\ m.max_seq \in 0 .. SeqMod - 1 /\ m.cycles \in Nat
         /\ m.base_seq \in 0 .. SeqMod - 1 /\ m.bad_seq \in 0 .. SeqMod + 1
         /\ m.received \in 0 .. MaxReceived /\ m.expected_prior \in 0 .. Word - 1
         /\ m.received_prior \in 0 .. MaxReceived
BY Zenon DEF Entries

\* A step that leaves alone what SeqInv is about, in the entry and outside.
LEMMA FrameStep ==
  ASSUME SeqInv, UNCHANGED ghost,
         e'.m_bInit = e.m_bInit, e'.m_uiProbation = e.m_uiProbation,
         e'.max_seq = e.max_seq, e'.cycles = e.cycles, e'.base_seq = e.base_seq,
         e'.received = e.received, e'.expected_prior = e.expected_prior,
         e'.received_prior = e.received_prior
  PROVE  SeqInv'
<1>1. Anchored'
  BY DEF SeqInv, Anchored, ghost
<1>2. Probation'
  BY DEF SeqInv, Probation, ghost
<1>3. FractionFits'
  BY DEF SeqInv, FractionFits, Expected, ghost
<1>4. ValidOnlyAfterSequence' /\ ExtendedNumber'
  BY DEF SeqInv, ValidOnlyAfterSequence, ExtendedNumber, ghost
<1> QED BY <1>1, <1>2, <1>3, <1>4 DEF SeqInv

\* A packet that starts a new count: it is the first and the highest.
LEMMA StartStep ==
  ASSUME TypeOK, SeqInv, TypeOK', NEW n \in Window,
         high' = n, base' = n, anchored', arrived' = {n}, pkt' = Label(e', n, "highest"),
         e'.m_bInit, e'.m_uiProbation = 0, e'.max_seq = SN(n), e'.base_seq = SN(n),
         e'.cycles = 0, e'.received = 1, e'.expected_prior = 0, e'.received_prior = 0,
         ValidOnlyAfterSequence'
  PROVE  SeqInv'
<1>1. n \in Nat /\ n \in 0 .. MaxTrue
  BY MembersAssumption DEF Window
<1>2. SN(n) \in Nat
  BY <1>1, SNType, MembersAssumption
<1>3. Cardinality({n}) = 1
  BY FS_Singleton
<1>4. Anchored'
  BY <1>1, <1>2, <1>3 DEF Anchored
<1>5. Probation'
  BY DEF Probation
<1>6. (e').cycles + (e').max_seq - (e').base_seq = n - n /\ n <= n
  BY <1>1, <1>2
<1>7. Expected(e') = n - n + 1
  BY <1>1, <1>2, <1>6, ExpectedIsDistance
<1>8. FractionFits'
  BY <1>1, <1>7 DEF FractionFits, Expected
<1>9. ExtendedNumber'
  BY <1>1, <1>2 DEF ExtendedNumber, Label
<1> QED BY <1>4, <1>5, <1>8, <1>9 DEF SeqInv

\* A packet that adds to the count of an anchored entry.
LEMMA CountStep ==
  ASSUME TypeOK, SeqInv, TypeOK', NEW n \in Window, anchored,
         high' \in {high, n}, high' >= high, base' = base, anchored' = anchored,
         arrived' = arrived \cup {n}, run' = run, by' = by,
         e'.m_bInit, e'.m_uiProbation = 0, e'.max_seq = SN(high'),
         e'.base_seq = e.base_seq, e'.cycles + e'.max_seq - e'.base_seq = high' - base,
         e'.received = e.received + 1, e'.expected_prior = e.expected_prior,
         e'.received_prior = e.received_prior
  PROVE  Anchored' /\ Probation' /\ FractionFits' /\ ValidOnlyAfterSequence'
<1>1. /\ n \in 0 .. MaxTrue /\ high \in 0 .. MaxTrue /\ base \in 0 .. MaxTrue
      /\ high' \in 0 .. MaxTrue /\ base <= high /\ MaxTrue \in Nat
      /\ arrived \in SUBSET (0 .. MaxTrue) /\ Cardinality(arrived) <= e.received
  BY MembersAssumption DEF Window, TypeOK, SeqInv, Anchored
<1>2. e \in Entries /\ e' \in Entries
  BY DEF TypeOK
<1>3. /\ e.received \in Nat /\ e.cycles \in Nat /\ e.max_seq \in Nat /\ e.base_seq \in Nat
      /\ e.expected_prior \in Nat /\ e.received_prior \in Nat
  BY <1>2, EntryFields, MembersAssumption
<1>4. (e').cycles \in Nat /\ (e').max_seq \in Nat /\ (e').base_seq \in Nat
  BY <1>2, EntryFields, MembersAssumption
<1>5. IsFiniteSet(arrived)
  <2>1. IsFiniteSet(0 .. MaxTrue)
    BY <1>1, FS_Interval
  <2> QED BY <1>1, <2>1, FS_Subset
<1>6. Cardinality(arrived) \in Nat /\ Cardinality(arrived \cup {n}) <= Cardinality(arrived) + 1
  <2>1. Cardinality(arrived) \in Nat
    BY <1>5, FS_CardinalityType
  <2>2. Cardinality(arrived \cup {n}) = IF n \in arrived THEN Cardinality(arrived)
                                       ELSE Cardinality(arrived) + 1
    BY <1>5, FS_AddElement
  <2> QED BY <2>1, <2>2
<1>7. Cardinality(arrived \cup {n}) \in Nat
  BY <1>5, FS_CardinalityType, FS_AddElement
<1>8. Anchored'
  BY <1>1, <1>3, <1>6, <1>7 DEF Anchored
<1>9. Expected(e) = high - base + 1
  <2>1. e.cycles + e.max_seq - e.base_seq = high - base
    BY DEF SeqInv, Anchored
  <2> QED BY <1>1, <1>3, <2>1, ExpectedIsDistance
<1>10. Expected(e') = high' - base + 1
  <2>1. base <= high'
    BY <1>1
  <2> QED BY <1>1, <1>4, <2>1, ExpectedIsDistance
<1>11. FractionFits'
  <2>1. e.expected_prior <= Expected(e) /\ e.received_prior <= e.received
    BY DEF SeqInv, FractionFits
  <2>2. e.expected_prior <= Expected(e') /\ e.received_prior < e.received + 1
    BY <1>1, <1>3, <1>9, <1>10, <2>1
  <2> QED BY <1>3, <2>2 DEF FractionFits, Expected
<1>12. Probation' /\ ValidOnlyAfterSequence'
  BY DEF SeqInv, Probation, ValidOnlyAfterSequence
<1> QED BY <1>8, <1>11, <1>12

\* A packet, in each branch of update_seq.
LEMMA PacketStep ==
  ASSUME TypeOK, SeqInv, TypeOK', NEW n \in Window, processIncomingRtpPacket(n)
  PROVE  SeqInv'
<1> DEFINE m == Ready(n)
<1>1. /\ n \in Nat /\ n \in 0 .. MaxTrue /\ high \in Nat /\ base \in Nat
      /\ run \in Nat /\ e \in Entries /\ e' \in Entries
  BY MembersAssumption DEF Window, TypeOK
<1>2. SN(n) \in 0 .. SeqMod - 1 /\ SN(high) \in 0 .. SeqMod - 1
  BY <1>1, SNType
<1>3. /\ m \in Entries /\ m.m_bInit
      /\ e.m_bInit => /\ m.m_uiProbation = e.m_uiProbation
                      /\ m.max_seq = e.max_seq /\ m.cycles = e.cycles
                      /\ m.base_seq = e.base_seq /\ m.received = e.received
                      /\ m.expected_prior = e.expected_prior
                      /\ m.received_prior = e.received_prior
      /\ ~e.m_bInit => m.m_uiProbation = MinSequential
  BY ReadyEntry, Zenon
<1>4. update_seq(m, n)
  BY DEF processIncomingRtpPacket, Ready
<1> HIDE DEF m
<1>5. /\ m.m_uiProbation \in Nat /\ m.max_seq \in Nat /\ m.cycles \in Nat
      /\ m.base_seq \in Nat /\ m.received \in Nat
      /\ m.expected_prior \in Nat /\ m.received_prior \in Nat
  BY <1>3, EntryFields, MembersAssumption
<1>6. MinSequential \in Nat /\ MinSequential >= 2 /\ SeqMod \in Nat /\ MinSequential < SeqMod
  BY MembersAssumption
<1>7. m.m_uiProbation = 0 => e.m_bInit
  BY <1>3, <1>6
<1>8. m.m_uiProbation > 0 => ~anchored
  BY <1>3, <1>5 DEF SeqInv, Anchored
<1>9. m.m_uiProbation > 0 =>
        /\ run = 0 => m.m_uiProbation = MinSequential
        /\ run > 0 => /\ m.max_seq = SN(high)
                      /\ run <= SN(high) + 1 => m.m_uiProbation = MinSequential - run
                      /\ run > SN(high) + 1
                           => m.m_uiProbation = MinSequential - (SN(high) + 1)
  BY <1>1, <1>3 DEF SeqInv, Probation
<1>10. m.m_uiProbation > 0 /\ run > 0 =>
         /\ InSequence(m, SN(n)) => n = high + 1 /\ SN(n) = SN(high) + 1
         /\ ~InSequence(m, SN(n)) /\ n = high + 1 => SN(n) = 0
  BY <1>3, <1>9, InSequenceIsNext
<1>11. CASE OutOfSequence(m, n)
  <2>1. /\ (e').m_uiProbation = MinSequential - 1 /\ (e').max_seq = SN(n) /\ (e').m_bInit
        /\ high' = n /\ by' = "none" /\ anchored' = anchored
        /\ run' = IF run > 0 /\ n = high + 1 THEN run + 1 ELSE 1
    BY <1>3, <1>11 DEF OutOfSequence, Entries
  <2>2. ~anchored'
    BY <1>8, <1>11, <2>1 DEF OutOfSequence
  <2>3. run > 0 /\ n = high + 1 => SN(n) = 0
    BY <1>10, <1>11 DEF OutOfSequence
  <2>4. Probation'
    BY <1>1, <1>2, <1>6, <2>1, <2>3 DEF Probation
  <2> QED BY <2>1, <2>2, <2>4
          DEF SeqInv, Anchored, FractionFits, ValidOnlyAfterSequence, ExtendedNumber
<1>12. CASE Sequential(m, n)
  <2>1. /\ (e').m_uiProbation = m.m_uiProbation - 1 /\ (e').max_seq = SN(n) /\ (e').m_bInit
        /\ high' = n /\ by' = "none" /\ anchored' = anchored
        /\ run' = IF run > 0 /\ n = high + 1 THEN run + 1 ELSE 1
    BY <1>3, <1>12 DEF Sequential, Entries
  <2>2. m.m_uiProbation > 0 /\ InSequence(m, SN(n))
    BY <1>5, <1>12 DEF Sequential
  <2>3. ~anchored'
    BY <1>8, <2>1, <2>2
  <2>4. Probation'
    BY <1>1, <1>2, <1>5, <1>6, <1>9, <1>10, <2>1, <2>2 DEF Probation
  <2> QED BY <2>1, <2>3, <2>4
          DEF SeqInv, Anchored, FractionFits, ValidOnlyAfterSequence, ExtendedNumber
<1>13. CASE Validated(m, n)
  <2>1. /\ (e').m_bInit /\ (e').m_uiProbation = 0 /\ (e').max_seq = SN(n)
        /\ (e').base_seq = SN(n) /\ (e').cycles = 0 /\ (e').received = 1
        /\ (e').expected_prior = 0 /\ (e').received_prior = 0
    BY <1>3, <1>13 DEF Validated, init_seq, Entries
  <2>2. /\ high' = n /\ base' = n /\ anchored' /\ arrived' = {n} /\ by' = "rtp"
        /\ pkt' = Label(e', n, "highest")
        /\ run' = IF run > 0 /\ n = high + 1 THEN run + 1 ELSE 1
        /\ m.m_uiProbation = 1 /\ InSequence(m, SN(n))
    BY <1>13 DEF Validated
  <2>3. run > 0 /\ n = high + 1
    BY <1>1, <1>6, <1>9, <1>10, <2>2
  <2>4. run' >= MinSequential
    BY <1>1, <1>2, <1>6, <1>9, <2>2, <2>3
  <2>5. ValidOnlyAfterSequence'
    BY <2>4 DEF ValidOnlyAfterSequence
  <2> QED BY <2>1, <2>2, <2>5, StartStep
<1>14. CASE Advanced(m, n)
  <2>1. /\ (e').m_bInit /\ (e').m_uiProbation = 0 /\ (e').max_seq = SN(n)
        /\ (e').base_seq = m.base_seq /\ (e').received = m.received + 1
        /\ (e').cycles = IF SN(n) < m.max_seq THEN m.cycles + SeqMod ELSE m.cycles
        /\ (e').expected_prior = m.expected_prior /\ (e').received_prior = m.received_prior
    BY <1>3, <1>14 DEF Advanced, Entries
  <2>2. /\ m.m_uiProbation = 0 /\ udelta(m, SN(n)) < MaxDropout
        /\ high' = n /\ base' = base /\ anchored' = anchored /\ run' = run /\ by' = by
        /\ arrived' = Counted(n) /\ pkt' = Labelled(e', n, "highest")
    BY <1>14 DEF Advanced
  <2>3. CASE ~anchored
    BY <2>1, <2>2, <2>3
       DEF SeqInv, Anchored, Probation, FractionFits, ValidOnlyAfterSequence, ExtendedNumber
  <2>4. CASE anchored
    <3>1. m.max_seq = SN(high) /\ m.cycles + m.max_seq - m.base_seq = high - base
      BY <1>3, <1>7, <2>2, <2>4 DEF SeqInv, Anchored
    <3>2. n >= high /\ n - high = IF SN(n) >= SN(high) THEN SN(n) - SN(high)
                                  ELSE SN(n) - SN(high) + SeqMod
      BY <1>1, <1>3, <2>2, <3>1, UdeltaWindow, MembersAssumption
    <3>3. (e').cycles + (e').max_seq - (e').base_seq = n - base
      BY <1>1, <1>2, <1>5, <1>6, <2>1, <3>1, <3>2
    <3>4. Anchored' /\ Probation' /\ FractionFits' /\ ValidOnlyAfterSequence'
      BY <1>3, <1>7, <2>1, <2>2, <2>4, <3>2, <3>3, CountStep DEF Counted
    <3>5. pkt'.place = "highest" /\ pkt'.shift = (e').cycles + SN(n) - n
      BY <2>2, <2>4 DEF Labelled, Label
    <3>6. (e').cycles + SN(n) - n = (e').base_seq - base'
      BY <1>1, <1>2, <1>5, <1>6, <2>1, <2>2, <3>3
    <3> QED BY <3>4, <3>5, <3>6 DEF SeqInv, ExtendedNumber
  <2> QED BY <2>3, <2>4
<1>15. CASE Resynchronised(m, n)
  <2>1. /\ (e').m_bInit /\ (e').m_uiProbation = 0 /\ (e').max_seq = SN(n)
        /\ (e').base_seq = SN(n) /\ (e').cycles = 0 /\ (e').received = 1
        /\ (e').expected_prior = 0 /\ (e').received_prior = 0
    BY <1>3, <1>15 DEF Resynchronised, Jump, init_seq, Entries
  <2>2. /\ high' = n /\ base' = n /\ anchored' /\ arrived' = {n} /\ by' = by /\ run' = run
        /\ pkt' = Label(e', n, "highest")
    BY <1>15 DEF Resynchronised
  <2>3. ValidOnlyAfterSequence'
    BY <2>2 DEF SeqInv, ValidOnlyAfterSequence
  <2> QED BY <2>1, <2>2, <2>3, StartStep
<1>16. CASE Jumped(m, n)
  <2>1. /\ (e').m_bInit /\ (e').m_uiProbation = 0 /\ (e').max_seq = m.max_seq
        /\ (e').base_seq = m.base_seq /\ (e').received = m.received
        /\ (e').cycles = m.cycles
        /\ (e').expected_prior = m.expected_prior /\ (e').received_prior = m.received_prior
    BY <1>3, <1>16 DEF Jumped, Jump, Entries
  <2>2. /\ m.m_uiProbation = 0 /\ udelta(m, SN(n)) <= SeqMod - MaxMisorder
        /\ high' = high /\ base' = base /\ anchored' = anchored /\ run' = run /\ by' = by
        /\ arrived' = arrived /\ pkt' = Labelled(e', n, "jumped")
    BY <1>16 DEF Jumped, Jump
  <2>3. /\ (e').m_uiProbation = e.m_uiProbation /\ (e').max_seq = e.max_seq
        /\ (e').base_seq = e.base_seq /\ (e').received = e.received
        /\ (e').cycles = e.cycles
        /\ (e').expected_prior = e.expected_prior /\ (e').received_prior = e.received_prior
    BY <1>3, <1>7, <2>1, <2>2
  <2>4. Anchored' /\ Probation' /\ FractionFits' /\ ValidOnlyAfterSequence'
    BY <2>1, <2>2, <2>3
       DEF SeqInv, Anchored, Probation, FractionFits, Expected, ValidOnlyAfterSequence
  <2>5. CASE ~anchored
    BY <2>2, <2>4, <2>5 DEF SeqInv, ExtendedNumber
  <2>6. CASE anchored
    <3>1. m.max_seq = SN(high) /\ m.cycles + m.max_seq - m.base_seq = high - base
      BY <1>3, <1>7, <2>2, <2>6 DEF SeqInv, Anchored
    <3>2. n >= high /\ n - high = IF SN(n) >= SN(high) THEN SN(n) - SN(high)
                                  ELSE SN(n) - SN(high) + SeqMod
      BY <1>1, <1>3, <2>2, <3>1, UdeltaWindow, MembersAssumption
    <3>3. pkt'.place = "jumped" /\ pkt'.shift = m.cycles + SN(n) - n
      BY <2>1, <2>2, <2>6 DEF Labelled, Label
    <3>4. m.cycles + SN(n) - n \in {m.base_seq - base, m.base_seq - base - SeqMod}
      BY <1>1, <1>2, <1>5, <1>6, <3>1, <3>2
    <3> QED BY <2>1, <2>2, <2>4, <3>3, <3>4 DEF SeqInv, ExtendedNumber
  <2> QED BY <2>5, <2>6
<1>17. CASE Reordered(m, n)
  <2>1. /\ (e').m_bInit /\ (e').m_uiProbation = 0 /\ (e').max_seq = m.max_seq
        /\ (e').base_seq = m.base_seq /\ (e').received = m.received + 1
        /\ (e').cycles = m.cycles
        /\ (e').expected_prior = m.expected_prior /\ (e').received_prior = m.received_prior
    BY <1>3, <1>17 DEF Reordered, Entries
  <2>2. /\ m.m_uiProbation = 0 /\ udelta(m, SN(n)) > SeqMod - MaxMisorder
        /\ high' = high /\ base' = base /\ anchored' = anchored /\ run' = run /\ by' = by
        /\ arrived' = Counted(n) /\ pkt' = Labelled(e', n, "behind")
    BY <1>17 DEF Reordered
  <2>3. CASE ~anchored
    BY <2>1, <2>2, <2>3
       DEF SeqInv, Anchored, Probation, FractionFits, ValidOnlyAfterSequence, ExtendedNumber
  <2>4. CASE anchored
    <3>1. m.max_seq = SN(high) /\ m.cycles + m.max_seq - m.base_seq = high - base
      BY <1>3, <1>7, <2>2, <2>4 DEF SeqInv, Anchored
    <3>2. n < high /\ high - n = IF SN(high) >= SN(n) THEN SN(high) - SN(n)
                                 ELSE SN(high) - SN(n) + SeqMod
      BY <1>1, <1>3, <2>2, <3>1, UdeltaWindow, MembersAssumption
    <3>3. (e').cycles + (e').max_seq - (e').base_seq = high - base
      BY <2>1, <3>1
    <3>4. Anchored' /\ Probation' /\ FractionFits' /\ ValidOnlyAfterSequence'
      BY <1>1, <1>3, <1>7, <2>1, <2>2, <2>4, <3>1, <3>3, CountStep DEF Counted
    <3>5. pkt'.place = "behind" /\ pkt'.shift = m.cycles + SN(n) - n
      BY <2>1, <2>2, <2>4 DEF Labelled, Label
    <3>6. m.cycles + SN(n) - n \in {m.base_seq - base, m.base_seq - base + SeqMod}
      BY <1>1, <1>2, <1>5, <1>6, <3>1, <3>2
    <3> QED BY <2>1, <2>2, <3>4, <3>5, <3>6 DEF SeqInv, ExtendedNumber
  <2> QED BY <2>3, <2>4
<1> QED BY <1>4, <1>11, <1>12, <1>13, <1>14, <1>15, <1>16, <1>17 DEF update_seq

LEMMA SeqInit == Init => SeqInv
<1> SUFFICES ASSUME Init
             PROVE  SeqInv
  OBVIOUS
<1>1. ~anchored /\ run = 0 /\ by = "none" /\ e = MemberEntry
  BY DEF Init
<1>2. ~e.m_bInit /\ e.received = 0 /\ e.m_uiProbation = MinSequential
  BY <1>1 DEF MemberEntry
<1>3. Probation
  BY <1>1, <1>2 DEF Probation
<1> QED BY <1>1, <1>3
        DEF SeqInv, Anchored, FractionFits, ValidOnlyAfterSequence, ExtendedNumber

LEMMA SeqStep == TypeOK /\ SeqInv /\ [Next]_vars => SeqInv'
<1> SUFFICES ASSUME TypeOK, SeqInv, [Next]_vars
             PROVE  SeqInv'
  OBVIOUS
<1>0. TypeOK' /\ e \in Entries /\ MinSequential \in Nat
  BY TypeStep, MembersAssumption DEF TypeOK
<1>1. ASSUME NEW n \in Window, processIncomingRtpPacket(n)
      PROVE  SeqInv'
  BY <1>0, <1>1, PacketStep
<1>2. ASSUME NEW seq \in Others, processCsrc(seq)
      PROVE  SeqInv'
  <2>1. UNCHANGED ghost
    BY <1>2 DEF processCsrc
  <2>2. CASE e.m_bInit
    <3>1. e' = e
      BY <1>2, <2>2 DEF processCsrc, processParticipant
    <3> QED BY <2>1, <3>1, FrameStep
  <2>3. CASE ~e.m_bInit
    <3>1. e' = initSequence(e, seq)
      BY <1>2, <2>3 DEF processCsrc, processParticipant
    <3>2. (e').m_bInit /\ (e').m_uiProbation = MinSequential
      BY <1>0, <3>1 DEF initSequence, init_seq, Entries
    <3>3. run = 0 /\ ~anchored
      BY <2>3 DEF SeqInv, Probation, Anchored
    <3>4. Probation'
      BY <2>1, <3>2, <3>3 DEF Probation, ghost
    <3> QED BY <2>1, <3>3, <3>4
            DEF SeqInv, Anchored, FractionFits, ValidOnlyAfterSequence, ExtendedNumber, ghost
  <2> QED BY <2>2, <2>3
<1>3. CASE processSenderReport
  BY <1>0, <1>3, FrameStep DEF processSenderReport, Entries
<1>4. CASE processReceiverReport
  BY <1>0, <1>4, FrameStep DEF processReceiverReport, Entries
<1>5. CASE processSdesReportBlocks
  <2>1. /\ (e').m_uiProbation = 0 /\ (e').m_bInit = e.m_bInit /\ (e').max_seq = e.max_seq
        /\ (e').cycles = e.cycles /\ (e').base_seq = e.base_seq
        /\ (e').received = e.received /\ (e').expected_prior = e.expected_prior
        /\ (e').received_prior = e.received_prior
    BY <1>0, <1>5 DEF processSdesReportBlocks, Entries
  <2>2. /\ UNCHANGED <<high, base, anchored, arrived, run, pkt>>
        /\ by' = IF e.m_uiProbation > 0 THEN "sdes" ELSE by
    BY <1>5 DEF processSdesReportBlocks
  <2>3. Anchored' /\ Probation' /\ ExtendedNumber'
    BY <2>1, <2>2 DEF SeqInv, Anchored, Probation, ExtendedNumber
  <2>4. FractionFits' /\ ValidOnlyAfterSequence'
    BY <2>1, <2>2 DEF SeqInv, FractionFits, Expected, ValidOnlyAfterSequence
  <2> QED BY <2>3, <2>4 DEF SeqInv
<1>6. CASE processBye
  BY <1>0, <1>6, FrameStep DEF processBye, Entries
<1>7. CASE onRtcpIntervalTimeout
  <2>1. CASE TimedOut(e, Timeout) \/ isInactiveAndCanBeRemoved(e)
    <3>1. e' = MemberEntry /\ ~anchored' /\ run' = 0 /\ by' = "none"
      BY <1>7, <2>1 DEF onRtcpIntervalTimeout, checkMemberDatabase
    <3>2. (e').m_uiProbation = MinSequential /\ ~(e').m_bInit /\ (e').received = 0
      BY <3>1 DEF MemberEntry
    <3>3. Probation'
      BY <3>1, <3>2 DEF Probation
    <3> QED BY <3>1, <3>3
            DEF SeqInv, Anchored, FractionFits, ValidOnlyAfterSequence, ExtendedNumber
  <2>2. CASE ~(TimedOut(e, Timeout) \/ isInactiveAndCanBeRemoved(e))
    <3> DEFINE m == [e EXCEPT !.m_bIsSender = @ /\ ~TimedOut(e, SenderTimeout)]
    <3>1. e' = (IF m.m_bIsSender THEN getLostFraction(m) ELSE m) /\ UNCHANGED ghost
      BY <1>7, <2>2 DEF onRtcpIntervalTimeout, checkMemberDatabase
    <3>2. /\ m.m_bInit = e.m_bInit /\ m.m_uiProbation = e.m_uiProbation
          /\ m.max_seq = e.max_seq /\ m.cycles = e.cycles /\ m.base_seq = e.base_seq
          /\ m.received = e.received /\ m.expected_prior = e.expected_prior
          /\ m.received_prior = e.received_prior
      BY <1>0 DEF Entries
    <3>3. m \in Entries
      BY <1>0, Zenon DEF Entries
    <3> HIDE DEF m
    <3>4. CASE ~m.m_bIsSender
      BY <3>1, <3>2, <3>4, FrameStep
    <3>5. CASE m.m_bIsSender
      <4>1. e' = getLostFraction(m)
        BY <3>1, <3>5
      <4>2. /\ (e').m_bInit = e.m_bInit /\ (e').m_uiProbation = e.m_uiProbation
            /\ (e').max_seq = e.max_seq /\ (e').cycles = e.cycles
            /\ (e').base_seq = e.base_seq /\ (e').received = e.received
            /\ (e').expected_prior = Expected(e) /\ (e').received_prior = e.received
        BY <3>2, <3>3, <4>1 DEF getLostFraction, Expected, Entries
      <4>3. Anchored' /\ Probation' /\ ExtendedNumber' /\ ValidOnlyAfterSequence'
        BY <3>1, <4>2
           DEF SeqInv, Anchored, Probation, ExtendedNumber, ValidOnlyAfterSequence, ghost
      <4>4. Expected(e') = Expected(e) /\ Expected(e) \in Int /\ e.received \in Int
        <5>1. e.cycles \in Nat /\ e.max_seq \in Nat /\ e.base_seq \in Nat /\ e.received \in Nat
          BY <1>0, EntryFields, MembersAssumption
        <5> QED BY <4>2, <5>1, MembersAssumption DEF Expected
      <4>5. FractionFits'
        BY <4>2, <4>4 DEF FractionFits, Expected
      <4> QED BY <4>3, <4>5 DEF SeqInv
    <3> QED BY <3>4, <3>5
  <2> QED BY <2>1, <2>2
<1>8. CASE Tick
  BY <1>0, <1>8, FrameStep DEF Tick, Entries
<1>9. CASE Leave
  BY <1>9, FrameStep DEF Leave
<1>10. CASE UNCHANGED vars
  <2>1. UNCHANGED ghost /\ e' = e
    BY <1>10 DEF vars, ghost
  <2> QED BY <2>1, FrameStep
<1> QED BY <1>1, <1>2, <1>3, <1>4, <1>5, <1>6, <1>7, <1>8, <1>9, <1>10 DEF Next

LEMMA SeqInvariant == Spec => [](TypeOK /\ SeqInv)
BY TypeInit, TypeStep, SeqInit, SeqStep, PTL DEF Spec

(***************************************************************************)
(* The properties of the runs.                                             *)
(***************************************************************************)
\* update_seq counts over wraps, gaps, repeats and reordering without error,
\* for every modulus, as long as no packet arrives MAX_MISORDER or more late
\* or RTP_SEQ_MOD - MAX_MISORDER or more ahead.
THEOREM ExtendedHighestAlways == Spec => []ExtendedHighest
<1>1. SeqInv => ExtendedHighest
  BY DEF SeqInv, Anchored, ExtendedHighest
<1> QED BY <1>1, SeqInvariant, PTL

\* What getCumulativeNumberOfPacketsLost returns, from the true difference of the
\* packets expected and received, and how that difference compares with what is
\* missing.
LEMMA LossOfDifference ==
  ASSUME TypeOK, SeqInv, anchored, NEW x, x = Expected(e) - e.received
  PROVE  /\ x \in Int /\ Expected(e) \in Int /\ e.received \in Int
         /\ Cardinality(Missing) \in Nat /\ x <= Cardinality(Missing)
         /\ x > LossLimit - 1 => getCumulativeNumberOfPacketsLost(e) = LossLimit - 1
         /\ x < -LossLimit => getCumulativeNumberOfPacketsLost(e) = LossLimit
         /\ -LossLimit <= x /\ x <= LossLimit - 1 => getCumulativeNumberOfPacketsLost(e) = x
<1>1. /\ base \in 0 .. MaxTrue /\ high \in 0 .. MaxTrue /\ base <= high
      /\ e.cycles + e.max_seq - e.base_seq = high - base
      /\ Cardinality(arrived) <= e.received /\ arrived \in SUBSET (0 .. MaxTrue)
      /\ MaxTrue \in Nat /\ e \in Entries
  BY MembersAssumption DEF TypeOK, SeqInv, Anchored
<1>2. /\ e.cycles \in Nat /\ e.max_seq \in Nat /\ e.base_seq \in Nat
      /\ e.received \in 0 .. MaxReceived
  BY <1>1, EntryFields, MembersAssumption
<1>3. Expected(e) = high - base + 1
  BY <1>1, <1>2, ExpectedIsDistance
<1>4. x \in Int /\ -Word < 2 * x /\ 2 * x < Word
  BY <1>1, <1>2, <1>3, MembersAssumption
<1>5. x % Word = IF x >= 0 THEN x ELSE x + Word
  BY <1>4, WordSmall, MembersAssumption
<1> DEFINE lost == IF 2 * (x % Word) < Word THEN x % Word ELSE (x % Word) - Word
<1>6. lost = x
  BY <1>4, <1>5, MembersAssumption
<1>7. getCumulativeNumberOfPacketsLost(e)
        = IF lost > LossLimit - 1 THEN LossLimit - 1
          ELSE IF lost < -LossLimit THEN LossLimit ELSE lost
  BY Zenon DEF getCumulativeNumberOfPacketsLost
<1> HIDE DEF lost
<1>8. IsFiniteSet(base .. high) /\ Cardinality(base .. high) = high - base + 1
  BY <1>1, FS_Interval
<1>9. IsFiniteSet(arrived)
  <2>1. IsFiniteSet(0 .. MaxTrue)
    BY <1>1, FS_Interval
  <2> QED BY <1>1, <2>1, FS_Subset
<1>10. Cardinality(Missing)
         = Cardinality(base .. high) - Cardinality((base .. high) \cap arrived)
  BY <1>8, FS_Difference DEF Missing
<1>11. /\ Cardinality((base .. high) \cap arrived) <= Cardinality(arrived)
       /\ Cardinality((base .. high) \cap arrived) \in Nat
       /\ Cardinality(arrived) \in Nat
  BY <1>8, <1>9, FS_Intersection, FS_CardinalityType
<1>12. IsFiniteSet(Missing)
  BY <1>8, FS_Difference DEF Missing
<1>13. Cardinality(Missing) \in Nat
  BY <1>12, FS_CardinalityType
<1>14. x <= Cardinality(Missing)
  BY <1>1, <1>2, <1>3, <1>8, <1>10, <1>11
<1>15. LossLimit \in Nat \ {0}
  BY MembersAssumption
<1> QED BY <1>1, <1>2, <1>3, <1>4, <1>6, <1>7, <1>13, <1>14, <1>15

\* The number that getCumulativeNumberOfPacketsLost returns never exceeds the packets
\* that are missing, up to LossLimit more packets received than expected.
THEOREM LossNotOverstatedAlways == Spec => []LossNotOverstated
<1>1. TypeOK /\ SeqInv => LossNotOverstated
  <2> SUFFICES ASSUME TypeOK, SeqInv, anchored, e.received <= Expected(e) + LossLimit
               PROVE  getCumulativeNumberOfPacketsLost(e) <= Cardinality(Missing)
    BY DEF LossNotOverstated
  <2> DEFINE x == Expected(e) - e.received
  <2> HIDE DEF x
  <2>1. x = Expected(e) - e.received
    BY DEF x
  <2>2. /\ x \in Int /\ Expected(e) \in Int /\ e.received \in Int
        /\ Cardinality(Missing) \in Nat /\ x <= Cardinality(Missing)
        /\ x > LossLimit - 1 => getCumulativeNumberOfPacketsLost(e) = LossLimit - 1
        /\ -LossLimit <= x /\ x <= LossLimit - 1 => getCumulativeNumberOfPacketsLost(e) = x
    BY <2>1, LossOfDifference
  <2>3. LossLimit \in Nat \ {0}
    BY MembersAssumption
  <2> QED BY <2>1, <2>2, <2>3
<1> QED BY <1>1, SeqInvariant, PTL

\* The field of a receiver report, read as a signed number, never exceeds the packets
\* that are missing, and is the difference of the packets expected and received
\* whenever that has room in it.
THEOREM FieldNotOverstatedAlways == Spec => []FieldNotOverstated
<1>1. TypeOK /\ SeqInv => FieldNotOverstated
  <2> SUFFICES ASSUME TypeOK, SeqInv, anchored
               PROVE  /\ Signed(CumulativeField(e)) <= Cardinality(Missing)
                      /\ (-LossLimit <= Expected(e) - e.received
                            /\ Expected(e) - e.received < LossLimit)
                           => Signed(CumulativeField(e)) = Expected(e) - e.received
    BY DEF FieldNotOverstated
  <2> DEFINE x == Expected(e) - e.received
             r == getCumulativeNumberOfPacketsLost(e)
             W == 2 * LossLimit
  <2>1. CumulativeField(e) = r % W /\ x = Expected(e) - e.received /\ W = 2 * LossLimit
    BY DEF CumulativeField
  <2> HIDE DEF x, r, W
  <2>2. /\ x \in Int /\ Cardinality(Missing) \in Nat /\ x <= Cardinality(Missing)
        /\ x > LossLimit - 1 => r = LossLimit - 1
        /\ x < -LossLimit => r = LossLimit
        /\ -LossLimit <= x /\ x <= LossLimit - 1 => r = x
    BY <2>1, LossOfDifference DEF r
  <2>3. LossLimit \in Nat \ {0} /\ W \in Nat \ {0}
    BY <2>1, MembersAssumption
  <2>4. r \in Int /\ -W < r /\ r < W
    BY <2>1, <2>2, <2>3
  <2>5. r % W = IF r >= 0 THEN r ELSE r + W
    BY <2>3, <2>4, ModSmall
  <2>6. Signed(CumulativeField(e)) = IF r >= LossLimit THEN r - W ELSE r
    BY <2>1, <2>2, <2>3, <2>4, <2>5 DEF Signed
  <2>7. Signed(CumulativeField(e)) <= Cardinality(Missing)
    BY <2>1, <2>2, <2>3, <2>4, <2>6
  <2>8. -LossLimit <= x /\ x < LossLimit => Signed(CumulativeField(e)) = x
    BY <2>1, <2>2, <2>3, <2>4, <2>6
  <2> QED BY <2>1, <2>7, <2>8
<1> QED BY <1>1, SeqInvariant, PTL

\* The fraction lost of a receiver report always fits its byte.
THEOREM FractionFitsAlways == Spec => []FractionFits
<1>1. SeqInv => FractionFits
  BY DEF SeqInv
<1> QED BY <1>1, SeqInvariant, PTL

\* The probation ends with the MIN_SEQUENTIAL-th packet in a row, but for a
\* wrap of the sequence number.
THEOREM ValidatedInTimeAlways == Spec => []ValidatedInTime
<1>1. TypeOK /\ SeqInv => ValidatedInTime
  <2> SUFFICES ASSUME TypeOK, SeqInv, e.m_uiProbation > 0
               PROVE  run < MinSequential \/ SN(high) < MinSequential - 1
    BY DEF ValidatedInTime
  <2>1. run \in Nat /\ high \in Nat /\ MinSequential \in Nat /\ MinSequential >= 2 /\ e \in Entries
    BY MembersAssumption DEF TypeOK
  <2>2. SN(high) \in Nat
    BY <2>1, SNType, MembersAssumption
  <2>3. e.m_uiProbation \in Nat
    BY <2>1, EntryFields, MembersAssumption
  <2> QED BY <2>1, <2>2, <2>3 DEF SeqInv, Probation
<1> QED BY <1>1, SeqInvariant, PTL

\* RTP validates nothing before MIN_SEQUENTIAL packets in a row.
THEOREM ValidOnlyAfterSequenceAlways == Spec => []ValidOnlyAfterSequence
<1>1. SeqInv => ValidOnlyAfterSequence
  BY DEF SeqInv
<1> QED BY <1>1, SeqInvariant, PTL

\* Extended numbers are right, but for one cycle too many behind max_seq and
\* one too few for a packet taken for a jump.
THEOREM ExtendedNumberAlways == Spec => []ExtendedNumber
<1>1. SeqInv => ExtendedNumber
  BY DEF SeqInv
<1> QED BY <1>1, SeqInvariant, PTL

\* For any modulus, dropout and misorder limits the highest number is extended
\* exactly, and every packet's to within a cycle.
THEOREM NumbersExtendedAlways == Spec => []NumbersExtended
BY ExtendedHighestAlways, ExtendedNumberAlways, PTL DEF NumbersExtended

\* A receiver report never overstates the loss, however many packets are repeated, the
\* number it is made from does not up to LossLimit of them, and the fraction lost fits
\* its byte.
THEOREM LossReportedAlways == Spec => []LossReported
BY LossNotOverstatedAlways, FieldNotOverstatedAlways, FractionFitsAlways, PTL DEF LossReported

\* RTP validates a source after MIN_SEQUENTIAL packets in a row and not before.
THEOREM ValidationAlways == Spec => []Validation
BY ValidatedInTimeAlways, ValidOnlyAfterSequenceAlways, PTL DEF Validation

=============================================================================
