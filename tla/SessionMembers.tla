--------------------------- MODULE SessionMembers ---------------------------
(***************************************************************************)
(* The entry of one remote participant in the SessionDatabase of an RTP    *)
(* session: how it is created by RTP, by RTCP or by being named as a       *)
(* contributing source, the probation that validates it, the sequence      *)
(* number state from which its packets get their extended numbers and the  *)
(* receiver reports their loss counts, and how it is removed after a BYE   *)
(* or a long silence.                                                      *)
(*                                                                         *)
(* A packet is identified by its true number, which never wraps; the code  *)
(* sees its sequence number, SN(n).  The network loses, repeats and        *)
(* reorders packets: any packet from Behind before to Ahead after the one  *)
(* that max_seq stands for may arrive next.  high, base, arrived, run,     *)
(* by, anchored and pkt record what happened in true numbers and are never *)
(* read by the code.                                                       *)
(***************************************************************************)
EXTENDS Integers, FiniteSets

CONSTANTS
  SeqMod,         \* RTP_SEQ_MOD
  Word,           \* 2^32, the width of the counters
  LossLimit,      \* 0x800000: the cumulative loss is a signed number of 24 bits
  MaxDropout,     \* MAX_DROPOUT
  MaxMisorder,    \* m_uiMaxMisorder
  MinSequential,  \* MIN_SEQUENTIAL
  Timeout,        \* TIMEOUT_MULTIPLIER transmission intervals, in ticks
  SenderTimeout,  \* two transmission intervals
  ByeTimeout,     \* BYE_TIMEOUT_SECONDS
  Others,         \* sequence numbers of other sources
  Behind, Ahead,  \* how far packets are reordered, and how many are lost in a row
  MaxTrue,        \* bound: the true number of the last packet
  MaxReceived     \* bound: packets counted

ASSUME MembersAssumption ==
  /\ SeqMod \in Nat /\ Word \in Nat /\ MaxDropout \in Nat /\ MaxMisorder \in Nat
  /\ LossLimit \in Nat \ {0}
  /\ MinSequential \in Nat /\ 2 <= MinSequential /\ MinSequential < SeqMod
  /\ 0 < MaxDropout /\ MaxDropout + MaxMisorder <= SeqMod
  /\ Timeout \in Nat /\ SenderTimeout \in Nat /\ ByeTimeout \in Nat
  /\ Others \subseteq 0 .. SeqMod - 1
  /\ Behind \in Nat /\ Behind < MaxMisorder
  /\ Ahead \in Nat /\ Ahead <= SeqMod - MaxMisorder
  /\ MaxTrue \in Nat /\ 2 * (MaxTrue + 1) < Word
  /\ MaxReceived \in Nat /\ 2 * MaxReceived < Word

VARIABLES
  inDb,       \* whether m_memberDb has the SSRC
  e,          \* its MemberEntry (the one of the constructor when it has none)
  quiet,      \* the participant has gone and sends no more
  high,       \* the packet that max_seq stands for
  base,       \* the packet that base_seq stands for, once anchored
  anchored,   \* base_seq was taken from a packet that update_seq accepted
  arrived,    \* the packets counted since then
  run,        \* packets in a row, each one more than the last, in probation
  by,         \* what ended the probation
  pkt         \* the last packet, once anchored: its place, and its
              \* extended minus its true number

vars == <<inDb, e, quiet, high, base, anchored, arrived, run, by, pkt>>
ghost == <<high, base, anchored, arrived, run, by, pkt>>

NoPacket == [place |-> "none", shift |-> 0]

Never == Timeout + 2    \* the age of a default-constructed ptime: not_a_date_time

SN(n) == n % SeqMod

(***************************************************************************)
(* MemberEntry.  tLast and tInactive are the ages of m_tLastPacketSent and *)
(* m_tMarkedInactive.                                                      *)
(***************************************************************************)
MemberEntry ==
  [m_bInit |-> FALSE, m_uiProbation |-> MinSequential, m_bIsSender |-> FALSE,
   m_bInactive |-> FALSE, max_seq |-> 0, cycles |-> 0, base_seq |-> 0, bad_seq |-> 0,
   received |-> 0, expected_prior |-> 0, received_prior |-> 0,
   tLast |-> Never, tInactive |-> 0]

init_seq(m, seq) ==
  [m EXCEPT !.base_seq = seq, !.max_seq = seq, !.bad_seq = SeqMod + 1, !.cycles = 0,
            !.received = 0, !.received_prior = 0, !.expected_prior = 0]

\* Variant: max_seq is one less than the number, also of number 0.
InitUnwrapped(m, seq) ==
  [init_seq(m, seq) EXCEPT !.max_seq = seq - 1, !.m_uiProbation = MinSequential,
                           !.m_bInit = TRUE]

initSequence(m, seq) ==
  [init_seq(m, seq) EXCEPT !.max_seq = IF seq = 0 THEN SeqMod - 1 ELSE seq - 1,
                           !.m_uiProbation = MinSequential, !.m_bInit = TRUE]

\* The 16-bit difference seq - max_seq.
udelta(m, seq) ==
  IF seq >= m.max_seq THEN seq - m.max_seq ELSE seq - m.max_seq + SeqMod

\* Variant: a gap is in sequence.
InSequenceWithGap(m, seq) == seq > m.max_seq

\* max_seq + 1 is an int and does not wrap.
InSequence(m, seq) == seq = m.max_seq + 1

\* getCumulativeNumberOfPacketsLost and getLostFraction compute the expected
\* packets in 32 bits; the loss is read as a signed number.
Expected(m) == (m.cycles + m.max_seq - m.base_seq + 1) % Word

\* Variant: the number is not clamped.
LossUnclamped(m) ==
  LET difference == (Expected(m) - m.received) % Word
  IN  IF 2 * difference < Word THEN difference ELSE difference - Word

\* It is clamped to 24 bits.  The lower clamp sets the positive number 0x800000.
getCumulativeNumberOfPacketsLost(m) ==
  LET difference == (Expected(m) - m.received) % Word
      iLost == IF 2 * difference < Word THEN difference ELSE difference - Word
  IN  IF iLost > LossLimit - 1 THEN LossLimit - 1
      ELSE IF iLost < -LossLimit THEN LossLimit ELSE iLost

\* The 24 bits that RtcpRrReportBlock::write puts into the report.
CumulativeField(m) == getCumulativeNumberOfPacketsLost(m) % (2 * LossLimit)

\* RtcpRrReportBlock::read keeps them in an unsigned number: the sign is lost.
readCumulative(field) == field

getLostFraction(m) ==
  [m EXCEPT !.expected_prior = Expected(m), !.received_prior = m.received]

(***************************************************************************)
(* The branches of update_seq, for the packet n.  Its callers do not look  *)
(* at the result: a packet that is not counted is delivered like another.  *)
(***************************************************************************)
\* processRtpPacket notes the time and the sender before it calls update_seq.
Heard(m) == [m EXCEPT !.m_bIsSender = TRUE, !.tLast = 0]

\* onReceiveRtpPacket composes the extended number once cycles is up to date.
Label(m, n, place) == [place |-> place, shift |-> m.cycles + SN(n) - n]
Labelled(m, n, place) == IF anchored THEN Label(m, n, place) ELSE pkt

Counted(n) == IF anchored THEN arrived \cup {n} ELSE arrived

OutOfSequence(m, n) ==
  /\ m.m_uiProbation > 0 /\ ~InSequence(m, SN(n))
  /\ e' = [m EXCEPT !.m_uiProbation = MinSequential - 1, !.max_seq = SN(n)]
  /\ high' = n
  /\ run' = IF run > 0 /\ n = high + 1 THEN run + 1 ELSE 1
  /\ by' = "none"
  /\ UNCHANGED <<base, anchored, arrived, pkt>>

Sequential(m, n) ==
  /\ m.m_uiProbation > 1 /\ InSequence(m, SN(n))
  /\ e' = [m EXCEPT !.m_uiProbation = @ - 1, !.max_seq = SN(n)]
  /\ high' = n
  /\ run' = IF run > 0 /\ n = high + 1 THEN run + 1 ELSE 1
  /\ by' = "none"
  /\ UNCHANGED <<base, anchored, arrived, pkt>>

Validated(m, n) ==
  /\ m.m_uiProbation = 1 /\ InSequence(m, SN(n))
  /\ e' = [init_seq(m, SN(n)) EXCEPT !.m_uiProbation = 0, !.received = 1]
  /\ high' = n /\ base' = n /\ anchored' = TRUE /\ arrived' = {n}
  /\ run' = IF run > 0 /\ n = high + 1 THEN run + 1 ELSE 1
  /\ by' = "rtp"
  /\ pkt' = Label(e', n, "highest")

\* Variant: the wrap of the sequence number is not counted.
AdvancedWithoutWrap(m, n) ==
  /\ m.m_uiProbation = 0 /\ udelta(m, SN(n)) < MaxDropout
  /\ e' = [m EXCEPT !.max_seq = SN(n), !.received = @ + 1]
  /\ high' = n /\ arrived' = Counted(n)
  /\ pkt' = Labelled(e', n, "highest")
  /\ UNCHANGED <<base, anchored, run, by>>

Advanced(m, n) ==
  /\ m.m_uiProbation = 0 /\ udelta(m, SN(n)) < MaxDropout
  /\ e' = [m EXCEPT !.cycles = IF SN(n) < m.max_seq THEN @ + SeqMod ELSE @,
                    !.max_seq = SN(n), !.received = @ + 1]
  /\ high' = n /\ arrived' = Counted(n)
  /\ pkt' = Labelled(e', n, "highest")
  /\ UNCHANGED <<base, anchored, run, by>>

Jump(m, seq) ==
  /\ m.m_uiProbation = 0
  /\ MaxDropout <= udelta(m, seq) /\ udelta(m, seq) <= SeqMod - MaxMisorder

Resynchronised(m, n) ==
  /\ Jump(m, SN(n)) /\ SN(n) = m.bad_seq
  /\ e' = [init_seq(m, SN(n)) EXCEPT !.received = 1]
  /\ high' = n /\ base' = n /\ anchored' = TRUE /\ arrived' = {n}
  /\ pkt' = Label(e', n, "highest")
  /\ UNCHANGED <<run, by>>

Jumped(m, n) ==
  /\ Jump(m, SN(n)) /\ SN(n) # m.bad_seq
  /\ e' = [m EXCEPT !.bad_seq = (SN(n) + 1) % SeqMod]
  /\ pkt' = Labelled(e', n, "jumped")
  /\ UNCHANGED <<high, base, anchored, arrived, run, by>>

Reordered(m, n) ==
  /\ m.m_uiProbation = 0
  /\ udelta(m, SN(n)) >= MaxDropout /\ udelta(m, SN(n)) > SeqMod - MaxMisorder
  /\ e' = [m EXCEPT !.received = @ + 1]
  /\ arrived' = Counted(n)
  /\ pkt' = Labelled(e', n, "behind")
  /\ UNCHANGED <<high, base, anchored, run, by>>

update_seq(m, n) ==
  \/ OutOfSequence(m, n) \/ Sequential(m, n) \/ Validated(m, n)
  \/ Advanced(m, n) \/ Resynchronised(m, n) \/ Jumped(m, n) \/ Reordered(m, n)

(***************************************************************************)
(* SessionDatabase                                                         *)
(***************************************************************************)
\* processParticipant: the entry, initialised with the packet's number unless
\* it was before.
processParticipant(seq) == IF e.m_bInit THEN e ELSE initSequence(e, seq)

Window == {n \in 0 .. MaxTrue : high - Behind <= n /\ n <= high + Ahead}

processIncomingRtpPacket(n) ==
  /\ ~quiet /\ e.received < MaxReceived
  /\ inDb' = TRUE
  /\ update_seq(Heard(processParticipant(SN(n))), n)
  /\ UNCHANGED quiet

\* A packet of another source, with the number seq, lists the participant
\* among its contributing sources.
processCsrc(seq) ==
  /\ inDb' = TRUE
  /\ e' = processParticipant(seq)
  /\ UNCHANGED <<quiet, ghost>>

processSenderReport ==
  /\ ~quiet
  /\ inDb' = TRUE
  /\ e' = [e EXCEPT !.m_bIsSender = TRUE, !.tLast = 0]
  /\ UNCHANGED <<quiet, ghost>>

\* processXrReport does the same.
processReceiverReport ==
  /\ ~quiet
  /\ inDb' = TRUE
  /\ e' = [e EXCEPT !.tLast = 0]
  /\ UNCHANGED <<quiet, ghost>>

\* An SDES with a CNAME, from the participant or from a mixer.
processSdesReportBlocks ==
  /\ inDb
  /\ e' = [e EXCEPT !.m_uiProbation = 0]
  /\ by' = IF e.m_uiProbation > 0 THEN "sdes" ELSE by
  /\ UNCHANGED <<inDb, quiet, high, base, anchored, arrived, run, pkt>>

\* A BYE that is repeated does not postpone the removal.
processBye ==
  /\ ~quiet /\ inDb
  /\ e' = [e EXCEPT !.tLast = 0, !.m_bInactive = TRUE,
                    !.tInactive = IF e.m_bInactive THEN @ ELSE 0]
  /\ UNCHANGED <<inDb, quiet, ghost>>

\* Variant: only senders time out.
SendersTimeOut(m, limit) == m.m_bIsSender /\ m.tLast # Never /\ m.tLast > limit

\* m_tLastPacketSent < tTimeout is false of not_a_date_time.
TimedOut(m, limit) == m.tLast # Never /\ m.tLast > limit

isInactiveAndCanBeRemoved(m) == m.m_bInactive /\ m.tInactive >= ByeTimeout

\* Every report is preceded by checkMemberDatabase in the same handler.
checkMemberDatabase ==
  IF TimedOut(e, Timeout) \/ isInactiveAndCanBeRemoved(e)
  THEN /\ inDb' = FALSE /\ e' = MemberEntry
       /\ anchored' = FALSE /\ base' = 0 /\ arrived' = {} /\ run' = 0 /\ by' = "none"
       /\ pkt' = NoPacket
       /\ UNCHANGED high
  ELSE /\ e' = LET m == [e EXCEPT !.m_bIsSender = @ /\ ~TimedOut(e, SenderTimeout)]
               IN  IF m.m_bIsSender THEN getLostFraction(m) ELSE m
       /\ UNCHANGED <<inDb, ghost>>

onRtcpIntervalTimeout ==
  /\ inDb
  /\ checkMemberDatabase
  /\ UNCHANGED quiet

\* The passing of time.
Tick ==
  /\ e.tLast <= Timeout \/ (e.m_bInactive /\ e.tInactive < ByeTimeout)
  /\ e' = [e EXCEPT !.tLast = IF @ <= Timeout THEN @ + 1 ELSE @,
                    !.tInactive = IF e.m_bInactive /\ @ < ByeTimeout THEN @ + 1 ELSE @]
  /\ UNCHANGED <<inDb, quiet, ghost>>

Leave ==
  /\ ~quiet
  /\ quiet' = TRUE
  /\ UNCHANGED <<inDb, e, ghost>>

Init ==
  /\ inDb = FALSE /\ e = MemberEntry /\ quiet = FALSE
  /\ high \in 0 .. SeqMod - 1 /\ high <= MaxTrue /\ base = 0
  /\ anchored = FALSE /\ arrived = {} /\ run = 0 /\ by = "none"
  /\ pkt = NoPacket

Next ==
  \/ \E n \in Window : processIncomingRtpPacket(n)
  \/ \E seq \in Others : processCsrc(seq)
  \/ processSenderReport \/ processReceiverReport \/ processSdesReportBlocks
  \/ processBye \/ onRtcpIntervalTimeout \/ Tick \/ Leave

Spec == Init /\ [][Next]_vars

\* The timer of the report manager is set again by every handler of it (module
\* RtcpReporting), and time passes.
FairSpec == Spec /\ WF_vars(onRtcpIntervalTimeout) /\ WF_vars(Tick)

(***************************************************************************)
(* Properties                                                              *)
(***************************************************************************)
Entries ==
  [m_bInit : BOOLEAN, m_uiProbation : 0 .. MinSequential, m_bIsSender : BOOLEAN,
   m_bInactive : BOOLEAN, max_seq : 0 .. SeqMod - 1, cycles : Nat,
   base_seq : 0 .. SeqMod - 1, bad_seq : 0 .. SeqMod + 1, received : 0 .. MaxReceived,
   expected_prior : 0 .. Word - 1, received_prior : 0 .. MaxReceived,
   tLast : 0 .. Never, tInactive : 0 .. ByeTimeout]

\* The fields keep their types: sequence numbers stay below RTP_SEQ_MOD
\* although max_seq is computed as one less than the first number.
TypeOK ==
  /\ inDb \in BOOLEAN /\ e \in Entries /\ quiet \in BOOLEAN
  /\ high \in 0 .. MaxTrue /\ base \in 0 .. MaxTrue
  /\ anchored \in BOOLEAN /\ arrived \subseteq 0 .. MaxTrue
  /\ run \in Nat /\ by \in {"none", "rtp", "sdes"}
  /\ pkt \in [place : {"none", "highest", "behind", "jumped"}, shift : Int]

\* cycles + max_seq counts the packets from base_seq exactly, over wraps,
\* losses, repeats, reordering and jumps: what update_seq keeps stands for the
\* highest true number, and the number of packets expected is right.
ExtendedHighest ==
  anchored => /\ e.max_seq = SN(high)
              /\ e.cycles + e.max_seq - e.base_seq = high - base

\* The packets between the first and the highest that did not arrive.
Missing == (base .. high) \ arrived

\* getCumulativeNumberOfPacketsLost gives no more packets lost than are missing
\* between the first and the highest: late packets and packets from both sides of a
\* wrap are counted.  It does so as long as no more than 0x800000 packets were
\* repeated: beyond that its lower clamp gives a large positive loss.
LossNotOverstated ==
  anchored /\ e.received <= Expected(e) + LossLimit =>
    getCumulativeNumberOfPacketsLost(e) <= Cardinality(Missing)

\* A number of 24 bits, read as the signed number that RFC 3550 says it is.
Signed(field) == IF field < LossLimit THEN field ELSE field - 2 * LossLimit

\* The field of the receiver report does not overstate the loss however many packets
\* were repeated: what the lower clamp gives is the bit pattern of the lowest number.
\* It says how many are missing, less the repeated ones, when that number fits.
FieldNotOverstated ==
  anchored => LET lost == Expected(e) - e.received
                  field == Signed(CumulativeField(e))
              IN  /\ field <= Cardinality(Missing)
                  /\ -LossLimit <= lost /\ lost < LossLimit => field = lost

\* The interval of getLostFraction is never negative, and something was
\* received in each interval in which something was expected: the fraction
\* stays below 256 and fits its byte.
FractionFits ==
  anchored => /\ e.expected_prior <= Expected(e) /\ e.received_prior <= e.received
              /\ Expected(e) > e.expected_prior => e.received > e.received_prior

\* What a receiver report says of the losses (getCumulativeNumberOfPacketsLost, its
\* field of 24 bits, getLostFraction) is no worse than what happened; the number that
\* getCumulativeNumberOfPacketsLost returns may be, beyond 0x800000 repeated packets.
LossReported == LossNotOverstated /\ FieldNotOverstated /\ FractionFits

\* In probation the code holds out for MIN_SEQUENTIAL packets in a row, and no
\* longer than that, unless the sequence number wrapped among the last of them:
\* max_seq + 1 does not wrap in update_seq, and the count starts again at 0.
ValidatedInTime ==
  e.m_uiProbation > 0 => run < MinSequential \/ SN(high) < MinSequential - 1

\* RTP alone validates a source only after MIN_SEQUENTIAL packets in a row,
\* also when its entry was initialised with the number of another source's
\* packet.
ValidOnlyAfterSequence == by = "rtp" => run >= MinSequential

\* update_seq takes a source for valid after MIN_SEQUENTIAL packets in a row,
\* neither sooner nor, but for a wrap, later.
Validation == ValidatedInTime /\ ValidOnlyAfterSequence

\* The extended number that onReceiveRtpPacket gives a packet is right for a
\* packet that advances max_seq.  For a packet behind it, it may be one cycle
\* too high, and for a packet ahead of it that is not counted, one too low;
\* it is never wrong otherwise.
ExtendedNumber ==
  anchored => LET right == e.base_seq - base
              IN  /\ pkt.place = "highest" => pkt.shift = right
                  /\ pkt.place = "behind" => pkt.shift \in {right, right + SeqMod}
                  /\ pkt.place = "jumped" => pkt.shift \in {right, right - SeqMod}

\* The 16 bit numbers are extended over wraps: the highest one that update_seq
\* keeps exactly, and the one that onReceiveRtpPacket gives a packet exactly or,
\* for one that does not advance max_seq, to within a cycle.
NumbersExtended == ExtendedHighest /\ ExtendedNumber

\* A participant that sent something and then goes, with or without a BYE, is
\* removed from the session.
LeaveIsNoticed == (quiet /\ inDb /\ e.tLast # Never) ~> ~inDb

(***************************************************************************)
(* What the comments say, and the code does not do.                        *)
(***************************************************************************)
\* "Any other session member who has not sent an RTP or RTCP packet since time
\* tc - MTd ... is timed out" (checkMemberDatabase).
SilentTimedOut == quiet ~> ~inDb

\* "The number of packets received is simply the count of packets as they
\* arrive" (getCumulativeNumberOfPacketsLost): of a valid source whose packets
\* arrived, some packets are counted.
ArrivalsCounted == e.m_uiProbation = 0 /\ run > 0 => e.received > 0

\* "it should be clamped at 0x7fffff for positive loss or 0x800000 for negative loss"
\* (MemberEntry.cpp:171): the number returned, which RtpSession also gives to the
\* application, is never more than what is missing.
LossClamped == anchored => getCumulativeNumberOfPacketsLost(e) <= Cardinality(Missing)

\* "this signed number is carried in 24 bits" (MemberEntry.cpp:171): what
\* RtcpRrReportBlock reads from a report is what was written.
LossReadBack ==
  anchored => readCumulative(CumulativeField(e)) = getCumulativeNumberOfPacketsLost(e)

\* "participant is now valid" (updateSdesInfo): a valid participant is valid
\* until it says BYE or is removed.
StaysValid ==
  [][inDb /\ inDb' /\ e.m_uiProbation = 0 => e'.m_uiProbation = 0]_vars

=============================================================================
