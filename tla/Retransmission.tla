--------------------------- MODULE Retransmission ---------------------------
(***************************************************************************)
(* TransmissionManager: the packets a sender keeps so that it can answer   *)
(* NACKs, for which it has three ways of forgetting them: a ring of the    *)
(* last packets (CIRCULAR_MODE), a timer for each packet (NACK_TIMED_MODE) *)
(* and ACKs (ACK_MODE).  m_mTxMap finds a packet by its 16 bit sequence    *)
(* number; in a multipath session m_mSnMap finds that number by the flow   *)
(* and the flow specific number, which count separately.  All these        *)
(* numbers wrap.                                                           *)
(*                                                                         *)
(* Packets are 1, 2, 3... in the order of sending, which is also that of   *)
(* storing: the send of a packet and the callback that stores it are one   *)
(* step.  Of the contents of a packet its identity is kept.                *)
(***************************************************************************)
EXTENDS Integers, Sequences

CONSTANTS
  SeqMod,       \* 2^16: sequence numbers, also those of a flow
  ByteMod,      \* 2^8: what the mask 0xFF leaves of a number
  Capacity,     \* MAX_CIRCULAR
  Flows,        \* flow ids of a multipath session
  Starts,       \* initial values of the sequence numbers
  MaxSent,      \* bound: packets sent
  MaxRtx        \* bound: retransmissions generated

ASSUME RetransmissionAssumption ==
  /\ SeqMod \in Nat /\ ByteMod \in Nat \ {0}
  /\ Capacity \in Nat \ {0} /\ Capacity < SeqMod
  /\ Starts \subseteq 0 .. SeqMod - 1 /\ Starts # {}
  /\ Flows # {}
  /\ MaxSent \in Nat /\ MaxRtx \in Nat

VARIABLES
  m_eMode,
  multipath,              \* whether the packets carry a subflow header
  m_bIsMpRtpSession,      \* TransmissionManager's, which no line initialises
  first,                  \* m_uiSequenceNumber before the first packet
  flowFirst,              \* m_uiFlowSpecificSN of each flow before its first packet
  sent,                   \* the packets sent: flow, and the packets of it before
  sentOn,                 \* packets sent on each flow
  m_mTxMap,               \* sequence number -> packet, None if there is no entry
  acked,                  \* packets whose entry has tAcked set
  m_qCircularBuffer,
  m_mRtxTimers,           \* packets whose removal timer is in the map
  waiting,                \* those of them whose handler is not yet posted
  m_mSnMap,               \* pairs of sequence number and <<flow, FSSN>>
  m_uiRtxSequenceNumber,
  rtx,                    \* the retransmission on its way, or NoRtx
  restored,               \* what the receiver made of the last one, or NoRtx
  generated               \* retransmissions so far

confVars == <<m_eMode, multipath, m_bIsMpRtpSession, first, flowFirst>>
sentVars == <<sent, sentOn>>
bufferVars == <<m_mTxMap, acked, m_qCircularBuffer, m_mRtxTimers, waiting, m_mSnMap>>
rtxVars == <<m_uiRtxSequenceNumber, rtx, restored, generated>>
vars == <<confVars, sentVars, bufferVars, rtxVars>>

SNs == 0 .. SeqMod - 1
Packets == 1 .. Len(sent)
None == 0
NoRtx == [packet |-> None]

SN(i) == (first + i - 1) % SeqMod
FSSN(i) == (flowFirst[sent[i].flow] + sent[i].before) % SeqMod
Label(i) == <<sent[i].flow, FSSN(i)>>
Labels(label) == IF multipath THEN {label} ELSE {}    \* getMpRtpSubflowHeader

Init ==
  /\ m_eMode \in {"CIRCULAR_MODE", "NACK_TIMED_MODE", "ACK_MODE"}
  /\ multipath \in BOOLEAN /\ m_bIsMpRtpSession \in BOOLEAN
  /\ first \in Starts /\ flowFirst \in [Flows -> Starts]
  /\ sent = <<>> /\ sentOn = [f \in Flows |-> 0]
  /\ m_mTxMap = [sn \in SNs |-> None] /\ acked = {}
  /\ m_qCircularBuffer = [k \in 1 .. Capacity |-> 0]
  /\ m_mRtxTimers = {} /\ waiting = {}
  /\ m_mSnMap = {}
  /\ m_uiRtxSequenceNumber \in Starts
  /\ rtx = NoRtx /\ restored = NoRtx /\ generated = 0

-----------------------------------------------------------------------------
(* The buffer.                                                             *)

\* std::unordered_map::insert keeps an entry that is there.
Inserted(sn, i) == IF m_mTxMap[sn] = None THEN [m_mTxMap EXCEPT ![sn] = i] ELSE m_mTxMap

\* boost::bimap::insert refuses a pair of which either half is there.
Mapped(sn, labels) ==
  m_mSnMap \cup {<<sn, label>> : label \in
                   {l \in labels : \A p \in m_mSnMap : p[1] # sn /\ p[2] # l}}

removePacketFromTxBuffer(sn, txMap, snMap) ==
  /\ m_mTxMap' = [txMap EXCEPT ![sn] = None]
  /\ acked' = acked \ {txMap[sn]}
  /\ m_mSnMap' = IF m_bIsMpRtpSession THEN {p \in snMap : p[1] # sn} ELSE snMap

insertPacketIntoTxBuffer(sn, i, labels) ==
  /\ m_mTxMap' = Inserted(sn, i)
  /\ m_mSnMap' = Mapped(sn, labels)
  /\ UNCHANGED acked

\* The ring takes the number of the packet and gives up its oldest one,
\* whose packet is removed after the new one is inserted.
Grown(sn) == Append(m_qCircularBuffer, sn)
Rotated(sn) == Tail(Grown(sn))
RemovesNewest(sn) == sn
RemovesOldest(sn) == Head(Grown(sn))

storeCircular(sn, i, labels) ==
  /\ m_eMode = "CIRCULAR_MODE"
  /\ m_qCircularBuffer' = Rotated(sn)
  /\ removePacketFromTxBuffer(RemovesOldest(sn), Inserted(sn, i), Mapped(sn, labels))
  /\ UNCHANGED <<m_mRtxTimers, waiting>>

storeTimed(sn, i, labels) ==
  /\ m_eMode = "NACK_TIMED_MODE"
  /\ insertPacketIntoTxBuffer(sn, i, labels)
  /\ m_mRtxTimers' = m_mRtxTimers \cup {i}
  /\ waiting' = waiting \cup {i}
  /\ UNCHANGED m_qCircularBuffer

storeAcked(sn, i, labels) ==
  /\ m_eMode = "ACK_MODE"
  /\ insertPacketIntoTxBuffer(sn, i, labels)
  /\ UNCHANGED <<m_qCircularBuffer, m_mRtxTimers, waiting>>

\* The header's payload type decides: retransmissions are not stored.
Stores(isRtx) == ~isRtx

storePacketForRetransmission(sn, i, labels, isRtx) ==
  \/ /\ Stores(isRtx)
     /\ \/ storeCircular(sn, i, labels)
        \/ storeTimed(sn, i, labels)
        \/ storeAcked(sn, i, labels)
  \/ /\ ~Stores(isRtx)
     /\ UNCHANGED bufferVars

-----------------------------------------------------------------------------
(* The sender.                                                             *)

SinglePath == CHOOSE f \in Flows : TRUE

\* The retransmission time is far shorter than a cycle of sequence numbers.
CycleOutlastsTimers == \A i \in m_mRtxTimers : Len(sent) + 1 - i < SeqMod

\* sendRtpPacket and, when it is sent, doHandleOutgoingRtp.
sendRtpPacket(f) ==
  LET i == Len(sent) + 1
      fssn == (flowFirst[f] + sentOn[f]) % SeqMod
  IN /\ i <= MaxSent
     /\ multipath \/ f = SinglePath
     /\ CycleOutlastsTimers
     /\ sent' = Append(sent, [flow |-> f, before |-> sentOn[f]])
     /\ sentOn' = [sentOn EXCEPT ![f] = @ + 1]
     /\ storePacketForRetransmission(SN(i), i, Labels(<<f, fssn>>), FALSE)
     /\ UNCHANGED <<confVars, rtxVars>>

\* All timers run for the same time, so that the oldest expires first.
TimerExpires ==
  /\ \E i \in waiting :
       /\ \A j \in waiting : i <= j
       /\ waiting' = waiting \ {i}
  /\ UNCHANGED <<confVars, sentVars, m_mTxMap, acked, m_qCircularBuffer, m_mRtxTimers,
                 m_mSnMap, rtxVars>>

stopForgetsTimers ==
  /\ m_eMode = "NACK_TIMED_MODE"
  /\ waiting # {}
  /\ waiting' = {} /\ m_mRtxTimers' = {}
  /\ UNCHANGED <<confVars, sentVars, m_mTxMap, acked, m_qCircularBuffer, m_mSnMap, rtxVars>>

\* stop() cancels the timers, which posts their handlers.
stop ==
  /\ m_eMode = "NACK_TIMED_MODE"
  /\ waiting # {}
  /\ waiting' = {}
  /\ UNCHANGED <<confVars, sentVars, m_mTxMap, acked, m_qCircularBuffer, m_mRtxTimers,
                 m_mSnMap, rtxVars>>

\* The handler does not look at its error code: a cancelled one removes the
\* packet as well.
onRemoveRtpPacketTimeout(i) ==
  /\ i \in m_mRtxTimers \ waiting
  /\ m_mRtxTimers' = m_mRtxTimers \ {i}
  /\ removePacketFromTxBuffer(SN(i), m_mTxMap, m_mSnMap)
  /\ UNCHANGED <<confVars, sentVars, m_qCircularBuffer, waiting, rtxVars>>

\* An ACK marks the entry, which stays: the line that would erase it is
\* compiled out.  ACKs are negotiated in ACK_MODE only.
ack(sn) ==
  /\ m_eMode = "ACK_MODE"
  /\ m_mTxMap[sn] # None
  /\ acked' = acked \cup {m_mTxMap[sn]}
  /\ UNCHANGED <<confVars, sentVars, m_mTxMap, m_qCircularBuffer, m_mRtxTimers, waiting,
                 m_mSnMap, rtxVars>>

-----------------------------------------------------------------------------
(* NACKs and retransmissions.                                              *)

\* The label in the payload of the retransmission of sn, if there is one: its
\* FSSN is masked.
CarriedLabels(sn) == {<<p[2][1], p[2][2] % ByteMod>> : p \in {q \in m_mSnMap : q[1] = sn}}

\* asked holds the label of a NACK for a flow, and is empty for a generic NACK.
generateRetransmissionPacket(sn, asked) ==
  /\ rtx = NoRtx /\ generated < MaxRtx
  /\ m_mTxMap[sn] # None
  /\ rtx' = [packet |-> m_mTxMap[sn], number |-> m_uiRtxSequenceNumber,
             original |-> SN(m_mTxMap[sn]), labels |-> CarriedLabels(sn),
             nack |-> sn, asked |-> asked, outOf |-> Len(sent), sent |-> FALSE]
  /\ m_uiRtxSequenceNumber' = (m_uiRtxSequenceNumber + 1) % SeqMod
  /\ generated' = generated + 1
  /\ UNCHANGED <<confVars, sentVars, bufferVars, restored>>

handleNack(sn) == generateRetransmissionPacket(sn, {})

\* lookupSequenceNumber
FoundByFSSN(label) == {p \in m_mSnMap : p[2][2] = label[2]}
FoundByLabel(label) == {p \in m_mSnMap : p[2] = label}

handleNackOfFlow(f, fssn) ==
  \E p \in FoundByLabel(<<f, fssn>>) : generateRetransmissionPacket(p[1], {<<f, fssn>>})

\* The scheduler sends it, and the callback of the send comes here too.
sendRtxPacket ==
  /\ rtx # NoRtx /\ ~rtx.sent
  /\ rtx' = [rtx EXCEPT !.sent = TRUE]
  /\ storePacketForRetransmission(rtx.number, rtx.packet, rtx.labels, TRUE)
  /\ UNCHANGED <<confVars, sentVars, m_uiRtxSequenceNumber, restored, generated>>

\* The receiver reads the original number from the payload and takes it for
\* the extended number; in a multipath session it reads the label too, which
\* is payload when the sender wrote none.
processRetransmission ==
  /\ rtx # NoRtx /\ rtx.sent
  /\ restored' = [packet |-> rtx.packet, extended |-> rtx.original,
                  labels |-> IF multipath THEN rtx.labels ELSE {}]
  /\ rtx' = NoRtx
  /\ UNCHANGED <<confVars, sentVars, bufferVars, m_uiRtxSequenceNumber, generated>>

loseRtx ==
  /\ rtx # NoRtx /\ rtx.sent
  /\ rtx' = NoRtx
  /\ UNCHANGED <<confVars, sentVars, bufferVars, m_uiRtxSequenceNumber, restored, generated>>

Next ==
  \/ \E f \in Flows : sendRtpPacket(f)
  \/ TimerExpires
  \/ stop
  \/ \E i \in m_mRtxTimers : onRemoveRtpPacketTimeout(i)
  \/ \E sn \in SNs : ack(sn)
  \/ \E sn \in SNs : handleNack(sn)
  \/ \E f \in Flows, fssn \in SNs : handleNackOfFlow(f, fssn)
  \/ sendRtxPacket
  \/ processRetransmission
  \/ loseRtx

Spec == Init /\ [][Next]_vars

\* Timers expire and the io_service runs what is posted.
FairSpec ==
  /\ Spec
  /\ WF_vars(TimerExpires)
  /\ \A i \in 1 .. MaxSent : WF_vars(onRemoveRtpPacketTimeout(i))

-----------------------------------------------------------------------------
(* Properties.                                                             *)

Sendings == [flow : Flows, before : Nat]
Rtxs == [packet : Packets, number : SNs, original : SNs, labels : SUBSET (Flows \X Nat),
         nack : SNs, asked : SUBSET (Flows \X SNs), outOf : Nat, sent : BOOLEAN]
Restorations == [packet : Packets, extended : SNs, labels : SUBSET (Flows \X Nat)]

\* The state of the manager has its type, and the ring never grows.
TypeOK ==
  /\ m_eMode \in {"CIRCULAR_MODE", "NACK_TIMED_MODE", "ACK_MODE"}
  /\ multipath \in BOOLEAN /\ m_bIsMpRtpSession \in BOOLEAN
  /\ first \in SNs /\ flowFirst \in [Flows -> SNs]
  /\ sent \in Seq(Sendings) /\ sentOn \in [Flows -> Nat]
  /\ m_mTxMap \in [SNs -> {None} \cup Packets]
  /\ acked \subseteq Packets
  /\ m_qCircularBuffer \in [1 .. Capacity -> SNs]
  /\ m_mRtxTimers \subseteq Packets /\ waiting \subseteq m_mRtxTimers
  /\ m_mSnMap \subseteq SNs \X (Flows \X SNs)
  /\ m_uiRtxSequenceNumber \in SNs /\ generated \in Nat
  /\ rtx \in {NoRtx} \cup Rtxs /\ restored \in {NoRtx} \cup Restorations

\* Forgetting is by the ring or by timers: in ACK_MODE nothing is forgotten.
Forgets == m_eMode # "ACK_MODE"

\* The last of n packets, and the first of all, with a sequence number.
Newest(sn, i, n) == i \in 1 .. n /\ SN(i) = sn /\ \A j \in i + 1 .. n : SN(j) # sn
First(sn, i) == i \in Packets /\ SN(i) = sn /\ \A j \in 1 .. i - 1 : SN(j) # sn

\* What the buffer holds under a number is the packet that was last sent
\* with it, however often the numbers wrapped
\* (storePacketForRetransmission, removePacketFromTxBuffer).
NewestWithNumber ==
  Forgets => \A sn \in SNs : m_mTxMap[sn] # None => Newest(sn, m_mTxMap[sn], Len(sent))

\* The ring holds the last Capacity packets, except that it starts full of
\* zeros and so forgets a packet with number 0 among the first; the timed
\* buffer holds a packet until its timer's handler ran.  Neither holds more.
Retained ==
  IF m_eMode = "CIRCULAR_MODE"
  THEN {i \in Packets : i > Len(sent) - Capacity /\ (SN(i) = 0 => i > Capacity)}
  ELSE m_mRtxTimers

RetainedIsHeld ==
  Forgets => {m_mTxMap[sn] : sn \in SNs} \ {None} = Retained

\* In a multipath session whose m_bIsMpRtpSession happens to be true the two
\* maps agree: a label is there when its packet is, with that packet's number.
PathMapFollows ==
  Forgets /\ multipath /\ m_bIsMpRtpSession =>
    m_mSnMap = {<<SN(i), Label(i)>> : i \in Retained}

\* In ACK_MODE nothing is removed and insert() does not replace: under each number
\* that was used the buffer holds the first packet with it, for ever.
HoldsFirst ==
  ~Forgets =>
    /\ \A i \in Packets : m_mTxMap[SN(i)] # None
    /\ \A sn \in SNs : m_mTxMap[sn] # None => First(sn, m_mTxMap[sn])

\* The transmission buffer holds exactly the packets that its mode retains, each under
\* its number, over any number of wraps: with a ring the last Capacity packets, but for
\* those with number 0 among the first of them, which the zeros it starts with take
\* away; with timers the packets whose time is not over; in ACK_MODE the first packet
\* with each number, not the last.  On several paths the labels are those of these
\* packets, when not in ACK_MODE and m_bIsMpRtpSession happens to be true.
BufferExact == NewestWithNumber /\ RetainedIsHeld /\ PathMapFollows /\ HoldsFirst

\* A retransmission carries a packet with the sequence number of the NACK: with a ring
\* or timers the newest one when the NACK came, in ACK_MODE the oldest one, which after
\* a wrap is not the packet that the receiver misses.  The answer to a NACK of a flow
\* has the label that was asked for in the first cycle of sequence numbers, and after
\* it when labels are removed with their packets, that is not in ACK_MODE and not when
\* m_bIsMpRtpSession is false (handleNacks, lookupSequenceNumber,
\* generateRetransmissionPacket).
AnswersNack ==
  rtx # NoRtx =>
    /\ rtx.nack = rtx.original
    /\ IF Forgets THEN Newest(rtx.original, rtx.packet, rtx.outOf)
                  ELSE First(rtx.original, rtx.packet)
    /\ rtx.outOf <= SeqMod \/ (Forgets /\ m_bIsMpRtpSession) =>
         \A label \in rtx.asked : label = Label(rtx.packet)

\* Every packet of the timed buffer is removed, also when the session is
\* stopped before its time is over (onRemoveRtpPacketTimeout).
EventuallyForgotten ==
  \A i \in 1 .. MaxSent :
    (m_eMode = "NACK_TIMED_MODE" /\ i \in Packets /\ m_mTxMap[SN(i)] = i) ~>
      (m_mTxMap[SN(i)] # i)

-----------------------------------------------------------------------------
(* What comments say and the code does not do.                             *)

\* TransmissionManager.h:32: "in this mode the last n packets are stored in
\* the rtx buffer".
LastPacketsStored ==
  m_eMode = "CIRCULAR_MODE" =>
    \A i \in Packets : i > Len(sent) - Capacity => m_mTxMap[SN(i)] = i

\* TransmissionManager.h:46: "packets that have been acked are removed from
\* the retransmission buffer immediately".
AckedRemoved == acked = {}

\* TransmissionManager.h:119-121: a retransmission is processed so that it
\* "restores the original RTP packet".
RestoresOriginal ==
  restored # NoRtx =>
    /\ restored.extended = first + restored.packet - 1
    /\ multipath => restored.labels = {Label(restored.packet)}

\* TransmissionManager.h:115: lookupSequenceNumber returns true if it was able
\* "to determine the global sequence number associated with the flow id and
\* FSSN".
LookupFindsPacket ==
  Forgets => \A p \in m_mSnMap : \E i \in Packets : p = <<SN(i), Label(i)>> /\ m_mTxMap[p[1]] = i

\* RtpSessionManager.cpp:398: "hybrid ACK and NACK mode: in that case ACK-mode controls
\* buffer management", of which TransmissionManager.h:34 says that packets are removed
\* "when the difference exceeds a predefined max": a NACK is then answered with the
\* packet last sent with its number.
HybridAnswersNack == rtx # NoRtx => Newest(rtx.original, rtx.packet, rtx.outOf)
=============================================================================
