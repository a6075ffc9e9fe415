-------------------------- MODULE RtspClientProofs --------------------------
(***************************************************************************)
(* The type invariant, RequestHasCarrier and MediaFollowsSession of        *)
(* RtspClient, for any number of media, connections and breaks.            *)
(*                                                                         *)
(* The handlers are operators on the client's state, so each has a lemma:  *)
(* it takes a good state (Good) to a good state.  The argument rests on    *)
(* two facts.  A request is in at most one place of at most one            *)
(* connection, and of the requests that lead to another request one can    *)
(* still be answered (Net): so the handler of a response that is read      *)
(* finds the session as far as the request says (Progress), though errors  *)
(* pop m_qOutstandingRequests whichever connection they are about.  And    *)
(* the outstanding request is carried (Carried) by a connection that will  *)
(* resolve it, which holds again only once an error is reported (Loose is  *)
(* the rest of the invariant).                                             *)
(***************************************************************************)
EXTENDS RtspClient, SequenceTheorems, TLAPS

-----------------------------------------------------------------------------
(* Types of the records.                                                   *)

MessageRec == [type : {"MT_RTSP", "MT_RTP_RTCP", "BYE"}, id : Nat]
AnswerKinds ==
  {"ok", "error", "garbled"} \cup (IF conf.headers THEN {} ELSE Incomplete)
ResponseRec == [sn : Nat, answer : AnswerKinds]
ConnRec ==
  [m_eState : {"CONNECTING", "CONNECTED", "CLOSED", "ERROR"},
   m_qRtspRequests : Seq(MessageRec),
   connecting : BOOLEAN, reading : BOOLEAN, writing : BOOLEAN, written : BOOLEAN,
   open : BOOLEAN, closing : BOOLEAN, broken : BOOLEAN,
   atServer : SUBSET Nat, responses : Seq(ResponseRec)]
Confs == [media : Nat, transport : Transports, only : {"all", "options", "describe"},
          duration : BOOLEAN, headers : BOOLEAN]
ClientRec ==
  [conns : Seq(ConnRec), m_pConnection : Nat,
   m_mRequestMap : Seq(Methods), m_qOutstandingRequests : Seq(Methods),
   clientDown : BOOLEAN, m_eState : {"INIT", "SETUP", "PLAYING", "TEARING_DOWN"},
   m_bShuttingDown : BOOLEAN, selected : Nat, m_uiSetupCount : Nat,
   m_bInterleaved : BOOLEAN,
   media : {"none", "running", "stopping", "leaving", "complete"},
   via : Nat, m_timer : BOOLEAN, ended : BOOLEAN,
   fault : {"none", "assert", "connection", "range", "header"}]

-----------------------------------------------------------------------------
(* The inductive invariant.                                                *)

\* Where the request sn is on a connection d: in its queue, at the server, or
\* answered and not yet read.
Queued(d, sn) ==
  \E i \in 1 .. Len(d.m_qRtspRequests) : d.m_qRtspRequests[i] = Request(sn)
Answered(d, sn) == \E i \in 1 .. Len(d.responses) : d.responses[i].sn = sn
Live(d, sn) == Queued(d, sn) \/ sn \in d.atServer \/ Answered(d, sn)

\* The handlers under way on a connection agree with its state: what is in the
\* queue of a connection that is set up is being written, and it is read from.
\* n requests have been sent.
ConnInv(d, n) ==
  /\ d.writing => d.m_qRtspRequests # <<>>
  /\ d.connecting => ~d.writing
  /\ d.m_eState = "CONNECTING" => d.connecting
  /\ d.m_eState = "CONNECTED" =>
       ~d.connecting /\ d.reading /\ (d.m_qRtspRequests # <<>> => d.writing)
  /\ \A i \in 1 .. Len(d.m_qRtspRequests) :
       /\ d.m_qRtspRequests[i].id <= n
       /\ d.m_qRtspRequests[i].type = "MT_RTSP" => d.m_qRtspRequests[i].id >= 1
  /\ d.atServer \subseteq 1 .. n
  /\ \A i \in 1 .. Len(d.responses) : d.responses[i].sn \in 1 .. n

\* A request is in one place of a connection.
OnePlace(d) ==
  /\ \A i, j \in 1 .. Len(d.m_qRtspRequests) :
       d.m_qRtspRequests[i].type = "MT_RTSP" /\ d.m_qRtspRequests[i] = d.m_qRtspRequests[j] => i = j
  /\ \A i, j \in 1 .. Len(d.responses) : d.responses[i].sn = d.responses[j].sn => i = j
  /\ \A i \in 1 .. Len(d.responses) :
       d.responses[i].sn \notin d.atServer /\ ~Queued(d, d.responses[i].sn)
  /\ \A sn \in d.atServer : ~Queued(d, sn)

\* Of all connections one has a given request, and of the requests that lead to
\* another one (all but TEARDOWN) one can still be answered.
Chained(conns, map, b, c, m, n) ==
  Live(conns[b], m) /\ Live(conns[c], n) =>
    /\ m = n => b = c
    /\ map[m] # "TEARDOWN" /\ map[n] # "TEARDOWN" => m = n

OneChain(conns, map) ==
  \A b, c \in 1 .. Len(conns) : \A m, n \in 1 .. Len(map) : Chained(conns, map, b, c, m, n)

Net(conns, map) ==
  /\ \A c \in 1 .. Len(conns) : ConnInv(conns[c], Len(map)) /\ OnePlace(conns[c])
  /\ OneChain(conns, map)

NotPlayed(s) ==
  /\ s.media = "none"
  /\ \A i \in 1 .. Len(s.m_mRequestMap) : s.m_mRequestMap[i] # "PLAY"

\* A SETUP is to be answered: if the answers have their headers, some media is still
\* to be set up and nothing has been played.
SetupOpen(s) == conf.headers => s.m_uiSetupCount < s.selected /\ NotPlayed(s)

\* How far the session is when a request of the chain can still be answered.
Progress(s) ==
  \A c \in 1 .. Len(s.conns) : \A n \in 1 .. Len(s.m_mRequestMap) :
    Live(s.conns[c], n) =>
      /\ s.m_mRequestMap[n] \in {"OPTIONS", "DESCRIBE"} => s.m_uiSetupCount = 0 /\ NotPlayed(s)
      /\ s.m_mRequestMap[n] = "SETUP" => SetupOpen(s)

\* The connection d resolves the request sn: RequestHasCarrier, and a connection
\* that writes the request is still read from.
Carries(d, sn) ==
  \/ (d.connecting \/ (d.writing /\ d.reading)) /\ Queued(d, sn)
  \/ d.reading /\ (d.broken \/ ~d.open \/ sn \in d.atServer \/ Answered(d, sn))

Carried(s) ==
  s.m_qOutstandingRequests # <<>> /\ ~s.clientDown =>
    \E c \in 1 .. Len(s.conns) : Carries(s.conns[c], Len(s.m_mRequestMap))

\* The RTCP BYE waits to be written.
HasBye(d) == \E i \in 1 .. Len(d.m_qRtspRequests) : d.m_qRtspRequests[i].type = "BYE"

\* Once the media has been stopped nothing is outstanding and nothing more is sent.
Stopped(s) == s.media \in {"stopping", "leaving", "complete"}

Session(s) ==
  /\ Len(s.m_qOutstandingRequests) <= 1
  /\ s.m_pConnection <= Len(s.conns)
  /\ s.m_uiSetupCount <= s.selected /\ s.selected \in {0, conf.media}
  /\ conf.headers =>
       /\ s.fault \notin {"range", "header"}
       /\ NotPlayed(s) \/ (s.m_uiSetupCount = s.selected /\ s.selected > 0)
  /\ s.m_eState = "PLAYING" /\ conf.transport \in {"udp", "tcp"} => s.media = "running"
  /\ s.m_eState = "INIT" => s.media # "running"
  /\ Stopped(s) => s.m_qOutstandingRequests = <<>> /\ s.m_eState = "INIT"
  /\ \A c \in 1 .. Len(s.conns) : HasBye(s.conns[c]) => Stopped(s)
  /\ s.media # "none" => s.via \in 1 .. Len(s.conns)
  /\ s.fault = "none" /\ s.media = "none" /\ conf.transport \in {"udp", "tcp"} => NotPlayed(s)

ClientInv(s) ==
  /\ Session(s) /\ Progress(s) /\ Carried(s) /\ Net(s.conns, s.m_mRequestMap)

Inv ==
  /\ conf \in Confs /\ started \in BOOLEAN
  /\ client \in ClientRec
  /\ ~started => /\ client.conns = <<>> /\ client.m_mRequestMap = <<>>
                 /\ client.m_qOutstandingRequests = <<>>
                 /\ client.media = "none" /\ client.m_eState = "INIT" /\ client.m_uiSetupCount = 0
  /\ ClientInv(client)
-----------------------------------------------------------------------------
(* Facts about one connection.                                             *)

LEMMA ConnFields ==
  ASSUME NEW d \in ConnRec
  PROVE  /\ d.m_eState \in {"CONNECTING", "CONNECTED", "CLOSED", "ERROR"}
         /\ d.m_qRtspRequests \in Seq(MessageRec)
         /\ d.connecting \in BOOLEAN /\ d.reading \in BOOLEAN /\ d.writing \in BOOLEAN
         /\ d.written \in BOOLEAN /\ d.open \in BOOLEAN /\ d.closing \in BOOLEAN
         /\ d.broken \in BOOLEAN
         /\ d.atServer \in SUBSET Nat /\ d.responses \in Seq(ResponseRec)
BY DEF ConnRec

LEMMA MessageFields ==
  ASSUME NEW m \in MessageRec
  PROVE  m.type \in {"MT_RTSP", "MT_RTP_RTCP", "BYE"} /\ m.id \in Nat
BY DEF MessageRec

LEMMA ResponseFields ==
  ASSUME NEW r \in ResponseRec
  PROVE  r.sn \in Nat /\ r.answer \in AnswerKinds
BY DEF ResponseRec

LEMMA RequestType ==
  ASSUME NEW sn \in Nat
  PROVE  /\ Request(sn) \in MessageRec
         /\ Request(sn).type = "MT_RTSP" /\ Request(sn).id = sn
BY DEF Request, Message, MessageRec

\* What is live on a connection is one of the n requests sent.
LEMMA LiveRange ==
  ASSUME NEW d \in ConnRec, NEW n \in Nat, ConnInv(d, n), NEW sn \in Nat, Live(d, sn)
  PROVE  sn \in 1 .. n
<1>1. CASE Queued(d, sn)
  BY <1>1, ConnFields, RequestType, MessageFields DEF Queued, ConnInv
<1>2. CASE sn \in d.atServer
  BY <1>2 DEF ConnInv
<1>3. CASE Answered(d, sn)
  BY <1>3, ConnFields DEF Answered, ConnInv
<1> QED BY <1>1, <1>2, <1>3 DEF Live

\* A connection whose messages and handlers are those of d, whatever became of
\* closing, is as good as d.
LEMMA CloseConn ==
  ASSUME NEW d \in ConnRec
  PROVE  /\ close(d) \in ConnRec
         /\ \A n : ConnInv(d, n) => ConnInv(close(d), n)
         /\ OnePlace(d) => OnePlace(close(d))
         /\ HasBye(close(d)) <=> HasBye(d)
         /\ \A sn : Live(close(d), sn) <=> Live(d, sn)
         /\ \A sn : Carries(close(d), sn) <=> Carries(d, sn)
<1> DEFINE e == close(d)
<1>1. /\ e \in ConnRec
      /\ e.m_eState = d.m_eState /\ e.m_qRtspRequests = d.m_qRtspRequests
      /\ e.connecting = d.connecting /\ e.reading = d.reading /\ e.writing = d.writing
      /\ e.open = d.open /\ e.broken = d.broken
      /\ e.atServer = d.atServer /\ e.responses = d.responses
  BY DEF close, ConnRec
<1> HIDE DEF e
<1>2. /\ \A n : ConnInv(d, n) => ConnInv(e, n)
      /\ OnePlace(d) => OnePlace(e)
      /\ HasBye(e) <=> HasBye(d)
  BY <1>1 DEF ConnInv, OnePlace, Queued, HasBye
<1>3. \A sn : /\ Queued(e, sn) <=> Queued(d, sn)
              /\ Answered(e, sn) <=> Answered(d, sn)
  BY <1>1 DEF Queued, Answered
<1> QED BY <1>1, <1>2, <1>3 DEF Live, Carries, e

\* write() on a connection that has not failed puts the message at the end of
\* the queue.
LEMMA WriteConn ==
  ASSUME NEW d \in ConnRec, ~eof(d), NEW n \in Nat, ConnInv(d, n), NEW msg \in MessageRec
  PROVE  LET e == write(d, msg)
         IN  /\ e \in ConnRec
             /\ e.m_qRtspRequests = Append(d.m_qRtspRequests, msg)
             /\ e.m_eState = d.m_eState /\ e.connecting = d.connecting
             /\ e.reading = d.reading /\ e.open = d.open /\ e.broken = d.broken
             /\ e.atServer = d.atServer /\ e.responses = d.responses
             /\ e.writing = (d.m_eState = "CONNECTED")
<1>1. CASE d.m_eState = "CONNECTED"
  <2>1. write(d, msg) = [Enqueue(d, msg) EXCEPT !.writing = @ \/ d.m_qRtspRequests = <<>>]
    BY <1>1 DEF write
  <2>2. Append(d.m_qRtspRequests, msg) \in Seq(MessageRec)
    BY ConnFields
  <2>3. /\ Enqueue(d, msg) \in ConnRec
        /\ Enqueue(d, msg).m_qRtspRequests = Append(d.m_qRtspRequests, msg)
        /\ Enqueue(d, msg).m_eState = d.m_eState /\ Enqueue(d, msg).connecting = d.connecting
        /\ Enqueue(d, msg).reading = d.reading /\ Enqueue(d, msg).open = d.open
        /\ Enqueue(d, msg).broken = d.broken /\ Enqueue(d, msg).writing = d.writing
        /\ Enqueue(d, msg).atServer = d.atServer /\ Enqueue(d, msg).responses = d.responses
    BY <2>2 DEF Enqueue, ConnRec
  <2>4. d.writing \/ d.m_qRtspRequests = <<>>
    BY <1>1 DEF ConnInv
  <2> QED BY <1>1, <2>1, <2>3, <2>4 DEF ConnRec
<1>2. CASE d.m_eState = "CONNECTING"
  <2>1. write(d, msg) = Enqueue(d, msg)
    BY <1>2 DEF write
  <2>2. Append(d.m_qRtspRequests, msg) \in Seq(MessageRec)
    BY ConnFields
  <2>3. d.writing = FALSE
    BY <1>2, ConnFields DEF ConnInv
  <2> QED BY <1>2, <2>1, <2>2, <2>3 DEF Enqueue, ConnRec
<1> QED BY <1>1, <1>2, ConnFields DEF eof

\* The first request of a connection starts it.
LEMMA WriteNew ==
  ASSUME NEW n \in Nat, n > 0
  PROVE  LET e == write(NewConnection, Request(n))
         IN  /\ e \in ConnRec
             /\ ConnInv(e, n) /\ OnePlace(e) /\ Carries(e, n)
             /\ \A sn \in Nat : Live(e, sn) <=> sn = n
             /\ ~HasBye(e)
<1> DEFINE e == write(NewConnection, Request(n))
<1>1. e = [[NewConnection EXCEPT !.m_qRtspRequests = <<Request(n)>>] EXCEPT
             !.m_eState = "CONNECTING", !.connecting = TRUE, !.open = TRUE]
  <2>1. NewConnection.m_eState = "READY" /\ NewConnection.m_qRtspRequests = <<>>
    BY DEF NewConnection
  <2>2. e = [Enqueue(NewConnection, Request(n)) EXCEPT
               !.m_eState = "CONNECTING", !.connecting = TRUE, !.open = TRUE]
    BY <2>1 DEF write
  <2>3. Append(<<>>, Request(n)) = <<Request(n)>>
    OBVIOUS
  <2> QED BY <2>1, <2>2, <2>3 DEF Enqueue
<1> HIDE DEF e
<1>2. <<Request(n)>> \in Seq(MessageRec) /\ << >> \in Seq(ResponseRec)
  BY RequestType
<1>3. e \in ConnRec
  BY <1>1, <1>2 DEF ConnRec, NewConnection
<1>4. /\ e.m_eState = "CONNECTING" /\ e.m_qRtspRequests = <<Request(n)>> /\ e.connecting
      /\ ~e.writing /\ e.atServer = {} /\ e.responses = <<>>
  BY <1>1 DEF NewConnection
<1>5. Request(n).id = n /\ Request(n).type = "MT_RTSP"
  BY RequestType
<1>6. \A sn \in Nat : Queued(e, sn) <=> sn = n
  BY <1>4, RequestType DEF Queued
<1>7. ConnInv(e, n)
  BY <1>4, <1>5 DEF ConnInv
<1>8. OnePlace(e)
  BY <1>4 DEF OnePlace
<1>9. Carries(e, n) /\ \A sn \in Nat : Live(e, sn) <=> sn = n
  BY <1>4, <1>6 DEF Carries, Live, Answered
<1>10. ~HasBye(e)
  BY <1>4, <1>5 DEF HasBye
<1> QED BY <1>3, <1>7, <1>8, <1>9, <1>10 DEF e

\* A further message of a connection that has not failed.
LEMMA WriteKeeps ==
  ASSUME NEW d \in ConnRec, ~eof(d), NEW n \in Nat, ConnInv(d, n), OnePlace(d),
         NEW msg \in MessageRec, msg.type # "MT_RTSP", msg.id = 0
  PROVE  LET e == write(d, msg)
         IN  /\ e \in ConnRec /\ ConnInv(e, n) /\ OnePlace(e)
             /\ \A sn \in Nat : Live(e, sn) <=> Live(d, sn)
             /\ \A sn \in Nat : Carries(d, sn) => Carries(e, sn)
             /\ msg.type # "BYE" /\ HasBye(e) => HasBye(d)
<1> DEFINE e == write(d, msg)
<1>1. /\ e \in ConnRec
      /\ e.m_qRtspRequests = Append(d.m_qRtspRequests, msg)
      /\ e.m_eState = d.m_eState /\ e.connecting = d.connecting
      /\ e.reading = d.reading /\ e.open = d.open /\ e.broken = d.broken
      /\ e.atServer = d.atServer /\ e.responses = d.responses
      /\ e.writing = (d.m_eState = "CONNECTED")
  BY WriteConn
<1> HIDE DEF e
<1>2. d.m_qRtspRequests \in Seq(MessageRec) /\ d.responses \in Seq(ResponseRec)
  BY ConnFields
<1>3. \A sn \in Nat : Queued(e, sn) <=> Queued(d, sn)
  BY <1>1, <1>2, RequestType DEF Queued
<1>4. \A sn \in Nat : Answered(e, sn) <=> Answered(d, sn)
  BY <1>1 DEF Answered
<1>5. ConnInv(e, n)
  BY <1>1, <1>2, ConnFields DEF ConnInv, eof
<1>6. OnePlace(e)
  <2>1. \A i, j \in 1 .. Len(e.m_qRtspRequests) :
          e.m_qRtspRequests[i].type = "MT_RTSP" /\ e.m_qRtspRequests[i] = e.m_qRtspRequests[j] => i = j
    BY <1>1, <1>2 DEF OnePlace
  <2>2. \A i \in 1 .. Len(d.responses) : d.responses[i].sn \in Nat
    BY <1>2, ResponseFields
  <2>3. \A sn \in d.atServer : sn \in Nat
    BY ConnFields
  <2> QED BY <1>1, <1>3, <2>1, <2>2, <2>3 DEF OnePlace
<1>7. d.writing => e.writing
  BY <1>1, ConnFields DEF ConnInv, eof
<1>8. \A sn \in Nat : Carries(d, sn) => Carries(e, sn)
  BY <1>1, <1>3, <1>4, <1>7 DEF Carries
<1>9. msg.type # "BYE" /\ HasBye(e) => HasBye(d)
  BY <1>1, <1>2 DEF HasBye
<1> QED BY <1>1, <1>3, <1>4, <1>5, <1>6, <1>8, <1>9 DEF Live, e

\* A new request of a connection that has not failed.
LEMMA WriteRequest ==
  ASSUME NEW d \in ConnRec, ~eof(d), NEW n \in Nat, ConnInv(d, n), OnePlace(d)
  PROVE  LET e == write(d, Request(n + 1))
         IN  /\ e \in ConnRec /\ ConnInv(e, n + 1) /\ OnePlace(e) /\ Carries(e, n + 1)
             /\ \A sn \in Nat : Live(e, sn) <=> Live(d, sn) \/ sn = n + 1
             /\ HasBye(e) => HasBye(d)
<1> DEFINE msg == Request(n + 1)
<1> DEFINE e == write(d, msg)
<1>0. msg \in MessageRec /\ msg.type = "MT_RTSP" /\ msg.id = n + 1
  BY RequestType
<1>1. /\ e \in ConnRec
      /\ e.m_qRtspRequests = Append(d.m_qRtspRequests, msg)
      /\ e.m_eState = d.m_eState /\ e.connecting = d.connecting
      /\ e.reading = d.reading /\ e.open = d.open /\ e.broken = d.broken
      /\ e.atServer = d.atServer /\ e.responses = d.responses
      /\ e.writing = (d.m_eState = "CONNECTED")
  BY <1>0, WriteConn
<1> HIDE DEF e, msg
<1>2. d.m_qRtspRequests \in Seq(MessageRec) /\ d.responses \in Seq(ResponseRec)
  BY ConnFields
<1>3. \A sn \in Nat : Queued(e, sn) <=> Queued(d, sn) \/ sn = n + 1
  <2>1. Request(n + 1) = msg
    BY DEF msg
  <2>2. \A sn \in Nat : Request(sn) = msg => sn = n + 1
    BY <1>0, RequestType
  <2> DEFINE q == d.m_qRtspRequests
             p == e.m_qRtspRequests
             k == Len(q)
  <2>3. /\ k \in Nat /\ Len(p) = k + 1 /\ p[k + 1] = msg
        /\ \A i \in 1 .. k : p[i] = q[i]
    BY <1>0, <1>1, <1>2, AppendProperties, LenProperties
  <2>4. \A sn \in Nat :
          /\ Queued(d, sn) <=> \E i \in 1 .. k : q[i] = Request(sn)
          /\ Queued(e, sn) <=> \E i \in 1 .. Len(p) : p[i] = Request(sn)
    BY DEF Queued
  <2> HIDE DEF q, p, k
  <2>5. \A i \in 1 .. k : i \in 1 .. Len(p)
    BY <2>3
  <2>6. k + 1 \in 1 .. Len(p) /\ \A i \in 1 .. Len(p) : i \in 1 .. k \/ i = k + 1
    BY <2>3
  <2> SUFFICES ASSUME NEW sn \in Nat PROVE Queued(e, sn) <=> Queued(d, sn) \/ sn = n + 1
    OBVIOUS
  <2>7. ASSUME Queued(e, sn) PROVE Queued(d, sn) \/ sn = n + 1
    <3>1. PICK i \in 1 .. Len(p) : p[i] = Request(sn)
      BY <2>4, <2>7
    <3>2. i \in 1 .. k \/ sn = n + 1
      BY <2>2, <2>3, <2>6, <3>1
    <3>3. i \in 1 .. k => q[i] = Request(sn)
      BY <2>3, <3>1
    <3> QED BY <2>4, <3>2, <3>3
  <2>8. ASSUME Queued(d, sn) PROVE Queued(e, sn)
    <3>1. PICK i \in 1 .. k : q[i] = Request(sn)
      BY <2>4, <2>8
    <3>2. i \in 1 .. Len(p) /\ p[i] = Request(sn)
      BY <2>3, <2>5, <3>1
    <3> QED BY <2>4, <3>2
  <2>9. sn = n + 1 => Queued(e, sn)
    BY <2>1, <2>3, <2>4, <2>6
  <2> QED BY <2>7, <2>8, <2>9
<1>4. \A sn \in Nat : Answered(e, sn) <=> Answered(d, sn)
  BY <1>1 DEF Answered
<1>5. ConnInv(e, n + 1)
  <2>1. \A i \in 1 .. Len(e.m_qRtspRequests) :
       /\ e.m_qRtspRequests[i].id <= n + 1
       /\ e.m_qRtspRequests[i].type = "MT_RTSP" => e.m_qRtspRequests[i].id >= 1
    <3> SUFFICES ASSUME NEW i \in 1 .. Len(e.m_qRtspRequests)
                 PROVE  /\ e.m_qRtspRequests[i].id <= n + 1
                        /\ e.m_qRtspRequests[i].type = "MT_RTSP" => e.m_qRtspRequests[i].id >= 1
      OBVIOUS
    <3>1. CASE i = Len(d.m_qRtspRequests) + 1
      BY <3>1, <1>0, <1>1, <1>2
    <3>2. CASE i \in 1 .. Len(d.m_qRtspRequests)
      <4>1. e.m_qRtspRequests[i] = d.m_qRtspRequests[i] /\ d.m_qRtspRequests[i] \in MessageRec
        BY <3>2, <1>0, <1>1, <1>2
      <4> QED BY <3>2, <4>1, MessageFields DEF ConnInv
    <3> QED BY <3>1, <3>2, <1>1, <1>2
  <2>2. e.m_qRtspRequests # <<>>
    <3>1. Len(e.m_qRtspRequests) = Len(d.m_qRtspRequests) + 1
      BY <1>0, <1>1, <1>2
    <3>2. Len(d.m_qRtspRequests) \in Nat
      BY <1>2
    <3> QED BY <3>1, <3>2
  <2>3. \A i \in 1 .. Len(d.responses) : d.responses[i].sn \in 1 .. n + 1
    BY <1>2 DEF ConnInv
  <2>4. d.atServer \subseteq 1 .. n + 1
    BY DEF ConnInv
  <2> QED BY <1>1, <2>1, <2>2, <2>3, <2>4, ConnFields DEF ConnInv, eof
<1>6. OnePlace(e)
  <2>1. \A i, j \in 1 .. Len(e.m_qRtspRequests) :
          e.m_qRtspRequests[i].type = "MT_RTSP" /\ e.m_qRtspRequests[i] = e.m_qRtspRequests[j] => i = j
    <3>1. \A i \in 1 .. Len(d.m_qRtspRequests) : d.m_qRtspRequests[i] # msg
      BY <1>0, <1>2, MessageFields DEF ConnInv
    <3> QED BY <3>1, <1>0, <1>1, <1>2 DEF OnePlace
  <2>2. \A i \in 1 .. Len(d.responses) : d.responses[i].sn \in Nat /\ d.responses[i].sn # n + 1
    BY <1>2 DEF ConnInv
  <2>3. \A sn \in d.atServer : sn \in Nat /\ sn # n + 1
    BY DEF ConnInv
  <2> QED BY <1>1, <1>3, <2>1, <2>2, <2>3 DEF OnePlace
<1>7. Carries(e, n + 1)
  BY <1>1, <1>3, ConnFields DEF Carries, ConnInv, eof
<1>8. HasBye(e) => HasBye(d)
  BY <1>0, <1>1, <1>2 DEF HasBye
<1> QED BY <1>1, <1>3, <1>4, <1>5, <1>6, <1>7, <1>8 DEF Live, e, msg

-----------------------------------------------------------------------------
(* Facts about all connections.                                            *)

\* No request of the chain can be answered any more.
NoChain(conns, map) ==
  \A c \in 1 .. Len(conns) : \A n \in 1 .. Len(map) :
    Live(conns[c], n) => map[n] = "TEARDOWN"

LEMMA ConnGrows ==
  ASSUME NEW d \in ConnRec, NEW n \in Nat, ConnInv(d, n)
  PROVE  ConnInv(d, n + 1)
<1>1. /\ d.m_qRtspRequests \in Seq(MessageRec) /\ d.responses \in Seq(ResponseRec)
  BY ConnFields
<1>2. \A i \in 1 .. Len(d.m_qRtspRequests) : d.m_qRtspRequests[i].id \in Nat
  BY <1>1, MessageFields
<1> QED BY <1>1, <1>2 DEF ConnInv

\* Replacing one connection, on which no request becomes live.
LEMMA NetReplace ==
  ASSUME NEW conns \in Seq(ConnRec), NEW map \in Seq(Methods), Net(conns, map),
         NEW c \in 1 .. Len(conns), NEW d \in ConnRec,
         ConnInv(d, Len(map)), OnePlace(d),
         \A sn \in Nat : Live(d, sn) => Live(conns[c], sn)
  PROVE  LET r == [conns EXCEPT ![c] = d]
         IN  /\ r \in Seq(ConnRec) /\ Len(r) = Len(conns) /\ r[c] = d
             /\ \A b \in 1 .. Len(conns) : b # c => r[b] = conns[b]
             /\ \A b \in 1 .. Len(conns) : \A sn \in Nat : Live(r[b], sn) => Live(conns[b], sn)
             /\ Net(r, map)
<1> DEFINE r == [conns EXCEPT ![c] = d]
<1>1. r \in Seq(ConnRec) /\ Len(r) = Len(conns)
  BY ExceptSeq
<1>2. r[c] = d /\ \A b \in 1 .. Len(conns) : b # c => r[b] = conns[b]
  BY ExceptSeq
<1> HIDE DEF r
<1>3. \A b \in 1 .. Len(conns) : \A sn \in Nat : Live(r[b], sn) => Live(conns[b], sn)
  BY <1>2
<1>4. \A b \in 1 .. Len(r) : ConnInv(r[b], Len(map)) /\ OnePlace(r[b])
  BY <1>1, <1>2 DEF Net
<1>5. OneChain(r, map)
  BY <1>1, <1>3 DEF Net, OneChain, Chained
<1> QED BY <1>1, <1>2, <1>3, <1>4, <1>5 DEF Net, r

\* Putting a new request on one connection, old or new: conns becomes r.
LEMMA NetSends ==
  ASSUME NEW conns \in Seq(ConnRec), NEW map \in Seq(Methods), Net(conns, map),
         NEW m \in Methods, m # "TEARDOWN" => NoChain(conns, map),
         NEW r \in Seq(ConnRec), NEW c \in 1 .. Len(r),
         Len(r) \in {Len(conns), Len(conns) + 1}, Len(conns) <= Len(r),
         \A b \in 1 .. Len(r) : b # c => b <= Len(conns) /\ r[b] = conns[b],
         ConnInv(r[c], Len(map) + 1), OnePlace(r[c]),
         \A sn \in Nat : Live(r[c], sn) =>
            (c <= Len(conns) /\ Live(conns[c], sn)) \/ sn = Len(map) + 1
  PROVE  /\ Net(r, Append(map, m))
         /\ \A b \in 1 .. Len(r) : \A sn \in 1 .. Len(map) + 1 : Live(r[b], sn) =>
              (b <= Len(conns) /\ Live(conns[b], sn) /\ sn <= Len(map)) \/ (sn = Len(map) + 1 /\ b = c)
<1> DEFINE n == Len(map) + 1
           mp == Append(map, m)
<1>1. /\ mp \in Seq(Methods) /\ Len(mp) = n /\ mp[n] = m /\ n \in Nat
      /\ \A i \in 1 .. Len(map) : mp[i] = map[i]
  OBVIOUS
<1>2. \A b \in 1 .. Len(conns) : conns[b] \in ConnRec /\ ConnInv(conns[b], Len(map)) /\ OnePlace(conns[b])
  BY DEF Net
<1>3. \A b \in 1 .. Len(conns) : \A sn \in Nat : Live(conns[b], sn) => sn \in 1 .. Len(map)
  BY <1>2, LiveRange
<1>4. \A b \in 1 .. Len(r) : \A sn \in Nat : Live(r[b], sn) =>
        (b \in 1 .. Len(conns) /\ Live(conns[b], sn) /\ sn \in 1 .. Len(map)) \/ (sn = n /\ b = c)
  BY <1>3
<1>5. \A b \in 1 .. Len(r) : ConnInv(r[b], n) /\ OnePlace(r[b])
  BY <1>2, ConnGrows
<1> HIDE DEF n, mp
<1>6. OneChain(r, mp)
  <2> SUFFICES ASSUME NEW a \in 1 .. Len(r), NEW b \in 1 .. Len(r),
                      NEW k \in 1 .. Len(mp), NEW l \in 1 .. Len(mp)
               PROVE  Chained(r, mp, a, b, k, l)
    BY Zenon DEF OneChain
  <2> SUFFICES ASSUME Live(r[a], k), Live(r[b], l)
               PROVE  /\ k = l => a = b
                      /\ mp[k] # "TEARDOWN" /\ mp[l] # "TEARDOWN" => k = l
    BY DEF Chained
  <2>0. k \in Nat /\ l \in Nat /\ k \in 1 .. n /\ l \in 1 .. n
    BY <1>1
  <2>1. CASE k # n /\ l # n
    <3>1. /\ a \in 1 .. Len(conns) /\ Live(conns[a], k) /\ k \in 1 .. Len(map)
          /\ b \in 1 .. Len(conns) /\ Live(conns[b], l) /\ l \in 1 .. Len(map)
      BY <2>0, <2>1, <1>4
    <3>2. /\ k = l => a = b
          /\ map[k] # "TEARDOWN" /\ map[l] # "TEARDOWN" => k = l
      BY <3>1 DEF Net, OneChain, Chained
    <3> QED BY <3>1, <3>2, <1>1
  <2>2. CASE k = n /\ l = n
    <3>1. n \notin 1 .. Len(map)
      BY DEF n
    <3> QED BY <2>0, <2>2, <3>1, <1>4
  <2>3. CASE k = n /\ l # n
    <3>1. b \in 1 .. Len(conns) /\ Live(conns[b], l) /\ l \in 1 .. Len(map)
      BY <2>0, <2>3, <1>4
    <3>2. m = "TEARDOWN" \/ map[l] = "TEARDOWN"
      BY <3>1 DEF NoChain
    <3> QED BY <2>3, <3>1, <3>2, <1>1
  <2>4. CASE k # n /\ l = n
    <3>1. a \in 1 .. Len(conns) /\ Live(conns[a], k) /\ k \in 1 .. Len(map)
      BY <2>0, <2>4, <1>4
    <3>2. m = "TEARDOWN" \/ map[k] = "TEARDOWN"
      BY <3>1 DEF NoChain
    <3> QED BY <2>4, <3>1, <3>2, <1>1
  <2> QED BY <2>1, <2>2, <2>3, <2>4
<1> QED BY <1>1, <1>4, <1>5, <1>6 DEF Net, n, mp

-----------------------------------------------------------------------------
(* Facts about the client.                                                 *)

LEMMA ClientFields ==
  ASSUME NEW s \in ClientRec
  PROVE  /\ s.conns \in Seq(ConnRec) /\ s.m_pConnection \in Nat
         /\ s.m_mRequestMap \in Seq(Methods) /\ s.m_qOutstandingRequests \in Seq(Methods)
         /\ s.clientDown \in BOOLEAN
         /\ s.m_eState \in {"INIT", "SETUP", "PLAYING", "TEARING_DOWN"}
         /\ s.m_bShuttingDown \in BOOLEAN /\ s.selected \in Nat /\ s.m_uiSetupCount \in Nat
         /\ s.m_bInterleaved \in BOOLEAN
         /\ s.media \in {"none", "running", "stopping", "leaving", "complete"}
         /\ s.via \in Nat /\ s.m_timer \in BOOLEAN /\ s.ended \in BOOLEAN
         /\ s.fault \in {"none", "assert", "connection", "range", "header"}
BY DEF ClientRec

LEMMA AppendExcept ==
  ASSUME NEW S, NEW q \in Seq(S), NEW x, NEW y
  PROVE  [Append(q, x) EXCEPT ![Len(q) + 1] = y] = Append(q, y)
<1> DEFINE T == S \cup {x, y}
           p == Append(q, x)
           k == Len(q) + 1
<1>1. q \in Seq(T) /\ x \in T /\ y \in T
  OBVIOUS
<1> HIDE DEF T
<1>2. /\ p \in Seq(T) /\ Append(q, y) \in Seq(T)
      /\ Len(p) = k /\ Len(Append(q, y)) = k /\ k \in 1 .. k
      /\ \A j \in 1 .. k : j # k => p[j] = Append(q, y)[j]
      /\ Append(q, y)[k] = y
  BY <1>1
<1> HIDE DEF p, k
<1>3. /\ [p EXCEPT ![k] = y] \in Seq(T) /\ Len([p EXCEPT ![k] = y]) = k
      /\ \A j \in 1 .. k : [p EXCEPT ![k] = y][j] = IF j = k THEN y ELSE p[j]
  BY <1>1, <1>2, ExceptSeq
<1>4. \A j \in 1 .. k : [p EXCEPT ![k] = y][j] = Append(q, y)[j]
  BY <1>2, <1>3
<1>5. [p EXCEPT ![k] = y] = Append(q, y)
  BY <1>2, <1>3, <1>4, SeqEqual
<1> QED BY <1>5 DEF p, k

\* What a request changes, when none is outstanding.
LEMMA RequestEffect ==
  ASSUME NEW s \in ClientRec, s.m_pConnection <= Len(s.conns),
         s.m_qOutstandingRequests = <<>>, NEW m \in Methods,
         Net(s.conns, s.m_mRequestMap)
  PROVE  LET r == request(s, m)
             n == Len(s.m_mRequestMap)
         IN  /\ r \in ClientRec
             /\ r.m_mRequestMap = Append(s.m_mRequestMap, m)
             /\ r.m_qOutstandingRequests = <<m>>
             /\ r.m_pConnection \in 1 .. Len(r.conns)
             /\ Len(r.conns) \in {Len(s.conns), Len(s.conns) + 1}
             /\ \A b \in 1 .. Len(r.conns) :
                  b # r.m_pConnection => b <= Len(s.conns) /\ r.conns[b] = s.conns[b]
             /\ LET d == r.conns[r.m_pConnection]
                IN  /\ ConnInv(d, n + 1) /\ OnePlace(d) /\ Carries(d, n + 1)
                    /\ \A sn \in Nat : Live(d, sn) =>
                         \/ /\ r.m_pConnection <= Len(s.conns)
                            /\ Live(s.conns[r.m_pConnection], sn)
                         \/ sn = n + 1
                    /\ HasBye(d) =>
                         r.m_pConnection <= Len(s.conns) /\ HasBye(s.conns[r.m_pConnection])
             /\ r.clientDown = s.clientDown /\ r.m_eState = s.m_eState
             /\ r.selected = s.selected /\ r.m_uiSetupCount = s.m_uiSetupCount
             /\ r.media = s.media /\ r.via = s.via /\ r.fault = s.fault
<1> DEFINE r == request(s, m)
           n == Len(s.m_mRequestMap)
<1>0. /\ s.conns \in Seq(ConnRec) /\ s.m_mRequestMap \in Seq(Methods) /\ n \in Nat
      /\ s.m_pConnection \in Nat /\ Len(s.conns) \in Nat
  BY ClientFields
<1>1. r = sendRequest(s, m)
  BY DEF request, MayRequest
<1>2. PICK conns \in Seq(ConnRec), c \in Nat :
        /\ c \in 1 .. Len(conns)
        /\ Len(conns) \in {Len(s.conns), Len(s.conns) + 1}
        /\ \A b \in 1 .. Len(conns) : b # c => b <= Len(s.conns) /\ conns[b] = s.conns[b]
        /\ ConnInv(conns[c], n + 1) /\ OnePlace(conns[c]) /\ Carries(conns[c], n + 1)
        /\ \A sn \in Nat : Live(conns[c], sn) =>
             (c <= Len(s.conns) /\ Live(s.conns[c], sn)) \/ sn = n + 1
        /\ HasBye(conns[c]) => c <= Len(s.conns) /\ HasBye(s.conns[c])
        /\ r = [s EXCEPT !.m_mRequestMap = Append(@, m),
                         !.m_qOutstandingRequests = Append(@, m),
                         !.m_pConnection = c,
                         !.conns = conns]
  <2>1. CASE NeedsConnection(s)
    <3> DEFINE d == write(NewConnection, Request(n + 1))
               conns == Append(s.conns, d)
               c == Len(s.conns) + 1
    <3>1. /\ d \in ConnRec /\ ConnInv(d, n + 1) /\ OnePlace(d) /\ Carries(d, n + 1)
          /\ \A sn \in Nat : Live(d, sn) <=> sn = n + 1
          /\ ~HasBye(d)
      BY <1>0, WriteNew
    <3> HIDE DEF d
    <3>2. Len(Append(s.conns, NewConnection)) = c
      BY <1>0
    <3>3. Append(s.conns, NewConnection)[c] = NewConnection
      BY <1>0
    <3>4. [Append(s.conns, NewConnection) EXCEPT ![c] = d] = conns
      BY <1>0, AppendExcept
    <3>5. r = [s EXCEPT !.m_mRequestMap = Append(@, m),
                        !.m_qOutstandingRequests = Append(@, m),
                        !.m_pConnection = c,
                        !.conns = conns]
      BY <1>1, <2>1, <3>2, <3>3, <3>4 DEF sendRequest, d
    <3>6. /\ conns \in Seq(ConnRec) /\ Len(conns) = c /\ conns[c] = d /\ c \in 1 .. Len(conns)
          /\ \A b \in 1 .. Len(conns) : b # c => b <= Len(s.conns) /\ conns[b] = s.conns[b]
      BY <1>0, <3>1
    <3> HIDE DEF conns, c, n, r
    <3>7. Len(conns) \in {Len(s.conns), Len(s.conns) + 1}
      BY <3>6 DEF c
    <3>8. c \in Nat
      BY <1>0 DEF c
    <3> QED BY <3>1, <3>5, <3>6, <3>7, <3>8
  <2>2. CASE ~NeedsConnection(s)
    <3> DEFINE c == s.m_pConnection
               d == write(s.conns[c], Request(n + 1))
               conns == [s.conns EXCEPT ![c] = d]
    <3>1. c \in 1 .. Len(s.conns) /\ ~eof(s.conns[c])
      BY <1>0, <2>2 DEF NeedsConnection
    <3>2. s.conns[c] \in ConnRec /\ ConnInv(s.conns[c], n) /\ OnePlace(s.conns[c])
      BY <1>0, <3>1 DEF Net
    <3>3. /\ d \in ConnRec /\ ConnInv(d, n + 1) /\ OnePlace(d) /\ Carries(d, n + 1)
          /\ \A sn \in Nat : Live(d, sn) <=> Live(s.conns[c], sn) \/ sn = n + 1
          /\ HasBye(d) => HasBye(s.conns[c])
      BY <1>0, <3>1, <3>2, WriteRequest
    <3>4. r = [s EXCEPT !.m_mRequestMap = Append(@, m),
                        !.m_qOutstandingRequests = Append(@, m),
                        !.m_pConnection = c,
                        !.conns = conns]
      BY <1>1, <2>2 DEF sendRequest
    <3> HIDE DEF d
    <3>5. /\ conns \in Seq(ConnRec) /\ Len(conns) = Len(s.conns) /\ conns[c] = d
          /\ \A b \in 1 .. Len(conns) : b # c => conns[b] = s.conns[b]
      BY <1>0, <3>1, <3>3, ExceptSeq
    <3> HIDE DEF conns, c, n, r
    <3>6. c \in Nat /\ c <= Len(s.conns) /\ c \in 1 .. Len(conns)
      BY <1>0, <3>1, <3>5
    <3>7. \A b \in 1 .. Len(conns) : b # c => b <= Len(s.conns) /\ conns[b] = s.conns[b]
      BY <1>0, <3>5
    <3>8. \A sn \in Nat : Live(conns[c], sn) =>
             (c <= Len(s.conns) /\ Live(s.conns[c], sn)) \/ sn = n + 1
      BY <3>3, <3>5, <3>6
    <3>9. Len(conns) \in {Len(s.conns), Len(s.conns) + 1}
      BY <3>5
    <3> QED BY <3>3, <3>4, <3>5, <3>6, <3>7, <3>8, <3>9
  <2> QED BY <2>1, <2>2
<1>3. Append(s.m_mRequestMap, m) \in Seq(Methods) /\ Append(s.m_qOutstandingRequests, m) = <<m>>
      /\ <<m>> \in Seq(Methods) /\ c \in Nat
  BY <1>0, <1>2
<1> HIDE DEF r, n
<1>4. /\ r \in ClientRec
      /\ r.m_mRequestMap = Append(s.m_mRequestMap, m)
      /\ r.m_qOutstandingRequests = <<m>>
      /\ r.m_pConnection = c /\ r.conns = conns
      /\ r.clientDown = s.clientDown /\ r.m_eState = s.m_eState
      /\ r.selected = s.selected /\ r.m_uiSetupCount = s.m_uiSetupCount
      /\ r.media = s.media /\ r.via = s.via /\ r.fault = s.fault
  BY <1>2, <1>3 DEF ClientRec
<1> QED BY <1>2, <1>4 DEF r, n

\* When a request m may be sent.
MaySend(s, m) ==
  /\ m # "TEARDOWN" => NoChain(s.conns, s.m_mRequestMap)
  /\ m \in {"OPTIONS", "DESCRIBE"} => s.m_uiSetupCount = 0 /\ NotPlayed(s)
  /\ m = "SETUP" => SetupOpen(s)
  /\ m = "PLAY" =>
       /\ s.m_uiSetupCount = s.selected /\ s.selected > 0
       /\ s.fault = "none" /\ conf.transport \in {"udp", "tcp"} => s.media # "none"

LEMMA RequestKeeps ==
  ASSUME NEW s \in ClientRec, ClientInv(s), s.m_qOutstandingRequests = <<>>, ~Stopped(s),
         NEW m \in Methods, MaySend(s, m)
  PROVE  request(s, m) \in ClientRec /\ ClientInv(request(s, m))
<1> DEFINE r == request(s, m)
           n == Len(s.m_mRequestMap)
           c == r.m_pConnection
<1>0. /\ s.conns \in Seq(ConnRec) /\ s.m_mRequestMap \in Seq(Methods) /\ n \in Nat
      /\ s.m_pConnection <= Len(s.conns) /\ Net(s.conns, s.m_mRequestMap)
      /\ Len(s.conns) \in Nat
  BY ClientFields DEF ClientInv, Session
<1>1. /\ r \in ClientRec
      /\ r.m_mRequestMap = Append(s.m_mRequestMap, m)
      /\ r.m_qOutstandingRequests = <<m>>
      /\ c \in 1 .. Len(r.conns)
      /\ Len(r.conns) \in {Len(s.conns), Len(s.conns) + 1}
      /\ \A b \in 1 .. Len(r.conns) : b # c => b <= Len(s.conns) /\ r.conns[b] = s.conns[b]
      /\ ConnInv(r.conns[c], n + 1) /\ OnePlace(r.conns[c]) /\ Carries(r.conns[c], n + 1)
      /\ \A sn \in Nat : Live(r.conns[c], sn) =>
           (c <= Len(s.conns) /\ Live(s.conns[c], sn)) \/ sn = n + 1
      /\ HasBye(r.conns[c]) => c <= Len(s.conns) /\ HasBye(s.conns[c])
      /\ r.clientDown = s.clientDown /\ r.m_eState = s.m_eState
      /\ r.selected = s.selected /\ r.m_uiSetupCount = s.m_uiSetupCount
      /\ r.media = s.media /\ r.via = s.via /\ r.fault = s.fault
  BY <1>0, RequestEffect
<1> HIDE DEF r, c, n
<1>2. /\ r.conns \in Seq(ConnRec) /\ Len(r.conns) \in Nat /\ Len(s.conns) <= Len(r.conns)
      /\ r.m_mRequestMap \in Seq(Methods) /\ Len(r.m_mRequestMap) = n + 1
      /\ r.m_mRequestMap[n + 1] = m
      /\ \A i \in 1 .. n : r.m_mRequestMap[i] = s.m_mRequestMap[i]
  <2>1. r.conns \in Seq(ConnRec) /\ Len(r.conns) \in Nat
    BY <1>1, ClientFields
  <2>2. Len(s.conns) <= Len(r.conns)
    BY <1>0, <1>1, <2>1
  <2>3. /\ Append(s.m_mRequestMap, m) \in Seq(Methods)
        /\ Len(Append(s.m_mRequestMap, m)) = n + 1
        /\ Append(s.m_mRequestMap, m)[n + 1] = m
        /\ \A i \in 1 .. n : Append(s.m_mRequestMap, m)[i] = s.m_mRequestMap[i]
    BY <1>0 DEF n
  <2> QED BY <1>1, <2>1, <2>2, <2>3
<1>3. m # "TEARDOWN" => NoChain(s.conns, s.m_mRequestMap)
  BY DEF MaySend
<1>4. /\ Net(r.conns, r.m_mRequestMap)
      /\ \A b \in 1 .. Len(r.conns) : \A sn \in 1 .. n + 1 : Live(r.conns[b], sn) =>
           (b <= Len(s.conns) /\ Live(s.conns[b], sn) /\ sn <= n) \/ (sn = n + 1 /\ b = c)
  <2>1. /\ Len(r.conns) \in {Len(s.conns), Len(s.conns) + 1}
        /\ c \in 1 .. Len(r.conns) /\ r.conns \in Seq(ConnRec)
        /\ Len(s.conns) <= Len(r.conns)
    BY <1>1, <1>2
  <2>2. \A b \in 1 .. Len(r.conns) : b # c => b <= Len(s.conns) /\ r.conns[b] = s.conns[b]
    BY <1>1
  <2>3. /\ ConnInv(r.conns[c], Len(s.m_mRequestMap) + 1) /\ OnePlace(r.conns[c])
        /\ \A sn \in Nat : Live(r.conns[c], sn) =>
             (c <= Len(s.conns) /\ Live(s.conns[c], sn)) \/ sn = Len(s.m_mRequestMap) + 1
    BY <1>1 DEF n
  <2>4. r.m_mRequestMap = Append(s.m_mRequestMap, m)
    BY <1>1
  <2>5. s.conns \in Seq(ConnRec) /\ s.m_mRequestMap \in Seq(Methods) /\ Net(s.conns, s.m_mRequestMap)
    BY <1>0
  <2> DEFINE q == r.conns
             old == s.conns
             map == s.m_mRequestMap
  <2>6. /\ Net(q, Append(map, m))
        /\ \A b \in 1 .. Len(q) : \A sn \in 1 .. Len(map) + 1 : Live(q[b], sn) =>
              (b <= Len(old) /\ Live(old[b], sn) /\ sn <= Len(map)) \/ (sn = Len(map) + 1 /\ b = c)
    <3> HIDE DEF q, old, map
    <3>1. /\ old \in Seq(ConnRec) /\ map \in Seq(Methods) /\ Net(old, map)
          /\ m # "TEARDOWN" => NoChain(old, map)
      BY <1>3, <2>5 DEF old, map
    <3>2. /\ q \in Seq(ConnRec) /\ c \in 1 .. Len(q)
          /\ Len(q) \in {Len(old), Len(old) + 1} /\ Len(old) <= Len(q)
          /\ \A b \in 1 .. Len(q) : b # c => b <= Len(old) /\ q[b] = old[b]
      BY <2>1, <2>2 DEF old, q
    <3>3. /\ ConnInv(q[c], Len(map) + 1) /\ OnePlace(q[c])
          /\ \A sn \in Nat : Live(q[c], sn) =>
             (c <= Len(old) /\ Live(old[c], sn)) \/ sn = Len(map) + 1
      BY <2>3 DEF old, map, q
    <3> QED BY <3>1, <3>2, <3>3, NetSends
  <2> QED BY <2>4, <2>6 DEF n
<1>5. /\ NotPlayed(s) /\ m # "PLAY" => NotPlayed(r)
      /\ SetupOpen(s) /\ m # "PLAY" => SetupOpen(r)
  BY <1>0, <1>1, <1>2 DEF NotPlayed, SetupOpen, n
<1>6. Session(r)
  <2>1. Len(r.m_qOutstandingRequests) <= 1 /\ c <= Len(r.conns)
    BY <1>1, <1>2
  <2>2. r.media # "none" => r.via \in 1 .. Len(r.conns)
    BY <1>1, <1>2, <1>0, ClientFields DEF ClientInv, Session
  <2>3. conf.headers => NotPlayed(r) \/ (r.m_uiSetupCount = r.selected /\ r.selected > 0)
    BY <1>1, <1>5 DEF ClientInv, Session, MaySend
  <2>4. r.fault = "none" /\ r.media = "none" /\ conf.transport \in {"udp", "tcp"} => NotPlayed(r)
    BY <1>1, <1>5 DEF ClientInv, Session, MaySend
  <2>5. \A b \in 1 .. Len(s.conns) : ~HasBye(s.conns[b])
    BY DEF ClientInv, Session
  <2>6. \A b \in 1 .. Len(r.conns) : ~HasBye(r.conns[b])
    <3> SUFFICES ASSUME NEW b \in 1 .. Len(r.conns) PROVE ~HasBye(r.conns[b])
      OBVIOUS
    <3>1. CASE b = c
      <4>1. HasBye(r.conns[c]) => c <= Len(s.conns) /\ HasBye(s.conns[c])
        BY <1>1
      <4>2. c <= Len(s.conns) => c \in 1 .. Len(s.conns)
        BY <1>0, <1>1, <1>2
      <4> QED BY <2>5, <3>1, <4>1, <4>2
    <3>2. CASE b # c
      <4>1. b <= Len(s.conns) /\ r.conns[b] = s.conns[b]
        BY <1>1, <3>2
      <4>2. b \in 1 .. Len(s.conns)
        BY <1>0, <1>2, <4>1
      <4> QED BY <2>5, <4>1, <4>2
    <3> QED BY <3>1, <3>2
  <2> QED BY <1>1, <2>1, <2>2, <2>3, <2>4, <2>6 DEF ClientInv, Session, Stopped, c
<1>7. Progress(r)
  <2> SUFFICES ASSUME NEW b \in 1 .. Len(r.conns), NEW k \in 1 .. n + 1, Live(r.conns[b], k)
               PROVE  /\ r.m_mRequestMap[k] \in {"OPTIONS", "DESCRIBE"} =>
                           r.m_uiSetupCount = 0 /\ NotPlayed(r)
                      /\ r.m_mRequestMap[k] = "SETUP" => SetupOpen(r)
    BY <1>2 DEF Progress
  <2>1. CASE k = n + 1
    BY <2>1, <1>1, <1>2, <1>5 DEF MaySend
  <2>2. CASE k # n + 1
    <3>1. b \in 1 .. Len(s.conns) /\ Live(s.conns[b], k) /\ k \in 1 .. n
      <4>1. b <= Len(s.conns) /\ Live(s.conns[b], k) /\ k <= n
        BY <2>2, <1>4
      <4>2. Len(s.conns) \in Nat /\ n \in Nat
        BY <1>0
      <4> QED BY <4>1, <4>2
    <3>2. /\ s.m_mRequestMap[k] \in {"OPTIONS", "DESCRIBE"} =>
               s.m_uiSetupCount = 0 /\ NotPlayed(s)
          /\ s.m_mRequestMap[k] = "SETUP" => SetupOpen(s)
      BY <3>1 DEF ClientInv, Progress, n
    <3>3. m # "TEARDOWN" => s.m_mRequestMap[k] = "TEARDOWN"
      BY <3>1, <1>3 DEF NoChain, n
    <3> QED BY <3>1, <3>2, <3>3, <1>1, <1>2, <1>5
  <2> QED BY <2>1, <2>2
<1>8. Carried(r)
  BY <1>1, <1>2 DEF Carried
<1> QED BY <1>1, <1>4, <1>6, <1>7, <1>8 DEF ClientInv, r

\* A change of the session that leaves the connections and the requests alone.
LEMMA SessionChange ==
  ASSUME NEW s \in ClientRec, NEW r \in ClientRec, ClientInv(s),
         r.conns = s.conns, r.m_mRequestMap = s.m_mRequestMap,
         r.m_qOutstandingRequests = s.m_qOutstandingRequests,
         r.clientDown = s.clientDown,
         Session(r), Progress(r)
  PROVE  ClientInv(r)
BY DEF ClientInv, Carried

\* One that changes nothing that the invariant speaks of.
LEMMA NoSessionChange ==
  ASSUME NEW s \in ClientRec, NEW r \in ClientRec, ClientInv(s),
         r.conns = s.conns, r.m_mRequestMap = s.m_mRequestMap,
         r.m_qOutstandingRequests = s.m_qOutstandingRequests,
         r.clientDown = s.clientDown, r.m_pConnection = s.m_pConnection,
         r.m_eState = s.m_eState, r.selected = s.selected,
         r.m_uiSetupCount = s.m_uiSetupCount, r.media = s.media, r.via = s.via,
         r.fault = s.fault
  PROVE  ClientInv(r)
<1>1. NotPlayed(r) <=> NotPlayed(s)
  BY DEF NotPlayed
<1>2. Session(r)
  BY <1>1 DEF ClientInv, Session, Stopped
<1>3. Progress(r)
  BY <1>1 DEF ClientInv, Progress, SetupOpen
<1> QED BY <1>2, <1>3, SessionChange

\* One that closes a connection at most.
LEMMA ClosesKeep ==
  ASSUME NEW s \in ClientRec, NEW r \in ClientRec, ClientInv(s),
         Len(r.conns) = Len(s.conns),
         \A c \in 1 .. Len(s.conns) : r.conns[c] \in {s.conns[c], close(s.conns[c])},
         r.m_mRequestMap = s.m_mRequestMap,
         r.m_qOutstandingRequests = s.m_qOutstandingRequests,
         s.clientDown => r.clientDown, r.m_pConnection \in {0, s.m_pConnection},
         r.m_eState = s.m_eState, r.selected = s.selected,
         r.m_uiSetupCount = s.m_uiSetupCount, r.media = s.media, r.via = s.via,
         r.fault = s.fault
  PROVE  /\ ClientInv(r)
         /\ NoChain(s.conns, s.m_mRequestMap) => NoChain(r.conns, r.m_mRequestMap)
<1>0. /\ s.conns \in Seq(ConnRec) /\ s.m_mRequestMap \in Seq(Methods)
      /\ Len(s.conns) \in Nat /\ s.m_pConnection \in Nat
      /\ \A c \in 1 .. Len(s.conns) : s.conns[c] \in ConnRec
  BY ClientFields
<1>1. \A c \in 1 .. Len(s.conns) :
        /\ \A n : ConnInv(s.conns[c], n) => ConnInv(r.conns[c], n)
        /\ OnePlace(s.conns[c]) => OnePlace(r.conns[c])
        /\ HasBye(r.conns[c]) <=> HasBye(s.conns[c])
        /\ \A sn : Live(r.conns[c], sn) <=> Live(s.conns[c], sn)
        /\ \A sn : Carries(r.conns[c], sn) <=> Carries(s.conns[c], sn)
  BY <1>0, CloseConn
<1>2. NotPlayed(r) <=> NotPlayed(s)
  BY DEF NotPlayed
<1>3. Session(r)
  BY <1>0, <1>1, <1>2 DEF ClientInv, Session, Stopped
<1>4. Progress(r)
  BY <1>1, <1>2 DEF ClientInv, Progress, SetupOpen
<1>5. Carried(r)
  BY <1>1 DEF ClientInv, Carried
<1>6. Net(r.conns, r.m_mRequestMap)
  <2>1. Net(s.conns, s.m_mRequestMap)
    BY DEF ClientInv
  <2>2. \A c \in 1 .. Len(r.conns) :
          ConnInv(r.conns[c], Len(r.m_mRequestMap)) /\ OnePlace(r.conns[c])
    BY <1>1, <2>1 DEF Net
  <2>3. OneChain(r.conns, r.m_mRequestMap)
    <3> SUFFICES ASSUME NEW b \in 1 .. Len(r.conns), NEW c \in 1 .. Len(r.conns),
                        NEW m \in 1 .. Len(r.m_mRequestMap), NEW n \in 1 .. Len(r.m_mRequestMap)
                 PROVE  Chained(r.conns, r.m_mRequestMap, b, c, m, n)
      BY Zenon DEF OneChain
    <3>1. /\ b \in 1 .. Len(s.conns) /\ c \in 1 .. Len(s.conns)
          /\ m \in 1 .. Len(s.m_mRequestMap) /\ n \in 1 .. Len(s.m_mRequestMap)
      OBVIOUS
    <3>2. Chained(s.conns, s.m_mRequestMap, b, c, m, n)
      BY <2>1, <3>1, Zenon DEF Net, OneChain
    <3>3. (Live(r.conns[b], m) => Live(s.conns[b], m)) /\ (Live(r.conns[c], n) => Live(s.conns[c], n))
      BY <1>1, <3>1
    <3> QED BY <3>2, <3>3 DEF Chained
  <2> QED BY <2>2, <2>3 DEF Net
<1>7. NoChain(s.conns, s.m_mRequestMap) => NoChain(r.conns, r.m_mRequestMap)
  BY <1>1 DEF NoChain
<1> QED BY <1>3, <1>4, <1>5, <1>6, <1>7 DEF ClientInv

LEMMA RtspClientShutdownKeeps ==
  ASSUME NEW s \in ClientRec, ClientInv(s)
  PROVE  /\ RtspClientShutdown(s) \in ClientRec /\ ClientInv(RtspClientShutdown(s))
<1> DEFINE r == RtspClientShutdown(s)
           p == s.m_pConnection
<1>0. /\ s.conns \in Seq(ConnRec) /\ p \in Nat /\ p <= Len(s.conns) /\ Len(s.conns) \in Nat
  BY ClientFields DEF ClientInv, Session
<1>1. PICK conns \in Seq(ConnRec) :
        /\ Len(conns) = Len(s.conns)
        /\ \A c \in 1 .. Len(s.conns) : conns[c] \in {s.conns[c], close(s.conns[c])}
        /\ r = [s EXCEPT !.clientDown = TRUE, !.m_pConnection = 0, !.conns = conns]
  <2>1. CASE p = 0
    BY <1>0, <2>1 DEF RtspClientShutdown
  <2>2. CASE p # 0
    <3> DEFINE conns == [s.conns EXCEPT ![p] = close(s.conns[p])]
    <3>1. p \in 1 .. Len(s.conns) /\ close(s.conns[p]) \in ConnRec
      BY <1>0, <2>2, CloseConn
    <3>2. /\ conns \in Seq(ConnRec) /\ Len(conns) = Len(s.conns)
          /\ \A c \in 1 .. Len(s.conns) : conns[c] \in {s.conns[c], close(s.conns[c])}
      BY <1>0, <3>1, ExceptSeq
    <3>3. r = [s EXCEPT !.clientDown = TRUE, !.m_pConnection = 0, !.conns = conns]
      BY <2>2 DEF RtspClientShutdown, Closing
    <3> QED BY <3>2, <3>3
  <2> QED BY <2>1, <2>2
<1> HIDE DEF r, p
<1>2. /\ r \in ClientRec /\ r.conns = conns
      /\ r.m_mRequestMap = s.m_mRequestMap
      /\ r.m_qOutstandingRequests = s.m_qOutstandingRequests
      /\ r.clientDown = TRUE /\ r.m_pConnection = 0
      /\ r.m_eState = s.m_eState /\ r.selected = s.selected
      /\ r.m_uiSetupCount = s.m_uiSetupCount /\ r.media = s.media /\ r.via = s.via
      /\ r.fault = s.fault
  BY <1>1 DEF ClientRec
<1>3. ClientInv(r)
  <2>1. /\ Len(r.conns) = Len(s.conns)
        /\ \A c \in 1 .. Len(s.conns) : r.conns[c] \in {s.conns[c], close(s.conns[c])}
    BY <1>1, <1>2
  <2>2. (s.clientDown => r.clientDown) /\ r.m_pConnection \in {0, s.m_pConnection}
    BY <1>2
  <2> QED BY <1>2, <2>1, <2>2, ClosesKeep
<1> QED BY <1>2, <1>3 DEF r

-----------------------------------------------------------------------------
(* The handlers of RtspClientSession.                                      *)

Good(s) == s \in ClientRec /\ ClientInv(s)

LEMMA EndKeeps ==
  ASSUME NEW s, Good(s)
  PROVE  Good(endClientSession(s))
<1> DEFINE r == endClientSession(s)
<1>1. s \in ClientRec
  BY DEF Good
<1>2. /\ r \in ClientRec
      /\ r.conns = s.conns /\ r.m_mRequestMap = s.m_mRequestMap
      /\ r.m_qOutstandingRequests = s.m_qOutstandingRequests
      /\ r.clientDown = s.clientDown /\ r.m_pConnection = s.m_pConnection
      /\ r.m_eState = s.m_eState /\ r.selected = s.selected
      /\ r.m_uiSetupCount = s.m_uiSetupCount /\ r.media = s.media /\ r.via = s.via
      /\ r.fault = s.fault
  BY <1>1 DEF endClientSession, ClientRec
<1> HIDE DEF r
<1> QED BY <1>1, <1>2, NoSessionChange DEF Good, r

LEMMA TearDownKeeps ==
  ASSUME NEW s, Good(s), ~Stopped(s)
  PROVE  Good(tearDown(s))
<1> DEFINE t == [s EXCEPT !.m_eState = "TEARING_DOWN", !.m_timer = @ /\ s.m_eState # "PLAYING"]
<1>1. s \in ClientRec /\ ClientInv(s)
  BY DEF Good
<1>2. /\ t \in ClientRec
      /\ t.conns = s.conns /\ t.m_mRequestMap = s.m_mRequestMap
      /\ t.m_qOutstandingRequests = s.m_qOutstandingRequests
      /\ t.clientDown = s.clientDown /\ t.m_pConnection = s.m_pConnection
      /\ t.m_eState = "TEARING_DOWN" /\ t.selected = s.selected
      /\ t.m_uiSetupCount = s.m_uiSetupCount /\ t.media = s.media /\ t.via = s.via
      /\ t.fault = s.fault
  BY <1>1 DEF ClientRec
<1>3. tearDown(s) = request(t, "TEARDOWN")
  BY DEF tearDown
<1> HIDE DEF t
<1>4. ClientInv(t)
  <2>1. NotPlayed(t) <=> NotPlayed(s)
    BY <1>2 DEF NotPlayed
  <2>2. Session(t)
    BY <1>1, <1>2, <2>1 DEF ClientInv, Session, Stopped
  <2>3. Progress(t)
    BY <1>1, <1>2, <2>1 DEF ClientInv, Progress, SetupOpen
  <2> QED BY <1>1, <1>2, <2>2, <2>3, SessionChange
<1>5. CASE t.m_qOutstandingRequests = <<>>
  <2>1. ~Stopped(t)
    BY <1>2 DEF Stopped
  <2>2. MaySend(t, "TEARDOWN") /\ "TEARDOWN" \in Methods
    BY DEF MaySend, Methods
  <2> QED BY <1>2, <1>3, <1>4, <1>5, <2>1, <2>2, RequestKeeps DEF Good
<1>6. CASE t.m_qOutstandingRequests # <<>>
  BY <1>2, <1>3, <1>4, <1>6 DEF Good, request, MayRequest
<1> QED BY <1>5, <1>6

LEMMA ShutdownKeeps ==
  ASSUME NEW s, Good(s)
  PROVE  Good(shutdown(s))
<1> DEFINE t == [s EXCEPT !.m_bShuttingDown = TRUE]
<1>1. s \in ClientRec /\ ClientInv(s)
  BY DEF Good
<1>2. /\ t \in ClientRec
      /\ t.conns = s.conns /\ t.m_mRequestMap = s.m_mRequestMap
      /\ t.m_qOutstandingRequests = s.m_qOutstandingRequests
      /\ t.clientDown = s.clientDown /\ t.m_pConnection = s.m_pConnection
      /\ t.m_eState = s.m_eState /\ t.selected = s.selected
      /\ t.m_uiSetupCount = s.m_uiSetupCount /\ t.media = s.media /\ t.via = s.via
      /\ t.fault = s.fault
  BY <1>1 DEF ClientRec
<1>3. shutdown(s) = CASE t.m_eState = "INIT" -> RtspClientShutdown(t)
       [] t.m_eState \in {"PLAYING", "SETUP"} -> tearDown(t)
       [] t.m_eState = "TEARING_DOWN" -> t
  BY DEF shutdown
<1> HIDE DEF t
<1>4. Good(t)
  BY <1>1, <1>2, NoSessionChange DEF Good
<1>5. CASE t.m_eState = "INIT"
  BY <1>3, <1>4, <1>5, RtspClientShutdownKeeps DEF Good
<1>6. CASE t.m_eState \in {"PLAYING", "SETUP"}
  <2>1. ~Stopped(t)
    BY <1>4, <1>6 DEF Good, ClientInv, Session
  <2> QED BY <1>3, <1>4, <1>6, <2>1, TearDownKeeps
<1>7. CASE t.m_eState = "TEARING_DOWN"
  BY <1>3, <1>4, <1>7
<1> QED BY <1>2, <1>5, <1>6, <1>7, ClientFields

\* The state in which the handler of a response or of an error is called: the
\* request has been taken from m_qOutstandingRequests.
Popped(s) == Good(s) /\ s.m_qOutstandingRequests = <<>> /\ ~Stopped(s)

\* The request whose response is handled was the one of the chain, and the session
\* is as far as it says.
Fits(s, method) ==
  /\ method # "TEARDOWN" => NoChain(s.conns, s.m_mRequestMap)
  /\ method \in {"OPTIONS", "DESCRIBE"} => s.m_uiSetupCount = 0 /\ NotPlayed(s)
  /\ method = "SETUP" => SetupOpen(s)
  /\ method = "PLAY" /\ conf.transport \in {"udp", "tcp"} => s.media = "running"

LEMMA OptionsKeeps ==
  ASSUME NEW s, Popped(s), NEW ok \in BOOLEAN, ok => Fits(s, "OPTIONS")
  PROVE  Good(handleOptionsResponse(s, ok))
<1>1. s \in ClientRec /\ ClientInv(s)
  BY DEF Popped, Good
<1>2. CASE ok /\ conf.only # "options"
  <2>1. MaySend(s, "DESCRIBE") /\ "DESCRIBE" \in Methods
    BY <1>2 DEF Fits, MaySend, Methods
  <2>2. Good(request(s, "DESCRIBE"))
    BY <1>1, <2>1, RequestKeeps DEF Popped, Good
  <2> QED BY <1>2, <2>2 DEF handleOptionsResponse
<1>3. CASE ok /\ conf.only = "options"
  <2>1. Good(endClientSession(RtspClientShutdown(s)))
    BY <1>1, RtspClientShutdownKeeps, EndKeeps DEF Good
  <2> QED BY <1>3, <2>1 DEF handleOptionsResponse
<1>4. CASE ~ok
  BY <1>4, EndKeeps DEF handleOptionsResponse, Popped
<1> QED BY <1>2, <1>3, <1>4

LEMMA DescribeKeeps ==
  ASSUME NEW s, Popped(s), NEW ok \in BOOLEAN, ok => Fits(s, "DESCRIBE"), conf \in Confs
  PROVE  Good(handleDescribeResponse(s, ok))
<1>1. s \in ClientRec /\ ClientInv(s)
  BY DEF Popped, Good
<1>2. CASE ok /\ conf.only # "describe"
  <2> DEFINE t == [s EXCEPT !.selected = conf.media]
  <2>1. /\ t \in ClientRec
        /\ t.conns = s.conns /\ t.m_mRequestMap = s.m_mRequestMap
        /\ t.m_qOutstandingRequests = s.m_qOutstandingRequests
        /\ t.clientDown = s.clientDown /\ t.m_pConnection = s.m_pConnection
        /\ t.m_eState = s.m_eState /\ t.selected = conf.media
        /\ t.m_uiSetupCount = s.m_uiSetupCount /\ t.media = s.media /\ t.via = s.via
        /\ t.fault = s.fault
    BY <1>1 DEF ClientRec, Confs
  <2>2. handleDescribeResponse(s, ok) = setupSelectedSessions(t)
    BY <1>2 DEF handleDescribeResponse
  <2> HIDE DEF t
  <2>3. NoChain(s.conns, s.m_mRequestMap) /\ s.m_uiSetupCount = 0 /\ NotPlayed(s) /\ NotPlayed(t)
    BY <1>2, <2>1 DEF Fits, NotPlayed
  <2>4. conf.media \in Nat
    BY DEF Confs
  <2>5. Session(t)
    BY <1>1, <2>1, <2>3, <2>4 DEF ClientInv, Session, Stopped
  <2>6. Progress(t)
    BY <2>1, <2>3 DEF Progress, NoChain
  <2>7. ClientInv(t)
    BY <1>1, <2>1, <2>5, <2>6, SessionChange
  <2>8. CASE MoreToSetUp(t)
    <3>1. MaySend(t, "SETUP") /\ "SETUP" \in Methods
      BY <2>1, <2>3, <2>8 DEF MoreToSetUp, MaySend, Methods, SetupOpen
    <3>2. ~Stopped(t) /\ t.m_qOutstandingRequests = <<>>
      BY <2>1 DEF Popped, Stopped
    <3>3. Good(request(t, "SETUP"))
      BY <2>1, <2>7, <3>1, <3>2, RequestKeeps DEF Good
    <3> QED BY <2>2, <2>8, <3>3 DEF setupSelectedSessions
  <2>9. CASE ~MoreToSetUp(t)
    BY <2>1, <2>2, <2>7, <2>9 DEF setupSelectedSessions, Good
  <2> QED BY <2>8, <2>9
<1>3. CASE ok /\ conf.only = "describe"
  <2>1. Good(endClientSession(RtspClientShutdown(s)))
    BY <1>1, RtspClientShutdownKeeps, EndKeeps DEF Good
  <2> QED BY <1>3, <2>1 DEF handleDescribeResponse
<1>4. CASE ~ok
  BY <1>4, EndKeeps DEF handleDescribeResponse, Popped
<1> QED BY <1>2, <1>3, <1>4

\* onSessionSetup leaves the session good, or ends the program.
LEMMA SessionSetupKeeps ==
  ASSUME NEW s, Good(s), ~Stopped(s), s.m_eState = "SETUP", s.fault = "none",
         s.m_uiSetupCount > 0,
         conf.headers => /\ NoChain(s.conns, s.m_mRequestMap)
                         /\ s.m_uiSetupCount = s.selected /\ s.selected > 0,
         conf \in Confs
  PROVE  LET t == onSessionSetup(s)
         IN  /\ Good(t) /\ ~Stopped(t)
             /\ t.conns = s.conns /\ t.m_mRequestMap = s.m_mRequestMap
             /\ t.m_qOutstandingRequests = s.m_qOutstandingRequests
             /\ t.m_eState = s.m_eState /\ t.selected = s.selected
             /\ t.m_uiSetupCount = s.m_uiSetupCount
             /\ t.fault = "none" /\ conf.transport \in {"udp", "tcp"} => t.media # "none"
<1> DEFINE t == onSessionSetup(s)
           u == [s EXCEPT !.m_bInterleaved = (conf.transport = "tcp")]
<1>1. s \in ClientRec /\ ClientInv(s)
  BY DEF Good
<1>2. /\ u \in ClientRec /\ u.conns = s.conns /\ u.m_mRequestMap = s.m_mRequestMap
      /\ u.m_qOutstandingRequests = s.m_qOutstandingRequests
      /\ u.clientDown = s.clientDown /\ u.m_pConnection = s.m_pConnection
      /\ u.m_eState = s.m_eState /\ u.selected = s.selected
      /\ u.m_uiSetupCount = s.m_uiSetupCount
      /\ u.media = s.media /\ u.via = s.via /\ u.fault = s.fault
  BY <1>1 DEF ClientRec
<1>3. /\ t \in ClientRec
      /\ t.conns = s.conns /\ t.m_mRequestMap = s.m_mRequestMap
      /\ t.m_qOutstandingRequests = s.m_qOutstandingRequests
      /\ t.clientDown = s.clientDown /\ t.m_pConnection = s.m_pConnection
      /\ t.m_eState = s.m_eState /\ t.selected = s.selected
      /\ t.m_uiSetupCount = s.m_uiSetupCount
      /\ \/ t.media = s.media /\ t.via = s.via /\ t.fault = "connection"
         \/ /\ t.media = "running" /\ t.via = s.m_pConnection /\ t.fault = s.fault
            /\ s.m_pConnection # 0
         \/ /\ t.media = s.media /\ t.via = s.via /\ t.fault = s.fault
            /\ conf.transport \notin {"udp", "tcp"}
  <2>1. CASE ~ConnectionUsable(s)
    <3>1. t = [u EXCEPT !.fault = "connection"]
      BY <2>1 DEF onSessionSetup
    <3> HIDE DEF u, t
    <3>2. t \in ClientRec /\ t.fault = "connection" /\ t.media = u.media /\ t.via = u.via
      BY <1>2, <3>1 DEF ClientRec
    <3>3. /\ t.conns = u.conns /\ t.m_mRequestMap = u.m_mRequestMap
          /\ t.m_qOutstandingRequests = u.m_qOutstandingRequests
          /\ t.clientDown = u.clientDown /\ t.m_pConnection = u.m_pConnection
          /\ t.m_eState = u.m_eState /\ t.selected = u.selected
          /\ t.m_uiSetupCount = u.m_uiSetupCount
      BY <1>2, <3>1 DEF ClientRec
    <3> QED BY <1>2, <3>2, <3>3
  <2>2. CASE ConnectionUsable(s) /\ conf.transport \in {"udp", "tcp"}
    <3>1. t = [u EXCEPT !.media = "running", !.via = s.m_pConnection]
      BY <2>2 DEF onSessionSetup
    <3>2. s.m_pConnection # 0
      BY <2>2 DEF ConnectionUsable
    <3>3. s.m_pConnection \in Nat
      BY <1>1, ClientFields
    <3> HIDE DEF u, t
    <3>5. t \in ClientRec
      BY <1>2, <3>1, <3>3 DEF ClientRec
    <3>6. t.media = "running" /\ t.via = s.m_pConnection
      BY <1>2, <3>1 DEF ClientRec
    <3>7. /\ t.fault = u.fault /\ t.m_eState = u.m_eState /\ t.conns = u.conns
          /\ t.m_mRequestMap = u.m_mRequestMap /\ t.m_pConnection = u.m_pConnection
          /\ t.m_qOutstandingRequests = u.m_qOutstandingRequests
          /\ t.clientDown = u.clientDown /\ t.selected = u.selected
          /\ t.m_uiSetupCount = u.m_uiSetupCount
      BY <1>2, <3>1 DEF ClientRec
    <3> QED BY <1>2, <3>2, <3>5, <3>6, <3>7
  <2>3. CASE ConnectionUsable(s) /\ conf.transport \notin {"udp", "tcp"}
    <3>1. t = u
      BY <2>3 DEF onSessionSetup
    <3> QED BY <1>2, <2>3, <3>1
  <2> QED BY <2>1, <2>2, <2>3
<1> HIDE DEF t, u
<1>4. Session(t)
  <2>1. s.m_pConnection \in Nat /\ Len(s.conns) \in Nat /\ s.m_pConnection <= Len(s.conns)
    BY <1>1, ClientFields DEF ClientInv, Session
  <2>2. s.media = "none" /\ t.media = "none" /\ NotPlayed(s) => NotPlayed(t)
    BY <1>3 DEF NotPlayed
  <2>3. s.media \in {"none", "running"} /\ t.media \in {"none", "running"}
    BY <1>1, <1>3, ClientFields DEF Stopped
  <2>4. t.media # "none" => t.via \in 1 .. Len(t.conns)
    BY <1>1, <1>3, <2>1 DEF ClientInv, Session
  <2>5. conf.headers =>
          /\ t.fault \notin {"range", "header"}
          /\ NotPlayed(t) \/ (t.m_uiSetupCount = t.selected /\ t.selected > 0)
    BY <1>3
  <2>6. t.fault = "none" /\ t.media = "none" /\ conf.transport \in {"udp", "tcp"} => NotPlayed(t)
    BY <1>3
  <2>7. ~Stopped(t)
    BY <2>3 DEF Stopped
  <2> QED BY <1>1, <1>3, <2>3, <2>4, <2>5, <2>6, <2>7 DEF ClientInv, Session
<1>5. Progress(t)
  <2> SUFFICES ASSUME NEW c \in 1 .. Len(s.conns), NEW n \in 1 .. Len(s.m_mRequestMap),
                      Live(s.conns[c], n)
               PROVE  /\ s.m_mRequestMap[n] \notin {"OPTIONS", "DESCRIBE"}
                      /\ s.m_mRequestMap[n] = "SETUP" => SetupOpen(t)
    BY <1>3 DEF Progress
  <2>1. s.m_mRequestMap[n] \in {"OPTIONS", "DESCRIBE"} => s.m_uiSetupCount = 0
    BY <1>1 DEF ClientInv, Progress
  <2>2. conf.headers => s.m_mRequestMap[n] = "TEARDOWN"
    BY DEF NoChain
  <2> QED BY <2>1, <2>2 DEF SetupOpen
<1>6. ClientInv(t)
  BY <1>1, <1>3, <1>4, <1>5, SessionChange
<1>7. ~Stopped(t)
  BY <1>3 DEF Stopped
<1>8. t.fault = "none" /\ conf.transport \in {"udp", "tcp"} => t.media # "none"
  BY <1>3
<1> QED BY <1>1, <1>3, <1>6, <1>7, <1>8 DEF Good, t

\* The SETUP is counted: the state from which handleSetupResponse goes on.
Counted(s) == [s EXCEPT !.m_eState = "SETUP", !.m_uiSetupCount = @ + 1]

LEMMA CountedKeeps ==
  ASSUME NEW s, Good(s), ~Stopped(s), s.fault = "none",
         s.m_uiSetupCount < s.selected,
         conf.headers => NotPlayed(s) /\ NoChain(s.conns, s.m_mRequestMap),
         \/ NoChain(s.conns, s.m_mRequestMap)
         \/ s.m_uiSetupCount > 0
  PROVE  LET t == Counted(s)
         IN  /\ Good(t) /\ ~Stopped(t)
             /\ t.conns = s.conns /\ t.m_mRequestMap = s.m_mRequestMap
             /\ t.m_qOutstandingRequests = s.m_qOutstandingRequests
             /\ t.m_eState = "SETUP" /\ t.selected = s.selected
             /\ t.m_uiSetupCount = s.m_uiSetupCount + 1 /\ t.m_uiSetupCount \in Nat
             /\ t.m_uiSetupCount > 0 /\ t.selected \in Nat
             /\ t.fault = "none" /\ (NotPlayed(s) => NotPlayed(t))
<1> DEFINE t == Counted(s)
<1>1. s \in ClientRec /\ ClientInv(s)
  BY DEF Good
<1>2. s.m_uiSetupCount \in Nat /\ s.selected \in Nat
  BY <1>1, ClientFields
<1>3. t \in ClientRec
  <2>1. s.m_uiSetupCount + 1 \in Nat
    BY <1>2
  <2> QED BY <1>1, <2>1 DEF ClientRec, Counted
<1>4. /\ t.conns = s.conns /\ t.m_mRequestMap = s.m_mRequestMap
      /\ t.m_qOutstandingRequests = s.m_qOutstandingRequests
      /\ t.clientDown = s.clientDown /\ t.m_pConnection = s.m_pConnection
      /\ t.selected = s.selected /\ t.media = s.media /\ t.via = s.via
      /\ t.fault = s.fault
  BY <1>1 DEF ClientRec, Counted
<1>5. t.m_eState = "SETUP" /\ t.m_uiSetupCount = s.m_uiSetupCount + 1
  BY <1>1 DEF ClientRec, Counted
<1> HIDE DEF t
<1>6. (NotPlayed(t) <=> NotPlayed(s)) /\ ~Stopped(t)
  BY <1>4 DEF NotPlayed, Stopped
<1>7. Session(t)
  <2>1. /\ t.m_uiSetupCount <= t.selected
        /\ conf.headers => t.fault \notin {"range", "header"} /\ NotPlayed(t)
    BY <1>2, <1>4, <1>5, <1>6
  <2> QED BY <1>1, <1>4, <1>5, <1>6, <2>1 DEF ClientInv, Session
<1>8. Progress(t)
  <2> SUFFICES ASSUME NEW c \in 1 .. Len(s.conns), NEW n \in 1 .. Len(s.m_mRequestMap),
                      Live(s.conns[c], n)
               PROVE  /\ s.m_mRequestMap[n] \notin {"OPTIONS", "DESCRIBE"}
                      /\ s.m_mRequestMap[n] = "SETUP" => SetupOpen(t)
    BY <1>4 DEF Progress
  <2>1. s.m_mRequestMap[n] \in {"OPTIONS", "DESCRIBE"} => s.m_uiSetupCount = 0
    BY <1>1 DEF ClientInv, Progress
  <2>2. NoChain(s.conns, s.m_mRequestMap) => s.m_mRequestMap[n] = "TEARDOWN"
    BY DEF NoChain
  <2> QED BY <2>1, <2>2 DEF SetupOpen
<1>9. Good(t)
  BY <1>1, <1>3, <1>4, <1>7, <1>8, SessionChange DEF Good
<1> QED BY <1>2, <1>4, <1>5, <1>6, <1>9 DEF t

\* shutdown() of a session in state SETUP leaves its counts alone.
LEMMA ShutdownCounts ==
  ASSUME NEW s, Good(s), ~Stopped(s), s.m_eState = "SETUP"
  PROVE  /\ shutdown(s).m_uiSetupCount = s.m_uiSetupCount
         /\ shutdown(s).selected = s.selected
<1> DEFINE t == [s EXCEPT !.m_bShuttingDown = TRUE]
           u == [t EXCEPT !.m_eState = "TEARING_DOWN", !.m_timer = @ /\ t.m_eState # "PLAYING"]
<1>1. s \in ClientRec
  BY DEF Good
<1>2. t \in ClientRec /\ t.m_eState = "SETUP"
  BY <1>1 DEF ClientRec
<1>3. /\ u \in ClientRec /\ u.m_uiSetupCount = s.m_uiSetupCount /\ u.selected = s.selected
      /\ u.conns = s.conns /\ u.m_mRequestMap = s.m_mRequestMap
      /\ u.m_pConnection = s.m_pConnection
  BY <1>1 DEF ClientRec
<1>4. shutdown(s) = request(u, "TEARDOWN")
  BY <1>2 DEF shutdown, tearDown
<1> HIDE DEF t, u
<1>5. s.m_pConnection <= Len(s.conns) /\ Net(s.conns, s.m_mRequestMap)
  BY DEF Good, ClientInv, Session
<1>6. CASE u.m_qOutstandingRequests = <<>>
  <2>1. "TEARDOWN" \in Methods
    BY DEF Methods
  <2>2. /\ request(u, "TEARDOWN").m_uiSetupCount = u.m_uiSetupCount
        /\ request(u, "TEARDOWN").selected = u.selected
    BY <1>3, <1>5, <1>6, <2>1, RequestEffect
  <2> QED BY <1>3, <1>4, <2>2
<1>7. CASE u.m_qOutstandingRequests # <<>>
  BY <1>3, <1>4, <1>7 DEF request, MayRequest
<1> QED BY <1>6, <1>7

\* A fault ends the program and changes nothing else.
LEMMA FaultKeeps ==
  ASSUME NEW s, Good(s), NEW f \in {"assert", "connection", "range", "header"},
         conf.headers => f \notin {"range", "header"}
  PROVE  Good([s EXCEPT !.fault = f])
<1> DEFINE t == [s EXCEPT !.fault = f]
<1>1. s \in ClientRec /\ ClientInv(s)
  BY DEF Good
<1>2. /\ t \in ClientRec
      /\ t.conns = s.conns /\ t.m_mRequestMap = s.m_mRequestMap
      /\ t.m_qOutstandingRequests = s.m_qOutstandingRequests
      /\ t.clientDown = s.clientDown /\ t.m_pConnection = s.m_pConnection
      /\ t.m_eState = s.m_eState /\ t.selected = s.selected
      /\ t.m_uiSetupCount = s.m_uiSetupCount /\ t.media = s.media /\ t.via = s.via
      /\ t.fault = f
  BY <1>1 DEF ClientRec
<1> HIDE DEF t
<1>3. NotPlayed(t) <=> NotPlayed(s)
  BY <1>2 DEF NotPlayed
<1>4. Session(t)
  BY <1>1, <1>2, <1>3 DEF ClientInv, Session, Stopped
<1>5. Progress(t)
  BY <1>1, <1>2, <1>3 DEF ClientInv, Progress, SetupOpen
<1> QED BY <1>1, <1>2, <1>4, <1>5, SessionChange DEF Good, t

\* The handler of a SETUP whose response was popped.  When it does not end the
\* program, a request is outstanding after it, or no media is left to set up.
LEMMA SetupKeeps ==
  ASSUME NEW s, Popped(s), NEW ok \in BOOLEAN, ok => Fits(s, "SETUP"), s.fault = "none",
         conf \in Confs
  PROVE  LET r == handleSetupResponse(s, ok)
         IN  /\ Good(r)
             /\ ok /\ r.fault = "none" =>
                  /\ r.m_uiSetupCount > 0
                  /\ r.m_qOutstandingRequests # <<>> \/ r.m_uiSetupCount >= r.selected
<1> DEFINE t == Counted(s)
           r == handleSetupResponse(s, ok)
<1>1. s \in ClientRec /\ ClientInv(s) /\ s.m_qOutstandingRequests = <<>> /\ ~Stopped(s) /\ Good(s)
      /\ s.m_uiSetupCount \in Nat /\ s.selected \in Nat
  BY ClientFields DEF Popped, Good
<1>2. CASE ~ok
  BY <1>1, <1>2, EndKeeps DEF handleSetupResponse
<1>3. CASE ok /\ s.m_uiSetupCount >= s.selected
  <2>1. ~conf.headers
    BY <1>1, <1>3 DEF Fits, SetupOpen
  <2>2. r = [s EXCEPT !.fault = "range"]
    <3>1. ~(s.m_uiSetupCount < s.selected)
      BY <1>1, <1>3
    <3> QED BY <1>3, <3>1 DEF handleSetupResponse
  <2> HIDE DEF r
  <2>3. r.fault = "range" /\ Good(r)
    BY <1>1, <2>1, <2>2, FaultKeeps DEF ClientRec
  <2> QED BY <2>3 DEF r
<1>4. CASE ok /\ s.m_uiSetupCount < s.selected
  <2>1. /\ NoChain(s.conns, s.m_mRequestMap)
        /\ conf.headers => NotPlayed(s)
    BY <1>4 DEF Fits, SetupOpen
  <2>2. r = IF SetsUp(t) THEN setupSelectedSessions(t)
            ELSE IF conf.transport = "unusable" THEN shutdown(onSessionSetup(t))
            ELSE play(onSessionSetup(t))
    BY <1>1, <1>4 DEF handleSetupResponse, Counted
  <2>3. /\ Good(t) /\ ~Stopped(t)
        /\ t.conns = s.conns /\ t.m_mRequestMap = s.m_mRequestMap
        /\ t.m_qOutstandingRequests = <<>>
        /\ t.m_eState = "SETUP" /\ t.selected = s.selected
        /\ t.m_uiSetupCount = s.m_uiSetupCount + 1 /\ t.m_uiSetupCount \in Nat
        /\ t.m_uiSetupCount > 0 /\ t.selected \in Nat
        /\ t.fault = "none" /\ (NotPlayed(s) => NotPlayed(t))
    BY <1>1, <1>4, <2>1, CountedKeeps
  <2> HIDE DEF t, r
  <2>4. /\ t \in ClientRec /\ ClientInv(t) /\ NoChain(t.conns, t.m_mRequestMap)
        /\ t.m_pConnection <= Len(t.conns) /\ Net(t.conns, t.m_mRequestMap)
    BY <2>1, <2>3 DEF Good, ClientInv, Session
  <2>5. CASE SetsUp(t)
    <3>1. MoreToSetUp(t)
      BY <2>5 DEF SetsUp
    <3>2. MaySend(t, "SETUP") /\ "SETUP" \in Methods
      BY <2>1, <2>3, <2>4, <3>1 DEF MaySend, Methods, MoreToSetUp, SetupOpen
    <3>3. r = request(t, "SETUP")
      BY <2>2, <2>5, <3>1 DEF setupSelectedSessions
    <3>4. Good(r)
      BY <2>3, <2>4, <3>2, <3>3, RequestKeeps DEF Good
    <3>5. r.m_qOutstandingRequests = <<"SETUP">> /\ r.m_uiSetupCount = t.m_uiSetupCount
      BY <2>3, <2>4, <3>2, <3>3, RequestEffect
    <3>6. r.m_qOutstandingRequests # <<>>
      BY <3>5
    <3> QED BY <2>3, <3>4, <3>5, <3>6 DEF r
  <2>6. CASE ~SetsUp(t)
    <3>1. t.m_uiSetupCount = t.selected /\ t.selected > 0
      BY <1>1, <1>4, <2>3, <2>6 DEF SetsUp, MoreToSetUp, MayRequest
    <3> DEFINE v == onSessionSetup(t)
    <3>2. /\ Good(v) /\ ~Stopped(v)
          /\ v.conns = t.conns /\ v.m_mRequestMap = t.m_mRequestMap
          /\ v.m_qOutstandingRequests = t.m_qOutstandingRequests
          /\ v.m_eState = t.m_eState /\ v.selected = t.selected
          /\ v.m_uiSetupCount = t.m_uiSetupCount
          /\ v.fault = "none" /\ conf.transport \in {"udp", "tcp"} => v.media # "none"
      BY <2>3, <2>4, <3>1, SessionSetupKeeps
    <3> HIDE DEF v
    <3>3. v \in ClientRec /\ v.m_pConnection <= Len(v.conns) /\ Net(v.conns, v.m_mRequestMap)
          /\ ClientInv(v) /\ v.m_qOutstandingRequests = <<>>
      BY <2>3, <3>2 DEF Good, ClientInv, Session
    <3>4. CASE conf.transport = "unusable"
      <4>1. r = shutdown(v)
        BY <2>2, <2>6, <3>4 DEF v
      <4>2. Good(r)
        BY <3>2, <4>1, ShutdownKeeps
      <4>3. r.m_uiSetupCount = v.m_uiSetupCount /\ r.selected = v.selected
        BY <2>3, <3>2, <4>1, ShutdownCounts
      <4> QED BY <2>3, <3>1, <3>2, <4>2, <4>3 DEF r
    <3>5. CASE conf.transport # "unusable"
      <4>1. r = request(v, "PLAY")
        BY <2>2, <2>6, <3>3, <3>5 DEF play, MayRequest, v
      <4>2. MaySend(v, "PLAY") /\ "PLAY" \in Methods
        BY <2>4, <3>1, <3>2 DEF MaySend, Methods
      <4>3. Good(r)
        BY <3>2, <3>3, <4>1, <4>2, RequestKeeps DEF Good
      <4>4. r.m_uiSetupCount = v.m_uiSetupCount /\ r.selected = v.selected
        BY <3>3, <4>1, <4>2, RequestEffect
      <4> QED BY <2>3, <3>1, <3>2, <4>3, <4>4 DEF r
    <3> QED BY <3>4, <3>5
  <2> QED BY <2>5, <2>6
<1> QED BY <1>1, <1>2, <1>3, <1>4

\* The second call for one response: it sends nothing, since a request is outstanding.
LEMMA OnceMoreKeeps ==
  ASSUME NEW s, Good(s), s.fault = "none" => /\ s.m_uiSetupCount > 0
                                             /\ \/ s.m_qOutstandingRequests # <<>>
                                                \/ s.m_uiSetupCount >= s.selected,
         ~conf.headers, conf \in Confs
  PROVE  Good(OnceMore(s))
<1>1. CASE s.fault # "none"
  BY <1>1 DEF OnceMore
<1>2. CASE s.fault = "none" /\ s.m_uiSetupCount >= s.selected
  <2>1. s.m_uiSetupCount \in Nat /\ s.selected \in Nat
    BY ClientFields DEF Good
  <2>2. ~(s.m_uiSetupCount < s.selected)
    BY <1>2, <2>1
  <2>3. OnceMore(s) = [s EXCEPT !.fault = "range"]
    BY <1>2, <2>2 DEF OnceMore, handleSetupResponse
  <2> QED BY <2>3, FaultKeeps
<1>3. CASE s.fault = "none" /\ ~(s.m_uiSetupCount >= s.selected)
  <2> DEFINE t == Counted(s)
             v == onSessionSetup(t)
  <2>1. /\ s \in ClientRec /\ s.m_qOutstandingRequests # <<>> /\ s.m_uiSetupCount > 0
        /\ s.m_uiSetupCount \in Nat /\ s.selected \in Nat
    BY <1>3, ClientFields DEF Good
  <2>2. s.m_uiSetupCount < s.selected /\ ~Stopped(s)
    BY <1>3, <2>1 DEF Good, ClientInv, Session
  <2>3. OnceMore(s) = IF SetsUp(t) THEN setupSelectedSessions(t)
            ELSE IF conf.transport = "unusable" THEN shutdown(v) ELSE play(v)
    BY <1>3, <2>2 DEF OnceMore, handleSetupResponse, Counted
  <2>4. /\ Good(t) /\ ~Stopped(t) /\ t.m_eState = "SETUP" /\ t.fault = "none"
        /\ t.m_uiSetupCount > 0 /\ t.m_qOutstandingRequests # <<>>
    BY <1>3, <2>1, <2>2, CountedKeeps
  <2> HIDE DEF t
  <2>5. /\ Good(v) /\ v.m_qOutstandingRequests # <<>>
    BY <2>4, SessionSetupKeeps
  <2> HIDE DEF v
  <2>6. OnceMore(s) = shutdown(v)
    BY <2>3, <2>4, <2>5 DEF SetsUp, MayRequest, play
  <2> QED BY <2>5, <2>6, ShutdownKeeps
<1> QED BY <1>1, <1>2, <1>3

LEMMA HeaderReadKeeps ==
  ASSUME NEW s, Good(s), ~conf.headers
  PROVE  Good(HeaderRead(s))
BY FaultKeeps DEF HeaderRead

\* An answer to SETUP that lacks a header.
LEMMA IncompleteKeeps ==
  ASSUME NEW s, Popped(s), Fits(s, "SETUP"), s.fault = "none", conf \in Confs,
         ~conf.headers, NEW answer \in Incomplete
  PROVE  Good(IncompleteSetup(s, answer))
<1> DEFINE r == handleSetupResponse(s, TRUE)
<1>1. /\ Good(r)
      /\ r.fault = "none" => /\ r.m_uiSetupCount > 0
                             /\ r.m_qOutstandingRequests # <<>> \/ r.m_uiSetupCount >= r.selected
  BY SetupKeeps
<1>2. IncompleteSetup(s, answer) \in
        {HeaderRead(s), OnceMore(r), HeaderRead(r), HeaderRead(OnceMore(r))}
  BY DEF IncompleteSetup, Incomplete
<1> HIDE DEF r
<1>3. Good(s) /\ Good(OnceMore(r))
  BY <1>1, OnceMoreKeeps DEF Popped
<1> QED BY <1>1, <1>2, <1>3, HeaderReadKeeps

LEMMA PlayKeeps ==
  ASSUME NEW s, Popped(s), NEW ok \in BOOLEAN, ok => Fits(s, "PLAY"), conf \in Confs
  PROVE  Good(handlePlayResponse(s, ok))
<1> DEFINE t == [s EXCEPT !.m_eState = "PLAYING", !.m_timer = conf.duration]
<1>1. s \in ClientRec /\ ClientInv(s)
  BY DEF Popped, Good
<1>2. CASE ~ok
  BY <1>2, ShutdownKeeps DEF handlePlayResponse, Popped
<1>3. CASE ok
  <2>1. /\ t \in ClientRec
        /\ t.conns = s.conns /\ t.m_mRequestMap = s.m_mRequestMap
        /\ t.m_qOutstandingRequests = s.m_qOutstandingRequests
        /\ t.clientDown = s.clientDown /\ t.m_pConnection = s.m_pConnection
        /\ t.m_eState = "PLAYING" /\ t.selected = s.selected
        /\ t.m_uiSetupCount = s.m_uiSetupCount /\ t.media = s.media /\ t.via = s.via
        /\ t.fault = s.fault
    BY <1>1 DEF ClientRec, Confs
  <2>2. handlePlayResponse(s, ok) = t
    BY <1>3 DEF handlePlayResponse
  <2> HIDE DEF t
  <2>3. NotPlayed(t) <=> NotPlayed(s)
    BY <2>1 DEF NotPlayed
  <2>4. Session(t)
    BY <1>1, <1>3, <2>1, <2>3 DEF ClientInv, Session, Stopped, Fits, Popped
  <2>5. Progress(t)
    BY <1>1, <2>1, <2>3 DEF ClientInv, Progress, SetupOpen
  <2> QED BY <1>1, <2>1, <2>2, <2>4, <2>5, SessionChange DEF Good
<1> QED BY <1>2, <1>3

LEMMA TeardownKeeps ==
  ASSUME NEW s, Popped(s), NEW ok \in BOOLEAN
  PROVE  Good(handleTeardownResponse(s, ok))
<1> DEFINE u == [s EXCEPT !.m_eState = "INIT"]
           t == onSessionTeardown(u)
<1>1. s \in ClientRec /\ ClientInv(s) /\ s.m_qOutstandingRequests = <<>> /\ ~Stopped(s)
  BY DEF Popped, Good
<1>2. /\ u \in ClientRec
      /\ u.conns = s.conns /\ u.m_mRequestMap = s.m_mRequestMap
      /\ u.m_qOutstandingRequests = s.m_qOutstandingRequests
      /\ u.clientDown = s.clientDown /\ u.m_pConnection = s.m_pConnection
      /\ u.m_eState = "INIT" /\ u.selected = s.selected
      /\ u.m_uiSetupCount = s.m_uiSetupCount /\ u.media = s.media /\ u.via = s.via
      /\ u.fault = s.fault
  BY <1>1 DEF ClientRec
<1>3. s.media \in {"none", "running"}
  BY <1>1, ClientFields DEF Stopped
<1> HIDE DEF u
<1>4. /\ t \in ClientRec
      /\ t.conns = s.conns /\ t.m_mRequestMap = s.m_mRequestMap
      /\ t.m_qOutstandingRequests = s.m_qOutstandingRequests
      /\ t.clientDown = s.clientDown /\ t.m_pConnection = s.m_pConnection
      /\ t.m_eState = "INIT" /\ t.selected = s.selected
      /\ t.m_uiSetupCount = s.m_uiSetupCount /\ t.via = s.via
      /\ t.media = (IF s.media = "running" THEN "stopping" ELSE "none")
      /\ t.fault = s.fault
  BY <1>2, <1>3 DEF ClientRec, onSessionTeardown
<1>5. handleTeardownResponse(s, ok) = Torndown(t)
  BY DEF handleTeardownResponse, u
<1> HIDE DEF t
<1>6. NotPlayed(t) <=> NotPlayed(s)
  BY <1>3, <1>4 DEF NotPlayed
<1>7. Session(t)
  BY <1>1, <1>3, <1>4, <1>6 DEF ClientInv, Session, Stopped
<1>8. Progress(t)
  BY <1>1, <1>4, <1>6 DEF ClientInv, Progress, SetupOpen
<1>9. Good(t)
  BY <1>1, <1>4, <1>7, <1>8, SessionChange DEF Good
<1> QED BY <1>5, <1>9, RtspClientShutdownKeeps DEF Torndown, Good

LEMMA DispatchKeeps ==
  ASSUME NEW s, Popped(s), NEW method \in Methods, NEW ok \in BOOLEAN,
         ok => Fits(s, method), s.fault = "none", conf \in Confs
  PROVE  Good(Dispatch(s, method, ok))
BY OptionsKeeps, DescribeKeeps, SetupKeeps, PlayKeeps, TeardownKeeps DEF Dispatch, Methods

-----------------------------------------------------------------------------
(* Responses and errors.                                                   *)

\* All of the invariant but Carried: the state in which an error is reported.
Loose(s) ==
  s \in ClientRec /\ Session(s) /\ Progress(s) /\ Net(s.conns, s.m_mRequestMap)

LEMMA TailOfOne ==
  ASSUME NEW S, NEW q \in Seq(S), q # <<>>, Len(q) <= 1
  PROVE  Tail(q) \in Seq(S) /\ Len(Tail(q)) = 0
<1> DEFINE k == Len(q)
<1>1. k \in Nat /\ k # 0 /\ k <= 1
  OBVIOUS
<1>2. Len(Tail(q)) = k - 1 /\ Tail(q) \in Seq(S)
  OBVIOUS
<1> HIDE DEF k
<1>3. k = 1
  BY <1>1
<1> QED BY <1>2, <1>3

LEMMA PopFields ==
  ASSUME NEW s \in ClientRec, s.m_qOutstandingRequests # <<>>, Len(s.m_qOutstandingRequests) <= 1
  PROVE  LET r == Pop(s)
         IN  /\ r \in ClientRec
             /\ r.conns = s.conns /\ r.m_mRequestMap = s.m_mRequestMap
             /\ r.m_qOutstandingRequests = <<>>
             /\ r.clientDown = s.clientDown /\ r.m_pConnection = s.m_pConnection
             /\ r.m_eState = s.m_eState /\ r.selected = s.selected
             /\ r.m_uiSetupCount = s.m_uiSetupCount /\ r.media = s.media /\ r.via = s.via
             /\ r.fault = s.fault
<1> DEFINE q == s.m_qOutstandingRequests
<1>1. q \in Seq(Methods) /\ Len(q) \in Nat
  BY ClientFields
<1>2. Tail(q) \in Seq(Methods) /\ Len(Tail(q)) = 0
  BY <1>1, TailOfOne
<1>3. Tail(q) = <<>>
  BY <1>2
<1> QED BY <1>2, <1>3 DEF Pop, ClientRec

LEMMA PopKeeps ==
  ASSUME NEW s, Loose(s), s.m_qOutstandingRequests # <<>>
  PROVE  Popped(Pop(s)) /\ s.media \in {"none", "running"}
<1> DEFINE r == Pop(s)
<1>0. /\ s \in ClientRec /\ Session(s) /\ Progress(s) /\ Net(s.conns, s.m_mRequestMap)
      /\ Len(s.m_qOutstandingRequests) <= 1 /\ ~Stopped(s)
  BY DEF Loose, Session
<1>1. /\ r \in ClientRec
      /\ r.conns = s.conns /\ r.m_mRequestMap = s.m_mRequestMap
      /\ r.m_qOutstandingRequests = <<>>
      /\ r.clientDown = s.clientDown /\ r.m_pConnection = s.m_pConnection
      /\ r.m_eState = s.m_eState /\ r.selected = s.selected
      /\ r.m_uiSetupCount = s.m_uiSetupCount /\ r.media = s.media /\ r.via = s.via
      /\ r.fault = s.fault
  BY <1>0, PopFields
<1> HIDE DEF r
<1>2. NotPlayed(r) <=> NotPlayed(s)
  BY <1>1 DEF NotPlayed
<1>3. Session(r)
  <2>1. Len(r.m_qOutstandingRequests) <= 1
    BY <1>1
  <2> QED BY <1>0, <1>1, <1>2, <2>1 DEF Session, Stopped
<1>4. Progress(r)
  BY <1>0, <1>1, <1>2 DEF Progress, SetupOpen
<1>5. Carried(r)
  BY <1>1 DEF Carried
<1>6. ~Stopped(r)
  BY <1>0, <1>1 DEF Stopped
<1>7. s.media \in {"none", "running"}
  BY <1>0, ClientFields DEF Stopped
<1> QED BY <1>0, <1>1, <1>3, <1>4, <1>5, <1>6, <1>7 DEF Popped, Good, ClientInv, r

LEMMA ErrorKeeps ==
  ASSUME NEW s, Loose(s), s.fault = "none", conf \in Confs
  PROVE  Good(notifyCallerOfError(s))
<1>1. CASE s.m_qOutstandingRequests = <<>>
  <2>1. Carried(s)
    BY <1>1 DEF Carried
  <2> QED BY <1>1, <2>1 DEF notifyCallerOfError, Good, ClientInv, Loose
<1>2. CASE s.m_qOutstandingRequests # <<>>
  <2>1. Popped(Pop(s))
    BY <1>2, PopKeeps
  <2>2. /\ s \in ClientRec /\ Len(s.m_qOutstandingRequests) <= 1
        /\ s.m_qOutstandingRequests \in Seq(Methods)
    BY ClientFields DEF Loose, Session
  <2>3. Head(s.m_qOutstandingRequests) \in Methods
    BY <1>2, <2>2
  <2>4. Pop(s).fault = "none"
    BY <1>2, <2>2, PopFields
  <2>5. Good(Dispatch(Pop(s), Head(s.m_qOutstandingRequests), FALSE))
    BY <2>1, <2>3, <2>4, DispatchKeeps
  <2> QED BY <1>2, <2>5 DEF notifyCallerOfError
<1> QED BY <1>1, <1>2

LEMMA ReadErrorKeeps ==
  ASSUME NEW s, Loose(s), s.fault = "none", conf \in Confs
  PROVE  Good(ReadError(s))
<1>1. CASE s.clientDown
  <2>1. Carried(s)
    BY <1>1 DEF Carried
  <2> QED BY <1>1, <2>1 DEF ReadError, Good, ClientInv, Loose
<1>2. CASE ~s.clientDown
  BY <1>2, ErrorKeeps DEF ReadError
<1> QED BY <1>1, <1>2

\* A response finds the request it answers: it was the one of the chain.
LEMMA ResponseKeeps ==
  ASSUME NEW s, Loose(s), s.fault = "none", conf \in Confs,
         NEW r \in ResponseRec, r.sn \in 1 .. Len(s.m_mRequestMap),
         s.m_mRequestMap[r.sn] # "TEARDOWN" => NoChain(s.conns, s.m_mRequestMap),
         s.m_mRequestMap[r.sn] \in {"OPTIONS", "DESCRIBE"} =>
           s.m_uiSetupCount = 0 /\ NotPlayed(s),
         s.m_mRequestMap[r.sn] = "SETUP" => SetupOpen(s)
  PROVE  Good(readCompletionHandler(s, r))
<1>0. s \in ClientRec /\ s.m_mRequestMap \in Seq(Methods)
  BY ClientFields DEF Loose
<1>1. CASE r.answer = "garbled"
  BY <1>1, ErrorKeeps DEF readCompletionHandler
<1>2. CASE r.answer # "garbled" /\ s.m_qOutstandingRequests = <<>>
  <2>1. readCompletionHandler(s, r) = [s EXCEPT !.fault = "assert"]
    BY <1>2 DEF readCompletionHandler, handleResponse
  <2>2. Carried(s)
    BY <1>2 DEF Carried
  <2>3. Good(s)
    BY <2>2 DEF Loose, Good, ClientInv
  <2> QED BY <2>1, <2>3, FaultKeeps
<1>3. CASE r.answer # "garbled" /\ s.m_qOutstandingRequests # <<>>
  <2> DEFINE p == Pop(s)
             method == s.m_mRequestMap[r.sn]
             ok == r.answer # "error"
  <2>1. Popped(p) /\ s.media \in {"none", "running"}
    BY <1>3, PopKeeps
  <2>2. /\ p.conns = s.conns /\ p.m_mRequestMap = s.m_mRequestMap
        /\ p.selected = s.selected /\ p.m_uiSetupCount = s.m_uiSetupCount
        /\ p.media = s.media /\ p.fault = s.fault
    BY <1>0, <1>3, PopFields DEF Loose, Session
  <2>3. readCompletionHandler(s, r) =
          IF method = "SETUP" /\ r.answer \in Incomplete THEN IncompleteSetup(p, r.answer)
          ELSE Dispatch(p, method, ok)
    BY <1>3 DEF readCompletionHandler, handleResponse
  <2> HIDE DEF p
  <2>4. method \in Methods
    BY <1>0
  <2>5. (NotPlayed(p) <=> NotPlayed(s)) /\ (SetupOpen(p) <=> SetupOpen(s))
    BY <2>2 DEF NotPlayed, SetupOpen
  <2>6. method = "PLAY" /\ conf.transport \in {"udp", "tcp"} => p.media = "running"
    <3>1. method = "PLAY" => ~NotPlayed(s)
      BY DEF NotPlayed
    <3> QED BY <2>1, <2>2, <3>1 DEF Loose, Session
  <2>7. Fits(p, method)
    BY <2>2, <2>5, <2>6 DEF Fits
  <2> HIDE DEF method, ok
  <2>8. ok \in BOOLEAN
    BY DEF ok
  <2>9. Good(Dispatch(p, method, ok))
    BY <2>1, <2>2, <2>4, <2>7, <2>8, DispatchKeeps
  <2>10. CASE method = "SETUP" /\ r.answer \in Incomplete
    <3>1. ~conf.headers
      BY <2>10, ResponseFields DEF AnswerKinds, Incomplete
    <3>2. Good(IncompleteSetup(p, r.answer))
      BY <2>1, <2>2, <2>7, <2>10, <3>1, IncompleteKeeps
    <3> QED BY <2>3, <2>10, <3>2
  <2> QED BY <2>3, <2>9, <2>10
<1> QED BY <1>1, <1>2, <1>3

LEMMA HandleCloseKeeps ==
  ASSUME NEW s, Good(s), NEW c \in Nat
  PROVE  Good(handleClose(s, c))
<1> DEFINE r == handleClose(s, c)
<1>0. /\ s \in ClientRec /\ ClientInv(s)
      /\ s.conns \in Seq(ConnRec) /\ Len(s.conns) \in Nat
  BY ClientFields DEF Good
<1>1. PICK conns \in Seq(ConnRec) :
        /\ Len(conns) = Len(s.conns)
        /\ \A b \in 1 .. Len(s.conns) : conns[b] \in {s.conns[b], close(s.conns[b])}
        /\ r = [s EXCEPT !.m_pConnection = 0, !.conns = conns]
  <2> DEFINE conns == [s.conns EXCEPT ![c] = close(s.conns[c])]
  <2>0. r = [s EXCEPT !.m_pConnection = 0, !.conns = conns]
    BY DEF handleClose, Closing
  <2>1. CASE c \notin 1 .. Len(s.conns)
    <3>1. conns = s.conns
      BY <1>0, <2>1
    <3> QED BY <1>0, <2>0, <3>1
  <2>2. CASE c \in 1 .. Len(s.conns)
    <3>1. close(s.conns[c]) \in ConnRec
      BY <1>0, <2>2, CloseConn
    <3>2. /\ conns \in Seq(ConnRec) /\ Len(conns) = Len(s.conns)
          /\ \A b \in 1 .. Len(s.conns) : conns[b] \in {s.conns[b], close(s.conns[b])}
      BY <1>0, <2>2, <3>1, ExceptSeq
    <3> QED BY <2>0, <3>2
  <2> QED BY <2>1, <2>2
<1> HIDE DEF r
<1>2. /\ r \in ClientRec /\ r.conns = conns
      /\ r.m_mRequestMap = s.m_mRequestMap
      /\ r.m_qOutstandingRequests = s.m_qOutstandingRequests
      /\ r.clientDown = s.clientDown /\ r.m_pConnection = 0
      /\ r.m_eState = s.m_eState /\ r.selected = s.selected
      /\ r.m_uiSetupCount = s.m_uiSetupCount /\ r.media = s.media /\ r.via = s.via
      /\ r.fault = s.fault
  BY <1>0, <1>1 DEF ClientRec
<1>3. ClientInv(r)
  <2>1. /\ Len(r.conns) = Len(s.conns)
        /\ \A b \in 1 .. Len(s.conns) : r.conns[b] \in {s.conns[b], close(s.conns[b])}
    BY <1>1, <1>2
  <2>2. (s.clientDown => r.clientDown) /\ r.m_pConnection \in {0, s.m_pConnection}
    BY <1>2
  <2> QED BY <1>0, <1>2, <2>1, <2>2, ClosesKeep
<1> QED BY <1>2, <1>3 DEF r, Good

-----------------------------------------------------------------------------
(* Steps of one connection.                                                *)

\* The connection d has become e, which has no request that d has not.
Follows(d, e, n) ==
  /\ e \in ConnRec /\ ConnInv(e, n) /\ OnePlace(e)
  /\ HasBye(e) => HasBye(d)
  /\ \A sn \in Nat : Live(e, sn) => Live(d, sn)

LEMMA PutFields ==
  ASSUME NEW s \in ClientRec, NEW c \in 1 .. Len(s.conns), NEW d \in ConnRec
  PROVE  LET r == WithConn(s, c, d)
         IN  /\ r \in ClientRec
             /\ r.conns = [s.conns EXCEPT ![c] = d] /\ r.m_mRequestMap = s.m_mRequestMap
             /\ r.m_qOutstandingRequests = s.m_qOutstandingRequests
             /\ r.clientDown = s.clientDown /\ r.m_pConnection = s.m_pConnection
             /\ r.m_eState = s.m_eState /\ r.selected = s.selected
             /\ r.m_uiSetupCount = s.m_uiSetupCount /\ r.media = s.media /\ r.via = s.via
             /\ r.fault = s.fault
<1> DEFINE conns == [s.conns EXCEPT ![c] = d]
<1>1. conns \in Seq(ConnRec)
  BY ClientFields, ExceptSeq
<1> HIDE DEF conns
<1>2. WithConn(s, c, d) = [s EXCEPT !.conns = conns]
  BY DEF WithConn, conns
<1> QED BY <1>1, <1>2 DEF ClientRec, conns

LEMMA PutLoose ==
  ASSUME NEW s, Loose(s), NEW c \in 1 .. Len(s.conns), NEW d \in ConnRec,
         ConnInv(d, Len(s.m_mRequestMap)), OnePlace(d),
         HasBye(d) => HasBye(s.conns[c]) \/ Stopped(s),
         \A sn \in Nat : Live(d, sn) => Live(s.conns[c], sn)
  PROVE  LET r == WithConn(s, c, d)
         IN  /\ Loose(r) /\ Len(r.conns) = Len(s.conns) /\ r.conns[c] = d
             /\ \A b \in 1 .. Len(s.conns) : b # c => r.conns[b] = s.conns[b]
             /\ \A b \in 1 .. Len(s.conns) : \A sn \in Nat :
                  Live(r.conns[b], sn) => Live(s.conns[b], sn)
<1> DEFINE r == WithConn(s, c, d)
           old == s.conns
           map == s.m_mRequestMap
           conns == [old EXCEPT ![c] = d]
<1>0. /\ s \in ClientRec /\ Session(s) /\ Progress(s) /\ Net(old, map)
      /\ old \in Seq(ConnRec) /\ map \in Seq(Methods) /\ c \in 1 .. Len(old)
      /\ d \in ConnRec /\ ConnInv(d, Len(map)) /\ OnePlace(d)
      /\ HasBye(d) => HasBye(old[c]) \/ Stopped(s)
      /\ \A sn \in Nat : Live(d, sn) => Live(old[c], sn)
  BY ClientFields DEF Loose
<1>1. /\ r \in ClientRec
      /\ r.conns = conns /\ r.m_mRequestMap = map
      /\ r.m_qOutstandingRequests = s.m_qOutstandingRequests
      /\ r.clientDown = s.clientDown /\ r.m_pConnection = s.m_pConnection
      /\ r.m_eState = s.m_eState /\ r.selected = s.selected
      /\ r.m_uiSetupCount = s.m_uiSetupCount /\ r.media = s.media /\ r.via = s.via
      /\ r.fault = s.fault
  BY <1>0, PutFields
<1> HIDE DEF r, old, map
<1>2. /\ conns \in Seq(ConnRec) /\ Len(conns) = Len(old) /\ conns[c] = d
      /\ \A b \in 1 .. Len(old) : b # c => conns[b] = old[b]
      /\ \A b \in 1 .. Len(old) : \A sn \in Nat : Live(conns[b], sn) => Live(old[b], sn)
      /\ Net(conns, map)
  BY <1>0, NetReplace
<1> HIDE DEF conns
<1>3. NotPlayed(r) <=> NotPlayed(s)
  BY <1>1 DEF NotPlayed, map
<1>4. \A b \in 1 .. Len(old) : HasBye(conns[b]) => HasBye(old[b]) \/ Stopped(s)
  BY <1>0, <1>2
<1>5. Session(r)
  BY <1>0, <1>1, <1>2, <1>3, <1>4 DEF Session, Stopped, old
<1>6. Progress(r)
  <2>1. \A b \in 1 .. Len(conns) : \A n \in 1 .. Len(map) : Live(conns[b], n) => Live(old[b], n)
    BY <1>2
  <2> QED BY <1>0, <1>1, <1>2, <1>3, <2>1 DEF Progress, SetupOpen, old, map
<1> QED BY <1>1, <1>2, <1>5, <1>6 DEF Loose, r, old

\* A step after which the connection carries what it carried before.
LEMMA PutKeeps ==
  ASSUME NEW s, Good(s), NEW c \in 1 .. Len(s.conns), NEW d \in ConnRec,
         ConnInv(d, Len(s.m_mRequestMap)), OnePlace(d),
         HasBye(d) => HasBye(s.conns[c]) \/ Stopped(s),
         \A sn \in Nat : Live(d, sn) => Live(s.conns[c], sn),
         \A sn \in Nat : Carries(s.conns[c], sn) => Carries(d, sn)
  PROVE  Good(WithConn(s, c, d))
<1> DEFINE r == WithConn(s, c, d)
<1>0. /\ s \in ClientRec /\ Loose(s) /\ Carried(s) /\ s.m_mRequestMap \in Seq(Methods)
      /\ Len(s.m_mRequestMap) \in Nat
  BY ClientFields DEF Good, ClientInv, Loose
<1>1. /\ Loose(r) /\ Len(r.conns) = Len(s.conns) /\ r.conns[c] = d
      /\ \A b \in 1 .. Len(s.conns) : b # c => r.conns[b] = s.conns[b]
  BY <1>0, PutLoose
<1>2. /\ r.m_mRequestMap = s.m_mRequestMap /\ r.clientDown = s.clientDown
      /\ r.m_qOutstandingRequests = s.m_qOutstandingRequests
  BY <1>0, PutFields
<1> HIDE DEF r
<1>3. \A b \in 1 .. Len(s.conns) : \A sn \in Nat :
        Carries(s.conns[b], sn) => Carries(r.conns[b], sn)
  BY <1>1
<1>4. Carried(r)
  BY <1>0, <1>1, <1>2, <1>3 DEF Carried
<1> QED BY <1>1, <1>4 DEF Good, ClientInv, Loose, r

\* Two connections with the same messages have the same requests.
LEMMA SameMessages ==
  ASSUME NEW d, NEW e, e.m_qRtspRequests = d.m_qRtspRequests,
         e.atServer = d.atServer, e.responses = d.responses
  PROVE  /\ OnePlace(d) => OnePlace(e)
         /\ HasBye(e) <=> HasBye(d)
         /\ \A sn : /\ Queued(e, sn) <=> Queued(d, sn)
                    /\ Answered(e, sn) <=> Answered(d, sn)
                    /\ Live(e, sn) <=> Live(d, sn)
<1>1. \A sn : /\ Queued(e, sn) <=> Queued(d, sn)
              /\ Answered(e, sn) <=> Answered(d, sn)
              /\ Live(e, sn) <=> Live(d, sn)
  BY DEF Queued, Answered, Live
<1>2. OnePlace(d) => OnePlace(e)
  BY <1>1 DEF OnePlace
<1> QED BY <1>1, <1>2 DEF HasBye

LEMMA ConnectFollows ==
  ASSUME NEW d \in ConnRec, NEW n \in Nat, ConnInv(d, n), OnePlace(d), d.connecting
  PROVE  LET e == [d EXCEPT !.m_eState = "CONNECTED", !.connecting = FALSE, !.reading = TRUE,
                            !.writing = d.m_qRtspRequests # <<>>]
         IN  Follows(d, e, n) /\ \A sn \in Nat : Carries(d, sn) => Carries(e, sn)
<1> DEFINE e == [d EXCEPT !.m_eState = "CONNECTED", !.connecting = FALSE, !.reading = TRUE,
                          !.writing = d.m_qRtspRequests # <<>>]
<1>1. /\ e \in ConnRec /\ e.m_eState = "CONNECTED"
      /\ e.m_qRtspRequests = d.m_qRtspRequests
      /\ e.connecting = FALSE /\ e.reading = TRUE
      /\ e.writing = (d.m_qRtspRequests # <<>>)
      /\ e.open = d.open /\ e.broken = d.broken
      /\ e.atServer = d.atServer /\ e.responses = d.responses
  BY DEF ConnRec
<1> HIDE DEF e
<1>2. /\ OnePlace(e) /\ (HasBye(e) <=> HasBye(d))
      /\ \A sn : /\ Queued(e, sn) <=> Queued(d, sn)
                 /\ Answered(e, sn) <=> Answered(d, sn)
                 /\ Live(e, sn) <=> Live(d, sn)
  BY <1>1, SameMessages
<1>3. ConnInv(e, n)
  BY <1>1 DEF ConnInv
<1>4. \A sn : Queued(d, sn) => d.m_qRtspRequests # <<>>
  <2>1. Len(<<>>) = 0
    OBVIOUS
  <2> QED BY <2>1 DEF Queued
<1>5. \A sn \in Nat : Carries(d, sn) => Carries(e, sn)
  BY <1>1, <1>2, <1>4 DEF Carries
<1> QED BY <1>1, <1>2, <1>3, <1>5 DEF Follows, e

LEMMA ConnectFailsFollows ==
  ASSUME NEW d \in ConnRec, NEW n \in Nat, ConnInv(d, n), OnePlace(d)
  PROVE  Follows(d, [d EXCEPT !.m_eState = "ERROR", !.connecting = FALSE], n)
<1> DEFINE e == [d EXCEPT !.m_eState = "ERROR", !.connecting = FALSE]
<1>1. /\ e \in ConnRec /\ e.m_eState = "ERROR"
      /\ e.m_qRtspRequests = d.m_qRtspRequests
      /\ e.connecting = FALSE /\ e.reading = d.reading /\ e.writing = d.writing
      /\ e.atServer = d.atServer /\ e.responses = d.responses
  BY DEF ConnRec
<1> HIDE DEF e
<1>2. ConnInv(e, n)
  BY <1>1 DEF ConnInv
<1> QED BY <1>1, <1>2, SameMessages DEF Follows, e

LEMMA ReadFailsFollows ==
  ASSUME NEW d \in ConnRec, NEW n \in Nat, ConnInv(d, n), OnePlace(d)
  PROVE  Follows(d, [d EXCEPT !.m_eState = "ERROR", !.reading = FALSE], n)
<1> DEFINE e == [d EXCEPT !.m_eState = "ERROR", !.reading = FALSE]
<1>1. /\ e \in ConnRec /\ e.m_eState = "ERROR"
      /\ e.m_qRtspRequests = d.m_qRtspRequests
      /\ e.connecting = d.connecting /\ e.reading = FALSE /\ e.writing = d.writing
      /\ e.atServer = d.atServer /\ e.responses = d.responses
  BY DEF ConnRec
<1> HIDE DEF e
<1>2. ConnInv(e, n)
  BY <1>1 DEF ConnInv
<1> QED BY <1>1, <1>2, SameMessages DEF Follows, e

\* The first response is read: the request it answers is nowhere any more.
LEMMA ReadFollows ==
  ASSUME NEW d \in ConnRec, NEW n \in Nat, ConnInv(d, n), OnePlace(d), d.responses # <<>>
  PROVE  LET e == [d EXCEPT !.responses = Tail(d.responses)]
             sn == Head(d.responses).sn
         IN  /\ Follows(d, e, n) /\ Head(d.responses) \in ResponseRec
             /\ sn \in 1 .. n /\ Live(d, sn) /\ ~Live(e, sn)
<1> DEFINE p == d.responses
           e == [d EXCEPT !.responses = Tail(p)]
           k == Head(p).sn
<1>0. p \in Seq(ResponseRec) /\ p # <<>>
  BY ConnFields
<1> HIDE DEF p
<1>1. /\ Tail(p) \in Seq(ResponseRec) /\ Len(Tail(p)) = Len(p) - 1 /\ Len(p) >= 1
      /\ Len(p) \in Nat
      /\ \A i \in 1 .. Len(Tail(p)) : i + 1 \in 1 .. Len(p) /\ Tail(p)[i] = p[i + 1]
      /\ Head(p) = p[1] /\ p[1] \in ResponseRec
  BY <1>0
<1> DEFINE q == Tail(p)
<1> HIDE DEF q
<1>2. /\ e \in ConnRec /\ e.m_eState = d.m_eState
      /\ e.m_qRtspRequests = d.m_qRtspRequests
      /\ e.connecting = d.connecting /\ e.reading = d.reading /\ e.writing = d.writing
      /\ e.atServer = d.atServer /\ e.responses = q
  <2>1. q \in Seq(ResponseRec)
    BY <1>1 DEF q
  <2>2. e = [d EXCEPT !.responses = q]
    BY DEF q
  <2> HIDE DEF e
  <2> QED BY <2>1, <2>2 DEF ConnRec
<1> HIDE DEF e
<1>3. \A i \in 1 .. Len(q) : i + 1 \in 1 .. Len(p) /\ q[i] = p[i + 1]
  BY <1>1 DEF q
<1>4. \A sn : Queued(e, sn) <=> Queued(d, sn)
  BY <1>2 DEF Queued
<1>5. ConnInv(e, n)
  <2>1. \A i \in 1 .. Len(q) : q[i].sn \in 1 .. n
    BY <1>3 DEF ConnInv, p
  <2> QED BY <1>2, <2>1 DEF ConnInv
<1>6. OnePlace(e)
  <2>0. \A i, j \in 1 .. Len(p) : p[i].sn = p[j].sn => i = j
    BY DEF OnePlace, p
  <2>1. \A i, j \in 1 .. Len(q) : q[i].sn = q[j].sn => i = j
    BY <1>3, <2>0
  <2>2. \A i \in 1 .. Len(q) : q[i].sn \notin d.atServer /\ ~Queued(d, q[i].sn)
    BY <1>3 DEF OnePlace, p
  <2> QED BY <1>2, <1>4, <2>1, <2>2 DEF OnePlace
<1>7. \A sn : Answered(e, sn) => Answered(d, sn)
  BY <1>2, <1>3 DEF Answered, p
<1>8. k \in 1 .. n /\ Live(d, k)
  BY <1>1 DEF ConnInv, Live, Answered, p
<1>9. ~Live(e, k)
  <2>1. 1 \in 1 .. Len(p) /\ k = p[1].sn
    BY <1>1
  <2>2. k \notin d.atServer /\ ~Queued(d, k)
    BY <2>1 DEF OnePlace, p
  <2>3. ~Answered(e, k)
    <3> SUFFICES ASSUME NEW i \in 1 .. Len(q), q[i].sn = k PROVE FALSE
      BY <1>2 DEF Answered
    <3>1. i + 1 \in 1 .. Len(p) /\ p[i + 1].sn = p[1].sn
      BY <1>3, <2>1
    <3>2. i + 1 = 1
      BY <2>1, <3>1 DEF OnePlace, p
    <3> QED BY <3>2
  <2> QED BY <1>2, <1>4, <2>2, <2>3 DEF Live
<1>10. HasBye(e) <=> HasBye(d)
  BY <1>2 DEF HasBye
<1> QED BY <1>1, <1>2, <1>4, <1>5, <1>6, <1>7, <1>8, <1>9, <1>10 DEF Follows, Live, e, k, p

\* The first message of the queue is gone, and the next is written if writing.
LEMMA DequeueMessages ==
  ASSUME NEW d \in ConnRec, NEW n \in Nat, ConnInv(d, n), OnePlace(d), d.m_qRtspRequests # <<>>
  PROVE  LET q == d.m_qRtspRequests
         IN  /\ Tail(q) \in Seq(MessageRec) /\ q[1] \in MessageRec /\ Head(q) = q[1]
             /\ Len(q) \in Nat /\ Len(q) >= 1
             /\ \A i \in 1 .. Len(Tail(q)) : i + 1 \in 1 .. Len(q) /\ Tail(q)[i] = q[i + 1]
             /\ \A i \in 2 .. Len(q) : i - 1 \in 1 .. Len(Tail(q)) /\ Tail(q)[i - 1] = q[i]
<1> DEFINE q == d.m_qRtspRequests
<1>0. q \in Seq(MessageRec) /\ q # <<>>
  BY ConnFields
<1> HIDE DEF q
<1>1. /\ Tail(q) \in Seq(MessageRec) /\ Len(Tail(q)) = Len(q) - 1 /\ Len(q) >= 1
      /\ Len(q) \in Nat
      /\ \A i \in 1 .. Len(Tail(q)) : i + 1 \in 1 .. Len(q) /\ Tail(q)[i] = q[i + 1]
      /\ Head(q) = q[1] /\ q[1] \in MessageRec
  BY <1>0
<1>2. \A i \in 2 .. Len(q) : i - 1 \in 1 .. Len(Tail(q)) /\ Tail(q)[i - 1] = q[i]
  BY <1>1
<1> QED BY <1>1, <1>2 DEF q

\* What the queue without its first message means for the requests.
LEMMA DequeueFollows ==
  ASSUME NEW d \in ConnRec, NEW n \in Nat, ConnInv(d, n), OnePlace(d), d.m_qRtspRequests # <<>>,
         NEW e \in ConnRec, e.m_qRtspRequests = Tail(d.m_qRtspRequests),
         e.responses = d.responses,
         e.atServer = d.atServer \/
           (/\ Head(d.m_qRtspRequests).type = "MT_RTSP"
            /\ e.atServer = d.atServer \cup {Head(d.m_qRtspRequests).id})
  PROVE  /\ OnePlace(e) /\ (HasBye(e) => HasBye(d))
         /\ \A sn \in Nat : Live(e, sn) => Live(d, sn)
         /\ \A sn \in Nat : Answered(e, sn) <=> Answered(d, sn)
         /\ \A sn \in Nat : Queued(d, sn) => Queued(e, sn) \/ Head(d.m_qRtspRequests) = Request(sn)
         /\ \A i \in 1 .. Len(e.m_qRtspRequests) :
              /\ e.m_qRtspRequests[i].id <= n
              /\ e.m_qRtspRequests[i].type = "MT_RTSP" => e.m_qRtspRequests[i].id >= 1
         /\ e.atServer \subseteq 1 .. n
         /\ Head(d.m_qRtspRequests) \in MessageRec
<1> DEFINE q == d.m_qRtspRequests
           p == e.m_qRtspRequests
           h == Head(q)
<1>1. /\ h \in MessageRec /\ h = q[1] /\ Len(q) \in Nat /\ 1 \in 1 .. Len(q)
      /\ \A i \in 1 .. Len(p) : i + 1 \in 1 .. Len(q) /\ p[i] = q[i + 1]
      /\ \A i \in 2 .. Len(q) : i - 1 \in 1 .. Len(p) /\ p[i - 1] = q[i]
  BY DequeueMessages
<1>2. /\ \A i \in 1 .. Len(q) :
           q[i].id <= n /\ (q[i].type = "MT_RTSP" => q[i].id >= 1)
      /\ \A i, j \in 1 .. Len(q) : q[i].type = "MT_RTSP" /\ q[i] = q[j] => i = j
  BY DEF ConnInv, OnePlace
<1>3. \A sn \in Nat : Queued(d, sn) <=> \E i \in 1 .. Len(q) : q[i] = Request(sn)
  BY DEF Queued
<1>4. \A sn \in Nat : Queued(e, sn) <=> \E i \in 1 .. Len(p) : p[i] = Request(sn)
  BY DEF Queued
<1>5. (HasBye(e) <=> \E i \in 1 .. Len(p) : p[i].type = "BYE")
      /\ (HasBye(d) <=> \E i \in 1 .. Len(q) : q[i].type = "BYE")
  BY DEF HasBye
<1>6. e.atServer = d.atServer \/ (h.type = "MT_RTSP" /\ e.atServer = d.atServer \cup {h.id})
  OBVIOUS
<1>7. \A sn \in Nat : Answered(e, sn) <=> Answered(d, sn)
  BY DEF Answered
<1>8. /\ d.atServer \subseteq 1 .. n /\ \A sn \in d.atServer : sn \in Nat
      /\ \A i \in 1 .. Len(d.responses) : d.responses[i].sn \in 1 .. n
  BY ConnFields DEF ConnInv
<1>9. h.type = "MT_RTSP" => h = Request(h.id)
  BY <1>1 DEF Request, Message, MessageRec
<1> HIDE DEF p, q, h
<1>10. \A sn \in Nat : Queued(e, sn) => Queued(d, sn)
  <2>1. \A i \in 1 .. Len(p) : i + 1 \in 1 .. Len(q) /\ p[i] = q[i + 1]
    BY <1>1
  <2> QED BY <1>3, <1>4, <2>1, Zenon
<1>11. \A sn \in Nat : Queued(d, sn) => Queued(e, sn) \/ h = Request(sn)
  <2> SUFFICES ASSUME NEW sn \in Nat, NEW i \in 1 .. Len(q), q[i] = Request(sn), i # 1
               PROVE  Queued(e, sn)
    BY <1>1, <1>3
  <2>1. i \in 2 .. Len(q)
    BY <1>1
  <2> QED BY <1>1, <1>4, <2>1
<1>12. \A i \in 1 .. Len(p) : p[i].id <= n /\ (p[i].type = "MT_RTSP" => p[i].id >= 1)
  BY <1>1, <1>2
<1>13. h.type = "MT_RTSP" => h.id \in 1 .. n /\ Queued(d, h.id)
  <2>1. h.id \in Nat /\ h.id <= n /\ (h.type = "MT_RTSP" => h.id >= 1)
    BY <1>1, <1>2, MessageFields
  <2>2. h.type = "MT_RTSP" => Queued(d, h.id)
    BY <1>1, <1>3, <1>9, <2>1
  <2> QED BY <2>1, <2>2
<1>14. e.atServer \subseteq 1 .. n
  BY <1>6, <1>8, <1>13
<1>15. h.type = "MT_RTSP" => ~Queued(e, h.id)
  <2> SUFFICES ASSUME h.type = "MT_RTSP", NEW i \in 1 .. Len(p), p[i] = h PROVE FALSE
    BY <1>4, <1>9, <1>13
  <2>1. i + 1 \in 1 .. Len(q) /\ q[i + 1] = q[1] /\ q[1].type = "MT_RTSP"
    BY <1>1
  <2>2. i + 1 = 1
    BY <1>1, <1>2, <2>1
  <2> QED BY <2>2
<1>16. OnePlace(e)
  <2>1. \A i, j \in 1 .. Len(p) : p[i].type = "MT_RTSP" /\ p[i] = p[j] => i = j
    BY <1>1, <1>2
  <2>2. \A sn \in e.atServer : ~Queued(e, sn)
    BY <1>6, <1>8, <1>10, <1>15 DEF OnePlace
  <2>3. \A i \in 1 .. Len(d.responses) :
          /\ d.responses[i].sn \in Nat /\ d.responses[i].sn \notin d.atServer
          /\ ~Queued(d, d.responses[i].sn)
    BY <1>8 DEF OnePlace
  <2>4. \A i \in 1 .. Len(d.responses) :
          d.responses[i].sn \notin e.atServer /\ ~Queued(e, d.responses[i].sn)
    BY <1>6, <1>10, <1>13, <2>3
  <2> QED BY <2>1, <2>2, <2>4 DEF OnePlace, p
<1>17. HasBye(e) => HasBye(d)
  BY <1>1, <1>5
<1>18. \A sn \in Nat : Live(e, sn) => Live(d, sn)
  BY <1>6, <1>7, <1>10, <1>13 DEF Live
<1> QED BY <1>1, <1>7, <1>11, <1>12, <1>14, <1>16, <1>17, <1>18 DEF p, q, h

LEMMA HandleWriteFollows ==
  ASSUME NEW d \in ConnRec, NEW n \in Nat, ConnInv(d, n), OnePlace(d), d.writing,
         NEW e \in ConnRec, e.m_qRtspRequests = Tail(d.m_qRtspRequests),
         e.responses = d.responses, e.m_eState = d.m_eState,
         e.connecting = d.connecting, e.reading = d.reading,
         e.writing = (Tail(d.m_qRtspRequests) # <<>>),
         e.open = d.open, e.broken = d.broken,
         e.atServer = IF Head(d.m_qRtspRequests).type = "MT_RTSP" /\ ~d.broken /\ d.open
                      THEN d.atServer \cup {Head(d.m_qRtspRequests).id} ELSE d.atServer
  PROVE  Follows(d, e, n) /\ \A sn \in Nat : Carries(d, sn) => Carries(e, sn)
<1> DEFINE msg == Head(d.m_qRtspRequests)
           rest == Tail(d.m_qRtspRequests)
<1>0. d.m_qRtspRequests # <<>>
  BY DEF ConnInv
<1>1. e.atServer = d.atServer \/ (msg.type = "MT_RTSP" /\ e.atServer = d.atServer \cup {msg.id})
  OBVIOUS
<1>2. /\ OnePlace(e) /\ (HasBye(e) => HasBye(d))
      /\ \A sn \in Nat : Live(e, sn) => Live(d, sn)
      /\ \A sn \in Nat : Answered(e, sn) <=> Answered(d, sn)
      /\ \A sn \in Nat : Queued(d, sn) => Queued(e, sn) \/ msg = Request(sn)
      /\ \A i \in 1 .. Len(e.m_qRtspRequests) :
           /\ e.m_qRtspRequests[i].id <= n
           /\ e.m_qRtspRequests[i].type = "MT_RTSP" => e.m_qRtspRequests[i].id >= 1
      /\ e.atServer \subseteq 1 .. n
  <2>1. e.atServer = d.atServer \/
           (/\ Head(d.m_qRtspRequests).type = "MT_RTSP"
            /\ e.atServer = d.atServer \cup {Head(d.m_qRtspRequests).id})
    BY <1>1
  <2> QED BY <1>0, <2>1, DequeueFollows
<1>3. ConnInv(e, n)
  <2>1. ~d.connecting
    BY DEF ConnInv
  <2>2. \A i \in 1 .. Len(e.responses) : e.responses[i].sn \in 1 .. n
    BY DEF ConnInv
  <2>3. /\ e.writing => e.m_qRtspRequests # <<>>
        /\ e.connecting => ~e.writing
        /\ e.m_eState = "CONNECTING" => e.connecting
        /\ e.m_eState = "CONNECTED" =>
             ~e.connecting /\ e.reading /\ (e.m_qRtspRequests # <<>> => e.writing)
    BY <2>1 DEF ConnInv
  <2> QED BY <1>2, <2>2, <2>3 DEF ConnInv
<1>4. ASSUME NEW sn \in Nat, Carries(d, sn) PROVE Carries(e, sn)
  <2>1. ~d.connecting
    BY DEF ConnInv
  <2>2. d.reading
    BY <1>4, <2>1 DEF Carries
  <2>3. CASE d.broken \/ ~d.open
    BY <2>2, <2>3 DEF Carries
  <2>4. CASE ~d.broken /\ d.open
    <3>1. CASE sn \in d.atServer \/ Answered(d, sn)
      <4>1. sn \in e.atServer \/ Answered(e, sn)
        BY <1>1, <1>2, <3>1
      <4> QED BY <2>2, <4>1 DEF Carries
    <3>2. CASE Queued(e, sn)
      <4> DEFINE q == e.m_qRtspRequests
      <4>1. \E i \in 1 .. Len(q) : TRUE
        BY <3>2 DEF Queued
      <4>2. q = rest
        OBVIOUS
      <4> HIDE DEF q
      <4>3. q # <<>>
        BY <4>1
      <4>4. e.writing = TRUE
        BY <4>2, <4>3
      <4> QED BY <2>2, <3>2, <4>4 DEF Carries
    <3>3. CASE msg = Request(sn)
      <4>1. msg.type = "MT_RTSP" /\ msg.id = sn
        BY <3>3, RequestType
      <4>2. sn \in e.atServer
        BY <2>4, <4>1
      <4> QED BY <2>2, <4>2 DEF Carries
    <3> QED BY <1>2, <1>4, <2>1, <2>4, <3>1, <3>2, <3>3 DEF Carries
  <2> QED BY <2>3, <2>4
<1> QED BY <1>2, <1>3, <1>4 DEF Follows

LEMMA WriteFailsFollows ==
  ASSUME NEW d \in ConnRec, NEW n \in Nat, ConnInv(d, n), OnePlace(d), d.writing
  PROVE  Follows(d, [d EXCEPT !.m_eState = "ERROR", !.writing = FALSE,
                              !.m_qRtspRequests = Tail(d.m_qRtspRequests)], n)
<1> DEFINE rest == Tail(d.m_qRtspRequests)
           e == [d EXCEPT !.m_eState = "ERROR", !.writing = FALSE, !.m_qRtspRequests = rest]
<1>0. d.m_qRtspRequests # <<>>
  BY DEF ConnInv
<1>1. rest \in Seq(MessageRec)
  BY <1>0, DequeueMessages
<1> HIDE DEF rest
<1>2. /\ e \in ConnRec /\ e.m_eState = "ERROR" /\ e.m_qRtspRequests = rest
      /\ e.connecting = d.connecting /\ e.reading = d.reading /\ e.writing = FALSE
      /\ e.atServer = d.atServer /\ e.responses = d.responses
  BY <1>1 DEF ConnRec
<1> HIDE DEF e
<1>3. /\ OnePlace(e) /\ (HasBye(e) => HasBye(d))
      /\ \A sn \in Nat : Live(e, sn) => Live(d, sn)
      /\ \A i \in 1 .. Len(e.m_qRtspRequests) :
           /\ e.m_qRtspRequests[i].id <= n
           /\ e.m_qRtspRequests[i].type = "MT_RTSP" => e.m_qRtspRequests[i].id >= 1
      /\ e.atServer \subseteq 1 .. n
  BY <1>0, <1>2, DequeueFollows DEF rest
<1>4. ConnInv(e, n)
  BY <1>2, <1>3 DEF ConnInv
<1> QED BY <1>2, <1>3, <1>4 DEF Follows, e, rest

\* Responses are lost, and what the server has to answer: doClose and Break.
LEMMA LossFollows ==
  ASSUME NEW d \in ConnRec, NEW n \in Nat, ConnInv(d, n), OnePlace(d),
         NEW e \in ConnRec, e.m_qRtspRequests = d.m_qRtspRequests, e.atServer = {},
         e.responses \in {<<>>, d.responses},
         e.connecting = d.connecting, e.reading = d.reading, e.writing = d.writing,
         e.m_eState \in {"CLOSED", d.m_eState}, e.broken \/ ~e.open
  PROVE  Follows(d, e, n) /\ \A sn \in Nat : Carries(d, sn) => Carries(e, sn)
<1>0. \A sn : Queued(e, sn) <=> Queued(d, sn)
  BY DEF Queued
<1>1. \A i \in 1 .. Len(e.responses) : e.responses = d.responses
  <2>1. Len(<<>>) = 0
    OBVIOUS
  <2> QED BY <2>1
<1>2. \A sn : Answered(e, sn) => Answered(d, sn)
  BY <1>1 DEF Answered
<1>3. ConnInv(e, n)
  BY <1>1 DEF ConnInv
<1>4. OnePlace(e)
  BY <1>0, <1>1 DEF OnePlace
<1>5. HasBye(e) <=> HasBye(d)
  BY DEF HasBye
<1>6. \A sn \in Nat : Carries(d, sn) => Carries(e, sn)
  BY <1>0 DEF Carries
<1> QED BY <1>0, <1>2, <1>3, <1>4, <1>5, <1>6 DEF Follows, Live

\* The server answers a request.
LEMMA AnswerFollows ==
  ASSUME NEW d \in ConnRec, NEW n \in Nat, ConnInv(d, n), OnePlace(d),
         NEW k \in d.atServer, NEW answer \in AnswerKinds
  PROVE  LET e == [d EXCEPT !.atServer = d.atServer \ {k},
                            !.responses = Append(d.responses, [sn |-> k, answer |-> answer])]
         IN  Follows(d, e, n) /\ \A sn \in Nat : Carries(d, sn) => Carries(e, sn)
<1> DEFINE a == [sn |-> k, answer |-> answer]
           p == d.responses
           q == Append(p, a)
           at == d.atServer \ {k}
           e == [d EXCEPT !.atServer = at, !.responses = q]
<1>0. /\ k \in Nat /\ k \in 1 .. n /\ p \in Seq(ResponseRec) /\ d.atServer \in SUBSET Nat
      /\ d.atServer \subseteq 1 .. n
  BY ConnFields DEF ConnInv
<1>1. a \in ResponseRec /\ a.sn = k
  BY <1>0 DEF ResponseRec
<1> HIDE DEF a
<1>2. /\ q \in Seq(ResponseRec) /\ Len(q) = Len(p) + 1 /\ q[Len(p) + 1] = a /\ Len(p) \in Nat
      /\ \A i \in 1 .. Len(p) : q[i] = p[i]
  BY <1>0, <1>1
<1>3. at \in SUBSET Nat
  BY <1>0
<1> HIDE DEF q, at
<1>4. /\ e \in ConnRec /\ e.m_eState = d.m_eState
      /\ e.m_qRtspRequests = d.m_qRtspRequests
      /\ e.connecting = d.connecting /\ e.reading = d.reading /\ e.writing = d.writing
      /\ e.open = d.open /\ e.broken = d.broken
      /\ e.atServer = at /\ e.responses = q
  BY <1>2, <1>3 DEF ConnRec
<1> HIDE DEF e
<1>5. /\ \A sn : Queued(e, sn) <=> Queued(d, sn)
      /\ HasBye(e) <=> HasBye(d)
  BY <1>4 DEF Queued, HasBye
<1>6. \A sn : Answered(e, sn) <=> Answered(d, sn) \/ sn = k
  <2>1. \A sn : Answered(d, sn) <=> \E i \in 1 .. Len(p) : p[i].sn = sn
    BY DEF Answered
  <2>2. \A sn : Answered(e, sn) <=> \E i \in 1 .. Len(q) : q[i].sn = sn
    BY <1>4 DEF Answered
  <2> HIDE DEF p
  <2>3. \A sn : Answered(d, sn) \/ sn = k => Answered(e, sn)
    BY <1>1, <1>2, <2>1, <2>2
  <2>4. \A sn : Answered(e, sn) => Answered(d, sn) \/ sn = k
    <3> SUFFICES ASSUME NEW i \in 1 .. Len(q), q[i].sn # k
                 PROVE  \E j \in 1 .. Len(p) : p[j].sn = q[i].sn
      BY <2>1, <2>2
    <3>1. i \in 1 .. Len(p)
      BY <1>1, <1>2
    <3> QED BY <1>2, <3>1
  <2> QED BY <2>3, <2>4
<1>7. ConnInv(e, n)
  <2>1. \A i \in 1 .. Len(q) : q[i].sn \in 1 .. n
    <3>1. \A i \in 1 .. Len(p) : p[i].sn \in 1 .. n
      BY DEF ConnInv
    <3> HIDE DEF p, q
    <3>2. \A i \in 1 .. Len(q) : i \in 1 .. Len(p) \/ i = Len(p) + 1
      BY <1>1, <1>2
    <3> QED BY <1>0, <1>1, <1>2, <3>1, <3>2
  <2>2. at \subseteq 1 .. n
    BY <1>0 DEF at
  <2> QED BY <1>4, <2>1, <2>2 DEF ConnInv
<1>8. OnePlace(e)
  <2>1. \A i \in 1 .. Len(p) : p[i].sn # k /\ p[i].sn \notin d.atServer /\ ~Queued(d, p[i].sn)
    BY DEF OnePlace
  <2>2. \A i, j \in 1 .. Len(p) : p[i].sn = p[j].sn => i = j
    BY DEF OnePlace
  <2> HIDE DEF p
  <2>3. \A i, j \in 1 .. Len(q) : q[i].sn = q[j].sn => i = j
    BY <1>1, <1>2, <2>1, <2>2
  <2>4. ~Queued(d, k) /\ \A sn \in at : ~Queued(d, sn)
    BY DEF OnePlace, at
  <2>5. \A i \in 1 .. Len(q) : q[i].sn \notin at /\ ~Queued(d, q[i].sn)
    BY <1>1, <1>2, <2>1, <2>4 DEF at
  <2>6. \A i, j \in 1 .. Len(d.m_qRtspRequests) :
          d.m_qRtspRequests[i].type = "MT_RTSP" /\ d.m_qRtspRequests[i] = d.m_qRtspRequests[j]
          => i = j
    BY DEF OnePlace
  <2> QED BY <1>4, <1>5, <2>3, <2>4, <2>5, <2>6 DEF OnePlace
<1>9. \A sn \in Nat : Live(e, sn) => Live(d, sn)
  BY <1>4, <1>5, <1>6 DEF Live, at
<1>10. \A sn \in Nat : Carries(d, sn) => Carries(e, sn)
  BY <1>4, <1>5, <1>6 DEF Carries, at
<1> QED BY <1>4, <1>5, <1>7, <1>8, <1>9, <1>10 DEF Follows, e, q, at, p, a

\* Media on a connection.
LEMMA MediaFollows ==
  ASSUME NEW d \in ConnRec, NEW n \in Nat, ConnInv(d, n), OnePlace(d),
         NEW msg \in MessageRec, msg.type # "MT_RTSP", msg.id = 0
  PROVE  LET e == writeInterleavedData(d, msg)
         IN  /\ e \in ConnRec /\ ConnInv(e, n) /\ OnePlace(e)
             /\ \A sn \in Nat : Live(e, sn) => Live(d, sn)
             /\ \A sn \in Nat : Carries(d, sn) => Carries(e, sn)
             /\ msg.type # "BYE" /\ HasBye(e) => HasBye(d)
<1>1. CASE d.m_eState = "CONNECTED"
  <2>1. ~eof(d)
    BY <1>1 DEF eof
  <2> QED BY <1>1, <2>1, WriteKeeps DEF writeInterleavedData
<1>2. CASE d.m_eState # "CONNECTED"
  BY <1>2 DEF writeInterleavedData
<1> QED BY <1>1, <1>2

-----------------------------------------------------------------------------
(* Every step keeps the invariant.                                         *)

\* Once the session is started it is enough that the client is good.
LEMMA StartedKeeps ==
  ASSUME Inv, started' = TRUE, conf' = conf, Good(client')
  PROVE  Inv'
<1>1. ClientInv(client)'
  <2>1. Session(client)'
    BY DEF Good, ClientInv, Session, NotPlayed, Stopped
  <2>2. Progress(client)' /\ Carried(client)' /\ Net(client.conns, client.m_mRequestMap)'
    BY DEF Good, ClientInv, Progress, SetupOpen, Carried, Net, NotPlayed
  <2> QED BY <2>1, <2>2 DEF ClientInv
<1>2. (client \in ClientRec)'
  BY DEF Good, ClientRec, ConnRec, ResponseRec, AnswerKinds
<1> QED BY <1>1, <1>2 DEF Inv, Good

\* A connection exists only when the session was started.
LEMMA ConnOK ==
  ASSUME Inv, NEW c \in 1 .. Len(client.conns)
  PROVE  /\ started = TRUE /\ Good(client) /\ Loose(client) /\ conf \in Confs /\ client \in ClientRec
         /\ client.conns[c] \in ConnRec
         /\ ConnInv(client.conns[c], Len(client.m_mRequestMap))
         /\ OnePlace(client.conns[c]) /\ Len(client.m_mRequestMap) \in Nat /\ c \in Nat
<1>1. Good(client) /\ client \in ClientRec /\ conf \in Confs /\ started \in BOOLEAN
  BY DEF Inv, Good
<1>2. /\ client.conns \in Seq(ConnRec) /\ client.m_mRequestMap \in Seq(Methods)
      /\ Len(client.conns) \in Nat /\ Len(client.m_mRequestMap) \in Nat
  BY <1>1, ClientFields
<1>3. Net(client.conns, client.m_mRequestMap) /\ Loose(client)
  BY <1>1 DEF Good, ClientInv, Loose
<1>4. client.conns # <<>>
  <2> DEFINE q == client.conns
  <2>1. \E i \in 1 .. Len(q) : TRUE
    OBVIOUS
  <2> HIDE DEF q
  <2>2. q # <<>>
    BY <2>1
  <2> QED BY <2>2 DEF q
<1>5. started = TRUE
  BY <1>1, <1>4 DEF Inv
<1> QED BY <1>1, <1>2, <1>3, <1>5 DEF Net

\* A step of a connection after which it carries what it carried before.
LEMMA ConnStep ==
  ASSUME Inv, NEW c \in 1 .. Len(client.conns), NEW d,
         Follows(client.conns[c], d, Len(client.m_mRequestMap)),
         \A sn \in Nat : Carries(client.conns[c], sn) => Carries(d, sn),
         client' = WithConn(client, c, d), conf' = conf, started' = started
  PROVE  Inv'
<1>1. started = TRUE /\ Good(client)
  BY ConnOK
<1>2. Good(client')
  BY <1>1, PutKeeps DEF Follows
<1> QED BY <1>1, <1>2, StartedKeeps

LEMMA HandleConnectKeeps ==
  ASSUME Inv, NEW c \in 1 .. Len(client.conns), handleConnect(c)
  PROVE  Inv'
<1> DEFINE d == client.conns[c]
           e == [d EXCEPT !.m_eState = "CONNECTED", !.connecting = FALSE, !.reading = TRUE,
                          !.writing = d.m_qRtspRequests # <<>>]
<1>1. d.connecting /\ client' = WithConn(client, c, e) /\ conf' = conf /\ started' = started
  BY DEF handleConnect, OnConnection, Conn
<1>2. /\ d \in ConnRec /\ ConnInv(d, Len(client.m_mRequestMap))
      /\ OnePlace(d) /\ Len(client.m_mRequestMap) \in Nat
  BY ConnOK
<1> HIDE DEF d
<1>3. /\ Follows(d, e, Len(client.m_mRequestMap))
      /\ \A sn \in Nat : Carries(d, sn) => Carries(e, sn)
  BY <1>1, <1>2, ConnectFollows
<1> HIDE DEF e
<1> QED BY <1>1, <1>3, ConnStep DEF d

LEMMA HandleConnectFailsKeeps ==
  ASSUME Inv, NEW c \in 1 .. Len(client.conns), handleConnectFails(c)
  PROVE  Inv'
<1> DEFINE d == client.conns[c]
           e == [d EXCEPT !.m_eState = "ERROR", !.connecting = FALSE]
           s == WithConn(client, c, e)
<1>1. /\ client' = notifyCallerOfError(s) /\ conf' = conf /\ started' = started
      /\ client.fault = "none"
  BY DEF handleConnectFails, Handles, Conn, connectErrorHandler, Exists, Running
<1>2. /\ started = TRUE /\ Loose(client) /\ conf \in Confs /\ client \in ClientRec
      /\ d \in ConnRec /\ ConnInv(d, Len(client.m_mRequestMap))
      /\ OnePlace(d) /\ Len(client.m_mRequestMap) \in Nat
  BY ConnOK
<1> HIDE DEF d
<1>3. Follows(d, e, Len(client.m_mRequestMap))
  BY <1>2, ConnectFailsFollows
<1> HIDE DEF e
<1>4. Loose(s)
  BY <1>2, <1>3, PutLoose DEF Follows, d
<1>5. s.fault = "none"
  BY <1>1, <1>2, <1>3, PutFields DEF Follows
<1> HIDE DEF s
<1>6. Good(client')
  BY <1>1, <1>2, <1>4, <1>5, ErrorKeeps
<1> QED BY <1>1, <1>2, <1>6, StartedKeeps

LEMMA HandleReadFailsKeeps ==
  ASSUME Inv, NEW c \in 1 .. Len(client.conns), handleReadFails(c)
  PROVE  Inv'
<1> DEFINE d == client.conns[c]
           e == [d EXCEPT !.m_eState = "ERROR", !.reading = FALSE]
           s == WithConn(client, c, e)
<1>1. /\ client' = handleClose(ReadError(s), c) /\ conf' = conf /\ started' = started
      /\ client.fault = "none"
  BY DEF handleReadFails, Handles, Conn, Exists, Running
<1>2. /\ started = TRUE /\ Loose(client) /\ conf \in Confs /\ client \in ClientRec
      /\ d \in ConnRec /\ ConnInv(d, Len(client.m_mRequestMap))
      /\ OnePlace(d) /\ Len(client.m_mRequestMap) \in Nat /\ c \in Nat
  BY ConnOK
<1> HIDE DEF d
<1>3. Follows(d, e, Len(client.m_mRequestMap))
  BY <1>2, ReadFailsFollows
<1> HIDE DEF e
<1>4. Loose(s)
  BY <1>2, <1>3, PutLoose DEF Follows, d
<1>5. s.fault = "none"
  BY <1>1, <1>2, <1>3, PutFields DEF Follows
<1> HIDE DEF s
<1>6. Good(ReadError(s))
  BY <1>2, <1>4, <1>5, ReadErrorKeeps
<1>7. Good(client')
  BY <1>1, <1>2, <1>6, HandleCloseKeeps
<1> QED BY <1>1, <1>2, <1>7, StartedKeeps

LEMMA HandleWriteFailsKeeps ==
  ASSUME Inv, NEW c \in 1 .. Len(client.conns), handleWriteFails(c)
  PROVE  Inv'
<1> DEFINE d == client.conns[c]
           e == [d EXCEPT !.m_eState = "ERROR", !.writing = FALSE,
                          !.m_qRtspRequests = Tail(d.m_qRtspRequests)]
           s == WithConn(client, c, e)
<1>1. /\ client' = handleClose(notifyCallerOfError(s), c) /\ conf' = conf /\ started' = started
      /\ client.fault = "none" /\ d.writing
  BY DEF handleWriteFails, Handles, Conn, Exists, Running
<1>2. /\ started = TRUE /\ Loose(client) /\ conf \in Confs /\ client \in ClientRec
      /\ d \in ConnRec /\ ConnInv(d, Len(client.m_mRequestMap))
      /\ OnePlace(d) /\ Len(client.m_mRequestMap) \in Nat /\ c \in Nat
  BY ConnOK
<1> HIDE DEF d
<1>3. Follows(d, e, Len(client.m_mRequestMap))
  BY <1>1, <1>2, WriteFailsFollows
<1> HIDE DEF e
<1>4. Loose(s)
  BY <1>2, <1>3, PutLoose DEF Follows, d
<1>5. s.fault = "none"
  BY <1>1, <1>2, <1>3, PutFields DEF Follows
<1> HIDE DEF s
<1>6. Good(notifyCallerOfError(s))
  BY <1>2, <1>4, <1>5, ErrorKeeps
<1>7. Good(client')
  BY <1>1, <1>2, <1>6, HandleCloseKeeps
<1> QED BY <1>1, <1>2, <1>7, StartedKeeps

LEMMA HandleReadKeeps ==
  ASSUME Inv, NEW c \in 1 .. Len(client.conns), handleRead(c)
  PROVE  Inv'
<1> DEFINE d == client.conns[c]
           e == [d EXCEPT !.responses = Tail(d.responses)]
           r == Head(d.responses)
           s == WithConn(client, c, e)
           map == client.m_mRequestMap
<1>1. /\ client' = readCompletionHandler(s, r) /\ conf' = conf /\ started' = started
      /\ client.fault = "none" /\ d.responses # <<>>
  BY DEF handleRead, Handles, Conn, Exists, Running
<1>2. /\ started = TRUE /\ Loose(client) /\ conf \in Confs /\ client \in ClientRec
      /\ d \in ConnRec /\ ConnInv(d, Len(map)) /\ OnePlace(d) /\ Len(map) \in Nat
  BY ConnOK
<1> HIDE DEF d, map
<1>3. /\ Follows(d, e, Len(map)) /\ r \in ResponseRec
      /\ r.sn \in 1 .. Len(map) /\ Live(d, r.sn) /\ ~Live(e, r.sn)
  BY <1>1, <1>2, ReadFollows
<1> HIDE DEF e, r
<1>4. /\ Loose(s) /\ Len(s.conns) = Len(client.conns) /\ s.conns[c] = e
      /\ \A b \in 1 .. Len(client.conns) : \A sn \in Nat :
           Live(s.conns[b], sn) => Live(client.conns[b], sn)
  BY <1>2, <1>3, PutLoose DEF Follows, d, map
<1>5. /\ s.fault = "none" /\ s.m_mRequestMap = map /\ s.media = client.media
      /\ s.m_uiSetupCount = client.m_uiSetupCount /\ s.selected = client.selected
  BY <1>1, <1>2, <1>3, PutFields DEF Follows, map
<1> HIDE DEF s
<1>6. NotPlayed(s) <=> NotPlayed(client)
  BY <1>5 DEF NotPlayed, map
<1>7. map[r.sn] # "TEARDOWN" => NoChain(s.conns, map)
  <2> SUFFICES ASSUME map[r.sn] # "TEARDOWN", NEW b \in 1 .. Len(client.conns),
                      NEW n \in 1 .. Len(map), Live(s.conns[b], n), map[n] # "TEARDOWN"
               PROVE  FALSE
    BY <1>4 DEF NoChain
  <2>1. Live(client.conns[b], n) /\ Live(client.conns[c], r.sn)
    BY <1>3, <1>4 DEF d
  <2>2. OneChain(client.conns, map)
    BY <1>2 DEF Loose, Net, map
  <2>3. n = r.sn
    BY <1>3, <2>1, <2>2 DEF OneChain, Chained
  <2>4. b = c
    BY <1>3, <2>1, <2>2, <2>3 DEF OneChain, Chained
  <2> QED BY <1>3, <1>4, <2>3, <2>4
<1>8. /\ map[r.sn] \in {"OPTIONS", "DESCRIBE"} => s.m_uiSetupCount = 0 /\ NotPlayed(s)
      /\ map[r.sn] = "SETUP" => SetupOpen(s)
  BY <1>2, <1>3, <1>5, <1>6 DEF Loose, Progress, SetupOpen, d, map
<1>9. Good(client')
  BY <1>1, <1>2, <1>3, <1>4, <1>5, <1>7, <1>8, ResponseKeeps
<1> QED BY <1>1, <1>2, <1>9, StartedKeeps

\* The RTCP BYE is written: the media was stopped before.
LEMMA MediaCompleteKeeps ==
  ASSUME NEW s, Good(s), Stopped(s)
  PROVE  Good(onMediaSessionComplete(s))
<1> DEFINE t == [s EXCEPT !.media = "complete"]
<1>1. s \in ClientRec /\ ClientInv(s)
  BY DEF Good
<1>2. /\ t \in ClientRec
      /\ t.conns = s.conns /\ t.m_mRequestMap = s.m_mRequestMap
      /\ t.m_qOutstandingRequests = s.m_qOutstandingRequests
      /\ t.clientDown = s.clientDown /\ t.m_pConnection = s.m_pConnection
      /\ t.m_eState = s.m_eState /\ t.selected = s.selected
      /\ t.m_uiSetupCount = s.m_uiSetupCount /\ t.media = "complete" /\ t.via = s.via
      /\ t.fault = s.fault
  BY <1>1 DEF ClientRec
<1>3. onMediaSessionComplete(s) = endClientSession(RtspClientShutdown(t))
  BY DEF onMediaSessionComplete
<1> HIDE DEF t
<1>4. ~NotPlayed(s) /\ ~NotPlayed(t)
  BY <1>2 DEF Stopped, NotPlayed
<1>5. Session(t)
  BY <1>1, <1>2, <1>4 DEF ClientInv, Session, Stopped
<1>6. Progress(t)
  BY <1>1, <1>2, <1>4 DEF ClientInv, Progress, SetupOpen
<1>7. Good(t)
  BY <1>1, <1>2, <1>5, <1>6, SessionChange DEF Good
<1> QED BY <1>3, <1>7, RtspClientShutdownKeeps, EndKeeps DEF Good

LEMMA HandleWriteKeeps ==
  ASSUME Inv, NEW c \in 1 .. Len(client.conns), handleWrite(c)
  PROVE  Inv'
<1> DEFINE d == client.conns[c]
           msg == Head(d.m_qRtspRequests)
           rest == Tail(d.m_qRtspRequests)
           at == IF msg.type = "MT_RTSP" /\ ~d.broken /\ d.open
                 THEN d.atServer \cup {msg.id} ELSE d.atServer
           e == [d EXCEPT !.m_qRtspRequests = rest, !.writing = (rest # <<>>),
                          !.written = FALSE, !.atServer = at]
           s == WithConn(client, c, e)
<1>1. /\ client' = (IF msg.type = "BYE" THEN onMediaSessionComplete(s) ELSE s)
      /\ conf' = conf /\ started' = started /\ d.writing
  BY DEF handleWrite, Handles, Conn
<1>2. /\ started = TRUE /\ Good(client) /\ conf \in Confs /\ client \in ClientRec
      /\ d \in ConnRec /\ ConnInv(d, Len(client.m_mRequestMap))
      /\ OnePlace(d) /\ Len(client.m_mRequestMap) \in Nat
  BY ConnOK
<1> HIDE DEF d, at, rest
<1>3. d.m_qRtspRequests # <<>>
  BY <1>1, <1>2 DEF ConnInv
<1>4. /\ rest \in Seq(MessageRec) /\ msg \in MessageRec
      /\ msg = d.m_qRtspRequests[1] /\ 1 \in 1 .. Len(d.m_qRtspRequests)
  BY <1>2, <1>3, DequeueMessages DEF rest
<1>5. at \in SUBSET Nat
  BY <1>2, <1>4, ConnFields, MessageFields DEF at
<1>6. /\ e \in ConnRec /\ e.m_eState = d.m_eState /\ e.m_qRtspRequests = rest
      /\ e.connecting = d.connecting /\ e.reading = d.reading
      /\ e.writing = (rest # <<>>) /\ e.open = d.open /\ e.broken = d.broken
      /\ e.atServer = at /\ e.responses = d.responses
  BY <1>2, <1>4, <1>5 DEF ConnRec
<1> HIDE DEF e
<1>7. /\ Follows(d, e, Len(client.m_mRequestMap))
      /\ \A sn \in Nat : Carries(d, sn) => Carries(e, sn)
  BY <1>1, <1>2, <1>6, HandleWriteFollows DEF rest, at
<1>8. Good(s)
  BY <1>2, <1>7, PutKeeps DEF d, Follows
<1>9. msg.type = "BYE" => Stopped(s)
  <2>1. msg.type = "BYE" => HasBye(d)
    BY <1>4 DEF HasBye
  <2>2. HasBye(d) => Stopped(client)
    BY <1>2 DEF Good, ClientInv, Session, d
  <2>3. s.media = client.media
    BY <1>2, <1>6, PutFields
  <2> QED BY <2>1, <2>2, <2>3 DEF Stopped
<1> HIDE DEF s, msg
<1>10. Good(client')
  BY <1>1, <1>8, <1>9, MediaCompleteKeeps
<1> QED BY <1>1, <1>2, <1>10, StartedKeeps

LEMMA DoCloseKeeps ==
  ASSUME Inv, NEW c \in 1 .. Len(client.conns), doClose(c)
  PROVE  Inv'
<1> DEFINE d == client.conns[c]
<1>1. PICK kept \in {<<>>, d.responses}, done \in {FALSE, d.writing} :
        /\ client' = WithConn(client, c,
             [d EXCEPT !.m_eState = "CLOSED", !.open = FALSE, !.closing = FALSE,
                       !.responses = kept, !.written = done, !.atServer = {}])
        /\ conf' = conf /\ started' = started
  BY DEF doClose, OnConnection, Conn
<1> DEFINE e == [d EXCEPT !.m_eState = "CLOSED", !.open = FALSE, !.closing = FALSE,
                          !.responses = kept, !.written = done, !.atServer = {}]
<1>2. /\ d \in ConnRec /\ ConnInv(d, Len(client.m_mRequestMap))
      /\ OnePlace(d) /\ Len(client.m_mRequestMap) \in Nat
  BY ConnOK
<1> HIDE DEF d
<1>3. kept \in Seq(ResponseRec) /\ done \in BOOLEAN
  <2>1. <<>> \in Seq(ResponseRec)
    OBVIOUS
  <2>2. d.responses \in Seq(ResponseRec) /\ d.writing \in BOOLEAN
    BY <1>2, ConnFields
  <2> QED BY <1>1, <2>1, <2>2
<1>4. /\ e \in ConnRec /\ e.m_eState = "CLOSED" /\ e.m_qRtspRequests = d.m_qRtspRequests
      /\ e.connecting = d.connecting /\ e.reading = d.reading /\ e.writing = d.writing
      /\ e.open = FALSE /\ e.atServer = {} /\ e.responses = kept
  BY <1>2, <1>3 DEF ConnRec
<1> HIDE DEF e
<1>5. /\ Follows(d, e, Len(client.m_mRequestMap))
      /\ \A sn \in Nat : Carries(d, sn) => Carries(e, sn)
  BY <1>1, <1>2, <1>4, LossFollows
<1> QED BY <1>1, <1>5, ConnStep DEF d, e

LEMMA BreakKeeps ==
  ASSUME Inv, NEW c \in 1 .. Len(client.conns), Break(c)
  PROVE  Inv'
<1> DEFINE d == client.conns[c]
<1>1. PICK kept \in {d.responses, <<>>} :
        /\ client' = WithConn(client, c,
             [d EXCEPT !.broken = TRUE, !.atServer = {}, !.responses = kept])
        /\ conf' = conf /\ started' = started
  BY DEF Break, Conn
<1> DEFINE e == [d EXCEPT !.broken = TRUE, !.atServer = {}, !.responses = kept]
<1>2. /\ d \in ConnRec /\ ConnInv(d, Len(client.m_mRequestMap))
      /\ OnePlace(d) /\ Len(client.m_mRequestMap) \in Nat
  BY ConnOK
<1> HIDE DEF d
<1>3. kept \in Seq(ResponseRec)
  <2>1. <<>> \in Seq(ResponseRec)
    OBVIOUS
  <2>2. d.responses \in Seq(ResponseRec) /\ d.writing \in BOOLEAN
    BY <1>2, ConnFields
  <2> QED BY <1>1, <2>1, <2>2
<1>4. /\ e \in ConnRec /\ e.m_eState = d.m_eState /\ e.m_qRtspRequests = d.m_qRtspRequests
      /\ e.connecting = d.connecting /\ e.reading = d.reading /\ e.writing = d.writing
      /\ e.broken = TRUE /\ e.atServer = {} /\ e.responses = kept
  BY <1>2, <1>3 DEF ConnRec
<1> HIDE DEF e
<1>5. /\ Follows(d, e, Len(client.m_mRequestMap))
      /\ \A sn \in Nat : Carries(d, sn) => Carries(e, sn)
  BY <1>1, <1>2, <1>4, LossFollows
<1> QED BY <1>1, <1>5, ConnStep DEF d, e

LEMMA AnswersKeeps ==
  ASSUME Inv, NEW c \in 1 .. Len(client.conns), NEW k \in client.conns[c].atServer,
         Answers(c, k)
  PROVE  Inv'
<1> DEFINE d == client.conns[c]
<1>1. PICK answer \in AnswerKinds :
        /\ client' = WithConn(client, c,
             [d EXCEPT !.atServer = d.atServer \ {k},
                       !.responses = Append(d.responses, [sn |-> k, answer |-> answer])])
        /\ conf' = conf /\ started' = started
  BY DEF Answers, OnConnection, Conn, AnswersTo, AnswerKinds
<1> DEFINE e == [d EXCEPT !.atServer = d.atServer \ {k},
                          !.responses = Append(d.responses, [sn |-> k, answer |-> answer])]
<1>2. /\ d \in ConnRec /\ ConnInv(d, Len(client.m_mRequestMap))
      /\ OnePlace(d) /\ Len(client.m_mRequestMap) \in Nat /\ k \in d.atServer
  BY ConnOK
<1> HIDE DEF d
<1>3. /\ Follows(d, e, Len(client.m_mRequestMap))
      /\ \A sn \in Nat : Carries(d, sn) => Carries(e, sn)
  BY <1>2, AnswerFollows
<1> HIDE DEF e
<1> QED BY <1>1, <1>3, ConnStep DEF d, e

\* Media on the connection that the media session took.
LEMMA WithMediaKeeps ==
  ASSUME NEW s, Good(s), NEW c \in 1 .. Len(s.conns),
         NEW msg \in MessageRec, msg.type # "MT_RTSP", msg.id = 0,
         msg.type = "BYE" => Stopped(s)
  PROVE  Good([s EXCEPT !.conns = WithMedia(s.conns, c, msg)])
<1> DEFINE d == s.conns[c]
           e == writeInterleavedData(d, msg)
           n == Len(s.m_mRequestMap)
<1>1. [s EXCEPT !.conns = WithMedia(s.conns, c, msg)] = WithConn(s, c, e)
  BY DEF WithMedia, WithConn
<1>2. d \in ConnRec /\ ConnInv(d, n) /\ OnePlace(d) /\ n \in Nat
  BY ClientFields DEF Good, ClientInv, Net
<1> HIDE DEF d, n
<1>3. /\ e \in ConnRec /\ ConnInv(e, n) /\ OnePlace(e)
      /\ \A sn \in Nat : Live(e, sn) => Live(d, sn)
      /\ \A sn \in Nat : Carries(d, sn) => Carries(e, sn)
      /\ msg.type # "BYE" /\ HasBye(e) => HasBye(d)
  BY <1>2, MediaFollows
<1> HIDE DEF e
<1>4. HasBye(e) => HasBye(d) \/ Stopped(s)
  BY <1>3
<1>5. Good(WithConn(s, c, e))
  BY <1>3, <1>4, PutKeeps DEF d, n
<1> QED BY <1>1, <1>5

LEMMA MediaMessage ==
  ASSUME NEW type \in {"MT_RTP_RTCP", "BYE"}
  PROVE  /\ Message(type, 0) \in MessageRec
         /\ Message(type, 0).type = type /\ Message(type, 0).id = 0
BY DEF Message, MessageRec

LEMMA DoSendRtcpKeeps ==
  ASSUME Inv, doSendRtcp
  PROVE  Inv'
<1> DEFINE msg == Message("MT_RTP_RTCP", 0)
<1>1. /\ client' = [client EXCEPT !.conns = WithMedia(client.conns, client.via, msg)]
      /\ conf' = conf /\ started' = started /\ client.media = "running"
  BY DEF doSendRtcp
<1>2. msg \in MessageRec /\ msg.type = "MT_RTP_RTCP" /\ msg.id = 0
  BY MediaMessage
<1> HIDE DEF msg
<1>3. Good(client) /\ client.via \in 1 .. Len(client.conns)
  BY <1>1 DEF Inv, Good, ClientInv, Session
<1>4. started = TRUE
  BY <1>1 DEF Inv
<1>5. Good(client')
  BY <1>1, <1>2, <1>3, WithMediaKeeps
<1> QED BY <1>1, <1>4, <1>5, StartedKeeps

LEMMA DoSendByeKeeps ==
  ASSUME Inv, doSendBye
  PROVE  Inv'
<1> DEFINE msg == Message("BYE", 0)
           t == [client EXCEPT !.media = "leaving"]
<1>1. /\ client' = [client EXCEPT !.media = "leaving",
                       !.conns = IF client.m_bInterleaved
                                 THEN WithMedia(client.conns, client.via, msg)
                                 ELSE client.conns]
      /\ conf' = conf /\ started' = started /\ client.media = "stopping"
  BY DEF doSendBye, Handles
<1>2. client \in ClientRec /\ ClientInv(client) /\ started = TRUE
  BY <1>1 DEF Inv
<1>3. /\ t \in ClientRec
      /\ t.conns = client.conns /\ t.m_mRequestMap = client.m_mRequestMap
      /\ t.m_qOutstandingRequests = client.m_qOutstandingRequests
      /\ t.clientDown = client.clientDown /\ t.m_pConnection = client.m_pConnection
      /\ t.m_eState = client.m_eState /\ t.selected = client.selected
      /\ t.m_uiSetupCount = client.m_uiSetupCount /\ t.media = "leaving" /\ t.via = client.via
      /\ t.fault = client.fault
  BY <1>2 DEF ClientRec
<1>4. client' = (IF client.m_bInterleaved
                 THEN [t EXCEPT !.conns = WithMedia(t.conns, t.via, msg)] ELSE t)
  <2>1. CASE client.m_bInterleaved
    <3>1. client' = [[client EXCEPT !.media = "leaving"] EXCEPT
                       !.conns = WithMedia(client.conns, client.via, msg)]
      BY <1>1, <1>2, <2>1 DEF ClientRec
    <3> QED BY <1>3, <2>1, <3>1
  <2>2. CASE ~client.m_bInterleaved
    BY <1>1, <1>2, <2>2 DEF ClientRec
  <2> QED BY <2>1, <2>2
<1>5. msg \in MessageRec /\ msg.type = "BYE" /\ msg.id = 0
  BY MediaMessage
<1> HIDE DEF t, msg
<1>6. ~NotPlayed(client) /\ ~NotPlayed(t) /\ Stopped(t) /\ Stopped(client)
  BY <1>1, <1>3 DEF NotPlayed, Stopped
<1>7. Session(t)
  BY <1>1, <1>2, <1>3, <1>6 DEF ClientInv, Session, Stopped
<1>8. Progress(t)
  BY <1>2, <1>3, <1>6 DEF ClientInv, Progress, SetupOpen
<1>9. Good(t)
  BY <1>2, <1>3, <1>7, <1>8, SessionChange DEF Good
<1>10. t.via \in 1 .. Len(t.conns)
  BY <1>3, <1>7 DEF Session
<1>11. Good([t EXCEPT !.conns = WithMedia(t.conns, t.via, msg)])
  BY <1>5, <1>6, <1>9, <1>10, WithMediaKeeps
<1>12. Good(client')
  BY <1>4, <1>9, <1>11
<1> QED BY <1>1, <1>2, <1>12, StartedKeeps

LEMMA OnTimeoutKeeps ==
  ASSUME Inv, onTimeout
  PROVE  Inv'
<1> DEFINE t == [client EXCEPT !.m_timer = FALSE]
<1>1. /\ client' \in {t, endClientSession(t)}
      /\ conf' = conf /\ started' = started
  BY DEF onTimeout
<1>2. client \in ClientRec /\ ClientInv(client)
  BY DEF Inv
<1>3. /\ t \in ClientRec
      /\ t.conns = client.conns /\ t.m_mRequestMap = client.m_mRequestMap
      /\ t.m_qOutstandingRequests = client.m_qOutstandingRequests
      /\ t.clientDown = client.clientDown /\ t.m_pConnection = client.m_pConnection
      /\ t.m_eState = client.m_eState /\ t.selected = client.selected
      /\ t.m_uiSetupCount = client.m_uiSetupCount /\ t.media = client.media
      /\ t.via = client.via /\ t.fault = client.fault
  BY <1>2 DEF ClientRec
<1> HIDE DEF t
<1>4. Good(t)
  BY <1>2, <1>3, NoSessionChange DEF Good
<1>5. Good(client')
  BY <1>1, <1>4, EndKeeps
<1>6. CASE started
  BY <1>1, <1>5, <1>6, StartedKeeps DEF Inv
<1>7. CASE ~started
  <2>1. /\ client'.conns = client.conns /\ client'.m_mRequestMap = client.m_mRequestMap
        /\ client'.m_qOutstandingRequests = client.m_qOutstandingRequests
        /\ client'.media = client.media /\ client'.m_eState = client.m_eState
        /\ client'.m_uiSetupCount = client.m_uiSetupCount
    BY <1>1, <1>3 DEF endClientSession, ClientRec
  <2>2. ClientInv(client)'
    BY <1>1, <1>5 DEF Good, ClientInv, Session, Progress, SetupOpen, Carried, Net, NotPlayed, Stopped
  <2>3. (client \in ClientRec)'
    BY <1>1, <1>5 DEF Good, ClientRec, ConnRec, ResponseRec, AnswerKinds
  <2> QED BY <1>1, <1>7, <2>1, <2>2, <2>3 DEF Inv
<1> QED BY <1>6, <1>7

LEMMA StartKeeps ==
  ASSUME Inv, start
  PROVE  Inv'
<1>1. client' = request(client, "OPTIONS") /\ conf' = conf /\ started' = TRUE /\ ~started
  BY DEF start
<1>2. /\ Good(client) /\ client \in ClientRec /\ ClientInv(client)
      /\ client.m_qOutstandingRequests = <<>> /\ ~Stopped(client)
      /\ client.conns = <<>> /\ client.m_mRequestMap = <<>> /\ client.m_uiSetupCount = 0
      /\ client.media = "none"
  BY <1>1 DEF Inv, Good, Stopped
<1>3. MaySend(client, "OPTIONS") /\ "OPTIONS" \in Methods
  <2>1. Len(client.conns) = 0 /\ Len(client.m_mRequestMap) = 0
    BY <1>2
  <2>2. NotPlayed(client) /\ NoChain(client.conns, client.m_mRequestMap)
    BY <1>2, <2>1 DEF NotPlayed, NoChain
  <2> QED BY <1>2, <2>2 DEF MaySend, Methods
<1>4. Good(client')
  BY <1>1, <1>2, <1>3, RequestKeeps DEF Good
<1> QED BY <1>1, <1>4, StartedKeeps

LEMMA ApplicationShutdownKeeps ==
  ASSUME Inv, applicationShutdown
  PROVE  Inv'
<1>1. client' = shutdown(client) /\ conf' = conf /\ started' = started /\ started
  BY DEF applicationShutdown
<1>2. Good(client) /\ started = TRUE
  BY <1>1 DEF Inv, Good
<1>3. Good(client')
  BY <1>1, <1>2, ShutdownKeeps
<1> QED BY <1>1, <1>2, <1>3, StartedKeeps

LEMMA InitInv ==
  ASSUME Init
  PROVE  Inv
<1>1. conf \in Confs /\ started = FALSE
  BY RtspAssumption DEF Init, Confs
<1>2. <<>> \in Seq(ConnRec) /\ <<>> \in Seq(Methods)
  OBVIOUS
<1>3. client \in ClientRec
  BY <1>2 DEF Init, ClientRec
<1>4. /\ client.conns = <<>> /\ client.m_mRequestMap = <<>> /\ client.m_qOutstandingRequests = <<>>
      /\ client.clientDown = FALSE /\ client.m_pConnection = 0
      /\ client.m_eState = "INIT" /\ client.selected = 0
      /\ client.m_uiSetupCount = 0 /\ client.media = "none" /\ client.fault = "none"
  BY DEF Init
<1>5. Len(client.conns) = 0 /\ Len(client.m_mRequestMap) = 0 /\ Len(client.m_qOutstandingRequests) = 0
  BY <1>4
<1>6. NotPlayed(client)
  BY <1>4, <1>5 DEF NotPlayed
<1>7. Session(client)
  BY <1>4, <1>5, <1>6 DEF Session, Stopped
<1>8. Progress(client) /\ Carried(client)
  BY <1>4, <1>5 DEF Progress, Carried
<1>9. Net(client.conns, client.m_mRequestMap)
  BY <1>5 DEF Net, OneChain, Chained
<1> QED BY <1>1, <1>3, <1>4, <1>7, <1>8, <1>9 DEF Inv, ClientInv

LEMMA NextInv ==
  ASSUME Inv, [Next]_vars
  PROVE  Inv'
<1>1. CASE start
  BY <1>1, StartKeeps
<1>2. CASE applicationShutdown
  BY <1>2, ApplicationShutdownKeeps
<1>3. CASE onTimeout
  BY <1>3, OnTimeoutKeeps
<1>4. CASE doSendRtcp
  BY <1>4, DoSendRtcpKeeps
<1>5. CASE doSendBye
  BY <1>5, DoSendByeKeeps
<1>6. ASSUME NEW c \in 1 .. Len(client.conns), Handlers(c) PROVE Inv'
  BY <1>6, HandleConnectKeeps, HandleConnectFailsKeeps, HandleReadKeeps,
     HandleReadFailsKeeps, HandleWriteKeeps, HandleWriteFailsKeeps, DoCloseKeeps DEF Handlers
<1>7. ASSUME NEW c \in 1 .. Len(client.conns), Break(c) PROVE Inv'
  BY <1>7, BreakKeeps
<1>8. CASE ServerAnswers
  BY <1>8, AnswersKeeps DEF ServerAnswers, Conn
<1>9. CASE UNCHANGED vars
  <2>1. client' = client /\ conf' = conf /\ started' = started
    BY <1>9 DEF vars
  <2>2. (client \in ClientRec)' /\ (conf \in Confs)'
    BY <2>1 DEF Inv, ClientRec, ConnRec, ResponseRec, AnswerKinds, Confs
  <2>3. ClientInv(client)'
    BY <2>1 DEF Inv, ClientInv, Session, Progress, SetupOpen, Carried, Net, NotPlayed, Stopped
  <2> QED BY <2>1, <2>2, <2>3 DEF Inv
<1> QED BY <1>1, <1>2, <1>3, <1>4, <1>5, <1>6, <1>7, <1>8, <1>9 DEF Next

-----------------------------------------------------------------------------
(* Theorems.                                                               *)

LEMMA InvTypeOK ==
  ASSUME Inv
  PROVE  TypeOK
<1>1. client \in ClientRec /\ Session(client) /\ Net(client.conns, client.m_mRequestMap)
      /\ conf \in Confs
  BY DEF Inv, ClientInv
<1>2. /\ client.m_mRequestMap \in Seq(Methods) /\ client.m_qOutstandingRequests \in Seq(Methods)
      /\ client.m_pConnection \in Nat /\ client.m_uiSetupCount \in Nat /\ client.selected \in Nat
      /\ client.m_eState \in {"INIT", "SETUP", "PLAYING", "TEARING_DOWN"}
      /\ client.media \in {"none", "running", "stopping", "leaving", "complete"}
      /\ client.fault \in {"none", "assert", "connection", "range", "header"}
      /\ client.conns \in Seq(ConnRec)
  BY <1>1, ClientFields
<1>3. Len(client.conns) \in Nat /\ Len(client.m_mRequestMap) \in Nat
  BY <1>2
<1>4. /\ Len(client.m_qOutstandingRequests) <= 1
      /\ client.m_pConnection \in 0 .. Len(client.conns)
      /\ client.m_uiSetupCount \in 0 .. client.selected /\ client.selected \in 0 .. conf.media
  <2>1. conf.media \in Nat
    BY <1>1 DEF Confs
  <2> QED BY <1>1, <1>2, <1>3, <2>1 DEF Session
<1>5. ASSUME NEW c \in 1 .. Len(client.conns)
      PROVE  /\ Conn(c).m_eState \in {"CONNECTING", "CONNECTED", "CLOSED", "ERROR"}
             /\ \A i \in 1 .. Len(Conn(c).m_qRtspRequests) : Conn(c).m_qRtspRequests[i] \in Messages
             /\ Conn(c).atServer \subseteq 1 .. Len(client.m_mRequestMap)
  <2> DEFINE d == Conn(c)
             n == Len(client.m_mRequestMap)
  <2>1. d \in ConnRec /\ ConnInv(d, n)
    BY <1>1, <1>2, <1>5 DEF Conn, Net
  <2> HIDE DEF d, n
  <2>2. ASSUME NEW i \in 1 .. Len(d.m_qRtspRequests)
        PROVE  d.m_qRtspRequests[i] \in [type : {"MT_RTSP", "MT_RTP_RTCP", "BYE"}, id : 0 .. n]
    <3> DEFINE m == d.m_qRtspRequests[i]
    <3>1. m \in MessageRec /\ m.id <= n
      BY <2>1, <2>2, ConnFields DEF ConnInv
    <3> HIDE DEF m
    <3>2. n \in Nat /\ m.id \in 0 .. n
      BY <1>3, <3>1, MessageFields DEF n
    <3>3. m \in [type : {"MT_RTSP", "MT_RTP_RTCP", "BYE"}, id : 0 .. n]
      BY <3>1, <3>2 DEF MessageRec
    <3> QED BY <3>3 DEF m
  <2>3. d.m_eState \in {"CONNECTING", "CONNECTED", "CLOSED", "ERROR"} /\ d.atServer \subseteq 1 .. n
    BY <2>1, ConnFields DEF ConnInv
  <2> QED BY <2>2, <2>3 DEF Messages, d, n
<1> QED BY <1>2, <1>4, <1>5 DEF TypeOK

LEMMA InvCarrier ==
  ASSUME Inv
  PROVE  RequestHasCarrier
BY DEF Inv, ClientInv, Carried, Carries, Queued, Answered, RequestHasCarrier, Conn

LEMMA InvMedia ==
  ASSUME Inv
  PROVE  MediaFollowsSession
<1>1. SetupsCounted /\ PlayAfterAllSetUp
  BY DEF Inv, ClientInv, Session, NotPlayed, SetupsCounted, PlayAfterAllSetUp
<1>2. MediaMatchesState
  BY DEF Inv, ClientInv, Session, MediaMatchesState
<1> QED BY <1>1, <1>2 DEF MediaFollowsSession

\* The inductive invariant holds of every state that the client and its connections reach.
THEOREM InvHolds == Spec => []Inv
BY InitInv, NextInv, PTL DEF Spec

\* At most one request is outstanding, whatever responses, errors and calls of
\* shutdown() come in whichever order, and though answers to SETUP lack headers; no
\* request is answered that was not sent; and no more SETUPs are counted than media
\* were selected.
THEOREM TypeCorrect == Spec => []TypeOK
BY InvHolds, InvTypeOK, PTL

\* RtspClient's one request never stays behind on a connection that drops it: as
\* long as the client is not shut down, some connection will resolve it.
THEOREM RequestsAreCarried == Spec => []RequestHasCarrier
BY InvHolds, InvCarrier, PTL

\* The media runs while the session plays, and a session that is back in its initial
\* state has stopped it.  With a server whose answers to SETUP have their headers,
\* handleSetupResponse does not index past m_vSelectedTransports, and PLAY follows the
\* last SETUP.
THEOREM MediaIsTheSessions == Spec => []MediaFollowsSession
BY InvHolds, InvMedia, PTL
=============================================================================
