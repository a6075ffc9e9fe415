----------------------------- MODULE RtspClient -----------------------------
(***************************************************************************)
(* An RTSP client session from OPTIONS to TEARDOWN: RtspClientSession,     *)
(* which answers each response with the next request; RtspClient, which    *)
(* keeps the one request that may be outstanding and finds its handler     *)
(* again when a response or an error comes; and RtspClientConnection, the  *)
(* TCP connection with its queue of messages, its one write and its one    *)
(* read.  A connection that failed is replaced at the next request, so     *)
(* several connections live at a time, each with handlers still to run.    *)
(* With interleaved transport the media session writes its RTCP into the   *)
(* connection that the last SETUP used.                                    *)
(*                                                                         *)
(* One thread runs the handlers.  A handler calls others: the operators    *)
(* take the client's state and give the state after the call, and are      *)
(* nested as the calls are.  The content of the messages is left out.      *)
(***************************************************************************)
EXTENDS Naturals, Sequences

CONSTANTS
  MaxMedia,     \* bound: media descriptions that are set up
  Transports,   \* transports that the media may use
  MaxConns,     \* bound: connections whose handlers are scheduled fairly
  MaxBreaks,    \* bound: connections that the server or the network ends
  MaxReports,   \* bound: RTCP reports written into a connection
  MaxStops      \* bound: calls of shutdown() by the application

ASSUME RtspAssumption ==
  /\ MaxMedia \in Nat /\ MaxConns \in Nat /\ MaxBreaks \in Nat
  /\ MaxReports \in Nat /\ MaxStops \in Nat
  /\ Transports \subseteq {"udp", "tcp", "external", "unusable"}

VARIABLES
  conf,       \* what the user asks for and what the server offers
  client,     \* RtspClientSession, its RtspClient and the connections
  started,    \* whether start() was called
  breaks, reports, stops

vars == <<conf, client, started, breaks, reports, stops>>

Methods == {"OPTIONS", "DESCRIBE", "SETUP", "PLAY", "TEARDOWN"}
Conns == 1 .. MaxConns

\* A message of a connection's queue: a request, an RTCP report or the RTCP BYE.
Message(type, id) == [type |-> type, id |-> id]
Request(sn) == Message("MT_RTSP", sn)

NewConnection ==
  [m_eState   |-> "READY",
   m_qRtspRequests |-> <<>>,
   connecting |-> FALSE,    \* async_connect, async_read and async_write under way
   reading    |-> FALSE,
   writing    |-> FALSE,
   written    |-> FALSE,    \* the write ended before the socket was closed
   open       |-> FALSE,    \* m_socket.is_open()
   closing    |-> FALSE,    \* doClose is posted
   broken     |-> FALSE,    \* the server or the network ended the connection
   atServer   |-> {},       \* requests that the server has to answer
   responses  |-> <<>>]     \* responses that wait to be read

Init ==
  /\ conf \in [media : 0 .. MaxMedia, transport : Transports,
               only : {"all", "options", "describe"}, duration : BOOLEAN,
               headers : BOOLEAN]   \* SETUP is answered with the headers it needs
  /\ client = [conns |-> <<>>,
               m_pConnection |-> 0,
               m_mRequestMap |-> <<>>,              \* the method of each m_uiSN
               m_qOutstandingRequests |-> <<>>,
               clientDown |-> FALSE,                \* RtspClient::m_bShuttingDown
               m_eState |-> "INIT",
               m_bShuttingDown |-> FALSE,
               selected |-> 0,                      \* m_vSelectedTransports.size()
               m_uiSetupCount |-> 0,
               m_bInterleaved |-> FALSE,
               media |-> "none",                    \* m_pMediaSession
               via |-> 0,                           \* the connection it writes to
               m_timer |-> FALSE,
               ended |-> FALSE,                     \* m_onSessionEndHandler was called
               fault |-> "none"]                    \* what ended the program
  /\ started = FALSE
  /\ breaks = 0 /\ reports = 0 /\ stops = 0

-----------------------------------------------------------------------------
(* RtspClientConnection                                                    *)

eof(c) == c.m_eState \in {"CLOSED", "ERROR"}

Enqueue(c, msg) == [c EXCEPT !.m_qRtspRequests = Append(@, msg)]

write(c, msg) ==
  CASE c.m_eState = "CONNECTED" ->
         [Enqueue(c, msg) EXCEPT !.writing = @ \/ c.m_qRtspRequests = <<>>]
    [] c.m_eState = "READY" ->
         [Enqueue(c, msg) EXCEPT !.m_eState = "CONNECTING", !.connecting = TRUE, !.open = TRUE]
    [] c.m_eState = "CONNECTING" -> Enqueue(c, msg)
    [] OTHER -> c

\* Media needs a connection that is set up; else the packet is dropped.
writeInterleavedData(c, msg) == IF c.m_eState = "CONNECTED" THEN write(c, msg) ELSE c

\* The connection c of conns, when media is written to it.
WithMedia(conns, c, msg) == [conns EXCEPT ![c] = writeInterleavedData(conns[c], msg)]

\* close() posts doClose, which has no effect on a closed socket.
close(c) == [c EXCEPT !.closing = c.open]

Closing(conns, c) == [conns EXCEPT ![c] = close(conns[c])]

\* handleClose, with RtspClient::closeCompletionHandler.
handleClose(s, c) == [s EXCEPT !.m_pConnection = 0, !.conns = Closing(s.conns, c)]

-----------------------------------------------------------------------------
(* RtspClient: requests                                                    *)

MayRequestAlways(s) == TRUE
MayRequest(s) == s.m_qOutstandingRequests = <<>>

NeedsFirstConnection(s) == s.m_pConnection = 0
NeedsConnection(s) == IF s.m_pConnection = 0 THEN TRUE ELSE eof(s.conns[s.m_pConnection])

sendRequest(s, method) ==
  LET sn == Len(s.m_mRequestMap) + 1
      conns == IF NeedsConnection(s) THEN Append(s.conns, NewConnection) ELSE s.conns
      c == IF NeedsConnection(s) THEN Len(conns) ELSE s.m_pConnection
  IN [s EXCEPT !.m_mRequestMap = Append(@, method),
               !.m_qOutstandingRequests = Append(@, method),
               !.m_pConnection = c,
               !.conns = [conns EXCEPT ![c] = write(@, Request(sn))]]

\* options, describe, setup, play and teardown: refused while one is outstanding.
request(s, method) == IF MayRequest(s) THEN sendRequest(s, method) ELSE s

RtspClientShutdown(s) ==
  [s EXCEPT !.clientDown = TRUE,
            !.m_pConnection = 0,
            !.conns = IF s.m_pConnection = 0 THEN s.conns ELSE Closing(s.conns, s.m_pConnection)]

-----------------------------------------------------------------------------
(* RtspClientSession: the chain of requests                                *)

endClientSession(s) == [s EXCEPT !.ended = TRUE]

tearDown(s) ==
  request([s EXCEPT !.m_eState = "TEARING_DOWN",
                    !.m_timer = @ /\ s.m_eState # "PLAYING"], "TEARDOWN")

shutdown(s) ==
  LET t == [s EXCEPT !.m_bShuttingDown = TRUE]
  IN CASE t.m_eState = "INIT" -> RtspClientShutdown(t)
       [] t.m_eState \in {"PLAYING", "SETUP"} -> tearDown(t)
       [] t.m_eState = "TEARING_DOWN" -> t

handleOptionsResponse(s, ok) ==
  CASE ok /\ conf.only # "options" -> request(s, "DESCRIBE")
    [] ok /\ conf.only = "options" -> endClientSession(RtspClientShutdown(s))
    [] ~ok -> endClientSession(s)

AllButOneSetUp(s) == s.m_uiSetupCount + 1 < s.selected
MoreToSetUp(s) == s.m_uiSetupCount < s.selected

\* setupSelectedSessions: whether it issued a request, and the state after it.
SetsUp(s) == MoreToSetUp(s) /\ MayRequest(s)
setupSelectedSessions(s) == IF MoreToSetUp(s) THEN request(s, "SETUP") ELSE s

handleDescribeResponse(s, ok) ==
  CASE ok /\ conf.only # "describe" ->
         setupSelectedSessions([s EXCEPT !.selected = conf.media])
    [] ok /\ conf.only = "describe" -> endClientSession(RtspClientShutdown(s))
    [] ~ok -> endClientSession(s)

\* Over TCP the media session takes m_pConnection; over UDP the address of the
\* server is asked of m_pConnection's socket.
ConnectionUsable(s) ==
  \/ conf.transport = "external"
  \/ /\ s.m_pConnection # 0
     /\ \/ conf.transport = "tcp"
        \/ LET c == s.conns[s.m_pConnection] IN c.open /\ c.m_eState = "CONNECTED"

\* onSessionSetup: the state after it; it fails when no media session can be made.
onSessionSetup(s) ==
  LET t == [s EXCEPT !.m_bInterleaved = (conf.transport = "tcp")]
  IN CASE ~ConnectionUsable(s) -> [t EXCEPT !.fault = "connection"]
       [] ConnectionUsable(s) /\ conf.transport \in {"udp", "tcp"} ->
            [t EXCEPT !.media = "running", !.via = s.m_pConnection]
       [] OTHER -> t

play(s) == IF MayRequest(s) THEN request(s, "PLAY") ELSE shutdown(s)

handleSetupResponse(s, ok) ==
  LET t == [s EXCEPT !.m_eState = "SETUP", !.m_uiSetupCount = @ + 1]
  IN CASE ~ok -> endClientSession(s)
       [] ok /\ s.m_uiSetupCount >= s.selected -> [s EXCEPT !.fault = "range"]
       [] ok /\ s.m_uiSetupCount < s.selected ->
            IF SetsUp(t) THEN setupSelectedSessions(t)
            ELSE IF conf.transport = "unusable" THEN shutdown(onSessionSetup(t))
            ELSE play(onSessionSetup(t))

handlePlayResponse(s, ok) ==
  IF ok THEN [s EXCEPT !.m_eState = "PLAYING", !.m_timer = conf.duration]
  ELSE shutdown(s)

onSessionTeardown(s) == [s EXCEPT !.media = IF @ = "running" THEN "stopping" ELSE @]

Torndown(s) ==
  IF s.m_bShuttingDown /\ ~s.m_bInterleaved THEN RtspClientShutdown(s) ELSE s

StoppedIfAnswered(s, ok) ==
  LET t == [s EXCEPT !.m_eState = "INIT"]
  IN Torndown(IF ok THEN onSessionTeardown(t) ELSE t)

\* The media stops whatever the server says.
handleTeardownResponse(s, ok) ==
  Torndown(onSessionTeardown([s EXCEPT !.m_eState = "INIT"]))

-----------------------------------------------------------------------------
(* RtspClient: responses and errors                                        *)

Pop(s) == [s EXCEPT !.m_qOutstandingRequests = Tail(@)]

Dispatch(s, method, ok) ==
  CASE method = "OPTIONS"  -> handleOptionsResponse(s, ok)
    [] method = "DESCRIBE" -> handleDescribeResponse(s, ok)
    [] method = "SETUP"    -> handleSetupResponse(s, ok)
    [] method = "PLAY"     -> handlePlayResponse(s, ok)
    [] method = "TEARDOWN" -> handleTeardownResponse(s, ok)

\* The error goes to the handler of the first outstanding request, whichever
\* connection it is about.
notifyCallerOfError(s) ==
  IF s.m_qOutstandingRequests = <<>> THEN s
  ELSE Dispatch(Pop(s), Head(s.m_qOutstandingRequests), FALSE)

\* What the rest of a handler does when the program has not ended in it.
OnceMore(s) == IF s.fault = "none" THEN handleSetupResponse(s, TRUE) ELSE s
HeaderRead(s) == IF s.fault = "none" THEN [s EXCEPT !.fault = "header"] ELSE s

\* Successful answers to SETUP that lack a header.  The size of a session id with a
\* timeout is asserted.  For each of the headers that is missing (or empty) the
\* handler is called with success, and then once more for the response itself, for
\* which a Transport header is read that may not be there.
Incomplete == {"shortSession", "noSession", "noTransport", "noHeaders"}

IncompleteSetup(s, answer) ==
  CASE answer = "shortSession" -> HeaderRead(s)
    [] answer = "noSession"    -> OnceMore(handleSetupResponse(s, TRUE))
    [] answer = "noTransport"  -> HeaderRead(handleSetupResponse(s, TRUE))
    [] answer = "noHeaders"    -> HeaderRead(OnceMore(handleSetupResponse(s, TRUE)))

handleResponse(s, r) ==
  LET method == s.m_mRequestMap[r.sn]
  IN IF s.m_qOutstandingRequests = <<>> THEN [s EXCEPT !.fault = "assert"]
     ELSE IF method = "SETUP" /\ r.answer \in Incomplete THEN IncompleteSetup(Pop(s), r.answer)
     ELSE Dispatch(Pop(s), method, r.answer # "error")

readCompletionHandler(s, r) ==
  IF r.answer = "garbled" THEN notifyCallerOfError(s) ELSE handleResponse(s, r)

ReadError(s) == IF s.clientDown THEN s ELSE notifyCallerOfError(s)

ConnectErrorLogged(s) == s
connectErrorHandler(s) == notifyCallerOfError(s)

\* The RTCP BYE of an interleaved session was written: onMediaSessionComplete.
onMediaSessionComplete(s) ==
  endClientSession(RtspClientShutdown([s EXCEPT !.media = "complete"]))

-----------------------------------------------------------------------------
(* The application, the server, and the handlers that the io_service runs. *)

Running == client.fault = "none"

start ==
  /\ Running /\ ~started
  /\ started' = TRUE
  /\ client' = request(client, "OPTIONS")
  /\ UNCHANGED <<conf, breaks, reports, stops>>

applicationShutdown ==
  /\ Running /\ started /\ stops < MaxStops
  /\ stops' = stops + 1
  /\ client' = shutdown(client)
  /\ UNCHANGED <<conf, started, breaks, reports>>

onTimeout ==
  /\ Running /\ client.m_timer
  /\ LET s == [client EXCEPT !.m_timer = FALSE]
     IN client' = IF s.m_eState = "PLAYING" THEN endClientSession(s) ELSE s
  /\ UNCHANGED <<conf, started, breaks, reports, stops>>

\* The client in whose state s the connection c has become d.
WithConn(s, c, d) == [s EXCEPT !.conns[c] = d]

\* A step of connection c that leaves the session alone.
OnConnection(c, d) ==
  /\ client' = WithConn(client, c, d)
  /\ UNCHANGED <<conf, started, breaks, reports, stops>>

\* A handler of connection c that leaves the client in state s.
Handles(s) == client' = s /\ UNCHANGED <<conf, started, breaks, reports, stops>>

Exists(c) == Running /\ c <= Len(client.conns)
Conn(c) == client.conns[c]

handleConnect(c) ==
  /\ Exists(c) /\ Conn(c).connecting /\ ~Conn(c).broken
  /\ OnConnection(c, [Conn(c) EXCEPT !.m_eState = "CONNECTED", !.connecting = FALSE,
                                     !.reading = TRUE,
                                     !.writing = Conn(c).m_qRtspRequests # <<>>])

handleConnectFails(c) ==
  /\ Exists(c) /\ Conn(c).connecting /\ (Conn(c).broken \/ ~Conn(c).open)
  /\ Handles(connectErrorHandler(
       WithConn(client, c, [Conn(c) EXCEPT !.m_eState = "ERROR", !.connecting = FALSE])))

\* handleRead and handleReadBody, and the next read.
handleRead(c) ==
  /\ Exists(c) /\ Conn(c).reading /\ Conn(c).responses # <<>>
  /\ Handles(readCompletionHandler(
       WithConn(client, c, [Conn(c) EXCEPT !.responses = Tail(@)]), Head(Conn(c).responses)))

\* m_eState is set first: the handler may send a request.
handleReadFails(c) ==
  /\ Exists(c) /\ Conn(c).reading /\ Conn(c).responses = <<>>
  /\ Conn(c).broken \/ ~Conn(c).open
  /\ LET s == WithConn(client, c, [Conn(c) EXCEPT !.m_eState = "ERROR", !.reading = FALSE])
     IN Handles(handleClose(ReadError(s), c))

\* handleWrite: the message leaves the queue and the next one is written.
handleWrite(c) ==
  /\ Exists(c) /\ Conn(c).writing /\ (Conn(c).open \/ Conn(c).written)
  /\ LET msg == Head(Conn(c).m_qRtspRequests)
         rest == Tail(Conn(c).m_qRtspRequests)
         arrives == msg.type = "MT_RTSP" /\ ~Conn(c).broken /\ Conn(c).open
         s == WithConn(client, c, [Conn(c) EXCEPT !.m_qRtspRequests = rest,
                !.writing = rest # <<>>, !.written = FALSE,
                !.atServer = IF arrives THEN @ \cup {msg.id} ELSE @])
     IN Handles(IF msg.type = "BYE" THEN onMediaSessionComplete(s) ELSE s)

\* writeCompletionHandler reports the error even when the client is shut down.
handleWriteFails(c) ==
  /\ Exists(c) /\ Conn(c).writing /\ ~Conn(c).written
  /\ Conn(c).broken \/ ~Conn(c).open
  /\ LET s == WithConn(client, c, [Conn(c) EXCEPT !.m_eState = "ERROR", !.writing = FALSE,
                                                 !.m_qRtspRequests = Tail(@)])
     IN Handles(handleClose(notifyCallerOfError(s), c))

\* What ended before the close is still handled; the rest is aborted.
doClose(c) ==
  /\ Exists(c) /\ Conn(c).closing
  /\ \E kept \in {<<>>, Conn(c).responses}, done \in {FALSE, Conn(c).writing} :
       OnConnection(c, [Conn(c) EXCEPT !.m_eState = "CLOSED", !.open = FALSE,
                                       !.closing = FALSE, !.responses = kept,
                                       !.written = done, !.atServer = {}])

AnswersTo(method) ==
  {"ok", "error", "garbled"}
  \cup (IF method = "SETUP" /\ ~conf.headers THEN Incomplete ELSE {})

Answers(c, sn) ==
  /\ Exists(c) /\ Conn(c).open /\ ~Conn(c).broken /\ sn \in Conn(c).atServer
  /\ \E answer \in AnswersTo(client.m_mRequestMap[sn]) :
       OnConnection(c, [Conn(c) EXCEPT !.atServer = @ \ {sn},
                                       !.responses = Append(@, [sn |-> sn, answer |-> answer])])

Break(c) ==
  /\ Exists(c) /\ breaks < MaxBreaks /\ Conn(c).open /\ ~Conn(c).broken
  /\ breaks' = breaks + 1
  /\ \E kept \in {Conn(c).responses, <<>>} :
       client' = WithConn(client, c, [Conn(c) EXCEPT !.broken = TRUE, !.atServer = {},
                                                     !.responses = kept])
  /\ UNCHANGED <<conf, started, reports, stops>>

\* The media session's RTCP, when it is interleaved.
doSendRtcp ==
  /\ Running /\ client.via # 0 /\ client.m_bInterleaved
  /\ client.media = "running" /\ reports < MaxReports
  /\ reports' = reports + 1
  /\ client' = [client EXCEPT !.conns =
                   WithMedia(client.conns, client.via, Message("MT_RTP_RTCP", 0))]
  /\ UNCHANGED <<conf, started, breaks, stops>>

doSendBye ==
  /\ Running /\ client.media = "stopping"
  /\ Handles([client EXCEPT !.media = "leaving",
                            !.conns = IF client.m_bInterleaved
                                      THEN WithMedia(client.conns, client.via, Message("BYE", 0))
                                      ELSE client.conns])

Handlers(c) ==
  handleConnect(c) \/ handleConnectFails(c) \/ handleRead(c) \/ handleReadFails(c)
  \/ handleWrite(c) \/ handleWriteFails(c) \/ doClose(c)

ServerAnswers == \E c \in 1 .. Len(client.conns) : \E sn \in Conn(c).atServer : Answers(c, sn)

Next ==
  \/ start \/ applicationShutdown \/ onTimeout \/ doSendRtcp \/ doSendBye
  \/ \E c \in 1 .. Len(client.conns) : Handlers(c) \/ Break(c)
  \/ ServerAnswers

Spec == Init /\ [][Next]_vars

\* The io_service runs what is ready, and the server answers what it has read.
FairSpec ==
  /\ Spec
  /\ WF_vars(doSendBye)
  /\ WF_vars(ServerAnswers)
  /\ \A c \in Conns : WF_vars(Handlers(c))

-----------------------------------------------------------------------------
(* Properties                                                              *)

Messages == [type : {"MT_RTSP", "MT_RTP_RTCP", "BYE"}, id : 0 .. Len(client.m_mRequestMap)]

\* Every field has its type, and at most one request is outstanding: "we only
\* handle one at a time" (RtspClient.cpp:75).
\* No index of m_vSelectedTransports past its end is kept, but one may be used: that
\* is the fault "range" (SetupsCounted), and "header" a header read that is not there.
TypeOK ==
  /\ client.m_mRequestMap \in Seq(Methods)
  /\ client.m_qOutstandingRequests \in Seq(Methods)
  /\ Len(client.m_qOutstandingRequests) <= 1
  /\ client.m_pConnection \in 0 .. Len(client.conns)
  /\ client.m_eState \in {"INIT", "SETUP", "PLAYING", "TEARING_DOWN"}
  /\ client.media \in {"none", "running", "stopping", "leaving", "complete"}
  /\ client.m_uiSetupCount \in 0 .. client.selected /\ client.selected \in 0 .. conf.media
  /\ client.fault \in {"none", "assert", "connection", "range", "header"}
  /\ \A c \in 1 .. Len(client.conns) :
       /\ Conn(c).m_eState \in {"CONNECTING", "CONNECTED", "CLOSED", "ERROR"}
       /\ \A i \in 1 .. Len(Conn(c).m_qRtspRequests) : Conn(c).m_qRtspRequests[i] \in Messages
       /\ Conn(c).atServer \subseteq 1 .. Len(client.m_mRequestMap)

\* The outstanding request will be resolved by some connection: one that has still
\* to write it, one that has it at the server or its response to read, or one whose
\* read is about to fail.  A request that is handed to a connection that drops it
\* (write, in a state of error) would stay outstanding and refuse all that follow.
RequestHasCarrier ==
  Running /\ client.m_qOutstandingRequests # <<>> /\ ~client.clientDown =>
    LET sn == Len(client.m_mRequestMap)
    IN \E c \in 1 .. Len(client.conns) :
         \/ /\ Conn(c).connecting \/ Conn(c).writing
            /\ \E i \in 1 .. Len(Conn(c).m_qRtspRequests) :
                 Conn(c).m_qRtspRequests[i] = Request(sn)
         \/ /\ Conn(c).reading
            /\ \/ Conn(c).broken \/ ~Conn(c).open \/ sn \in Conn(c).atServer
               \/ \E i \in 1 .. Len(Conn(c).responses) : Conn(c).responses[i].sn = sn

\* With a server whose answers to SETUP have their headers, handleSetupResponse does
\* not index past m_vSelectedTransports, though it never looks.  Without a Session
\* header it does: the handler runs twice and counts one SETUP twice.
SetupsCounted == conf.headers => client.fault \notin {"range", "header"}

\* With such a server PLAY is sent, and the media session exists, only when every
\* selected media has been set up: setupSelectedSessions also says false when a SETUP
\* is refused, which is what happens in the second of two calls for one response.
PlayAfterAllSetUp ==
  /\ conf.headers
  /\ \/ client.media # "none"
     \/ \E i \in 1 .. Len(client.m_mRequestMap) : client.m_mRequestMap[i] = "PLAY"
  => client.m_uiSetupCount = client.selected /\ client.selected > 0

\* A session that plays has its media session running, and a session that is back
\* in its initial state has stopped it, whichever response or error came last, and
\* whether or not the answers to SETUP have their headers.
MediaMatchesState ==
  /\ client.m_eState = "PLAYING" /\ conf.transport \in {"udp", "tcp"} => client.media = "running"
  /\ client.m_eState = "INIT" => client.media # "running"

\* The media session lives when the RTSP session says so: from the last SETUP and
\* PLAY (handlePlayResponse) to the answer, or the failure, of the TEARDOWN.
\* With a server that leaves headers out only MediaMatchesState remains.
MediaFollowsSession == SetupsCounted /\ PlayAfterAllSetUp /\ MediaMatchesState

\* A request is resolved, by its response or an error, unless the client is shut down.
RequestResolved ==
  client.m_qOutstandingRequests # <<>>
  ~> client.m_qOutstandingRequests = <<>> \/ client.clientDown \/ ~Running

\* A connection c on which nothing will be read or fail any more.
Over(c) == ~Conn(c).connecting /\ ~Conn(c).reading /\ ~Conn(c).writing

\* Once the TEARDOWN is sent by a client that is not shut down, and no earlier
\* connection has handlers left, the media stops, though the server refuses the
\* request or the connection breaks.
TeardownStopsMedia ==
  /\ client.m_qOutstandingRequests = <<"TEARDOWN">>
  /\ \A c \in 1 .. Len(client.conns) : Over(c) \/ c = Len(client.conns)
  /\ client.media = "running" /\ ~client.clientDown
  ~> client.media # "running"

-----------------------------------------------------------------------------
(* What the code's comments and assertions say and the code does not do.   *)


\* RtspClientSession.h:73: "Once the RTSP session is complete, m_onSessionEndHandler
\* is called if configured", of shutdown().
ShutdownEndsSession == stops > 0 ~> client.ended \/ ~Running

\* RtspClientSession.h:71: the method "stops the RTSP client session chain of events".
ShutdownStopsChain ==
  [][client.m_bShuttingDown /\ Len(client'.m_mRequestMap) > Len(client.m_mRequestMap)
     => client'.m_mRequestMap[Len(client'.m_mRequestMap)] = "TEARDOWN"]_vars

\* RtspClient.cpp:60, of RtspClient::shutdown: "close any outstanding reads".
ShutdownClosesReads ==
  client.clientDown ~> (\A c \in 1 .. Len(client.conns) : ~Conn(c).reading) \/ ~Running

=============================================================================
