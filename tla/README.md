# A TLA+ development for rtp++

rtp++ is a C++ library for real-time media: SIP (`rfc3261`) and RTSP
(`rfc2326`) signalling, RTP and RTCP sessions (`rfc3550`, `rfc4585`),
multipath RTP (`mprtp`), receive buffers, packet schedulers and the network
code under all of them. This directory holds TLA+ modules for the parts whose
correctness depends on the order in which things happen, the TLC
configurations that check them, and machine-checked proofs of the results that
hold for every choice of the parameters.

Paths below are relative to `src/Lib` of the repository unless they say
otherwise; headers are under `include/rtp++`.

## 1. The system

### How it runs

An application owns one boost::asio `io_service` and runs it in one thread.
Everything happens in handlers of that thread: a datagram or a TCP message has
arrived, a timer has expired, the user has called a method that was posted to
the thread. Two consequences shape every model here.

* A handler is atomic, and handlers interleave in any order. State read in one
  handler may be stale in the next one.
* `cancel()` on a timer cannot recall a handler that is already in the queue.
  That handler still runs, and its error code is success.

The build files define no `NDEBUG`: a failing `assert` ends the process.

### Parts, their state and how they interact

| Part | State it keeps | Operations | Talks to |
| --- | --- | --- | --- |
| `rfc3261/ClientTransaction` | state, timers A, B, D, E, F, K, intervals, "TU has been notified" | constructor (sends the request), responses, six timer handlers | transport layer (send), `TransactionUser` (notify, terminate) |
| `rfc3261/ServerTransaction` | INVITE or non-INVITE state, timers G, H, I, J, final response | constructor (asks the TU), `sendResponse`, ACK, retransmitted request, timer handlers | the same |
| `rfc3261/TransactionUser` | maps of live transactions, two id counters | begin, notify, terminate | both user agents derive from it |
| `rfc3261/UserAgentClient`, `UserAgentServer` | stored 2xx responses; matching of requests to transactions | invite, responses, ringing, accept, reject, requests inside and outside a dialog | dialogs, `UserAgent` callbacks |
| `rfc3261/DialogManager`, `SipDialog` | dialogs by id, map from transaction id to dialog id, terminated dialogs | create, confirm, look up, terminate, generate and handle requests | shared by UAC and UAS of an agent |
| `rfc3261/SipAgent` | state of the agent, id of the transaction of the call, media session | call, ringing, accept, reject, hangup, stop, callbacks | `UserAgent` |
| `rfc3261/TransportLayer` and TCP connections | sockets, write queues | send, receive, connect | network |
| `RtpJitterBufferV2`, `RtpPacketGroup` | list of nodes ordered by presentation time, history ring, two references of time | add packet, next node | session manager |
| `RtpSessionManager` | playout timers, sessions, media queues | incoming RTP, timer handler, stop, send | jitter buffer, members, application |
| `rfc3550/MemberEntry`, `SessionDatabase` | probation, sequence numbers, loss counters, times of the last packet and of a BYE, reference for presentation times | RTP, SR, RR, SDES, BYE received, reports, timeouts | session manager, report manager |
| `RtpSession` | state, count of the BYEs sent, report managers, network interfaces | start, stop, incoming and outgoing packets, early feedback | all of the RTP parts |
| `rfc3550/RtcpReportManager`, `rfc4585/RtcpReportManager` | one timer, shutting down, early report allowed and scheduled | interval handler, early feedback, BYE at once or after a delay | RTP session, member database |
| `rfc4585/FeedbackManager`, `rto` | packets assumed lost, loss detection, RTT estimators | assumed lost, late, reset, shut down | session manager |
| `TransmissionManager` | retransmission buffer by sequence number, map to flow labels, ring or timers | store, remove, acknowledge, generate and process retransmissions | session manager |
| `mprtp`, `scheduling` | statistics of paths, schedules | choose path, pace packets | RTP session |
| `rfc2326/RtspClientSession` | state of the session, media to set up, media session | start, one handler per response, shutdown | `RtspClient`, media session |
| `rfc2326/RtspClient` | outstanding request, methods by CSeq, connection | one method per request, responses, errors, shutdown | session, connection |
| `rfc2326/RtspClientConnection` | state, socket, queue of messages | connect, write, read, close and their handlers | network |
| `rfc2326` server side | sessions, connections | requests of clients | RTP session |
| `network/UdpSocketWrapper` | socket, delivery queue | send, write completion, close | network interfaces |
| `network`, `rfc4571`, `sctp`, `rfc5762` | sockets and framing | send, receive | everything above |
| packetisers, codecs, SDP | none worth the name | encode, decode, parse | sessions |

Left aside: `Libs` (codecs, generated protobuf code, third-party congestion
control), the tools and the example applications.

### What is hard

* *Timers against messages.* A response, an ACK or `stop()` arrives when a
  timer has expired and its handler is queued.
* *Unreliable delivery.* Over UDP every message may be lost, repeated or
  overtaken; the transactions retransmit, and the layer above sees copies.
* *Object lifetime.* Handlers are bound to a raw `this`; a transaction is
  erased from its map by its own notification.
* *Indirection through ids.* `hangup()` finds its dialog by a transaction id
  that was stored earlier, in a map that other messages overwrite.
* *Changing references of time.* A sender report replaces the reference of the
  presentation times while frames that were timed by the old one wait.
* *Timers that are not tied to what they are for.* A playout timer plays
  whichever frame is in front.
* *Shutdown as a chain of handlers.* A session is over when the handlers that
  `stop()` aborted have sent their BYEs and the sends have ended; any missing
  link keeps it alive for ever.
* *Errors that are not tied to a request.* Several connections of one RTSP
  client live at a time; each reports its failure to whatever is outstanding.
* *Numbers that wrap.* 16-bit sequence numbers are extended, compared, counted
  and used as keys of maps.

`PROJECT.json` lists these places line by line under `hazards`, with the
properties that watch them. Further places that no property covers, because the
code plainly does not do what would be wanted there or the model leaves them
out: a BYE whose response was lost is not answered again
(`ServerTransaction.cpp:164`); the 2xx is sent once and its ACK not awaited
(`UserAgentServer.cpp:477`); the entry of transaction 0 is erased for any call
(`UserAgentClient.cpp:498`); media starts after a `stop()` that crossed the 2xx
(`SipAgent.cpp:636`); a timer is started before it is entered in its map, which
matters with several threads (`RtpSessionManager.cpp:853`); 30 or more losses in
an interval are never asked for (`RtpSessionManager.cpp:162`); an SDES in the
middle of the probation, or before the first RTP packet
(`MemberEntry.cpp:109,126`); a source known from CSRCs only is never removed
(`SessionDatabase.cpp:257`); the close handler of an old RTSP connection resets
the new one (`RtspClient.cpp:345`); a teardown that is refused is not repeated
(`RtspClientSession.cpp:128`); a SETUP response after `shutdown()` meets a null
connection (`RtspClientSession.cpp:473`, the fault "connection" of the model); a
restored packet has no cycles in its number
(`TransmissionManager.cpp:335`).

### What makes each part correct

* Client transaction: one outcome is reported, nothing after it; it always has
  the timer that ends it; it is erased in the end; it acknowledges failures
  only; it retransmits as often as the protocol's times allow.
* Server transaction: the first final response stands; a failure response is
  retransmitted until the ACK and never after it; an acknowledged transaction
  is not reported as failed; an answered one is erased.
* Call: a refusal is never an established call; an established call ends only
  because somebody hung up; an agent in a call can hang up; the caller is told
  one outcome.
* Playout: every accepted frame is played once, when it is due, in the order
  and at the distances of the timestamps; the asserts of the buffer hold.
* Members: what is kept of a participant agrees with the true numbers of its
  packets over wraps, loss and reordering; a source is valid only after packets
  in sequence; one that leaves is removed.
* Reports: each manager always has exactly one way on to its next report; its
  BYE is the last packet it sends; a stopped session is complete, once.
* RTSP client: one request at a time, and always a connection that will resolve
  it; PLAY after all SETUPs; the media session follows the session's state.
* Retransmission: the buffer holds the packets its mode promises and no others;
  a retransmission is the packet that was asked for. In ACK_MODE the code gives
  neither (section 3).

## 2. The modules

| Module | Role |
| --- | --- |
| `TransactionService` | what a client transaction promises its user (abstract) |
| `ClientTransaction` | one client transaction, with the refinement of `TransactionService` |
| `ServerTransaction` | one server transaction |
| `SipCall` | composition: two agents, their transactions, dialogs and a network |
| `RtpPlayout` | the receive path: member entry, jitter buffer, playout timers |
| `RtcpReporting` | composition: report managers, loss feedback, send queues and the end of an RTP session |
| `SessionMembers` | one participant in the member database |
| `RtspClient` | composition: RTSP client session, client and its connections |
| `Retransmission` | the sender's retransmission buffer, NACKs, and the receiver's reading of a retransmission |
| `*Proofs` | theorems and proofs about the module of that name |

Definitions carry the names of the functions they model, variables those of
the data members; `map` in `PROJECT.json` gives the lines. Some definitions
next to a mapped one are variants that a plausible mistake would produce
(`ZeroInterval` beside `InitialInterval`, `NotYetTerminated` beside
`AwaitsFinalResponse`, `AtTheBack` beside `InsertionPoint`, ...). The
specifications do not use them. Put in the place of the definition they sit
beside, each makes the property that `mutants` names fail: this is how we know
that the property depends on the code.

### ClientTransaction

Time advances in ticks of T1 = 500 ms, of which every interval of the code is
a multiple. A timer is waiting (`left[t] > 0`), expired with its handler in the
queue (`t \in queued`) or idle; `cancel()` touches the first kind only. The
handlers of timers A to K, the constructor with its send, and the responses of
both kinds of transaction are actions; messages are reduced to the classes of
response codes that the code tells apart. A send may fail, where the code looks
at its result. When a transaction ends, its object is gone, but the handlers
that are queued still run: `handlerAfterDestruction`. The ghost variables
`wire` and `tu` hold what the last step gave to the transport and to the
transaction user, `outcome` and `requests` what is needed of the past.

`RequestsBeforeTimeout` relates the doubling of timer A to the length of timer
B: exactly seven requests go out before an unanswered INVITE over UDP times
out, as the comment in `handleTimerBTimeout` says; timer E, capped by T2,
allows at most eleven.

### ServerTransaction

The same treatment for the server side. The constructor calls the transaction
user, which may answer at once; later the application rings, accepts or
rejects, at any time and more than once. An assert that fails leads to the
state "aborted", in which nothing happens: `onAckReceived` in Confirmed is one.
Timer I of zero seconds over a reliable transport is queued at once. A request
retransmitted by the client is ignored, as in the code;
`onRequestRetransmissionReceived` has no caller.

### SipCall

One call between two agents of this library over UDP. The network is the set
of messages sent so far; any of them may arrive at any time, any number of
times, or never. That makes the retransmissions of the transactions below it
repeated arrivals, and leaves of the transactions their states and the events
that end them. Everything above is there: creation of early and confirmed
dialogs, the map `m_mIdMap` that both sides of an agent share and whose keys
both number from zero, the stored 2xx, the matching of ACKs to the lowest live
transaction, the transactions that an ACK makes when it matches none, BYE
transactions on both sides, and the states of `SipAgent`. An INVITE that is
retransmitted matches nothing and makes another server transaction with a tag
of its own, because the code matches only ACKs against INVITE transactions.

Abstracted: SDP, media set-up and its failures; sends succeed; tags are
numbered in the order in which they are chosen; an agent sends at most one BYE
per dialog. A process that an assert has ended ends the model, since what its
peer then does is what it does when no more messages arrive.

### RtpPlayout

The path of a packet: `MemberEntry` gives it a presentation time relative to a
reference, which is the first packet until a sender report replaces it;
`calculatePlayoutTime` computes when it is to be played; the packet joins the
node of its timestamp, is found in the history of played nodes, is too late,
or makes a node, for which the session manager starts a timer. The handler
plays the node in front. `stop()` cancels the timers, except for the handlers
that are queued.

Times are in ms and the RTP clock runs at 1000 Hz, so no conversion rounds;
the unsigned arithmetic of `m_uiRtpDiffMs` is kept, modulo `TsMod`. Timers fire
in the order of their expiry, as in asio's timer queue, at most `MaxLag` late.
Statistics, and the order of packets within a group, are left out.

### RtcpReporting

An `RtpSession` from `start()` until `m_onRtpSessionComplete`. Each manager has
one timer (`m_rtcpTimer`) and a queue of posted handlers (`ready`), each with
its error code: setting or cancelling a pending timer posts its handler with
`operation_aborted`, and the handler runs after those posted before it. The
handlers follow the code's order of tests: shutting down first, the error code
second. A report that is sent joins the delivery queue of its socket; the end
of a send (`writeCompletionHandler`) calls `onOutgoingRtcp`, which counts BYEs
and closes the session when the count equals the number of managers. After a
failed send the next packet is not sent, and `Stuck` names the state that
results. Losses set the timer anew through `scheduleEarlyFeedbackIfPossible`;
`detecting` is cleared by `stop()` and set again by the `reset()` that a BYE of
the other side causes in `SimplePacketLossDetection`.

Time is left out: a pending timer may expire at any moment, timer
reconsideration only delays it, and where the code compares times within an
interval both outcomes are possible. The interval itself is arithmetic on
reals. A suppressed report, a delayed BYE and an immediate one are all there.
`predictor` chooses between the plain manager of RFC 3550 ("none") and that of
RFC 4585 with either kind of loss detection; single path is one manager.

### SessionMembers

One participant in the `SessionDatabase`, as its entry `e`. Packets have true
numbers; the code sees them modulo `SeqMod`. The ghost variables hold the
highest true number that `update_seq` has accepted (`high`), the one that
`init_seq` was last called with (`base`), the packets counted since (`arrived`)
and the length of the run of packets in sequence. Each branch of `update_seq`
is an action: probation in and out of sequence, validation, advance over a
permitted gap, a jump, the second packet of a jump, and a late or repeated
packet. RTCP packets of all kinds, CSRCs with the number of another source's
packet, the inspection of the database before each report, ages of the last packet and of the BYE,
and the departure of the participant are the other actions. `Window` bounds how
far a packet may be behind or ahead: less than `MaxMisorder` behind, and beyond
`MaxDropout` ahead, so that all branches happen, but not so far that a number
ahead is the number of a late packet, which no receiver could tell apart.

`getCumulativeNumberOfPacketsLost` clamps its result to 24 bits, and the clamp
for negative numbers is the positive number 0x800000 (`MemberEntry.cpp:178`).
`LossLimit` stands for 0x800000. `CumulativeField` is what
`RtcpRrReportBlock` writes, the low 24 bits, in which that number is the pattern
of the lowest signed number; `readCumulative` is what it reads, which is not
signed. `LossReported` therefore says that the number returned does not overstate
the loss while no more than 0x800000 packets were received beyond those expected,
that the field, read as RFC 3550 defines it, never does, and that the fraction
fits its byte.

`Never` is the age of a default-constructed `ptime`, for which every comparison
in the code is false. Jitter, round trip times and the other participants are
left out.

### RtspClient

`client` is a record with the state of `RtspClientSession`, of its `RtspClient`
and of every connection made so far. The handlers of asio are the actions; the
methods they call are operators from state to state, nested as the calls are,
because a response handler sends the next request before the read handler that
called it goes on. A connection has a read, a write and a connect under way or
not, a queue, and what is on its way to and from the server; `Break` ends it
from outside, and both its read and its write then fail, one after the other
with anything in between. `doClose` may be overtaken by operations that ended
before it. The server answers with success, an error or something that cannot
be parsed, and a server without `conf.headers` also leaves headers out of a
successful answer to SETUP. `handleResponse` (`RtspClient.cpp:591-648`) then calls
the handler of SETUP once for each header that is missing, and goes on as if it
were there: `IncompleteSetup`.

* Without Session, the handler runs twice for one answer. With one medium the
  second call reads past `m_vSelectedTransports` (the fault "range"); with more,
  the first call has sent the next SETUP and the second counts it as done: it is
  at the end of the list, or takes the refusal of one more SETUP for it, and makes
  the media session early; its PLAY is refused, as the SETUP is outstanding.
* Without Transport, the handler runs and then an empty optional is dereferenced
  (the fault "header").
* A Session with a timeout and a short identifier fails an assert ("header").

`TypeOK` therefore promises nothing of these faults. The parts `SetupsCounted`
and `PlayAfterAllSetUp` of `MediaFollowsSession` are about a server that sends the
headers; `MediaMatchesState` and all the other properties are about both kinds. Interleaved RTCP is written into the connection that the media
session got at SETUP, which may be an old one.

What would end the program (a failed assert, a null connection, an index out of
range, an empty optional) sets `fault`, after which nothing happens; where the
language leaves the outcome open, this is the only one modelled. The other
content of messages, authentication and requests of the server are left out. A
description that cannot be used, or from which no transport can be selected, is
an error in the answer to DESCRIBE.

### Retransmission

`TransmissionManager` in its three modes. Packets are numbered from 1; `SN` and
`FSSN` give the 16-bit numbers of a packet in the session and in its flow,
modulo `SeqMod`. `m_mTxMap` is the buffer, `m_mSnMap` the bimap of sequence
numbers and labels, with the semantics of `insert`: an entry that is there
stays. The ring of `Capacity` numbers starts full of zeros, as
`std::deque(30)` does. In the timed mode a packet has a timer, waiting or with
its handler posted. A NACK, by number or by flow and FSSN, generates a
retransmission, which comes through `storePacketForRetransmission` itself, is
lost or reaches the receiver's `processRetransmission`. `m_bIsMpRtpSession` is
never set by the code and so is arbitrary.

`BufferExact` and `AnswersNack` say what each mode does. With a ring or timers the
buffer holds the newest packet of a number, and that is what a NACK gets. In
ACK_MODE nothing is removed and `insert` does not replace, so the buffer holds the
first packet with each number (`HoldsFirst`); after a wrap a NACK is answered with
a packet that is a cycle or more old. `RtpSessionManager.cpp:398-399` takes ACK_MODE for
sessions that use ACKs and NACKs together. A NACK by flow gets the packet with
the label it asked for during the first cycle of numbers, and after it only with a
ring or timers and `m_bIsMpRtpSession` true: otherwise stale labels lead to other
packets.

A packet is sent and stored in one step, so a send that fails, or whose completion
comes after that of a later packet, is not there: over UDP a send that is accepted
ends before the session sends the next packet of the same flow. The retransmission
time is taken to be shorter than a cycle of sequence numbers
(`CycleOutlastsTimers`), which at 65536 packets it is by orders of magnitude.

## 3. The runs

| Run | States | What it shows |
| --- | --- | --- |
| `client_transaction` | 72 127 | both kinds and both transports with the code's own timer values and failing sends: asserts, number of requests, refinement of `TransactionService`, termination |
| `server_transaction` | 1 820 | INVITE, BYE and a 2xx's ACK over both transports: the first answer stands, no late timeout, erasure |
| `sip_call` | 14 915 | one server transaction, both users may end the call: calls end on purpose, `hangup()` finds its dialog |
| `sip_call_retransmitted` | 261 913 | a repeated INVITE makes a second transaction, answered independently: refusals stand, an agent in a call has an established dialog, an acknowledged one is shared until a BYE, one outcome |
| `rtp_playout` | 40 822 | no sender reports; loss, copies, reordering, late handlers, `stop()`: frames are played once, on time, at the right distances, and in the end |
| `rtp_playout_synced` | 200 306 | sender reports move the reference both ways: order, a node for every timer |
| `rtcp_reporting` | 162 378 | one and two managers, early reports, failing sends, `stop()`: reports go on, the BYE is last, completion once and after all BYEs |
| `session_members` | 955 358 | loss, repeats, reordering, wraps, restarts, all RTCP packets, timeouts: exact extended numbers, loss on both sides of its clamps, fraction, validation, removal |
| `rtsp_client` | 357 740 | four transports, up to two media, five connections of which two break, answers of all kinds, with and without headers, `shutdown()`: requests are resolved, media follows the state, SETUP before PLAY when the server sends headers |
| `retransmission` | 129 820 | three modes, one and two paths, a wrap, NACKs, losses, `stop()`: what the buffer and its map of labels hold in each mode, and which packet answers a NACK: the newest with its number, in ACK_MODE the first |

Some properties are conjunctions of named parts, each of which the modules
define and comment and, except in `RtspClient`, where one theorem proves all, a
theorem of its own proves:
`DialogsMatchCall` (a refused tag is established on neither side, an agent in a
call has an established dialog, an acknowledged dialog is held by both until a BYE
is sent for it), `LeavesInOrder` (the BYE is last, completion after all BYEs and
once), `NumbersExtended` (the highest number and each packet's), `LossReported`
(cumulative loss as returned and as written, fraction), `Validation` (neither too early nor too late),
`MediaFollowsSession` (no index overrun, PLAY after all SETUPs, media runs when the
state says so) and `BufferExact` (the newest packet of a number, all that is
retained, labels; the first packet of a number in ACK_MODE).
Parts of the transactions' inductive invariants and what follows from them
(`AlwaysAWayOut`, `AckOnlyAfterFailure`, `RetransmittedUntilAcked`,
`SilentOnceConfirmed`) are proved and in no run.

The two runs that expect a violation state what the repository says of itself
and show that the code does otherwise:

* `rtsp_response_finds_request`: `handleResponse` asserts that a request is
  outstanding. A connection that breaks reports its error twice. The read's
  error ends PLAY, whose handler sends TEARDOWN on a new connection; the write's
  error of the old connection ends TEARDOWN as well; the response to it then
  fails the assert.
* `rtcp_stop_always_completes`: a session "is over once the RTCP BYE is sent",
  but after one failed send with another packet queued the socket sends nothing
  any more, and neither the BYE nor the completion comes. `StopCompletes` shows
  that this is the only way to miss it.

The modules state further claims of comments and interfaces that the code does
not meet, in their last sections. They are not runs of their own; listing one
of them in the module's cfg reproduces it.

* `ClientTransaction`: `ResponsePassedOnce` (a `case` falls through and the
  first 1xx is reported twice), `NoRequestAfterResponse` (timer A's queued
  handler retransmits in Proceeding), `TimerEKeepsRunning` (an expiry is set and
  nobody waits for it), `CompletedTerminates` (timer K is not started over TCP),
  `NoHandlerAfterDestruction` ("the tx object becomes invalid!!", yet a queued
  handler still runs on it: over TCP a failure starts timer D with zero seconds,
  a copy of the failure arrives before its handler, the ACK cannot be sent and
  the transaction is erased).
* `ServerTransaction`: `TimerGBacksOff` (the minimum is taken with T1),
  `RetransmissionAnswered`, `NoHandlerAfterDestruction`, `AcksAbsorbed`
  (Confirmed is to "absorb any additional ACK messages"; the code asserts, and a
  retransmission that crosses the ACK is enough).
* `SipCall`: `OneTransactionPerInvite`, `RejectedByeChangesNothing`,
  `MediaStopsWithBye`, `ByeTimeoutEndsDialog`, `ByeReceivedEndsSession` (a BYE
  that overtakes the 2xx ends the early dialog, and the 2xx then makes a
  confirmed one with the same id), `CallerNotAlone` (the same BYE leaves the
  caller in a call that the callee has ended; `DialogsMatchCall` holds there, as
  the BYE was sent). `HangupFindsSession` holds in `sip_call` and
  fails with two server transactions: the early dialog of the second replaces
  the first in `m_mIdMap`, and `hangup()` sends its BYE into the other dialog.
* `RtpPlayout`: with sender reports `PlayedOnTime` fails (presentation order and
  playout order may differ, and the timer of one frame plays another one early)
  and so does `PlayoutFollowsTimestamps` (when the first synchronised packet was
  sent before the first packet received, the unsigned difference wraps and all
  later frames are scheduled far in the future).
* `RtcpReporting`: `EveryManagerSaysBye` (in a multipath session with loss
  detection one manager may send two BYEs, which the count takes for all).
* `SessionMembers`: `SilentTimedOut` (an entry made by CSRCs only has no time
  and is never removed), `ArrivalsCounted` (an SDES in the middle of the
  probation), `StaysValid` (the first RTP packet puts a source that its SDES
  validated on probation again), `LossClamped` (the clamp for negative loss is
  positive, and `RtpSession.cpp:1651-1657` gives that number to the application
  as well) and `LossReadBack` (the field is read without its sign).
* `RtspClient`: `ShutdownEndsSession` (a teardown that is refused because a
  request is outstanding is not repeated), `ShutdownStopsChain` (the response
  that is under way sends the next SETUP or PLAY), `ShutdownClosesReads` (an old
  connection keeps reading).
* `Retransmission`: `LastPacketsStored` (number 0 among the first packets),
  `AckedRemoved` (the line that would remove is compiled out),
  `RestoresOriginal` (the extended number without its cycles, an FSSN cut to a
  byte), `LookupFindsPacket` (stale labels, when the flag that nobody sets is
  false), `HybridAnswersNack` (in ACK_MODE a NACK gets the first packet ever sent
  with its number).

### Bounds, and why they are enough

* `ClientTransaction.cfg` and `ServerTransaction.cfg` use the code's values in
  units of T1, so the coincidences of expiries are the real ones. `MaxInterval`
  is 128 ticks, twice timer B: a longer interval of timer A never ends before
  the transaction does.
* `SipCall.cfg` has one server transaction and lets both users end the call.
  `SipCallRetransmitted.cfg` has two, the least number at which answers can
  disagree, and only the callee ends the call, which keeps the run short; the
  theorems cover any number and any choice.
* `RtpPlayout.cfg` has three frames of one packet, two arrivals each and a
  history of one, so that a copy may arrive after its frame was forgotten, and
  a latency longer than a frame, so that several frames wait.
  `RtpPlayoutSynced.cfg` has two frames of two packets and offsets in both
  directions, one of them larger than all distances between frames. `TsMod` is
  65536 instead of 2^32, which TLC's integers cannot multiply by 1000; what
  matters is that it is large against every time of the model.
* `RtcpReporting.cfg` has up to two managers: one that is ahead and one that is
  behind is all that the count of BYEs can tell apart, and the theorems cover
  any number. Queues of two show what a failed send leaves behind; with one
  failed send all later states of a stuck socket are reached. `MaxRtx` is 2
  instead of 30, so that both sides of the limit happen.
* `SessionMembers.cfg` has a modulus of 7 with `MaxDropout` and `MaxMisorder` of
  3, so that between a gap and a late packet there is room for a jump,
  `MIN_SEQUENTIAL` of 2 as in the code, and starts at every number, so that the
  wrap happens in probation, at validation and after it. `LossLimit` is 2 with
  up to 4 packets received, so that both clamps are passed in both directions.
  The theorems are for any modulus and limits.
* `RtspClient.cfg` has two media, so that there is a SETUP between the first and
  the last, and two breaks, so that a connection may fail while another's failure
  is being handled. `MaxConns` bounds only the connections whose handlers the
  fairness names; five are never all in use, and nothing else is bounded by it.
  The theorems cover any number of media, connections, breaks and reports.
* `Retransmission.cfg` has a modulus of 3, a ring of 2 and five packets, so that
  numbers come round while the ring is full; the theorems are for any modulus,
  capacity and number of packets.

Deadlock is checked in `session_members`, whose participant may always be heard
of again or time passes. In the others it is not: transactions, calls, sessions
and the bounded time of the playout model really end.

### Fairness

The `io_service` runs its queue and the clock advances: weak fairness of the
constructor's continuation, of the handlers and of `Tick` in the transactions,
of the two timer handlers and of `Tick` in `RtpPlayout`. Nothing is assumed of
the network, of peers or of users. `SipCall` states safety only and needs no
fairness. The liveness properties are `EventuallyLeaves`, `EventuallyErased`
and `EventuallyPlayed`; each names the cases in which the code gives no such
guarantee (an INVITE in Proceeding, which waits for its peer without a limit; a
non-INVITE over TCP; a stopped session).

`RtcpReporting`: timers expire, posted handlers run, a send that is under way
ends, well or not (`StopCompletes`, `ReportsContinue`). `SessionMembers`: time
passes, and the handler that checks the database runs, which is what
`ReportsContinue` shows (`LeaveIsNoticed`). `Retransmission`: timers expire and
their handlers run (`EventuallyForgotten`). `RtspClient`: handlers whose
operation has ended run, and the server answers the requests that reach it or
the connection breaks (`RequestResolved`, `TeardownStopsMedia`); the client has
no timeout of its own for a server that does neither.

## 4. The proofs

All theorems are proved by TLAPS from the named assumptions on constants, which
say no more than that durations, counts and capacities are natural numbers,
positive where a zero would make no sense, and flags are Boolean.

*ClientTransaction*, for all timer values. `TypeCorrect`; `AssertsHold` and
`WayOut` from `Inv`, which adds that timers D and K are due only in Completed,
that nothing is armed before the constructor has sent, and that the outcome
fits the state. Without the first, the handler of D could be thought to find
Proceeding; without the last, the ACK of Completed could follow a success.
`AcksOnlyFailures` follows from the last part, and `ImplementsService` is the
refinement: a step that reports an outcome happens in a state whose outcome is
"none", and every other step is silent or passes a provisional response.

`RequestsBeforeTimeoutAlways` assumes the ratios of the code
(`DefaultIntervals`: T2 is eight times T1, and the bound `MaxInterval` of the
model is not below 64 T1) and is for any T1. Without the ratios the numbers
seven and eleven are wrong. Its invariant `OnSchedule` needs no count of ticks:
while the interval doubles, the request sent with interval i left i - T1 after
the first, so what is left of the two timers satisfies
`left["B"] + 2 * i = left["A"] + 65 * T1`, which a tick and a retransmission both
keep; once timer E runs at T2 the difference of E and F is fixed per request.
When B expires the equation leaves only the seventh request. It needs that the
timers of a transaction are those of its own kind (`OwnTimers`, part of `Inv`),
as the handler of A resends in any state.

*ServerTransaction*, for all timer values. `Inv` ties the states to the method,
says that no final response is stored while the transaction may still answer,
and that an acknowledged transaction is in no state that sends or reports.
`WayOut`, `RetransmissionDue`, `FinalResponseStands`, `AckedNeverTimesOut` and
`ConfirmedIsSilent` follow.

*SipCall*, for any number of server transactions and any choice of who hangs
up. `CallInv` says: a server transaction answers once and leaves Proceeding as
it does; only a 2xx makes a dialog at the callee or a confirmed one at the
caller; the dialog of a 2xx stays until a BYE; a waiting BYE transaction has
sent its BYE; a caller that was told waits for nothing more.
`CallsEndByBye` and `RefusalStands` connect the two ends through the set of
messages sent: neither side sees the other, so each half of the invariant
speaks of one side and the network. `SharedInv` adds that an acknowledged 2xx was
sent, that the caller was told of it and holds its dialog until a BYE, that the
callee has no early dialogs, and that a caller in a call holds a dialog it has
acknowledged. `AcknowledgedStaysShared` and `CallHasDialog` follow from both, and
`ToldOnce` completes it. `HangupFindsSessionAlways` assumes
that the INVITE makes one server transaction (`MaxServerTx = 1`); with two the
property fails (section 3). `OneSession` and `OneTag` then say that the session
an agent keeps, its dialog and the tag of the 2xx belong to that transaction.

*RtpPlayout*, for any packets, latency, frame length, lag and history.
`AssertHolds` (every pending timer has a node) and `PresentationOrder` hold
with any sender reports. `TimestampsKept`, `OnTime` and `PlayedOnceAlways` assume
that there are none; the first two fail with sender reports (section 3), which
move playout times and with them the argument for the third. In `OnTime` timers are not tied to nodes, so the invariant compares the k-th timer
with the k-th node. It says that all presentation times have one reference, and
that the k-th timer never expires before the k-th node is due. A new node and
its timer are inserted at different places of two sorted lists; the lemma
`InsertBoth` shows that the comparison survives. After `stop()` there are fewer
timers than nodes, and the invariant still holds because the remaining timers
are compared with earlier nodes. `PlayedOnceAlways` needs `OnTime`: the history
forgets, so a copy of a played packet is told from a new one by its playout time
alone. `PlayedBefore` says that what was played was due, that it is older than
everything that waits, and that the last node of the history is the newest
played; a packet that is not too late is then not older than that node, and if
it is as old the history still knows it. Any capacity of the history will do.

*RtcpReporting*, for any finite set of managers. The inductive invariant says,
of each manager, that it is on exactly one way to its next report while the
session runs, and on its way to at most as many BYEs as it had handlers queued
when it stopped; that a write is under way only on a queue that is not empty;
that nothing but BYEs follows a BYE in a queue; and that the count of BYEs is
the number of managers whose BYE has ended, as long as none can have two
(`predictor = "none"`). The last is a statement about cardinalities of sets and
is what makes the comparison by equality safe. For single path sessions with
loss detection `SinglePath` shows that the count passes its goal only once.

*SessionMembers*, for any modulus, limits and `MIN_SEQUENTIAL`. `Anchored` ties
`cycles`, `max_seq` and `base_seq` to the true numbers `high` and `base`, and
`received` to `arrived`; `Probation` ties `max_seq` to the last packet and the
count to the run. The arithmetic is in four lemmas: `UdeltaWindow` turns the
16-bit difference of two numbers that are close into the difference of the true
ones, which is why the bounds on reordering are assumptions on the constants.
`LossNotOverstatedAlways` compares the number of counted packets with the
cardinality of the missing ones (`LossOfDifference`); `FieldNotOverstatedAlways`
adds the arithmetic modulo 2 * `LossLimit` that writing and reading the field is
(`ModSmall`).

*Retransmission*, for any modulus, capacity below it, flows and starts.
`Counted` numbers the packets of each flow; `Ring` gives the content of the
ring in closed form, from the packets sent and the zeros it started with;
`Held` and `Paths` say what the two maps contain; `Asked` says what a
retransmission on its way is. `Fresh` is the heart: when a packet is stored its
number, and its label, are in no map, because everything retained is less than
a cycle old. Without it `insert` would keep the old entry. A second layer,
`KeptInv`, on top of it covers what is never removed, in ACK_MODE and where labels
stay: `KeepsAll` and `Numbered` give `HoldsFirst`, and `Labelled` says that a label
is that of a packet with its number, of the only one in the first cycle.

*RtspClient*, for any number of media, connections, breaks and reports. The
handlers are operators from state to state, nested as the calls are, so the
proof has a lemma per operator, from a good state to a good state, and the
actions only combine them. `TypeCorrect`, `RequestsAreCarried` and
`MediaIsTheSessions` follow from one invariant, whose parts need each other.
`Net`: what is under way on a connection fits its state, a request is in one
place of one connection, and of the requests that lead to another one at most
one can still be answered. `Progress`: while it can, the session is as far as
that request says; with a server that sends headers, a late SETUP response cannot
meet a session that plays (`SetupOpen`).
Without `Net` this fails, because errors pop `m_qOutstandingRequests` whichever
connection they are about, and a second chain of requests could start. `Carried`
is `RequestHasCarrier` made inductive: a connection that writes the request must
also be read from, as its write may fail. It is false in the middle of a
handler, when a connection has failed and the error has not been reported yet;
`Loose` is the rest of the invariant, which holds there, and the error handler
restores it.

Only model-checked: the liveness properties (`EventuallyLeaves`,
`EventuallyErased`, `EventuallyPlayed`, `StopCompletes`, `ReportsContinue`,
`LeaveIsNoticed`, `RequestResolved`, `TeardownStopsMedia`,
`EventuallyForgotten`), which rest on fairness and `ENABLED` and are out of the
prover's reach. Every invariant and every safety property of a passing run has a
theorem.

## 5. What is not modelled

* `SipMessage`, `SipUri`, SDP, RTSP and RTP parsers, packetisers and codecs:
  conversions of text or bits, tested by examples in the repository.
* Proxy and registrar: rewriting of messages and a map of bindings.
* Rate control, RTO estimators, the RTCP interval and schedulers: arithmetic on
  reals without a stated specification.
* The RTSP server, and requests that a server sends to the client.
* TCP, SCTP and DCCP connections, and the receiving side of the sockets.
* Codecs, motion estimation, generated protobuf code, test programs and tools,
  which are by far the most of the repository's lines: pure computations on
  samples and bits, with no state that outlives a call.
* Multi-threaded use of the `io_service`. The comments allow it; the
  applications do not do it, and the locks are too few for it.
* REGISTER, OPTIONS and MESSAGE, route sets and CSeq numbers of dialogs.
* The sending half of `RtpSessionManager` up to the schedulers, and the contents
  of reports other than the loss counters.

`components` in `PROJECT.json` lists every part with its status.

## 6. Plan

Done: the transaction layer, the call, the playout path, RTCP reporting and the
end of a session, members, the RTSP client and retransmission, with the proofs
above. What is left, in this order:

1. `SipCall` for several server transactions: which of the properties of one
   transaction hold of the transaction that was answered first.
2. The TCP connections of RTP (`network/TcpRtpConnection`) and of SIP: a write
   queue with failures between two writes and messages cut by the stream.
3. `SipCall` with several calls of one agent (the entry of transaction 0 that
   `handleByeResponse` erases), and the callee's half of `CallsEndOnPurpose`.
4. `Retransmission` composed with `RtpPlayout`, and with sends whose completions
   come in another order than the packets on two paths.
5. `BasicRtoEstimator`: its timers per expected packet, which assume a loss or
   are cancelled by an arrival, with integer times.
6. The RTSP server's sessions and connections.
