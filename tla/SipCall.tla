------------------------------- MODULE SipCall -------------------------------
(***************************************************************************)
(* One call between two SipAgents of this library over UDP: the caller's   *)
(* UserAgentClient and the callee's UserAgentServer set the call up, and   *)
(* either side may hang up or stop.  Each side keeps its dialogs in a      *)
(* DialogManager, shared by its UAC and UAS, and its view of the call in   *)
(* SipAgent.                                                               *)
(*                                                                         *)
(* The network is the set of all messages sent so far: any of them may     *)
(* arrive at any time, in any order, any number of times or never.  The    *)
(* retransmissions of the transactions (ClientTransaction and              *)
(* ServerTransaction) are repeated arrivals, and their timers the steps    *)
(* named after what they end.  A failing assert stops the process.         *)
(***************************************************************************)
EXTENDS Naturals

CONSTANTS
  MaxServerTx,      \* bound: INVITE server transactions at the callee
  MayEnd            \* the agents whose user hangs up or stops

ASSUME CallAssumption ==
  /\ MaxServerTx \in Nat \ {0}
  /\ MayEnd \subseteq {"caller", "callee"}

\* Each server transaction chooses a random To tag; as there is one call, the
\* tag also is the dialog id.  Tags are numbered as they are created.
Tags == 1..MaxServerTx
NoTag == 0

Agents == {"caller", "callee"}
Peer(u) == IF u = "caller" THEN "callee" ELSE "caller"

\* Transaction ids count from 0 in the UAC and in the UAS alike.
TxIds == 0..(MaxServerTx - 1)
InviteTxId == 0
CountsFromOne(t) == t
ServerTxId(t) == t - 1

VARIABLES
  net,              \* every message sent
  inviteTx,         \* the caller's INVITE client transaction
  told,             \* the outcome of the INVITE that the caller was told
  serverTx,         \* the callee's INVITE server transaction of each tag
  ackTx,            \* its transactions made by ACKs, by branch: a tag for the
                    \* ACK of a 2xx, NoTag for ACKs with the INVITE's branch
  byeTx,            \* each agent's BYE client transaction of each dialog
  byeServerTx,      \* each agent's BYE server transactions that J has not ended
  m_mDialogs, m_mIdMap, m_qTerminatedDialogs,       \* DialogManager
  m_vInviteResponsesFromUas,                        \* UserAgentClient
  m_eState, m_uiTxId, media,                        \* SipAgent
  aborted           \* agents whose process an assert has ended

vars == <<net, inviteTx, told, serverTx, ackTx, byeTx, byeServerTx, m_mDialogs, m_mIdMap,
          m_qTerminatedDialogs, m_vInviteResponsesFromUas, m_eState, m_uiTxId, media, aborted>>

inviteVars == <<inviteTx, told, m_vInviteResponsesFromUas>>
serverVars == <<serverTx, ackTx>>
byeVars == <<byeTx, byeServerTx>>
dialogVars == <<m_mDialogs, m_mIdMap, m_qTerminatedDialogs>>
agentVars == <<m_eState, m_uiTxId, media>>

Kinds == {"INVITE", "100", "180", "200", "486", "ACK", "ACK2xx", "BYE", "BYE-200", "BYE-481"}
Message == [kind : Kinds, from : Agents, tag : Tags \union {NoTag}]
Msg(kind, from, tag) == [kind |-> kind, from |-> from, tag |-> tag]

Send(m) == net' = net \union {m}

Init ==
  /\ net = {}
  /\ inviteTx = "none"
  /\ told = "none"
  /\ serverTx = [t \in Tags |-> "none"]
  /\ ackTx = [t \in Tags \union {NoTag} |-> "none"]
  /\ byeTx = [u \in Agents |-> [t \in Tags |-> "none"]]
  /\ byeServerTx = [u \in Agents |-> {}]
  /\ m_mDialogs = [u \in Agents |-> [t \in Tags |-> "none"]]
  /\ m_mIdMap = [u \in Agents |-> [x \in TxIds |-> NoTag]]
  /\ m_qTerminatedDialogs = [u \in Agents |-> {}]
  /\ m_vInviteResponsesFromUas = {}
  /\ m_eState = [u \in Agents |-> "SA_INIT"]
  /\ m_uiTxId = [u \in Agents |-> 0]
  /\ media = [u \in Agents |-> FALSE]
  /\ aborted = {}

\* What an agent does after its peer has aborted is what it does when no more
\* messages arrive: the model ends there.
Running == aborted = {} /\ UNCHANGED aborted

-----------------------------------------------------------------------------
(* DialogManager.                                                          *)

dialogExists(u, t) == t # NoTag /\ m_mDialogs[u][t] # "none"

createUnindexed(u, txId, t, state) ==
  /\ m_mDialogs' = [m_mDialogs EXCEPT ![u][t] = state]
  /\ UNCHANGED <<m_mIdMap, m_qTerminatedDialogs>>

createDialog(u, txId, t, state) ==
  /\ m_mDialogs' = [m_mDialogs EXCEPT ![u][t] = state]
  /\ m_mIdMap' = [m_mIdMap EXCEPT ![u][txId] = t]
  /\ UNCHANGED m_qTerminatedDialogs

\* terminateDialog(uiTxId, id), called with the INVITE's id or with 0.
terminateDialogOfTx(u, txId, t) ==
  /\ IF dialogExists(u, t)
     THEN /\ m_mDialogs' = [m_mDialogs EXCEPT ![u][t] = "none"]
          /\ m_mIdMap' = [m_mIdMap EXCEPT ![u][txId] = NoTag]
     ELSE UNCHANGED <<m_mDialogs, m_mIdMap>>
  /\ UNCHANGED m_qTerminatedDialogs

\* handleRequest for a BYE: the response code that it sets.
ByeResponseKind(u, t) == IF dialogExists(u, t) THEN "BYE-200" ELSE "BYE-481"

handleByeInDialog(u, t) ==
  /\ IF dialogExists(u, t)
     THEN /\ m_mDialogs' = [m_mDialogs EXCEPT ![u][t] = "none"]
          /\ m_qTerminatedDialogs' = [m_qTerminatedDialogs EXCEPT ![u] = @ \union {t}]
     ELSE UNCHANGED <<m_mDialogs, m_qTerminatedDialogs>>
  /\ UNCHANGED m_mIdMap

-----------------------------------------------------------------------------
(* The caller sets up the call.                                            *)

\* SipAgent::call, UserAgentClient::invite.  The model has one call.
call ==
  /\ Running
  /\ inviteTx = "none"
  /\ inviteTx' = "calling"
  /\ Send(Msg("INVITE", "caller", NoTag))
  /\ m_eState' = [m_eState EXCEPT !["caller"] = "SA_DIALING_OR_RINGING"]
  /\ UNCHANGED <<told, m_vInviteResponsesFromUas, serverVars, byeVars, dialogVars, m_uiTxId, media>>

\* Timer B: TransactionUser only logs the timeout, so no one else learns of it.
inviteTimeout ==
  /\ Running
  /\ inviteTx = "calling"
  /\ inviteTx' = "terminated"
  /\ UNCHANGED <<net, told, m_vInviteResponsesFromUas, serverVars, byeVars, dialogVars, agentVars>>

\* Timer D.
inviteTxEnds ==
  /\ Running
  /\ inviteTx = "completed"
  /\ inviteTx' = "terminated"
  /\ UNCHANGED <<net, told, m_vInviteResponsesFromUas, serverVars, byeVars, dialogVars, agentVars>>

NotEnded == inviteTx # "terminated"
AwaitsResponse == inviteTx \in {"calling", "proceeding"}

\* A 1xx above 100 makes an early dialog, in place of any that exists already.
provisionalResponse(kind, t) ==
  /\ AwaitsResponse
  /\ inviteTx' = "proceeding"
  /\ IF kind = "180" THEN createDialog("caller", InviteTxId, t, "early") ELSE UNCHANGED dialogVars
  /\ UNCHANGED <<net, told, m_vInviteResponsesFromUas, agentVars>>

\* The dialog is confirmed, or made; the ACK is sent and stored; the agent
\* starts the media session.
successResponse(t) ==
  /\ AwaitsResponse
  /\ inviteTx' = "terminated"
  /\ told' = "success"
  /\ IF dialogExists("caller", t)
     THEN /\ m_mDialogs' = [m_mDialogs EXCEPT !["caller"][t] = "confirmed"]
          /\ UNCHANGED <<m_mIdMap, m_qTerminatedDialogs>>
     ELSE createDialog("caller", InviteTxId, t, "confirmed")
  /\ m_vInviteResponsesFromUas' = m_vInviteResponsesFromUas \union {t}
  /\ Send(Msg("ACK2xx", "caller", t))
  /\ media' = [media EXCEPT !["caller"] = TRUE]
  /\ m_uiTxId' = [m_uiTxId EXCEPT !["caller"] = InviteTxId]
  /\ m_eState' = [m_eState EXCEPT !["caller"] = "SA_CALL_IN_PROGRESS"]

failureResponse(t) ==
  /\ AwaitsResponse
  /\ inviteTx' = "completed"
  /\ told' = "failure"
  /\ terminateDialogOfTx("caller", InviteTxId, t)
  /\ Send(Msg("ACK", "caller", t))
  /\ m_eState' = [m_eState EXCEPT !["caller"] = "SA_INIT"]
  /\ UNCHANGED <<m_vInviteResponsesFromUas, m_uiTxId, media>>

\* In Completed every response is acknowledged with the INVITE's branch.
responseInCompleted(t) ==
  /\ inviteTx = "completed"
  /\ Send(Msg("ACK", "caller", t))
  /\ UNCHANGED <<inviteVars, dialogVars, agentVars>>

\* A response that matches no transaction: a stored 2xx has its ACK resent
\* (it is in net already), anything else is logged.
onInviteResponse(kind, t) ==
  /\ Running
  /\ Msg(kind, "callee", t) \in net
  /\ \/ kind \in {"100", "180"} /\ provisionalResponse(kind, t)
     \/ kind = "200" /\ successResponse(t)
     \/ kind = "486" /\ failureResponse(t)
     \/ responseInCompleted(t)
  /\ UNCHANGED <<serverVars, byeVars>>

\* 64*T1 after the 2xx the stored response is forgotten, early dialogs are not.
completeInviteTransaction(t) ==
  /\ Running
  /\ t \in m_vInviteResponsesFromUas
  /\ m_vInviteResponsesFromUas' = m_vInviteResponsesFromUas \ {t}
  /\ UNCHANGED <<net, inviteTx, told, serverVars, byeVars, dialogVars, agentVars>>

-----------------------------------------------------------------------------
(* The callee answers.                                                     *)

\* An INVITE matches no server transaction, a retransmitted one included: each
\* copy makes a transaction with its own tag, a 100 and a call of m_onInvite.
onInvite ==
  /\ Running
  /\ Msg("INVITE", "caller", NoTag) \in net
  /\ \E t \in Tags :
       /\ serverTx[t] = "none"
       /\ \A s \in Tags : s < t => serverTx[s] # "none"
       /\ serverTx' = [serverTx EXCEPT ![t] = "proceeding"]
       /\ Send(Msg("100", "callee", t))
  /\ UNCHANGED <<inviteVars, ackTx, byeVars, dialogVars, agentVars>>

ringing(t) ==
  /\ Running
  /\ serverTx[t] = "proceeding"
  /\ Send(Msg("180", "callee", t))
  /\ UNCHANGED <<inviteVars, serverVars, byeVars, dialogVars, agentVars>>

acceptWithoutDialog(t) ==
  /\ Running
  /\ serverTx[t] = "proceeding"
  /\ Send(Msg("200", "callee", t))
  /\ serverTx' = [serverTx EXCEPT ![t] = "terminated"]
  /\ UNCHANGED <<inviteVars, ackTx, byeVars, dialogVars, agentVars>>

accept(t) ==
  /\ Running
  /\ serverTx[t] = "proceeding"
  /\ createDialog("callee", ServerTxId(t), t, "confirmed")
  /\ Send(Msg("200", "callee", t))
  /\ serverTx' = [serverTx EXCEPT ![t] = "terminated"]
  /\ media' = [media EXCEPT !["callee"] = TRUE]
  /\ m_uiTxId' = [m_uiTxId EXCEPT !["callee"] = ServerTxId(t)]
  /\ m_eState' = [m_eState EXCEPT !["callee"] = "SA_CALL_IN_PROGRESS"]
  /\ UNCHANGED <<inviteVars, ackTx, byeVars>>

rejectButAnswerable(t) ==
  /\ Running
  /\ serverTx[t] = "proceeding"
  /\ Send(Msg("486", "callee", t))
  /\ m_eState' = [m_eState EXCEPT !["callee"] = "SA_INIT"]
  /\ UNCHANGED <<inviteVars, serverVars, byeVars, dialogVars, m_uiTxId, media>>

reject(t) ==
  /\ Running
  /\ serverTx[t] = "proceeding"
  /\ serverTx' = [serverTx EXCEPT ![t] = "completed"]
  /\ Send(Msg("486", "callee", t))
  /\ m_eState' = [m_eState EXCEPT !["callee"] = "SA_INIT"]
  /\ UNCHANGED <<inviteVars, ackTx, byeVars, dialogVars, m_uiTxId, media>>

\* Timers H and I.
serverTxEnds(t) ==
  /\ Running
  /\ serverTx[t] \in {"completed", "confirmed"}
  /\ serverTx' = [serverTx EXCEPT ![t] = "terminated"]
  /\ UNCHANGED <<net, inviteVars, ackTx, byeVars, dialogVars, agentVars>>

Abort(u) == aborted = {} /\ aborted' = {u}

\* The transactions in which an ACK with the INVITE's branch finds a match, of
\* which the one with the lowest id gets it.
Matching == {t \in Tags : serverTx[t] \in {"proceeding", "completed", "confirmed"}}
Lowest(t) == t \in Matching /\ \A s \in Matching : t <= s

\* An ACK that matches nothing becomes a transaction: stuck in Trying when its
\* dialog exists, answered with a 481 otherwise.
newAckTx(branch, t) ==
  /\ ackTx[branch] = "none"
  /\ ackTx' = [ackTx EXCEPT ![branch] = IF dialogExists("callee", t) THEN "trying" ELSE "completed"]
  /\ UNCHANGED serverTx

\* ACK for a failure.  The ACK's own transaction, if there is one, is older
\* than every INVITE transaction that is alive.
onAck(t) ==
  /\ Msg("ACK", "caller", t) \in net
  /\ \/ ackTx[NoTag] # "none" /\ Abort("callee") /\ UNCHANGED serverVars
     \/ /\ ackTx[NoTag] = "none"
        /\ \E s \in Tags :
             /\ Lowest(s)
             /\ IF serverTx[s] = "completed"
                THEN /\ Running
                     /\ serverTx' = [serverTx EXCEPT ![s] = "confirmed"]
                     /\ UNCHANGED ackTx
                ELSE Abort("callee") /\ UNCHANGED serverVars
     \/ Matching = {} /\ Running /\ newAckTx(NoTag, t)
  /\ UNCHANGED <<net, inviteVars, byeVars, dialogVars, agentVars>>

\* ACK for a 2xx, on a branch of its own.
onAck2xx(t) ==
  /\ Msg("ACK2xx", "caller", t) \in net
  /\ \/ Running /\ newAckTx(t, t)
     \/ ackTx[t] # "none" /\ Abort("callee") /\ UNCHANGED serverVars
  /\ UNCHANGED <<net, inviteVars, byeVars, dialogVars, agentVars>>

\* Timer J of an answered ACK transaction.
ackTxEnds(branch) ==
  /\ Running
  /\ ackTx[branch] = "completed"
  /\ ackTx' = [ackTx EXCEPT ![branch] = "none"]
  /\ UNCHANGED <<net, inviteVars, serverTx, byeVars, dialogVars, agentVars>>

-----------------------------------------------------------------------------
(* Either side ends the call.                                              *)

\* A BYE for each dialog of S, which becomes DS_COMPLETE.  Bound: an agent
\* sends one BYE per dialog.
SendByes(u, S) ==
  /\ \A t \in S : byeTx[u][t] = "none"
  /\ m_mDialogs' = [m_mDialogs EXCEPT ![u] = [t \in Tags |-> IF t \in S THEN "complete" ELSE @[t]]]
  /\ byeTx' = [byeTx EXCEPT ![u] = [t \in Tags |-> IF t \in S THEN "trying" ELSE @[t]]]
  /\ net' = net \union {Msg("BYE", u, t) : t \in S}
  /\ UNCHANGED <<m_mIdMap, m_qTerminatedDialogs>>

\* terminateSession(m_uiTxId): the dialog that the id map names, if it exists.
SessionDialog(u) == {t \in Tags : t = m_mIdMap[u][m_uiTxId[u]] /\ dialogExists(u, t)}

\* getActiveDialogIds.
ActiveDialogs(u) == {t \in Tags : m_mDialogs[u][t] \in {"early", "confirmed"}}

hangup(u) ==
  /\ Running
  /\ u \in MayEnd
  /\ SessionDialog(u) # {} \/ media[u]
  /\ SendByes(u, SessionDialog(u))
  /\ media' = [media EXCEPT ![u] = FALSE]
  /\ UNCHANGED <<inviteVars, serverVars, byeServerTx, m_eState, m_uiTxId>>

\* SipAgent::stop: hang up if in a call, then a BYE for every active dialog,
\* early ones included.
stop(u) ==
  /\ Running
  /\ u \in MayEnd
  /\ LET inCall == m_eState[u] = "SA_CALL_IN_PROGRESS"
         S == ActiveDialogs(u) \union (IF inCall THEN SessionDialog(u) ELSE {})
     IN  /\ S # {}
         /\ SendByes(u, S)
         /\ media' = [media EXCEPT ![u] = media[u] /\ ~inCall]
  /\ UNCHANGED <<inviteVars, serverVars, byeServerTx, m_eState, m_uiTxId>>

\* SipAgent::onBye and onByeResponse.
CallOver(u) == m_eState' = [m_eState EXCEPT ![u] = "SA_INIT"]

\* A BYE makes a server transaction unless one still lives, in which case it is
\* ignored.  The agent is told of every BYE, a refused one included.
onBye(u, t) ==
  /\ Running
  /\ Msg("BYE", Peer(u), t) \in net
  /\ t \notin byeServerTx[u]
  /\ byeServerTx' = [byeServerTx EXCEPT ![u] = @ \union {t}]
  /\ handleByeInDialog(u, t)
  /\ Send(Msg(ByeResponseKind(u, t), u, t))
  /\ media' = [media EXCEPT ![u] = FALSE]
  /\ CallOver(u)
  /\ UNCHANGED <<inviteVars, serverVars, byeTx, m_uiTxId>>

\* Timer J.
byeServerTxEnds(u, t) ==
  /\ Running
  /\ t \in byeServerTx[u]
  /\ byeServerTx' = [byeServerTx EXCEPT ![u] = @ \ {t}]
  /\ UNCHANGED <<net, inviteVars, serverVars, byeTx, dialogVars, agentVars>>

\* The response may be a refusal: the dialog is terminated all the same.
onByeResponse(u, t) ==
  /\ Running
  /\ \E kind \in {"BYE-200", "BYE-481"} : Msg(kind, Peer(u), t) \in net
  /\ byeTx[u][t] = "trying"
  /\ byeTx' = [byeTx EXCEPT ![u][t] = "answered"]
  /\ terminateDialogOfTx(u, 0, t)
  /\ CallOver(u)
  /\ UNCHANGED <<net, inviteVars, serverVars, byeServerTx, m_uiTxId, media>>

\* Timer F: as with the INVITE, TransactionUser only logs it.
byeTimeout(u, t) ==
  /\ Running
  /\ byeTx[u][t] = "trying"
  /\ byeTx' = [byeTx EXCEPT ![u][t] = "timed_out"]
  /\ UNCHANGED <<net, inviteVars, serverVars, byeServerTx, dialogVars, agentVars>>

-----------------------------------------------------------------------------
Caller ==
  \/ call \/ inviteTimeout \/ inviteTxEnds
  \/ \E t \in Tags :
       \/ \E kind \in {"100", "180", "200", "486"} : onInviteResponse(kind, t)
       \/ completeInviteTransaction(t)

Callee ==
  \/ onInvite
  \/ \E t \in Tags :
       \/ ringing(t) \/ accept(t) \/ reject(t) \/ serverTxEnds(t)
       \/ onAck(t) \/ onAck2xx(t)
  \/ \E branch \in Tags \union {NoTag} : ackTxEnds(branch)

Ending(u) ==
  \/ hangup(u) \/ stop(u)
  \/ \E t \in Tags :
       onBye(u, t) \/ byeServerTxEnds(u, t) \/ onByeResponse(u, t) \/ byeTimeout(u, t)

Next == Caller \/ Callee \/ \E u \in Agents : Ending(u)

Spec == Init /\ [][Next]_vars

-----------------------------------------------------------------------------
(* Properties.                                                             *)

\* The values the state can take; every message sent is one of the protocol.
TypeOK ==
  /\ net \in SUBSET Message
  /\ inviteTx \in {"none", "calling", "proceeding", "completed", "terminated"}
  /\ told \in {"none", "success", "failure"}
  /\ serverTx \in [Tags -> {"none", "proceeding", "completed", "confirmed", "terminated"}]
  /\ ackTx \in [Tags \union {NoTag} -> {"none", "trying", "completed"}]
  /\ byeTx \in [Agents -> [Tags -> {"none", "trying", "answered", "timed_out"}]]
  /\ byeServerTx \in [Agents -> SUBSET Tags]
  /\ m_mDialogs \in [Agents -> [Tags -> {"none", "early", "confirmed", "complete"}]]
  /\ m_mIdMap \in [Agents -> [TxIds -> Tags \union {NoTag}]]
  /\ m_qTerminatedDialogs \in [Agents -> SUBSET Tags]
  /\ m_vInviteResponsesFromUas \in SUBSET Tags
  /\ m_eState \in [Agents -> {"SA_INIT", "SA_DIALING_OR_RINGING", "SA_CALL_IN_PROGRESS"}]
  /\ m_uiTxId \in [Agents -> TxIds]
  /\ media \in [Agents -> BOOLEAN]
  /\ aborted \in SUBSET Agents

HungUp(u, t) == Msg("BYE", u, t) \in net

\* A dialog that the caller holds confirmed was made by the callee's 2xx, and
\* the callee still holds it unless one of the two asked to end it.
CallsEndOnPurpose ==
  \A t \in Tags :
    m_mDialogs["caller"][t] = "confirmed" =>
      \/ m_mDialogs["callee"][t] \in {"confirmed", "complete"}
      \/ HungUp("caller", t) \/ HungUp("callee", t)

\* A call that was refused is not established on either side: the tag of a 486
\* has no dialog at the callee and no confirmed one at the caller.
RefusedIsNotEstablished ==
  \A t \in Tags :
    Msg("486", "callee", t) \in net =>
      m_mDialogs["callee"][t] = "none" /\ m_mDialogs["caller"][t] # "confirmed"

\* The caller is told one outcome of its INVITE, whatever the several server
\* transactions of a retransmitted INVITE answer.
OneOutcome == [][told # "none" => told' = told]_vars

Established(u, t) == m_mDialogs[u][t] \in {"confirmed", "complete"}
Acknowledged(t) == Msg("ACK2xx", "caller", t) \in net

\* An agent that is in a call has an established dialog, the caller one whose 2xx it
\* has acknowledged: every path that drops a dialog (onBye, onByeResponse) also
\* leaves the call.
InCallHasDialog ==
  \A u \in Agents :
    m_eState[u] = "SA_CALL_IN_PROGRESS" =>
      \E t \in Tags : Established(u, t) /\ (u = "caller" => Acknowledged(t))

\* Once the caller has acknowledged a 2xx, both agents hold its dialog until one of
\* them has sent a BYE for it: no late or repeated response, no answer to another
\* copy of the INVITE and no timer takes it from one of the two.
AcknowledgedIsShared ==
  \A t \in Tags :
    Acknowledged(t) =>
      (\A u \in Agents : Established(u, t)) \/ HungUp("caller", t) \/ HungUp("callee", t)

\* A refused tag (reject) is established on neither side; an agent in a call holds an
\* established dialog, which both sides hold once acknowledged and until a BYE is
\* sent for it.  It does not say that both are in the call at the same time: a BYE
\* that overtakes the 2xx ends the call at the callee, and the 2xx then puts the
\* caller into it; and a callee whose 2xx the caller did not take (its INVITE timed
\* out, or another copy was answered first) is in a call alone.
DialogsMatchCall == RefusedIsNotEstablished /\ InCallHasDialog /\ AcknowledgedIsShared

\* hangup() ends the call the agent is in: the transaction id that the agent
\* keeps leads to an established dialog ("each session is "associated" with a
\* single dialog - the one which resulted in its creation", terminateSession).
\* It holds while the INVITE makes one server transaction, not with two.
HangupFindsSession ==
  \A u \in Agents :
    m_eState[u] = "SA_CALL_IN_PROGRESS" =>
      \E t \in SessionDialog(u) : m_mDialogs[u][t] \in {"confirmed", "complete"}

-----------------------------------------------------------------------------
(* What comments in the code claim and the code does not do.               *)

\* "This matching rule applies to both INVITE and non - INVITE transactions
\* alike" (comment in handleIncomingRequestFromTransportLayer): copies of an
\* INVITE share one server transaction.
OneTransactionPerInvite == \A s, t \in Matching : s = t

\* "If the request is rejected, none of the state changes are performed" (same
\* place): refusing a BYE leaves the agent and its media alone.
RejectedByeChangesNothing ==
  [][\A u \in Agents, t \in Tags :
       Msg("BYE-481", u, t) \in net' \ net => UNCHANGED <<m_eState, media>>]_vars

\* "The UAC MUST consider the session terminated (and therefore stop sending or
\* listening for media) as soon as the BYE request is passed to the client
\* transaction" (comment in SipAgent::hangup).
MediaStopsWithBye ==
  \A t \in Tags : HungUp("caller", t) /\ m_mDialogs["caller"][t] # "none" => ~media["caller"]

\* "no response at all is received for the BYE (that is, a timeout is returned
\* by the client transaction), the UAC MUST consider the session and the dialog
\* terminated" (comment in handleByeResponse).
ByeTimeoutEndsDialog ==
  \A u \in Agents, t \in Tags : byeTx[u][t] = "timed_out" => m_mDialogs[u][t] = "none"

\* "When a BYE is received on a dialog, any session associated with that dialog
\* SHOULD terminate" (comment in terminateSession).
ByeReceivedEndsSession ==
  \A u \in Agents : \A t \in m_qTerminatedDialogs[u] : m_mDialogs[u][t] = "none"

\* From the same comment: a caller is in a call only while the callee holds a dialog, or
\* the caller has hung up.  A BYE of the callee that overtakes its 2xx is answered (with a
\* 200, or with a 481 where no 1xx came before), and the 2xx then makes the dialog.
CallerNotAlone ==
  m_eState["caller"] = "SA_CALL_IN_PROGRESS" =>
    \E t \in Tags : Established("callee", t) \/ HungUp("caller", t)
==============================================================================
