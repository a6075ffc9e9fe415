---------------------------- MODULE SipCallProofs ----------------------------
(***************************************************************************)
(* Theorems about a call, for any number of server transactions that the   *)
(* copies of an INVITE make and whichever agents hang up.                  *)
(***************************************************************************)
EXTENDS SipCall, TLAPS

(* The inductive invariant.                                                *)

\* A server transaction sends one final response, and leaves Proceeding as it
\* does.
AnsweredOnce ==
  \A t \in Tags :
    /\ Msg("200", "callee", t) \in net =>
         serverTx[t] = "terminated" /\ Msg("486", "callee", t) \notin net
    /\ Msg("486", "callee", t) \in net => serverTx[t] \in {"completed", "confirmed", "terminated"}

\* Only a 2xx makes a dialog at the callee, or a confirmed one at the caller.
DialogsAnswered ==
  \A t \in Tags :
    m_mDialogs["callee"][t] # "none" \/ m_mDialogs["caller"][t] = "confirmed" =>
      Msg("200", "callee", t) \in net

\* The dialog of a 2xx stays at the callee until a BYE ends it.
AnswersStand ==
  \A t \in Tags :
    Msg("200", "callee", t) \in net =>
      \/ m_mDialogs["callee"][t] \in {"confirmed", "complete"}
      \/ HungUp("caller", t) \/ HungUp("callee", t)

\* A BYE transaction that waits has sent its BYE.
ByesSent == \A u \in Agents, t \in Tags : byeTx[u][t] = "trying" => HungUp(u, t)

\* Once the caller is told, its INVITE transaction waits for no response.
OutcomeEnds == told # "none" => inviteTx \in {"completed", "terminated"}

\* An agent in a call has a dialog, in whatever state.
InCallHasSome ==
  \A u \in Agents :
    m_eState[u] = "SA_CALL_IN_PROGRESS" => \E t \in Tags : m_mDialogs[u][t] # "none"

CallInv ==
  /\ TypeOK
  /\ AnsweredOnce
  /\ DialogsAnswered
  /\ AnswersStand
  /\ ByesSent
  /\ OutcomeEnds
  /\ InCallHasSome

-----------------------------------------------------------------------------
LEMMA MsgType ==
  ASSUME NEW k \in Kinds, NEW u \in Agents, NEW t \in Tags \union {NoTag}
  PROVE  Msg(k, u, t) \in Message
  BY DEF Msg, Message

LEMMA SendType ==
  ASSUME TypeOK, NEW k \in Kinds, NEW u \in Agents, NEW t \in Tags \union {NoTag}, Send(Msg(k, u, t))
  PROVE  net' \in SUBSET Message
  BY MsgType DEF Send, TypeOK

LEMMA TxIdsType == InviteTxId \in TxIds /\ 0 \in TxIds /\ \A t \in Tags : ServerTxId(t) \in TxIds
  BY CallAssumption DEF InviteTxId, ServerTxId, TxIds, Tags

DialogTypeOK ==
  /\ m_mDialogs \in [Agents -> [Tags -> {"none", "early", "confirmed", "complete"}]]
  /\ m_mIdMap \in [Agents -> [TxIds -> Tags \union {NoTag}]]
  /\ m_qTerminatedDialogs \in [Agents -> SUBSET Tags]

LEMMA UpdateType ==
  ASSUME NEW A, NEW B, NEW C, NEW f \in [A -> [B -> C]], NEW a \in A, NEW b \in B, NEW c \in C
  PROVE  [f EXCEPT ![a][b] = c] \in [A -> [B -> C]]
  OBVIOUS

LEMMA CreateType ==
  ASSUME TypeOK, NEW u \in Agents, NEW x \in TxIds, NEW t \in Tags,
         NEW d \in {"early", "confirmed"}, createDialog(u, x, t, d)
  PROVE  DialogTypeOK'
  BY DEF createDialog, DialogTypeOK, TypeOK

LEMMA TerminateType ==
  ASSUME TypeOK, NEW u \in Agents, NEW x \in TxIds, NEW t \in Tags, terminateDialogOfTx(u, x, t)
  PROVE  DialogTypeOK'
<1>1. /\ m_mDialogs' \in {m_mDialogs, [m_mDialogs EXCEPT ![u][t] = "none"]}
      /\ m_mIdMap' \in {m_mIdMap, [m_mIdMap EXCEPT ![u][x] = NoTag]}
      /\ m_qTerminatedDialogs' = m_qTerminatedDialogs
  BY DEF terminateDialogOfTx
<1>2. /\ [m_mDialogs EXCEPT ![u][t] = "none"] \in [Agents -> [Tags -> {"none", "early", "confirmed", "complete"}]]
      /\ [m_mIdMap EXCEPT ![u][x] = NoTag] \in [Agents -> [TxIds -> Tags \union {NoTag}]]
  BY UpdateType DEF TypeOK
<1> QED BY <1>1, <1>2 DEF DialogTypeOK, TypeOK

LEMMA HandleByeType ==
  ASSUME TypeOK, NEW u \in Agents, NEW t \in Tags, handleByeInDialog(u, t)
  PROVE  DialogTypeOK'
<1>1. /\ m_mDialogs' \in {m_mDialogs, [m_mDialogs EXCEPT ![u][t] = "none"]}
      /\ m_qTerminatedDialogs' \in {m_qTerminatedDialogs, [m_qTerminatedDialogs EXCEPT ![u] = @ \union {t}]}
      /\ m_mIdMap' = m_mIdMap
  BY DEF handleByeInDialog
<1>2. /\ [m_mDialogs EXCEPT ![u][t] = "none"] \in [Agents -> [Tags -> {"none", "early", "confirmed", "complete"}]]
      /\ [m_qTerminatedDialogs EXCEPT ![u] = @ \union {t}] \in [Agents -> SUBSET Tags]
  BY UpdateType DEF TypeOK
<1> QED BY <1>1, <1>2 DEF DialogTypeOK, TypeOK

LEMMA SendByesType ==
  ASSUME TypeOK, NEW u \in Agents, NEW S \in SUBSET Tags, SendByes(u, S)
  PROVE  /\ DialogTypeOK'
         /\ byeTx' \in [Agents -> [Tags -> {"none", "trying", "answered", "timed_out"}]]
         /\ net' \in SUBSET Message
<1>1. \A t \in S : Msg("BYE", u, t) \in Message
  BY MsgType DEF Kinds
<1>2. net' \in SUBSET Message
  BY <1>1 DEF SendByes, TypeOK
<1>3. DialogTypeOK'
  BY DEF SendByes, DialogTypeOK, TypeOK
<1>4. byeTx' \in [Agents -> [Tags -> {"none", "trying", "answered", "timed_out"}]]
  BY DEF SendByes, TypeOK
<1> QED BY <1>2, <1>3, <1>4

LEMMA AbortType ==
  ASSUME TypeOK, NEW u \in Agents, Abort(u)
  PROVE  aborted' \in SUBSET Agents
  BY DEF Abort

LEMMA InitTypeOK == Init => TypeOK
<1> SUFFICES ASSUME Init PROVE TypeOK
  OBVIOUS
<1>1. media \in [Agents -> BOOLEAN]
  BY DEF Init
<1>2. m_uiTxId \in [Agents -> TxIds] /\ m_mIdMap \in [Agents -> [TxIds -> Tags \union {NoTag}]]
  BY TxIdsType DEF Init
<1> QED BY <1>1, <1>2 DEF Init, TypeOK

\* The call's state keeps its type: every message sent is one of the protocol,
\* and every transaction id and tag is one that was given out.
THEOREM TypeCorrect == Spec => []TypeOK
<1>1. Init => TypeOK
  BY InitTypeOK
<1>2. TypeOK /\ [Next]_vars => TypeOK'
  <2> SUFFICES ASSUME TypeOK, [Next]_vars PROVE TypeOK'
    OBVIOUS
  <2> USE TxIdsType DEF Running, inviteVars, serverVars, byeVars, dialogVars, agentVars
  <2>a. "caller" \in Agents /\ "callee" \in Agents /\ \A u \in Agents : Peer(u) \in Agents
    BY DEF Agents, Peer
  <2>b. NoTag \in Tags \union {NoTag}
    OBVIOUS
  <2>1. CASE call
    <3>1. net' \in SUBSET Message
      BY <2>1, <2>a, <2>b, SendType DEF call, Kinds
    <3> QED BY <2>1, <3>1 DEF call, TypeOK
  <2>2. CASE inviteTimeout \/ inviteTxEnds
    BY <2>2 DEF inviteTimeout, inviteTxEnds, TypeOK
  <2>3. ASSUME NEW t \in Tags, NEW kind \in {"100", "180", "200", "486"}, onInviteResponse(kind, t)
        PROVE  TypeOK'
    <3>1. CASE provisionalResponse(kind, t)
      <4>1. DialogTypeOK'
        BY <3>1, <2>a, CreateType DEF provisionalResponse, DialogTypeOK, TypeOK
      <4> QED BY <2>3, <3>1, <4>1 DEF onInviteResponse, provisionalResponse, DialogTypeOK, TypeOK
    <3>2. CASE successResponse(t)
      <4>1. DialogTypeOK'
        <5>1. CASE /\ m_mDialogs' = [m_mDialogs EXCEPT !["caller"][t] = "confirmed"]
                   /\ UNCHANGED <<m_mIdMap, m_qTerminatedDialogs>>
          BY <5>1, <2>a, UpdateType DEF DialogTypeOK, TypeOK
        <5>2. CASE createDialog("caller", InviteTxId, t, "confirmed")
          BY <5>2, <2>a, CreateType
        <5> QED BY <3>2, <5>1, <5>2 DEF successResponse
      <4>2. net' \in SUBSET Message
        BY <3>2, <2>a, SendType DEF successResponse, Kinds
      <4>3. media' \in [Agents -> BOOLEAN]
        BY <3>2 DEF successResponse, TypeOK
      <4> QED BY <2>3, <3>2, <4>1, <4>2, <4>3 DEF onInviteResponse, successResponse, DialogTypeOK, TypeOK
    <3>3. CASE failureResponse(t)
      <4>1. DialogTypeOK'
        BY <3>3, <2>a, TerminateType DEF failureResponse
      <4>2. net' \in SUBSET Message
        BY <3>3, <2>a, SendType DEF failureResponse, Kinds
      <4> QED BY <2>3, <3>3, <4>1, <4>2 DEF onInviteResponse, failureResponse, DialogTypeOK, TypeOK
    <3>4. CASE responseInCompleted(t)
      <4>1. net' \in SUBSET Message
        BY <3>4, <2>a, SendType DEF responseInCompleted, Kinds
      <4> QED BY <2>3, <3>4, <4>1 DEF onInviteResponse, responseInCompleted, TypeOK
    <3> QED BY <2>3, <3>1, <3>2, <3>3, <3>4 DEF onInviteResponse
  <2>4. ASSUME NEW t \in Tags, completeInviteTransaction(t) PROVE TypeOK'
    BY <2>4 DEF completeInviteTransaction, TypeOK
  <2>5. CASE onInvite
    <3>1. net' \in SUBSET Message
      BY <2>5, <2>a, SendType DEF onInvite, Kinds
    <3> QED BY <2>5, <3>1 DEF onInvite, TypeOK
  <2>6. ASSUME NEW t \in Tags, ringing(t) PROVE TypeOK'
    <3>1. net' \in SUBSET Message
      BY <2>6, <2>a, SendType DEF ringing, Kinds
    <3> QED BY <2>6, <3>1 DEF ringing, TypeOK
  <2>7. ASSUME NEW t \in Tags, accept(t) PROVE TypeOK'
    <3>1. net' \in SUBSET Message
      BY <2>7, <2>a, SendType DEF accept, Kinds
    <3>2. DialogTypeOK'
      BY <2>7, <2>a, CreateType DEF accept
    <3>3. media' \in [Agents -> BOOLEAN]
      BY <2>7 DEF accept, TypeOK
    <3> QED BY <2>7, <3>1, <3>2, <3>3 DEF accept, DialogTypeOK, TypeOK
  <2>8. ASSUME NEW t \in Tags, reject(t) PROVE TypeOK'
    <3>1. net' \in SUBSET Message
      BY <2>8, <2>a, SendType DEF reject, Kinds
    <3> QED BY <2>8, <3>1 DEF reject, TypeOK
  <2>9. ASSUME NEW t \in Tags, serverTxEnds(t) PROVE TypeOK'
    BY <2>9 DEF serverTxEnds, TypeOK
  <2>10. ASSUME NEW t \in Tags, onAck(t) PROVE TypeOK'
    <3>1. aborted' \in SUBSET Agents
      BY <2>10, <2>a, AbortType DEF onAck, TypeOK
    <3>2. serverTx' \in [Tags -> {"none", "proceeding", "completed", "confirmed", "terminated"}]
      BY <2>10 DEF onAck, newAckTx, TypeOK
    <3>3. ackTx' \in [Tags \union {NoTag} -> {"none", "trying", "completed"}]
      BY <2>10, <2>b DEF onAck, newAckTx, TypeOK
    <3> QED BY <2>10, <3>1, <3>2, <3>3 DEF onAck, TypeOK
  <2>11. ASSUME NEW t \in Tags, onAck2xx(t) PROVE TypeOK'
    <3>1. aborted' \in SUBSET Agents
      BY <2>11, <2>a, AbortType DEF onAck2xx, TypeOK
    <3>2. /\ ackTx' \in [Tags \union {NoTag} -> {"none", "trying", "completed"}]
          /\ UNCHANGED serverTx
      BY <2>11 DEF onAck2xx, newAckTx, TypeOK
    <3> QED BY <2>11, <3>1, <3>2 DEF onAck2xx, TypeOK
  <2>12. ASSUME NEW branch \in Tags \union {NoTag}, ackTxEnds(branch) PROVE TypeOK'
    BY <2>12 DEF ackTxEnds, TypeOK
  <2>13. ASSUME NEW u \in Agents, hangup(u) PROVE TypeOK'
    <3>1. SessionDialog(u) \in SUBSET Tags
      BY DEF SessionDialog
    <3>2. media' \in [Agents -> BOOLEAN]
      BY <2>13 DEF hangup, TypeOK
    <3> QED BY <2>13, <3>1, <3>2, SendByesType DEF hangup, DialogTypeOK, TypeOK
  <2>14. ASSUME NEW u \in Agents, stop(u) PROVE TypeOK'
    <3>1. PICK S \in SUBSET Tags : SendByes(u, S)
      BY <2>14 DEF stop, SessionDialog, ActiveDialogs
    <3>2. media' \in [Agents -> BOOLEAN]
      <4>1. PICK b \in BOOLEAN : media' = [media EXCEPT ![u] = media[u] /\ ~b]
        BY <2>14 DEF stop
      <4> QED BY <4>1 DEF TypeOK
    <3> QED BY <2>14, <3>1, <3>2, SendByesType DEF stop, DialogTypeOK, TypeOK
  <2>15. ASSUME NEW u \in Agents, NEW t \in Tags, onBye(u, t) PROVE TypeOK'
    <3>1. net' \in SUBSET Message
      BY <2>15, SendType DEF onBye, ByeResponseKind, Kinds
    <3>2. media' \in [Agents -> BOOLEAN]
      BY <2>15 DEF onBye, TypeOK
    <3>3. DialogTypeOK'
      BY <2>15, HandleByeType DEF onBye
    <3> QED BY <2>15, <3>1, <3>2, <3>3 DEF onBye, CallOver, DialogTypeOK, TypeOK
  <2>16. ASSUME NEW u \in Agents, NEW t \in Tags, byeServerTxEnds(u, t) PROVE TypeOK'
    BY <2>16 DEF byeServerTxEnds, TypeOK
  <2>17. ASSUME NEW u \in Agents, NEW t \in Tags, onByeResponse(u, t) PROVE TypeOK'
    <3>1. DialogTypeOK'
      BY <2>17, TerminateType DEF onByeResponse
    <3> QED BY <2>17, <3>1 DEF onByeResponse, CallOver, DialogTypeOK, TypeOK
  <2>18. ASSUME NEW u \in Agents, NEW t \in Tags, byeTimeout(u, t) PROVE TypeOK'
    BY <2>18 DEF byeTimeout, TypeOK
  <2>19. CASE UNCHANGED vars
    BY <2>19 DEF vars, TypeOK
  <2> QED BY <2>1, <2>2, <2>3, <2>4, <2>5, <2>6, <2>7, <2>8, <2>9, <2>10, <2>11, <2>12, <2>13,
            <2>14, <2>15, <2>16, <2>17, <2>18, <2>19 DEF Next, Caller, Callee, Ending
<1> QED BY <1>1, <1>2, PTL DEF Spec

-----------------------------------------------------------------------------
\* Two messages are the same when their kinds, senders and tags are.
LEMMA MsgInjective ==
  ASSUME NEW k, NEW u, NEW t, NEW l, NEW v, NEW r
  PROVE  Msg(k, u, t) = Msg(l, v, r) <=> k = l /\ u = v /\ t = r
  BY DEF Msg

\* Sending a message that is no final response of the callee to the INVITE.
LEMMA OtherMessage ==
  ASSUME NEW k \in Kinds \ {"200", "486"}, NEW u, NEW r, Send(Msg(k, u, r))
  PROVE  /\ net \subseteq net'
         /\ \A t : Msg("200", "callee", t) \in net' <=> Msg("200", "callee", t) \in net
         /\ \A t : Msg("486", "callee", t) \in net' <=> Msg("486", "callee", t) \in net
  BY MsgInjective DEF Send

SameFinals ==
  /\ net \subseteq net'
  /\ \A t \in Tags :
       /\ Msg("200", "callee", t) \in net' <=> Msg("200", "callee", t) \in net
       /\ Msg("486", "callee", t) \in net' <=> Msg("486", "callee", t) \in net

Answered == {"completed", "confirmed", "terminated"}

ServerTxKept ==
  \A t \in Tags :
    /\ serverTx[t] = "terminated" => serverTx'[t] = "terminated"
    /\ serverTx[t] \in Answered => serverTx'[t] \in Answered

\* A step other than the callee's answer keeps the invariant when the dialogs
\* that it makes were answered, and it drops none at the callee without a BYE.
LEMMA OtherStep ==
  ASSUME CallInv, TypeOK', SameFinals, ServerTxKept,
         \A t \in Tags :
           /\ m_mDialogs'["callee"][t] # "none" => m_mDialogs["callee"][t] # "none"
           /\ m_mDialogs'["caller"][t] = "confirmed" => Msg("200", "callee", t) \in net
           /\ \/ m_mDialogs'["callee"][t] \in {m_mDialogs["callee"][t], "confirmed", "complete"}
              \/ HungUp("caller", t) \/ HungUp("callee", t),
         ByesSent', OutcomeEnds', InCallHasSome'
  PROVE  CallInv'
<1>1. AnsweredOnce'
  <2> SUFFICES ASSUME NEW t \in Tags
               PROVE  /\ Msg("200", "callee", t) \in net' =>
                           serverTx'[t] = "terminated" /\ Msg("486", "callee", t) \notin net'
                      /\ Msg("486", "callee", t) \in net' => serverTx'[t] \in Answered
    BY DEF AnsweredOnce, Answered, Msg
  <2> QED BY DEF CallInv, AnsweredOnce, SameFinals, ServerTxKept, Answered
<1>2. DialogsAnswered'
  BY DEF CallInv, DialogsAnswered, SameFinals
<1>3. AnswersStand'
  BY DEF CallInv, AnswersStand, SameFinals, HungUp
<1> QED BY <1>1, <1>2, <1>3 DEF CallInv

\* The same for a step that leaves the callee, the BYEs and the agents' states
\* alone.
LEMMA QuietStep ==
  ASSUME CallInv, TypeOK', SameFinals, ServerTxKept, OutcomeEnds',
         UNCHANGED <<byeTx, m_mDialogs, m_eState>>
  PROVE  CallInv'
<1>1. ByesSent'
  BY DEF CallInv, ByesSent, HungUp, SameFinals
<1>2. InCallHasSome'
  BY DEF CallInv, InCallHasSome
<1>3. \A t \in Tags : m_mDialogs["caller"][t] = "confirmed" => Msg("200", "callee", t) \in net
  BY DEF CallInv, DialogsAnswered
<1> QED BY <1>1, <1>2, <1>3, OtherStep

LEMMA InvInductive ==
  ASSUME CallInv, TypeOK', [Next]_vars
  PROVE  CallInv'
<1> USE DEF Running, inviteVars, serverVars, byeVars, dialogVars, agentVars
<1>a. "caller" \in Agents /\ "callee" \in Agents /\ "caller" # "callee"
  BY DEF Agents
<1>b. TypeOK
  BY DEF CallInv
<1>1. CASE call
  <2>1. SameFinals
    BY <1>1, OtherMessage DEF call, SameFinals, Kinds
  <2>2. InCallHasSome'
    BY <1>1, <1>a, <1>b DEF call, CallInv, InCallHasSome, TypeOK
  <2>3. ByesSent' /\ ServerTxKept /\ OutcomeEnds'
    BY <1>1, <2>1 DEF call, CallInv, ByesSent, HungUp, SameFinals, ServerTxKept, OutcomeEnds
  <2>4. \A t \in Tags : m_mDialogs["caller"][t] = "confirmed" => Msg("200", "callee", t) \in net
    BY DEF CallInv, DialogsAnswered
  <2> QED BY <1>1, <2>1, <2>2, <2>3, <2>4, OtherStep DEF call
<1>2. CASE inviteTimeout \/ inviteTxEnds
  <2>1. SameFinals /\ ServerTxKept
    BY <1>2 DEF inviteTimeout, inviteTxEnds, SameFinals, ServerTxKept
  <2>2. OutcomeEnds'
    BY <1>2 DEF inviteTimeout, inviteTxEnds, CallInv, OutcomeEnds
  <2> QED BY <1>2, <2>1, <2>2, QuietStep DEF inviteTimeout, inviteTxEnds
<1>3. ASSUME NEW r \in Tags, NEW kind \in {"100", "180", "200", "486"}, onInviteResponse(kind, r)
      PROVE  CallInv'
  <2>1. ServerTxKept
    BY <1>3 DEF onInviteResponse, ServerTxKept
  <2>2. SameFinals
    BY <1>3, OtherMessage DEF onInviteResponse, provisionalResponse, successResponse,
                              failureResponse, responseInCompleted, SameFinals, Kinds
  <2>3. ByesSent'
    BY <1>3, <2>2 DEF onInviteResponse, CallInv, ByesSent, HungUp, SameFinals
  <2>4. OutcomeEnds'
    BY <1>3 DEF onInviteResponse, provisionalResponse, successResponse, AwaitsResponse,
                failureResponse, responseInCompleted, CallInv, OutcomeEnds
  <2>5. \A t \in Tags : m_mDialogs["caller"][t] = "confirmed" => Msg("200", "callee", t) \in net
    BY DEF CallInv, DialogsAnswered
  <2>6. /\ m_mDialogs'["callee"] = m_mDialogs["callee"]
        /\ \A t \in Tags : m_mDialogs'["caller"][t] = "confirmed" => Msg("200", "callee", t) \in net
    <3>1. CASE kind = "200" /\ successResponse(r)
      BY <1>3, <3>1, <1>a, <1>b, <2>5 DEF onInviteResponse, successResponse, createDialog, TypeOK
    <3>2. CASE provisionalResponse(kind, r)
      BY <3>2, <1>a, <1>b, <2>5 DEF provisionalResponse, createDialog, TypeOK
    <3>3. CASE failureResponse(r)
      BY <3>3, <1>a, <1>b, <2>5 DEF failureResponse, terminateDialogOfTx, TypeOK
    <3>4. CASE responseInCompleted(r)
      BY <3>4, <2>5 DEF responseInCompleted
    <3> QED BY <1>3, <3>1, <3>2, <3>3, <3>4 DEF onInviteResponse
  <2>7. InCallHasSome'
    <3>1. CASE successResponse(r)
      <4>1. m_mDialogs'["caller"][r] = "confirmed"
        BY <3>1, <1>a, <1>b DEF successResponse, createDialog, TypeOK
      <4>2. m_eState'["callee"] = m_eState["callee"]
        BY <3>1, <1>a, <1>b DEF successResponse, TypeOK
      <4> QED BY <4>1, <4>2, <2>6, <1>a DEF CallInv, InCallHasSome, Agents
    <3>2. CASE provisionalResponse(kind, r)
      <4>1. \A t \in Tags : m_mDialogs["caller"][t] # "none" => m_mDialogs'["caller"][t] # "none"
        BY <3>2, <1>a, <1>b DEF provisionalResponse, createDialog, TypeOK
      <4> QED BY <3>2, <4>1, <2>6, <1>a DEF provisionalResponse, CallInv, InCallHasSome, Agents
    <3>3. CASE failureResponse(r)
      <4>1. m_eState'["caller"] = "SA_INIT" /\ m_eState'["callee"] = m_eState["callee"]
        BY <3>3, <1>a, <1>b DEF failureResponse, TypeOK
      <4> QED BY <4>1, <2>6, <1>a DEF CallInv, InCallHasSome, Agents
    <3>4. CASE responseInCompleted(r)
      BY <3>4 DEF responseInCompleted, CallInv, InCallHasSome
    <3> QED BY <1>3, <3>1, <3>2, <3>3, <3>4 DEF onInviteResponse
  <2> QED BY <2>1, <2>2, <2>3, <2>4, <2>6, <2>7, OtherStep
<1>4. ASSUME NEW r \in Tags, completeInviteTransaction(r) PROVE CallInv'
  <2>1. SameFinals /\ ServerTxKept /\ OutcomeEnds'
    BY <1>4 DEF completeInviteTransaction, SameFinals, ServerTxKept, CallInv, OutcomeEnds
  <2> QED BY <1>4, <2>1, QuietStep DEF completeInviteTransaction
<1>5. CASE onInvite
  <2>1. SameFinals
    BY <1>5, OtherMessage DEF onInvite, SameFinals, Kinds
  <2>2. ServerTxKept
    BY <1>5, <1>b DEF onInvite, ServerTxKept, Answered, TypeOK
  <2> QED BY <1>5, <2>1, <2>2, QuietStep DEF onInvite, CallInv, OutcomeEnds
<1>6. ASSUME NEW r \in Tags, ringing(r) PROVE CallInv'
  <2>1. SameFinals
    BY <1>6, OtherMessage DEF ringing, SameFinals, Kinds
  <2> QED BY <1>6, <2>1, QuietStep DEF ringing, ServerTxKept, CallInv, OutcomeEnds
<1>7. ASSUME NEW r \in Tags, accept(r) PROVE CallInv'
  <2>1. /\ net' = net \union {Msg("200", "callee", r)}
        /\ Msg("486", "callee", r) \notin net
        /\ serverTx' = [serverTx EXCEPT ![r] = "terminated"]
    BY <1>7 DEF accept, Send, CallInv, AnsweredOnce
  <2>2. \A t \in Tags :
          /\ Msg("200", "callee", t) \in net' <=> Msg("200", "callee", t) \in net \/ t = r
          /\ Msg("486", "callee", t) \in net' <=> Msg("486", "callee", t) \in net
          /\ \A u \in Agents : HungUp(u, t) => HungUp(u, t)'
    BY <2>1, MsgInjective DEF HungUp
  <2>3. /\ m_mDialogs'["caller"] = m_mDialogs["caller"]
        /\ m_mDialogs'["callee"] = [m_mDialogs["callee"] EXCEPT ![r] = "confirmed"]
    BY <1>7, <1>a, <1>b DEF accept, createDialog, TypeOK
  <2>4. AnsweredOnce'
    <3> SUFFICES ASSUME NEW t \in Tags
                 PROVE  /\ Msg("200", "callee", t) \in net' =>
                             serverTx'[t] = "terminated" /\ Msg("486", "callee", t) \notin net'
                        /\ Msg("486", "callee", t) \in net' => serverTx'[t] \in Answered
      BY DEF AnsweredOnce, Answered, Msg
    <3> QED BY <2>1, <2>2, <1>b DEF CallInv, AnsweredOnce, Answered, TypeOK
  <2>5. DialogsAnswered'
    <3> SUFFICES ASSUME NEW t \in Tags,
                        m_mDialogs'["callee"][t] # "none" \/ m_mDialogs'["caller"][t] = "confirmed"
                 PROVE  Msg("200", "callee", t) \in net'
      BY DEF DialogsAnswered, Msg
    <3> QED BY <2>2, <2>3, <1>a, <1>b DEF CallInv, DialogsAnswered, TypeOK
  <2>6. AnswersStand'
    <3> SUFFICES ASSUME NEW t \in Tags, Msg("200", "callee", t) \in net'
                 PROVE  \/ m_mDialogs'["callee"][t] \in {"confirmed", "complete"}
                        \/ HungUp("caller", t)' \/ HungUp("callee", t)'
      BY DEF AnswersStand, Msg
    <3> QED BY <2>2, <2>3, <1>a, <1>b DEF CallInv, AnswersStand, TypeOK
  <2>7. ByesSent' /\ OutcomeEnds'
    BY <1>7, <2>2 DEF accept, CallInv, ByesSent, OutcomeEnds
  <2>8. InCallHasSome'
    <3>1. m_eState'["caller"] = m_eState["caller"]
      BY <1>7, <1>a, <1>b DEF accept, TypeOK
    <3>2. m_mDialogs'["callee"][r] = "confirmed"
      BY <2>3, <1>a, <1>b DEF TypeOK
    <3> QED BY <3>1, <3>2, <2>3, <1>a DEF CallInv, InCallHasSome, Agents
  <2> QED BY <2>4, <2>5, <2>6, <2>7, <2>8 DEF CallInv
<1>8. ASSUME NEW r \in Tags, reject(r) PROVE CallInv'
  <2>1. /\ net' = net \union {Msg("486", "callee", r)}
        /\ Msg("200", "callee", r) \notin net
        /\ serverTx' = [serverTx EXCEPT ![r] = "completed"]
        /\ serverTx[r] = "proceeding"
    BY <1>8 DEF reject, Send, CallInv, AnsweredOnce
  <2>2. \A t \in Tags :
          /\ Msg("200", "callee", t) \in net' <=> Msg("200", "callee", t) \in net
          /\ Msg("486", "callee", t) \in net' <=> Msg("486", "callee", t) \in net \/ t = r
          /\ \A u \in Agents : HungUp(u, t) => HungUp(u, t)'
    BY <2>1, MsgInjective DEF HungUp
  <2>3. AnsweredOnce'
    <3> SUFFICES ASSUME NEW t \in Tags
                 PROVE  /\ Msg("200", "callee", t) \in net' =>
                             serverTx'[t] = "terminated" /\ Msg("486", "callee", t) \notin net'
                        /\ Msg("486", "callee", t) \in net' => serverTx'[t] \in Answered
      BY DEF AnsweredOnce, Answered, Msg
    <3> QED BY <2>1, <2>2, <1>b DEF CallInv, AnsweredOnce, Answered, TypeOK
  <2>4. UNCHANGED m_mDialogs
    BY <1>8 DEF reject
  <2>5. DialogsAnswered' /\ AnswersStand'
    BY <2>2, <2>4, <1>a DEF CallInv, DialogsAnswered, AnswersStand, Msg
  <2>6. ByesSent' /\ OutcomeEnds'
    BY <1>8, <2>2 DEF reject, CallInv, ByesSent, OutcomeEnds
  <2>7. InCallHasSome'
    <3>1. m_eState'["callee"] = "SA_INIT" /\ m_eState'["caller"] = m_eState["caller"]
      BY <1>8, <1>a, <1>b DEF reject, TypeOK
    <3> QED BY <3>1, <2>4, <1>a DEF CallInv, InCallHasSome, Agents
  <2> QED BY <2>3, <2>5, <2>6, <2>7 DEF CallInv
<1>9. ASSUME NEW r \in Tags, serverTxEnds(r) PROVE CallInv'
  <2>1. ServerTxKept
    BY <1>9, <1>b DEF serverTxEnds, ServerTxKept, Answered, TypeOK
  <2> QED BY <1>9, <2>1, QuietStep DEF serverTxEnds, SameFinals, CallInv, OutcomeEnds
<1>10. ASSUME NEW r \in Tags, onAck(r) PROVE CallInv'
  <2>1. ServerTxKept
    BY <1>10, <1>b DEF onAck, newAckTx, ServerTxKept, Answered, TypeOK
  <2> QED BY <1>10, <2>1, QuietStep DEF onAck, SameFinals, CallInv, OutcomeEnds
<1>11. ASSUME NEW r \in Tags, onAck2xx(r) PROVE CallInv'
  <2>1. ServerTxKept
    BY <1>11 DEF onAck2xx, newAckTx, ServerTxKept
  <2> QED BY <1>11, <2>1, QuietStep DEF onAck2xx, SameFinals, CallInv, OutcomeEnds
<1>12. ASSUME NEW branch \in Tags \union {NoTag}, ackTxEnds(branch) PROVE CallInv'
  BY <1>12, QuietStep DEF ackTxEnds, SameFinals, ServerTxKept, CallInv, OutcomeEnds
<1>13. ASSUME NEW u \in Agents, NEW S \in SUBSET Tags, SendByes(u, S),
              \A t \in S : m_mDialogs[u][t] # "none",
              UNCHANGED <<inviteVars, serverVars, m_eState>>
       PROVE  CallInv'
  <2>1. SameFinals
    BY <1>13, MsgInjective DEF SendByes, SameFinals
  <2>2. /\ m_mDialogs'[u] = [t \in Tags |-> IF t \in S THEN "complete" ELSE m_mDialogs[u][t]]
        /\ \A v \in Agents \ {u} : m_mDialogs'[v] = m_mDialogs[v]
    BY <1>13, <1>b DEF SendByes, TypeOK
  <2>3. ByesSent'
    <3> SUFFICES ASSUME NEW v \in Agents, NEW t \in Tags, byeTx'[v][t] = "trying"
                 PROVE  Msg("BYE", v, t) \in net'
      BY DEF ByesSent, HungUp, Msg
    <3>1. CASE v = u /\ t \in S
      BY <1>13, <3>1 DEF SendByes
    <3>2. CASE byeTx'[v][t] = byeTx[v][t]
      BY <3>2, <2>1 DEF SameFinals, CallInv, ByesSent, HungUp
    <3>3. byeTx'[v][t] = byeTx[v][t] \/ (v = u /\ t \in S)
      BY <1>13, <1>b DEF SendByes, TypeOK
    <3> QED BY <3>1, <3>2, <3>3
  <2>4. InCallHasSome'
    <3>1. \A v \in Agents, t \in Tags : m_mDialogs[v][t] # "none" => m_mDialogs'[v][t] # "none"
      BY <2>2
    <3> QED BY <1>13, <3>1 DEF CallInv, InCallHasSome
  <2>5. OutcomeEnds' /\ ServerTxKept
    BY <1>13 DEF CallInv, OutcomeEnds, ServerTxKept
  <2>6. \A t \in Tags :
          /\ m_mDialogs'["callee"][t] # "none" => m_mDialogs["callee"][t] # "none"
          /\ m_mDialogs'["caller"][t] = "confirmed" => m_mDialogs["caller"][t] = "confirmed"
          /\ m_mDialogs'["callee"][t] \in {m_mDialogs["callee"][t], "complete"}
    BY <1>13, <2>2, <1>a
  <2>7. \A t \in Tags : m_mDialogs["caller"][t] = "confirmed" => Msg("200", "callee", t) \in net
    BY DEF CallInv, DialogsAnswered
  <2> QED BY <2>1, <2>3, <2>4, <2>5, <2>6, <2>7, OtherStep
<1>14. ASSUME NEW u \in Agents, hangup(u) \/ stop(u) PROVE CallInv'
  <2>1. \A t \in SessionDialog(u) \union ActiveDialogs(u) : m_mDialogs[u][t] # "none"
    BY DEF SessionDialog, ActiveDialogs, dialogExists
  <2>2. PICK S \in SUBSET Tags : SendByes(u, S) /\ \A t \in S : m_mDialogs[u][t] # "none"
    BY <1>14, <2>1 DEF hangup, stop, SessionDialog, ActiveDialogs
  <2> QED BY <1>13, <1>14, <2>2 DEF hangup, stop
<1>15. ASSUME NEW u \in Agents, NEW r \in Tags, onBye(u, r) PROVE CallInv'
  <2>1. SameFinals
    BY <1>15, OtherMessage DEF onBye, ByeResponseKind, SameFinals, Kinds
  <2>2. \A v \in Agents, t \in Tags :
          m_mDialogs'[v][t] = IF v = u /\ t = r THEN "none" ELSE m_mDialogs[v][t]
    <3>1. r # NoTag
      BY DEF NoTag, Tags
    <3>2. m_mDialogs' = [m_mDialogs EXCEPT ![u][r] = "none"] \/ (m_mDialogs' = m_mDialogs /\ m_mDialogs[u][r] = "none")
      BY <1>15, <3>1 DEF onBye, handleByeInDialog, dialogExists
    <3> QED BY <3>2, <1>b DEF TypeOK
  <2>3. HungUp("caller", r) \/ HungUp("callee", r)
    BY <1>15 DEF onBye, HungUp, Peer, Agents
  <2>4. InCallHasSome'
    <3>1. \A v \in Agents : m_eState'[v] = IF v = u THEN "SA_INIT" ELSE m_eState[v]
      BY <1>15, <1>b DEF onBye, CallOver, TypeOK
    <3> QED BY <3>1, <2>2 DEF CallInv, InCallHasSome
  <2>5. ByesSent' /\ OutcomeEnds' /\ ServerTxKept
    BY <1>15, <2>1 DEF onBye, CallInv, ByesSent, HungUp, SameFinals, OutcomeEnds, ServerTxKept
  <2>6. \A t \in Tags : m_mDialogs["caller"][t] = "confirmed" => Msg("200", "callee", t) \in net
    BY DEF CallInv, DialogsAnswered
  <2> QED BY <2>1, <2>2, <2>3, <2>4, <2>5, <2>6, <1>a, OtherStep
<1>16. ASSUME NEW u \in Agents, NEW r \in Tags, byeServerTxEnds(u, r) PROVE CallInv'
  BY <1>16, QuietStep DEF byeServerTxEnds, SameFinals, ServerTxKept, CallInv, OutcomeEnds
<1>17. ASSUME NEW u \in Agents, NEW r \in Tags, onByeResponse(u, r) PROVE CallInv'
  <2>1. SameFinals
    BY <1>17 DEF onByeResponse, SameFinals
  <2>2. \A v \in Agents, t \in Tags :
          m_mDialogs'[v][t] = IF v = u /\ t = r THEN "none" ELSE m_mDialogs[v][t]
    <3>1. r # NoTag
      BY DEF NoTag, Tags
    <3>2. m_mDialogs' = [m_mDialogs EXCEPT ![u][r] = "none"] \/ (m_mDialogs' = m_mDialogs /\ m_mDialogs[u][r] = "none")
      BY <1>17, <3>1 DEF onByeResponse, terminateDialogOfTx, dialogExists
    <3> QED BY <3>2, <1>b DEF TypeOK
  <2>3. HungUp("caller", r) \/ HungUp("callee", r)
    BY <1>17 DEF onByeResponse, CallInv, ByesSent, Agents
  <2>4. InCallHasSome'
    <3>1. \A v \in Agents : m_eState'[v] = IF v = u THEN "SA_INIT" ELSE m_eState[v]
      BY <1>17, <1>b DEF onByeResponse, CallOver, TypeOK
    <3> QED BY <3>1, <2>2 DEF CallInv, InCallHasSome
  <2>5. ByesSent'
    <3>1. \A v \in Agents, t \in Tags : byeTx'[v][t] = "trying" => byeTx[v][t] = "trying"
      BY <1>17, <1>b DEF onByeResponse, TypeOK
    <3> QED BY <3>1, <2>1 DEF CallInv, ByesSent, HungUp, SameFinals
  <2>6. OutcomeEnds' /\ ServerTxKept
    BY <1>17 DEF onByeResponse, CallInv, OutcomeEnds, ServerTxKept
  <2>7. \A t \in Tags : m_mDialogs["caller"][t] = "confirmed" => Msg("200", "callee", t) \in net
    BY DEF CallInv, DialogsAnswered
  <2> QED BY <2>1, <2>2, <2>3, <2>4, <2>5, <2>6, <2>7, <1>a, OtherStep
<1>18. ASSUME NEW u \in Agents, NEW r \in Tags, byeTimeout(u, r) PROVE CallInv'
  <2>1. SameFinals /\ ServerTxKept /\ OutcomeEnds' /\ InCallHasSome'
    BY <1>18 DEF byeTimeout, SameFinals, ServerTxKept, CallInv, OutcomeEnds, InCallHasSome
  <2>2. ByesSent'
    <3>1. \A v \in Agents, t \in Tags : byeTx'[v][t] = "trying" => byeTx[v][t] = "trying"
      BY <1>18, <1>b DEF byeTimeout, TypeOK
    <3> QED BY <3>1, <2>1 DEF CallInv, ByesSent, HungUp, SameFinals
  <2>3. \A t \in Tags : m_mDialogs["caller"][t] = "confirmed" => Msg("200", "callee", t) \in net
    BY DEF CallInv, DialogsAnswered
  <2>4. UNCHANGED m_mDialogs
    BY <1>18 DEF byeTimeout
  <2> QED BY <2>1, <2>2, <2>3, <2>4, OtherStep
<1>19. CASE UNCHANGED vars
  BY <1>19, QuietStep DEF vars, SameFinals, ServerTxKept, CallInv, OutcomeEnds
<1> QED BY <1>1, <1>2, <1>3, <1>4, <1>5, <1>6, <1>7, <1>8, <1>9, <1>10, <1>11, <1>12, <1>14,
          <1>15, <1>16, <1>17, <1>18, <1>19 DEF Next, Caller, Callee, Ending

LEMMA CallInvHolds == Spec => []CallInv
<1>1. Init => CallInv
  <2> SUFFICES ASSUME Init, TypeOK PROVE CallInv
    BY InitTypeOK
  <2>1. AnsweredOnce /\ AnswersStand
    BY DEF Init, AnsweredOnce, AnswersStand
  <2>2. DialogsAnswered /\ InCallHasSome
    BY DEF Init, DialogsAnswered, InCallHasSome, Agents
  <2>3. ByesSent /\ OutcomeEnds
    BY DEF Init, ByesSent, OutcomeEnds
  <2> QED BY <2>1, <2>2, <2>3 DEF CallInv
<1>2. TypeOK' /\ CallInv /\ [Next]_vars => CallInv'
  BY InvInductive
<1> QED BY <1>1, <1>2, TypeCorrect, PTL DEF Spec

-----------------------------------------------------------------------------
(* What both sides hold of an acknowledged call.                           *)

Ended(t) == HungUp("caller", t) \/ HungUp("callee", t)

\* An acknowledged 2xx was sent, has ended the INVITE transaction, and its dialog
\* stays at the caller until a BYE ends it.
AckedStand ==
  \A t \in Tags :
    Acknowledged(t) => /\ told = "success" /\ Msg("200", "callee", t) \in net
                       /\ Established("caller", t) \/ Ended(t)

\* The callee makes no early dialogs.
CalleeNotEarly == \A t \in Tags : m_mDialogs["callee"][t] # "early"

\* The caller is in a call that it has acknowledged.
CallerInCall ==
  m_eState["caller"] = "SA_CALL_IN_PROGRESS" =>
    \E t \in Tags : Acknowledged(t) /\ Established("caller", t)

SharedInv == AckedStand /\ CalleeNotEarly /\ CallerInCall

\* A step that sends no ACK of a 2xx keeps what is shared, when the caller loses an
\* established dialog only after a BYE and leaves the call with it.
LEMMA SharedKept ==
  ASSUME SharedInv, net \subseteq net', told' = told,
         \A t \in Tags : Acknowledged(t)' => Acknowledged(t),
         \A t \in Tags : Established("caller", t) => Established("caller", t)' \/ Ended(t),
         CalleeNotEarly',
         m_eState'["caller"] = "SA_CALL_IN_PROGRESS" =>
           /\ m_eState["caller"] = "SA_CALL_IN_PROGRESS"
           /\ \A t \in Tags : Established("caller", t) => Established("caller", t)'
  PROVE  SharedInv'
<1>0. \A t \in Tags : (Acknowledged(t) => Acknowledged(t)') /\ (Ended(t) => Ended(t)')
  BY DEF Acknowledged, Ended, HungUp, Msg
<1>1. AckedStand'
  <2> SUFFICES ASSUME NEW t \in Tags, Acknowledged(t)'
               PROVE  /\ told' = "success" /\ Msg("200", "callee", t) \in net'
                      /\ Established("caller", t)' \/ Ended(t)'
    BY DEF AckedStand, Msg
  <2>1. /\ told = "success" /\ Msg("200", "callee", t) \in net
        /\ Established("caller", t) \/ Ended(t)
    BY DEF SharedInv, AckedStand
  <2> QED BY <2>1, <1>0
<1>2. CallerInCall'
  <2> SUFFICES ASSUME m_eState'["caller"] = "SA_CALL_IN_PROGRESS"
               PROVE  \E t \in Tags : Acknowledged(t)' /\ Established("caller", t)'
    BY DEF CallerInCall
  <2>1. PICK t \in Tags : Acknowledged(t) /\ Established("caller", t)
    BY DEF SharedInv, CallerInCall
  <2> QED BY <2>1, <1>0
<1> QED BY <1>1, <1>2 DEF SharedInv

LEMMA NoAckSent ==
  ASSUME NEW k \in Kinds \ {"ACK2xx"}, NEW u, NEW r, Send(Msg(k, u, r))
  PROVE  net \subseteq net' /\ \A t \in Tags : Acknowledged(t)' => Acknowledged(t)
<1>1. net' = net \union {Msg(k, u, r)} /\ \A t : Msg("ACK2xx", "caller", t) # Msg(k, u, r)
  BY MsgInjective DEF Send
<1> QED BY <1>1 DEF Acknowledged, Msg

\* A step that leaves the caller's outcome, its state and all dialogs alone.
LEMMA SharedUnchanged ==
  ASSUME SharedInv, net \subseteq net', UNCHANGED <<told, m_mDialogs>>,
         \A t \in Tags : Acknowledged(t)' => Acknowledged(t),
         m_eState'["caller"] \in {m_eState["caller"], "SA_INIT", "SA_DIALING_OR_RINGING"}
  PROVE  SharedInv'
<1>1. \A t \in Tags : Established("caller", t) => Established("caller", t)'
  BY DEF Established
<1>2. CalleeNotEarly'
  BY DEF SharedInv, CalleeNotEarly
<1> QED BY <1>1, <1>2, SharedKept

LEMMA SharedStep ==
  ASSUME CallInv, SharedInv, [Next]_vars
  PROVE  SharedInv'
<1> USE DEF Running, inviteVars, serverVars, byeVars, dialogVars, agentVars
<1>a. "caller" \in Agents /\ "callee" \in Agents /\ "caller" # "callee"
  BY DEF Agents
<1>b. TypeOK
  BY DEF CallInv
<1>n. net' = net => net \subseteq net' /\ \A t \in Tags : Acknowledged(t)' => Acknowledged(t)
  BY DEF Acknowledged, Msg
<1>1. CASE call
  <2>1. m_eState'["caller"] = "SA_DIALING_OR_RINGING"
    BY <1>1, <1>a, <1>b DEF call, TypeOK
  <2> QED BY <1>1, <2>1, NoAckSent, SharedUnchanged DEF call, Kinds
<1>2. CASE inviteTimeout \/ inviteTxEnds
  BY <1>2, <1>n, SharedUnchanged DEF inviteTimeout, inviteTxEnds
<1>3. ASSUME NEW r \in Tags, NEW kind \in {"100", "180", "200", "486"}, onInviteResponse(kind, r)
      PROVE  SharedInv'
  <2>1. CASE responseInCompleted(r)
    BY <2>1, NoAckSent, SharedUnchanged DEF responseInCompleted, Kinds
  <2>2. AwaitsResponse => (\A t \in Tags : ~Acknowledged(t)) /\ m_eState["caller"] # "SA_CALL_IN_PROGRESS"
    <3>1. AwaitsResponse => told = "none"
      BY <1>b DEF CallInv, OutcomeEnds, AwaitsResponse, TypeOK
    <3> QED BY <3>1 DEF SharedInv, AckedStand, CallerInCall
  <2>3. CASE provisionalResponse(kind, r)
    <3>1. /\ \A t \in Tags : ~Acknowledged(t)'
          /\ m_eState'["caller"] # "SA_CALL_IN_PROGRESS"
      BY <2>2, <2>3 DEF provisionalResponse, Acknowledged, Msg
    <3>2. m_mDialogs'["callee"] = m_mDialogs["callee"]
      BY <2>3, <1>a, <1>b DEF provisionalResponse, createDialog, TypeOK
    <3> QED BY <3>1, <3>2 DEF SharedInv, AckedStand, CalleeNotEarly, CallerInCall
  <2>4. CASE failureResponse(r)
    <3>1. \A t \in Tags : ~Acknowledged(t)'
      BY <2>2, <2>4, NoAckSent DEF failureResponse, Kinds
    <3>2. m_eState'["caller"] = "SA_INIT"
      BY <2>4, <1>a, <1>b DEF failureResponse, TypeOK
    <3>3. m_mDialogs'["callee"] = m_mDialogs["callee"]
      BY <2>4, <1>a, <1>b DEF failureResponse, terminateDialogOfTx, TypeOK
    <3> QED BY <3>1, <3>2, <3>3 DEF SharedInv, AckedStand, CalleeNotEarly, CallerInCall
  <2>5. CASE kind = "200" /\ successResponse(r)
    <3>1. /\ net' = net \union {Msg("ACK2xx", "caller", r)} /\ Msg("200", "callee", r) \in net
          /\ told' = "success"
      BY <1>3, <2>5 DEF onInviteResponse, successResponse, Send
    <3>2. \A t \in Tags : Acknowledged(t)' <=> t = r
      BY <2>2, <2>5, <3>1, MsgInjective DEF Acknowledged, successResponse
    <3>3. /\ m_mDialogs'["caller"][r] = "confirmed"
          /\ m_mDialogs'["callee"] = m_mDialogs["callee"]
      BY <2>5, <1>a, <1>b DEF successResponse, createDialog, TypeOK
    <3>4. AckedStand'
      <4> SUFFICES ASSUME NEW t \in Tags, Acknowledged(t)'
                   PROVE  /\ told' = "success" /\ Msg("200", "callee", t) \in net'
                          /\ Established("caller", t)' \/ Ended(t)'
        BY DEF AckedStand, Msg
      <4> QED BY <3>1, <3>2, <3>3 DEF Established
    <3>5. CallerInCall'
      BY <3>2, <3>3 DEF CallerInCall, Established
    <3>6. CalleeNotEarly'
      BY <3>3 DEF SharedInv, CalleeNotEarly
    <3> QED BY <3>4, <3>5, <3>6 DEF SharedInv
  <2> QED BY <1>3, <2>1, <2>3, <2>4, <2>5 DEF onInviteResponse
<1>4. ASSUME NEW r \in Tags, completeInviteTransaction(r) PROVE SharedInv'
  BY <1>4, <1>n, SharedUnchanged DEF completeInviteTransaction
<1>5. CASE onInvite
  BY <1>5, NoAckSent, SharedUnchanged DEF onInvite, Kinds
<1>6. ASSUME NEW r \in Tags, ringing(r) PROVE SharedInv'
  BY <1>6, NoAckSent, SharedUnchanged DEF ringing, Kinds
<1>7. ASSUME NEW r \in Tags, accept(r) PROVE SharedInv'
  <2>1. /\ m_mDialogs'["caller"] = m_mDialogs["caller"]
        /\ \A t \in Tags : m_mDialogs'["callee"][t] \in {m_mDialogs["callee"][t], "confirmed"}
        /\ m_eState'["caller"] = m_eState["caller"]
    BY <1>7, <1>a, <1>b DEF accept, createDialog, TypeOK
  <2>2. CalleeNotEarly'
    BY <2>1 DEF SharedInv, CalleeNotEarly
  <2>3. \A t \in Tags : Established("caller", t) => Established("caller", t)'
    BY <2>1 DEF Established
  <2>4. net \subseteq net' /\ \A t \in Tags : Acknowledged(t)' => Acknowledged(t)
    BY <1>7, NoAckSent DEF accept, Kinds
  <2> QED BY <1>7, <2>1, <2>2, <2>3, <2>4, SharedKept DEF accept
<1>8. ASSUME NEW r \in Tags, reject(r) PROVE SharedInv'
  <2>1. m_eState'["caller"] = m_eState["caller"]
    BY <1>8, <1>a, <1>b DEF reject, TypeOK
  <2> QED BY <1>8, <2>1, NoAckSent, SharedUnchanged DEF reject, Kinds
<1>9. ASSUME NEW r \in Tags, serverTxEnds(r) \/ onAck(r) \/ onAck2xx(r) PROVE SharedInv'
  BY <1>9, <1>n, SharedUnchanged DEF serverTxEnds, onAck, onAck2xx
<1>10. ASSUME NEW branch \in Tags \union {NoTag}, ackTxEnds(branch) PROVE SharedInv'
  BY <1>10, <1>n, SharedUnchanged DEF ackTxEnds
<1>11. ASSUME NEW u \in Agents, hangup(u) \/ stop(u) PROVE SharedInv'
  <2>1. PICK S \in SUBSET Tags : SendByes(u, S)
    BY <1>11 DEF hangup, stop, SessionDialog, ActiveDialogs
  <2>2. net \subseteq net' /\ \A t \in Tags : Acknowledged(t)' => Acknowledged(t)
    <3>1. net' = net \union {Msg("BYE", u, t) : t \in S}
      BY <2>1 DEF SendByes
    <3>2. \A t, r : Msg("ACK2xx", "caller", r) # Msg("BYE", u, t)
      BY MsgInjective
    <3> QED BY <3>1, <3>2 DEF Acknowledged, Msg
  <2>3. \A v \in Agents, t \in Tags : m_mDialogs'[v][t] \in {m_mDialogs[v][t], "complete"}
    BY <2>1, <1>b DEF SendByes, TypeOK
  <2>4. \A t \in Tags : Established("caller", t) => Established("caller", t)'
    BY <2>3, <1>a DEF Established
  <2>5. CalleeNotEarly'
    BY <2>3, <1>a DEF SharedInv, CalleeNotEarly
  <2>6. UNCHANGED <<told, m_eState>>
    BY <1>11 DEF hangup, stop
  <2> QED BY <2>2, <2>4, <2>5, <2>6, SharedKept
<1>12. ASSUME NEW u \in Agents, NEW r \in Tags, Ended(r),
              m_mDialogs' \in {m_mDialogs, [m_mDialogs EXCEPT ![u][r] = "none"]},
              CallOver(u), told' = told, net \subseteq net',
              \A t \in Tags : Acknowledged(t)' => Acknowledged(t)
       PROVE  SharedInv'
  <2>1. \A v \in Agents, t \in Tags :
          \/ m_mDialogs'[v][t] = m_mDialogs[v][t]
          \/ v = u /\ t = r /\ m_mDialogs'[v][t] = "none"
    BY <1>12, <1>b DEF TypeOK
  <2>2. \A v \in Agents : m_eState'[v] = IF v = u THEN "SA_INIT" ELSE m_eState[v]
    BY <1>12, <1>b DEF CallOver, TypeOK
  <2>3. \A t \in Tags : Established("caller", t) => Established("caller", t)' \/ Ended(t)
    BY <1>12, <2>1, <1>a DEF Established
  <2>4. m_eState'["caller"] = "SA_CALL_IN_PROGRESS" =>
          /\ m_eState["caller"] = "SA_CALL_IN_PROGRESS"
          /\ \A t \in Tags : Established("caller", t) => Established("caller", t)'
    BY <2>1, <2>2, <1>a DEF Established
  <2>5. CalleeNotEarly'
    BY <2>1, <1>a DEF SharedInv, CalleeNotEarly
  <2> QED BY <1>12, <2>3, <2>4, <2>5, SharedKept
<1>13. ASSUME NEW u \in Agents, NEW r \in Tags, onBye(u, r) PROVE SharedInv'
  <2>1. Ended(r)
    BY <1>13 DEF onBye, Ended, HungUp, Peer, Agents
  <2>2. net \subseteq net' /\ \A t \in Tags : Acknowledged(t)' => Acknowledged(t)
    BY <1>13, NoAckSent DEF onBye, ByeResponseKind, Kinds
  <2>3. m_mDialogs' \in {m_mDialogs, [m_mDialogs EXCEPT ![u][r] = "none"]}
    BY <1>13 DEF onBye, handleByeInDialog
  <2> QED BY <1>12, <1>13, <2>1, <2>2, <2>3 DEF onBye
<1>14. ASSUME NEW u \in Agents, NEW r \in Tags, onByeResponse(u, r) PROVE SharedInv'
  <2>1. Ended(r)
    BY <1>14 DEF onByeResponse, CallInv, ByesSent, Ended, Agents
  <2>2. m_mDialogs' \in {m_mDialogs, [m_mDialogs EXCEPT ![u][r] = "none"]}
    BY <1>14 DEF onByeResponse, terminateDialogOfTx
  <2> QED BY <1>12, <1>14, <1>n, <2>1, <2>2 DEF onByeResponse
<1>15. ASSUME NEW u \in Agents, NEW r \in Tags, byeServerTxEnds(u, r) \/ byeTimeout(u, r)
       PROVE  SharedInv'
  BY <1>15, <1>n, SharedUnchanged DEF byeServerTxEnds, byeTimeout
<1>16. CASE UNCHANGED vars
  BY <1>16, <1>n, SharedUnchanged DEF vars
<1> QED BY <1>1, <1>2, <1>3, <1>4, <1>5, <1>6, <1>7, <1>8, <1>9, <1>10, <1>11, <1>13, <1>14,
          <1>15, <1>16 DEF Next, Caller, Callee, Ending

LEMMA SharedHolds == Spec => [](CallInv /\ SharedInv)
<1>1. Init => SharedInv
  <2>1. Init => AckedStand /\ CallerInCall
    BY DEF Init, AckedStand, CallerInCall, Acknowledged, Agents
  <2>2. Init => CalleeNotEarly
    BY DEF Init, CalleeNotEarly, Agents
  <2> QED BY <2>1, <2>2 DEF SharedInv
<1>2. CallInv /\ SharedInv /\ [Next]_vars => SharedInv'
  BY SharedStep
<1> QED BY <1>1, <1>2, CallInvHolds, PTL DEF Spec

\* A dialog that the caller holds confirmed is held by the callee as well until
\* one of the two has sent a BYE: no loss, repetition or reordering of messages,
\* no timer and no retransmitted INVITE takes it away.
THEOREM CallsEndByBye == Spec => []CallsEndOnPurpose
<1>1. CallInv => CallsEndOnPurpose
  BY DEF CallInv, DialogsAnswered, AnswersStand, CallsEndOnPurpose
<1> QED BY <1>1, CallInvHolds, PTL

\* No call is established under the tag of a refusal.
THEOREM RefusalStands == Spec => []RefusedIsNotEstablished
<1>1. CallInv => RefusedIsNotEstablished
  BY DEF CallInv, DialogsAnswered, AnsweredOnce, RefusedIsNotEstablished
<1> QED BY <1>1, CallInvHolds, PTL

\* An agent in SA_CALL_IN_PROGRESS holds an established dialog, and the caller one
\* that it has acknowledged.
THEOREM CallHasDialog == Spec => []InCallHasDialog
<1>1. CallInv /\ SharedInv => InCallHasDialog
  <2> SUFFICES ASSUME CallInv, SharedInv, NEW u \in Agents, m_eState[u] = "SA_CALL_IN_PROGRESS"
               PROVE  \E t \in Tags : Established(u, t) /\ (u = "caller" => Acknowledged(t))
    BY DEF InCallHasDialog
  <2>1. CASE u = "caller"
    BY <2>1 DEF SharedInv, CallerInCall
  <2>2. CASE u = "callee"
    <3>1. PICK t \in Tags : m_mDialogs["callee"][t] # "none"
      BY <2>2 DEF CallInv, InCallHasSome
    <3>2. m_mDialogs["callee"][t] \in {"none", "early", "confirmed", "complete"}
      BY DEF CallInv, TypeOK, Agents
    <3> QED BY <2>2, <3>1, <3>2 DEF SharedInv, CalleeNotEarly, Established
  <2> QED BY <2>1, <2>2 DEF Agents
<1> QED BY <1>1, SharedHolds, PTL

\* The dialog of an acknowledged 2xx is held by both agents until one of them has sent
\* a BYE for it, for any number of copies of the INVITE.
THEOREM AcknowledgedStaysShared == Spec => []AcknowledgedIsShared
<1>1. CallInv /\ SharedInv => AcknowledgedIsShared
  BY DEF CallInv, AnswersStand, SharedInv, AckedStand, AcknowledgedIsShared, Established,
         Ended, Agents
<1> QED BY <1>1, SharedHolds, PTL

\* The caller is told at most one outcome of its INVITE.
THEOREM ToldOnce == Spec => OneOutcome
<1>1. CallInv /\ [Next]_vars => [told # "none" => told' = told]_vars
  <2> SUFFICES ASSUME CallInv, Next, told # "none" PROVE told' = told
    OBVIOUS
  <2> USE DEF inviteVars
  <2>1. inviteTx \in {"completed", "terminated"}
    BY DEF CallInv, OutcomeEnds
  <2>2. CASE Caller
    BY <2>1, <2>2 DEF Caller, call, inviteTimeout, inviteTxEnds, onInviteResponse,
         provisionalResponse, successResponse, failureResponse, responseInCompleted,
         AwaitsResponse, completeInviteTransaction
  <2>3. CASE Callee
    BY <2>3 DEF Callee, onInvite, ringing, accept, reject, serverTxEnds, onAck, onAck2xx, ackTxEnds
  <2>4. CASE \E u \in Agents : Ending(u)
    BY <2>4 DEF Ending, hangup, stop, onBye, byeServerTxEnds, onByeResponse, byeTimeout
  <2> QED BY <2>2, <2>3, <2>4 DEF Next
<1> QED BY <1>1, CallInvHolds, PTL DEF Spec, OneOutcome

\* For any number of server transactions that copies of the INVITE make: a refused tag
\* is established nowhere, an agent in a call holds an established dialog, and both
\* agents hold an acknowledged one until a BYE is sent for it.
THEOREM DialogsMatchCallAlways == Spec => []DialogsMatchCall
BY RefusalStands, CallHasDialog, AcknowledgedStaysShared, PTL DEF DialogsMatchCall

-----------------------------------------------------------------------------
(* With one server transaction, a call that is in progress can be hung up. *)

\* The id map names each dialog (createDialog), and the agent that is in a call
\* has an established one.  The caller's cannot become early again: its INVITE
\* transaction has ended.
OneSession ==
  /\ \A u \in Agents : m_mDialogs[u][1] # "none" => m_mIdMap[u][0] = 1
  /\ \A u \in Agents : m_eState[u] = "SA_CALL_IN_PROGRESS" =>
                         m_mDialogs[u][1] \in {"confirmed", "complete"}
  /\ m_eState["caller"] = "SA_CALL_IN_PROGRESS" => inviteTx = "terminated"

LEMMA OneTag ==
  ASSUME MaxServerTx = 1
  PROVE  Tags = {1} /\ TxIds = {0} /\ ServerTxId(1) = 0 /\ InviteTxId = 0 /\ 1 # NoTag
  BY DEF Tags, TxIds, ServerTxId, InviteTxId, NoTag

LEMMA OneSessionInductive ==
  ASSUME MaxServerTx = 1, TypeOK, OneSession, [Next]_vars
  PROVE  OneSession'
<1>0. Tags = {1} /\ TxIds = {0} /\ ServerTxId(1) = 0 /\ InviteTxId = 0 /\ 1 # NoTag
  BY OneTag
<1> USE DEF TypeOK, OneSession, Agents, dialogVars, agentVars, inviteVars
<1>1. CASE call
  BY <1>0, <1>1 DEF call
<1>2. CASE inviteTimeout \/ inviteTxEnds
  BY <1>0, <1>2 DEF inviteTimeout, inviteTxEnds
<1>3. ASSUME NEW kind, NEW t \in Tags, onInviteResponse(kind, t) PROVE OneSession'
  <2>1. CASE provisionalResponse(kind, t)
    BY <1>0, <1>3, <2>1 DEF provisionalResponse, AwaitsResponse, createDialog
  <2>2. CASE successResponse(t)
    BY <1>0, <1>3, <2>2 DEF successResponse, createDialog, dialogExists
  <2>3. CASE failureResponse(t)
    BY <1>0, <1>3, <2>3 DEF failureResponse, terminateDialogOfTx, dialogExists
  <2>4. CASE responseInCompleted(t)
    BY <1>0, <2>4 DEF responseInCompleted
  <2> QED BY <1>3, <2>1, <2>2, <2>3, <2>4 DEF onInviteResponse
<1>4. ASSUME NEW t \in Tags, completeInviteTransaction(t) PROVE OneSession'
  BY <1>0, <1>4 DEF completeInviteTransaction
<1>5. ASSUME NEW t \in Tags, accept(t) PROVE OneSession'
  BY <1>0, <1>5 DEF accept, createDialog
<1>6. ASSUME NEW t \in Tags, reject(t) PROVE OneSession'
  BY <1>0, <1>6 DEF reject
<1>7. CASE onInvite \/ \E t \in Tags : ringing(t) \/ serverTxEnds(t) \/ onAck(t) \/ onAck2xx(t)
  BY <1>7 DEF onInvite, ringing, serverTxEnds, onAck, onAck2xx
<1>8. CASE \E branch \in Tags \union {NoTag} : ackTxEnds(branch)
  BY <1>8 DEF ackTxEnds
<1>9. ASSUME NEW u \in Agents, hangup(u) \/ stop(u) PROVE OneSession'
  <2>1. PICK S \in SUBSET Tags : /\ SendByes(u, S)
                                /\ \A t \in S : m_mDialogs[u][t] # "none"
    <3>1. /\ SessionDialog(u) \in SUBSET Tags /\ ActiveDialogs(u) \in SUBSET Tags
          /\ \A t \in SessionDialog(u) \union ActiveDialogs(u) : m_mDialogs[u][t] # "none"
      BY DEF SessionDialog, ActiveDialogs, dialogExists
    <3>2. CASE hangup(u)
      BY <3>1, <3>2 DEF hangup
    <3>3. CASE stop(u)
      BY <3>1, <3>3 DEF stop
    <3> QED BY <1>9, <3>2, <3>3
  <2>2. UNCHANGED <<inviteTx, m_eState, m_mIdMap>>
    BY <1>9, <2>1 DEF hangup, stop, SendByes
  <2>3. /\ \A v \in Agents : v # u => m_mDialogs'[v] = m_mDialogs[v]
        /\ m_mDialogs'[u][1] \in {m_mDialogs[u][1], "complete"}
    BY <1>0, <2>1 DEF SendByes
  <2>4. m_mDialogs'[u][1] # m_mDialogs[u][1] => m_mDialogs[u][1] # "none"
    BY <1>0, <2>1 DEF SendByes
  <2> QED BY <2>2, <2>3, <2>4
<1>10. ASSUME NEW u \in Agents, NEW t \in Tags, onBye(u, t) PROVE OneSession'
  BY <1>0, <1>10 DEF onBye, handleByeInDialog, dialogExists, CallOver
<1>11. ASSUME NEW u \in Agents, NEW t \in Tags, onByeResponse(u, t) PROVE OneSession'
  BY <1>0, <1>11 DEF onByeResponse, terminateDialogOfTx, dialogExists, CallOver
<1>12. ASSUME NEW u \in Agents, NEW t \in Tags, byeServerTxEnds(u, t) \/ byeTimeout(u, t)
       PROVE  OneSession'
  BY <1>12 DEF byeServerTxEnds, byeTimeout
<1>13. CASE UNCHANGED vars
  BY <1>13 DEF vars
<1> QED BY <1>1, <1>2, <1>3, <1>4, <1>5, <1>6, <1>7, <1>8, <1>9, <1>10, <1>11, <1>12, <1>13
        DEF Next, Caller, Callee, Ending

\* While the INVITE makes one server transaction (no copy of it arrives), the
\* transaction id that SipAgent keeps leads hangup() to an established dialog in
\* every state of the call, whichever side ends it and whatever BYEs cross.
THEOREM HangupFindsSessionAlways ==
  ASSUME MaxServerTx = 1
  PROVE  Spec => []HangupFindsSession
<1>1. Init => OneSession
  BY OneTag DEF Init, OneSession, Agents
<1>2. TypeOK /\ OneSession /\ [Next]_vars => OneSession'
  BY OneSessionInductive
<1>3. TypeOK /\ OneSession => HangupFindsSession
  BY OneTag DEF TypeOK, OneSession, HangupFindsSession, SessionDialog, dialogExists
<1> QED BY <1>1, <1>2, <1>3, TypeCorrect, PTL DEF Spec

==============================================================================
