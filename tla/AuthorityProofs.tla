--------------------------- MODULE AuthorityProofs ---------------------------
(***************************************************************************)
(* Authority for any number of versions, targets, decisions, tokens and    *)
(* overlapping RPCs.                                                       *)
(*                                                                         *)
(* Rows only gain: versions, resolved scopes, decisions and tokens stay    *)
(* and keep their contents, a standing revocation stands (Kept).  So what  *)
(* an RPC has read of them remains true until it acts (CallFaithful), and  *)
(* a decision id belongs to one RPC until its audit event is chained       *)
(* (OwnDecision).                                                          *)
(***************************************************************************)
EXTENDS Authority, Approvals, PolicyRules, AgentRules, TLAPS

\* The RPC evaluates the pipeline: its decision id is its own.
Own == {"revocations", "roe", "targets", "persist", "audit"}

RoePc == {"insert", "activate", "resolve", "suspend", "revoke", "issue",
          "expire", "expireReload"}

KnowsVersion(r) ==
    /\ r.pc \in RoePc \cup {"targets", "persist", "audit", "register"} =>
          r.ver \in Version /\ Present(r.ver)
    /\ r.pc = "insert" => r.ver + 1 \in Version

KnowsDecision(r) ==
    /\ r.pc \in Own => r.dec \in Decision
    /\ r.pc \in Own \ {"audit"} => decision[r.dec] = None
    /\ r.pc \in {"persist", "audit"} => InScope(r.targets, r.ver)
    /\ r.pc = "audit" => decision[r.dec] # None /\ decision[r.dec].stage = "row"
    /\ r.pc \in {"audit", "reload", "expireReload"} =>
          /\ r.dec \in Decision /\ decision[r.dec] # None
          /\ decision[r.dec].targets = r.targets
    /\ r.pc \in {"reload", "expireReload", "register"} =>
          /\ r.dec \in Decision /\ decision[r.dec] # None
          /\ decision[r.dec].stage # "row"

KnowsParent(r) ==
    /\ r.from # None => token[r.from] # None
    /\ r.from # None /\ r.pc \in Own \cup {"reload", "expireReload"} =>
          r.targets = RefreshTargets(r.from) /\ r.bound = token[r.from].bound
    /\ r.pc \in {"reload", "expireReload"} => r.from # None /\ ~r.bound
    /\ r.pc = "exchange" =>
          /\ r.from # None /\ ~r.bound /\ r.dec = token[r.from].dec
          /\ r.targets \subseteq token[r.from].targets
    /\ r.pc = "register" => Narrow(r)

KnowsHistory(r) ==
    /\ r.killed => r.pc = "revocations" /\ Revoked(r.targets)
    /\ r.settled => r.pc \in {"revocations", "roe", "exchange"} /\ Settled

CallFaithful(r) ==
    KnowsVersion(r) /\ KnowsDecision(r) /\ KnowsParent(r) /\ KnowsHistory(r)

CallsFaithful == \A c \in Call : CallFaithful(call[c])

OwnDecision ==
    \A c, e \in Call : c # e /\ call[c].pc \in Own => call[e].dec # call[c].dec

Rows == DecisionsInScope /\ TokensNarrow /\ NoTokenUnaudited
        /\ KillStopsDecisions /\ SettledMintsNothing

IInv == TypeOK /\ CallsFaithful /\ OwnDecision /\ Rows

-----------------------------------------------------------------------------
(* Shapes.                                                                  *)

\* Only call c moves.
Alone(c) == \A e \in Call \ {c} : call'[e] = call[e]

\* Call c keeps the request it works on.
SameRequest(c) ==
    /\ call'[c].dec = call[c].dec /\ call'[c].from = call[c].from
    /\ call'[c].targets = call[c].targets /\ call'[c].bound = call[c].bound
    /\ call'[c].killed = call[c].killed /\ call'[c].settled = call[c].settled

LEMMA NoCallType == NoCall \in CallRecord
  BY ConstantsAssumption DEF NoCall, CallRecord, Pc

LEMMA NoCallFaithful == CallFaithful(NoCall)
  BY DEF CallFaithful, KnowsVersion, KnowsDecision, KnowsParent, KnowsHistory, NoCall, RoePc, Own

LEMMA StartShape ==
  ASSUME call \in [Call -> CallRecord], NEW c \in Call, NEW r, Start(c, r), r \in CallRecord
  PROVE  call' \in [Call -> CallRecord] /\ call'[c] = r /\ Alone(c) /\ call[c].pc = "idle"
  BY DEF Start, Idle, Alone

LEMMA DoneShape ==
  ASSUME call \in [Call -> CallRecord], NEW c \in Call, Done(c)
  PROVE  call' \in [Call -> CallRecord] /\ call'[c] = NoCall /\ Alone(c)
  BY NoCallType DEF Done, Alone

LEMMA GotoShape ==
  ASSUME call \in [Call -> CallRecord], NEW c \in Call, NEW p, p \in Pc, Goto(c, p)
  PROVE  /\ call' \in [Call -> CallRecord] /\ Alone(c)
         /\ call'[c].pc = p /\ call'[c].ver = call[c].ver /\ SameRequest(c)
  <1>1. call'[c] = [call[c] EXCEPT !.pc = p] /\ Alone(c)
    BY DEF Goto, Alone
  <1>2. call' \in [Call -> CallRecord]
    BY DEF Goto, CallRecord
  <1> QED
    BY <1>1, <1>2 DEF SameRequest, CallRecord

LEMMA GotoVersionShape ==
  ASSUME call \in [Call -> CallRecord], NEW c \in Call, NEW p, p \in Pc, NEW v \in Version,
         call' = [call EXCEPT ![c].pc = p, ![c].ver = v]
  PROVE  /\ call' \in [Call -> CallRecord] /\ Alone(c)
         /\ call'[c].pc = p /\ call'[c].ver = v /\ SameRequest(c)
  <1> DEFINE r == [call[c] EXCEPT !.pc = p, !.ver = v]
  <1>1. call[c] \in CallRecord /\ v \in 0 .. MaxVersion
    BY ConstantsAssumption DEF Version
  <1>2. r \in CallRecord
    BY <1>1 DEF CallRecord
  <1>3. call' = [call EXCEPT ![c] = r]
    OBVIOUS
  <1> QED
    BY <1>1, <1>2, <1>3 DEF Alone, SameRequest, CallRecord

-----------------------------------------------------------------------------
(* What every step leaves alone.                                            *)

DecisionKept(d) ==
    decision[d] # None =>
        /\ decision'[d] # None
        /\ decision'[d].ver = decision[d].ver /\ decision'[d].targets = decision[d].targets
        /\ decision'[d].watch = decision[d].watch /\ decision'[d].killed = decision[d].killed
        /\ decision[d].stage # "row" => decision'[d].stage # "row"

TokenKept(j) ==
    token[j] # None =>
        /\ token'[j] # None
        /\ token'[j].ver = token[j].ver /\ token'[j].targets = token[j].targets
        /\ token'[j].dec = token[j].dec /\ token'[j].from = token[j].from
        /\ token'[j].bound = token[j].bound /\ token'[j].settled = token[j].settled

RowsKept ==
    /\ \A v \in Version : Present(v) => Present(v)'
    /\ resolved \subseteq resolved'
    /\ \A d \in Decision : DecisionKept(d)
    /\ \A j \in Token : TokenKept(j)
    /\ \A k \in RevKey : rev[k] = "standing" => rev'[k] = "standing"

\* Who writes which table.
WritesStatus ==
    \/ CreateROE
    \/ \E c \in Call : \/ InsertVersion(c) \/ SetActive(c) \/ SetSuspended(c)
                       \/ SetRevoked(c) \/ SetExpired(c)

LEMMA Writers ==
  ASSUME [Next]_vars
  PROVE  /\ WritesStatus \/ UNCHANGED status
         /\ (\E c \in Call : ResolveTargets(c)) \/ UNCHANGED resolved
         /\ \/ \E c \in Call : IssueROERevocation(c)
            \/ \E k \in KillKey : Revoke(k)
            \/ Restart
            \/ UNCHANGED rev
         /\ \/ \E c \in Call : PersistDecision(c) \/ RecordDecisionAudit(c)
            \/ UNCHANGED decision
         /\ \/ \E c \in Call, j \in Token : Register(c, j)
            \/ \E j \in Token : RevokeToken(j)
            \/ UNCHANGED token
  <1>1. CASE UNCHANGED vars
    BY <1>1 DEF vars
  <1>2. CASE Next
    BY <1>2 DEF WritesStatus, Next, RoeRequest, RoeStep, ClientRequest, PolicyStep, TokenStep,
         CreateROE, InsertVersion, SetActive, SetSuspended, SetRevoked, SetExpired,
         UpdateROE, ActivateROE, SuspendROE, RevokeROE, GetROE, ResolveTargets,
         IssueROERevocation, Revoke, Restart, Authorize, StepRevocation, StepROEActive,
         StepTargetScope, PersistDecision, RecordDecisionAudit, LoadOverdue, MintToken,
         ExchangeToken, ExchangeLoadsROE, RefreshToken, RefreshReloadsROE, Register,
         RevokeToken, GiveUp
  <1> QED
    BY <1>1, <1>2

\* A status is written to an existing row, by a call that read it, or to a row
\* inserted after the last one.
Overwrites == {"activate", "suspend", "expire", "expireReload"}

WritesRow(v, st) ==
    /\ status' = [status EXCEPT ![v] = st]
    /\ \/ /\ Present(v)
          /\ st = "revoked" \/ \E c \in Call : call[c].ver = v /\ call[c].pc \in Overwrites
       \/ ~Present(v) /\ v = 1
       \/ /\ ~Present(v) /\ v - 1 \in Version /\ Present(v - 1)
          /\ \E c \in Call : call[c].ver = v - 1 /\ call[c].pc = "insert"

LEMMA RowWritten ==
  ASSUME CallsFaithful, WritesStatus
  PROVE  \E v \in Version, st \in Status \ {"absent"} : WritesRow(v, st)
  <1> USE DEF WritesRow
  <1>1. CASE CreateROE
    <2>1. 1 \in Version /\ "draft" \in Status \ {"absent"}
      BY ConstantsAssumption DEF Version, Status
    <2> QED
      BY <1>1, <2>1 DEF CreateROE
  <1>2. ASSUME NEW c \in Call, InsertVersion(c) PROVE \E v \in Version, st \in Status \ {"absent"} : WritesRow(v, st)
    <2>1. call[c].ver \in Version /\ call[c].ver + 1 \in Version /\ Present(call[c].ver)
      BY <1>2 DEF InsertVersion, CallsFaithful, CallFaithful, KnowsVersion, RoePc
    <2>2. (call[c].ver + 1) - 1 = call[c].ver
      BY <2>1 DEF Version
    <2> QED
      BY <1>2, <2>1, <2>2 DEF InsertVersion, Status
  <1>3. ASSUME NEW c \in Call, SetActive(c) \/ SetSuspended(c) \/ SetRevoked(c) \/ SetExpired(c)
        PROVE \E v \in Version, st \in Status \ {"absent"} : WritesRow(v, st)
    <2>1. call[c].ver \in Version /\ Present(call[c].ver)
      BY <1>3 DEF SetActive, SetSuspended, SetRevoked, SetExpired, CallsFaithful, CallFaithful, KnowsVersion, RoePc
    <2> QED
      BY <1>3, <2>1 DEF SetActive, SetSuspended, SetRevoked, SetExpired, SetStatus, Status, Overwrites
  <1> QED
    BY <1>1, <1>2, <1>3 DEF WritesStatus

LEMMA RowsKeptStep ==
  ASSUME TypeOK, CallsFaithful, [Next]_vars
  PROVE  RowsKept
  <1> USE DEF TypeOK
  <1>1. ASSUME NEW v \in Version, Present(v) PROVE Present(v)'
    BY <1>1, Writers, RowWritten DEF WritesRow, Present
  <1>2. resolved \subseteq resolved'
    BY Writers DEF ResolveTargets
  <1>3. ASSUME NEW d \in Decision PROVE DecisionKept(d)
    <2>1. ASSUME NEW c \in Call, PersistDecision(c) PROVE DecisionKept(d)
      <3>1. decision[call[c].dec] = None
        BY <2>1 DEF PersistDecision, CallsFaithful, CallFaithful, KnowsDecision, Own
      <3> QED
        BY <2>1, <3>1 DEF PersistDecision, DecisionKept
    <2>2. ASSUME NEW c \in Call, RecordDecisionAudit(c) PROVE DecisionKept(d)
      <3>1. /\ call[c].dec \in Decision /\ decision[call[c].dec] # None
            /\ decision[call[c].dec] \in DecisionRow
        BY <2>2 DEF RecordDecisionAudit, CallsFaithful, CallFaithful, KnowsDecision, Own
      <3>2. PICK st \in {"told", "audited"} :
               decision' = [decision EXCEPT ![call[c].dec].stage = st]
        BY <2>2 DEF RecordDecisionAudit
      <3>3. [decision[call[c].dec] EXCEPT !.stage = st] \in DecisionRow
        BY <3>1 DEF DecisionRow
      <3>4. decision'[call[c].dec] # None
        BY <3>1, <3>2, <3>3, NoneIsNoRow
      <3> QED
        BY <3>1, <3>2, <3>4 DEF DecisionKept, DecisionRow
    <2> QED
      BY <2>1, <2>2, Writers DEF DecisionKept
  <1>4. ASSUME NEW j \in Token PROVE TokenKept(j)
    <2>1. ASSUME NEW c \in Call, NEW i \in Token, Register(c, i) PROVE TokenKept(j)
      BY <2>1 DEF Register, TokenKept
    <2>2. ASSUME NEW i \in Token, RevokeToken(i) PROVE TokenKept(j)
      <3>1. token[i] # None /\ token[i] \in TokenRow
        BY <2>2 DEF RevokeToken, Usable
      <3>3. [token[i] EXCEPT !.revoked = TRUE] \in TokenRow
        BY <3>1 DEF TokenRow
      <3>2. token'[i] # None
        BY <2>2, <3>1, <3>3, NoneIsNoRow DEF RevokeToken
      <3> QED
        BY <2>2, <3>1, <3>2 DEF RevokeToken, TokenKept, TokenRow
    <2> QED
      BY <2>1, <2>2, Writers DEF TokenKept
  <1>5. ASSUME NEW k \in RevKey, rev[k] = "standing" PROVE rev'[k] = "standing"
    BY <1>5, Writers DEF IssueROERevocation, Revoke, Restart, AfterRestart
  <1> QED
    BY <1>1, <1>2, <1>3, <1>4, <1>5 DEF RowsKept

-----------------------------------------------------------------------------
(* A settled revocation is final.                                           *)

Unsettling == {"insert", "activate", "suspend", "expire", "expireReload"}

\* A call comes to a write of the status only from a row that is not revoked.
LEMMA WritesFromLive ==
  ASSUME TypeOK, [Next]_vars, NEW e \in Call,
         call'[e] # call[e], call'[e].pc \in Unsettling
  PROVE  status[call'[e].ver] # "revoked"
  <1> USE DEF TypeOK, Unsettling
  <1>1. ASSUME NEW c \in Call, NEW v \in Version, NEW p, Start(c, [NoCall EXCEPT !.pc = p, !.ver = v])
        PROVE call'[e].ver = v
    BY <1>1 DEF Start, NoCall
  <1>2. ASSUME NEW c \in Call, NEW v \in Version,
               UpdateROE(c, v) \/ ActivateROE(c, v) \/ SuspendROE(c, v) \/ GetROE(c, v)
        PROVE status[call'[e].ver] # "revoked"
    BY <1>1, <1>2 DEF UpdateROE, Updatable, ActivateROE, Activatable, SuspendROE, GetROE, MayBeOverdue
  <1>3. ASSUME NEW c \in Call, NEW v \in Version, RevokeROE(c, v) PROVE FALSE
    BY <1>3 DEF RevokeROE, Start, NoCall
  <1>4. ASSUME NEW c \in Call, NEW v \in Version, LoadOverdue(c, v)
        PROVE status[call'[e].ver] # "revoked"
    <2>1. call'[e].ver = v
      BY <1>4 DEF LoadOverdue, NoCall, CallRecord
    <2> QED
      BY <1>4, <2>1 DEF LoadOverdue, MayBeOverdue
  <1>5. ASSUME NEW c \in Call, Done(c) PROVE FALSE
    BY <1>5 DEF Done, NoCall
  <1>6. ASSUME NEW c \in Call, NEW p \in Pc \ Unsettling, Goto(c, p) PROVE FALSE
    BY <1>6 DEF Goto, CallRecord
  <1>7. ASSUME NEW c \in Call, NEW v \in Version, NEW p \in Pc \ Unsettling,
               call' = [call EXCEPT ![c].pc = p, ![c].ver = v] PROVE FALSE
    BY <1>7 DEF CallRecord
  <1>8. ASSUME NEW c \in Call, RoeStep(c) PROVE FALSE
    <2>1. Done(c) \/ \E p \in {"resolve", "issue", "register"} : Goto(c, p)
      BY <1>8 DEF RoeStep, InsertVersion, SetActive, ResolveTargets, SetSuspended,
         SetRevoked, IssueROERevocation, SetExpired
    <2> QED
      BY <1>5, <1>6, <2>1 DEF Pc
  <1>9. ASSUME NEW c \in Call, PolicyStep(c) PROVE FALSE
    BY <1>5, <1>6, <1>7, <1>9 DEF PolicyStep, StepRevocation, StepTargetScope, StepROEActive,
       PersistDecision, RecordDecisionAudit, Pc
  <1>10. ASSUME NEW c \in Call, ClientRequest(c) PROVE FALSE
    <2>1. ASSUME NEW r, Start(c, r), r.pc \notin Unsettling PROVE FALSE
      BY <2>1 DEF Start
    <2>2. ASSUME NEW d \in Decision, Authorize(c, d) PROVE FALSE
      BY <2>1, <2>2 DEF Authorize, NoCall
    <2>3. ASSUME NEW d \in Decision, NEW v \in Version, MintToken(c, d, v) PROVE FALSE
      BY <2>1, <2>3 DEF MintToken, NoCall
    <2>4. ASSUME NEW j \in Token, NEW T \in SUBSET Target, ExchangeToken(c, j, T) PROVE FALSE
      BY <2>1, <2>4 DEF ExchangeToken, NoCall
    <2>5. ASSUME NEW j \in Token, NEW d \in Decision, RefreshToken(c, j, d) PROVE FALSE
      BY <2>1, <2>5 DEF RefreshToken, NoCall
    <2> QED
      BY <1>10, <2>2, <2>3, <2>4, <2>5 DEF ClientRequest
  <1>11. ASSUME NEW c \in Call, TokenStep(c) PROVE status[call'[e].ver] # "revoked"
    BY <1>4, <1>5, <1>7, <1>11 DEF TokenStep, ExchangeLoadsROE, RefreshReloadsROE, Register, Pc
  <1>12. ASSUME NEW c \in Call, GiveUp(c) PROVE FALSE
    BY <1>5, <1>12 DEF GiveUp
  <1>13. CASE Restart
    BY <1>13 DEF Restart, NoCall
  <1>14. CASE UNCHANGED call
    BY <1>14
  <1> QED
    BY <1>2, <1>3, <1>8, <1>9, <1>10, <1>11, <1>12, <1>13, <1>14, ConstantsAssumption
       DEF Next, vars, RoeRequest, CreateROE, Revoke, RevokeToken

LEMMA SettledStep ==
  ASSUME TypeOK, CallsFaithful, [Next]_vars, Settled
  PROVE  Settled'
  <1>1. PICK v \in Version :
          /\ IsLatest(v) /\ status[v] = "revoked"
          /\ \A c \in Call : call[c].pc \in Unsettling => call[c].ver # v
    BY DEF Settled, Unsettling
  <1>2. ASSUME NEW w \in Version, NEW st \in Status \ {"absent"}, WritesRow(w, st)
        PROVE  (IsLatest(v) /\ status[v] = "revoked")'
    <2>1. CASE st = "revoked" /\ Present(w)
      BY <1>1, <1>2, <2>1 DEF WritesRow, IsLatest, Present, TypeOK
    <2>2. CASE Present(w) /\ \E c \in Call : call[c].ver = w /\ call[c].pc \in Overwrites
      BY <1>1, <1>2, <2>2 DEF WritesRow, IsLatest, Present, TypeOK, Overwrites, Unsettling
    <2>3. CASE ~Present(w) /\ w = 1
      BY <1>1, <1>2, <2>3 DEF WritesRow, IsLatest, Present, TypeOK, Version
    <2>4. CASE /\ ~Present(w) /\ w - 1 \in Version /\ Present(w - 1)
               /\ \E c \in Call : call[c].ver = w - 1 /\ call[c].pc = "insert"
      <3>1. w - 1 # v
        BY <1>1, <2>4 DEF Unsettling
      <3>2. w <= v
        BY <1>1, <2>4, <3>1 DEF IsLatest, Version
      <3> QED
        BY <1>1, <1>2, <2>4, <3>2 DEF WritesRow, IsLatest, Present, TypeOK
    <2> QED
      BY <1>2, <2>1, <2>2, <2>3, <2>4 DEF WritesRow
  <1>3. (IsLatest(v) /\ status[v] = "revoked")'
    BY <1>1, <1>2, Writers, RowWritten DEF IsLatest, Present
  <1>4. ASSUME NEW e \in Call, call'[e].pc \in Unsettling PROVE call'[e].ver # v
    BY <1>1, <1>4, WritesFromLive
  <1> QED
    BY <1>3, <1>4 DEF Settled, Unsettling

-----------------------------------------------------------------------------
(* What a call has read remains true.                                       *)

Context == IInv /\ RowsKept /\ (Settled => Settled')

\* A call that takes no step, when nobody touches the decision it owns.
LEMMA StaysFaithful ==
  ASSUME Context, NEW e \in Call, call'[e] = call[e],
         call[e].pc \in Own => decision'[call[e].dec] = decision[call[e].dec]
  PROVE  CallFaithful(call[e])'
  <1> DEFINE r == call[e]
  <1>0. CallFaithful(r) /\ r \in CallRecord /\ RowsKept
    BY DEF Context, IInv, TypeOK, CallsFaithful
  <1>1. KnowsVersion(r)'
    BY <1>0 DEF CallFaithful, KnowsVersion, RowsKept
  <1>2. KnowsDecision(r)'
    BY <1>0 DEF CallFaithful, KnowsDecision, RowsKept, DecisionKept, InScope, Own
  <1>3. KnowsParent(r)'
    <2>1. r.from # None => r.from \in Token /\ TokenKept(r.from) /\ token[r.from] # None
      BY <1>0 DEF CallFaithful, KnowsParent, RowsKept, CallRecord
    <2>2. r.from # None => RefreshTargets(r.from)' = RefreshTargets(r.from)
      BY <2>1 DEF RefreshTargets, TokenKept
    <2>3. r.pc = "register" => Narrow(r)'
      <3>1. r.pc = "register" => DecisionKept(r.dec) /\ decision[r.dec] # None
        BY <1>0 DEF CallFaithful, KnowsDecision, RowsKept
      <3> QED
        BY <1>0, <2>1, <3>1 DEF CallFaithful, KnowsParent, Narrow, DecisionKept, TokenKept
    <2> QED
      BY <1>0, <2>1, <2>2, <2>3 DEF CallFaithful, KnowsParent, TokenKept
  <1>4. KnowsHistory(r)'
    BY <1>0 DEF CallFaithful, KnowsHistory, Context, Revoked, RowsKept, RevKey
  <1> QED
    BY <1>1, <1>2, <1>3, <1>4 DEF CallFaithful

-----------------------------------------------------------------------------
(* The call that takes a step.                                              *)

\* The decision id of the call is its own, or of a told decision, or none.
Moves(c) ==
    /\ call' \in [Call -> CallRecord]
    /\ Alone(c)
    /\ CallFaithful(call[c])'
    /\ \A d \in Decision : decision'[d] # decision[d] => call[c].pc \in Own /\ d = call[c].dec
    /\ \/ call'[c].dec \in {None, call[c].dec}
       \/ FreshDecision(call'[c].dec)
       \/ decision[call'[c].dec] # None /\ decision[call'[c].dec].stage # "row"
    /\ call'[c].pc \in Own => \/ FreshDecision(call'[c].dec)
                              \/ call'[c].dec = call[c].dec /\ call[c].pc \in Own

\* The faithfulness of NoCall does not depend on the state.
LEMMA NoCallFaithfulNext == \A r : r = NoCall => CallFaithful(r)'
  BY DEF CallFaithful, KnowsVersion, KnowsDecision, KnowsParent, KnowsHistory, NoCall, RoePc, Own

LEMMA MovesDone ==
  ASSUME Context, NEW c \in Call, Done(c),
         \A d \in Decision : decision'[d] # decision[d] => call[c].pc \in Own /\ d = call[c].dec
  PROVE  Moves(c)
  <1>1. call' \in [Call -> CallRecord] /\ call'[c] = NoCall /\ Alone(c)
    BY DoneShape DEF Context, IInv, TypeOK
  <1>2. CallFaithful(call[c])'
    BY <1>1, NoCallFaithfulNext
  <1> QED
    BY <1>1, <1>2 DEF Moves, NoCall, Own

\* A call that turns to the status of an existing version.
LEMMA MovesOperator ==
  ASSUME Context, NEW c \in Call, NEW v \in Version, Present(v), UNCHANGED decision,
         NEW p \in {"insert", "activate", "suspend", "revoke", "expire"},
         p = "insert" => v + 1 \in Version,
         call' = [call EXCEPT ![c] = [NoCall EXCEPT !.pc = p, !.ver = v]]
  PROVE  Moves(c)
  <1> DEFINE r == [NoCall EXCEPT !.pc = p, !.ver = v]
  <1>1. r \in CallRecord
    <2>1. p \in Pc /\ v \in 0 .. MaxVersion
      BY ConstantsAssumption DEF Pc, Version
    <2> QED
      BY <2>1, NoCallType DEF CallRecord
  <1>2. call' \in [Call -> CallRecord] /\ call'[c] = r /\ Alone(c)
    BY <1>1 DEF Context, IInv, TypeOK, Alone
  <1>3. CallFaithful(call[c])'
    BY <1>2 DEF CallFaithful, KnowsVersion, KnowsDecision, KnowsParent, KnowsHistory, NoCall, RoePc,
       Own, Context, RowsKept
  <1> QED
    BY <1>2, <1>3 DEF Moves, NoCall, Own

\* The RoE service.
LEMMA MovesRoe ==
  ASSUME Context, NEW c \in Call, RoeRequest(c) \/ RoeStep(c)
  PROVE  Moves(c)
  <1>1. ASSUME NEW v \in Version, UpdateROE(c, v) PROVE Moves(c)
    <2>1. Present(v) /\ v + 1 \in Version
      BY <1>1, ConstantsAssumption DEF UpdateROE, IsLatest, Version
    <2> QED
      BY <1>1, <2>1, MovesOperator DEF UpdateROE, Start
  <1>2. ASSUME NEW v \in Version, ActivateROE(c, v) PROVE Moves(c)
    BY <1>2, MovesOperator DEF ActivateROE, Start, Activatable, Present
  <1>3. ASSUME NEW v \in Version, SuspendROE(c, v) PROVE Moves(c)
    BY <1>3, MovesOperator DEF SuspendROE, Start, IsLatest
  <1>4. ASSUME NEW v \in Version, RevokeROE(c, v) PROVE Moves(c)
    BY <1>4, MovesOperator DEF RevokeROE, Start, IsLatest
  <1>5. ASSUME NEW v \in Version, GetROE(c, v) PROVE Moves(c)
    BY <1>5, MovesOperator DEF GetROE, Start, MayBeOverdue, Present
  <1>6. CASE /\ InsertVersion(c) \/ ResolveTargets(c) \/ SetSuspended(c) \/ IssueROERevocation(c)
                \/ (SetExpired(c) /\ call[c].pc = "expire")
    BY <1>6, MovesDone DEF InsertVersion, ResolveTargets, SetSuspended, IssueROERevocation, SetExpired
  <1>7. ASSUME NEW p \in {"resolve", "issue", "register"}, Goto(c, p), UNCHANGED decision,
               p = "resolve" => call[c].pc = "activate",
               p = "issue" => call[c].pc = "revoke",
               p = "register" => call[c].pc = "expireReload" /\ UNCHANGED token
        PROVE Moves(c)
    <2>0. call[c] \in CallRecord /\ CallFaithful(call[c]) /\ RowsKept
      BY DEF Context, IInv, TypeOK, CallsFaithful
    <2>1. p \in Pc
      BY DEF Pc
    <2>2. /\ call' \in [Call -> CallRecord] /\ Alone(c)
          /\ call'[c].pc = p /\ call'[c].ver = call[c].ver /\ SameRequest(c)
      BY <1>7, <2>1, GotoShape DEF Context, IInv, TypeOK
    <2>3. KnowsVersion(call[c])'
      BY <1>7, <2>0, <2>2 DEF CallFaithful, KnowsVersion, RoePc, RowsKept, SameRequest
    <2>4. KnowsDecision(call[c])'
      BY <1>7, <2>0, <2>2 DEF CallFaithful, KnowsDecision, Own, SameRequest
    <2>5. KnowsParent(call[c])'
      <3>1. call[c].from # None => token'[call[c].from] # None
        BY <2>0 DEF CallFaithful, KnowsParent, RowsKept, TokenKept, CallRecord
      <3>2. p = "register" => Narrow(call[c])'
        BY <1>7, <2>0, <2>2, <3>1 DEF CallFaithful, KnowsParent, KnowsDecision, Narrow, RefreshTargets, SameRequest
      <3> QED
        BY <1>7, <2>2, <3>1, <3>2 DEF KnowsParent, Own, SameRequest
    <2>6. KnowsHistory(call[c])'
      BY <1>7, <2>0, <2>2 DEF CallFaithful, KnowsHistory, SameRequest
    <2>7. ~(call'[c].pc \in Own)
      BY <1>7, <2>2 DEF Own
    <2> QED
      BY <1>7, <2>2, <2>3, <2>4, <2>5, <2>6, <2>7 DEF Moves, CallFaithful, SameRequest
  <1>8. CASE SetActive(c) \/ SetRevoked(c) \/ (SetExpired(c) /\ call[c].pc # "expire")
    BY <1>7, <1>8 DEF SetActive, SetRevoked, SetExpired
  <1> QED
    BY <1>1, <1>2, <1>3, <1>4, <1>5, <1>6, <1>8 DEF RoeRequest, RoeStep

\* A settled RoE has no version in force.
LEMMA SettledNotInForce ==
  ASSUME Settled, NEW v \in Version, InForce(v)
  PROVE  FALSE
  BY DEF Settled, InForce, IsLatest, Version

\* What a step that goes on with the same request has to show.
LEMMA MovesOn ==
  ASSUME Context, NEW c \in Call, call' \in [Call -> CallRecord], Alone(c), SameRequest(c),
         call'[c].pc \in Own => call[c].pc \in Own,
         \A d \in Decision : decision'[d] # decision[d] => call[c].pc \in Own /\ d = call[c].dec,
         KnowsVersion(call[c])', KnowsDecision(call[c])', KnowsHistory(call[c])',
         call'[c].from # None =>
            call'[c].pc \in Own \cup {"reload", "expireReload"} /\ call[c].pc \in Own \cup {"reload", "expireReload"},
         call'[c].pc \in {"reload", "expireReload"} => call'[c].from # None /\ ~call'[c].bound,
         call'[c].pc \notin {"exchange", "register"}
  PROVE  Moves(c)
  <1>1. call[c] \in CallRecord /\ CallFaithful(call[c]) /\ RowsKept
    BY DEF Context, IInv, TypeOK, CallsFaithful
  <1>2. call[c].from # None => call[c].from \in Token /\ token[call[c].from] # None /\ TokenKept(call[c].from)
    BY <1>1 DEF CallFaithful, KnowsParent, RowsKept, CallRecord
  <1>3. KnowsParent(call[c])'
    BY <1>1, <1>2 DEF CallFaithful, KnowsParent, SameRequest, TokenKept, RefreshTargets
  <1> QED
    BY <1>3 DEF Moves, CallFaithful, SameRequest

\* The pipeline.
LEMMA MovesPolicy ==
  ASSUME Context, NEW c \in Call, PolicyStep(c)
  PROVE  Moves(c)
  <1>0. /\ call[c] \in CallRecord /\ CallFaithful(call[c]) /\ RowsKept
        /\ call \in [Call -> CallRecord] /\ decision \in [Decision -> DecisionRow \cup {None}]
    BY DEF Context, IInv, TypeOK, CallsFaithful
  <1>1. CASE StepRevocation(c)
    <2>1. /\ call' \in [Call -> CallRecord] /\ Alone(c)
          /\ call'[c].pc = "roe" /\ call'[c].ver = call[c].ver /\ SameRequest(c)
      BY <1>0, <1>1, GotoShape DEF StepRevocation, Pc
    <2>2. KnowsVersion(call[c])' /\ KnowsDecision(call[c])'
      BY <1>0, <1>1, <2>1 DEF StepRevocation, KnowsVersion, KnowsDecision, CallFaithful, SameRequest, Own, RoePc
    <2>3. KnowsHistory(call[c])'
      BY <1>0, <1>1, <2>1 DEF StepRevocation, KnowsHistory, CallFaithful, SameRequest, Context
    <2> QED
      BY <1>1, <2>1, <2>2, <2>3, MovesOn DEF StepRevocation, Own
  <1>2. ASSUME NEW v \in Version, StepROEActive(c, v) PROVE Moves(c)
    <2>1. /\ call' \in [Call -> CallRecord] /\ Alone(c)
          /\ call'[c].pc = "targets" /\ call'[c].ver = v /\ SameRequest(c)
      BY <1>0, <1>2, GotoVersionShape DEF StepROEActive, Pc
    <2>2. KnowsVersion(call[c])' /\ KnowsDecision(call[c])'
      BY <1>0, <1>2, <2>1 DEF StepROEActive, InForce, IsLatest, Present, KnowsVersion, KnowsDecision,
         CallFaithful, SameRequest, Own, RoePc
    <2>3. KnowsHistory(call[c])'
      BY <1>0, <1>2, <2>1, SettledNotInForce DEF StepROEActive, KnowsHistory, CallFaithful, SameRequest
    <2> QED
      BY <1>2, <2>1, <2>2, <2>3, MovesOn DEF StepROEActive, Own
  <1>3. CASE StepTargetScope(c)
    <2>1. /\ call' \in [Call -> CallRecord] /\ Alone(c)
          /\ call'[c].pc = "persist" /\ call'[c].ver = call[c].ver /\ SameRequest(c)
      BY <1>0, <1>3, GotoShape DEF StepTargetScope, Pc
    <2>2. KnowsVersion(call[c])' /\ KnowsDecision(call[c])'
      BY <1>0, <1>3, <2>1 DEF StepTargetScope, InScope, KnowsVersion, KnowsDecision, Present,
         CallFaithful, SameRequest, Own, RoePc
    <2>3. KnowsHistory(call[c])'
      BY <1>0, <1>3, <2>1 DEF StepTargetScope, KnowsHistory, CallFaithful, SameRequest
    <2> QED
      BY <1>3, <2>1, <2>2, <2>3, MovesOn DEF StepTargetScope, Own
  <1>4. CASE PersistDecision(c)
    <2>1. /\ call' \in [Call -> CallRecord] /\ Alone(c)
          /\ call'[c].pc = "audit" /\ call'[c].ver = call[c].ver /\ SameRequest(c)
      BY <1>0, <1>4, GotoShape DEF PersistDecision, Pc
    <2> DEFINE row == [ver |-> call[c].ver, targets |-> call[c].targets, stage |-> "row",
                       watch |-> call[c].bound, killed |-> call[c].killed]
    <2>2. call[c].ver \in Version /\ call[c].dec \in Decision /\ InScope(call[c].targets, call[c].ver)
      BY <1>0, <1>4 DEF PersistDecision, CallFaithful, KnowsVersion, KnowsDecision, Own
    <2>3. row \in DecisionRow /\ row # None
      BY <1>0, <2>2, NoneIsNoRow DEF DecisionRow, CallRecord
    <2>4. decision' = [decision EXCEPT ![call[c].dec] = row]
      BY <1>4 DEF PersistDecision
    <2>5. KnowsVersion(call[c])'
      BY <1>0, <1>4, <2>1 DEF PersistDecision, KnowsVersion, CallFaithful, RoePc, Present
    <2>6. KnowsDecision(call[c])'
      BY <1>0, <1>4, <2>1, <2>2, <2>3, <2>4 DEF PersistDecision, KnowsDecision, SameRequest, Own, InScope
    <2>7. KnowsHistory(call[c])'
      BY <1>0, <1>4, <2>1 DEF PersistDecision, KnowsHistory, CallFaithful, SameRequest
    <2> QED
      BY <1>4, <2>1, <2>2, <2>4, <2>5, <2>6, <2>7, MovesOn DEF PersistDecision, Own
  <1>5. CASE RecordDecisionAudit(c)
    <2>1. PICK st \in {"told", "audited"} : decision' = [decision EXCEPT ![call[c].dec].stage = st]
      BY <1>5 DEF RecordDecisionAudit
    <2>2. \A d \in Decision : decision'[d] # decision[d] => call[c].pc \in Own /\ d = call[c].dec
      BY <1>0, <1>5, <2>1 DEF RecordDecisionAudit, Own
    <2>3. CASE call[c].from = None
      BY <1>5, <2>2, <2>3, MovesDone DEF RecordDecisionAudit
    <2>4. CASE call[c].from # None
      <3>1. /\ call' \in [Call -> CallRecord] /\ Alone(c)
            /\ call'[c].pc = "reload" /\ call'[c].ver = call[c].ver /\ SameRequest(c)
        BY <1>0, <1>5, <2>4, GotoShape DEF RecordDecisionAudit, Pc
      <3>2. /\ call[c].dec \in Decision /\ decision[call[c].dec] # None
            /\ decision[call[c].dec].targets = call[c].targets /\ decision[call[c].dec] \in DecisionRow
        BY <1>0, <1>5 DEF RecordDecisionAudit, CallFaithful, KnowsDecision
      <3>3. KnowsVersion(call[c])' /\ KnowsHistory(call[c])'
        BY <1>0, <1>5, <3>1 DEF RecordDecisionAudit, KnowsVersion, KnowsHistory, CallFaithful, SameRequest, RoePc
      <3>4. KnowsDecision(call[c])'
        <4>1. DecisionKept(call[c].dec)
          BY <1>0, <3>2 DEF RowsKept
        <4>2. decision'[call[c].dec].stage # "row"
          BY <1>0, <2>1, <3>2 DEF DecisionRow
        <4> QED
          BY <3>1, <3>2, <4>1, <4>2 DEF KnowsDecision, SameRequest, Own, DecisionKept
      <3>5. ~call[c].bound
        <4>1. /\ call[c].targets = RefreshTargets(call[c].from)
              /\ call[c].bound = token[call[c].from].bound /\ call[c].targets \subseteq Target
          BY <1>0, <1>5, <2>4, ConstantsAssumption
             DEF RecordDecisionAudit, CallFaithful, KnowsParent, KnowsDecision, KnowsVersion, InScope, Own, RoePc
        <4> QED
          BY <4>1, SentinelsAssumption DEF RefreshTargets
      <3> QED
        BY <1>5, <2>2, <2>4, <3>1, <3>3, <3>4, <3>5, MovesOn DEF RecordDecisionAudit, SameRequest, Own
    <2> QED
      BY <2>3, <2>4
  <1> QED
    BY <1>1, <1>2, <1>3, <1>4, <1>5 DEF PolicyStep

LEMMA HistoryIsBoolean == Settled \in BOOLEAN /\ \A T : Revoked(T) \in BOOLEAN
  BY DEF Settled, Revoked

\* The requests of services.
LEMMA MovesClient ==
  ASSUME Context, NEW c \in Call, ClientRequest(c)
  PROVE  Moves(c)
  <1>0. /\ call \in [Call -> CallRecord] /\ RowsKept /\ (Settled => Settled')
        /\ decision \in [Decision -> DecisionRow \cup {None}]
        /\ token \in [Token -> TokenRow \cup {None}]
    BY DEF Context, IInv, TypeOK
  <1>1. ASSUME NEW d \in Decision, Authorize(c, d) PROVE Moves(c)
    <2> DEFINE r == [NoCall EXCEPT !.pc = "revocations", !.dec = d,
                  !.targets = RequestOf[d].targets, !.bound = RequestOf[d].watch,
                  !.killed = Revoked(RequestOf[d].targets), !.settled = Settled]
    <2>1. RequestOf[d].targets \in SUBSET Target /\ RequestOf[d].watch \in BOOLEAN
      BY ConstantsAssumption
    <2>2. r \in CallRecord
      BY <2>1, HistoryIsBoolean, NoCallType DEF CallRecord, Pc
    <2>3. call' \in [Call -> CallRecord] /\ call'[c] = r /\ Alone(c) /\ UNCHANGED <<decision, token>>
      BY <1>0, <1>1, <2>2, StartShape DEF Authorize
    <2>4. /\ call'[c].pc = "revocations" /\ call'[c].dec = d /\ call'[c].from = None
          /\ call'[c].targets = RequestOf[d].targets
          /\ call'[c].killed = Revoked(RequestOf[d].targets) /\ call'[c].settled = Settled
      BY <2>3 DEF NoCall
    <2>5. decision[d] = None /\ FreshDecision(d)
      BY <1>1 DEF Authorize, FreshDecision
    <2>6. KnowsVersion(call[c])' /\ KnowsDecision(call[c])' /\ KnowsParent(call[c])'
      BY <2>3, <2>4, <2>5 DEF KnowsVersion, KnowsDecision, KnowsParent, Own, RoePc
    <2>7. KnowsHistory(call[c])'
      BY <1>0, <2>4 DEF KnowsHistory, Revoked, RowsKept, RevKey
    <2> QED
      BY <2>3, <2>4, <2>5, <2>6, <2>7 DEF Moves, CallFaithful
  <1>2. ASSUME NEW d \in Decision, NEW v \in Version, MintToken(c, d, v) PROVE Moves(c)
    <2> DEFINE r == [NoCall EXCEPT !.pc = "register", !.ver = v, !.dec = d,
                  !.targets = MintTargets(d, v), !.bound = decision[d].watch, !.settled = Settled]
    <2>1. /\ decision[d] # None /\ decision[d].stage = "told" /\ decision[d] \in DecisionRow
          /\ InForce(v) /\ Present(v)
      BY <1>0, <1>2 DEF MintToken, Mintable, InForce, IsLatest
    <2>2. /\ MintTargets(d, v) \in SUBSET (Target \cup {ScopeRef}) /\ decision[d].watch \in BOOLEAN
          /\ v \in 0 .. MaxVersion
      BY <2>1, ConstantsAssumption DEF MintTargets, DecisionRow, Version
    <2>3. r \in CallRecord
      BY <2>2, HistoryIsBoolean, NoCallType DEF CallRecord, Pc
    <2>4. call' \in [Call -> CallRecord] /\ call'[c] = r /\ Alone(c) /\ UNCHANGED <<status, decision, token>>
      BY <1>0, <1>2, <2>3, StartShape DEF MintToken
    <2>5. /\ call'[c].pc = "register" /\ call'[c].dec = d /\ call'[c].from = None /\ call'[c].ver = v
          /\ call'[c].targets = MintTargets(d, v) /\ call'[c].bound = decision[d].watch
          /\ ~call'[c].killed /\ call'[c].settled = Settled
      BY <2>4 DEF NoCall
    <2>6. ~Settled
      BY <2>1, SettledNotInForce
    <2>7. KnowsVersion(call[c])' /\ KnowsDecision(call[c])' /\ KnowsHistory(call[c])'
      BY <2>1, <2>4, <2>5, <2>6 DEF KnowsVersion, KnowsDecision, KnowsHistory, Own, RoePc, Present
    <2>8. Narrow(call[c])' /\ KnowsParent(call[c])'
      BY <2>1, <2>4, <2>5 DEF Narrow, MintTargets, KnowsParent, Own
    <2> QED
      BY <2>1, <2>4, <2>5, <2>7, <2>8 DEF Moves, CallFaithful, Own
  <1>3. ASSUME NEW j \in Token, NEW T \in SUBSET Target, ExchangeToken(c, j, T) PROVE Moves(c)
    <2> DEFINE r == [NoCall EXCEPT !.pc = "exchange", !.targets = T, !.from = j,
                  !.dec = token[j].dec, !.settled = Settled]
    <2>1. /\ token[j] # None /\ token[j] \in TokenRow /\ T \subseteq token[j].targets
      BY <1>0, <1>3 DEF ExchangeToken, Usable, Narrowed
    <2>2. token[j].dec \in Decision
      BY <2>1 DEF TokenRow
    <2>3. r \in CallRecord
      BY <2>2, HistoryIsBoolean, NoCallType DEF CallRecord, Pc
    <2>4. call' \in [Call -> CallRecord] /\ call'[c] = r /\ Alone(c) /\ UNCHANGED <<decision, token>>
      BY <1>0, <1>3, <2>3, StartShape DEF ExchangeToken
    <2>5. /\ call'[c].pc = "exchange" /\ call'[c].dec = token[j].dec /\ call'[c].from = j
          /\ call'[c].targets = T /\ ~call'[c].bound
          /\ ~call'[c].killed /\ call'[c].settled = Settled
      BY <2>4 DEF NoCall
    <2>6. j # None
      BY SentinelsAssumption
    <2>7. KnowsVersion(call[c])' /\ KnowsDecision(call[c])' /\ KnowsHistory(call[c])'
      BY <1>0, <2>5 DEF KnowsVersion, KnowsDecision, KnowsHistory, Own, RoePc
    <2>8. KnowsParent(call[c])'
      BY <2>1, <2>4, <2>5, <2>6 DEF KnowsParent, Own
    <2>9. decision[token[j].dec] # None /\ decision[token[j].dec].stage # "row"
      BY <2>1 DEF Context, IInv, TypeOK, Rows, NoTokenUnaudited
    <2> QED
      BY <2>4, <2>5, <2>7, <2>8, <2>9 DEF Moves, CallFaithful, Own
  <1>4. ASSUME NEW j \in Token, NEW d \in Decision, RefreshToken(c, j, d) PROVE Moves(c)
    <2> DEFINE r == [NoCall EXCEPT !.pc = "revocations", !.targets = RefreshTargets(j),
                  !.dec = d, !.from = j, !.bound = token[j].bound,
                  !.killed = Revoked(RefreshTargets(j)), !.settled = Settled]
    <2>1. token[j] # None /\ token[j] \in TokenRow
      BY <1>0, <1>4 DEF RefreshToken, Usable
    <2>2. RefreshTargets(j) \in SUBSET (Target \cup {ScopeRef}) /\ token[j].bound \in BOOLEAN
      BY <2>1 DEF TokenRow, RefreshTargets
    <2>3. r \in CallRecord
      BY <2>2, HistoryIsBoolean, NoCallType DEF CallRecord, Pc
    <2>4. call' \in [Call -> CallRecord] /\ call'[c] = r /\ Alone(c) /\ UNCHANGED <<decision, token>>
      BY <1>0, <1>4, <2>3, StartShape DEF RefreshToken
    <2>5. /\ call'[c].pc = "revocations" /\ call'[c].dec = d /\ call'[c].from = j
          /\ call'[c].targets = RefreshTargets(j) /\ call'[c].bound = token[j].bound
          /\ call'[c].killed = Revoked(RefreshTargets(j)) /\ call'[c].settled = Settled
      BY <2>4 DEF NoCall
    <2>6. decision[d] = None /\ FreshDecision(d)
      BY <1>4 DEF RefreshToken, FreshDecision
    <2>7. KnowsVersion(call[c])' /\ KnowsDecision(call[c])'
      BY <2>4, <2>5, <2>6 DEF KnowsVersion, KnowsDecision, Own, RoePc
    <2>8. KnowsParent(call[c])'
      BY <2>1, <2>4, <2>5 DEF KnowsParent, Own, RefreshTargets
    <2>9. KnowsHistory(call[c])'
      BY <1>0, <2>5 DEF KnowsHistory, Revoked, RowsKept, RevKey
    <2> QED
      BY <2>4, <2>5, <2>6, <2>7, <2>8, <2>9 DEF Moves, CallFaithful
  <1> QED
    BY <1>1, <1>2, <1>3, <1>4 DEF ClientRequest

\* A call that has a successor token to register.
LEMMA MovesToRegister ==
  ASSUME Context, NEW c \in Call, NEW v \in Version, Present(v),
         call' = [call EXCEPT ![c].pc = "register", ![c].ver = v],
         UNCHANGED <<status, decision, token>>, ~call[c].settled, ~call[c].killed,
         call[c].from # None, ~call[c].bound, call[c].dec \in Decision,
         decision[call[c].dec] # None, decision[call[c].dec].stage # "row",
         call[c].targets \subseteq token[call[c].from].targets, token[call[c].from] # None,
         \/ call[c].targets \subseteq decision[call[c].dec].targets
         \/ decision[call[c].dec].watch
  PROVE  Moves(c)
  <1>1. /\ call' \in [Call -> CallRecord] /\ Alone(c)
        /\ call'[c].pc = "register" /\ call'[c].ver = v /\ SameRequest(c)
    BY GotoVersionShape DEF Context, IInv, TypeOK, Pc
  <1>2. KnowsVersion(call[c])' /\ KnowsDecision(call[c])' /\ KnowsHistory(call[c])'
    BY <1>1 DEF KnowsVersion, KnowsDecision, KnowsHistory, SameRequest, Own, RoePc, Present
  <1>3. Narrow(call[c])' /\ KnowsParent(call[c])'
    BY <1>1 DEF Narrow, KnowsParent, SameRequest, Own
  <1> QED
    BY <1>1, <1>2, <1>3 DEF Moves, CallFaithful, SameRequest, Own

\* The token service.
LEMMA MovesToken ==
  ASSUME Context, NEW c \in Call, TokenStep(c)
  PROVE  Moves(c)
  <1>0. /\ call[c] \in CallRecord /\ CallFaithful(call[c]) /\ RowsKept
        /\ call \in [Call -> CallRecord] /\ token \in [Token -> TokenRow \cup {None}]
    BY DEF Context, IInv, TypeOK, CallsFaithful
  <1>1. ASSUME NEW v \in Version, LoadOverdue(c, v) PROVE Moves(c)
    <2>0. Present(v) /\ UNCHANGED <<status, decision, token>>
      BY <1>1 DEF LoadOverdue, MayBeOverdue, Present
    <2>1. CASE call' = [call EXCEPT ![c] = [NoCall EXCEPT !.pc = "expire", !.ver = v]]
      BY <2>0, <2>1, MovesOperator
    <2>2. CASE /\ call[c].pc = "reload"
               /\ call' = [call EXCEPT ![c].pc = "expireReload", ![c].ver = v]
      <3>1. /\ call' \in [Call -> CallRecord] /\ Alone(c)
            /\ call'[c].pc = "expireReload" /\ call'[c].ver = v /\ SameRequest(c)
        BY <1>0, <2>2, GotoVersionShape DEF Pc
      <3>2. KnowsVersion(call[c])' /\ KnowsDecision(call[c])' /\ KnowsHistory(call[c])'
        BY <1>0, <2>0, <2>2, <3>1 DEF KnowsVersion, KnowsDecision, KnowsHistory, CallFaithful,
           SameRequest, Own, RoePc, Present
      <3>3. call[c].from # None /\ ~call[c].bound
        BY <1>0, <2>2 DEF CallFaithful, KnowsParent
      <3> QED
        BY <2>0, <2>2, <3>1, <3>2, <3>3, MovesOn DEF SameRequest, Own
    <2> QED
      BY <1>1, <2>1, <2>2 DEF LoadOverdue
  <1>2. ASSUME NEW v \in Version, ExchangeLoadsROE(c, v) PROVE Moves(c)
    <2>1. /\ Present(v) /\ ~Settled /\ call[c].pc = "exchange"
          /\ call' = [call EXCEPT ![c].pc = "register", ![c].ver = v]
          /\ UNCHANGED <<status, decision, token>>
      BY <1>2, SettledNotInForce DEF ExchangeLoadsROE, InForce, IsLatest
    <2>2. ~call[c].settled /\ ~call[c].killed
      BY <1>0, <2>1 DEF CallFaithful, KnowsHistory
    <2>3. /\ call[c].from # None /\ call[c].from \in Token /\ token[call[c].from] # None
          /\ ~call[c].bound /\ call[c].dec = token[call[c].from].dec
          /\ call[c].targets \subseteq token[call[c].from].targets
      BY <1>0, <2>1 DEF CallFaithful, KnowsParent, CallRecord
    <2>4. /\ call[c].dec \in Decision /\ decision[call[c].dec] # None
          /\ decision[call[c].dec].stage # "row" /\ Narrow(token[call[c].from])
      BY <1>0, <2>3 DEF Context, IInv, TypeOK, Rows, NoTokenUnaudited, TokensNarrow, TokenRow
    <2>5. token[call[c].from].bound \in BOOLEAN
      BY <1>0, <2>3 DEF TokenRow
    <2>6. \/ call[c].targets \subseteq decision[call[c].dec].targets
          \/ decision[call[c].dec].watch
      BY <2>3, <2>4, <2>5 DEF Narrow
    <2> QED
      BY <2>1, <2>2, <2>3, <2>4, <2>6, MovesToRegister
  <1>3. ASSUME NEW v \in Version, RefreshReloadsROE(c, v) PROVE Moves(c)
    <2>1. /\ Present(v) /\ call[c].pc = "reload"
          /\ call' = [call EXCEPT ![c].pc = "register", ![c].ver = v]
          /\ UNCHANGED <<status, decision, token>>
      BY <1>3 DEF RefreshReloadsROE, IsLatest
    <2>2. ~call[c].settled /\ ~call[c].killed
      BY <1>0, <2>1 DEF CallFaithful, KnowsHistory
    <2>3. /\ call[c].from # None /\ token[call[c].from] # None /\ ~call[c].bound
          /\ call[c].targets = token[call[c].from].targets
      BY <1>0, <2>1 DEF CallFaithful, KnowsParent, RefreshTargets
    <2>4. /\ call[c].dec \in Decision /\ decision[call[c].dec] # None
          /\ decision[call[c].dec].stage # "row" /\ decision[call[c].dec].targets = call[c].targets
      BY <1>0, <2>1 DEF CallFaithful, KnowsDecision
    <2> QED
      BY <2>1, <2>2, <2>3, <2>4, MovesToRegister
  <1>4. ASSUME NEW j \in Token, Register(c, j) PROVE Moves(c)
    BY <1>4, MovesDone DEF Register
  <1> QED
    BY <1>1, <1>2, <1>3, <1>4 DEF TokenStep

-----------------------------------------------------------------------------
(* The invariant is inductive.                                              *)

LEMMA Movers ==
  ASSUME Context, [Next]_vars
  PROVE  UNCHANGED <<call, decision>> \/ Restart \/ \E c \in Call : Moves(c)
  <1>1. ASSUME NEW c \in Call, GiveUp(c) PROVE Moves(c)
    BY <1>1, MovesDone DEF GiveUp
  <1>2. CASE CreateROE \/ (\E k \in KillKey : Revoke(k)) \/ (\E j \in Token : RevokeToken(j))
    BY <1>2 DEF CreateROE, Revoke, RevokeToken
  <1>3. CASE UNCHANGED vars
    BY <1>3 DEF vars
  <1> QED
    BY <1>1, <1>2, <1>3, MovesRoe, MovesPolicy, MovesClient, MovesToken, ConstantsAssumption DEF Next

LEMMA CallsFaithfulStep ==
  ASSUME Context, [Next]_vars
  PROVE  CallsFaithful'
  <1> SUFFICES ASSUME NEW e \in Call PROVE CallFaithful(call[e])'
    BY DEF CallsFaithful
  <1>1. CASE UNCHANGED <<call, decision>>
    BY <1>1, StaysFaithful
  <1>2. CASE Restart
    <2>1. call'[e] = NoCall
      BY <1>2 DEF Restart
    <2> QED
      BY <2>1, NoCallFaithfulNext
  <1>3. ASSUME NEW c \in Call, Moves(c) PROVE CallFaithful(call[e])'
    <2>1. CASE e = c
      BY <1>3, <2>1 DEF Moves
    <2>2. CASE e # c
      <3>1. call'[e] = call[e]
        BY <1>3, <2>2 DEF Moves, Alone
      <3>2. call[e].pc \in Own => call[e].dec \in Decision
        BY DEF Context, IInv, CallsFaithful, CallFaithful, KnowsDecision
      <3>3. call[e].pc \in Own => decision'[call[e].dec] = decision[call[e].dec]
        BY <1>3, <2>2, <3>2 DEF Moves, Context, IInv, OwnDecision
      <3> QED
        BY <3>1, <3>3, StaysFaithful
    <2> QED
      BY <2>1, <2>2
  <1> QED
    BY <1>1, <1>2, <1>3, Movers

LEMMA OwnDecisionStep ==
  ASSUME Context, [Next]_vars
  PROVE  OwnDecision'
  <1> SUFFICES ASSUME NEW f \in Call, NEW e \in Call, f # e, call'[f].pc \in Own
               PROVE call'[e].dec # call'[f].dec
    BY DEF OwnDecision
  <1>1. CASE UNCHANGED <<call, decision>>
    BY <1>1 DEF Context, IInv, OwnDecision
  <1>2. CASE Restart
    BY <1>2 DEF Restart, NoCall, Own
  <1>3. ASSUME NEW c \in Call, Moves(c) PROVE call'[e].dec # call'[f].dec
    <2>1. CASE f = c
      <3>1. call'[e].dec = call[e].dec
        BY <1>3, <2>1 DEF Moves, Alone
      <3> QED
        BY <1>3, <2>1, <3>1 DEF Moves, FreshDecision, Context, IInv, OwnDecision
    <2>2. CASE f # c /\ e = c
      <3>1. call'[f] = call[f]
        BY <1>3, <2>2 DEF Moves, Alone
      <3>2. /\ call[f].dec \in Decision
            /\ decision[call[f].dec] = None \/ decision[call[f].dec].stage = "row"
        BY <3>1 DEF Context, IInv, CallsFaithful, CallFaithful, KnowsDecision, Own
      <3> QED
        BY <1>3, <2>2, <3>1, <3>2, SentinelsAssumption DEF Moves, FreshDecision, Context, IInv, OwnDecision
    <2>3. CASE f # c /\ e # c
      BY <1>3, <2>3 DEF Moves, Alone, Context, IInv, OwnDecision
    <2> QED
      BY <2>1, <2>2, <2>3
  <1> QED
    BY <1>1, <1>2, <1>3, Movers

\* The rows of decisions.
LEMMA DecisionRowsStep ==
  ASSUME Context, [Next]_vars, NEW d \in Decision, decision'[d] # None
  PROVE  /\ decision'[d] \in DecisionRow /\ ~decision'[d].killed
         /\ InScope(decision[d].targets, decision[d].ver)' /\ Present(decision[d].ver)'
  <1>0. RowsKept /\ decision \in [Decision -> DecisionRow \cup {None}]
    BY DEF Context, IInv, TypeOK
  <1>1. CASE decision[d] # None
    <2>1. DecisionKept(d) /\ decision[d] \in DecisionRow
      BY <1>0, <1>1 DEF RowsKept
    <2>2. /\ InScope(decision[d].targets, decision[d].ver)
          /\ ~decision[d].killed /\ Present(decision[d].ver) /\ decision[d].ver \in Version
      BY <1>1, <2>1 DEF Context, IInv, Rows, DecisionsInScope, KillStopsDecisions, TypeOK, DecisionRow
    <2>3. /\ ~decision'[d].killed /\ InScope(decision[d].targets, decision[d].ver)'
          /\ Present(decision[d].ver)'
      BY <1>0, <1>1, <2>1, <2>2 DEF DecisionKept, RowsKept, InScope
    <2>4. ASSUME NEW c \in Call, PersistDecision(c) PROVE decision'[d] \in DecisionRow
      <3>1. decision[call[c].dec] = None
        BY <2>4 DEF PersistDecision, Context, IInv, CallsFaithful, CallFaithful, KnowsDecision, Own
      <3> QED
        BY <1>0, <1>1, <2>1, <2>4, <3>1 DEF PersistDecision
    <2>5. ASSUME NEW c \in Call, RecordDecisionAudit(c) PROVE decision'[d] \in DecisionRow
      <3>1. PICK st \in {"told", "audited"} :
               decision' = [decision EXCEPT ![call[c].dec].stage = st]
        BY <2>5 DEF RecordDecisionAudit
      <3>2. [decision[d] EXCEPT !.stage = st] \in DecisionRow
        BY <2>1 DEF DecisionRow
      <3> QED
        BY <1>0, <2>1, <3>1, <3>2
    <2> QED
      BY <2>1, <2>3, <2>4, <2>5, Writers
  <1>2. CASE decision[d] = None
    <2>1. ASSUME NEW c \in Call, RecordDecisionAudit(c) PROVE FALSE
      <3>1. call[c].dec \in Decision /\ decision[call[c].dec] # None
        BY <2>1 DEF RecordDecisionAudit, Context, IInv, CallsFaithful, CallFaithful, KnowsDecision
      <3> QED
        BY <1>0, <1>2, <2>1, <3>1 DEF RecordDecisionAudit
    <2>2. PICK c \in Call : PersistDecision(c)
      BY <1>2, <2>1, Writers
    <2>3. /\ d = call[c].dec /\ call[c] \in CallRecord /\ CallFaithful(call[c])
          /\ decision'[d] = [ver |-> call[c].ver, targets |-> call[c].targets,
               stage |-> "row", watch |-> call[c].bound, killed |-> call[c].killed]
      BY <1>0, <1>2, <2>2 DEF PersistDecision, Context, IInv, TypeOK, CallsFaithful
    <2>4. /\ call[c].ver \in Version /\ Present(call[c].ver) /\ ~call[c].killed
          /\ InScope(call[c].targets, call[c].ver)
      BY <2>2, <2>3 DEF PersistDecision, CallFaithful, KnowsVersion, KnowsDecision, KnowsHistory, RoePc
    <2>5. decision'[d] \in DecisionRow
      BY <2>3, <2>4 DEF DecisionRow, CallRecord
    <2> QED
      BY <1>0, <2>3, <2>4, <2>5 DEF RowsKept, InScope
  <1> QED
    BY <1>1, <1>2

\* The rows of tokens.
LEMMA TokenRowsStep ==
  ASSUME Context, [Next]_vars, NEW j \in Token, token'[j] # None
  PROVE  /\ token'[j] \in TokenRow /\ ~token'[j].settled /\ Narrow(token[j])'
         /\ decision'[token'[j].dec] # None /\ decision'[token'[j].dec].stage # "row"
  <1>0. /\ RowsKept /\ token \in [Token -> TokenRow \cup {None}]
        /\ decision \in [Decision -> DecisionRow \cup {None}]
    BY DEF Context, IInv, TypeOK
  <1>1. CASE token[j] # None
    <2>1. TokenKept(j) /\ token[j] \in TokenRow /\ token[j].dec \in Decision
          /\ token[j].from \in Token \cup {None}
      BY <1>0, <1>1 DEF RowsKept, TokenRow
    <2>2. /\ ~token[j].settled /\ Narrow(token[j])
          /\ decision[token[j].dec] # None /\ decision[token[j].dec].stage # "row"
      BY <1>1 DEF Context, IInv, Rows, TokensNarrow, NoTokenUnaudited, SettledMintsNothing, TypeOK
    <2>3. DecisionKept(token[j].dec)
      BY <1>0, <2>1 DEF RowsKept
    <2>4. token[j].from # None => TokenKept(token[j].from) /\ token[token[j].from] # None
      BY <1>0, <2>1, <2>2 DEF RowsKept, Narrow
    <2>5. Narrow(token[j])'
      BY <1>1, <2>1, <2>2, <2>3, <2>4 DEF Narrow, TokenKept, DecisionKept
    <2>6. ASSUME NEW c \in Call, NEW i \in Token, Register(c, i) PROVE token'[j] = token[j]
      BY <1>1, <2>6 DEF Register
    <2>7. ASSUME NEW i \in Token, RevokeToken(i) PROVE token'[j] \in TokenRow
      <3>1. [token[j] EXCEPT !.revoked = TRUE] \in TokenRow
        BY <2>1 DEF TokenRow
      <3> QED
        BY <1>0, <2>1, <2>7, <3>1 DEF RevokeToken
    <2>8. token'[j] \in TokenRow
      BY <2>1, <2>6, <2>7, Writers
    <2> QED
      BY <1>1, <2>1, <2>2, <2>3, <2>5, <2>8 DEF TokenKept, DecisionKept
  <1>2. CASE token[j] = None
    <2>1. ASSUME NEW i \in Token, RevokeToken(i) PROVE token'[j] = token[j]
      BY <1>0, <1>2, <2>1 DEF RevokeToken, Usable
    <2>2. PICK c \in Call : Register(c, j)
      BY <1>2, <2>1, Writers, <1>0 DEF Register
    <2>3. /\ call[c].pc = "register" /\ call[c] \in CallRecord /\ CallFaithful(call[c])
          /\ token'[j] = [ver |-> call[c].ver, targets |-> call[c].targets, dec |-> call[c].dec,
               from |-> call[c].from, bound |-> call[c].bound, revoked |-> FALSE,
               settled |-> call[c].settled]
      BY <1>0, <2>2 DEF Register, Context, IInv, TypeOK, CallsFaithful
    <2>4. /\ call[c].ver \in Version /\ call[c].dec \in Decision /\ ~call[c].settled
          /\ decision[call[c].dec] # None /\ decision[call[c].dec].stage # "row" /\ Narrow(call[c])
      BY <2>3 DEF CallFaithful, KnowsVersion, KnowsDecision, KnowsParent, KnowsHistory
    <2>5. token'[j] \in TokenRow
      BY <2>3, <2>4 DEF TokenRow, CallRecord
    <2>6. DecisionKept(call[c].dec) /\ (call[c].from # None => TokenKept(call[c].from))
      BY <1>0, <2>3, <2>4 DEF RowsKept, CallRecord
    <2>7. Narrow(token[j])'
      BY <2>3, <2>4, <2>6 DEF Narrow, DecisionKept, TokenKept
    <2> QED
      BY <2>3, <2>4, <2>5, <2>6, <2>7 DEF DecisionKept
  <1> QED
    BY <1>1, <1>2

\* Versions are inserted in order.
LEMMA StatusStep ==
  ASSUME Context, [Next]_vars
  PROVE  /\ status' \in [Version -> Status]
         /\ \A v \in Version : Present(v)' => \A w \in 1 .. v : Present(w)'
  <1>0. /\ status \in [Version -> Status] /\ CallsFaithful
        /\ \A v \in Version : Present(v) => \A w \in 1 .. v : Present(w)
    BY DEF Context, IInv, TypeOK
  <1>1. CASE UNCHANGED status
    BY <1>0, <1>1 DEF Present
  <1>2. CASE WritesStatus
    <2>1. PICK v \in Version, st \in Status \ {"absent"} : WritesRow(v, st)
      BY <1>0, <1>2, RowWritten
    <2>2. status' = [status EXCEPT ![v] = st] /\ status' \in [Version -> Status]
      BY <1>0, <2>1 DEF WritesRow
    <2>3. \A w \in Version : Present(w)' <=> Present(w) \/ w = v
      BY <1>0, <2>2 DEF Present
    <2>4. \A w \in 1 .. v : w = v \/ Present(w)
      <3>1. CASE Present(v)
        BY <1>0, <3>1
      <3>2. CASE ~Present(v) /\ v = 1
        BY <3>2
      <3>3. CASE ~Present(v) /\ v - 1 \in Version /\ Present(v - 1)
        <4>1. \A w \in 1 .. v : w = v \/ w \in 1 .. (v - 1)
          BY ConstantsAssumption DEF Version
        <4> QED
          BY <1>0, <3>3, <4>1
      <3> QED
        BY <2>1, <3>1, <3>2, <3>3 DEF WritesRow
    <2>5. \A u \in Version : \A w \in 1 .. u : w \in Version
      BY ConstantsAssumption DEF Version
    <2> QED
      BY <1>0, <2>2, <2>3, <2>4, <2>5
  <1> QED
    BY <1>1, <1>2, Writers

LEMMA RevocationsStep ==
  ASSUME Context, [Next]_vars
  PROVE  rev' \in [RevKey -> RevState]
  <1>0. rev \in [RevKey -> RevState] /\ KillKey \subseteq RevKey
    BY ConstantsAssumption DEF Context, IInv, TypeOK, RevKey
  <1>1. ASSUME NEW c \in Call, IssueROERevocation(c) PROVE rev' \in [RevKey -> RevState]
    BY <1>0, <1>1 DEF IssueROERevocation, RevState
  <1>2. ASSUME NEW k \in KillKey, Revoke(k) PROVE rev' \in [RevKey -> RevState]
    BY <1>0, <1>2 DEF Revoke, RevState
  <1>3. CASE Restart
    BY <1>0, <1>3 DEF Restart, AfterRestart, RevState
  <1> QED
    BY <1>0, <1>1, <1>2, <1>3, Writers

LEMMA TypeOKStep ==
  ASSUME Context, [Next]_vars
  PROVE  TypeOK'
  <1>0. /\ resolved \subseteq Version /\ CallsFaithful /\ call \in [Call -> CallRecord]
        /\ decision \in [Decision -> DecisionRow \cup {None}]
        /\ token \in [Token -> TokenRow \cup {None}]
    BY DEF Context, IInv, TypeOK
  <1>1. resolved' \subseteq Version
    BY <1>0, Writers DEF ResolveTargets, CallsFaithful, CallFaithful, KnowsVersion, RoePc
  <1>2. decision' \in [Decision -> DecisionRow \cup {None}]
    <2>1. decision' = [d \in Decision |-> decision'[d]]
      BY <1>0, Writers DEF PersistDecision, RecordDecisionAudit
    <2> QED
      BY <2>1, DecisionRowsStep
  <1>3. token' \in [Token -> TokenRow \cup {None}]
    <2>1. token' = [j \in Token |-> token'[j]]
      BY <1>0, Writers DEF Register, RevokeToken
    <2> QED
      BY <2>1, TokenRowsStep
  <1>4. call' \in [Call -> CallRecord]
    BY <1>0, Movers, NoCallType DEF Moves, Restart
  <1>5. \A d \in Decision : decision'[d] # None => Present(decision[d].ver)'
    BY DecisionRowsStep
  <1>6. \A j \in Token : token'[j] # None => decision'[token'[j].dec] # None
    BY TokenRowsStep
  <1> QED
    BY <1>1, <1>2, <1>3, <1>4, <1>5, <1>6, StatusStep, RevocationsStep DEF TypeOK

LEMMA InitIInv == Init => IInv
  <1> SUFFICES ASSUME Init PROVE IInv
    OBVIOUS
  <1>1. TypeOK
    BY NoCallType DEF Init, TypeOK, Present, Status, RevState
  <1>2. CallsFaithful
    BY NoCallFaithful DEF Init, CallsFaithful
  <1>3. OwnDecision
    BY DEF Init, OwnDecision, NoCall, Own
  <1>4. Rows
    BY DEF Init, Rows, DecisionsInScope, TokensNarrow, NoTokenUnaudited, KillStopsDecisions,
       SettledMintsNothing
  <1> QED
    BY <1>1, <1>2, <1>3, <1>4 DEF IInv

LEMMA StepIInv == IInv /\ [Next]_vars => IInv'
  <1> SUFFICES ASSUME IInv, [Next]_vars PROVE IInv'
    OBVIOUS
  <1>1. Context
    BY RowsKeptStep, SettledStep DEF Context, IInv
  <1>2. Rows'
    BY <1>1, DecisionRowsStep, TokenRowsStep
       DEF Rows, DecisionsInScope, TokensNarrow, NoTokenUnaudited, KillStopsDecisions,
           SettledMintsNothing
  <1> QED
    BY <1>1, <1>2, TypeOKStep, CallsFaithfulStep, OwnDecisionStep DEF IInv

-----------------------------------------------------------------------------
(* The theorems.                                                            *)

\* What the properties rest on: whatever statements of RPCs interleave, the
\* rows are well formed, what an RPC has read of them is still so, and no two
\* RPCs evaluate the pipeline for one decision id.
THEOREM Inductive == Spec => []IInv
  BY InitIInv, StepIInv, PTL DEF Spec

\* Versions are numbered without a gap although an update reads the latest
\* version and inserts the next by two statements; decisions cite inserted
\* versions, tokens cite inserted decisions (the foreign keys hold).
THEOREM TypeCorrect == Spec => []TypeOK
  <1>1. IInv => TypeOK
    BY DEF IInv
  <1> QED
    BY <1>1, Inductive, PTL

\* Authorize allows only resolved targets of the version the decision cites,
\* although status, scope and decision rows are separate statements.
THEOREM AllowedInScope == Spec => []DecisionsInScope
  <1>1. IInv => DecisionsInScope
    BY DEF IInv, Rows
  <1> QED
    BY <1>1, Inductive, PTL

\* Mint, exchange and refresh only narrow, along any chain of successors.
THEOREM NeverWidened == Spec => []TokensNarrow
  <1>1. IInv => TokensNarrow
    BY DEF IInv, Rows
  <1> QED
    BY <1>1, Inductive, PTL

\* finish answers ALLOW only after the audit event: no token is registered on
\* a decision whose event is missing.
THEOREM AuditedFirst == Spec => []NoTokenUnaudited
  <1>1. IInv => NoTokenUnaudited
    BY DEF IInv, Rows
  <1> QED
    BY <1>1, Inductive, PTL

\* A request that began under a standing revocation gets no ALLOW row, since
\* step 2 of the pipeline comes before the row and no code lifts a revocation.
THEOREM KillEffective == Spec => []KillStopsDecisions
  <1>1. IInv => KillStopsDecisions
    BY DEF IInv, Rows
  <1> QED
    BY <1>1, Inductive, PTL

\* A mint, exchange or refresh that began on a settled revoked RoE registers
\* nothing, although a refresh ignores the status at its second load.
THEOREM SettledNoMint == Spec => []SettledMintsNothing
  <1>1. IInv => SettledMintsNothing
    BY DEF IInv, Rows
  <1> QED
    BY <1>1, Inductive, PTL

\* RevokeROE is final once no call that read the record before is still to
\* write it: the UPDATEs, which name only the version, come from such calls.
THEOREM SettledFinal == Spec => SettledIsFinal
  <1>1. IInv /\ [Next]_vars => [Settled => Settled']_vars
    BY SettledStep DEF IInv
  <1> QED
    BY <1>1, Inductive, PTL DEF Spec, SettledIsFinal

-----------------------------------------------------------------------------
(***************************************************************************)
(* Four eyes, for any number of approvals, people and overlapping calls.   *)
(*                                                                         *)
(* A call decides from the votes it captured before its own INSERT.  The   *)
(* invariant says that what it captured is still in the table (votes are   *)
(* never deleted), that it is past the eligibility check, and that its own *)
(* vote is not among the captured ones (the primary key refused it else):  *)
(* so one captured approve and the own one come from two people.           *)
(***************************************************************************)
\* Neither the requester of the approval nor the author of its RoE version.
Independent(a, p) == p # Author /\ p # requester[a]

VotesIndependent == \A v \in votes : approvalStatus[v.approval] # "none" /\ Independent(v.approval, v.approver)

Deciding == {"votes", "check", "insert", "tally", "expire"}

SessionFaithful(c) ==
    /\ c.pc \in Deciding => c.approval \in Approval /\ approvalStatus[c.approval] # "none"
    /\ c.pc \in {"votes", "check", "insert", "tally"} => c.approver \in Person
    /\ c.pc \in {"check", "insert", "tally"} => c.seen \subseteq VotesOn(c.approval)
    /\ c.pc \in {"insert", "tally"} => Independent(c.approval, c.approver)
    /\ c.pc = "tally" => /\ Vote(c.approval, c.approver, c.decision) \in votes
                         /\ \A v \in c.seen : v.approver # c.approver

SessionsFaithful == \A s \in Session : SessionFaithful(session[s])

FourEyesInv == ApprovalsTypeOK /\ VotesIndependent /\ SessionsFaithful /\ FourEyes

-----------------------------------------------------------------------------
(* What every step leaves alone.                                            *)

\* Rows never go back to "none" and keep their requester, votes stay.
ApprovalsKept ==
    /\ \A a \in Approval : approvalStatus[a] # "none" =>
          approvalStatus'[a] # "none" /\ requester'[a] = requester[a]
    /\ votes \subseteq votes'

LEMMA ApprovalsKeptStep == ApprovalsTypeOK /\ SessionsFaithful /\ [ApprovalsNext]_approvalVars => ApprovalsKept
  <1> SUFFICES ASSUME ApprovalsTypeOK, SessionsFaithful, [ApprovalsNext]_approvalVars PROVE ApprovalsKept
    OBVIOUS
  <1> USE DEF ApprovalsKept, ApprovalsTypeOK
  <1>1. ASSUME NEW a \in Approval, NEW p \in Person, RequestApproval(a, p) PROVE ApprovalsKept
    BY <1>1 DEF RequestApproval
  <1>2. ASSUME NEW s \in Session, InsertVote(s) PROVE ApprovalsKept
    BY <1>2 DEF InsertVote
  <1>3. ASSUME NEW s \in Session, Tally(s) PROVE ApprovalsKept
    BY <1>3 DEF Tally
  <1>4. ASSUME NEW s \in Session, ExpireOnDecision(s) \/ LazyExpire(s) PROVE ApprovalsKept
    BY <1>4 DEF ExpireOnDecision, LazyExpire
  <1>5. ASSUME UNCHANGED <<approvalStatus, requester, votes>> PROVE ApprovalsKept
    BY <1>5
  <1> QED
    BY <1>1, <1>2, <1>3, <1>4, <1>5
       DEF ApprovalsNext, approvalVars, LoadApproval, ReadApproval, LoadVotes, CheckApprover, CallLost,
           TTLPasses, RoleChanges

\* A call that takes no step stays faithful.
LEMMA FaithfulKept ==
  ASSUME ApprovalsTypeOK, ApprovalsKept, NEW s \in Session, SessionFaithful(session[s]), session'[s] = session[s]
  PROVE  SessionFaithful(session[s])'
  <1> DEFINE a == session[s].approval
  <1>1. ASSUME a \in Approval, approvalStatus[a] # "none"
        PROVE  /\ approvalStatus'[a] # "none"
               /\ VotesOn(a) \subseteq VotesOn(a)'
               /\ \A p : Independent(a, p) => p # Author /\ p # requester'[a]
    BY <1>1 DEF VotesOn, Independent, ApprovalsKept
  <1> QED
    BY <1>1 DEF SessionFaithful, Deciding, ApprovalsKept, VotesOn, Independent

-----------------------------------------------------------------------------
(* The inductive invariant.                                                 *)

LEMMA InitInv == ApprovalsInit => FourEyesInv
  <1> SUFFICES ASSUME ApprovalsInit PROVE FourEyesInv
    OBVIOUS
  <1>1. ApprovalsTypeOK
    BY ApprovalsAssumption
       DEF ApprovalsInit, ApprovalsTypeOK, IdleSession, Calls, Statuses, Votes, Decisions
  <1> QED
    BY <1>1 DEF FourEyesInv, ApprovalsInit, VotesIndependent, SessionsFaithful, SessionFaithful, Deciding, IdleSession, FourEyes

LEMMA TypeStep == ApprovalsTypeOK /\ SessionsFaithful /\ [ApprovalsNext]_approvalVars => ApprovalsTypeOK'
  <1> SUFFICES ASSUME ApprovalsTypeOK, SessionsFaithful, [ApprovalsNext]_approvalVars PROVE ApprovalsTypeOK'
    OBVIOUS
  <1> DEFINE OneVoteEach ==
        \A v, w \in votes : v.approval = w.approval /\ v.approver = w.approver
                              => v.decision = w.decision
  <1>0. /\ IdleSession \in Calls
        /\ \A s \in Session : session[s] \in Calls
    BY DEF ApprovalsTypeOK, IdleSession, Calls, Decisions
  <1>1. ASSUME NEW s \in Session, Return(s) PROVE session' \in [Session -> Calls]
    BY <1>0, <1>1 DEF Return, ApprovalsTypeOK
  <1>2. ASSUME NEW s \in Session, NEW pc \in Deciding, NEW seen \in SUBSET Votes,
               Step(s, pc, seen)
        PROVE  session' \in [Session -> Calls]
    BY <1>0, <1>2 DEF Step, ApprovalsTypeOK, Calls, Deciding
  <1>3. ASSUME NEW a \in Approval, NEW p \in Person, RequestApproval(a, p) PROVE ApprovalsTypeOK'
    BY <1>3 DEF RequestApproval, ApprovalsTypeOK, Statuses
  <1>4. ASSUME NEW s \in Session, NEW a \in Approval, NEW p \in Person, NEW d \in Decisions,
               LoadApproval(s, a, p, d)
        PROVE  ApprovalsTypeOK'
    BY <1>4 DEF LoadApproval, ApprovalsTypeOK, Calls
  <1>5. ASSUME NEW s \in Session, NEW a \in Approval, ReadApproval(s, a) PROVE ApprovalsTypeOK'
    BY <1>5 DEF ReadApproval, ApprovalsTypeOK, Calls, Decisions
  <1>6. ASSUME NEW s \in Session, LoadVotes(s) PROVE ApprovalsTypeOK'
    <2>1. VotesOn(session[s].approval) \in SUBSET Votes
      BY DEF VotesOn, ApprovalsTypeOK
    <2>2. session' \in [Session -> Calls]
      BY <1>2, <1>6, <2>1 DEF LoadVotes, Deciding
    <2> QED
      BY <1>6, <2>2 DEF LoadVotes, ApprovalsTypeOK
  <1>7. ASSUME NEW s \in Session, ExpireOnDecision(s) \/ LazyExpire(s) PROVE ApprovalsTypeOK'
    <2>1. session' \in [Session -> Calls]
      BY <1>1, <1>7 DEF ExpireOnDecision, LazyExpire
    <2> QED
      BY <1>7, <2>1 DEF ExpireOnDecision, LazyExpire, ApprovalsTypeOK, Statuses
  <1>8. ASSUME NEW s \in Session, CheckApprover(s) PROVE ApprovalsTypeOK'
    <2>1. session[s].seen \in SUBSET Votes
      BY <1>0 DEF Calls
    <2>2. session' \in [Session -> Calls]
      BY <1>1, <1>2, <1>8, <2>1 DEF CheckApprover, Deciding
    <2> QED
      BY <1>8, <2>2 DEF CheckApprover, ApprovalsTypeOK
  <1>9. ASSUME NEW s \in Session, InsertVote(s) PROVE ApprovalsTypeOK'
    <2> DEFINE c == session[s]
    <2>1. c.seen \in SUBSET Votes /\ c.decision \in Decisions
      BY <1>0 DEF Calls
    <2>2. session' \in [Session -> Calls]
      BY <1>1, <1>2, <1>9, <2>1 DEF InsertVote, Deciding
    <2>3. c.approval \in Approval /\ c.approver \in Person
      BY <1>9 DEF InsertVote, SessionsFaithful, SessionFaithful, Deciding
    <2>4. CASE HasVoted(c.approval, c.approver)
      BY <1>9, <2>2, <2>4 DEF InsertVote, ApprovalsTypeOK
    <2>5. CASE ~HasVoted(c.approval, c.approver)
      <3>1. votes' = votes \cup {Vote(c.approval, c.approver, c.decision)}
        BY <1>9, <2>5 DEF InsertVote
      <3>2. votes' \subseteq Votes
        BY <3>1, <2>1, <2>3 DEF ApprovalsTypeOK, Vote, Votes
      <3>3. \A v \in votes : ~(v.approval = c.approval /\ v.approver = c.approver)
        BY <2>5 DEF HasVoted, VotesOn
      <3>4. OneVoteEach'
        BY <3>1, <3>3 DEF ApprovalsTypeOK, Vote
      <3> QED
        BY <1>9, <2>2, <3>2, <3>4 DEF InsertVote, ApprovalsTypeOK
    <2> QED
      BY <2>4, <2>5
  <1>10. ASSUME NEW s \in Session, Tally(s) PROVE ApprovalsTypeOK'
    <2>1. session' \in [Session -> Calls]
      BY <1>1, <1>10 DEF Tally
    <2>2. approvalStatus' \in [Approval -> Statuses]
      BY <1>10 DEF Tally, ApprovalsTypeOK, Statuses
    <2> QED
      BY <1>10, <2>1, <2>2 DEF Tally, ApprovalsTypeOK
  <1>11. ASSUME NEW s \in Session, CallLost(s) PROVE ApprovalsTypeOK'
    <2>1. session' \in [Session -> Calls]
      BY <1>1, <1>11 DEF CallLost
    <2> QED
      BY <1>11, <2>1 DEF CallLost, ApprovalsTypeOK
  <1>12. ASSUME NEW a \in Approval, TTLPasses(a) PROVE ApprovalsTypeOK'
    BY <1>12 DEF TTLPasses, ApprovalsTypeOK
  <1>13. ASSUME NEW p \in Person, RoleChanges(p) PROVE ApprovalsTypeOK'
    BY <1>13 DEF RoleChanges, ApprovalsTypeOK
  <1>14. CASE UNCHANGED approvalVars
    BY <1>14 DEF approvalVars, ApprovalsTypeOK
  <1> QED
    BY <1>3, <1>4, <1>5, <1>6, <1>7, <1>8, <1>9, <1>10, <1>11, <1>12, <1>13, <1>14 DEF ApprovalsNext

LEMMA VotesStep ==
  ApprovalsTypeOK /\ VotesIndependent /\ SessionsFaithful /\ [ApprovalsNext]_approvalVars => VotesIndependent'
  <1> SUFFICES ASSUME ApprovalsTypeOK, VotesIndependent, SessionsFaithful, [ApprovalsNext]_approvalVars,
                      NEW v \in votes'
               PROVE  approvalStatus'[v.approval] # "none" /\ v.approver # Author
                        /\ v.approver # requester'[v.approval]
    BY DEF VotesIndependent, Independent
  <1>0. ApprovalsKept
    BY ApprovalsKeptStep
  <1>1. CASE v \in votes
    <2>1. v.approval \in Approval
      BY <1>1 DEF ApprovalsTypeOK, Votes
    <2> QED
      BY <1>0, <1>1, <2>1 DEF VotesIndependent, Independent, ApprovalsKept
  <1>2. CASE v \notin votes
    <2>1. PICK s \in Session : InsertVote(s)
      BY <1>2 DEF ApprovalsNext, approvalVars, RequestApproval, LoadApproval, ReadApproval, LoadVotes,
                  ExpireOnDecision, CheckApprover, Tally, LazyExpire, CallLost,
                  TTLPasses, RoleChanges
    <2>2. v = Vote(session[s].approval, session[s].approver, session[s].decision)
      BY <1>2, <2>1 DEF InsertVote
    <2>3. UNCHANGED <<approvalStatus, requester>> /\ SessionFaithful(session[s]) /\ session[s].pc = "insert"
      BY <2>1 DEF InsertVote, SessionsFaithful
    <2> QED
      BY <2>2, <2>3 DEF SessionFaithful, Deciding, Independent, Vote
  <1> QED
    BY <1>1, <1>2

LEMMA CallsStep ==
  ApprovalsTypeOK /\ VotesIndependent /\ SessionsFaithful /\ [ApprovalsNext]_approvalVars => SessionsFaithful'
  <1> SUFFICES ASSUME ApprovalsTypeOK, VotesIndependent, SessionsFaithful, [ApprovalsNext]_approvalVars, NEW q \in Session
               PROVE  SessionFaithful(session[q])'
    BY DEF SessionsFaithful
  <1>0. /\ ApprovalsKept
        /\ SessionFaithful(session[q])
        /\ session[q] \in Calls
    BY ApprovalsKeptStep DEF SessionsFaithful, ApprovalsTypeOK
  <1>1. CASE session'[q] = session[q]
    BY <1>0, <1>1, FaithfulKept
  <1>2. CASE session'[q] = IdleSession
    BY <1>2 DEF SessionFaithful, IdleSession, Deciding
  <1>3. ASSUME NEW s \in Session, Return(s) PROVE SessionFaithful(session[q])'
    BY <1>1, <1>2, <1>3 DEF Return, ApprovalsTypeOK
  <1>4. ASSUME NEW a \in Approval, NEW p \in Person, NEW d \in Decisions,
               LoadApproval(q, a, p, d)
        PROVE  SessionFaithful(session[q])'
    <2>1. session'[q] = [pc |-> "votes", approval |-> a, approver |-> p, decision |-> d, seen |-> {}]
      BY <1>4 DEF LoadApproval, ApprovalsTypeOK
    <2> QED
      BY <1>4, <2>1 DEF LoadApproval, SessionFaithful, Deciding
  <1>5. ASSUME NEW a \in Approval, ReadApproval(q, a) PROVE SessionFaithful(session[q])'
    <2>1. session'[q] = [pc |-> "expire", approval |-> a, approver |-> NoPerson,
                      decision |-> "approve", seen |-> {}]
      BY <1>5 DEF ReadApproval, ApprovalsTypeOK
    <2> QED
      BY <1>5, <2>1 DEF ReadApproval, SessionFaithful, Deciding
  <1>6. CASE LoadVotes(q)
    <2>1. session'[q] = [pc |-> "check", approval |-> session[q].approval, approver |-> session[q].approver,
                      decision |-> session[q].decision, seen |-> VotesOn(session[q].approval)]
      BY <1>6 DEF LoadVotes, Step, ApprovalsTypeOK
    <2> QED
      BY <1>0, <1>6, <2>1 DEF LoadVotes, SessionFaithful, Deciding, VotesOn
  <1>7. CASE CheckApprover(q)
    <2>1. CASE Return(q)
      BY <1>3, <2>1
    <2>2. CASE ~Return(q)
      <3>1. Eligible(session[q].approval, session[q].approver)
        BY <1>7, <2>2 DEF CheckApprover
      <3>2. session'[q] = [pc |-> "insert", approval |-> session[q].approval,
                        approver |-> session[q].approver, decision |-> session[q].decision,
                        seen |-> session[q].seen]
        BY <1>7, <3>1 DEF CheckApprover, Step, ApprovalsTypeOK
      <3> QED
        BY <1>0, <1>7, <3>1, <3>2
           DEF CheckApprover, SessionFaithful, Deciding, Eligible, Independent, VotesOn
    <2> QED
      BY <2>1, <2>2
  <1>8. CASE InsertVote(q)
    <2> DEFINE c == session[q]
    <2>1. CASE Return(q)
      BY <1>3, <2>1
    <2>2. CASE ~Return(q)
      <3>1. /\ ~HasVoted(c.approval, c.approver)
            /\ votes' = votes \cup {Vote(c.approval, c.approver, c.decision)}
        BY <1>8, <2>2 DEF InsertVote
      <3>2. session'[q] = [pc |-> "tally", approval |-> c.approval, approver |-> c.approver,
                        decision |-> c.decision, seen |-> c.seen]
        BY <1>8, <3>1 DEF InsertVote, Step, ApprovalsTypeOK
      <3>3. \A v \in c.seen : v \in VotesOn(c.approval) /\ v.approver # c.approver
        BY <1>0, <1>8, <3>1 DEF InsertVote, SessionFaithful, HasVoted
      <3> QED
        BY <1>0, <1>8, <3>1, <3>2, <3>3
           DEF InsertVote, SessionFaithful, Deciding, Independent, VotesOn
    <2> QED
      BY <2>1, <2>2
  <1>9. ASSUME NEW s \in Session, s # q,
               \/ \E a \in Approval :
                    \/ \E p \in Person, d \in Decisions : LoadApproval(s, a, p, d)
                    \/ ReadApproval(s, a)
               \/ LoadVotes(s) \/ CheckApprover(s) \/ InsertVote(s)
        PROVE  SessionFaithful(session[q])'
    <2>1. session'[q] = session[q]
      BY <1>9 DEF LoadApproval, ReadApproval, LoadVotes, CheckApprover, InsertVote, Step, Return,
                  ApprovalsTypeOK
    <2> QED
      BY <1>1, <2>1
  <1>10. ASSUME NEW s \in Session,
                ExpireOnDecision(s) \/ Tally(s) \/ LazyExpire(s) \/ CallLost(s)
         PROVE  SessionFaithful(session[q])'
    BY <1>3, <1>10 DEF ExpireOnDecision, Tally, LazyExpire, CallLost
  <1>11. CASE UNCHANGED session
    BY <1>1, <1>11
  <1>12. ASSUME NEW s \in Session,
                \/ \E a \in Approval :
                     \/ \E p \in Person, d \in Decisions : LoadApproval(s, a, p, d)
                     \/ ReadApproval(s, a)
                \/ LoadVotes(s) \/ ExpireOnDecision(s) \/ CheckApprover(s) \/ InsertVote(s)
                \/ Tally(s) \/ LazyExpire(s) \/ CallLost(s)
         PROVE  SessionFaithful(session[q])'
    BY <1>4, <1>5, <1>6, <1>7, <1>8, <1>9, <1>10, <1>12
  <1>13. CASE \/ \E a \in Approval, p \in Person : RequestApproval(a, p)
              \/ \E a \in Approval : TTLPasses(a)
              \/ \E p \in Person : RoleChanges(p)
              \/ UNCHANGED approvalVars
    BY <1>11, <1>13 DEF RequestApproval, TTLPasses, RoleChanges, approvalVars
  <1> QED
    BY <1>12, <1>13 DEF ApprovalsNext

\* An approval is granted by one captured approve and the voter's own.
LEMMA FourEyesStep == FourEyesInv /\ [ApprovalsNext]_approvalVars => FourEyes'
  <1> SUFFICES ASSUME FourEyesInv, [ApprovalsNext]_approvalVars, NEW a \in Approval, approvalStatus'[a] = "granted"
               PROVE  \E p, q \in Person \ {Author, requester'[a]} :
                        p # q /\ ApprovedBy(a, p)' /\ ApprovedBy(a, q)'
    BY DEF FourEyes
  <1>0. ApprovalsKept
    BY ApprovalsKeptStep DEF FourEyesInv
  <1>1. CASE approvalStatus[a] = "granted"
    <2>1. requester'[a] = requester[a] /\ votes \subseteq votes'
      BY <1>0, <1>1 DEF ApprovalsKept
    <2> QED
      BY <1>1, <2>1 DEF FourEyesInv, FourEyes, ApprovedBy
  <1>2. CASE approvalStatus[a] # "granted"
    <2>1. PICK s \in Session : Tally(s)
      BY <1>2 DEF ApprovalsNext, approvalVars, FourEyesInv, ApprovalsTypeOK, RequestApproval, LoadApproval, ReadApproval, LoadVotes,
                  ExpireOnDecision, CheckApprover, InsertVote, LazyExpire, CallLost,
                  TTLPasses, RoleChanges
    <2> DEFINE c == session[s]
    <2>2. SessionFaithful(c) /\ c.pc = "tally" /\ c \in Calls
      BY <2>1 DEF Tally, FourEyesInv, SessionsFaithful, ApprovalsTypeOK
    <2>3. c.approval = a /\ c.decision = "approve" /\ Enough(c)
      BY <1>2, <2>1 DEF Tally, FourEyesInv, ApprovalsTypeOK, Calls, Decisions
    <2>4. PICK v \in c.seen : v.decision = "approve"
      BY <2>3 DEF Enough, Approves
    <2>5. /\ v \in votes /\ v.approval = a
          /\ Vote(a, c.approver, "approve") \in votes
          /\ v.approver # c.approver
          /\ c.approver \in Person /\ Independent(a, c.approver)
      BY <2>2, <2>3 DEF SessionFaithful, VotesOn
    <2>6. /\ v \in Votes
          /\ Independent(a, v.approver)
      BY <2>5 DEF FourEyesInv, ApprovalsTypeOK, VotesIndependent
    <2>7. v = Vote(a, v.approver, "approve") /\ v.approver \in Person
      BY <2>4, <2>5, <2>6 DEF Votes, Vote
    <2>8. UNCHANGED <<requester, votes>>
      BY <2>1 DEF Tally
    <2> QED
      BY <2>5, <2>6, <2>7, <2>8 DEF ApprovedBy, Independent
  <1> QED
    BY <1>1, <1>2

LEMMA Invariant == ApprovalsSpec => []FourEyesInv
  <1>1. FourEyesInv /\ [ApprovalsNext]_approvalVars => FourEyesInv'
    BY TypeStep, VotesStep, CallsStep, FourEyesStep DEF FourEyesInv
  <1> QED
    BY <1>1, InitInv, PTL DEF ApprovalsSpec

-----------------------------------------------------------------------------
(* Theorems.                                                                *)

\* Every row and every call keeps its shape, and the primary key leaves every
\* person one vote per approval (approval_votes), whatever calls overlap.
THEOREM ApprovalsTypeCorrect == ApprovalsSpec => []ApprovalsTypeOK
  <1>1. FourEyesInv => ApprovalsTypeOK
    BY DEF FourEyesInv
  <1> QED
    BY <1>1, Invariant, PTL

\* RecordApprovalDecision grants only on the approves of two distinct people,
\* neither the requester nor the author, for any number of overlapping,
\* repeated or abandoned calls, role changes and expiries.
THEOREM GrantedByTwo == ApprovalsSpec => []FourEyes
  <1>1. FourEyesInv => FourEyes
    BY DEF FourEyesInv
  <1> QED
    BY <1>1, Invariant, PTL

-----------------------------------------------------------------------------
(* Roles and tokens (PolicyRules).                                          *)

\* What a principal of some kind may hold at once.
MayHold(kind, held) ==
    /\ ~({"roe-author", "offensive-approver"} \subseteq held)
    /\ "auditor" \in held => held \cap writeRoles = {}
    /\ kind = "service" => held \cap approvalRoles = {}

\* A grant adds its role to what its principal holds, and time adds nothing.
LEMMA RolesAfterGrant ==
    ASSUME NEW Orgs, NEW People, NEW Roles, Absent \notin Orgs,
           NEW bindings \in SUBSET [org : Orgs, who : People, kind : {"human", "service"},
                                    role : Roles, by : People, revoked : BOOLEAN, until : Nat],
           NEW b \in [org : Orgs, who : People, kind : {"human", "service"},
                      role : Roles, by : People, revoked : BOOLEAN, until : Nat],
           NEW now \in Nat, NEW later \in Nat, now <= later, NEW org \in Orgs, NEW who \in People
    PROVE  LET held == RolesOf(bindings, org, who, now)
               after == RolesOf(Grant(bindings, b, now), org, who, later)
           IN  \/ after \subseteq held
               \/ /\ org = b.org /\ who = b.who /\ after \subseteq held \cup {b.role}
                  /\ checkSoD(held, b.kind, b.role)
<1> DEFINE new == Granted(b, now)
           kept == {x \in bindings : Key(x) # Key(b)}
           held == RolesOf(bindings, org, who, now)
<1>1. new.org = b.org /\ new.who = b.who /\ new.role = b.role /\ new.kind = b.kind
  BY DEF Granted, Absent
<1>2. ASSUME NEW S \in SUBSET bindings PROVE RolesOf(S, org, who, later) \subseteq held
  BY DEF RolesOf, Live
<1> HIDE DEF new, held
<1>3. CASE Grant(bindings, b, now) = bindings
  BY <1>2, <1>3 DEF held
<1>4. CASE /\ Grant(bindings, b, now) = kept \cup {new}
           /\ checkSoD(RolesOf(bindings, b.org, b.who, now), b.kind, b.role)
  <2>1. RolesOf(kept \cup {new}, org, who, later) \subseteq
            RolesOf(kept, org, who, later) \cup
            (IF new.who = who /\ org = new.org THEN {new.role} ELSE {})
    BY DEF RolesOf
  <2>2. RolesOf(kept, org, who, later) \subseteq held
    BY <1>2
  <2> QED BY <1>1, <1>4, <2>1, <2>2 DEF held
<1>5. \/ Grant(bindings, b, now) = bindings
      \/ /\ Grant(bindings, b, now) = kept \cup {new}
         /\ checkSoD(RolesOf(bindings, b.org, b.who, now), b.kind, b.role)
  BY <1>1 DEF Grant, new
<1> QED BY <1>3, <1>4, <1>5

\* As long as every grant to a principal says the same of its kind, nobody ever
\* holds a pair of roles that segregation of duties forbids, whatever is
\* granted, expires or is granted again (Grant, checkSoD).  With one grant that
\* says otherwise it fails.
THEOREM DutiesStaySeparate ==
    ASSUME NEW Orgs, NEW People, NEW Roles, Absent \notin Orgs,
           NEW Kind \in [People -> {"human", "service"}],
           NEW bindings \in SUBSET [org : Orgs, who : People, kind : {"human", "service"},
                                    role : Roles, by : People, revoked : BOOLEAN, until : Nat],
           NEW b \in [org : Orgs, who : People, kind : {"human", "service"},
                      role : Roles, by : People, revoked : BOOLEAN, until : Nat],
           b.kind = Kind[b.who],
           NEW now \in Nat, NEW later \in Nat, now <= later,
           \A org \in Orgs, who \in People :
               MayHold(Kind[who], RolesOf(bindings, org, who, now))
    PROVE  \A org \in Orgs, who \in People :
               MayHold(Kind[who], RolesOf(Grant(bindings, b, now), org, who, later))
<1> TAKE org \in Orgs, who \in People
<1> DEFINE held == RolesOf(bindings, org, who, now)
           after == RolesOf(Grant(bindings, b, now), org, who, later)
<1>1. MayHold(Kind[who], held)
  OBVIOUS
<1>2. \/ after \subseteq held
      \/ /\ org = b.org /\ who = b.who /\ after \subseteq held \cup {b.role}
         /\ checkSoD(held, b.kind, b.role)
  BY RolesAfterGrant
<1> HIDE DEF held, after
<1>3. CASE after \subseteq held
  BY <1>1, <1>3 DEF MayHold, after
<1>4. CASE /\ who = b.who /\ after \subseteq held \cup {b.role}
           /\ checkSoD(held, b.kind, b.role)
  <2>1. Kind[who] \in {"human", "service"} /\ b.kind = Kind[who]
    BY <1>4
  <2>2. ~({"roe-author", "offensive-approver"} \subseteq after)
    BY <1>1, <1>4, <2>1 DEF MayHold, checkSoD, approvalRoles
  <2>3. "auditor" \in after => after \cap writeRoles = {}
    BY <1>1, <1>4 DEF MayHold, checkSoD, writeRoles, approvalRoles
  <2>4. Kind[who] = "service" => after \cap approvalRoles = {}
    BY <1>1, <1>4, <2>1 DEF MayHold, checkSoD
  <2> QED BY <2>2, <2>3, <2>4 DEF MayHold, after
<1>5. after = RolesOf(Grant(bindings, b, now), org, who, later)
  BY DEF after
<1> QED BY <1>2, <1>3, <1>4, <1>5

\* A token that gatekeeper accepts for anything but a refresh was issued at most
\* sixteen minutes before and at most two minutes after now, whatever its other
\* claims say (Verify).
THEOREM TokensAreYoung ==
    ASSUME NEW c, c.iat \in Int, c.nbf \in Int, c.exp \in Int, NEW now \in Int,
           Verify(c, now, FALSE)
    PROVE  now - c.iat < MaxTTL + Leeway /\ c.iat - now <= MaxSkew /\ c.nbf - now <= Leeway
  BY DEF Verify, MaxTTL, Leeway, MaxSkew

-----------------------------------------------------------------------------
(* What an agent makes of a token: its guard and its egress proxy.          *)

\* Permission does not depend on the port: an entry with a port permits its host
\* or its address as such too.
LEMMA PortsNameEntries ==
    ASSUME NEW targets, NEW dst, Allows(NewAllowlist(targets), dst)
    PROVE  \A e : e.form = dst.form /\ e.id = dst.id => Allows(NewAllowlist(targets), e)
<1> DEFINE a == NewAllowlist(targets)
<1> TAKE e
<1> HAVE e.form = dst.form /\ e.id = dst.id
<1>1. CASE dst.at # 0 /\ <<dst.form, dst.id, dst.at>> \in a.hostPorts
  <2>1. PICK t \in targets : /\ t.form \in {"host", "ip"}
                             /\ <<t.form, t.id, t.at>> = <<dst.form, dst.id, dst.at>>
    BY <1>1 DEF NewAllowlist
  <2>2. t.form = e.form /\ t.id = e.id
    BY <2>1
  <2>3. CASE t.form = "host"
    <3>1. e.form = "host" /\ e.id \in a.hosts
      BY <2>2, <2>3 DEF NewAllowlist
    <3> QED BY <3>1 DEF Allows
  <2>4. CASE t.form = "ip"
    <3>1. e.form = "ip" /\ t \in a.cidrs /\ Equal(t, e)
      BY <2>2, <2>4 DEF NewAllowlist, Equal
    <3> QED BY <3>1 DEF Allows
  <2> QED BY <2>1, <2>3, <2>4
<1>2. CASE dst.form = "ip" /\ \E c \in a.cidrs : Equal(c, dst) \/ InNet(c, dst)
  <2>1. \A c : (Equal(c, dst) => Equal(c, e)) /\ (InNet(c, dst) => InNet(c, e))
    BY DEF Equal, InNet
  <2> QED BY <1>2, <2>1 DEF Allows
<1>3. CASE dst.form = "host" /\ (dst.id \in a.hosts \/ \E s \in a.suffix : Below(dst.id, s))
  BY <1>3 DEF Allows
<1> QED BY <1>1, <1>2, <1>3 DEF Allows

\* Whatever targets a task has and whatever a request to the proxy asks for, the
\* place that is dialled is allowed with the port that is dialled, though the
\* port that was judged may be another (serve, for https without a CONNECT).
THEOREM DialledIsAllowed ==
    ASSUME NEW targets, NEW counts, NEW Id,
           NEW dst \in [form : {"host", "ip"}, id : Id, url : BOOLEAN, port : BOOLEAN,
                        path : BOOLEAN, at : Nat],
           NEW connect \in BOOLEAN, NEW scheme, NEW reached \in BOOLEAN
    PROVE  LET req == [dst |-> dst, connect |-> connect, scheme |-> scheme, reached |-> reached]
           IN  \A d \in serve(NewAllowlist(targets), counts, req).dialled :
                   Allows(NewAllowlist(targets), d)
<1> DEFINE req == [dst |-> dst, connect |-> connect, scheme |-> scheme, reached |-> reached]
<1>1. SUFFICES ASSUME Allows(NewAllowlist(targets), Judged(req))
               PROVE  Allows(NewAllowlist(targets), Dialled(req))
  BY DEF serve
<1>2. \A p : LET d == WithPort(dst, p) IN d.form = dst.form /\ d.id = dst.id
  BY DEF WithPort
<1>3. \E p, q : Judged(req) = WithPort(dst, p) /\ Dialled(req) = WithPort(dst, q)
  BY DEF Judged, Dialled
<1>4. PICK p, q : Judged(req) = WithPort(dst, p) /\ Dialled(req) = WithPort(dst, q)
  BY <1>3
<1>5. /\ Judged(req).form = dst.form /\ Judged(req).id = dst.id
      /\ Dialled(req).form = dst.form /\ Dialled(req).id = dst.id
  BY <1>2, <1>4
<1> HIDE DEF req
<1> QED BY <1>1, <1>5, PortsNameEntries

\* The limiters that NewRateLimiter and Wait make.
Limiter == [rps : Nat, concurrent : Nat, used : Nat, tokens : Int, at : Nat]

\* A request that Wait lets through leaves at most 5 s after it came.
LEMMA WaitsFiveSeconds ==
    ASSUME NEW l \in Limiter, NEW tick \in Nat, NEW context,
           Wait(l, tick, context).cause = Nothing
    PROVE  Wait(l, tick, context).at - tick \in 0 .. 5 * l.rps
<1> DEFINE after == Reserve(l, tick)
<1> DEFINE delay == IF after.tokens < 0 THEN -after.tokens ELSE 0
<1>1. l.rps \in Nat /\ after.tokens \in Int
  BY DEF Limiter, Reserve
<1>2. delay \in Nat
  BY <1>1
<1>3. maxThrottleDelay(l) = 5 * l.rps /\ 5 * l.rps \in Nat
  BY <1>1 DEF maxThrottleDelay
<1>4. CASE l.rps = 0
  <2>1. Wait(l, tick, context).at = tick
    BY <1>4 DEF Wait
  <2> QED BY <1>1, <2>1
<1>5. CASE l.rps > 0 /\ delay > maxThrottleDelay(l)
  <2>1. Wait(l, tick, context).cause = "limited"
    BY <1>5, <1>1, <1>2, <1>3 DEF Wait
  <2> QED BY <2>1 DEF Nothing
<1>6. CASE l.rps > 0 /\ delay \in 1 .. maxThrottleDelay(l) /\ context # "lives"
  <2>1. Wait(l, tick, context).cause = "ended"
    BY <1>6, <1>1, <1>2, <1>3 DEF Wait
  <2> QED BY <2>1 DEF Nothing
<1>7. CASE /\ l.rps > 0 /\ delay <= maxThrottleDelay(l)
           /\ ~(delay \in 1 .. maxThrottleDelay(l) /\ context # "lives")
  <2>1. Wait(l, tick, context).at = tick + delay
    BY <1>7, <1>1, <1>2, <1>3 DEF Wait
  <2> HIDE DEF delay
  <2> QED BY <2>1, <1>7, <1>2, <1>3
<1> QED BY <1>1, <1>2, <1>3, <1>4, <1>5, <1>6, <1>7

\* What the guard lets through was not revoked, had a valid token and a target
\* in its manifest at most 5 s before it may leave: the check comes before the
\* wait for the limiter, and is not made again after it (Guard.check).
THEOREM LeavesWithinFiveSeconds ==
    ASSUME NEW g, NEW t, NEW revoked \in BOOLEAN, NEW now \in Nat, NEW context,
           g.limiter \in Limiter, check(g, t, revoked, now, context).cause = Nothing
    PROVE  /\ ~revoked /\ ValidAt(g.claims, now) = Nothing /\ Refusal(g.man, t) = Nothing
           /\ check(g, t, revoked, now, context).at - now * g.limiter.rps
                  \in 0 .. 5 * g.limiter.rps
<1> DEFINE refusal == CASE revoked -> "revoked"
                       [] ~revoked /\ ValidAt(g.claims, now) # Nothing -> ValidAt(g.claims, now)
                       [] OTHER -> Refusal(g.man, t)
<1> DEFINE waited == Wait(g.limiter, now * g.limiter.rps, context)
<1>1. refusal = Nothing
  <2>1. CASE refusal # Nothing
    <3>1. check(g, t, revoked, now, context).cause = refusal
      BY <2>1 DEF check
    <3> QED BY <2>1, <3>1
  <2> QED BY <2>1
<1>2. ~revoked
  <2>1. CASE revoked
    <3>1. refusal = "revoked"
      BY <2>1
    <3> QED BY <1>1, <3>1 DEF Nothing
  <2> QED BY <2>1
<1>3. ValidAt(g.claims, now) = Nothing
  <2>1. CASE ValidAt(g.claims, now) # Nothing
    <3>1. refusal = ValidAt(g.claims, now)
      BY <1>2, <2>1
    <3> HIDE DEF refusal
    <3> QED BY <1>1, <2>1, <3>1
  <2> QED BY <2>1
<1>4. Refusal(g.man, t) = Nothing
  <2>1. refusal = Refusal(g.man, t)
    BY <1>2, <1>3
  <2> HIDE DEF refusal
  <2> QED BY <1>1, <2>1
<1>5. check(g, t, revoked, now, context) = waited
  BY <1>1 DEF check
<1>6. now * g.limiter.rps \in Nat
  BY DEF Limiter
<1> HIDE DEF waited, refusal
<1>7. waited.cause = Nothing
  BY <1>5
<1>8. waited.at - now * g.limiter.rps \in 0 .. 5 * g.limiter.rps
  BY <1>6, <1>7, WaitsFiveSeconds DEF waited
<1> QED BY <1>2, <1>3, <1>4, <1>5, <1>8
=============================================================================
