------------------------ MODULE TaskDispatchProofs -------------------------
(***************************************************************************)
(* Theorems about TaskDispatch, for every number of tasks, agents,         *)
(* replicas and handlers and every set of faults, about what a plan and a  *)
(* manifest go through before there is anything to dispatch, and about the *)
(* ledgers of the commanders.                                              *)
(***************************************************************************)
EXTENDS TaskDispatch, Commander, FiniteSetTheorems, WellFoundedInduction, TLAPS

\* What the handlers hold between two of their statements is a real row.
CapturedOK ==
    /\ \A r \in Replica :
         /\ disp[r].pc # "idle" => disp[r].task \in Task
         /\ disp[r].pc \notin {"idle", "picked"} => disp[r].agent \in Agent
         /\ disp[r].pc = "decided" => disp[r].verdict \in Decisions
    /\ \A h \in Handler : hand[h].pc # "idle" => hand[h].res \in Results
    /\ kill.pc # "idle" => kill.scope \in KillScopes

IInv == TypeOK /\ CapturedOK

-----------------------------------------------------------------------------
(* Lemmas about the helpers.                                                *)

\* A conditional UPDATE keeps the state column well-typed.
LEMMA MovedType ==
    ASSUME state \in [Task -> TaskStates], NEW t, NEW from, NEW to \in TaskStates
    PROVE  Moved(t, from, to) \in [Task -> TaskStates]
  BY DEF Moved

\* Releasing leases keeps the bucket well-typed.
LEMMA ReleaseType ==
    ASSUME lease \in [Target -> Task \cup {NoTask}], NEW t, NEW S
    PROVE  /\ ReleaseLeases(t, S) \in [Target -> Task \cup {NoTask}]
           /\ ReleaseAllTargetLeases(t) \in [Target -> Task \cup {NoTask}]
  BY DEF ReleaseLeases, ReleaseAllTargetLeases

\* A row listed by the reaper or the kill switch is a snapshot.
LEMMA SnapType ==
    ASSUME TypeOK, NEW t \in Task, NEW why \in {"requeue", "deadline"}
    PROVE  Snap(t, why) \in Snaps
  BY DEF TypeOK, Snap, Snaps

-----------------------------------------------------------------------------
(* The inductive invariant of type correctness.                             *)

\* All handlers idle, all columns at their defaults.
LEMMA InitIInv == Init => IInv
  BY ConstantsAssumption, SentinelsAssumption
  DEF Init, IInv, TypeOK, CapturedOK, IdleDisp, IdleReap, IdleKill, IdleHand,
      TaskStates, DispPcs, HandPcs

\* A step of a dispatch loop keeps the row it works on, its agent and its
\* verdict well-typed.
LEMMA DispatchIInv ==
    ASSUME IInv, NEW r \in Replica, DispatchPick(r) \/ DispatchStep(r) \/ DispatchFault(r)
    PROVE  IInv'
<1> USE ConstantsAssumption, SentinelsAssumption
<1>1. ASSUME NEW t \in Task, PickQueuedTask(r, t) PROVE IInv'
  BY <1>1 DEF IInv, TypeOK, CapturedOK, PickQueuedTask, DispPcs, dispVars
<1>2. CASE GateDrop(r)
  BY <1>2, MovedType DEF IInv, TypeOK, CapturedOK, GateDrop, DropStates, IdleDisp, DispPcs, TaskStates, dispVars
<1>3. CASE GateDefer(r)
  BY <1>3 DEF IInv, TypeOK, CapturedOK, GateDefer, IdleDisp, DispPcs, dispVars
<1>4. ASSUME NEW a \in Agent, MatchAgent(r, a) PROVE IInv'
  BY <1>4 DEF IInv, TypeOK, CapturedOK, MatchAgent, Continue, DispPcs, dispVars
<1>5. CASE LeaseBusy(r)
  BY <1>5, ReleaseType DEF IInv, TypeOK, CapturedOK, LeaseBusy, Abandon, IdleDisp, DispPcs, dispVars
<1>6. ASSUME NEW x \in Target, AcquireLease(r, x) PROVE IInv'
  BY <1>6 DEF IInv, TypeOK, CapturedOK, AcquireLease, Continue, DispPcs, dispVars
<1>7. CASE CapCheck(r)
  <2>1. CASE CapReached(Cardinality(IntrusiveInFlight))
    <3>1. /\ disp' = [disp EXCEPT ![r] = IdleDisp]
          /\ lease' \in [Target -> Task \cup {NoTask}]
          /\ UNCHANGED <<dispVars, state, assigned, decision, outbox, bus, audit, late>>
      BY <2>1, <1>7, ReleaseType DEF CapCheck, Abandon, IInv, TypeOK
    <3> QED
      BY <3>1, <2>1, <1>7 DEF IInv, TypeOK, CapturedOK, IdleDisp, DispPcs, dispVars
  <2>2. CASE ~CapReached(Cardinality(IntrusiveInFlight))
    <3>1. /\ disp' = [disp EXCEPT ![r] = [pc |-> "matched", task |-> disp[r].task, agent |-> disp[r].agent,
                                   held |-> disp[r].held, verdict |-> disp[r].verdict, tag |-> disp[r].tag]]
          /\ UNCHANGED <<dispVars, state, assigned, decision, outbox, bus, audit, late, lease>>
      BY <2>2, <1>7 DEF CapCheck, Step, Continue
    <3> QED
      BY <3>1, <2>2, <1>7 DEF IInv, TypeOK, CapturedOK, CapCheck, DispPcs, dispVars
  <2> QED BY <2>1, <2>2
<1>8. ASSUME NEW o \in Verdicts, Authorize(r, o) PROVE IInv'
  <2>1. CASE disp[r].task \in Gated
    <3>1. /\ disp' = [disp EXCEPT ![r] = [pc |-> "decided", task |-> disp[r].task, agent |-> disp[r].agent,
                                   held |-> disp[r].held, verdict |-> o, tag |-> disp[r].tag]]
          /\ UNCHANGED <<dispVars, state, assigned, decision, outbox, bus, audit, late, lease>>
      BY <2>1, <1>8 DEF Authorize, Step, Continue
    <3> QED
      BY <3>1, <2>1, <1>8 DEF IInv, TypeOK, CapturedOK, Authorize, DispPcs, dispVars
  <2>2. CASE disp[r].task \notin Gated
    <3>1. /\ disp' = [disp EXCEPT ![r] = [pc |-> "allowed", task |-> disp[r].task, agent |-> disp[r].agent,
                                   held |-> disp[r].held, verdict |-> disp[r].verdict, tag |-> disp[r].tag]]
          /\ UNCHANGED <<dispVars, state, assigned, decision, outbox, bus, audit, late, lease>>
      BY <2>2, <1>8 DEF Authorize, Step, Continue
    <3> QED
      BY <3>1, <2>2, <1>8 DEF IInv, TypeOK, CapturedOK, Authorize, DispPcs, dispVars
  <2> QED BY <2>1, <2>2
<1>9. CASE AuditDecision(r)
  <2>0. audit' \subseteq AuditEvents
    BY <1>9 DEF IInv, TypeOK, CapturedOK, AuditDecision, Event, AuditEvents
  <2>1. CASE disp[r].verdict = "ALLOW"
    <3>1. /\ disp' = [disp EXCEPT ![r] = [pc |-> "allowed", task |-> disp[r].task, agent |-> disp[r].agent,
                                   held |-> disp[r].held, verdict |-> disp[r].verdict, tag |-> disp[r].tag]]
          /\ UNCHANGED <<dispVars, state, assigned, decision, outbox, bus, late, lease>>
      BY <2>1, <1>9 DEF AuditDecision, Step, Continue
    <3> QED
      BY <3>1, <2>1, <1>9, <2>0 DEF IInv, TypeOK, CapturedOK, AuditDecision, DispPcs, dispVars
  <2>2. CASE disp[r].verdict = "DENY"
    <3>1. /\ disp' = [disp EXCEPT ![r] = [pc |-> "denied", task |-> disp[r].task, agent |-> disp[r].agent,
                                   held |-> disp[r].held, verdict |-> disp[r].verdict, tag |-> disp[r].tag]]
          /\ UNCHANGED <<dispVars, state, assigned, decision, outbox, bus, late, lease>>
      BY <2>2, <1>9 DEF AuditDecision, Step, Continue
    <3> QED
      BY <3>1, <2>2, <1>9, <2>0 DEF IInv, TypeOK, CapturedOK, AuditDecision, DispPcs, dispVars
  <2>3. CASE disp[r].verdict = "UNAVAILABLE"
    <3>1. /\ disp' = [disp EXCEPT ![r] = IdleDisp]
          /\ lease' \in [Target -> Task \cup {NoTask}]
          /\ UNCHANGED <<dispVars, state, assigned, decision, outbox, bus, late>>
      BY <2>3, <1>9, ReleaseType DEF AuditDecision, Abandon, IInv, TypeOK
    <3> QED
      BY <3>1, <2>3, <1>9, <2>0 DEF IInv, TypeOK, CapturedOK, IdleDisp, DispPcs, dispVars
  <2> QED BY <2>1, <2>2, <2>3, <1>9 DEF AuditDecision
<1>10. CASE RejectDenied(r)
  BY <1>10, ReleaseType, MovedType DEF IInv, TypeOK, CapturedOK, RejectDenied, Abandon, IdleDisp, DispPcs, TaskStates, dispVars
<1>11. CASE Commit(r)
  BY <1>11 DEF IInv, TypeOK, CapturedOK, Commit, LateKills, Assignment, Assignments, Step, Continue, DispPcs, TaskStates, dispVars
<1>12. CASE LoseRace(r)
  BY <1>12, ReleaseType DEF IInv, TypeOK, CapturedOK, LoseRace, Abandon, IdleDisp, DispPcs, dispVars
<1>13. CASE AuditDispatched(r)
  BY <1>13 DEF IInv, TypeOK, CapturedOK, AuditDispatched, Event, AuditEvents, Assignment, Assignments, IdleDisp, DispPcs, dispVars
<1>14. CASE UndoDispatch(r)
  BY <1>14, ReleaseType, MovedType DEF IInv, TypeOK, CapturedOK, UndoDispatch, Abandon, IdleDisp, DispPcs, TaskStates, dispVars
<1>15. CASE AuditDecisionFails(r)
  BY <1>15, ReleaseType DEF IInv, TypeOK, CapturedOK, AuditDecisionFails, Abandon, IdleDisp, DispPcs, dispVars
<1>16. CASE AuditDispatchedFails(r)
  BY <1>16 DEF IInv, TypeOK, CapturedOK, AuditDispatchedFails, Step, Continue, DispPcs, dispVars
<1>17. CASE ReplicaCrash(r)
  BY <1>17 DEF IInv, TypeOK, CapturedOK, ReplicaCrash, IdleDisp, IdleReap, DispPcs, taskVars
<1> QED
  BY <1>1, <1>2, <1>3, <1>4, <1>5, <1>6, <1>7, <1>8, <1>9, <1>10, <1>11, <1>12, <1>13, <1>14, <1>15, <1>16, <1>17 DEF DispatchPick, DispatchStep, Continue, DispatchFault

\* A step of a reaper keeps attempt within max_retries and lists real rows.
LEMMA ReaperIInv ==
    ASSUME IInv, NEW r \in Replica, ReaperStart(r) \/ ReaperStep(r)
    PROVE  IInv'
<1> USE ConstantsAssumption, SentinelsAssumption
<1>1. CASE ReaperScanStale(r)
  BY <1>1, SnapType DEF IInv, TypeOK, CapturedOK, ReaperScanStale, ReaperScan, ReaperIdle, IdleReap, reapVars, busVars
<1>2. CASE ReaperScanExpired(r)
  BY <1>2, SnapType DEF IInv, TypeOK, CapturedOK, ReaperScanExpired, ReaperScan, ReaperIdle, IdleReap, reapVars, busVars
<1>3. ASSUME NEW t \in Task, ReaperExpireQueued(r, t) PROVE IInv'
  BY <1>3, MovedType DEF IInv, TypeOK, CapturedOK, ReaperExpireQueued, TaskStates, reapVars, busVars
<1>4. ASSUME NEW a \in Agent, ReaperMarkOffline(r, a) PROVE IInv'
  <2>1. CASE UNCHANGED reap
    BY <2>1, <1>4 DEF IInv, TypeOK, CapturedOK, ReaperMarkOffline, ReaperIdle, IdleReap,
                      reapVars, busVars
  <2>2. CASE reap' # reap
    <3> DEFINE mine == {t \in InFlightTasks : assigned[t] = a}
    <3>1. {Snap(t, "requeue") : t \in mine} \subseteq Snaps
      BY SnapType DEF IInv, InFlightTasks
    <3>2. /\ reap' = [reap EXCEPT ![r] = [todo |-> {Snap(t, "requeue") : t \in mine},
                                         cur |-> None]]
          /\ agent' = [agent EXCEPT ![a] = "OFFLINE"]
          /\ UNCHANGED <<reapVars, state, attempt, lease>>
      BY <2>2, <1>4 DEF ReaperMarkOffline
    <3> HIDE DEF mine
    <3> QED
      BY <3>1, <3>2 DEF IInv, TypeOK, CapturedOK, reapVars, busVars
  <2> QED BY <2>1, <2>2
<1>5. CASE RequeueOrDead(r)
  BY <1>5, MovedType DEF IInv, TypeOK, CapturedOK, RequeueOrDead, RetriesExhausted, Snaps, TaskStates, reapVars, busVars
<1>6. ASSUME NEW s \in reap[r].todo, ReaperRelease(r, s) PROVE IInv'
  BY <1>6, ReleaseType DEF IInv, TypeOK, CapturedOK, ReaperRelease, Snaps, reapVars, busVars
<1>7. ASSUME NEW s \in reap[r].todo, ReaperKillExpired(r, s) PROVE IInv'
  BY <1>7, ReleaseType, MovedType DEF IInv, TypeOK, CapturedOK, ReaperKillExpired, TaskStates, reapVars, busVars
<1> QED
  BY <1>1, <1>2, <1>3, <1>4, <1>5, <1>6, <1>7 DEF ReaperStart, ReaperStep

\* A step of the relay or of an agent moves well-typed assignments.
LEMMA BusIInv ==
    ASSUME IInv, \/ \E r \in Replica : RelayStep(r) \/ RelayFault(r)
                 \/ AgentStep \/ AgentFault \/ Heartbeats \/ LeaseTTL
    PROVE  IInv'
<1> USE ConstantsAssumption, SentinelsAssumption
<1>1. ASSUME NEW r \in Replica, RelayFetch(r) PROVE IInv'
  BY <1>1 DEF IInv, TypeOK, CapturedOK, RelayFetch, busStepVars
<1>2. ASSUME NEW r \in Replica, NEW m \in relay[r], RelayPublish(r, m) PROVE IInv'
  BY <1>2 DEF IInv, TypeOK, CapturedOK, RelayPublish, busStepVars
<1>3. ASSUME NEW r \in Replica, NEW m \in relay[r], RelayFail(r, m) PROVE IInv'
  BY <1>3 DEF IInv, TypeOK, CapturedOK, RelayFail, busStepVars
<1>4. ASSUME NEW m \in bus, AckRead(m) PROVE IInv'
  BY <1>4 DEF IInv, TypeOK, CapturedOK, AckRead, busStepVars
<1>5. ASSUME NEW m \in acks, AckWrite(m) PROVE IInv'
  BY <1>5, MovedType DEF IInv, TypeOK, CapturedOK, AckWrite, TaskStates, busStepVars
<1>6. ASSUME NEW m \in exec, NEW st \in Statuses, Finish(m, st) PROVE IInv'
  BY <1>6 DEF IInv, TypeOK, CapturedOK, Finish, Assignments, Results, busStepVars
<1>7. CASE MessageDropped
  BY <1>7 DEF IInv, TypeOK, CapturedOK, MessageDropped, busStepVars
<1>8. ASSUME NEW m \in exec, AgentCrash(m) PROVE IInv'
  BY <1>8 DEF IInv, TypeOK, CapturedOK, AgentCrash, busStepVars
<1>9. ASSUME NEW a \in Agent, Heartbeat(a) PROVE IInv'
  BY <1>9 DEF IInv, TypeOK, CapturedOK, Heartbeat, busVars, busStepVars
<1>10. ASSUME NEW x \in Target, LeaseExpires(x) PROVE IInv'
  BY <1>10 DEF IInv, TypeOK, CapturedOK, LeaseExpires, taskVars, busVars, busStepVars
<1> QED
  BY <1>1, <1>2, <1>3, <1>4, <1>5, <1>6, <1>7, <1>8, <1>9, <1>10 DEF RelayStep, Continue, RelayFault, AgentStep, Continue, AgentFault, Heartbeats, LeaseTTL

\* Routing a result is one conditional UPDATE; when it requeues the task, an
\* attempt was left.
LEMMA RoutedType ==
    ASSUME state \in [Task -> TaskStates], attempt \in [Task -> 0..MaxRetries],
           NEW res \in Results
    PROVE  /\ Routed(res) \in [Task -> TaskStates]
           /\ Routed(res)[res.task] = "QUEUED" /\ Routed(res) # state =>
                attempt[res.task] < MaxRetries
  BY ConstantsAssumption DEF Routed, Moved, CanMove, TaskStates, Results

\* A step of a result handler keeps the result it captured well-typed.
LEMMA ResultIInv ==
    ASSUME IInv, NEW h \in Handler, HandlerRead(h) \/ HandlerStep(h) \/ HandlerCrash(h)
    PROVE  IInv'
<1> USE ConstantsAssumption, SentinelsAssumption
<1>1. ASSUME NEW m \in results, ReadResult(h, m) PROVE IInv'
  <2>1. CASE state[m.task] \in TerminalStates
    BY <2>1, <1>1 DEF IInv, TypeOK, CapturedOK, ReadResult, handVars
  <2>2. CASE state[m.task] \notin TerminalStates
    <3>1. /\ hand' = [hand EXCEPT ![h] = [pc |-> "read", res |-> m]]
          /\ UNCHANGED <<handVars, attempt, state, mission, agent, lease, renewals, results>>
      BY <2>2, <1>1 DEF ReadResult
    <3> QED
      BY <3>1 DEF IInv, TypeOK, CapturedOK, HandPcs, handVars
  <2> QED BY <2>1, <2>2
<1>2. CASE ReportResult(h)
  <2>0. state' \in [Task -> TaskStates] /\ hand[h].res \in Results
    BY <1>2, MovedType DEF IInv, TypeOK, CapturedOK, ReportResult, TaskStates, Results
  <2>1. CASE state[hand[h].res.task] \in InFlight
    <3>1. /\ hand' = [hand EXCEPT ![h] = [pc |-> "reported", res |-> hand[h].res]]
          /\ lease' = ReleaseAllTargetLeases(hand[h].res.task)
          /\ UNCHANGED <<handVars, attempt, mission, agent, renewals, results>>
      BY <2>1, <1>2 DEF ReportResult, Acked, Naked, HandlerAt
    <3> QED
      BY <3>1, <2>0, ReleaseType DEF IInv, TypeOK, CapturedOK, IdleHand, HandPcs, handVars
  <2>2. CASE state[hand[h].res.task] \notin InFlight
    <3>1. /\ hand' = [hand EXCEPT ![h] = IdleHand]
          /\ lease' = lease
          /\ UNCHANGED <<handVars, attempt, mission, agent, renewals, results>>
      BY <2>2, <1>2 DEF ReportResult, Acked, Naked, HandlerAt
    <3> QED
      BY <3>1, <2>0 DEF IInv, TypeOK, CapturedOK, IdleHand, HandPcs, handVars
  <2> QED BY <2>1, <2>2
<1>3. CASE ScopeViolation(h)
  BY <1>3, MovedType DEF IInv, TypeOK, CapturedOK, ScopeViolation, Acked, Naked, HandlerAt, IdleHand, HandPcs, Results, TaskStates, handVars
<1>4. CASE RouteResult(h)
  <2>0. state' \in [Task -> TaskStates] /\ hand[h].res \in Results
    BY <1>4, RoutedType DEF IInv, TypeOK, CapturedOK, RouteResult, TaskStates, Results
  <2>a. attempt' \in [Task -> 0..MaxRetries]
    <3>1. /\ state' = Routed(hand[h].res)
          /\ attempt' = IF state'[hand[h].res.task] = "QUEUED" /\ state # state'
                        THEN [attempt EXCEPT ![hand[h].res.task] = @ + 1] ELSE attempt
      BY <1>4 DEF RouteResult
    <3>2. state \in [Task -> TaskStates] /\ attempt \in [Task -> 0..MaxRetries]
      BY DEF IInv, TypeOK
    <3>3. hand[h].res.task \in Task
      BY <2>0 DEF Results
    <3>4. CASE state'[hand[h].res.task] = "QUEUED" /\ state # state'
      <4>1. attempt[hand[h].res.task] < MaxRetries
        BY <3>1, <3>2, <3>4, <2>0, RoutedType
      <4>2. attempt[hand[h].res.task] + 1 \in 0..MaxRetries
        BY <4>1, <3>2, <3>3
      <4> QED BY <4>2, <3>1, <3>2, <3>4
    <3>5. CASE ~(state'[hand[h].res.task] = "QUEUED" /\ state # state')
      BY <3>1, <3>2, <3>5
    <3> QED BY <3>4, <3>5
  <2>1. CASE state' = state
    <3>1. /\ hand' = [hand EXCEPT ![h] = IdleHand]
          /\ results' = results
          /\ UNCHANGED <<handVars, mission, agent, lease, renewals>>
      BY <2>1, <1>4 DEF RouteResult, Acked, Naked, HandlerAt
    <3> QED
      BY <3>1, <2>0, <2>a DEF IInv, TypeOK, CapturedOK, IdleHand, HandPcs, handVars
  <2>2. CASE state' # state /\ hand[h].res.status = "SUCCEEDED"
    <3>1. /\ hand' = [hand EXCEPT ![h] = [pc |-> "validated", res |-> hand[h].res]]
          /\ results' = results
          /\ UNCHANGED <<handVars, mission, agent, lease, renewals>>
      BY <2>2, <1>4 DEF RouteResult, Acked, Naked, HandlerAt
    <3> QED
      BY <3>1, <2>0, <2>a DEF IInv, TypeOK, CapturedOK, IdleHand, HandPcs, handVars
  <2>3. CASE state' # state /\ hand[h].res.status # "SUCCEEDED"
    <3>1. /\ hand' = [hand EXCEPT ![h] = IdleHand]
          /\ results' = results \ {hand[h].res}
          /\ UNCHANGED <<handVars, mission, agent, lease, renewals>>
      BY <2>3, <1>4 DEF RouteResult, Acked, Naked, HandlerAt
    <3> QED
      BY <3>1, <2>0, <2>a DEF IInv, TypeOK, CapturedOK, IdleHand, HandPcs, handVars
  <2> QED BY <2>1, <2>2, <2>3
<1>5. CASE CompleteResult(h)
  <2>0. state' \in [Task -> TaskStates] /\ hand[h].res \in Results
    BY <1>5, MovedType DEF IInv, TypeOK, CapturedOK, CompleteResult, TaskStates, Results
  <2>1. CASE state[hand[h].res.task] # "VALIDATED"
    <3>1. /\ hand' = [hand EXCEPT ![h] = IdleHand]
          /\ results' = results
          /\ UNCHANGED <<handVars, attempt, mission, agent, lease, renewals>>
      BY <2>1, <1>5 DEF CompleteResult, Acked, Naked, HandlerAt
    <3> QED
      BY <3>1, <2>0 DEF IInv, TypeOK, CapturedOK, IdleHand, HandPcs, handVars
  <2>2. CASE state[hand[h].res.task] = "VALIDATED" /\ hand[h].res.task \in Watches
    <3>1. /\ hand' = [hand EXCEPT ![h] = [pc |-> "renew", res |-> hand[h].res]]
          /\ results' = results
          /\ UNCHANGED <<handVars, attempt, mission, agent, lease, renewals>>
      BY <2>2, <1>5 DEF CompleteResult, Acked, Naked, HandlerAt
    <3> QED
      BY <3>1, <2>0 DEF IInv, TypeOK, CapturedOK, IdleHand, HandPcs, handVars
  <2>3. CASE state[hand[h].res.task] = "VALIDATED" /\ hand[h].res.task \notin Watches
    <3>1. /\ hand' = [hand EXCEPT ![h] = IdleHand]
          /\ results' = results \ {hand[h].res}
          /\ UNCHANGED <<handVars, attempt, mission, agent, lease, renewals>>
      BY <2>3, <1>5 DEF CompleteResult, Acked, Naked, HandlerAt
    <3> QED
      BY <3>1, <2>0 DEF IInv, TypeOK, CapturedOK, IdleHand, HandPcs, handVars
  <2> QED BY <2>1, <2>2, <2>3
<1>6. CASE RenewWatch(h)
  BY <1>6 DEF IInv, TypeOK, CapturedOK, RenewWatch, Acked, Naked, HandlerAt, IdleHand, HandPcs, Results, TaskStates, handVars
<1>7. CASE HandlerCrash(h)
  BY <1>7 DEF IInv, TypeOK, CapturedOK, HandlerCrash, Acked, Naked, HandlerAt, IdleHand, HandPcs, Results, TaskStates, handVars
<1> QED
  BY <1>1, <1>2, <1>3, <1>4, <1>5, <1>6, <1>7 DEF HandlerRead, HandlerStep

\* A step of the kill switch lists real rows.
LEMMA KillIInv ==
    ASSUME IInv, KillStart \/ KillStep \/ KillCrash \/ Operator
    PROVE  IInv'
<1> USE ConstantsAssumption, SentinelsAssumption
<1>1. ASSUME NEW s \in KillScopes, KillEngage(s) PROVE IInv'
  BY <1>1 DEF IInv, TypeOK, CapturedOK, KillEngage, killVars, busVars
<1>2. CASE KillMissionState
  BY <1>2 DEF IInv, TypeOK, CapturedOK, KillMissionState, killVars, busVars
<1>3. CASE KillList
  BY <1>3, SnapType DEF IInv, TypeOK, CapturedOK, KillList, killVars, busVars
<1>4. ASSUME NEW s \in kill.todo, KillTask(s) PROVE IInv'
  BY <1>4, MovedType, ReleaseType DEF IInv, TypeOK, CapturedOK, KillTask, TaskStates, killVars, busVars
<1>5. CASE KillDone
  BY <1>5 DEF IInv, TypeOK, CapturedOK, KillDone, IdleKill, killVars, busVars
<1>6. CASE KillCrash
  BY <1>6 DEF IInv, TypeOK, CapturedOK, KillCrash, IdleKill, killVars, busVars
<1>7. ASSUME NEW m \in Mission, PauseMission(m) PROVE IInv'
  BY <1>7 DEF IInv, TypeOK, CapturedOK, PauseMission, killVars, busVars
<1>8. ASSUME NEW m \in Mission, ResumeMission(m) PROVE IInv'
  BY <1>8 DEF IInv, TypeOK, CapturedOK, ResumeMission, killVars, busVars
<1> QED
  BY <1>1, <1>2, <1>3, <1>4, <1>5, <1>6, <1>7, <1>8 DEF KillStart, KillStep, Continue, Operator

-----------------------------------------------------------------------------
\* The row, message and handler types are inductive together with what the
\* handlers hold: no interleaving makes a handler write with a row it never read.
LEMMA IInvInductive == IInv /\ [Next]_vars => IInv'
<1> SUFFICES ASSUME IInv, [Next]_vars PROVE IInv'
  OBVIOUS
<1>1. CASE UNCHANGED vars
  BY <1>1 DEF IInv, TypeOK, CapturedOK, vars, taskVars, busVars
<1>2. CASE Next
  BY <1>2, DispatchIInv, ReaperIInv, BusIInv, ResultIInv, KillIInv DEF Next
<1> QED BY <1>1, <1>2

\* TypeOK holds in every reachable state, whatever fails and however the
\* handlers interleave; in particular attempt never exceeds max_retries.
THEOREM TypeCorrect == Spec => []TypeOK
<1>1. IInv => TypeOK
  BY DEF IInv
<1> QED
  BY InitIInv, IInvInductive, <1>1, PTL DEF Spec
-----------------------------------------------------------------------------
(* What every step does to the columns and messages the safety properties   *)
(* talk about; the invariants below need nothing else about the actions.    *)

Cleared == {"allowed", "committed", "undo"}

StepLegal ==
    \A t \in Task : state'[t] = state[t] \/ state'[t] \in legalTransitions[state[t]]
NoNewDispatch == \A t \in Task : state'[t] = "DISPATCHED" => state[t] = "DISPATCHED"

\* A dispatch loop goes idle, picks a ready task, or goes on with its task, and
\* then it is cleared only by an audited ALLOW.
DispStepOK(r) ==
    \/ disp'[r].pc = "idle"
    \/ disp'[r].pc = "picked" /\ DependenciesCompleted(disp'[r].task)
    \/ /\ disp[r].pc # "idle"
       /\ disp'[r].task = disp[r].task /\ disp'[r].tag = disp[r].tag
       /\ disp'[r].pc \in Cleared /\ disp[r].task \in Gated =>
            disp[r].pc \in Cleared \/ Event("ALLOW", disp[r].task, disp[r].tag) \in audit'

\* Messages come from messages or from a cleared dispatch.
HandedOK ==
    \A m \in Handed' : m \in Handed \/ \E r \in Replica : disp[r].pc \in Cleared /\ m = Assignment(r)

CommitOrFrame ==
    \/ NoNewDispatch /\ decision' = decision
    \/ \E r \in Replica :
         /\ disp[r].pc = "allowed" /\ disp'[r].pc = "committed"
         /\ \A t \in Task : state'[t] = "DISPATCHED" => state[t] = "DISPATCHED" \/ t = disp[r].task
         /\ decision' = [decision EXCEPT ![disp[r].task] =
                            IF disp[r].task \in Gated THEN disp[r].tag ELSE None]

Facts ==
    /\ StepLegal /\ audit \subseteq audit' /\ HandedOK /\ CommitOrFrame
    /\ \A r \in Replica : DispStepOK(r)

\* A conditional UPDATE to any state but DISPATCHED is a legal step.
LEMMA MovedLegal ==
    ASSUME TypeOK, NEW t, NEW from, NEW to \in TaskStates \ {"DISPATCHED"},
           state' = Moved(t, from, to)
    PROVE  StepLegal /\ NoNewDispatch
  BY DEF TypeOK, Moved, CanMove, StepLegal, NoNewDispatch

\* So is no UPDATE at all.
LEMMA SameLegal ==
    ASSUME TypeOK, UNCHANGED state
    PROVE  StepLegal /\ NoNewDispatch
  BY DEF StepLegal, NoNewDispatch

\* Steps outside the dispatch loops: nothing but the state column and the
\* messages move.
LEMMA QuietFacts ==
    ASSUME IInv, StepLegal, NoNewDispatch, HandedOK,
           UNCHANGED <<decision, disp>>, audit' = audit
    PROVE  Facts
  BY DEF Facts, CommitOrFrame, DispStepOK, IInv

\* A step that adds no message.
LEMMA NoNewMessage ==
    ASSUME outbox' \subseteq outbox, bus' \subseteq bus, UNCHANGED <<acks, exec>>,
           \A r \in Replica : relay'[r] \subseteq relay[r]
    PROVE  HandedOK
  BY DEF HandedOK, Handed
\* Where a result is routed to is a legal, conditional UPDATE as well.
LEMMA RoutedLegal ==
    ASSUME TypeOK, NEW res \in Results, state' = Routed(res)
    PROVE  StepLegal /\ NoNewDispatch
  BY MovedLegal DEF Routed, TaskStates

\* The dispatch loop of r: only Commit writes DISPATCHED, only AuditDecision
\* clears a task of risk class R1 and above.
LEMMA DispatchFacts ==
    ASSUME IInv, NEW r \in Replica, DispatchPick(r) \/ DispatchStep(r) \/ DispatchFault(r)
    PROVE  Facts
<1> USE DEF IInv
<1>m. ASSUME NoNewDispatch, StepLegal, HandedOK, decision' = decision, audit \subseteq audit',
             \A q \in Replica : DispStepOK(q)
      PROVE  Facts
  BY <1>m DEF Facts, CommitOrFrame
<1>d. ASSUME NEW pc, NEW a, NEW S, NEW v, Continue(r, pc, a, S, v), disp[r].pc # "idle",
             pc \in Cleared /\ disp[r].task \in Gated =>
               disp[r].pc \in Cleared \/ Event("ALLOW", disp[r].task, disp[r].tag) \in audit'
      PROVE  \A q \in Replica : DispStepOK(q)
  BY <1>d DEF Continue, DispStepOK, TypeOK, Cleared
<1>i. ASSUME disp' = [disp EXCEPT ![r] = IdleDisp]
      PROVE  \A q \in Replica : DispStepOK(q)
  BY <1>i DEF DispStepOK, TypeOK, IdleDisp, Cleared
<1>1. ASSUME NEW t \in Task, PickQueuedTask(r, t) PROVE Facts
  <2>1. \A q \in Replica : DispStepOK(q)
    BY <1>1 DEF PickQueuedTask, DispStepOK, TypeOK, DependenciesCompleted
  <2> QED
    BY <1>1, <2>1, <1>m, SameLegal, NoNewMessage DEF PickQueuedTask, dispVars
<1>2. CASE GateDrop(r)
  <2>1. \A q \in Replica : DispStepOK(q)
    BY <1>2, <1>i DEF GateDrop, Cleared
  <2>2. StepLegal /\ NoNewDispatch
    BY <1>2, MovedLegal DEF GateDrop, dispVars, TaskStates, DropStates
  <2>3. HandedOK
    BY <1>2, NoNewMessage DEF GateDrop, dispVars
  <2> QED BY <1>2, <1>m, <2>1, <2>2, <2>3 DEF GateDrop, dispVars
<1>3. CASE GateDefer(r)
  <2>1. \A q \in Replica : DispStepOK(q)
    BY <1>3, <1>i DEF GateDefer, Cleared
  <2>2. StepLegal /\ NoNewDispatch
    BY <1>3, SameLegal DEF GateDefer, dispVars
  <2>3. HandedOK
    BY <1>3, NoNewMessage DEF GateDefer, dispVars
  <2> QED BY <1>3, <1>m, <2>1, <2>2, <2>3 DEF GateDefer, dispVars
<1>4. ASSUME NEW a \in Agent, MatchAgent(r, a) PROVE Facts
  <2>1. \A q \in Replica : DispStepOK(q)
    BY <1>4, <1>d DEF MatchAgent, Cleared
  <2>2. StepLegal /\ NoNewDispatch
    BY <1>4, SameLegal DEF MatchAgent, dispVars
  <2>3. HandedOK
    BY <1>4, NoNewMessage DEF MatchAgent, dispVars
  <2> QED BY <1>4, <1>m, <2>1, <2>2, <2>3 DEF MatchAgent, dispVars
<1>5. CASE LeaseBusy(r)
  <2>1. \A q \in Replica : DispStepOK(q)
    BY <1>5, <1>i DEF LeaseBusy, Abandon, Cleared
  <2>2. StepLegal /\ NoNewDispatch
    BY <1>5, SameLegal DEF LeaseBusy, Abandon, dispVars
  <2>3. HandedOK
    BY <1>5, NoNewMessage DEF LeaseBusy, Abandon, dispVars
  <2> QED BY <1>5, <1>m, <2>1, <2>2, <2>3 DEF LeaseBusy, Abandon, dispVars
<1>6. ASSUME NEW x \in Target, AcquireLease(r, x) PROVE Facts
  <2>1. \A q \in Replica : DispStepOK(q)
    BY <1>6, <1>d DEF AcquireLease, Cleared
  <2>2. StepLegal /\ NoNewDispatch
    BY <1>6, SameLegal DEF AcquireLease, dispVars
  <2>3. HandedOK
    BY <1>6, NoNewMessage DEF AcquireLease, dispVars
  <2> QED BY <1>6, <1>m, <2>1, <2>2, <2>3 DEF AcquireLease, dispVars
<1>7. CASE CapCheck(r)
  <2>1. \A q \in Replica : DispStepOK(q)
    BY <1>7, <1>i, <1>d DEF CapCheck, Abandon, Step, Cleared
  <2>2. StepLegal /\ NoNewDispatch
    BY <1>7, SameLegal DEF CapCheck, Abandon, Step, dispVars
  <2>3. HandedOK
    BY <1>7, NoNewMessage DEF CapCheck, Abandon, Step, dispVars
  <2> QED BY <1>7, <1>m, <2>1, <2>2, <2>3 DEF CapCheck, Abandon, Step, dispVars
<1>8. ASSUME NEW o \in Verdicts, Authorize(r, o) PROVE Facts
  <2>1. \A q \in Replica : DispStepOK(q)
    BY <1>8, <1>i, <1>d DEF Authorize, Step, Cleared
  <2>2. StepLegal /\ NoNewDispatch
    BY <1>8, SameLegal DEF Authorize, Step, dispVars
  <2>3. HandedOK
    BY <1>8, NoNewMessage DEF Authorize, Step, dispVars
  <2> QED BY <1>8, <1>m, <2>1, <2>2, <2>3 DEF Authorize, Step, dispVars
<1>9. CASE AuditDecision(r)
  <2>1. \A q \in Replica : DispStepOK(q)
    BY <1>9, <1>i, <1>d DEF AuditDecision, Abandon, Step, Event, Cleared
  <2>2. StepLegal /\ NoNewDispatch
    BY <1>9, SameLegal DEF AuditDecision, Abandon, Step, Event, dispVars
  <2>3. HandedOK
    BY <1>9, NoNewMessage DEF AuditDecision, Abandon, Step, Event, dispVars
  <2> QED BY <1>9, <1>m, <2>1, <2>2, <2>3 DEF AuditDecision, Abandon, Step, Event, dispVars
<1>10. CASE RejectDenied(r)
  <2>1. \A q \in Replica : DispStepOK(q)
    BY <1>10, <1>i DEF RejectDenied, Abandon, Cleared
  <2>2. StepLegal /\ NoNewDispatch
    BY <1>10, MovedLegal DEF RejectDenied, Abandon, dispVars, TaskStates
  <2>3. HandedOK
    BY <1>10, NoNewMessage DEF RejectDenied, Abandon, dispVars
  <2> QED BY <1>10, <1>m, <2>1, <2>2, <2>3 DEF RejectDenied, Abandon, dispVars
<1>12. CASE LoseRace(r)
  <2>1. \A q \in Replica : DispStepOK(q)
    BY <1>12, <1>i DEF LoseRace, Abandon, Cleared
  <2>2. StepLegal /\ NoNewDispatch
    BY <1>12, SameLegal DEF LoseRace, Abandon, dispVars
  <2>3. HandedOK
    BY <1>12, NoNewMessage DEF LoseRace, Abandon, dispVars
  <2> QED BY <1>12, <1>m, <2>1, <2>2, <2>3 DEF LoseRace, Abandon, dispVars
<1>14. CASE UndoDispatch(r)
  <2>1. \A q \in Replica : DispStepOK(q)
    BY <1>14, <1>i DEF UndoDispatch, Abandon, Cleared
  <2>2. StepLegal /\ NoNewDispatch
    BY <1>14, MovedLegal DEF UndoDispatch, Abandon, dispVars, TaskStates
  <2>3. HandedOK
    BY <1>14, NoNewMessage DEF UndoDispatch, Abandon, dispVars
  <2> QED BY <1>14, <1>m, <2>1, <2>2, <2>3 DEF UndoDispatch, Abandon, dispVars
<1>15. CASE AuditDecisionFails(r)
  <2>1. \A q \in Replica : DispStepOK(q)
    BY <1>15, <1>i DEF AuditDecisionFails, Abandon, Cleared
  <2>2. StepLegal /\ NoNewDispatch
    BY <1>15, SameLegal DEF AuditDecisionFails, Abandon, dispVars
  <2>3. HandedOK
    BY <1>15, NoNewMessage DEF AuditDecisionFails, Abandon, dispVars
  <2> QED BY <1>15, <1>m, <2>1, <2>2, <2>3 DEF AuditDecisionFails, Abandon, dispVars
<1>16. CASE AuditDispatchedFails(r)
  <2>1. \A q \in Replica : DispStepOK(q)
    BY <1>16, <1>d DEF AuditDispatchedFails, Step, Cleared
  <2>2. StepLegal /\ NoNewDispatch
    BY <1>16, SameLegal DEF AuditDispatchedFails, Step, dispVars
  <2>3. HandedOK
    BY <1>16, NoNewMessage DEF AuditDispatchedFails, Step, dispVars
  <2> QED BY <1>16, <1>m, <2>1, <2>2, <2>3 DEF AuditDispatchedFails, Step, dispVars
<1>11. CASE Commit(r)
  <2>1. \A q \in Replica : DispStepOK(q)
    BY <1>11, <1>d DEF Commit, Step, Cleared
  <2>2. StepLegal
    BY <1>11 DEF Commit, StepLegal, legalTransitions, TypeOK, TaskStates
  <2>3. HandedOK
    BY <1>11 DEF Commit, HandedOK, Handed, dispVars, Cleared
  <2>4. CommitOrFrame
    BY <1>11 DEF Commit, Step, Continue, CommitOrFrame, TypeOK
  <2> QED BY <1>11, <2>1, <2>2, <2>3, <2>4 DEF Facts, Commit, dispVars
<1>13. CASE AuditDispatched(r)
  <2>1. \A q \in Replica : DispStepOK(q)
    BY <1>13, <1>i DEF AuditDispatched
  <2>2. StepLegal /\ NoNewDispatch
    BY <1>13, SameLegal DEF AuditDispatched
  <2>3. HandedOK
    BY <1>13 DEF AuditDispatched, HandedOK, Handed, dispVars, Cleared
  <2> QED BY <1>13, <1>m, <2>1, <2>2, <2>3 DEF AuditDispatched
<1>17. CASE ReplicaCrash(r)
  <2>1. \A q \in Replica : DispStepOK(q)
    BY <1>17, <1>i DEF ReplicaCrash
  <2>2. StepLegal /\ NoNewDispatch
    BY <1>17, SameLegal DEF ReplicaCrash, taskVars
  <2>3. HandedOK
    BY <1>17, NoNewMessage DEF ReplicaCrash, TypeOK
  <2> QED BY <1>17, <1>m, <2>1, <2>2, <2>3 DEF ReplicaCrash, taskVars
<1> QED
  BY <1>1, <1>2, <1>3, <1>4, <1>5, <1>6, <1>7, <1>8, <1>9, <1>10, <1>11, <1>12, <1>13,
     <1>14, <1>15, <1>16, <1>17 DEF DispatchPick, DispatchStep, DispatchFault

\* The reaper moves states conditionally and sends nothing.
LEMMA ReaperFacts ==
    ASSUME IInv, NEW r \in Replica, ReaperStart(r) \/ ReaperStep(r)
    PROVE  Facts
<1> USE DEF IInv
<1>1. CASE ReaperScanStale(r)
  <2>1. StepLegal /\ NoNewDispatch
    BY <1>1, SameLegal DEF ReaperScanStale, ReaperScan, reapVars, busVars
  <2>2. HandedOK
    BY <1>1, NoNewMessage DEF ReaperScanStale, ReaperScan, reapVars, busVars
  <2> QED BY <1>1, <2>1, <2>2, QuietFacts DEF ReaperScanStale, ReaperScan, reapVars, busVars
<1>2. CASE ReaperScanExpired(r)
  <2>1. StepLegal /\ NoNewDispatch
    BY <1>2, SameLegal DEF ReaperScanExpired, ReaperScan, reapVars, busVars
  <2>2. HandedOK
    BY <1>2, NoNewMessage DEF ReaperScanExpired, ReaperScan, reapVars, busVars
  <2> QED BY <1>2, <2>1, <2>2, QuietFacts DEF ReaperScanExpired, ReaperScan, reapVars, busVars
<1>3. ASSUME NEW t \in Task, ReaperExpireQueued(r, t) PROVE Facts
  <2>1. StepLegal /\ NoNewDispatch
    BY <1>3, MovedLegal DEF ReaperExpireQueued, reapVars, busVars, TaskStates
  <2>2. HandedOK
    BY <1>3, NoNewMessage DEF ReaperExpireQueued, reapVars, busVars
  <2> QED BY <1>3, <2>1, <2>2, QuietFacts DEF ReaperExpireQueued, reapVars, busVars
<1>4. ASSUME NEW a \in Agent, ReaperMarkOffline(r, a) PROVE Facts
  <2>1. StepLegal /\ NoNewDispatch
    BY <1>4, SameLegal DEF ReaperMarkOffline, reapVars, busVars
  <2>2. HandedOK
    BY <1>4, NoNewMessage DEF ReaperMarkOffline, reapVars, busVars
  <2> QED BY <1>4, <2>1, <2>2, QuietFacts DEF ReaperMarkOffline, reapVars, busVars
<1>5. CASE RequeueOrDead(r)
  <2>1. StepLegal /\ NoNewDispatch
    BY <1>5, MovedLegal DEF RequeueOrDead, reapVars, busVars, TaskStates
  <2>2. HandedOK
    BY <1>5, NoNewMessage DEF RequeueOrDead, reapVars, busVars
  <2> QED BY <1>5, <2>1, <2>2, QuietFacts DEF RequeueOrDead, reapVars, busVars
<1>6. ASSUME NEW s \in reap[r].todo, ReaperRelease(r, s) PROVE Facts
  <2>1. StepLegal /\ NoNewDispatch
    BY <1>6, SameLegal DEF ReaperRelease, reapVars, busVars
  <2>2. HandedOK
    BY <1>6, NoNewMessage DEF ReaperRelease, reapVars, busVars
  <2> QED BY <1>6, <2>1, <2>2, QuietFacts DEF ReaperRelease, reapVars, busVars
<1>7. ASSUME NEW s \in reap[r].todo, ReaperKillExpired(r, s) PROVE Facts
  <2>1. StepLegal /\ NoNewDispatch
    BY <1>7, MovedLegal DEF ReaperKillExpired, reapVars, busVars, TaskStates
  <2>2. HandedOK
    BY <1>7, NoNewMessage DEF ReaperKillExpired, reapVars, busVars
  <2> QED BY <1>7, <2>1, <2>2, QuietFacts DEF ReaperKillExpired, reapVars, busVars
<1> QED BY <1>1, <1>2, <1>3, <1>4, <1>5, <1>6, <1>7 DEF ReaperStart, ReaperStep

\* The relay and the agents pass messages on; an ACK is the only write.
LEMMA BusFacts ==
    ASSUME IInv, \/ \E r \in Replica : RelayStep(r) \/ RelayFault(r)
                 \/ AgentStep \/ AgentFault \/ Heartbeats \/ LeaseTTL
    PROVE  Facts
<1> USE DEF IInv
<1>1. ASSUME NEW r \in Replica, RelayFetch(r) PROVE Facts
  <2>1. StepLegal /\ NoNewDispatch
    BY <1>1, SameLegal DEF RelayFetch, busStepVars
  <2>2. HandedOK
    BY <1>1 DEF RelayFetch, busStepVars, HandedOK, Handed, TypeOK
  <2> QED BY <1>1, <2>1, <2>2, QuietFacts DEF RelayFetch, busStepVars
<1>2. ASSUME NEW r \in Replica, NEW m \in relay[r], RelayPublish(r, m) PROVE Facts
  <2>1. StepLegal /\ NoNewDispatch
    BY <1>2, SameLegal DEF RelayPublish, busStepVars
  <2>2. HandedOK
    BY <1>2 DEF RelayPublish, busStepVars, HandedOK, Handed, TypeOK
  <2> QED BY <1>2, <2>1, <2>2, QuietFacts DEF RelayPublish, busStepVars
<1>3. ASSUME NEW r \in Replica, NEW m \in relay[r], RelayFail(r, m) PROVE Facts
  <2>1. StepLegal /\ NoNewDispatch
    BY <1>3, SameLegal DEF RelayFail, busStepVars
  <2>2. HandedOK
    BY <1>3 DEF RelayFail, busStepVars, HandedOK, Handed, TypeOK
  <2> QED BY <1>3, <2>1, <2>2, QuietFacts DEF RelayFail, busStepVars
<1>4. ASSUME NEW m \in bus, AckRead(m) PROVE Facts
  <2>1. StepLegal /\ NoNewDispatch
    BY <1>4, SameLegal DEF AckRead, busStepVars
  <2>2. HandedOK
    BY <1>4 DEF AckRead, busStepVars, HandedOK, Handed, TypeOK
  <2> QED BY <1>4, <2>1, <2>2, QuietFacts DEF AckRead, busStepVars
<1>5. ASSUME NEW m \in acks, AckWrite(m) PROVE Facts
  <2>1. StepLegal /\ NoNewDispatch
    BY <1>5, MovedLegal DEF AckWrite, busStepVars, TaskStates
  <2>2. HandedOK
    BY <1>5 DEF AckWrite, busStepVars, HandedOK, Handed, TypeOK
  <2> QED BY <1>5, <2>1, <2>2, QuietFacts DEF AckWrite, busStepVars
<1>6. ASSUME NEW m \in exec, NEW st \in Statuses, Finish(m, st) PROVE Facts
  <2>1. StepLegal /\ NoNewDispatch
    BY <1>6, SameLegal DEF Finish, busStepVars
  <2>2. HandedOK
    BY <1>6 DEF Finish, busStepVars, HandedOK, Handed, TypeOK
  <2> QED BY <1>6, <2>1, <2>2, QuietFacts DEF Finish, busStepVars
<1>7. CASE MessageDropped
  <2>1. StepLegal /\ NoNewDispatch
    BY <1>7, SameLegal DEF MessageDropped, busStepVars
  <2>2. HandedOK
    BY <1>7 DEF MessageDropped, busStepVars, HandedOK, Handed, TypeOK
  <2> QED BY <1>7, <2>1, <2>2, QuietFacts DEF MessageDropped, busStepVars
<1>8. ASSUME NEW m \in exec, AgentCrash(m) PROVE Facts
  <2>1. StepLegal /\ NoNewDispatch
    BY <1>8, SameLegal DEF AgentCrash, busStepVars
  <2>2. HandedOK
    BY <1>8 DEF AgentCrash, busStepVars, HandedOK, Handed, TypeOK
  <2> QED BY <1>8, <2>1, <2>2, QuietFacts DEF AgentCrash, busStepVars
<1>9. ASSUME NEW a \in Agent, Heartbeat(a) PROVE Facts
  <2>1. StepLegal /\ NoNewDispatch
    BY <1>9, SameLegal DEF Heartbeat, busVars, busStepVars
  <2>2. HandedOK
    BY <1>9 DEF Heartbeat, busVars, busStepVars, HandedOK, Handed, TypeOK
  <2> QED BY <1>9, <2>1, <2>2, QuietFacts DEF Heartbeat, busVars, busStepVars
<1>10. ASSUME NEW x \in Target, LeaseExpires(x) PROVE Facts
  <2>1. StepLegal /\ NoNewDispatch
    BY <1>10, SameLegal DEF LeaseExpires, taskVars, busVars, busStepVars
  <2>2. HandedOK
    BY <1>10 DEF LeaseExpires, taskVars, busVars, busStepVars, HandedOK, Handed, TypeOK
  <2> QED BY <1>10, <2>1, <2>2, QuietFacts DEF LeaseExpires, taskVars, busVars, busStepVars
<1> QED BY <1>1, <1>2, <1>3, <1>4, <1>5, <1>6, <1>7, <1>8, <1>9, <1>10 DEF RelayStep, RelayFault, AgentStep, AgentFault, Heartbeats, LeaseTTL

\* Result handlers move states conditionally and send nothing.
LEMMA ResultFacts ==
    ASSUME IInv, NEW h \in Handler, HandlerRead(h) \/ HandlerStep(h) \/ HandlerCrash(h)
    PROVE  Facts
<1> USE DEF IInv
<1>1. ASSUME NEW m \in results, ReadResult(h, m) PROVE Facts
  <2>1. StepLegal /\ NoNewDispatch
    BY <1>1, SameLegal DEF ReadResult, handVars
  <2>2. HandedOK
    BY <1>1, NoNewMessage DEF ReadResult, handVars
  <2> QED BY <1>1, <2>1, <2>2, QuietFacts DEF ReadResult, handVars
<1>2. CASE ReportResult(h)
  <2>1. StepLegal /\ NoNewDispatch
    BY <1>2, MovedLegal DEF ReportResult, handVars, TaskStates
  <2>2. HandedOK
    BY <1>2, NoNewMessage DEF ReportResult, handVars
  <2> QED BY <1>2, <2>1, <2>2, QuietFacts DEF ReportResult, handVars
<1>3. CASE ScopeViolation(h)
  <2>1. StepLegal /\ NoNewDispatch
    BY <1>3, MovedLegal DEF ScopeViolation, handVars, TaskStates
  <2>2. HandedOK
    BY <1>3, NoNewMessage DEF ScopeViolation, handVars
  <2> QED BY <1>3, <2>1, <2>2, QuietFacts DEF ScopeViolation, handVars
<1>4. CASE RouteResult(h)
  <2>1. StepLegal /\ NoNewDispatch
    BY <1>4, RoutedLegal DEF RouteResult, handVars, CapturedOK
  <2>2. HandedOK
    BY <1>4, NoNewMessage DEF RouteResult, handVars
  <2> QED BY <1>4, <2>1, <2>2, QuietFacts DEF RouteResult, handVars
<1>5. CASE CompleteResult(h)
  <2>1. StepLegal /\ NoNewDispatch
    BY <1>5, MovedLegal DEF CompleteResult, handVars, TaskStates
  <2>2. HandedOK
    BY <1>5, NoNewMessage DEF CompleteResult, handVars
  <2> QED BY <1>5, <2>1, <2>2, QuietFacts DEF CompleteResult, handVars
<1>6. CASE RenewWatch(h)
  <2>1. StepLegal /\ NoNewDispatch
    BY <1>6, SameLegal DEF RenewWatch, handVars
  <2>2. HandedOK
    BY <1>6, NoNewMessage DEF RenewWatch, handVars
  <2> QED BY <1>6, <2>1, <2>2, QuietFacts DEF RenewWatch, handVars
<1>7. CASE HandlerCrash(h)
  <2>1. StepLegal /\ NoNewDispatch
    BY <1>7, SameLegal DEF HandlerCrash, handVars
  <2>2. HandedOK
    BY <1>7, NoNewMessage DEF HandlerCrash, handVars
  <2> QED BY <1>7, <2>1, <2>2, QuietFacts DEF HandlerCrash, handVars
<1> QED BY <1>1, <1>2, <1>3, <1>4, <1>5, <1>6, <1>7 DEF HandlerRead, HandlerStep

\* The kill drain moves states conditionally and sends nothing.
LEMMA KillFacts ==
    ASSUME IInv, KillStart \/ KillStep \/ KillCrash \/ Operator
    PROVE  Facts
<1> USE DEF IInv
<1>1. ASSUME NEW s \in KillScopes, KillEngage(s) PROVE Facts
  <2>1. StepLegal /\ NoNewDispatch
    BY <1>1, SameLegal DEF KillEngage, killVars, busVars
  <2>2. HandedOK
    BY <1>1, NoNewMessage DEF KillEngage, killVars, busVars
  <2> QED BY <1>1, <2>1, <2>2, QuietFacts DEF KillEngage, killVars, busVars
<1>2. CASE KillMissionState
  <2>1. StepLegal /\ NoNewDispatch
    BY <1>2, SameLegal DEF KillMissionState, killVars, busVars
  <2>2. HandedOK
    BY <1>2, NoNewMessage DEF KillMissionState, killVars, busVars
  <2> QED BY <1>2, <2>1, <2>2, QuietFacts DEF KillMissionState, killVars, busVars
<1>3. CASE KillList
  <2>1. StepLegal /\ NoNewDispatch
    BY <1>3, SameLegal DEF KillList, killVars, busVars
  <2>2. HandedOK
    BY <1>3, NoNewMessage DEF KillList, killVars, busVars
  <2> QED BY <1>3, <2>1, <2>2, QuietFacts DEF KillList, killVars, busVars
<1>4. ASSUME NEW s \in kill.todo, KillTask(s) PROVE Facts
  <2>1. StepLegal /\ NoNewDispatch
    BY <1>4, MovedLegal DEF KillTask, killVars, busVars, TaskStates
  <2>2. HandedOK
    BY <1>4, NoNewMessage DEF KillTask, killVars, busVars
  <2> QED BY <1>4, <2>1, <2>2, QuietFacts DEF KillTask, killVars, busVars
<1>5. CASE KillDone
  <2>1. StepLegal /\ NoNewDispatch
    BY <1>5, SameLegal DEF KillDone, killVars, busVars
  <2>2. HandedOK
    BY <1>5, NoNewMessage DEF KillDone, killVars, busVars
  <2> QED BY <1>5, <2>1, <2>2, QuietFacts DEF KillDone, killVars, busVars
<1>6. CASE KillCrash
  <2>1. StepLegal /\ NoNewDispatch
    BY <1>6, SameLegal DEF KillCrash, killVars, busVars
  <2>2. HandedOK
    BY <1>6, NoNewMessage DEF KillCrash, killVars, busVars
  <2> QED BY <1>6, <2>1, <2>2, QuietFacts DEF KillCrash, killVars, busVars
<1>7. ASSUME NEW m \in Mission, PauseMission(m) PROVE Facts
  <2>1. StepLegal /\ NoNewDispatch
    BY <1>7, SameLegal DEF PauseMission, killVars, busVars
  <2>2. HandedOK
    BY <1>7, NoNewMessage DEF PauseMission, killVars, busVars
  <2> QED BY <1>7, <2>1, <2>2, QuietFacts DEF PauseMission, killVars, busVars
<1>8. ASSUME NEW m \in Mission, ResumeMission(m) PROVE Facts
  <2>1. StepLegal /\ NoNewDispatch
    BY <1>8, SameLegal DEF ResumeMission, killVars, busVars
  <2>2. HandedOK
    BY <1>8, NoNewMessage DEF ResumeMission, killVars, busVars
  <2> QED BY <1>8, <2>1, <2>2, QuietFacts DEF ResumeMission, killVars, busVars
<1> QED BY <1>1, <1>2, <1>3, <1>4, <1>5, <1>6, <1>7, <1>8 DEF KillStart, KillStep, Operator

\* Every step of the specification.
LEMMA StepFacts == IInv /\ Next => Facts
  BY DispatchFacts, ReaperFacts, BusFacts, ResultFacts, KillFacts DEF Next

\* Every state change is a transition of the task state machine.
THEOREM TransitionsLegal == Spec => LegalTransitions
<1>1. IInv /\ [Next]_vars => [StepLegal]_vars
  BY StepFacts DEF Facts
<1> QED
  BY InitIInv, IInvInductive, <1>1, PTL DEF Spec, LegalTransitions, StepLegal

\* Terminal states are final.
THEOREM TerminalFinal == Spec => TerminalAbsorbing
<1>1. IInv /\ [Next]_vars =>
        [\A t \in Task : state[t] \in TerminalStates => state'[t] = state[t]]_vars
  BY StepFacts DEF Facts, StepLegal, legalTransitions, TerminalStates, TaskStates, IInv, TypeOK
<1> QED
  BY InitIInv, IInvInductive, <1>1, PTL DEF Spec, TerminalAbsorbing

-----------------------------------------------------------------------------
(* Gated dispatch.  DispatchGated alone is not inductive: a dispatch loop   *)
(* that is past the audit of its ALLOW must remember that the event exists. *)

\* A dispatch loop about to commit, or undoing a commit, has its ALLOW audited.
ClearedAudited ==
    \A r \in Replica : disp[r].pc \in Cleared /\ disp[r].task \in Gated =>
        Event("ALLOW", disp[r].task, disp[r].tag) \in audit

GInv == ClearedAudited /\ DispatchGated

\* Only a dispatch moves a task into the states an agent works in.
LEMMA EntersByDispatch ==
    ASSUME TypeOK, StepLegal, NEW t \in Task, state'[t] \in Pursued
    PROVE  state[t] \in Pursued \/ (state'[t] = "DISPATCHED" /\ state[t] # "DISPATCHED")
  BY DEF TypeOK, StepLegal, Pursued, legalTransitions, TaskStates

\* The audit trail of gated dispatches survives every step.
LEMMA GInvInductive == IInv /\ GInv /\ [Next]_vars => GInv'
<1> SUFFICES ASSUME IInv, GInv, [Next]_vars PROVE GInv'
  OBVIOUS
<1> USE ConstantsAssumption, SentinelsAssumption DEF IInv, GInv
<1>1. CASE UNCHANGED vars
  BY <1>1 DEF ClearedAudited, DispatchGated, Handed, vars, taskVars, busVars
<1>2. CASE Next
  <2> USE <1>2, StepFacts
  <2>1. StepLegal /\ audit \subseteq audit' /\ HandedOK /\ CommitOrFrame
        /\ \A r \in Replica : DispStepOK(r)
    BY DEF Facts
  <2>2. ClearedAudited'
    BY <2>1 DEF ClearedAudited, DispStepOK, Cleared
  <2>3. ASSUME NEW t \in Gated, state'[t] \in Pursued
        PROVE  decision'[t] # None /\ Event("ALLOW", t, decision'[t]) \in audit'
    <3>1. t \in Task
      OBVIOUS
    <3>2. CASE state[t] \in Pursued /\ decision'[t] = decision[t]
      BY <2>1, <3>2 DEF DispatchGated
    <3>3. CASE \E r \in Replica : /\ disp[r].pc \in Cleared /\ disp[r].task = t
                                  /\ decision'[t] = disp[r].tag
      BY <2>1, <3>3 DEF ClearedAudited, TypeOK
    <3>4. state[t] \in Pursued \/ (state'[t] = "DISPATCHED" /\ state[t] # "DISPATCHED")
      BY <2>1, <2>3, <3>1, EntersByDispatch
    <3>5. CASE NoNewDispatch /\ decision' = decision
      BY <3>1, <3>2, <3>4, <3>5 DEF NoNewDispatch
    <3>6. ASSUME NEW r \in Replica, disp[r].pc = "allowed",
                 \A u \in Task : state'[u] = "DISPATCHED" =>
                     state[u] = "DISPATCHED" \/ u = disp[r].task,
                 decision' = [decision EXCEPT ![disp[r].task] =
                                IF disp[r].task \in Gated THEN disp[r].tag ELSE None]
          PROVE  decision'[t] # None /\ Event("ALLOW", t, decision'[t]) \in audit'
      <4>1. CASE t = disp[r].task
        <5>1. decision'[t] = disp[r].tag
          BY <3>1, <3>6, <4>1 DEF TypeOK
        <5> QED BY <3>3, <3>6, <4>1, <5>1 DEF Cleared
      <4>2. CASE t # disp[r].task
        <5>1. decision'[t] = decision[t]
          BY <3>1, <3>6, <4>2 DEF TypeOK
        <5> QED BY <3>1, <3>2, <3>4, <3>6, <4>2, <5>1
      <4> QED BY <4>1, <4>2
    <3> QED BY <2>1, <3>5, <3>6 DEF CommitOrFrame
  <2>4. ASSUME NEW m \in Handed', m.task \in Gated
        PROVE  Event("ALLOW", m.task, m.tag) \in audit'
    <3>1. CASE m \in Handed
      BY <2>1, <2>4, <3>1 DEF DispatchGated
    <3>2. ASSUME NEW r \in Replica, disp[r].pc \in Cleared, m = Assignment(r)
          PROVE  Event("ALLOW", m.task, m.tag) \in audit'
      BY <2>1, <2>4, <3>2 DEF ClearedAudited, Assignment
    <3> QED BY <2>1, <3>1, <3>2 DEF HandedOK
  <2> QED BY <2>2, <2>3, <2>4 DEF DispatchGated
<1> QED BY <1>1, <1>2

\* No ungated dispatch: every R1+ task that has been handed to an agent, and
\* every assignment on its way, was allowed by a decision in the audit chain,
\* whatever crashes, is redelivered or fails to be audited.
THEOREM GatedDispatch == Spec => []DispatchGated
<1>1. Init => GInv
  BY ConstantsAssumption DEF Init, GInv, ClearedAudited, DispatchGated, Handed, Pursued, Cleared, IdleDisp
<1>2. GInv => DispatchGated
  BY DEF GInv
<1> QED
  BY InitIInv, IInvInductive, <1>1, GInvInductive, <1>2, PTL DEF Spec
-----------------------------------------------------------------------------
(* Dependency order.  The dependencies are checked when a task is picked;   *)
(* they stay completed because COMPLETED is final.                          *)

\* A dispatch loop works on tasks whose dependencies are completed.
PickedReady ==
    \A r \in Replica : disp[r].pc # "idle" => DependenciesCompleted(disp[r].task)

DInv == PickedReady /\ DependencyOrder

\* COMPLETED dependencies stay COMPLETED.
LEMMA CompletedStays ==
    ASSUME TypeOK, StepLegal, NEW t \in Task, DependenciesCompleted(t)
    PROVE  \A d \in DependsOn[t] : state'[d] = "COMPLETED"
  BY ConstantsAssumption
  DEF TypeOK, StepLegal, DependenciesCompleted, legalTransitions, TaskStates

\* Dependency order survives every step.
LEMMA DInvInductive == IInv /\ DInv /\ [Next]_vars => DInv'
<1> SUFFICES ASSUME IInv, DInv, [Next]_vars PROVE DInv'
  OBVIOUS
<1> USE ConstantsAssumption, SentinelsAssumption DEF IInv, DInv
<1>1. CASE UNCHANGED vars
  BY <1>1 DEF PickedReady, DependencyOrder, DependenciesCompleted, Handed, vars, taskVars, busVars
<1>2. CASE Next
  <2> USE <1>2, StepFacts
  <2>1. StepLegal /\ HandedOK /\ CommitOrFrame /\ \A r \in Replica : DispStepOK(r)
    BY DEF Facts
  <2>2. \A r \in Replica : disp[r].pc # "idle" => disp[r].task \in Task
    BY DEF CapturedOK
  <2>3. IInv'
    BY IInvInductive
  <2>4. ASSUME NEW t \in Task, DependenciesCompleted(t)
        PROVE  \A d \in DependsOn[t] : state'[d] = "COMPLETED"
    BY <2>1, <2>4, CompletedStays
  <2>5. ASSUME NEW r \in Replica, disp'[r].pc # "idle"
        PROVE  \A d \in DependsOn[disp'[r].task] : state'[d] = "COMPLETED"
    <3>1. disp'[r].task \in Task
      BY <2>3, <2>5 DEF CapturedOK
    <3>2. DependenciesCompleted(disp'[r].task)
      BY <2>1, <2>5 DEF DispStepOK, PickedReady
    <3> QED BY <3>1, <3>2, <2>4
  <2>6. ASSUME NEW t \in Task, state'[t] \in Pursued
        PROVE  DependenciesCompleted(t)
    <3>1. CASE state[t] \in Pursued
      BY <3>1 DEF DependencyOrder, DependenciesCompleted
    <3>2. CASE \E r \in Replica : disp[r].pc \in Cleared /\ disp[r].task = t
      BY <3>2 DEF PickedReady, Cleared
    <3>3. state[t] \in Pursued \/ (state'[t] = "DISPATCHED" /\ state[t] # "DISPATCHED")
      BY <2>1, <2>6, EntersByDispatch
    <3> QED BY <2>1, <3>1, <3>2, <3>3 DEF CommitOrFrame, NoNewDispatch, Cleared
  <2>7. ASSUME NEW m \in Handed'
        PROVE  DependenciesCompleted(m.task) /\ m.task \in Task
    <3>1. CASE m \in Handed
      BY <3>1 DEF DependencyOrder, DependenciesCompleted, Handed, Assignments
    <3>2. ASSUME NEW r \in Replica, disp[r].pc \in Cleared, m = Assignment(r)
          PROVE  DependenciesCompleted(m.task) /\ m.task \in Task
      BY <2>2, <3>2 DEF PickedReady, Assignment, Cleared
    <3> QED BY <2>1, <3>1, <3>2 DEF HandedOK
  <2>8. PickedReady'
    BY <2>5 DEF PickedReady, DependenciesCompleted
  <2>9. DependencyOrder'
    BY <2>4, <2>6, <2>7 DEF DependencyOrder
  <2> QED BY <2>8, <2>9
<1> QED BY <1>1, <1>2

\* A task is worked on only after every task it depends on has completed, even
\* though the check is made once, several statements before the commit.
THEOREM DependenciesFirst == Spec => []DependencyOrder
<1>1. Init => DInv
  BY DEF Init, DInv, PickedReady, DependencyOrder, Handed, Pursued, IdleDisp
<1>2. DInv => DependencyOrder
  BY DEF DInv
<1> QED
  BY InitIInv, IInvInductive, <1>1, DInvInductive, <1>2, PTL DEF Spec
-----------------------------------------------------------------------------
(* A kill flag and the dispatches that were past their gates.               *)

PastGate == {"leasing", "matched", "decided", "allowed"}

\* A late dispatch was recorded under a flag that is still engaged; its loop
\* recorded no other one for that flag, and since then it has not been past the
\* gates with a task the flag covers.
LateInv ==
    /\ \A l \in late : l[2] \in killFlag
    /\ \A l, k \in late : l[1] = k[1] /\ l[2] = k[2] => l = k
    /\ \A l \in late : disp[l[1]].pc \in PastGate =>
         l[2] # Global /\ l[2] # MissionOf[disp[l[1]].task]

\* A loop gets past the gates only with a task no engaged flag covers.
GateOK(r) ==
    disp'[r].pc \in PastGate =>
      \/ disp[r].pc \in PastGate /\ disp'[r].task = disp[r].task
      \/ killFlag' = killFlag /\ ~KillEngaged(disp'[r].task)

\* Flags are never taken back, and only a commit is recorded as late.
GateFacts ==
    /\ killFlag \subseteq killFlag'
    /\ \A r \in Replica : GateOK(r)
    /\ late' = late \/ \E r \in Replica : Commit(r)

\* The dispatch loop: MatchAgent is the only way past the gates.
LEMMA DispatchGates ==
    ASSUME IInv, NEW r \in Replica, DispatchPick(r) \/ DispatchStep(r) \/ DispatchFault(r)
    PROVE  GateFacts
<1> USE DEF IInv
<1>k. killFlag' = killFlag
  BY DEF DispatchPick, DispatchStep, DispatchFault, PickQueuedTask, GateDrop, GateDefer,
         MatchAgent, LeaseBusy, AcquireLease, CapCheck, Authorize, AuditDecision, RejectDenied,
         Commit, LoseRace, AuditDispatched, UndoDispatch, AuditDecisionFails,
         AuditDispatchedFails, ReplicaCrash, dispVars
<1>l. late' = late \/ Commit(r)
  BY DEF DispatchPick, DispatchStep, DispatchFault, PickQueuedTask, GateDrop, GateDefer,
         MatchAgent, LeaseBusy, AcquireLease, CapCheck, Authorize, AuditDecision, RejectDenied,
         LoseRace, AuditDispatched, UndoDispatch, AuditDecisionFails,
         AuditDispatchedFails, ReplicaCrash
<1>g. \A q \in Replica : GateOK(q)
  <2> USE DEF GateOK, TypeOK, PastGate, IdleDisp, Continue, Step, Abandon
  <2>1. ASSUME NEW t \in Task, PickQueuedTask(r, t) PROVE \A q \in Replica : GateOK(q)
    BY <2>1 DEF PickQueuedTask
  <2>2. ASSUME NEW a \in Agent, MatchAgent(r, a) PROVE \A q \in Replica : GateOK(q)
    BY <2>2, <1>k DEF MatchAgent, GatePasses, KillEngaged
  <2>3. ASSUME disp' = [disp EXCEPT ![r] = IdleDisp] PROVE \A q \in Replica : GateOK(q)
    BY <2>3
  <2>4. ASSUME NEW pc, NEW a, NEW S, NEW v, Continue(r, pc, a, S, v),
               pc \in PastGate => disp[r].pc \in PastGate
        PROVE  \A q \in Replica : GateOK(q)
    BY <2>4
  <2>5. GateDrop(r) \/ GateDefer(r) \/ LeaseBusy(r) \/ LoseRace(r) \/ RejectDenied(r)
          \/ AuditDispatched(r) \/ UndoDispatch(r) \/ AuditDecisionFails(r) \/ ReplicaCrash(r)
        => disp' = [disp EXCEPT ![r] = IdleDisp]
    BY DEF GateDrop, GateDefer, LeaseBusy, LoseRace, RejectDenied, AuditDispatched,
           UndoDispatch, AuditDecisionFails, ReplicaCrash
  <2>6. CASE \E x \in Target : AcquireLease(r, x)
    BY <2>6, <2>4 DEF AcquireLease
  <2>7. CASE CapCheck(r)
    BY <2>7, <2>3, <2>4 DEF CapCheck
  <2>8. CASE \E o \in Verdicts : Authorize(r, o)
    BY <2>8, <2>4 DEF Authorize
  <2>9. CASE AuditDecision(r)
    BY <2>9, <2>3, <2>4 DEF AuditDecision
  <2>10. CASE Commit(r) \/ AuditDispatchedFails(r)
    BY <2>10, <2>4 DEF Commit, AuditDispatchedFails
  <2> QED
    BY <2>1, <2>2, <2>3, <2>5, <2>6, <2>7, <2>8, <2>9, <2>10
    DEF DispatchPick, DispatchStep, DispatchFault
<1> QED BY <1>k, <1>l, <1>g DEF GateFacts

\* The other processes leave the dispatch loops alone and only engage flags.
LEMMA OtherGates ==
    ASSUME \/ \E r \in Replica : ReaperStart(r) \/ ReaperStep(r) \/ RelayStep(r) \/ RelayFault(r)
           \/ AgentStep \/ AgentFault \/ Heartbeats
           \/ \E h \in Handler : HandlerRead(h) \/ HandlerStep(h) \/ HandlerCrash(h)
           \/ KillStart \/ KillStep \/ KillCrash \/ Operator \/ LeaseTTL
    PROVE  GateFacts /\ disp' = disp
<1> SUFFICES UNCHANGED <<disp, late>> /\ killFlag \subseteq killFlag'
  BY DEF GateFacts, GateOK
<1>1. ASSUME NEW r \in Replica, ReaperStart(r) \/ ReaperStep(r)
      PROVE  UNCHANGED <<disp, late, killFlag>>
  BY <1>1 DEF ReaperStart, ReaperStep, ReaperScanStale, ReaperScanExpired, ReaperScan,
       ReaperExpireQueued, ReaperMarkOffline, RequeueOrDead, ReaperRelease, ReaperKillExpired,
       reapVars
<1>2. ASSUME \/ \E r \in Replica : RelayStep(r) \/ RelayFault(r)
             \/ AgentStep \/ AgentFault \/ Heartbeats \/ LeaseTTL
      PROVE  UNCHANGED <<disp, late, killFlag>>
  BY <1>2 DEF RelayStep, RelayFault, AgentStep, AgentFault, Heartbeats, LeaseTTL, RelayFetch,
       RelayPublish, RelayFail, AckRead, AckWrite, MessageDropped, Finish, AgentCrash, Heartbeat,
       LeaseExpires, busStepVars
<1>3. ASSUME NEW h \in Handler, HandlerRead(h) \/ HandlerStep(h) \/ HandlerCrash(h)
      PROVE  UNCHANGED <<disp, late, killFlag>>
  BY <1>3 DEF HandlerRead, HandlerStep, HandlerCrash, ReadResult, ReportResult, ScopeViolation,
       RouteResult, CompleteResult, RenewWatch, handVars
<1>4. ASSUME KillStart \/ KillStep \/ KillCrash \/ Operator
      PROVE  UNCHANGED <<disp, late>> /\ killFlag \subseteq killFlag'
  BY <1>4 DEF KillStart, KillStep, KillCrash, Operator, KillEngage, KillMissionState, KillList,
       KillTask, KillDone, PauseMission, ResumeMission, killVars
<1> QED BY <1>1, <1>2, <1>3, <1>4

\* The invariant is inductive: a loop that has recorded a late dispatch cannot
\* be past the gates for the same flag, so it does not record another.
LEMMA LateInvInductive == IInv /\ LateInv /\ [Next]_vars => LateInv'
<1> SUFFICES ASSUME IInv, LateInv, [Next]_vars PROVE LateInv'
  OBVIOUS
<1>1. CASE UNCHANGED vars
  BY <1>1 DEF vars, LateInv
<1>2. CASE Next
  <2>1. GateFacts
    BY <1>2, DispatchGates, OtherGates DEF Next
  <2>t. \A l \in late : l[1] \in Replica /\ l[2] \in KillScopes
    BY DEF IInv, TypeOK
  <2>2. CASE late' = late
    BY <2>1, <2>2, <2>t DEF LateInv, GateFacts, GateOK, KillEngaged
  <2>3. CASE \E r \in Replica : Commit(r)
    <3> PICK r \in Replica : Commit(r)
      BY <2>3
    <3>1. /\ disp[r].pc = "allowed" /\ disp'[r].pc = "committed"
          /\ late' = late \cup {<<r, s, disp[r].task>> : s \in LateKills(disp[r].task)}
      BY DEF Commit, Step, Continue, IInv, TypeOK
    <3>2. \A s \in LateKills(disp[r].task) : s \in killFlag /\ \A l \in late : l[1] = r => l[2] # s
      BY <3>1 DEF LateInv, LateKills, PastGate
    <3> QED
      BY <2>1, <2>t, <3>1, <3>2 DEF LateInv, GateFacts, GateOK, PastGate, KillEngaged
  <2> QED BY <2>1, <2>2, <2>3 DEF GateFacts
<1> QED BY <1>1, <1>2

\* An engaged kill flag lets each dispatch loop commit at most one dispatch,
\* the one that was already past its gates (dispatchOne checks the flags once,
\* long before its commit).
THEOREM OneLateDispatch == Spec => []AtMostOneLateDispatch
<1>1. Init => LateInv
  BY DEF Init, LateInv
<1>2. IInv /\ LateInv => AtMostOneLateDispatch
  <2> SUFFICES ASSUME IInv, LateInv, NEW r \in Replica, NEW s \in KillScopes
               PROVE  Cardinality({l \in late : l[1] = r /\ l[2] = s}) <= 1
    BY DEF AtMostOneLateDispatch
  <2> DEFINE L == {l \in late : l[1] = r /\ l[2] = s}
  <2>1. CASE L = {}
    <3>1. Cardinality({}) = 0
      BY FS_EmptySet
    <3> QED BY <2>1, <3>1
  <2>2. CASE L # {}
    <3> PICK k \in L : TRUE
      BY <2>2
    <3>1. L = {k}
      BY DEF LateInv
    <3>2. Cardinality({k}) = 1
      BY FS_Singleton
    <3> QED BY <3>1, <3>2
  <2> QED BY <2>1, <2>2
<1> QED
  BY InitIInv, IInvInductive, LateInvInductive, <1>1, <1>2, PTL DEF Spec
-----------------------------------------------------------------------------
(* Leases, as long as nothing releases a lease it has not checked.          *)

\* No reaper pass lists a task and no commit is undone: requeueOrDead and the
\* undo release leases before they know whose they are.
CarefulReleases == Faults \cap {"ackTimeout", "deadline", "offline", "audit"} = {}

\* From the match on an agent to the commit a loop works with its leases.
Working(r) == disp[r].pc \in {"leasing", "matched", "decided", "denied", "allowed"}

Needed(t) == IF t \in Intrusive THEN TargetsOf[t] ELSE {}

\* The leases a loop counts as its own are among those its task needs, and from
\* the cap check on they are all of them.
HeldOK(r) ==
    /\ disp[r].pc # "undo"
    /\ Working(r) => disp[r].held \subseteq Needed(disp[r].task)
    /\ disp[r].pc = "leasing" => disp[r].task \in Intrusive
    /\ disp[r].pc \in {"matched", "decided", "allowed"} => disp[r].held = Needed(disp[r].task)

\* While its task is still queued, they are its own; two loops with the same
\* task have different ones, and none once the task is in flight.
OwnedOK(r) ==
    Working(r) /\ state[disp[r].task] = "QUEUED" =>
      \A x \in disp[r].held : lease[x] = disp[r].task
ApartOK(r, q) ==
    r # q /\ Working(r) /\ Working(q) /\ disp[q].task = disp[r].task
      /\ state[disp[r].task] = "QUEUED" => disp[r].held \cap disp[q].held = {}
FlightOK(t) ==
    state[t] \in InFlight =>
      /\ \A x \in TargetsOf[t] : lease[x] = t
      /\ \A r \in Replica : Working(r) /\ disp[r].task = t => disp[r].held = {}

\* No row is requeued, so a queued task has never been in flight.
RowsOK ==
    /\ \A r \in Replica : reap[r] = IdleReap
    /\ \A t \in Task : state[t] # "FAILED"
    /\ \A s \in kill.todo : s.state \in InFlight \cup {"QUEUED"}

LeaseInv ==
    /\ RowsOK
    /\ \A r \in Replica : HeldOK(r) /\ OwnedOK(r)
    /\ \A r, q \in Replica : ApartOK(r, q)
    /\ \A t \in Intrusive : FlightOK(t)

\* A dispatch loop takes free targets only and gives back only its own.
LEMMA DispatchLeases ==
    ASSUME CarefulReleases, IInv, LeaseInv, NEW r \in Replica,
           DispatchPick(r) \/ DispatchStep(r) \/ DispatchFault(r)
    PROVE  LeaseInv'
<1> USE ConstantsAssumption, SentinelsAssumption
<1> USE DEF IInv, TypeOK, CapturedOK, LeaseInv, RowsOK, HeldOK, OwnedOK, ApartOK, FlightOK, Working,
            Needed, dispVars, IdleDisp, InFlight
<1>a. ASSUME Abandon(r), Working(r), UNCHANGED <<state, reap, kill>> PROVE LeaseInv'
  BY <1>a DEF Abandon, ReleaseLeases
<1>c. ASSUME NEW pc \in {"matched", "decided", "denied", "allowed"}, NEW a, NEW v, Working(r),
             Continue(r, pc, a, disp[r].held, v), disp[r].held = Needed(disp[r].task),
             UNCHANGED <<state, lease, reap, kill>>
      PROVE  LeaseInv'
  BY <1>c DEF Continue
<1>1. ASSUME NEW t \in Task, PickQueuedTask(r, t) PROVE LeaseInv'
  BY <1>1 DEF PickQueuedTask
<1>2. CASE GateDrop(r)
  BY <1>2 DEF GateDrop, DropStates, Moved, CanMove, legalTransitions
<1>3. CASE GateDefer(r)
  BY <1>3 DEF GateDefer
<1>4. ASSUME NEW a \in Agent, MatchAgent(r, a) PROVE LeaseInv'
  BY <1>4 DEF MatchAgent, Continue
<1>5. CASE LeaseBusy(r)
  BY <1>5, <1>a DEF LeaseBusy
<1>6. ASSUME NEW x \in Target, AcquireLease(r, x) PROVE LeaseInv'
  BY <1>6 DEF AcquireLease, Continue
<1>7. CASE CapCheck(r)
  <2>1. CASE Abandon(r)
    BY <1>7, <2>1, <1>a DEF CapCheck
  <2>2. CASE Step(r, "matched") /\ UNCHANGED lease
    BY <1>7, <2>2, <1>c DEF CapCheck, Step
  <2> QED BY <1>7, <2>1, <2>2 DEF CapCheck
<1>8. ASSUME NEW o \in Verdicts, Authorize(r, o) PROVE LeaseInv'
  <2>1. CASE disp[r].task \in Gated
    BY <1>8, <2>1, <1>c DEF Authorize
  <2>2. CASE disp[r].task \notin Gated
    BY <1>8, <2>2, <1>c DEF Authorize, Step
  <2> QED BY <2>1, <2>2
<1>9. CASE AuditDecision(r)
  <2>1. CASE Abandon(r)
    BY <1>9, <2>1, <1>a DEF AuditDecision
  <2>2. CASE (Step(r, "allowed") \/ Step(r, "denied")) /\ UNCHANGED lease
    BY <1>9, <2>2, <1>c DEF AuditDecision, Step
  <2> QED BY <1>9, <2>1, <2>2 DEF AuditDecision
<1>10. CASE RejectDenied(r)
  BY <1>10 DEF RejectDenied, Abandon, ReleaseLeases, Moved, CanMove, legalTransitions
<1>11. CASE Commit(r)
  BY <1>11 DEF Commit, Continue, Step
<1>12. CASE LoseRace(r)
  BY <1>12, <1>a DEF LoseRace
<1>13. CASE AuditDispatched(r)
  BY <1>13 DEF AuditDispatched
<1>14. CASE UndoDispatch(r)
  BY <1>14 DEF UndoDispatch
<1>15. CASE AuditDecisionFails(r) \/ AuditDispatchedFails(r)
  BY <1>15 DEF AuditDecisionFails, AuditDispatchedFails, CarefulReleases
<1>16. CASE ReplicaCrash(r)
  <2>1. /\ disp' = [disp EXCEPT ![r] = IdleDisp] /\ reap' = [reap EXCEPT ![r] = IdleReap]
        /\ UNCHANGED <<state, lease, kill>>
    BY <1>16 DEF ReplicaCrash, taskVars
  <2>2. RowsOK'
    BY <2>1
  <2>3. \A q \in Replica : Working(q)' => Working(q) /\ disp'[q] = disp[q]
    BY <2>1
  <2>4. \A q \in Replica : HeldOK(q)' /\ OwnedOK(q)'
    BY <2>1, <2>3
  <2>5. \A q, p \in Replica : ApartOK(q, p)'
    BY <2>1, <2>3
  <2>6. \A t \in Intrusive : FlightOK(t)'
    BY <2>1, <2>3
  <2> QED BY <2>2, <2>4, <2>5, <2>6
<1> QED
  BY <1>1, <1>2, <1>3, <1>4, <1>5, <1>6, <1>7, <1>8, <1>9, <1>10, <1>11, <1>12, <1>13, <1>14,
     <1>15, <1>16 DEF DispatchPick, DispatchStep, DispatchFault

\* An UPDATE that neither queues nor dispatches a task, and after which the
\* leases of the others are what they were.
LEMMA UpdateLeases ==
    ASSUME IInv, LeaseInv, NEW t \in Task, UNCHANGED disp, RowsOK',
           \A u \in Task \ {t} : state'[u] = state[u],
           state'[t] = "QUEUED" => state[t] = "QUEUED",
           state'[t] \in InFlight => state[t] \in InFlight,
           \/ lease' = lease
           \/ state'[t] \notin InFlight \cup {"QUEUED"} /\ lease' = ReleaseAllTargetLeases(t)
    PROVE  LeaseInv'
<1> USE ConstantsAssumption, SentinelsAssumption
<1> USE DEF IInv, TypeOK, CapturedOK
<1>1. \A u \in Task : state'[u] = "QUEUED" => state[u] = "QUEUED"
  OBVIOUS
<1>2. \A u \in Task : state'[u] \in InFlight => state[u] \in InFlight
  OBVIOUS
<1>3. \A u \in Task, x \in Target :
        state'[u] \in InFlight \cup {"QUEUED"} /\ lease[x] = u => lease'[x] = u
  BY DEF ReleaseAllTargetLeases, ReleaseLeases
<1>4. \A r \in Replica : HeldOK(r)'
  BY DEF LeaseInv, HeldOK, Working
<1>5. \A r \in Replica : OwnedOK(r)'
  BY <1>1, <1>3 DEF LeaseInv, OwnedOK, Working
<1>6. \A r, q \in Replica : ApartOK(r, q)'
  BY <1>1 DEF LeaseInv, ApartOK, Working
<1>7. \A u \in Intrusive : FlightOK(u)'
  BY <1>2, <1>3 DEF LeaseInv, FlightOK, Working
<1> QED BY <1>4, <1>5, <1>6, <1>7 DEF LeaseInv

\* A step that leaves the rows alone, and takes no lease anybody works with.
LEMMA FrameLeases ==
    ASSUME LeaseInv, UNCHANGED <<state, disp, lease>>, RowsOK'
    PROVE  LeaseInv'
  BY DEF LeaseInv, HeldOK, OwnedOK, ApartOK, FlightOK, Working

\* With those faults excluded a reaper only expires queued tasks.
LEMMA ReaperLeases ==
    ASSUME CarefulReleases, IInv, LeaseInv, NEW r \in Replica, ReaperStart(r) \/ ReaperStep(r)
    PROVE  LeaseInv'
<1>1. \E t \in Task : ReaperExpireQueued(r, t)
  BY DEF CarefulReleases, ReaperStart, ReaperStep, ReaperScanStale, ReaperScanExpired,
         ReaperMarkOffline, RequeueOrDead, ReaperRelease, ReaperKillExpired, LeaseInv, RowsOK,
         IdleReap
<1> PICK t \in Task : ReaperExpireQueued(r, t)
  BY <1>1
<1>2. /\ UNCHANGED <<disp, lease, reap, kill>>
      /\ \A u \in Task \ {t} : state'[u] = state[u]
      /\ state'[t] \in {state[t], "EXPIRED"}
  BY DEF ReaperExpireQueued, reapVars, Moved, IInv, TypeOK
<1>3. RowsOK'
  BY <1>2 DEF LeaseInv, RowsOK
<1> QED BY <1>2, <1>3, UpdateLeases DEF InFlight

\* Relay and agents write no row but DISPATCHED to RUNNING; the bucket's TTL
\* takes only leases nobody stands behind.
LEMMA BusLeases ==
    ASSUME IInv, LeaseInv, \/ \E r \in Replica : RelayStep(r) \/ RelayFault(r)
                           \/ AgentStep \/ AgentFault \/ Heartbeats \/ LeaseTTL
    PROVE  LeaseInv'
<1>1. ASSUME NEW m \in acks, AckWrite(m) PROVE LeaseInv'
  <2>1. /\ m.task \in Task
        /\ UNCHANGED <<disp, lease, reap, kill>>
        /\ \A u \in Task \ {m.task} : state'[u] = state[u]
        /\ \/ state'[m.task] = state[m.task]
           \/ state[m.task] = "DISPATCHED" /\ state'[m.task] = "RUNNING"
    <3>1. m.task \in Task
      BY DEF IInv, TypeOK, Assignments
    <3>2. UNCHANGED <<disp, lease, reap, kill>> /\ state' = Moved(m.task, {"DISPATCHED"}, "RUNNING")
      BY <1>1 DEF AckWrite, busStepVars
    <3>3. CASE state' = state
      BY <3>1, <3>2, <3>3
    <3>4. CASE state' # state
      <4>1. state[m.task] \in {"DISPATCHED"} /\ state' = [state EXCEPT ![m.task] = "RUNNING"]
        BY <3>2, <3>4 DEF Moved, CanMove
      <4> QED BY <3>1, <3>2, <4>1 DEF IInv, TypeOK
    <3> QED BY <3>3, <3>4
  <2>2. RowsOK'
    BY <2>1 DEF LeaseInv, RowsOK
  <2> QED BY <2>1, <2>2, UpdateLeases DEF InFlight
<1>2. ASSUME NEW x \in Target, LeaseExpires(x) PROVE LeaseInv'
  <2>1. /\ UNCHANGED <<state, disp, reap, kill>>
        /\ lease[x] # NoTask /\ lease[x] \notin InFlightTasks
        /\ \A r \in Replica : x \notin disp[r].held
        /\ lease' = [lease EXCEPT ![x] = NoTask]
    BY <1>2 DEF LeaseExpires, taskVars
  <2> QED
    BY <2>1, ConstantsAssumption DEF LeaseInv, RowsOK, HeldOK, OwnedOK, ApartOK, FlightOK, Working,
        IInv, TypeOK, InFlightTasks
<1>3. ASSUME UNCHANGED <<state, disp, lease, reap, kill>> PROVE LeaseInv'
  <2>1. RowsOK'
    BY <1>3 DEF LeaseInv, RowsOK
  <2> QED BY <1>3, <2>1, FrameLeases
<1> QED
  BY <1>1, <1>2, <1>3 DEF RelayStep, RelayFault, AgentStep, AgentFault, Heartbeats, LeaseTTL,
       RelayFetch, RelayPublish, RelayFail, AckRead, MessageDropped, Finish, AgentCrash, Heartbeat,
       busStepVars, busVars

\* A result handler gives the leases back together with the end of the flight.
LEMMA ResultLeases ==
    ASSUME IInv, LeaseInv, NEW h \in Handler, HandlerRead(h) \/ HandlerStep(h) \/ HandlerCrash(h)
    PROVE  LeaseInv'
<1> USE ConstantsAssumption
<1>0. UNCHANGED <<disp, reap, kill>>
  BY DEF HandlerRead, HandlerStep, HandlerCrash, ReadResult, ReportResult, ScopeViolation,
         RouteResult, CompleteResult, RenewWatch, handVars
<1>1. ASSUME NEW t \in Task, \A u \in Task \ {t} : state'[u] = state[u],
             state'[t] \in {state[t]} \cup (TaskStates \ (InFlight \cup {"QUEUED", "FAILED"})),
             \/ lease' = lease
             \/ state'[t] \notin InFlight \cup {"QUEUED"} /\ lease' = ReleaseAllTargetLeases(t)
      PROVE  LeaseInv'
  <2>1. RowsOK'
    BY <1>0, <1>1 DEF LeaseInv, RowsOK
  <2> QED BY <1>0, <1>1, <2>1, UpdateLeases
<1>2. CASE UNCHANGED <<state, lease>>
  <2>1. RowsOK'
    BY <1>0, <1>2 DEF LeaseInv, RowsOK
  <2> QED BY <1>0, <1>2, <2>1, FrameLeases
<1>3. CASE ReportResult(h) \/ ScopeViolation(h) \/ RouteResult(h) \/ CompleteResult(h)
  <2> DEFINE t == hand[h].res.task
  <2>1. t \in Task /\ hand[h].res.status \in ResultStatuses
    BY <1>3 DEF IInv, CapturedOK, Results, ReportResult, ScopeViolation, RouteResult, CompleteResult
  <2>2. CASE ReportResult(h)
    BY <2>1, <2>2, <1>1 DEF ReportResult, Moved, CanMove, IInv, TypeOK, TaskStates, InFlight,
        legalTransitions
  <2>3. CASE ScopeViolation(h)
    BY <2>1, <2>3, <1>1 DEF ScopeViolation, Moved, handVars, IInv, TypeOK, TaskStates, InFlight
  <2>4. CASE RouteResult(h)
    <3>1. \A u \in Task \ {t} : state'[u] = state[u]
      BY <2>1, <2>4 DEF RouteResult, Routed, Moved, IInv, TypeOK
    <3>2. state'[t] \in {state[t], "VALIDATED", "KILLED", "REJECTED_UNAUTHORIZED"}
      BY <2>1, <2>4 DEF RouteResult, Routed, Moved, CanMove, IInv, TypeOK, LeaseInv, RowsOK
    <3> QED BY <2>1, <2>4, <3>1, <3>2, <1>1 DEF RouteResult, TaskStates, InFlight
  <2>5. CASE CompleteResult(h)
    BY <2>1, <2>5, <1>1 DEF CompleteResult, Moved, IInv, TypeOK, TaskStates, InFlight
  <2> QED BY <1>3, <2>2, <2>3, <2>4, <2>5
<1> QED
  BY <1>2, <1>3 DEF HandlerRead, HandlerStep, HandlerCrash, ReadResult, RenewWatch, handVars

\* The drain kills what it listed queued or in flight, and only then releases.
LEMMA KillLeases ==
    ASSUME IInv, LeaseInv, KillStart \/ KillStep \/ KillCrash \/ Operator
    PROVE  LeaseInv'
<1> USE ConstantsAssumption
<1>0. UNCHANGED <<disp, reap>>
  BY DEF KillStart, KillStep, KillCrash, Operator, KillEngage, KillMissionState, KillList,
         KillTask, KillDone, PauseMission, ResumeMission, killVars
<1>1. ASSUME NEW s \in kill.todo, KillTask(s) PROVE LeaseInv'
  <2>1. /\ s.task \in Task /\ s.state \in InFlight \cup {"QUEUED"}
        /\ kill'.todo \subseteq kill.todo
    BY <1>1 DEF KillTask, IInv, TypeOK, Snaps, LeaseInv, RowsOK
  <2>2. CASE state[s.task] = s.state
    <3>1. state' = [state EXCEPT ![s.task] = "KILLED"] /\ lease' = ReleaseAllTargetLeases(s.task)
      BY <1>1, <2>1, <2>2 DEF KillTask, Moved, CanMove, legalTransitions, InFlight, TaskStates
    <3>2. RowsOK'
      BY <1>0, <2>1, <3>1 DEF LeaseInv, RowsOK, IInv, TypeOK
    <3> QED BY <1>0, <2>1, <3>1, <3>2, UpdateLeases DEF IInv, TypeOK, InFlight
  <2>3. CASE state[s.task] # s.state
    <3>1. UNCHANGED <<state, lease>>
      BY <1>1, <2>3 DEF KillTask, Moved, CanMove
    <3>2. RowsOK'
      BY <1>0, <2>1, <3>1 DEF LeaseInv, RowsOK
    <3> QED BY <1>0, <3>1, <3>2, FrameLeases
  <2> QED BY <2>2, <2>3
<1>2. ASSUME UNCHANGED <<state, lease>>, \A s \in kill'.todo : s.state \in InFlight \cup {"QUEUED"}
      PROVE  LeaseInv'
  <2>1. RowsOK'
    BY <1>0, <1>2 DEF LeaseInv, RowsOK
  <2> QED BY <1>0, <1>2, <2>1, FrameLeases
<1>3. CASE KillList
  BY <1>2, <1>3 DEF KillList, Snap
<1>4. CASE (\E s \in KillScopes : KillEngage(s)) \/ KillMissionState \/ KillDone \/ KillCrash \/ Operator
  BY <1>2, <1>4 DEF KillEngage, KillMissionState, KillDone, KillCrash, Operator, PauseMission,
       ResumeMission, IdleKill, LeaseInv, RowsOK
<1> QED BY <1>1, <1>3, <1>4 DEF KillStart, KillStep

\* Every step keeps the leases in order.
LEMMA LeaseInvInductive ==
    ASSUME CarefulReleases
    PROVE  IInv /\ LeaseInv /\ [Next]_vars => LeaseInv'
<1> SUFFICES ASSUME IInv, LeaseInv, [Next]_vars PROVE LeaseInv'
  OBVIOUS
<1>1. CASE UNCHANGED vars
  BY <1>1 DEF vars, taskVars, LeaseInv, RowsOK, HeldOK, OwnedOK, ApartOK, FlightOK, Working
<1>2. CASE Next
  BY <1>2, DispatchLeases, ReaperLeases, BusLeases, ResultLeases, KillLeases DEF Next
<1> QED BY <1>1, <1>2

\* Platform-wide, at most one intrusive task works on a target at a time
\* (package leases), whatever replicas race, crash and kill, as long as the
\* reaper has no task to take back and no commit is undone.
THEOREM TargetsExclusive == CarefulReleases /\ Spec => []OneIntrusivePerTarget
<1> SUFFICES ASSUME CarefulReleases PROVE Spec => []OneIntrusivePerTarget
  OBVIOUS
<1>1. Init => LeaseInv
  BY ConstantsAssumption
  DEF Init, LeaseInv, RowsOK, HeldOK, OwnedOK, ApartOK, FlightOK, Working, IdleDisp, IdleKill, InFlight
<1>2. IInv /\ LeaseInv => OneIntrusivePerTarget
  BY ConstantsAssumption DEF IInv, TypeOK, LeaseInv, FlightOK, OneIntrusivePerTarget, InFlightTasks
<1> QED
  BY InitIInv, IInvInductive, LeaseInvInductive, <1>1, <1>2, PTL DEF Spec
-----------------------------------------------------------------------------
(* The per-RoE bucket of one dispatch loop.                                 *)

\* One replica, and as many tasks as a table has.
OneLoop == (\E r \in Replica : Replica = {r}) /\ IsFiniteSet(Task)

Counted(r) == disp[r].pc \in {"matched", "decided", "allowed"} /\ disp[r].task \in Intrusive

\* Between its count and its commit there is room for the task in hand.
CapInv ==
    /\ \A r \in Replica : disp[r].pc = "leasing" => disp[r].task \in Intrusive
    /\ IntrusiveCapRespected
    /\ \A r \in Replica : Counted(r) => Cardinality(IntrusiveInFlight) < MaxConcurrentIntrusive

\* Only a commit dispatches: any other task in flight was in flight.
LEMMA InFlightFrom ==
    ASSUME IInv, StepLegal, NEW t \in Task, state'[t] \in InFlight,
           state'[t] = "DISPATCHED" => state[t] = "DISPATCHED"
    PROVE  state[t] \in InFlight
  BY DEF StepLegal, IInv, TypeOK, TaskStates, legalTransitions, InFlight

\* A loop with an intrusive task is counted by its cap check alone, which found
\* room, and stays counted until its commit.
CountedBy(r) ==
    /\ disp'[r].pc = "leasing" => disp'[r].task \in Intrusive
    /\ Counted(r)' => Counted(r) \/ ~CapReached(Cardinality(IntrusiveInFlight))

\* The dispatch loop.
LEMMA DispatchCounts ==
    ASSUME IInv, CapInv, NEW r \in Replica, DispatchPick(r) \/ DispatchStep(r) \/ DispatchFault(r)
    PROVE  \A q \in Replica : CountedBy(q)
<1> USE DEF IInv, TypeOK, CountedBy, CapInv, Counted, IdleDisp
<1>1. ASSUME NEW t \in Task, PickQueuedTask(r, t) PROVE \A q \in Replica : CountedBy(q)
  BY <1>1 DEF PickQueuedTask
<1>2. ASSUME NEW a \in Agent, MatchAgent(r, a) PROVE \A q \in Replica : CountedBy(q)
  BY <1>2 DEF MatchAgent, Continue
<1>3. ASSUME disp' = [disp EXCEPT ![r] = IdleDisp] PROVE \A q \in Replica : CountedBy(q)
  BY <1>3
<1>4. ASSUME NEW pc, NEW a, NEW S, NEW v, Continue(r, pc, a, S, v),
             pc = "leasing" => disp[r].pc = "leasing",
             pc \in {"matched", "decided", "allowed"} =>
               \/ disp[r].pc \in {"matched", "decided", "allowed"}
               \/ ~CapReached(Cardinality(IntrusiveInFlight))
      PROVE  \A q \in Replica : CountedBy(q)
  BY <1>4 DEF Continue
<1>5. GateDrop(r) \/ GateDefer(r) \/ LeaseBusy(r) \/ LoseRace(r) \/ RejectDenied(r)
        \/ AuditDispatched(r) \/ UndoDispatch(r) \/ AuditDecisionFails(r) \/ ReplicaCrash(r)
      => disp' = [disp EXCEPT ![r] = IdleDisp]
  BY DEF GateDrop, GateDefer, LeaseBusy, LoseRace, RejectDenied, AuditDispatched,
         UndoDispatch, AuditDecisionFails, ReplicaCrash, Abandon
<1>6. CASE \E x \in Target : AcquireLease(r, x)
  BY <1>6, <1>4 DEF AcquireLease
<1>7. CASE CapCheck(r)
  <2>1. CASE CapReached(Cardinality(IntrusiveInFlight))
    BY <1>7, <2>1, <1>3 DEF CapCheck, Abandon
  <2>2. CASE ~CapReached(Cardinality(IntrusiveInFlight))
    BY <1>7, <2>2, <1>4 DEF CapCheck, Step
  <2> QED BY <2>1, <2>2
<1>8. CASE \E o \in Verdicts : Authorize(r, o)
  BY <1>8, <1>4 DEF Authorize, Step
<1>9. CASE AuditDecision(r)
  BY <1>9, <1>3, <1>4 DEF AuditDecision, Abandon, Step
<1>10. CASE Commit(r) \/ AuditDispatchedFails(r)
  BY <1>10, <1>4 DEF Commit, AuditDispatchedFails, Step
<1> QED
  BY <1>1, <1>2, <1>3, <1>5, <1>6, <1>7, <1>8, <1>9, <1>10
  DEF DispatchPick, DispatchStep, DispatchFault

\* The count is inductive when the loop is the only one: what it has counted
\* can only shrink until it commits.
LEMMA CapInvInductive ==
    ASSUME OneLoop
    PROVE  IInv /\ CapInv /\ [Next]_vars => CapInv'
<1> SUFFICES ASSUME IInv, CapInv, [Next]_vars PROVE CapInv'
  OBVIOUS
<1> DEFINE I == IntrusiveInFlight
<1>0. /\ IsFiniteSet(I) /\ IsFiniteSet(I')
      /\ Cardinality(I) \in Nat /\ Cardinality(I') \in Nat
  <2>1. I \subseteq Task /\ I' \subseteq Task
    BY ConstantsAssumption DEF IntrusiveInFlight
  <2>2. IsFiniteSet(I) /\ IsFiniteSet(I')
    BY <2>1, FS_Subset DEF OneLoop
  <2> HIDE DEF I
  <2> QED BY <2>2, FS_CardinalityType
<1>1. CASE UNCHANGED vars
  BY <1>1 DEF vars, taskVars, CapInv, Counted, IntrusiveCapRespected, IntrusiveInFlight
<1>2. CASE Next
  <2>1. StepLegal /\ CommitOrFrame
    BY <1>2, StepFacts DEF Facts
  <2>2. \A q \in Replica : CountedBy(q)
    BY <1>2, DispatchCounts, OtherGates DEF Next, CountedBy, CapInv, Counted
  <2>3. CASE NoNewDispatch
    <3>1. I' \subseteq I
      BY <2>1, <2>3, InFlightFrom, ConstantsAssumption DEF NoNewDispatch, IntrusiveInFlight
    <3>2. Cardinality(I') <= Cardinality(I)
      <4> HIDE DEF I
      <4> QED BY <1>0, <3>1, FS_Subset
    <3> QED
      BY <1>0, <2>2, <3>2, ConstantsAssumption
      DEF CapInv, CountedBy, CapReached, IntrusiveCapRespected
  <2>4. ASSUME NEW r \in Replica, disp[r].pc = "allowed", disp'[r].pc = "committed",
               \A t \in Task : state'[t] = "DISPATCHED" =>
                 state[t] = "DISPATCHED" \/ t = disp[r].task
        PROVE  CapInv'
    <3> DEFINE t == disp[r].task
    <3>0. \A q \in Replica : q = r
      BY DEF OneLoop
    <3>1. I' \subseteq I \cup ({t} \cap Intrusive)
      BY <2>1, <2>4, InFlightFrom, ConstantsAssumption DEF IntrusiveInFlight
    <3>2. CASE t \in Intrusive
      <4>1. Cardinality(I) < MaxConcurrentIntrusive
        BY <2>4, <3>2 DEF CapInv, Counted
      <4>2. Cardinality(I') <= Cardinality(I) + 1
        <5>1. I' \subseteq I \cup {t}
          BY <3>1
        <5> HIDE DEF I
        <5>2. IsFiniteSet(I \cup {t}) /\ Cardinality(I \cup {t}) <= Cardinality(I) + 1
          BY <1>0, FS_AddElement
        <5>3. Cardinality(I \cup {t}) \in Nat /\ Cardinality(I') <= Cardinality(I \cup {t})
          BY <5>1, <5>2, FS_Subset, FS_CardinalityType
        <5> QED BY <1>0, <5>2, <5>3
      <4>3. Cardinality(I') <= MaxConcurrentIntrusive
        BY <1>0, <4>1, <4>2, ConstantsAssumption
      <4> QED BY <2>2, <2>4, <3>0, <4>3 DEF CapInv, Counted, CountedBy, IntrusiveCapRespected
    <3>3. CASE t \notin Intrusive
      <4>1. I' \subseteq I
        BY <3>1, <3>3
      <4>2. Cardinality(I') <= Cardinality(I)
        <5> HIDE DEF I
        <5> QED BY <1>0, <4>1, FS_Subset
      <4>3. Cardinality(I') <= MaxConcurrentIntrusive
        BY <1>0, <4>2, ConstantsAssumption DEF CapInv, IntrusiveCapRespected
      <4> QED BY <2>2, <2>4, <3>0, <4>3 DEF CapInv, Counted, CountedBy, IntrusiveCapRespected
    <3> QED BY <3>2, <3>3
  <2> QED BY <2>1, <2>3, <2>4 DEF CommitOrFrame
<1> QED BY <1>1, <1>2

\* The per-RoE bucket of intrusive tasks is never exceeded by a single dispatch
\* loop, although the count is read several statements before the commit that
\* it admits and results, kills and the reaper run in between
\* (CountIntrusiveInFlightByROE).
THEOREM CapRespected == OneLoop /\ Spec => []IntrusiveCapRespected
<1> SUFFICES ASSUME OneLoop PROVE Spec => []IntrusiveCapRespected
  OBVIOUS
<1>1. Init => CapInv
  <2>1. Init => IntrusiveInFlight = {}
    BY ConstantsAssumption DEF Init, IntrusiveInFlight, InFlight
  <2>2. Cardinality({}) = 0
    BY FS_EmptySet
  <2>3. Init => \A r \in Replica : disp[r].pc = "idle"
    BY DEF Init, IdleDisp
  <2>4. Init => IntrusiveCapRespected
    BY <2>1, <2>2, ConstantsAssumption DEF IntrusiveCapRespected
  <2> QED BY <2>3, <2>4 DEF CapInv, Counted
<1>2. CapInv => IntrusiveCapRespected
  BY DEF CapInv
<1> QED
  BY InitIInv, IInvInductive, CapInvInductive, <1>1, <1>2, PTL DEF Spec

-----------------------------------------------------------------------------
(* The way in (TargetScope, PlanIntake).                                    *)

\* What stops the plan's check at an exclusion stops the two others there too.
LEMMA SameExclusions ==
    ASSUME NEW e, NEW t, t.form \in {"host", "ip"},
           matchCanonical(e, t) \/ AgentMatches(e, t)
    PROVE  InNet(e, t) \/ Equal(e, t) \/ hostOrSubMatches(e, t)
<1>1. CASE e.form = "net"
  BY <1>1 DEF matchCanonical, AgentMatches, InNet, Equal
<1>2. CASE e.form = "below"
  BY <1>2 DEF matchCanonical, AgentMatches, HostBelow, hostOrSubMatches
<1>3. CASE e.form \notin {"net", "below"}
  BY <1>3 DEF matchCanonical, AgentMatches, Equal
<1> QED BY <1>1, <1>2, <1>3

\* What lets the plan's check pass an entry lets the two others pass it.
LEMMA SameInclusions ==
    ASSUME NEW e, NEW t, t.form \in {"host", "ip"}, hostMatches(e, t) \/ InNet(e, t)
    PROVE  matchCanonical(e, t) /\ AgentMatches(e, t)
  BY DEF matchCanonical, AgentMatches, hostMatches, InNet, Equal

\* The check of a plan is the strictest of the three: what it takes to be in
\* scope is in scope for gatekeeper and for the agent, when they can read it
\* (Scope.Check, Evaluate of scopecanon and of the SDK).
THEOREM PlanCheckIsStrictest ==
    ASSUME NEW s, NEW t, t.form \in {"host", "ip"}, Check(s, t) = "in"
    PROVE  /\ Canonical(t) => Evaluate(s.domains \cup s.cidrs, s.excludes, t) = "in"
           /\ AgentCanonicalizes(t) => AgentEvaluates(s, t) = "in"
<1> DEFINE h == [form |-> t.form, id |-> t.id]
<1>1. Canonicalize(t) = h /\ h.form = t.form /\ h.id = t.id
  BY DEF Canonicalize
<1>2. \A e : (InNet(e, h) = InNet(e, t)) /\ (Equal(e, h) = Equal(e, t))
             /\ (hostOrSubMatches(e, h) = hostOrSubMatches(e, t))
             /\ (hostMatches(e, h) = hostMatches(e, t))
  BY <1>1 DEF InNet, Equal, hostOrSubMatches, hostMatches, HostBelow
<1> HIDE DEF h
<1>3. /\ \A e \in s.excludes : ~(InNet(e, t) \/ Equal(e, t) \/ hostOrSubMatches(e, t))
      /\ \/ \E e \in s.domains : hostMatches(e, t)
         \/ \E e \in s.cidrs : InNet(e, t)
  BY <1>1, <1>2 DEF Check
<1>4. \A e \in s.excludes : ~matchCanonical(e, t) /\ ~AgentMatches(e, t)
  BY <1>3, SameExclusions
<1>5. \E e \in s.domains \cup s.cidrs : matchCanonical(e, t) /\ AgentMatches(e, t)
  BY <1>3, SameInclusions
<1> QED BY <1>4, <1>5 DEF Evaluate, AgentEvaluates

\* Those of a set that have fewer than b of it before them are at most b.
LEMMA FirstOnes ==
    ASSUME NEW n \in Nat, NEW V \in SUBSET (1 .. n), NEW b \in Int,
           NEW A, A = {i \in V : Cardinality({j \in V : j < i}) < b}, A # {}
    PROVE  IsFiniteSet(A) /\ Cardinality(A) <= b
<1> DEFINE T == {n - i : i \in A}
           R == OpToRel(<, Nat)
<1>1. A \subseteq V /\ V \subseteq 1 .. n /\ IsFiniteSet(V) /\ IsFiniteSet(A)
  <2>1. A \subseteq V
    OBVIOUS
  <2>2. IsFiniteSet(1 .. n)
    BY FS_Interval, 1 \in Int, n \in Int
  <2>3. IsFiniteSet(V)
    BY <2>2, FS_Subset
  <2>4. IsFiniteSet(A)
    BY ONLY <2>1, <2>3, FS_Subset
  <2> QED BY <2>1, <2>3, <2>4
<1>2. T \subseteq Nat /\ T # {}
  <2>1. \A i \in A : n - i \in Nat
    BY <1>1
  <2> QED BY <2>1
<1>3. \E x \in T : \A y \in T : <<y, x>> \notin R
  <2> HIDE DEF T
  <2> QED BY <1>2, WFMin, NatLessThanWellFounded
<1>4. PICK m \in A : \A y \in T : <<y, n - m>> \notin R
  BY <1>3
<1>5. \A i \in A : i <= m
  <2> SUFFICES ASSUME NEW i \in A, m < i PROVE FALSE
    BY <1>1
  <2>1. n - i \in T /\ n - i \in Nat /\ n - m \in Nat /\ n - i < n - m
    BY <1>1
  <2> QED BY <2>1, <1>4 DEF OpToRel
<1> DEFINE B == {j \in V : j < m}
<1>6. B \in SUBSET V /\ IsFiniteSet(B) /\ Cardinality(B) < b
  BY <1>1, <1>4, FS_Subset
<1>7. A \ {m} \in SUBSET B
  <2>1. ASSUME NEW i \in A, i # m PROVE i \in B
    <3>1. i \in V /\ i <= m /\ i \in Nat /\ m \in Nat
      BY <1>1, <1>5
    <3> QED BY <3>1, <2>1
  <2> HIDE DEF B
  <2> QED BY <2>1
<1>8. Cardinality(A \ {m}) <= Cardinality(B) /\ Cardinality(A \ {m}) = Cardinality(A) - 1
  BY <1>1, <1>6, <1>7, FS_Subset, FS_RemoveElement
<1> QED BY <1>1, <1>6, <1>8, FS_CardinalityType

\* However many plans a commander submits, on missions of its own or on others,
\* its own missions never have more tasks under way than the quota, unless they
\* had as many before; the count is read once and each accepted task is held
\* against what is left of it (SubmitTaskPlan, CountInFlightByCommander).
THEOREM QuotaIsKept ==
    ASSUME NEW Rows, NEW Ms, NEW Ps, NEW As, NEW TaskSpecs,
           NEW db \in [missions : Ms, plans : Ps, agents : As, tasks : SUBSET Rows],
           NEW p, p.tasks \in Seq(TaskSpecs), NEW roe, NEW now, NEW quota \in Nat,
           NEW statements, IsFiniteSet(db.tasks),
           NEW after, after = SubmitTaskPlan(db, p, roe, now, quota, statements).db
    PROVE  \/ QuotaUsed(after, p.by) <= quota
           \/ QuotaUsed(after, p.by) = QuotaUsed(db, p.by)
<1> DEFINE Live == {"QUEUED", "DISPATCHED", "RUNNING", "REPORTED", "VALIDATED"}
           n == Len(p.tasks)
           keys == {p.tasks[i].key : i \in DOMAIN p.tasks}
           V == {i \in DOMAIN p.tasks : Valid(db, p.tasks[i], keys, roe, p.by)}
           v == PlanVerdicts(db, p, roe, quota)
           U == {t \in db.tasks : db.missions[t.mission].owner = p.by /\ t.state \in Live}
           A == {i \in V : Cardinality({j \in V : j < i}) < quota - Cardinality(U)}
<1>1. CASE after = db
  BY <1>1
<1>2. ASSUME NEW s, after = Stored(db, p, v, s)
      PROVE  \/ QuotaUsed(after, p.by) <= quota
             \/ QuotaUsed(after, p.by) = QuotaUsed(db, p.by)
  <2> DEFINE W == {t \in after.tasks : after.missions[t.mission].owner = p.by /\ t.state \in Live}
             I == {PersistedTask(p, i, TRUE, 3) : i \in A}
  <2>1. /\ QuotaUsed(after, p.by) = Cardinality(W) /\ QuotaUsed(db, p.by) = Cardinality(U)
        /\ IsFiniteSet(U) /\ Cardinality(U) \in Nat
    BY FS_Subset, FS_CardinalityType DEF QuotaUsed
  <2>2. n \in Nat /\ DOMAIN p.tasks = 1 .. n /\ V \in SUBSET (1 .. n)
    OBVIOUS
  <2>3. \A i \in 1 .. n : v[i] => i \in A
    BY <2>1, <2>2 DEF PlanVerdicts
  <2>4. after.missions = db.missions /\
        \E k : after.tasks = db.tasks \cup {PersistedTask(p, i, v[i], k - 3 * (i - 1)) :
                                     i \in {i \in 1 .. n : k > 3 * (i - 1)}}
    <3> HIDE DEF v
    <3> DEFINE bad == {i \in 1 .. n : p.tasks[i].risk \notin Risks}
               ends == {s} \cup {3 * (i - 1) : i \in bad}
               made == CHOOSE k \in ends : \A j \in ends : k <= j
    <3>1. after.missions = db.missions /\
          after.tasks = db.tasks \cup {PersistedTask(p, i, v[i], made - 3 * (i - 1)) :
                                     i \in {i \in 1 .. n : made > 3 * (i - 1)}}
      BY <1>2 DEF Stored
    <3> HIDE DEF made
    <3> QED BY <3>1
  <2>5. W \subseteq U \cup I /\ U \subseteq W
    <3>1. PICK k : after.tasks = db.tasks \cup {PersistedTask(p, i, v[i], k - 3 * (i - 1)) :
                                     i \in {i \in 1 .. n : k > 3 * (i - 1)}}
      BY <2>4
    <3> HIDE DEF v, n, A
    <3>2. ASSUME NEW t \in W, t \notin U PROVE t \in I
      <4>1. t.state \in Live /\ t \notin db.tasks
        BY <3>2, <2>4
      <4>2. PICK i \in 1 .. n : t = PersistedTask(p, i, v[i], k - 3 * (i - 1))
        BY <3>1, <4>1
      <4>3. v[i] /\ t = PersistedTask(p, i, TRUE, 3)
        <5> DEFINE ok == v[i]
                   left == k - 3 * (i - 1)
        <5>1. t = PersistedTask(p, i, ok, left) /\ t.state \in Live
          BY <4>1, <4>2
        <5> HIDE DEF ok, left
        <5>2. ok /\ t = PersistedTask(p, i, TRUE, 3)
          BY ONLY <5>1 DEF PersistedTask
        <5> QED BY <5>2 DEF ok
      <4> QED BY <4>3, <2>3
    <3> QED BY <3>1, <3>2, <2>4
  <2> HIDE DEF U, W
  <2>6. CASE A = {}
    <3>1. I = {}
      BY <2>6
    <3>2. W = U
      <4> HIDE DEF I
      <4> QED BY <3>1, <2>5
    <3> QED BY <2>1, <3>2
  <2>7. CASE A # {}
    <3>1. IsFiniteSet(A) /\ Cardinality(A) <= quota - Cardinality(U)
      <4> DEFINE b == quota - Cardinality(U)
      <4>1. A = {i \in V : Cardinality({j \in V : j < i}) < b}
        OBVIOUS
      <4>2. b \in Int
        BY <2>1
      <4>3. IsFiniteSet(A) /\ Cardinality(A) <= b
        <5> HIDE DEF V, b, A, n
        <5> QED BY <2>2, <2>7, <4>1, <4>2, FirstOnes
      <4> QED BY <4>3
    <3> DEFINE f == [i \in A |-> PersistedTask(p, i, TRUE, 3)]
    <3>2. f \in Surjection(A, I)
      <4> HIDE DEF A
      <4> QED BY DEF Surjection
    <3>3. IsFiniteSet(I) /\ Cardinality(I) <= Cardinality(A)
      <4> HIDE DEF A, I, f
      <4> QED BY <3>1, <3>2, FS_Surjection
    <3> HIDE DEF A, I
    <3>4. Cardinality(U \cup I) <= Cardinality(U) + Cardinality(I) /\ IsFiniteSet(U \cup I)
      <4>1. /\ IsFiniteSet(U \cup I)
            /\ Cardinality(U \cup I) = Cardinality(U) + Cardinality(I) - Cardinality(U \cap I)
        BY <2>1, <3>3, FS_Union
      <4>2. IsFiniteSet(U \cap I)
        BY <2>1, FS_Intersection
      <4>3. Cardinality(U \cap I) \in Nat /\ Cardinality(I) \in Nat
        BY <4>2, <3>3, FS_CardinalityType
      <4> QED BY <4>1, <4>3, <2>1
    <3>5. Cardinality(W) <= Cardinality(U \cup I) /\ IsFiniteSet(W)
      BY <2>5, <3>4, FS_Subset
    <3>6. Cardinality(W) <= quota
      BY <2>1, <3>1, <3>3, <3>4, <3>5, FS_CardinalityType
    <3> QED BY <2>1, <3>6
  <2> QED BY <2>6, <2>7
<1>3. after = db \/ \E s : after = Stored(db, p, v, s)
  <2> HIDE DEF v
  <2>1. v = PlanVerdicts(db, p, roe, quota)
    BY DEF v
  <2> QED BY <2>1 DEF SubmitTaskPlan, Answer, Verdict
<1> QED BY <1>1, <1>2, <1>3

\* Whatever manifests come in, no two identities share an agent id, an identity
\* keeps the id and the type it was given, and a quarantine or a revocation
\* survives any number of registrations (Register, RegisterAgent).
THEOREM IdentitiesStay ==
    ASSUME NEW Ms, NEW Ps, NEW Ts, NEW Ids, NEW Known, NEW m, NEW Types, NEW Cs, NEW Ss,
           NEW db \in [missions : Ms, plans : Ps, tasks : Ts,
                       agents : [Known -> [id : Ids, type : Types, capabilities : Cs, status : Ss]]],
           \A x, y \in Known : db.agents[x].id = db.agents[y].id => x = y,
           NEW after, after = Register(db, m).db
    PROVE  /\ \A x, y \in DOMAIN after.agents :
                 after.agents[x].id = after.agents[y].id => x = y
           /\ \A x \in Known :
                 /\ x \in DOMAIN after.agents
                 /\ after.agents[x].id = db.agents[x].id
                 /\ after.agents[x].type = db.agents[x].type
                 /\ db.agents[x].status \in {"QUARANTINED", "REVOKED"} =>
                        after.agents[x].status = db.agents[x].status
<1> DEFINE row == RegisteredRow(db.agents, m)
           others == {s \in Known \ {m.spiffe} : db.agents[s].id = row.id}
<1>1. after = db \/ (/\ others = {}
                     /\ after.agents = [s \in Known \cup {m.spiffe} |->
                                            IF s = m.spiffe THEN row ELSE db.agents[s]])
  <2> HIDE DEF row
  <2>1. row = RegisteredRow(db.agents, m)
    BY DEF row
  <2> QED BY <2>1 DEF Register, Answer
<1>2. m.spiffe \in Known =>
          /\ row.id = db.agents[m.spiffe].id /\ row.type = db.agents[m.spiffe].type
          /\ db.agents[m.spiffe].status \in {"QUARANTINED", "REVOKED"} =>
                 row.status = db.agents[m.spiffe].status
  BY DEF RegisteredRow
<1> HIDE DEF row
<1>3. CASE after = db
  BY <1>3
<1>4. CASE /\ others = {}
           /\ after.agents = [s \in Known \cup {m.spiffe} |->
                                  IF s = m.spiffe THEN row ELSE db.agents[s]]
  BY <1>2, <1>4
<1> QED BY <1>1, <1>3, <1>4

\* An adapter executes only what the orchestrator validated: of a plan under a
\* key nobody used, the ledger lets a task through only if the specification it
\* holds is the submitted one, passed every check, and is queued; whatever the
\* tables, the ledger, the plan and the point at which the statements stop
\* (submitTaskPlan, Record, Approved).
THEOREM ApprovedWasValidated ==
    ASSUME NEW Ms, NEW Ps, NEW As, NEW Ts, NEW TaskSpecs,
           NEW db \in [missions : Ms, plans : Ps, agents : As, tasks : Ts],
           NEW args, args.tasks \in Seq(TaskSpecs), NEW commander, NEW ledger, NEW fresh,
           NEW rpc, rpc.statements \in Nat,
           BuildPlan(commander, fresh, args).key \notin DOMAIN db.plans,
           NEW after, after = submitTaskPlan(commander, db, ledger, fresh, args, rpc),
           after.answer = "ok",
           NEW i \in DOMAIN args.tasks,
           Approved(after.ledger, fresh.plan, args.tasks[i].key)
    PROVE  /\ after.ledger[fresh.plan][args.tasks[i].key].spec = args.tasks[i]
           /\ Valid(db, args.tasks[i], KeysOf(args.tasks), rpc.roe, commander)
           /\ \E t \in after.db.tasks : t.key = args.tasks[i].key /\ t.state = "QUEUED"
<1> DEFINE p == BuildPlan(commander, fresh, args)
           n == Len(p.tasks)
           resp == SubmitTaskPlan(db, p, rpc.roe, rpc.now, rpc.quota, rpc.statements)
           v == PlanVerdicts(db, p, rpc.roe, rpc.quota)
           st == Stored(db, p, v, rpc.statements)
           detail == [j \in 1 .. n |-> [key |-> p.tasks[j].key, accepted |-> v[j]]]
<1>1. p.tasks = args.tasks /\ p.id = fresh.plan /\ p.by = commander /\ n \in Nat
      /\ DOMAIN args.tasks = 1 .. n /\ DOMAIN p.tasks = 1 .. n
  BY DEF BuildPlan
<1> HIDE DEF p, resp, v, st
<1>2. /\ \A j, k \in DOMAIN args.tasks : args.tasks[j].key = args.tasks[k].key => j = k
      /\ resp.answer = "ok" /\ after.db = resp.db
      /\ after.ledger = Record(ledger, p, resp.verdict.verdicts)
  BY DEF submitTaskPlan, Submission, Refused, WellFormed, p, resp
<1>3. resp = Verdict(st, p.key) /\ st.plans[p.key].verdict # Unset
  <2>1. p.key \notin DOMAIN db.plans
    BY DEF p
  <2> QED BY <1>2, <2>1 DEF resp, st, v, SubmitTaskPlan, Answer
<1>4. PICK made \in Int : made > 3 * n /\ st.plans[p.key].detail = detail
      /\ st.tasks = db.tasks \cup {PersistedTask(p, j, v[j], made - 3 * (j - 1)) :
                                       j \in {j \in 1 .. n : made > 3 * (j - 1)}}
  <2> DEFINE bad == {j \in 1 .. n : p.tasks[j].risk \notin Risks}
             ends == {rpc.statements} \cup {3 * (j - 1) : j \in bad}
             least == CHOOSE k \in ends : \A j \in ends : k <= j
             row == IF least > 3 * n
                    THEN [id |-> p.id, verdict |-> Decision(v), detail |-> detail]
                    ELSE [id |-> p.id, verdict |-> Unset, detail |-> <<>>]
  <2>1. /\ st.plans[p.key] = row
        /\ st.tasks = db.tasks \cup {PersistedTask(p, j, v[j], least - 3 * (j - 1)) :
                                         j \in {j \in 1 .. n : least > 3 * (j - 1)}}
    BY DEF st, Stored
  <2>2. least \in Nat
    <3>1. ends \subseteq Nat /\ rpc.statements \in ends
      BY <1>1
    <3>2. \E k \in ends : \A j \in ends : <<j, k>> \notin OpToRel(<, Nat)
      <4> HIDE DEF ends
      <4> QED BY <3>1, WFMin, NatLessThanWellFounded
    <3>3. \E k \in ends : \A j \in ends : k <= j
      <4> HIDE DEF ends
      <4>1. PICK k \in ends : \A j \in ends : <<j, k>> \notin OpToRel(<, Nat)
        BY <3>2
      <4>2. ASSUME NEW j \in ends PROVE k <= j
        <5>1. j \in Nat /\ k \in Nat /\ <<j, k>> \notin OpToRel(<, Nat)
          BY <3>1, <4>1
        <5> QED BY <5>1 DEF OpToRel
      <4> QED BY <4>2
    <3>4. least \in ends
      <4> HIDE DEF ends
      <4> QED BY <3>3
    <3> QED BY <3>1, <3>4
  <2> HIDE DEF least, detail, bad
  <2>3. least > 3 * n /\ st.plans[p.key].detail = detail
    BY <2>1, <1>3
  <2> QED BY <2>1, <2>2, <2>3
<1>5. resp.db = st /\ resp.verdict.verdicts = detail
  BY <1>3, <1>4 DEF Verdict, verdictFromRow
<1>6. v[i] /\ after.ledger[fresh.plan][args.tasks[i].key].spec = args.tasks[i]
  <2> DEFINE key == args.tasks[i].key
             spec == args.tasks[CHOOSE j \in DOMAIN args.tasks : args.tasks[j].key = key]
  <2>1. spec = args.tasks[i]
    <3>1. \A j \in DOMAIN args.tasks : args.tasks[j].key = key => j = i
      BY <1>2
    <3> QED BY <3>1
  <2>2. /\ key \in DOMAIN after.ledger[fresh.plan]
        /\ after.ledger[fresh.plan][key].accepted
    BY DEF Approved
  <2> HIDE DEF key
  <2>3. /\ after.ledger[fresh.plan][key].spec = spec
        /\ \E j \in DOMAIN detail : detail[j].key = key /\ detail[j].accepted
    <3> HIDE DEF detail
    <3> QED BY <1>1, <1>2, <1>5, <2>2 DEF Record, KeysOf
  <2>4. v[i]
    BY <1>1, <1>2, <2>3 DEF key
  <2> QED BY <2>1, <2>3, <2>4 DEF key
<1>7. Valid(db, args.tasks[i], KeysOf(args.tasks), rpc.roe, commander)
  BY <1>1, <1>6 DEF v, PlanVerdicts, KeysOf
<1>8. \E t \in after.db.tasks : t.key = args.tasks[i].key /\ t.state = "QUEUED"
  <2> DEFINE left == made - 3 * (i - 1)
             t == PersistedTask(p, i, v[i], left)
  <2>1. made > 3 * (i - 1) /\ left # 1 /\ left # 2 /\ i \in 1 .. n
    BY <1>1, <1>4
  <2>2. t \in st.tasks
    BY <1>4, <2>1
  <2>3. t.key = args.tasks[i].key /\ t.state = "QUEUED"
    <3> HIDE DEF left
    <3> QED BY <1>1, <1>6, <2>1 DEF PersistedTask
  <2> HIDE DEF t
  <2> QED BY <1>2, <1>5, <2>2, <2>3
<1> QED BY <1>6, <1>7, <1>8
=============================================================================
