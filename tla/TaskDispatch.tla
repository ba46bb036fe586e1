---------------------------- MODULE TaskDispatch ----------------------------
(***************************************************************************)
(* The task orchestrator of services/platform-core: the platform.tasks     *)
(* table that is also the queue, the gated dispatch of a QUEUED task, the  *)
(* reaper, the kill switch, the outbox relay, the agents' ACK and the      *)
(* handling of their results.                                              *)
(*                                                                         *)
(* Every database statement is atomic, and every handler is a sequence of  *)
(* them, so what a handler read may be stale when it writes.  A handler's  *)
(* program counter and the rows it captured are the records disp (one      *)
(* dispatch loop per replica), reap (one reaper per replica), kill (the    *)
(* revocation consumer or the KillMission RPC) and hand (result handlers:  *)
(* the bus consumer and the ReportResult RPC).                             *)
(*                                                                         *)
(* Time is abstracted: a DISPATCHED task may have missed its ACK window, a *)
(* RUNNING one its deadline and a QUEUED one its TTL at any moment, and an *)
(* agent may miss its heartbeat TTL at any moment.                         *)
(***************************************************************************)
EXTENDS Naturals, FiniteSets

CONSTANTS
    Task, Mission, Agent, Target, Replica, Handler,
    MissionOf,       \* [Task -> Mission]
    TargetsOf,       \* [Task -> SUBSET Target]
    DependsOn,       \* [Task -> SUBSET Task], within one plan
    Gated,           \* tasks of risk class R1 and above
    Intrusive,       \* tasks of risk class R2 and R3
    Watches,         \* R1 monitor.watch tasks
    MaxRetries,
    MaxConcurrentIntrusive,
    KillScopes,      \* revocations that may arrive: missions, targets, Global
    Global,
    Verdicts,        \* what the gatekeeper may answer
    Statuses,        \* what an agent may report
    Faults,          \* environment events of AllFaults that may happen
    NoTask, NoAgent, None

Decisions == {"ALLOW", "DENY", "UNAVAILABLE"}
\* audit: an audit append fails (no spill file); crash: a replica or a handler
\* stops between two statements; relay: the bus refuses a publish or the outbox
\* mark fails; drop: a message reaches MaxDeliver; the others are time passing
\* (ACK window, deadline, queue TTL, 24 h lease TTL), agents and operators.
AllFaults == {"audit", "crash", "relay", "drop", "ackTimeout", "deadline",
              "queueTTL", "leaseTTL", "offline", "agentCrash", "operator"}
ResultStatuses == {"SUCCEEDED", "FAILED", "KILLED", "REJECTED_UNAUTHORIZED",
                   "OUT_OF_SCOPE"}

ASSUME ConstantsAssumption ==
    /\ MissionOf \in [Task -> Mission]
    /\ TargetsOf \in [Task -> SUBSET Target]
    /\ DependsOn \in [Task -> SUBSET Task]
    /\ Intrusive \subseteq Gated /\ Gated \subseteq Task /\ Watches \subseteq Gated
    /\ MaxRetries \in Nat
    /\ MaxConcurrentIntrusive \in Nat
    /\ KillScopes \subseteq Mission \cup Target \cup {Global}
    /\ Verdicts \subseteq Decisions
    /\ Statuses \subseteq ResultStatuses
    /\ Faults \subseteq AllFaults

ASSUME SentinelsAssumption ==
    /\ NoTask \notin Task /\ NoAgent \notin Agent
    /\ Global \notin Mission \cup Target /\ Mission \cap Target = {}
    /\ None \notin Nat

VARIABLES
    state, attempt, assigned, decision,  \* columns of platform.tasks
    mission,     \* platform.missions.state
    killFlag,    \* engaged rows of platform.kill_switches
    agent,       \* platform.agents.status
    lease,       \* NATS KV bucket "leases": target -> owning task
    outbox,      \* unpublished rows of platform.outbox (task assignments)
    relay,       \* per replica, the rows its relay has fetched
    bus,         \* assignments an agent may still receive
    exec,        \* assignments an agent is executing
    acks,        \* AckTask calls that have passed their checks
    results,     \* undelivered or redeliverable task.result messages
    audit,       \* platform.audit_events
    renewals,    \* how many renewal tasks a standing watch has queued
    disp, reap, kill, hand, killed,
    late         \* history: dispatches committed after their kill flag

taskVars == <<state, attempt, assigned, decision>>
busVars  == <<outbox, relay, bus, exec, acks, results>>
vars == <<taskVars, busVars, mission, killFlag, agent, lease, audit, renewals,
          disp, reap, kill, hand, killed, late>>

TaskStates == {"PENDING", "VALIDATING", "QUEUED", "DISPATCHED", "RUNNING",
               "REPORTED", "VALIDATED", "COMPLETED", "REJECTED_UNAUTHORIZED",
               "EXPIRED", "FAILED", "DEAD", "KILLED", "CANCELLED"}

TerminalStates == {"COMPLETED", "REJECTED_UNAUTHORIZED", "EXPIRED", "DEAD",
                   "KILLED", "CANCELLED"}

legalTransitions ==
    [s \in TaskStates |->
        CASE s = "PENDING"    -> {"VALIDATING", "CANCELLED", "KILLED"}
          [] s = "VALIDATING" -> {"QUEUED", "REJECTED_UNAUTHORIZED", "CANCELLED", "KILLED"}
          [] s = "QUEUED"     -> {"DISPATCHED", "REJECTED_UNAUTHORIZED", "CANCELLED",
                                  "EXPIRED", "KILLED"}
          [] s = "DISPATCHED" -> {"RUNNING", "QUEUED", "REPORTED", "KILLED", "CANCELLED"}
          [] s = "RUNNING"    -> {"REPORTED", "QUEUED", "FAILED", "KILLED"}
          [] s = "REPORTED"   -> {"VALIDATED", "FAILED", "REJECTED_UNAUTHORIZED", "KILLED"}
          [] s = "VALIDATED"  -> {"COMPLETED", "KILLED"}
          [] s = "FAILED"     -> {"QUEUED", "DEAD", "KILLED"}
          [] OTHER            -> {}]

\* Wrong variant: the UPDATE forgets its condition on the current state.
CanMove_Unconditional(t, from, to) == \A f \in from : to \in legalTransitions[f]

\* The transition is legal for every listed origin, and the conditional UPDATE
\* finds the row in one of them.
CanMove(t, from, to) ==
    /\ \A f \in from : to \in legalTransitions[f]
    /\ state[t] \in from

\* orchestrator.transition with its error ignored or logged.
Moved(t, from, to) == IF CanMove(t, from, to) THEN [state EXCEPT ![t] = to] ELSE state

InFlight == {"DISPATCHED", "RUNNING"}
InFlightTasks == {t \in Task : state[t] \in InFlight}
FailedStates == {"DEAD", "KILLED", "REJECTED_UNAUTHORIZED", "CANCELLED", "EXPIRED"}
\* Wrong variant: a reported dependency is taken for a completed one.
DependenciesCompleted_Reported(t) ==
    \A d \in DependsOn[t] : state[d] \in {"REPORTED", "VALIDATED", "COMPLETED"}
DependenciesCompleted(t) == \A d \in DependsOn[t] : state[d] = "COMPLETED"
HasFailedDependency(t) == \E d \in DependsOn[t] : state[d] \in FailedStates
KillEngaged(t) == Global \in killFlag \/ MissionOf[t] \in killFlag

\* KVStore.Release on each target: only entries that still name the owner.
ReleaseLeases(t, S) ==
    [x \in Target |-> IF x \in S /\ lease[x] = t THEN NoTask ELSE lease[x]]
ReleaseAllTargetLeases(t) ==
    IF t \in Intrusive THEN ReleaseLeases(t, TargetsOf[t]) ELSE lease

Assignments == [task : Task, agent : Agent, tag : 0..MaxRetries]
AuditEvents == [type : Decisions \cup {"TASK_DISPATCHED"}, task : Task, tag : 0..MaxRetries]
Snaps       == [task : Task, state : TaskStates, attempt : 0..MaxRetries,
                why : {"requeue", "deadline"}]
Results     == [task : Task, agent : Agent, status : ResultStatuses]

\* A decision is named by the task and the attempt it was asked for.
Event(ty, t, n) == [type |-> ty, task |-> t, tag |-> n]

IdleDisp == [pc |-> "idle", task |-> NoTask, agent |-> NoAgent, held |-> {},
             verdict |-> "none", tag |-> 0]
IdleReap == [todo |-> {}, cur |-> None]
IdleKill == [pc |-> "idle", scope |-> Global, todo |-> {}]
IdleHand == [pc |-> "idle", res |-> None]

Init ==
    /\ state = [t \in Task |-> "QUEUED"]
    /\ attempt = [t \in Task |-> 0]
    /\ assigned = [t \in Task |-> NoAgent]
    /\ decision = [t \in Task |-> None]
    /\ mission = [m \in Mission |-> "ACTIVE"]
    /\ killFlag = {}
    /\ agent = [a \in Agent |-> "ONLINE"]
    /\ lease = [x \in Target |-> NoTask]
    /\ outbox = {} /\ relay = [r \in Replica |-> {}]
    /\ bus = {} /\ exec = {} /\ acks = {} /\ results = {}
    /\ audit = {} /\ renewals = [t \in Task |-> 0]
    /\ disp = [r \in Replica |-> IdleDisp]
    /\ reap = [r \in Replica |-> IdleReap]
    /\ kill = IdleKill /\ killed = {}
    /\ hand = [h \in Handler |-> IdleHand]
    /\ late = {}

-----------------------------------------------------------------------------
(* Dispatch loop of replica r: runDispatchPass and dispatchOne.             *)

dispVars == <<attempt, mission, killFlag, agent, relay, exec, acks, results, renewals,
              reap, kill, hand, killed>>

\* The dispatch goes on at pc, with this agent, these leases, this verdict.
Continue(r, pc, a, held, v) ==
    disp' = [disp EXCEPT ![r] = [pc |-> pc, task |-> disp[r].task, agent |-> a,
                                 held |-> held, verdict |-> v, tag |-> disp[r].tag]]
Step(r, pc) == Continue(r, pc, disp[r].agent, disp[r].held, disp[r].verdict)

\* Wrong variant: an early return that forgets its release().
Abandon_KeepsLeases(r) ==
    disp' = [disp EXCEPT ![r] = IdleDisp] /\ UNCHANGED lease

\* outcomeDeferred and outcomeDenied: the leases taken so far go back.
Abandon(r) ==
    /\ lease' = ReleaseLeases(disp[r].task, disp[r].held)
    /\ disp' = [disp EXCEPT ![r] = IdleDisp]

\* The rows of a batch are dispatched one after the other: picking a row and
\* gating it later stands for its wait in the batch.
PickQueuedTask(r, t) ==
    /\ disp[r].pc = "idle"
    /\ state[t] = "QUEUED" /\ DependenciesCompleted(t)
    /\ disp' = [disp EXCEPT ![r] = [pc |-> "picked", task |-> t, agent |-> NoAgent,
                                   held |-> {}, verdict |-> "none", tag |-> attempt[t]]]
    /\ UNCHANGED <<dispVars, state, assigned, decision, outbox, bus, lease, audit, late>>

\* Where the gates drop task t for good; {} lets it pass or wait.
DropStates(t) ==
    IF mission[MissionOf[t]] = "KILLED" THEN {"KILLED"}
    ELSE IF mission[MissionOf[t]] # "ACTIVE" THEN {}
    ELSE IF KillEngaged(t) THEN {"KILLED"}
    ELSE (IF "queueTTL" \in Faults THEN {"EXPIRED"} ELSE {})
         \cup (IF HasFailedDependency(t) THEN {"CANCELLED"} ELSE {})

GateDrop(r) ==
    /\ disp[r].pc = "picked"
    /\ \E to \in DropStates(disp[r].task) : state' = Moved(disp[r].task, {"QUEUED"}, to)
    /\ disp' = [disp EXCEPT ![r] = IdleDisp]
    /\ UNCHANGED <<dispVars, assigned, decision, outbox, bus, lease, audit, late>>

\* Mission not active, or no capable agent online: wait for the next pass.
GateDefer(r) ==
    /\ disp[r].pc = "picked"
    /\ \/ mission[MissionOf[disp[r].task]] \notin {"ACTIVE", "KILLED"}
       \/ \A a \in Agent : agent[a] # "ONLINE"
    /\ disp' = [disp EXCEPT ![r] = IdleDisp]
    /\ UNCHANGED <<dispVars, state, assigned, decision, outbox, bus, lease, audit, late>>

\* Wrong variant: the gate trusts the mission state alone.
GatePasses_NoKillFlags(t) == mission[MissionOf[t]] = "ACTIVE" /\ ~HasFailedDependency(t)

GatePasses(t) ==
    /\ mission[MissionOf[t]] = "ACTIVE" /\ ~KillEngaged(t) /\ ~HasFailedDependency(t)

MatchAgent(r, a) ==
    /\ disp[r].pc = "picked" /\ GatePasses(disp[r].task)
    /\ agent[a] = "ONLINE"
    /\ Continue(r, IF disp[r].task \in Intrusive THEN "leasing" ELSE "matched", a, {}, "none")
    /\ UNCHANGED <<dispVars, state, assigned, decision, outbox, bus, lease, audit, late>>

\* Wrong variant: KV Put instead of Create.
AcquireLease_Put(r, x) ==
    /\ disp[r].pc = "leasing" /\ x \in TargetsOf[disp[r].task] \ disp[r].held
    /\ lease' = [lease EXCEPT ![x] = disp[r].task]
    /\ Continue(r, "leasing", disp[r].agent, disp[r].held \cup {x}, "none")
    /\ UNCHANGED <<dispVars, state, assigned, decision, outbox, bus, audit, late>>

\* KV Create: it fails when any entry is there, even one of the same owner.
AcquireLease(r, x) ==
    /\ disp[r].pc = "leasing" /\ x \in TargetsOf[disp[r].task] \ disp[r].held
    /\ lease[x] = NoTask
    /\ lease' = [lease EXCEPT ![x] = disp[r].task]
    /\ Continue(r, "leasing", disp[r].agent, disp[r].held \cup {x}, "none")
    /\ UNCHANGED <<dispVars, state, assigned, decision, outbox, bus, audit, late>>

LeaseBusy(r) ==
    /\ disp[r].pc = "leasing"
    /\ \E x \in TargetsOf[disp[r].task] \ disp[r].held : lease[x] # NoTask
    /\ Abandon(r)
    /\ UNCHANGED <<dispVars, state, assigned, decision, outbox, bus, audit, late>>

IntrusiveInFlight == {t \in Intrusive : state[t] \in InFlight}

\* Wrong variant: off by one.
CapReached_OffByOne(n) == n > MaxConcurrentIntrusive
CapReached(n) == n >= MaxConcurrentIntrusive

\* CountIntrusiveInFlightByROE against the cap; all missions share one RoE.
CapCheck(r) ==
    /\ disp[r].pc = "leasing" /\ disp[r].held = TargetsOf[disp[r].task]
    /\ IF CapReached(Cardinality(IntrusiveInFlight))
       THEN Abandon(r)
       ELSE Step(r, "matched") /\ UNCHANGED lease
    /\ UNCHANGED <<dispVars, state, assigned, decision, outbox, bus, audit, late>>

\* Authorize and MintToken; an R0 task asks nobody.
Authorize(r, o) ==
    /\ disp[r].pc = "matched"
    /\ IF disp[r].task \in Gated
       THEN Continue(r, "decided", disp[r].agent, disp[r].held, o)
       ELSE Step(r, "allowed")
    /\ UNCHANGED <<dispVars, state, assigned, decision, outbox, bus, lease, audit, late>>

AuditDecision(r) ==
    /\ disp[r].pc = "decided"
    /\ audit' = audit \cup {Event(disp[r].verdict, disp[r].task, disp[r].tag)}
    /\ \/ disp[r].verdict = "ALLOW" /\ Step(r, "allowed") /\ UNCHANGED lease
       \/ disp[r].verdict = "DENY" /\ Step(r, "denied") /\ UNCHANGED lease
       \/ disp[r].verdict = "UNAVAILABLE" /\ Abandon(r)
    /\ UNCHANGED <<dispVars, state, assigned, decision, outbox, bus, late>>

\* Wrong variant: fail open.
AuditDecisionFails_Open(r) ==
    /\ "audit" \in Faults /\ disp[r].pc = "decided"
    /\ Step(r, "allowed")
    /\ UNCHANGED <<dispVars, state, assigned, decision, outbox, bus, lease, audit, late>>

AuditDecisionFails(r) ==
    /\ "audit" \in Faults /\ disp[r].pc = "decided"
    /\ Abandon(r)
    /\ UNCHANGED <<dispVars, state, assigned, decision, outbox, bus, audit, late>>

RejectDenied(r) ==
    /\ disp[r].pc = "denied"
    /\ state' = Moved(disp[r].task, {"QUEUED"}, "REJECTED_UNAUTHORIZED")
    /\ Abandon(r)
    /\ UNCHANGED <<dispVars, assigned, decision, outbox, bus, audit, late>>

Assignment(r) == [task |-> disp[r].task, agent |-> disp[r].agent, tag |-> disp[r].tag]

LateKills(t) == {s \in killFlag : s = Global \/ s = MissionOf[t]}

\* One transaction: conditional UPDATE and outbox row.
Commit(r) ==
    LET t == disp[r].task IN
    /\ disp[r].pc = "allowed" /\ state[t] = "QUEUED"
    /\ state' = [state EXCEPT ![t] = "DISPATCHED"]
    /\ assigned' = [assigned EXCEPT ![t] = disp[r].agent]
    /\ decision' = [decision EXCEPT ![t] = IF t \in Gated THEN disp[r].tag ELSE None]
    /\ outbox' = outbox \cup {Assignment(r)}
    /\ Step(r, "committed")
    /\ late' = late \cup {<<r, s, t>> : s \in LateKills(t)}
    /\ UNCHANGED <<dispVars, bus, lease, audit>>

\* RowsAffected() == 0: another replica won the race, or the task was dropped.
LoseRace(r) ==
    /\ disp[r].pc = "allowed" /\ state[disp[r].task] # "QUEUED"
    /\ Abandon(r)
    /\ UNCHANGED <<dispVars, state, assigned, decision, outbox, bus, audit, late>>

\* The broker hands the assignment to the agent when it is streaming.
AuditDispatched(r) ==
    /\ disp[r].pc = "committed"
    /\ audit' = audit \cup {Event("TASK_DISPATCHED", disp[r].task, disp[r].tag)}
    /\ bus' \in {bus, bus \cup {Assignment(r)}}
    /\ disp' = [disp EXCEPT ![r] = IdleDisp]
    /\ UNCHANGED <<dispVars, state, assigned, decision, outbox, lease, late>>

AuditDispatchedFails(r) ==
    /\ "audit" \in Faults /\ disp[r].pc = "committed"
    /\ outbox' = outbox \ {Assignment(r)}
    /\ Step(r, "undo")
    /\ UNCHANGED <<dispVars, state, assigned, decision, bus, lease, audit, late>>

UndoDispatch(r) ==
    /\ disp[r].pc = "undo"
    /\ state' = Moved(disp[r].task, {"DISPATCHED"}, "QUEUED")
    /\ Abandon(r)
    /\ UNCHANGED <<dispVars, assigned, decision, outbox, bus, audit, late>>
-----------------------------------------------------------------------------
(* Reaper of replica r: runReaperPass works through one list at a time, and *)
(* each listed row is a snapshot.                                           *)

reapVars == <<assigned, decision, mission, killFlag, busVars, audit, renewals,
              disp, kill, hand, killed, late>>

Snap(t, why) == [task |-> t, state |-> state[t], attempt |-> attempt[t], why |-> why]

ReaperIdle(r) == reap[r] = IdleReap

\* StaleDispatched, ExpiredRunning: the rows of S that had run out of time.
ReaperScan(r, S, why) ==
    /\ ReaperIdle(r) /\ S # {}
    /\ reap' = [reap EXCEPT ![r] = [todo |-> {Snap(t, why) : t \in S}, cur |-> None]]
    /\ UNCHANGED <<reapVars, state, attempt, agent, lease>>

ReaperScanStale(r) ==
    /\ "ackTimeout" \in Faults
    /\ \E S \in SUBSET {t \in Task : state[t] = "DISPATCHED"} : ReaperScan(r, S, "requeue")

ReaperScanExpired(r) ==
    /\ "deadline" \in Faults
    /\ \E S \in SUBSET {t \in Task : state[t] = "RUNNING"} : ReaperScan(r, S, "deadline")

\* StaleQueued and the conditional transition; the list adds nothing here.
ReaperExpireQueued(r, t) ==
    /\ "queueTTL" \in Faults /\ ReaperIdle(r) /\ state[t] = "QUEUED"
    /\ state' = Moved(t, {"QUEUED"}, "EXPIRED")
    /\ UNCHANGED <<reapVars, reap, attempt, agent, lease>>

\* MarkStaleAgentsOffline commits; the agent's tasks are listed afterwards, or
\* the second query fails and the pass goes on without them.
ReaperMarkOffline(r, a) ==
    /\ "offline" \in Faults /\ ReaperIdle(r) /\ agent[a] = "ONLINE"
    /\ agent' = [agent EXCEPT ![a] = "OFFLINE"]
    /\ LET mine == {t \in InFlightTasks : assigned[t] = a} IN
       reap' \in {reap, [reap EXCEPT ![r] = [todo |-> {Snap(t, "requeue") : t \in mine},
                                                cur |-> None]]}
    /\ UNCHANGED <<reapVars, state, attempt, lease>>

\* requeueOrDead begins by releasing the leases, before it knows whether the
\* row is still in the listed state.
ReaperRelease(r, s) ==
    /\ reap[r].cur = None /\ s \in reap[r].todo /\ s.why = "requeue"
    /\ lease' = ReleaseAllTargetLeases(s.task)
    /\ reap' = [reap EXCEPT ![r] = [todo |-> reap[r].todo \ {s}, cur |-> s]]
    /\ UNCHANGED <<reapVars, state, attempt, agent>>

\* Wrong variant: off by one.
RetriesExhausted_OffByOne(n) == n > MaxRetries
RetriesExhausted(n) == n >= MaxRetries

RequeueOrDead(r) ==
    LET s == reap[r].cur
        exhausted == RetriesExhausted(s.attempt)
        to == IF exhausted THEN "DEAD" ELSE "QUEUED" IN
    /\ s # None
    /\ state' = Moved(s.task, {s.state}, to)
    /\ attempt' = IF ~exhausted /\ CanMove(s.task, {s.state}, to)
                  THEN [attempt EXCEPT ![s.task] = s.attempt + 1] ELSE attempt
    /\ reap' = [reap EXCEPT ![r] = [todo |-> reap[r].todo, cur |-> None]]
    /\ UNCHANGED <<reapVars, agent, lease>>

\* Wrong variant: the leases of a task killed at its deadline are forgotten.
ReaperKillExpired_KeepsLeases(r, s) ==
    /\ reap[r].cur = None /\ s \in reap[r].todo /\ s.why = "deadline"
    /\ state' = Moved(s.task, {"RUNNING"}, "KILLED")
    /\ reap' = [reap EXCEPT ![r] = [todo |-> reap[r].todo \ {s}, cur |-> None]]
    /\ UNCHANGED <<reapVars, attempt, agent, lease>>

\* ErrInvalidTransition is tolerated, and the leases go either way.
ReaperKillExpired(r, s) ==
    /\ reap[r].cur = None /\ s \in reap[r].todo /\ s.why = "deadline"
    /\ state' = Moved(s.task, {"RUNNING"}, "KILLED")
    /\ lease' = ReleaseAllTargetLeases(s.task)
    /\ reap' = [reap EXCEPT ![r] = [todo |-> reap[r].todo \ {s}, cur |-> None]]
    /\ UNCHANGED <<reapVars, attempt, agent>>

\* The process of replica r stops: what its loops held in memory is gone, the
\* leases its dispatch loop had taken stay.
ReplicaCrash(r) ==
    /\ "crash" \in Faults
    /\ disp' = [disp EXCEPT ![r] = IdleDisp]
    /\ reap' = [reap EXCEPT ![r] = IdleReap]
    /\ relay' = [relay EXCEPT ![r] = {}]
    /\ UNCHANGED <<taskVars, mission, killFlag, agent, lease, outbox, bus, exec, acks,
                   results, audit, renewals, kill, hand, killed, late>>

\* The bucket's 24 h TTL; a task is assumed to run for less than that, so only
\* entries nobody stands behind any more get that old.
LeaseExpires(x) ==
    /\ "leaseTTL" \in Faults
    /\ lease[x] # NoTask /\ lease[x] \notin InFlightTasks
    /\ \A r \in Replica : x \notin disp[r].held
    /\ lease' = [lease EXCEPT ![x] = NoTask]
    /\ UNCHANGED <<taskVars, busVars, mission, killFlag, agent, audit, renewals,
                   disp, reap, kill, hand, killed, late>>

-----------------------------------------------------------------------------
(* Outbox relay of replica r and the agents.                                *)

busStepVars == <<attempt, assigned, decision, mission, killFlag, lease, audit, renewals,
                 disp, reap, kill, hand, killed, late>>

\* FOR UPDATE SKIP LOCKED outside a transaction: the rows are not claimed.
RelayFetch(r) ==
    /\ relay[r] = {} /\ outbox # {}
    /\ relay' = [relay EXCEPT ![r] = outbox]
    /\ UNCHANGED <<busStepVars, state, agent, outbox, bus, exec, acks, results>>

RelayPublish(r, m) ==
    /\ m \in relay[r]
    /\ relay' = [relay EXCEPT ![r] = @ \ {m}]
    /\ bus' = bus \cup {m}
    /\ outbox' \in {outbox \ {m}} \cup (IF "relay" \in Faults THEN {outbox} ELSE {})
    /\ UNCHANGED <<busStepVars, state, agent, exec, acks, results>>

RelayFail(r, m) ==
    /\ "relay" \in Faults /\ m \in relay[r]
    /\ relay' = [relay EXCEPT ![r] = @ \ {m}]
    /\ UNCHANGED <<busStepVars, state, agent, outbox, bus, exec, acks, results>>

\* AckTask reads the row.  A call that fails is NAKed: the message stays.
AckRead(m) ==
    /\ m \in bus /\ m \notin acks /\ assigned[m.task] = m.agent
    /\ \/ /\ state[m.task] = "RUNNING"          \* idempotent re-ACK
          /\ exec' = exec \cup {m} /\ bus' = bus \ {m} /\ UNCHANGED acks
       \/ /\ state[m.task] = "DISPATCHED"
          /\ acks' = acks \cup {m} /\ UNCHANGED <<exec, bus>>
    /\ UNCHANGED <<busStepVars, state, agent, outbox, relay, results>>

\* AckTask writes: conditional on the state, not on the assignee.
AckWrite(m) ==
    /\ m \in acks
    /\ acks' = acks \ {m}
    /\ state' = Moved(m.task, {"DISPATCHED"}, "RUNNING")
    /\ IF state[m.task] = "DISPATCHED"
       THEN exec' = exec \cup {m} /\ bus' = bus \ {m}
       ELSE UNCHANGED <<exec, bus>>
    /\ UNCHANGED <<busStepVars, agent, outbox, relay, results>>

MessageDropped ==
    /\ "drop" \in Faults
    /\ \/ \E m \in bus : bus' = bus \ {m} /\ UNCHANGED results
       \/ \E m \in results : results' = results \ {m} /\ UNCHANGED bus
    /\ UNCHANGED <<busStepVars, state, agent, outbox, relay, exec, acks>>

Finish(m, st) ==
    /\ m \in exec
    /\ exec' = exec \ {m}
    /\ results' = results \cup {[task |-> m.task, agent |-> m.agent, status |-> st]}
    /\ UNCHANGED <<busStepVars, state, agent, outbox, relay, bus, acks>>

AgentCrash(m) ==
    /\ "agentCrash" \in Faults /\ m \in exec
    /\ exec' = exec \ {m}
    /\ UNCHANGED <<busStepVars, state, agent, outbox, relay, bus, acks, results>>

\* TouchHeartbeat: a quarantined agent stays blocked.
Heartbeat(a) ==
    /\ agent[a] = "OFFLINE"
    /\ agent' = [agent EXCEPT ![a] = "ONLINE"]
    /\ UNCHANGED <<busStepVars, busVars, state>>

-----------------------------------------------------------------------------
(* HandleResult, run by the bus consumer and by the ReportResult RPC.       *)

handVars == <<assigned, decision, killFlag, outbox, relay, bus, exec, acks,
              audit, disp, reap, kill, killed, late>>

\* The message is gone once the handler returns without an error; on an error
\* it is redelivered.
Acked(h) ==
    /\ results' = results \ {hand[h].res}
    /\ hand' = [hand EXCEPT ![h] = IdleHand]
HandlerAt(h, pc) == hand' = [hand EXCEPT ![h] = [pc |-> pc, res |-> hand[h].res]]
Naked(h) ==
    /\ UNCHANGED results
    /\ hand' = [hand EXCEPT ![h] = IdleHand]

\* A result from the wrong agent is an error and changes nothing.
ReadResult(h, m) ==
    /\ hand[h].pc = "idle" /\ m \in results
    /\ IF state[m.task] \in TerminalStates
       THEN results' = results \ {m} /\ UNCHANGED hand
       ELSE /\ assigned[m.task] = m.agent
            /\ hand' = [hand EXCEPT ![h] = [pc |-> "read", res |-> m]]
            /\ UNCHANGED results
    /\ UNCHANGED <<handVars, attempt, state, mission, agent, lease, renewals>>

\* -> REPORTED and the leases back, or ErrInvalidTransition.
ReportResult(h) ==
    LET t == hand[h].res.task IN
    /\ hand[h].pc = "read"
    /\ state' = Moved(t, InFlight, "REPORTED")
    /\ IF state[t] \in InFlight
       THEN /\ lease' = ReleaseAllTargetLeases(t)
            /\ HandlerAt(h, "reported") /\ UNCHANGED results
       ELSE Naked(h) /\ UNCHANGED lease
    /\ UNCHANGED <<handVars, attempt, mission, agent, renewals>>

\* handleScopeViolation: quarantine, pause, kill; it never fails.
ScopeViolation(h) ==
    LET res == hand[h].res  m == MissionOf[res.task] IN
    /\ hand[h].pc = "reported" /\ res.status = "OUT_OF_SCOPE"
    /\ agent' = [agent EXCEPT ![res.agent] = "QUARANTINED"]
    /\ mission' = IF mission[m] = "ACTIVE" THEN [mission EXCEPT ![m] = "PAUSED"] ELSE mission
    /\ state' = Moved(res.task, {"REPORTED"}, "KILLED")
    /\ Acked(h)
    /\ UNCHANGED <<handVars, attempt, lease, renewals>>

\* Where a result status sends a REPORTED task (TIMEOUT is FAILED here).
\* handleFailure asks for a transition from FAILED, a state HandleResult never
\* writes.
Routed(res) ==
    CASE res.status = "SUCCEEDED"            -> Moved(res.task, {"REPORTED"}, "VALIDATED")
      [] res.status = "FAILED"               ->
           Moved(res.task, {"FAILED"}, IF attempt[res.task] < MaxRetries THEN "QUEUED" ELSE "DEAD")
      [] res.status = "KILLED"               -> Moved(res.task, {"REPORTED"}, "KILLED")
      [] OTHER -> Moved(res.task, {"REPORTED"}, "REJECTED_UNAUTHORIZED")

RouteResult(h) ==
    LET res == hand[h].res IN
    /\ hand[h].pc = "reported" /\ res.status # "OUT_OF_SCOPE"
    /\ state' = Routed(res)
    /\ attempt' = IF state'[res.task] = "QUEUED" /\ state # state'
                  THEN [attempt EXCEPT ![res.task] = @ + 1] ELSE attempt
    /\ IF state' = state THEN Naked(h)
       ELSE IF res.status = "SUCCEEDED"
            THEN HandlerAt(h, "validated") /\ UNCHANGED results
            ELSE Acked(h)
    /\ UNCHANGED <<handVars, mission, agent, lease, renewals>>

CompleteResult(h) ==
    LET t == hand[h].res.task IN
    /\ hand[h].pc = "validated"
    /\ state' = Moved(t, {"VALIDATED"}, "COMPLETED")
    /\ IF state[t] # "VALIDATED" THEN Naked(h)
       ELSE IF t \in Watches THEN HandlerAt(h, "renew") /\ UNCHANGED results
       ELSE Acked(h)
    /\ UNCHANGED <<handVars, attempt, mission, agent, lease, renewals>>

\* maybeRenewWatch queues a fresh task (outside Task) for the standing watch.
RenewWatch(h) ==
    LET t == hand[h].res.task IN
    /\ hand[h].pc = "renew"
    /\ renewals' = IF mission[MissionOf[t]] = "ACTIVE"
                   THEN [renewals EXCEPT ![t] = @ + 1] ELSE renewals
    /\ Acked(h)
    /\ UNCHANGED <<handVars, attempt, state, mission, agent, lease>>

HandlerCrash(h) ==
    /\ "crash" \in Faults /\ hand[h].pc # "idle"
    /\ Naked(h)
    /\ UNCHANGED <<handVars, attempt, state, mission, agent, lease, renewals>>
-----------------------------------------------------------------------------
(* Kill switch: the revocations consumer and Mission.KillMission; operators. *)

killVars == <<attempt, assigned, decision, agent, busVars, audit, renewals,
              disp, reap, hand, late>>

Covers(s, t) == s = Global \/ s = MissionOf[t] \/ s \in TargetsOf[t]

\* A mission and a global kill set a flag; a target kill only drains.
KillEngage(s) ==
    /\ kill.pc = "idle" /\ s \in KillScopes \ killed
    /\ killFlag' = IF s \in Target THEN killFlag ELSE killFlag \cup {s}
    /\ kill' = [pc |-> IF s \in Mission THEN "mission" ELSE "list", scope |-> s, todo |-> {}]
    /\ UNCHANGED <<killVars, state, mission, lease, killed>>

KillMissionState ==
    /\ kill.pc = "mission"
    /\ mission' = [mission EXCEPT ![kill.scope] = "KILLED"]
    /\ kill' = [pc |-> "list", scope |-> kill.scope, todo |-> {}]
    /\ UNCHANGED <<killVars, state, killFlag, lease, killed>>

\* Only a mission kill lists QUEUED tasks as well.
KillList ==
    LET states == InFlight \cup (IF kill.scope \in Mission THEN {"QUEUED"} ELSE {}) IN
    /\ kill.pc = "list"
    /\ kill' = [pc |-> "drain", scope |-> kill.scope,
                todo |-> {Snap(t, "requeue") :
                            t \in {u \in Task : Covers(kill.scope, u) /\ state[u] \in states}}]
    /\ UNCHANGED <<killVars, state, mission, killFlag, lease, killed>>

\* ErrInvalidTransition skips the task ("raced with a completion").
KillTask(s) ==
    /\ kill.pc = "drain" /\ s \in kill.todo
    /\ kill' = [pc |-> "drain", scope |-> kill.scope, todo |-> kill.todo \ {s}]
    /\ state' = Moved(s.task, {s.state}, "KILLED")
    /\ lease' = IF state[s.task] = s.state THEN ReleaseAllTargetLeases(s.task) ELSE lease
    /\ UNCHANGED <<killVars, mission, killFlag, killed>>

KillDone ==
    /\ kill.pc = "drain" /\ kill.todo = {}
    /\ kill' = IdleKill
    /\ killed' = killed \cup {kill.scope}
    /\ UNCHANGED <<killVars, state, mission, killFlag, lease>>

\* The consumer stops before its ack: the revocation is redelivered.
KillCrash ==
    /\ "crash" \in Faults /\ kill.pc # "idle"
    /\ kill' = IdleKill
    /\ UNCHANGED <<killVars, state, mission, killFlag, lease, killed>>

PauseMission(m) ==
    /\ "operator" \in Faults /\ mission[m] = "ACTIVE"
    /\ mission' = [mission EXCEPT ![m] = "PAUSED"]
    /\ UNCHANGED <<killVars, state, killFlag, lease, kill, killed>>

ResumeMission(m) ==
    /\ "operator" \in Faults /\ mission[m] = "PAUSED"
    /\ mission' = [mission EXCEPT ![m] = "ACTIVE"]
    /\ UNCHANGED <<killVars, state, killFlag, lease, kill, killed>>

-----------------------------------------------------------------------------
DispatchPick(r) == \E t \in Task : PickQueuedTask(r, t)

\* The rest of a dispatch, faults aside.
DispatchStep(r) ==
    \/ GateDrop(r) \/ GateDefer(r) \/ \E a \in Agent : MatchAgent(r, a)
    \/ LeaseBusy(r) \/ \E x \in Target : AcquireLease(r, x)
    \/ CapCheck(r) \/ \E o \in Verdicts : Authorize(r, o)
    \/ AuditDecision(r) \/ RejectDenied(r) \/ Commit(r) \/ LoseRace(r)
    \/ AuditDispatched(r) \/ UndoDispatch(r)

DispatchFault(r) == AuditDecisionFails(r) \/ AuditDispatchedFails(r) \/ ReplicaCrash(r)

ReaperStart(r) ==
    \/ ReaperScanStale(r) \/ ReaperScanExpired(r)
    \/ \E t \in Task : ReaperExpireQueued(r, t)
    \/ \E a \in Agent : ReaperMarkOffline(r, a)

ReaperStep(r) ==
    \/ RequeueOrDead(r)
    \/ \E s \in reap[r].todo : ReaperRelease(r, s) \/ ReaperKillExpired(r, s)

RelayStep(r) == RelayFetch(r) \/ \E m \in relay[r] : RelayPublish(r, m)
RelayFault(r) == \E m \in relay[r] : RelayFail(r, m)

AgentStep ==
    \/ \E m \in bus : AckRead(m)
    \/ \E m \in acks : AckWrite(m)
    \/ \E m \in exec, st \in Statuses : Finish(m, st)

AgentFault == MessageDropped \/ \E m \in exec : AgentCrash(m)
Heartbeats == \E a \in Agent : Heartbeat(a)

HandlerRead(h) == \E m \in results : ReadResult(h, m)
HandlerStep(h) ==
    ReportResult(h) \/ ScopeViolation(h) \/ RouteResult(h) \/ CompleteResult(h) \/ RenewWatch(h)

KillStart == \E s \in KillScopes : KillEngage(s)
KillStep == KillMissionState \/ KillList \/ KillDone \/ \E s \in kill.todo : KillTask(s)

Operator == \E m \in Mission : PauseMission(m) \/ ResumeMission(m)
LeaseTTL == \E x \in Target : LeaseExpires(x)

Next ==
    \/ \E r \in Replica : \/ DispatchPick(r) \/ DispatchStep(r) \/ DispatchFault(r)
                        \/ ReaperStart(r) \/ ReaperStep(r)
                        \/ RelayStep(r) \/ RelayFault(r)
    \/ AgentStep \/ AgentFault \/ Heartbeats
    \/ \E h \in Handler : HandlerRead(h) \/ HandlerStep(h) \/ HandlerCrash(h)
    \/ KillStart \/ KillStep \/ KillCrash
    \/ Operator \/ LeaseTTL

Spec == Init /\ [][Next]_vars

\* Every loop keeps running (tickers, consumers).  A pass visits every eligible
\* row of its batch and the bus redelivers every message that was not acked, so
\* a task or a result that keeps being eligible is taken up again and again, and
\* every reaper pass looks for RUNNING tasks past their deadline: strong fairness
\* for those three.  Faults, operators, heartbeats and the arrival
\* of revocations are not fair.
Fairness ==
    /\ \A r \in Replica :
         /\ \A t \in Task : SF_vars(PickQueuedTask(r, t))
         /\ WF_vars(DispatchStep(r)) /\ WF_vars(ReaperStep(r)) /\ WF_vars(RelayStep(r))
         /\ SF_vars(ReaperScanExpired(r))
    /\ \A m \in Assignments :
         /\ WF_vars(m \in bus /\ AckRead(m)) /\ WF_vars(AckWrite(m))
         /\ WF_vars(\E st \in Statuses : Finish(m, st))
    /\ \A h \in Handler :
         /\ WF_vars(HandlerStep(h))
         /\ \A t \in Task : SF_vars(\E m \in results : m.task = t /\ ReadResult(h, m))
    /\ WF_vars(KillStep)

FairSpec == Spec /\ Fairness
-----------------------------------------------------------------------------
(* Properties.                                                              *)

DispPcs == {"idle", "picked", "leasing", "matched", "decided", "denied", "allowed",
            "committed", "undo"}
HandPcs == {"idle", "read", "reported", "validated", "renew"}

\* Every column, message and captured row has the shape the schema gives it;
\* in particular no path pushes attempt beyond max_retries.
TypeOK ==
    /\ state \in [Task -> TaskStates]
    /\ attempt \in [Task -> 0..MaxRetries]
    /\ assigned \in [Task -> Agent \cup {NoAgent}]
    /\ decision \in [Task -> 0..MaxRetries \cup {None}]
    /\ mission \in [Mission -> {"ACTIVE", "PAUSED", "KILLED"}]
    /\ killFlag \subseteq KillScopes
    /\ agent \in [Agent -> {"ONLINE", "OFFLINE", "QUARANTINED"}]
    /\ lease \in [Target -> Task \cup {NoTask}]
    /\ relay \in [Replica -> SUBSET Assignments]
    /\ outbox \subseteq Assignments /\ bus \subseteq Assignments
    /\ exec \subseteq Assignments /\ acks \subseteq Assignments
    /\ results \subseteq Results /\ audit \subseteq AuditEvents
    /\ renewals \in [Task -> Nat]
    /\ disp \in [Replica -> [pc : DispPcs, task : Task \cup {NoTask},
                            agent : Agent \cup {NoAgent}, held : SUBSET Target,
                            verdict : Decisions \cup {"none"}, tag : 0..MaxRetries]]
    /\ reap \in [Replica -> [todo : SUBSET Snaps, cur : Snaps \cup {None}]]
    /\ kill \in [pc : {"idle", "mission", "list", "drain"},
                 scope : KillScopes \cup {Global}, todo : SUBSET Snaps]
    /\ hand \in [Handler -> [pc : HandPcs, res : Results \cup {None}]]
    /\ killed \subseteq KillScopes
    /\ late \subseteq Replica \X KillScopes \X Task

Pursued == {"DISPATCHED", "RUNNING", "REPORTED", "VALIDATED", "COMPLETED"}

\* Assignments that have left the dispatch loop.
Handed == {m \in Assignments : \/ m \in outbox \cup bus \cup acks \cup exec
                               \/ \E r \in Replica : m \in relay[r]}

\* No R1+ task leaves QUEUED towards an agent, and no R1+ assignment is on its
\* way or being executed, without the ALLOW decision it was dispatched under
\* being in the audit chain (README invariant, dispatchOne's doc comment).
DispatchGated ==
    /\ \A t \in Gated : state[t] \in Pursued =>
          decision[t] # None /\ Event("ALLOW", t, decision[t]) \in audit
    /\ \A m \in Handed : m.task \in Gated => Event("ALLOW", m.task, m.tag) \in audit

\* A task is dispatched, and executed, only after all its dependencies are
\* COMPLETED, whatever is redelivered, undone or requeued in between
\* (PickQueuedTasks checks once, long before the commit).
DependencyOrder ==
    \A t \in Task : state[t] \in Pursued \/ (\E m \in Handed : m.task = t) =>
        \A d \in DependsOn[t] : state[d] = "COMPLETED"

\* Every change of a state column follows the task state machine, whoever
\* makes it and however stale the row it acted on (statemachine.go, of which
\* commits and ACKs bypass the check in code).
LegalTransitions ==
    [][\A t \in Task : state'[t] = state[t] \/ state'[t] \in legalTransitions[state[t]]]_vars

\* A terminal task never moves again: late results, ACKs, reaper snapshots and
\* kill drains all meet a conditional UPDATE (store.Transition).
TerminalAbsorbing ==
    [][\A t \in Task : state[t] \in TerminalStates => state'[t] = state[t]]_vars

\* Platform-wide, at most one intrusive task works on a target at a time
\* (package leases).
OneIntrusivePerTarget ==
    \A t, u \in Intrusive :
        t # u /\ {t, u} \subseteq InFlightTasks => TargetsOf[t] \cap TargetsOf[u] = {}

\* The per-RoE bucket: with one dispatch loop the count read before the
\* authorisation still bounds the tasks in flight after the commit.
IntrusiveCapRespected == Cardinality(IntrusiveInFlight) <= MaxConcurrentIntrusive

\* An engaged kill flag lets each dispatch loop commit at most the one dispatch
\* that was already past its gates.
AtMostOneLateDispatch ==
    \A r \in Replica, s \in KillScopes : Cardinality({l \in late : l[1] = r /\ l[2] = s}) <= 1

\* Every queued task comes to a terminal state when the gatekeeper answers, no
\* agent reports a failure and no handler stops half way, although agents may
\* crash with a task and deadlines pass (reaper pass).
TaskResolved == \A t \in Task : state[t] = "QUEUED" ~> state[t] \in TerminalStates

\* Under the same conditions no lease is held for ever: the completion, the
\* rejection and the deadline path all give it back.
LeaseReturned == \A x \in Target, t \in Task : lease[x] = t ~> lease[x] # t

\* What is queued ends, and what it held comes back.
EverythingSettles == TaskResolved /\ LeaseReturned
=============================================================================
