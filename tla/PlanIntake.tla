------------------------------ MODULE PlanIntake ------------------------------
(***************************************************************************)
(* The way into the orchestrator: missions are created, plans submitted    *)
(* and their tasks validated and queued, agents registered.  TaskDispatch  *)
(* takes up the tasks this leaves QUEUED.                                  *)
(*                                                                         *)
(* A call is a function of the tables it finds and returns the tables it   *)
(* leaves and its answer.  The tables are a record: missions, plans by     *)
(* their idempotency key, agents by their SPIFFE id, and the set of tasks. *)
(* An empty field is Unset.                                                 *)
(***************************************************************************)
EXTENDS TargetScope, Integers, FiniteSets

Unset == "none"
NoVerdict == [decision |-> Unset, verdicts |-> <<>>]
Answer(db, answer) == [db |-> db, answer |-> answer, verdict |-> NoVerdict]

Risks == {"R0", "R1", "R2", "R3"}
RiskRank(r) == CASE r = "R0" -> 0 [] r = "R1" -> 1 [] r = "R2" -> 2
                 [] r = "R3" -> 3 [] OTHER -> -1

Commanders == {"cai", "hexstrike", "strix", "pentestgpt"}
commanderMaxRisk(c) ==
    CASE c = "hexstrike" -> RiskRank("R3")
      [] c \in Commanders \ {"hexstrike"} -> RiskRank("R2")
      [] OTHER -> RiskRank("R0")

\* Both ends of the window count, 0 is an end nobody declared.
RoeActive(roe, now) ==
    /\ roe.status = "active"
    /\ roe.from = 0 \/ now >= roe.from
    /\ roe.until = 0 \/ now <= roe.until
AllowsCapability(roe, capability) ==
    \E p \in roe.capabilities : MatchCapabilityPattern(p, capability)

-----------------------------------------------------------------------------
(* Agents.                                                                  *)

RegisteredRow(agents, m) ==
    LET old == agents[m.spiffe]
    IN  IF m.spiffe \in DOMAIN agents
        THEN [old EXCEPT !.capabilities = m.capabilities,
                         !.status = IF @ \in {"QUARANTINED", "REVOKED"} THEN @ ELSE "ONLINE"]
        ELSE [id |-> m.id, type |-> m.type, capabilities |-> m.capabilities,
              status |-> "ONLINE"]

\* Register: an agent id that another identity owns violates the primary key;
\* the manifest of a blocked agent is stored before the agent is refused.
Register(db, m) ==
    LET row == RegisteredRow(db.agents, m)
        others == {s \in DOMAIN db.agents \ {m.spiffe} : db.agents[s].id = row.id}
        stored == [db EXCEPT !.agents = [s \in DOMAIN @ \cup {m.spiffe} |->
                                             IF s = m.spiffe THEN row ELSE db.agents[s]]]
    IN  IF \/ Unset \in {m.type, m.spiffe, m.version} \/ m.capabilities = {}
           \/ \E c \in m.capabilities : c.name = <<>> \/ c.max \notin Risks
        THEN Answer(db, "InvalidArgument")
        ELSE IF others # {} THEN Answer(db, "Internal")
        ELSE IF row.status # "ONLINE" THEN Answer(stored, "PermissionDenied")
        ELSE Answer(stored, row.id)

\* CapabilityExists: the highest class any agent offers, whatever its status.
CapabilityMax(db, capability) ==
    LET ranks == {RiskRank(c.max) : c \in {c \in UNION {db.agents[s].capabilities :
                                                          s \in DOMAIN db.agents} :
                                                c.name = capability}}
    IN  IF ranks = {} THEN -1 ELSE CHOOSE r \in ranks : \A q \in ranks : q <= r

\* ListCapabilities: what agents that are online offer, with a name that has
\* the prefix and a class within the bound.
ListCapabilities(db, prefixed, bound) ==
    UNION {{<<c, a.type>> : c \in {c \in a.capabilities :
                                     /\ c.name \in prefixed
                                     /\ bound = Unset \/ RiskRank(c.max) <= RiskRank(bound)}} :
           a \in {db.agents[s] : s \in {s \in DOMAIN db.agents :
                                          db.agents[s].status = "ONLINE"}}}

\* StreamTasks: assignments are streamed to agents that are online.
MayStream(db, id) ==
    \E s \in DOMAIN db.agents : db.agents[s].id = id /\ db.agents[s].status = "ONLINE"

-----------------------------------------------------------------------------
(* Missions.                                                                *)

\* checkOperator: who may make the call; no list configured allows everyone.
checkOperator(operators, who) ==
    CASE who = Unset -> "Unauthenticated"
      [] who # Unset /\ operators # {} /\ who \notin operators -> "PermissionDenied"
      [] OTHER -> "ok"

\* CreateMission: the latest version of the RoE is pinned, if it is in force;
\* a mission whose audit record fails stays, though the answer is an error.
CreateMission(db, operators, call, roe, now, audited) ==
    IF checkOperator(operators, call.by) # "ok"
    THEN Answer(db, checkOperator(operators, call.by))
    ELSE IF call.owner \notin Commanders \/ Unset \in {call.name, call.roe}
    THEN Answer(db, "InvalidArgument")
    ELSE IF roe.status = Unset THEN Answer(db, "Unavailable")
    ELSE IF ~RoeActive(roe, now) THEN Answer(db, "FailedPrecondition")
    ELSE Answer([db EXCEPT !.missions = [m \in DOMAIN @ \cup {call.id} |->
                    IF m = call.id THEN [state |-> "DRAFT", owner |-> call.owner,
                                         roe |-> call.roe, version |-> roe.version]
                    ELSE db.missions[m]]],
                IF audited THEN "ok" ELSE "Internal")

\* setState: compare and set on the mission's state.
setState(db, m, to, from) ==
    IF m \notin DOMAIN db.missions \/ db.missions[m].state \notin from
    THEN Answer(db, "FailedPrecondition")
    ELSE Answer([db EXCEPT !.missions[m].state = to], "ok")

\* ApproveRoE: gatekeeper lists the newest request first, the vote is for the
\* last of the list.
ApproveRoE(pending, version) ==
    IF pending = <<>> \/ version \notin {0, pending[Len(pending)].version}
    THEN "FailedPrecondition" ELSE pending[Len(pending)].id

\* GetMissionStatus: everything not terminal is in flight.
Terminal == {"COMPLETED", "REJECTED_UNAUTHORIZED", "EXPIRED", "DEAD", "KILLED",
             "CANCELLED"}
TasksOf(db, m) == {t \in db.tasks : t.mission = m}
GetMissionStatus(db, m) ==
    IF m \notin DOMAIN db.missions THEN "NotFound"
    ELSE [counts |-> [st \in {t.state : t \in TasksOf(db, m)} |->
                         Cardinality({t \in TasksOf(db, m) : t.state = st})],
          inFlight |-> Cardinality({t \in TasksOf(db, m) : t.state \notin Terminal})]

\* RequestScopeChange queues the wish for an operator and changes nothing.
RequestScopeChange(db, m) ==
    Answer(db, IF m \in DOMAIN db.missions THEN "queued" ELSE "NotFound")

-----------------------------------------------------------------------------
(* Plans.  A task specification is a record [key, capability, risk, targets,
   dependsOn], a plan [id, mission, by, delegatedBy, key, tasks].           *)

\* validateTask.
Valid(db, spec, keys, roe, commander) ==
    LET rank == RiskRank(spec.risk)
    IN  /\ spec.capability # <<>> /\ spec.risk \in Risks
        /\ rank <= CapabilityMax(db, spec.capability)
        /\ rank <= commanderMaxRisk(commander)
        /\ rank <= RiskRank(roe.maxRisk)
        /\ AllowsCapability(roe, spec.capability)
        /\ CheckAll(roe.scope, spec.targets)
        /\ spec.dependsOn \subseteq keys

\* CountInFlightByCommander: by the mission's owner, whoever submitted.
QuotaUsed(db, commander) ==
    Cardinality({t \in db.tasks :
        /\ db.missions[t.mission].owner = commander
        /\ t.state \in {"QUEUED", "DISPATCHED", "RUNNING", "REPORTED", "VALIDATED"}})

\* The verdicts, in the order of the plan, while the quota lasts.
PlanVerdicts(db, p, roe, quota) ==
    LET keys == {p.tasks[i].key : i \in DOMAIN p.tasks}
        valid == {i \in DOMAIN p.tasks : Valid(db, p.tasks[i], keys, roe, p.by)}
    IN  [i \in DOMAIN p.tasks |->
            /\ i \in valid
            /\ Cardinality({j \in valid : j < i}) < quota - QuotaUsed(db, p.by)]

Decision(verdicts) ==
    CASE \A i \in DOMAIN verdicts : verdicts[i] -> "ACCEPTED"
      [] \A i \in DOMAIN verdicts : ~verdicts[i] -> "REJECTED"
      [] OTHER -> "PARTIAL"

\* persistTask: a row is inserted and walked to its state, a statement each.
PersistedTask(p, i, accepted, statements) ==
    [plan |-> p.key, key |-> p.tasks[i].key, mission |-> p.mission,
     risk |-> p.tasks[i].risk,
     state |-> CASE statements = 1 -> "PENDING"
                 [] statements = 2 -> "VALIDATING"
                 [] OTHER -> IF accepted THEN "QUEUED" ELSE "REJECTED_UNAUTHORIZED"]

\* verdictFromRow: a row without a verdict reads as a rejection.
verdictFromRow(row) ==
    [decision |-> IF row.verdict = Unset THEN "REJECTED" ELSE row.verdict,
     verdicts |-> row.detail]

\* A plan's answer: the verdicts of its row.
Verdict(db, key) ==
    [db |-> db, answer |-> "ok", verdict |-> verdictFromRow(db.plans[key])]

\* What is left when the statements after the plan's row stop after some: a
\* task without a risk class fails on the table's CHECK.
Stored(db, p, verdicts, statements) ==
    LET n == Len(p.tasks)
        bad == {i \in 1 .. n : p.tasks[i].risk \notin Risks}
        made == CHOOSE k \in {statements} \cup {3 * (i - 1) : i \in bad} :
                    \A j \in {statements} \cup {3 * (i - 1) : i \in bad} : k <= j
        row == IF made > 3 * n
               THEN [id |-> p.id, verdict |-> Decision(verdicts),
                     detail |-> [i \in 1 .. n |-> [key |-> p.tasks[i].key,
                                                   accepted |-> verdicts[i]]]]
               ELSE [id |-> p.id, verdict |-> Unset, detail |-> <<>>]
    IN  [db EXCEPT !.plans = [k \in DOMAIN @ \cup {p.key} |->
                                 IF k = p.key THEN row ELSE db.plans[k]],
                   !.tasks = @ \cup {PersistedTask(p, i, verdicts[i], made - 3 * (i - 1)) :
                                     i \in {i \in 1 .. n : made > 3 * (i - 1)}}]

\* SubmitTaskPlan: an RoE gatekeeper did not answer for has no status; the keys
\* of the tasks are looked at when the plan has its row.
SubmitTaskPlan(db, p, roe, now, quota, statements) ==
    LET m == db.missions[p.mission]
        verdicts == PlanVerdicts(db, p, roe, quota)
        after == Stored(db, p, verdicts, statements)
    IN  IF p.by \notin Commanders \/ p.key = Unset \/ p.tasks = <<>>
        THEN Answer(db, "InvalidArgument")
        ELSE IF p.mission \notin DOMAIN db.missions THEN Answer(db, "NotFound")
        ELSE IF m.state # "ACTIVE" THEN Answer(db, "FailedPrecondition")
        ELSE IF p.by # m.owner /\ p.delegatedBy # m.owner
        THEN Answer(db, "PermissionDenied")
        ELSE IF roe.status = Unset THEN Answer(db, "Unavailable")
        ELSE IF ~RoeActive(roe, now) THEN Answer(db, "FailedPrecondition")
        ELSE IF p.key \in DOMAIN db.plans
        THEN Verdict(db, p.key)
        ELSE IF p.id # Unset /\ \E k \in DOMAIN db.plans : db.plans[k].id = p.id
        THEN Answer(db, "Internal")
        ELSE IF \E i \in DOMAIN p.tasks :
                   \/ p.tasks[i].key = Unset
                   \/ \E j \in DOMAIN p.tasks : j # i /\ p.tasks[j].key = p.tasks[i].key
        THEN Answer(Stored(db, p, verdicts, 0), "InvalidArgument")
        ELSE IF after.plans[p.key].verdict = Unset THEN Answer(after, "Internal")
        ELSE Verdict(after, p.key)
=============================================================================
