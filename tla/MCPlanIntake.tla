---------------------------- MODULE MCPlanIntake ----------------------------
(***************************************************************************)
(* What TargetScope and PlanIntake compute, checked on every input of a    *)
(* small world when TLC starts on a module that extends this one.          *)
(***************************************************************************)
EXTENDS PlanIntake

Max2(a, b) == IF a < b THEN b ELSE a

-----------------------------------------------------------------------------
(* Scopes.                                                                  *)

Acme == <<"acme", "com">>
Api == <<"api", "acme", "com">>

Names == {[form |-> f, id |-> n] : f \in {"host", "below"}, n \in {Acme, Api}}
Nets == {[form |-> "net", id |-> {1, 2}], [form |-> "net", id |-> 1 .. 4]}
Ips == {[form |-> "ip", id |-> n] : n \in {1, 3}}
Entries == Names \cup Nets \cup Ips

\* Scopes of at most two included names, one network and two exclusions.
AtMost(n, S) == {T \in SUBSET S : Cardinality(T) <= n}
Scopes == [domains : AtMost(2, Names \cup Ips), cidrs : AtMost(1, Nets),
           excludes : AtMost(2, Entries)]

Written(form, id, url, port, path) ==
    [form |-> form, id |-> id, url |-> url, port |-> port, path |-> path]
Targets ==
    {Written("host", n, u, p, q) :
        n \in {Acme, Api}, u \in BOOLEAN, p \in BOOLEAN, q \in BOOLEAN}
    \cup {Written("ip", n, FALSE, FALSE, FALSE) : n \in {1, 3}}
Blocks == {Written("net", n, FALSE, FALSE, FALSE) : n \in {{1, 2}, 1 .. 4}}

\* A host or an address that a plan may name is in the scope gatekeeper and
\* the agent see too, when they can read it at all.
ASSUME PlansAreCheckedStrictest ==
    \A s \in Scopes, t \in Targets : Check(s, t) = "in" =>
        /\ Canonical(t) => Evaluate(s.domains \cup s.cidrs, s.excludes, t) = "in"
        /\ AgentCanonicalizes(t) => AgentEvaluates(s, t) = "in"

\* A block passes a plan's check when its first address does, and none passes
\* gatekeeper's.
ASSUME BlocksStopAtGatekeeper ==
    \A s \in Scopes, t \in Blocks :
        /\ Evaluate(s.domains \cup s.cidrs, s.excludes, t) = "out"
        /\ Check(s, t) = Check(s, Written("ip", 1, FALSE, FALSE, FALSE))

-----------------------------------------------------------------------------
(* Plans: two missions of two commanders, an agent, and plans of two tasks. *)

Recon == <<"recon", "dns">>
Exploit == <<"exploit", "run">>
Offer(name, max) == [name |-> name, max |-> max]
Nobody == [s \in {} |-> s]
ActiveMission(owner) == [state |-> "ACTIVE", owner |-> owner, roe |-> "roe1", version |-> 1]
Empty == [missions |-> [m \in {"cais", "hexs"} |->
                           ActiveMission(IF m = "cais" THEN "cai" ELSE "hexstrike")],
          plans |-> Nobody, tasks |-> {},
          agents |-> [s \in {"a"} |-> [id |-> "a1", type |-> "detect", status |-> "ONLINE",
                          capabilities |-> {Offer(Recon, "R1"), Offer(Exploit, "R3")}]]]

Roe == [status |-> "active", from |-> 1, until |-> 3, maxRisk |-> "R3", version |-> 1,
        capabilities |-> {[any |-> TRUE, id |-> <<"recon">>], [any |-> FALSE, id |-> Exploit]},
        scope |-> [domains |-> {[form |-> "below", id |-> Acme]}, cidrs |-> {},
                   excludes |-> {}]]

TaskSpec(key, capability, risk, deps) ==
    [key |-> key, capability |-> capability, risk |-> risk, dependsOn |-> deps,
     targets |-> {Written("host", Api, FALSE, FALSE, FALSE)}]
TaskSpecs == {TaskSpec("k1", Recon, "R1", {}), TaskSpec("k1", Exploit, "R3", {}),
          TaskSpec("k2", Recon, "R1", {"k1"}), TaskSpec("k2", Recon, "R2", {}),
          TaskSpec("k2", Recon, Unset, {}), TaskSpec("k3", Recon, "R0", {"k9"})}
Plan(key, by, for, mission, tasks) ==
    [id |-> Unset, key |-> key, by |-> by, delegatedBy |-> for, mission |-> mission,
     tasks |-> tasks]
TaskLists == {<<a>> : a \in TaskSpecs} \cup {<<a, b>> : a \in TaskSpecs, b \in TaskSpecs}
Plans == {Plan("p1", by, for, m, ts) : by \in {"cai", "hexstrike"}, for \in {Unset, "cai"},
                                       m \in {"cais", "hexs"}, ts \in TaskLists}
Quotas == 0 .. 2
Submit(db, p, n) == SubmitTaskPlan(db, p, Roe, 2, 2, n)
Whole(p) == 3 * Len(p.tasks) + 1

\* What is queued passed every check, and stays within the quota of the
\* commander that submits for a mission of its own.
ASSUME QueuedTasksAreValid ==
    \A p \in Plans, quota \in Quotas :
        LET db == SubmitTaskPlan(Empty, p, Roe, 2, quota, Whole(p)).db
        IN  /\ \A t \in db.tasks : t.state = "QUEUED" =>
                  /\ t.risk \in {"R0", "R1"} \/ (t.risk = "R3" /\ p.by = "hexstrike")
                  /\ p.by = Empty.missions[p.mission].owner \/ p.delegatedBy = "cai"
            /\ QuotaUsed(db, p.by) <= quota

\* Tasks of a delegated plan are counted for the owner of the mission, whose
\* quota nobody looks at.
ASSUME DelegatedPlansPassTheQuota ==
    \E p \in Plans :
        QuotaUsed(SubmitTaskPlan(Empty, p, Roe, 2, 1, Whole(p)).db, "cai") = 1
        /\ QuotaUsed(Submit(SubmitTaskPlan(Empty, p, Roe, 2, 1, Whole(p)).db,
                            [p EXCEPT !.key = "p2"], Whole(p)).db, "cai") = 2

\* A plan that was stopped half-way is answered as a rejection from then on;
\* tasks it had queued stay queued, and the others are never looked at.
ASSUME StoppedPlansReadAsRejected ==
    \A p \in Plans : \A n \in 0 .. Whole(p) - 1 :
        LET half == Submit(Empty, p, n).db
            again == Submit(half, p, Whole(p))
        IN  "p1" \in DOMAIN half.plans =>
                again.db = half /\ again.verdict = [decision |-> "REJECTED", verdicts |-> <<>>]

-----------------------------------------------------------------------------
(* Agents, missions and approvals.                                          *)

Manifest(id, spiffe, caps) ==
    [id |-> id, spiffe |-> spiffe, type |-> "detect", version |-> "1", capabilities |-> caps]
Blocked == [Empty EXCEPT !.agents["a"].status = "QUARANTINED"]

\* Registering again neither changes an identity nor lifts a quarantine, and
\* two identities never share an agent id.
ASSUME IdentitiesStay ==
    \A db \in {Empty, Blocked}, id \in {"a1", "a2"}, s \in {"a", "b"} :
        LET after == Register(db, Manifest(id, s, {Offer(Recon, "R2")})).db
        IN  /\ after.agents["a"].id = "a1" /\ after.agents["a"].status = db.agents["a"].status
            /\ \A x, y \in DOMAIN after.agents :
                  after.agents[x].id = after.agents[y].id => x = y

\* What a blocked agent offers is not listed, but a plan may still name it.
ASSUME BlockedAgentsStillCount ==
    LET db == Register(Blocked, Manifest("a1", "a", {Offer(Recon, "R3")})).db
    IN  /\ ListCapabilities(db, {Recon}, Unset) = {} /\ ~MayStream(db, "a1")
        /\ CapabilityMax(db, Recon) = RiskRank("R3")
        /\ ListCapabilities(Empty, {Recon}, "R1") = {<<Offer(Recon, "R1"), "detect">>}

Call(by, name) == [id |-> "new", by |-> by, owner |-> "cai", name |-> name, roe |-> "roe1"]

\* A mission starts as a draft under an RoE in force, and takes plans when it
\* was resumed; a refused call leaves none.
ASSUME MissionsStartAsDrafts ==
    \A by \in {Unset, "op", "x"}, name \in {Unset, "n"}, roe \in {Roe, [Roe EXCEPT !.until = 1]},
       audited \in BOOLEAN :
        LET made == CreateMission(Empty, {"op"}, Call(by, name), roe, 2, audited)
            active == setState(made.db, "new", "ACTIVE", {"PAUSED", "DRAFT"})
            plan == Plan("p1", "cai", Unset, "new", <<TaskSpec("k1", Recon, "R1", {})>>)
        IN  /\ ("new" \in DOMAIN made.db.missions) = (by = "op" /\ name = "n" /\ roe = Roe)
            /\ Submit(made.db, plan, 4).db = made.db
            /\ "new" \in DOMAIN made.db.missions =>
                  LET done == Submit(active.db, plan, 4).db
                  IN  /\ GetMissionStatus(done, "new").inFlight = 1
                      /\ RequestScopeChange(done, "new").db = done

\* With two requests pending, only the older one can be voted on here.
ASSUME OldestRequestFirst ==
    LET pending == <<[id |-> "new", version |-> 2], [id |-> "old", version |-> 1]>>
    IN  /\ ApproveRoE(pending, 0) = "old" /\ ApproveRoE(pending, 1) = "old"
        /\ ApproveRoE(pending, 2) = "FailedPrecondition"
=============================================================================
