# AegisBastion: a TLA+ verification development

AegisBastion is a platform of cooperating services for authorised security
work: commanders submit plans, `platform-core` breaks them into tasks and
dispatches the tasks to agents, `gatekeeper` decides whether an agent may act
at all (rules of engagement, approvals, tokens, revocations), and sensors and
processors (`monitor`, `discover`, `detect`, `data-platform`, `alert`) produce
and carry the results. This directory holds specifications of the parts whose
correctness depends on interleavings, failures and the order of database
statements; they are model-checked with TLC on small instances, and the most
important properties of eight of them are proved with TLAPS for every instance.

| module | what it is |
|---|---|
| `TaskDispatch.tla` | the task orchestrator of platform-core: queue, gated dispatch, reaper, outbox relay, ACK, results, kill switch |
| `MCTaskDispatch.tla`, `Task_*.cfg` | its instances for TLC |
| `TargetScope.tla` | may this target be touched: the three scope matchers of platform-core, gatekeeper and the SDK |
| `PlanIntake.tla`, `MCPlanIntake.tla` | the way into the orchestrator: missions, plans, agents; what is checked of it |
| `Commander.tla`, `MCCommander.tla` | the commander adapters in front of it; what is checked of them |
| `TaskDispatchProofs.tla` | theorems about these four |
| `Approvals.tla` | the four-eyes approval service of gatekeeper |
| `MCApprovals.tla`, `Approvals*.cfg` | its instances for TLC |
| `Authority.tla` | gatekeeper's chain of authority: RoE versions, policy decisions, Scope Tokens, revocations |
| `MCAuthority.tla`, `Authority.cfg` | its instance for TLC |
| `PolicyRules.tla`, `MCPolicyRules.tla` | gatekeeper's pure rules: roles, capabilities, blackout windows, rate caps, revocation lookups, token verification; what is checked of them |
| `AgentRules.tla`, `MCAgentRules.tla` | the SDK's rate caps, guard and key cache and detect's egress proxy; what is checked of them |
| `AuthorityProofs.tla` | theorems about these parts of gatekeeper and of the agent |
| `Monitor.tla` | the monitor service around one watched asset: watch set, jobs, tokens, scans, streamer, outbox |
| `MonitorDiff.tla`, `MonitorRules.tla` | the pure parts it is built from: snapshot diff, exposure and baseline rules |
| `MCMonitor.tla`, `Monitor.cfg` | its scenarios for TLC |
| `MonitorProofs.tla` | theorems about it |
| `DataPlatform.tla` | the write path of the data platform: batches, row locks, findings, operators, retention, audit outbox |
| `Intake.tla`, `Lifecycle.tla` | what a message becomes as a batch; the finding lifecycle |
| `MCDataPlatform.tla`, `DataPlatform.cfg` | its scenarios for TLC |
| `DataPlatformProofs.tla` | theorems about it |
| `Alert.tla`, `MCAlert.tla`, `Alert.cfg` | herald, the notification egress, and its scenarios |
| `AlertProofs.tla` | theorems about it |
| `AuditLog.tla` | abstract specification: append-only logs that keep what they reported durable |
| `Audit.tla`, `MCAudit.tla`, `Audit.cfg` | platform-core's chain with spill and replay, gatekeeper's chain and consumer, discover's spool |
| `AuditProofs.tla` | theorems about it, among them that `Audit` implements `AuditLog` |
| `Discover.tla`, `MCDiscover.tla`, `Discover.cfg` | a discovery order: plan, lanes, workers, reducer, expansion, and its scenarios |
| `DiscoverProofs.tla` | theorems about it |
| `Agent.tla` | the Go agent SDK: assignments, authorisation, guard, halts, results |
| `Detect.tla` | the detect service, a module of that agent: coordinator, workers, candidate pipeline |
| `DetectPlan.tla`, `DetectVerdicts.tla`, `DetectSites.tla` | its pure parts: plan and scanner output, verdicts and scores, and the targets that answer |
| `MCDetect.tla`, `Detect.cfg` | its scenarios for TLC |
| `DetectProofs.tla` | theorems about it |

`PROJECT.json` lists the components, the runs, the map from every definition to
the lines it models, the hazards, the findings and the theorems.

## 1. Inventory

Paths are relative to `src/`. "Concurrency unit" is what may interleave.

### platform-core (`services/platform-core`, Go)

| part | state | operations | correct when |
|---|---|---|---|
| plan intake, `orchestrator/planner.go`, `pkg/scope` | `plans`, `tasks` | `SubmitTaskPlan`: idempotency key, verdict on each task, commander quota, insert; `ListCapabilities`, `GetMissionStatus` | one plan per key; quota respected; what the caller is told agrees with the rows |
| dispatch, `orchestrator/dispatch.go` | `tasks`, `outbox`, lease bucket | `PickQueuedTasks`, `dispatchOne` | nothing runs without an audited ALLOW; dependencies first; one intrusive task per target; per-RoE bound |
| reaper, `orchestrator/scheduler.go` | `tasks`, `agents`, lease bucket | ACK windows, deadlines, queue TTL, stale agents | a lost task is redelivered or ends; every redelivery costs a retry |
| outbox relay, `orchestrator/scheduler.go` | `outbox` | fetch, publish, mark | at-least-once, nothing published that was not committed |
| results, `orchestrator/results.go` | `tasks`, `missions`, `agents` | `HandleResult`, renewal of standing watches, scope violation | exactly-once effect of at-least-once messages |
| kill switch, `orchestrator/killswitch.go` | `kill_switches`, `missions`, `tasks` | `HandleRevocation`, `KillMission` | after a kill nothing covered by it is in flight |
| state machine and store, `orchestrator/statemachine.go`, `store/` | rows | conditional UPDATEs | only legal transitions, terminal states final |
| leases, `leases/leases.go` | NATS KV | `Acquire` (Create), `Release` (Get, then Delete) | one owner per target |
| registry, `registry/registry.go` | `agents`, `tasks` | register, heartbeat, `AckTask`, `ReportResult` | an ACK starts the attempt it was sent for |
| mission API, `missionapi/` | `missions`, `plans` | create, pause, resume, kill, approve | paused missions dispatch nothing |
| audit writer, `audit/audit.go` | spill file, gatekeeper chain | append, spill, replay | no event lost or chained twice |

Concurrency: every replica runs a dispatch loop, a reaper, a relay and bus
consumers; gRPC handlers run in parallel. The only atomic unit is one SQL
statement (or one explicit transaction) or one KV operation. Failures: the
audit append, the publish and the gatekeeper call can fail separately; a
process can stop between any two statements; JetStream redelivers and
finally drops.

### gatekeeper (`services/gatekeeper`, Go)

| part | state | operations | correct when |
|---|---|---|---|
| policy, `policy/policy.go` | `authz_decisions` | `Authorize`: eleven steps, then the audit gate | an ALLOW implies that every step held on one RoE version and that it is audited |
| RoE, `roe/roe.go` | `roe_records`, `roe_effective_targets` | create, update (new version), activate, suspend, revoke, expire | lifecycle; a revoked RoE stays revoked; the latest version decides |
| tokens, `token/service.go` | `issued_tokens` | mint, exchange, refresh, revoke | a token never outlives or exceeds the decision, RoE and parent it comes from |
| revocation, `revocation/revocation.go` | `revocations`, expiries in memory | issue, active set, broadcast | a revocation is effective at once and after a restart |
| approvals, `approval/approval.go` | `approvals`, `approval_votes` | request, decide, read (expires lazily) | two independent people; a reject closes |
| RBAC, `rbac/rbac.go` | `rbac_bindings` | grant (separation of duties), revoke, queries | no forbidden pair of roles |
| audit chain, `audit/audit.go` | `audit_events`, partition heads | record, batch, seal, verify | gapless, hash-linked sequence per partition |
| key management, rate limits, blackout windows, scope canonicalisation, capability registry | mostly pure | | |

Concurrency: gRPC handlers on several replicas over one database; most handlers
read, check and then write without a condition on what they read.

### Other services

* `monitor` (Go): coordinator, executor, worker, snapshot diff, rules, event
  streamer with a retry queue. Correct when each watch runs on schedule, diffs
  are computed against the previous snapshot and events are neither lost nor
  reordered per watch.
* `data-platform` (Go): ingest of findings (idempotent), finding lifecycle,
  retention, query API.
* `discover` (Go): ingestion connectors, work queue, reducer of observations to
  assets.
* `detect` (Go): scan coordinator, job workers around nuclei and nmap, candidate
  pipeline (validators, sandboxed proofs of concept, score, alert), evidence,
  out-of-band callbacks. Correct when nothing false is alerted, no report of a job
  is lost by a scan that succeeds, and a halt reaches every run.
* `alert` (TypeScript): dedup, correlation, routing, escalation timers, delivery
  outbox.
* `sdks/go`, `sdks/ts`: agent runtime: subscription, token verification, rate
  guard, kill switch, result reporting.
* `adapters` (Go): cai, hexstrike, strix and pentestgpt make plans out of what an
  external planner wants, keep the verdicts in memory, and run accepted tasks with tools
  of their own. Correct when only what was validated is run.
* `services/dashboard` (user interface), `modules/phish-catcher` (browser extension), `deploy`, `db/migrations`,
  generated code.

### How they interact

Tasks go from the `tasks` table through the transactional `outbox` to
`agents.<id>.tasks` on JetStream; the agent calls `AckTask` over gRPC, executes,
and publishes `task.result`. Dispatch calls gatekeeper (`Authorize`,
`MintToken`, `RecordBatch`) synchronously. Gatekeeper publishes revocations,
which platform-core's consumer turns into kill flags and a drain. Nothing is
shared in memory between processes.

## 2. TaskDispatch

### State and code

| variable | code |
|---|---|
| `state`, `attempt`, `assigned`, `decision` | columns of `platform.tasks`; `decision` is the attempt the stored decision was asked for |
| `mission`, `killFlag`, `agent` | `missions.state`, engaged `kill_switches`, `agents.status` |
| `lease` | the KV bucket, target to owner |
| `outbox`, `relay`, `bus`, `acks`, `exec`, `results` | the life of an assignment: committed row, fetched by a relay, published, `AckTask` between its read and its write, running, reported |
| `audit` | events in the audit chain |
| `renewals` | follow-up tasks of standing watches |
| `disp`, `reap`, `kill`, `hand` | program counter and captured rows of each loop and handler |
| `late`, `killed` | history, for properties only |

One action is one statement (or the statements between which nothing shared is
read or written). Steps that read a row and act on it later keep what they read:
`reap` holds snapshots `[task, state, attempt]`, `kill` the drain's list,
`disp` the picked attempt, agent, leases and verdict, `hand` the result. So the
stale reads of the code are stale reads of the model. `CanMove` is the
conditional UPDATE of `Store.Transition` together with `legalTransitions`.

Abstractions: time is a choice (any DISPATCHED task may have missed its ACK
window, and so on, when the corresponding fault is enabled); all missions share
one RoE; capability matching is "any ONLINE agent"; the batch of 32 picked rows
is a pick at any time; `roe` and `capability` kill scopes behave like a target
scope (drain without a flag); commit rollbacks are absorbed by the dispatch that
never commits.

`Faults` names which environment events an instance allows: `audit`, `crash`,
`relay`, `drop`, `ackTimeout`, `deadline`, `queueTTL`, `leaseTTL`, `offline`,
`agentCrash`, `operator`. The theorems hold for every subset.

### Runs

| run | instance | shows |
|---|---|---|
| `gate` | one gated watch, two result handlers, denials, failing audit appends and publishes, crashes, lost messages, a kill, operators | `DispatchGated`: no path, in particular no failed audit append and no undone dispatch, hands out an R1+ assignment whose ALLOW is not in the chain |
| `chain` | two tasks, the second depends on the first; denials, redelivery, an agent that goes and comes back | `TypeOK`, `DependencyOrder`, `LegalTransitions` |
| `leases` | two replicas, two intrusive tasks with overlapping target sets, crashes, lease expiry, a mission kill | `OneIntrusivePerTarget`, `AtMostOneLateDispatch` as long as no reaper takes part |
| `live` | two intrusive tasks contend for a bound of one; agents crash or report KILLED or REJECTED_UNAUTHORIZED, deadlines and the queue TTL pass, denials | `EverythingSettles` (`TaskResolved`: what is queued ends; `LeaseReturned`: what it held comes back) under `FairSpec`; `IntrusiveCapRespected` with one loop |

Bounds. One or two tasks are enough because each property relates one task to
itself, to one dependency or to one competitor for a target. `MaxRetries = 1`
gives an attempt that is redelivered and one that is exhausted. Two targets
with overlapping sets give partial acquisition. Two replicas or two handlers
give every pairwise race; `IntrusiveCapRespected` is stated for one dispatch loop
(see below).

Fairness. Each loop is a ticker or a consumer that is restarted with the
process, so its next step is weakly fair. A pass looks at every eligible row
again and the bus redelivers every unacknowledged message: `PickQueuedTask` per
task, `ReadResult` per task and the reaper's deadline scan are strongly fair.
Faults, heartbeats, operators and the arrival of revocations are not fair.

### Proofs (`TaskDispatchProofs`)

* `TypeCorrect`. `TypeOK` is not inductive: the reaper and the handlers write
  values they captured, so it is strengthened by `CapturedOK` (a
  dispatch in progress has a task, from the match on an agent and from the
  decision on a verdict; a result handler past its read has a result; a kill in
  progress has a scope). `IInv == TypeOK /\ CapturedOK`.
* `TransitionsLegal`, `TerminalFinal`: every action moves the state column
  through `CanMove`, or is one of the two transitions written without it
  (commit and ACK), which are legal. One lemma per actor.
* `GatedDispatch`: the invariant follows the verdict from the loop to the
  assignment: a loop past `decided` on a gated task has an audited ALLOW for its
  tag, and every assignment and every stored decision repeats a tag for which
  that was so. The audit chain only grows.
* `DependenciesFirst`: COMPLETED is terminal, so dependencies checked at pick
  time stay completed until the commit, however long it takes.
* `OneLateDispatch`: a dispatch that is covered by a kill flag was past its gates
  when the flag was engaged, and a loop is past them with one task at a time
  (`LateInv`: committed late dispatches, and the loop still to commit one, are
  apart).
* `TargetsExclusive`, under `CarefulReleases` (no ACK window, deadline, stale agent
  or failing audit append, so that no reaper takes a task back and no commit is
  undone): leases are per task, a loop that acquires holds what it says it holds,
  and a task in flight owns every one of its targets. The TTL
  takes only leases that nobody in flight stands behind (a task is assumed to run
  for less than 24 hours), and a release after a result or a kill gives back the
  leases of its own task alone (`LeaseInv`).
* `CapRespected`, under `OneLoop` (one replica, finitely many tasks): between the
  count and the commit everyone else can only take tasks out of flight, so the
  tasks in flight with the one to be committed stay within the bound (`CapInv`).

Both hypotheses are what the runs `leases` and `live` instantiate; without them
the properties are false, as the list below says. Assumptions are those on the constants (`ConstantsAssumption`,
`SentinelsAssumption`); there is no bound on tasks, replicas or handlers.

`TerminalFinal` has no run: `LegalTransitions` covers it on the instance.

Only model-checked: the liveness properties (fairness and ENABLED are outside the
prover).

### The way in: PlanIntake and TargetScope

How tasks become QUEUED is a computation on tables, so `PlanIntake` models a call as a
function: from the tables it finds (missions, plans by idempotency key, agents, tasks) to
the tables it leaves and its answer. What a stop leaves behind is an argument:
`SubmitTaskPlan(db, p, roe, now, quota, statements)` gets that many statements through.
Two calls at once are not modelled; the quota is counted and the rows inserted by
separate statements, so two plans at once are counted against the same budget.

`MCPlanIntake` states what is checked in its named assumptions, for every input of a small
world (six kinds of task, lists of up to two, two commanders, three quotas, every stopping
point), when TLC starts on `MCTaskDispatch`. An assumption is either a claim for all these inputs or,
where the name says so, a witness of something surprising. `TargetScope` has the three
scope matchers side by side, and the assumptions say where they differ.

Theorems (in `TaskDispatchProofs`, for every table and input):

* `PlanCheckIsStrictest`: a host or an address that platform-core's check takes to be in
  scope is in scope for gatekeeper and for the SDK, when they can read it.
* `QuotaIsKept`: after a call the tasks under way on the submitter's own missions are within
  the quota, or as many as before.
* `IdentitiesStay`: after any manifest no two identities share an agent id, each keeps the
  id and the type it was given, and a quarantined or revoked agent stays so.

### Commanders

`Commander` composes the four adapters with `SubmitTaskPlan`. A ledger is a function of
plan ids; strix's working directories are what earlier runs have written there; `sanitize` and
the digest of an intent are functions that the instance gives. The order of a task's
targets is left out, and so are duplicates among them. `MCCommander` is checked like
`MCPlanIntake`.

* `ApprovedWasValidated`, theorem: of a plan submitted under a key nobody used, an adapter
  lets a task through only if the specification it holds is the submitted one, passed every
  check of `validateTask`, and is queued. The hypothesis is needed, as the assumption
  `ReusedKeysApproveUnseenTasks` shows: verdicts are matched by task key alone, so the old
  verdicts of a reused idempotency key approve specifications that the orchestrator has never seen.

Divergences of intake and commanders:

* An interrupted plan has no verdict, and its repetition is answered REJECTED without
  verdicts (`planner.go:393`) though some of its tasks are queued. An intent of cai has
  the same key each time, so an interrupted one stays rejected for good.
* A lost answer queues the plan twice when the adapter has minted the key.
* The quota counts by the mission's owner, so a delegated plan is checked against the
  submitter's tasks and counted against the owner's.
* Approving an RoE votes for the oldest pending request when no version is named:
  `ListApprovals` returns the newest first and the last of the list is taken.
* The capability's class is the highest that any agent offers, blocked agents included.
* A wildcard covers its apex for gatekeeper and for nobody else; an excluded name
  excludes what lies below it for platform-core and not for the SDK; a CIDR target is
  judged by its first address in platform-core and never matches in gatekeeper.
* An adapter's execution looks neither at the mission's state nor at the dispatch, and can be
  repeated. Its result lists every target as touched, those the deadline skipped
  included (against "honest list").
* A work directory of strix is that of a task key and a sanitised target, and
  `readFindings` "locates the single run" in it: it reads those of every earlier run there,
  of a failed one and of another target too; an unfinished file fails all later scans.

### Known divergences

Found while modelling; a reader of the code should know them. No run states
them, because each run is spent on a property that holds.

* An audit failure after the commit (`dispatch.go:309`) is rolled back by two
  statements that race the relay: the dispatch may run unaudited.
* The drain of a kill (`killswitch.go:164`) lists tasks and then updates them
  with the state it saw: a task ACKed in between is skipped and keeps running.
* `requeueOrDead` (`scheduler.go:137`) releases leases before its conditional
  transition is known to succeed, against "One intrusive task per target at a
  time" (`leases.go:3`).
* `handleFailure` (`results.go:126`) asks for a transition from FAILED, a state
  the row never has, against "retries up to max_retries, then DEAD"
  (`results.go:123`): a failed task stays REPORTED.
* A task whose dependency failed is never cancelled: the picker only returns
  tasks whose dependencies are COMPLETED, so `HasFailedDependency`
  (`store.go:494`, "such tasks are cancelled") is never reached with a failed
  one. It ends EXPIRED at the queue TTL.
* `requeueOrDead`'s exhausted branch asks for DISPATCHED or RUNNING to DEAD,
  which `legalTransitions` refuses; the task is listed again on every pass.
* With two replicas the per-RoE bound can be exceeded: the count and the commit
  are several statements apart. With two reapers a stale snapshot lowers
  `attempt` again.
* A handler that stops between REPORTED and COMPLETED leaves the task there:
  the redelivered result expects DISPATCHED or RUNNING, and no reaper pass looks
  at REPORTED or VALIDATED. A stop after COMPLETED loses a watch's renewal.
* The 32 oldest queued rows, those of paused missions included, can fill every
  batch (`store.go:476`); `Release` is Get followed by Delete (`leases.go:81`);
  the commander quota is counted before the insert (`planner.go:133`); a plan row
  left with an empty verdict is replayed as such (`planner.go:103`); the second
  attempt's result reuses the first one's event id (`sdks/go/runtime.go:366`);
  a halted agent's flag is never cleared (`sdks/go/agent.go:344`).

## 3. Approvals

`RecordApprovalDecision` is five statements: row, votes, role, INSERT of the
vote, UPDATE of the status. `call[s]` is a decision in progress with the votes it
captured; `GetApproval` and `ListApprovals` also write (lazy expiry). The RoE
author is a constant because a version's `created_by` never changes. Roles come
and go at any time, the 72 hours may pass at any time, and a call may stop
anywhere.

| run | instance | shows |
|---|---|---|
| `approvals` | one approval, author and three others, two overlapping calls | `FourEyes` |

Two overlapping calls are enough for the race of any two decisions, three
people besides the author for a requester and two voters. People other than the
author, and sessions, are interchangeable (symmetry).

Proofs (`AuthorityProofs`): `ApprovalsTypeCorrect` and `GrantedByTwo` from `FourEyesInv`:
the votes a call captured are still in the table, a call past the check is by an
independent person, and a call about to tally has inserted its own vote, which
is not among the captured ones (`SessionsFaithful`); every vote in the table is
independent (`VotesIndependent`). Hence a captured approve and the own approve
are two people.

Divergences: `setState` is unconditional, so an approve that started before a
reject overwrites "rejected" with "granted" (`approval.go:179`), against "Any reject
closes the approval." (`approval.go:170`). An approval may stay pending with two
approve votes (two first votes that overlap each count one) until it expires;
expiry may overwrite a recorded grant.

### Rules

`PolicyRules` holds the parts of gatekeeper that are functions: role bindings and separation
of duties, capability files, blackout windows, rate caps, the lookup of approvals and of
revocations, the verification of tokens. `AgentRules` holds those of the agent side: the
token bucket and slots of `rate_caps`, the guard's checks, its list of touched targets and its
audit records, the key cache, the place of a manifest, and the allowlist of detect's egress
proxy. Both are checked by the assumptions of their MC modules when TLC starts on
`MCApprovals`: all sequences of three grants and a withdrawal, all hours of a week
against each window, all sequences of three requests two ticks apart (eight without a
gap to exhaust the 5 s), nine steps of acquiring, releasing and updating, two fetches of keys
in any order, allowlists of up to two entries.

Theorems (in `AuthorityProofs`, for every input):

* `DutiesStaySeparate`: if nobody holds a forbidden pair of roles, nobody does after a
  grant, at any later time either; bindings that agree on each principal's kind are the
  hypothesis, since the check looks at the kind the grant claims.
* `TokensAreYoung`: a token gatekeeper accepts (but for a refresh) was issued less than
  960 s before and at most 120 s after now, whatever its other claims.
* `LeavesWithinFiveSeconds`: a request that the guard lets through was unrevoked, with a
  valid token and in the manifest, at most 5 s before it may leave. The bound is
  that of the limiter's wait, after which nothing is checked again.
* `DialledIsAllowed`: what the proxy dials is allowed with the port it dials. It rests on
  `PortsNameEntries`, that a port never makes a difference: a plain request for https is judged
  with port 443 and dialled with 80.

Divergences: the check of duties and the INSERT of a binding are two statements. The
default cap of R1 is one bucket for everything without a name. The bare capability `stress` has
a class but is not under an RoE's `stress.*`. `commanderPrincipal` knows cai and hexstrike
only. A revocation's expiry is known to the process that wrote it. `Guard.Update` replaces the
limiter: a new burst is free at once, slots in use no longer count, and their release
frees a slot of the new limiter. A fetch of keys holds no lock, so a slow one brings a
withdrawn key back after a faster one removed it (for at most the cache's 300 s and its
own duration), and one key that does not decode fails the whole refresh. The audit
record of a touch names the guard's token at that time, which an update may have made
another than the one that was checked; under a scope-bound successor the result names the hash
of the last manifest only. A port in an allowlist entry does not narrow it, as the test says and
the comment at `evs/proxy.go:98` does not; the allowlist has no exclusions, so the proxy passes
a host that the scope excludes below one of the targets.

## 4. Authority

A Scope Token is what an agent may act on. It rests on a decision, the decision
on a version of the rules of engagement (RoE) and on the revocation set. The
four are written by four services over the same database, statement by
statement, and the module asks what survives their interleavings.

### State and code

| variable | code |
|---|---|
| `status` | `roe_records.status` by version of one RoE; `"absent"` is a version not inserted. `pending_approval` is left out: nothing writes it |
| `resolved` | versions with rows in `roe_effective_targets`; a version is immutable (trigger `roe_records_immutable`), so its rows are those of `ScopeOf` |
| `rev` | `revocations` by key: none, with an expiry known to this process only (`timed`), or in force for good (`standing`) |
| `decision` | allow rows of `authz_decisions`: version, targets, whether the audit event is chained and whether the caller was told |
| `token` | `issued_tokens`: version, manifest, decision, predecessor, scope-bound or exact, revoked |
| `call` | the RPCs in progress, with what they have read |

An action is one statement on shared rows. `Authorize`, `StepRevocation`,
`StepROEActive`, `StepTargetScope`, `PersistDecision` and `RecordDecisionAudit` are
the pipeline of `policy.go`, `MintToken`, `ExchangeToken`, `RefreshToken` and
`Register` the token service, `CreateROE` to `SetExpired` the RoE service, `Revoke`,
`IssueROERevocation` and `Restart` the revocation list. `GiveUp` is every
refusal, failed statement and lost caller; the steps of the pipeline that are not
modelled (identity, capability, legal artifact, approval, blackout,
jurisdiction, rate) are part of it, since they can only deny. No clock is
modelled: the window of a version in `Closing` may be found closed by any read,
and a `timed` revocation may have lapsed or not. Requests for a monitor
capability (`watch`) get scope-bound tokens and others exact ones, because that
is what the only caller of `MintToken` asks for (`scopeBoundWatch`,
`platform-core/internal/pep/pep.go`).

Two fields are history: `killed` and `settled` record what held when an RPC
began, so that a property can speak of RPCs that began after a revocation was
complete. No guard reads them.

### Run

`authority`: two calls at a time, both free to be operators, one of them a client;
two versions, the second without the target that both requests ask for (one of
them a watch); two decisions; two tokens (symmetric); the second version's
window may close; people revoke the RoE. 2.1 million distinct states. The scope of
the second version is what is left of it among the targets asked for. Two versions
suffice for a decision to outlive its version, two tokens for a chain of
descent, two calls for every race of a read and a write, since each statement
touches one row. A revocation of a target or of everything differs from one of the RoE
in the set it is looked up in only, so one key is enough here. The RoE may
stop being used, hence no deadlock check. There is no liveness: no call has to
come.

- `DecisionsInScope`: status, scope rows and decision are separate statements, and
  the version becomes active before its rows exist; still no ALLOW names a
  target outside the resolved rows of the version it cites.
- `TokensNarrow`: mint, exchange and refresh may meet a newer version than the
  decision's, and still never widen the targets.
- `NoTokenUnaudited`: the row of a decision outlives a failed audit append, but
  its id has not left the service.
- `KillStopsDecisions`: a request or refresh that began under a revocation that
  stands is not allowed, whatever expiries a restart lost.
- `SettledMintsNothing`: from the moment nothing that read the record before the
  revocation is in progress, no call registers a token (that none makes the RoE
  active again is the theorem `SettledFinal`).

### Proofs (`AuthorityProofs`)

Every property of the run is a theorem, and two facts without a run are: `TypeCorrect`, `AllowedInScope`, `NeverWidened`,
`AuditedFirst`, `KillEffective`, `SettledFinal`, `SettledNoMint`. They share one
inductive invariant, `IInv`:

* No property is inductive by itself, because an RPC writes from what it read some
  statements ago. `CallsFaithful` says for each point of an RPC what it relies
  on: the version it works on exists, its targets were in scope when it reaches the
  row, its decision is not yet written (or is, and is audited), its parent token
  exists and covers its targets, and whatever revocation or settled state it began
  under is still there.
* What is read stays true because rows only gain (`RowsKept`): no version,
  resolved scope, decision or token is deleted or changed in the columns that
  count, a standing revocation stands and a settled revocation stays settled
  (`SettledStep`). `StaysFaithful` is the step of everyone who does not move.
* The one thing that others could take away is the right to write a decision id:
  `OwnDecision` says that an RPC in the pipeline shares its id with nobody.
* `SettledStep` is where `Settled` earns its second conjunct: each UPDATE of the
  status comes from a call that found the record not revoked (`WritesFromLive`), and
  by then there is none.

Assumptions: `ConstantsAssumption`, `SentinelsAssumption` (the pseudo target of a
scope-bound token is no target; `None` is no id) and `NoneIsNoRow`. There is no
bound on versions, targets, decisions, tokens or calls, and `Admin` and `Client` are
any sets of calls. `IInv` was checked by TLC on the instance of the run before it was
proved. Nothing about `Authority` is left to TLC only.

### Known divergences without a run

- The last two properties need `Settled`. Without it, an `ActivateROE`,
  `SuspendROE` or lazy expiry that read the record earlier overwrites `revoked`
  (`setStatus` has no condition), and an `UpdateROE` follows it with a draft, against
  "permanently revokes" (`roe.go:372`) and "revoked records are terminal"
  (`roe.go:290`). Decisions stay denied by the RoE's revocation if its insert
  succeeded; `MintToken` and `ExchangeToken` do not consult revocations.
- A mint uses the latest version with the targets of an older decision: the token
  names a version in whose resolved rows they may be missing, against "tokens
  bind to that resolved version" (`db/migrations/000002_gatekeeper.up.sql:47`).
- `RefreshToken` reloads the RoE after its decision and looks at neither status nor
  version (`token/service.go:519`).
- The refresh of a scope-bound token asks for the pseudo target `scope:sha256:...`,
  which no resolved row matches, so it is always denied; the comment at
  `manifestTargets` says that it re-authorises at capability level.
- When the audit append fails, the allow row stays although the caller is told
  DENY (`policy.go:557`).
- `ActivateROE` that fails between the status and the target rows leaves an active
  version with nothing in scope, which cannot be activated again.
- `ExpireDue` lists versions but loads the latest of each RoE: an older active
  version is never expired (and never used).

## 5. Monitor

One watched asset of one mission, end to end. `MonitorDiff` and `MonitorRules` are
the pure parts: the change codes two snapshots of a probe give, the transitions
that are parked until a second probe confirms them, the sticky exposure and
baseline rules, the keys of the failure window. `Monitor` uses them in the
executor's pipeline.

| variable | code |
|---|---|
| `watch`, `known`, `listed`, `inScope` | the `watch_assets` row, the CT feed's candidates, the inventory and the RoE |
| `latest`, `pending`, `sticky`, `baseline` | `snapshots_latest`, `pending_changes`, rule state, baseline rules |
| `dedup`, `events`, `outbox`, `muted`, `burst` | the streamer: 24 h windows, `change_events`, `event_outbox`, suppressions, capped events in memory |
| `job` | MONITOR_JOBS: deliveries, lane, dead letters |
| `scan` | what each worker does: `ops` is the list of statements still to execute, so everything can happen between two |
| `current`, `refreshing`, `alive`, `narrowed` | the coordinator's raw token, its refresh loop, tokens that still verify, tokens of the narrowed scope |
| `day`, `owed` | the unit of time (dedup window, failure window, cap hour); history for `NothingLost` |

Run `monitor` explores eleven scenarios (`MCMonitor`): overlapping scans of a
changing page, failing statements and crashes, an asset that vanishes, tokens that
come and go while the scope loses the asset, a cap of one, flapping, a drifting
baseline, a passive watch, ageing certificates and ports, and two `lively` ones in
which the tickers and the workers are fair; 950 thousand states.
`OneEventPerWindow`: however many scans overlap, a fingerprint gets one event per
window. `NothingLost`: what a scan decided to report is stored once the workers
rest. `ConfirmedIsEmitted`: a parked transition is emitted when it persisted.
`EverythingSettles`, in the `lively` scenarios: the watch set converges once the
coordinator holds a token of the narrowed scope, and every queued job is scanned or
dead-lettered. Fairness: weak for `SyncWatchSet` and `Relay` (tickers) and for every
worker's next step. The hourly cap is modelled; overlapping workers all count before
either stores, so it is overshot by at most the number of workers less one, which no
property states. Two workers and two jobs give
every race of two scans; a third day shows what happens after a window ended.

### Proofs (`MonitorProofs`)

For any scenarios, observations, workers, jobs, days and faults: `OneEvent`,
`OwedIsStored` and `ConfirmedEmitted` are the three safety properties, from the
inductive invariant `MonitorInv` (TLC checked it on the run first).

* `ScanShape` says what a worker still has to do: which statements may follow
  which in `ops`, that a submission is carried out phase by phase by the worker that
  began it (dedup, gate, event, outbox), and that parked changes and snapshots are
  those of their probe. It holds for every plan `FailurePlan`, `SuccessPlan` and
  `RuleOps` can build. The eighteen actions are sorted into seven kinds (nothing of
  a scan moves; a plan begins; a scan ends; one store statement; one step of a
  submission; the day passes; a crash), and each of the other parts is proved per kind.
* `WindowInv`, for `OneEvent`: a worker between its claim of a window and its row is the
  only one with that aim, the claim is in `dedup` while its day lasts, and the
  event is not there yet. Two scans race for the claim (`DedupCheckInsert` is
  one statement), not for the row.
* `LostInv`, for `OwedIsStored`: what is owed is stored or promised by a statement still
  to be executed, and every live window has its event or a worker about to
  store it. The second half is what makes a duplicate harmless: a submission that
  finds the window live has its event stored, or in the hands of another worker.
* `ConfirmInv`, for `ConfirmedEmitted`: a parked change seen twice has its unpark
  statement in some worker's list; equal hashes cannot swallow the confirmation
  unless the body was kept.

Assumptions: `MonitorAssumption` (`MaxDeliver` is positive) and `ScenariosAreSound`
(a document is of one of the four probe types and lists finitely many ports, a body is
kept or not, a watch has finitely many baselines). The plan of a scan is a
concatenation of lists; `MonitorDiff.Flatten` states it by position (the n-th
place in the order of lists and of their elements), so that what it contains follows
without induction. Only model-checked: `EverythingSettles`.

Divergences: `emitSimpleAt` swallows errors of Submit (`executor.go:584`), the dedup
window is committed before the event is persisted (`streamer.go:168`) and
`InsertEventWithOutbox` runs without the transaction its comment speaks of, so a
failure in between loses the event for a day; sticky state is written before the
emit, latest before the history. The hash covers RawRef (`executor.go:219`), so where
bodies are kept no two probes hash alike and a parked transition is never confirmed
(against `executor.go:352`). The watch set's upsert reactivates a paused row, a stale
copy resurrects a removed row until the next sync, paused rows outside the
inventory are never purged. A refused refresh leaves an expired token in use.
The egress budget NAKs without delay, so deliveries run out with no dead letter
(`worker.go:118`). The abort flag is never cleared.

## 6. DataPlatform

`Intake` is the pure translation of a message (detect candidate, monitor event,
discover change, REST batch) into a batch with its idempotency key; `Lifecycle` the
states of a finding and their legal edges. `DataPlatform` runs batches in transactions:
a transaction takes row locks statement by statement and buffers its writes; a
statement that needs a held lock waits; two that wait for each other deadlock and
one is aborted. `tx[w]` holds the statements to come, the locks and the buffer.

Run `dataplatform`, seven scenarios: first reports of one fingerprint, reports next
to operators, rows locked in opposite orders, reused keys, tokens that cannot be
verified, two tenants, the retention sweep over a finding that is reported again;
52 thousand states. `HistoryIsLegal`, `CountedOnce` (what an accepted batch carried
is counted once, and, where batches write the asset of their findings, in one
finding per fingerprint), `AcceptedIsAudited`, `PurgeIsCertified` (a deleted finding was
terminal, past retention and audited), `EverythingSettles` (batches settle,
retention is enforced, the audit outbox drains). Fairness: weak for each worker's
next statement and its next delivery, the sweep, the forwarder and the passing
of a retention cutoff. Three findings, two workers and two tries per statement are enough for
every pair of transactions and for the row a third would reuse.

Proofs (`DataPlatformProofs`, for any scenarios, workers, messages and operators;
`WorldsAreSound` says that a scenario starts with findings whose counts are numbers and histories
legal):

* `AcceptanceIsAudited`: row locks are held by one transaction (`LocksApart`), the
  one that claimed a key is the one that writes its audit row, and both commit
  together (`AuditInv`), so a redelivery finds the key decided.
* `HistoriesAreLegal`: a transaction that moves a finding has locked its row, so
  the row it buffered is still the stored one plus its own hops, however long the
  commit takes; two buffers never hold one row, and what a sweep selected was
  terminal (`HistInv`).
* `PurgesAreCertified`: the list, the audit row and the deletions are separate
  statements; what was listed is terminal, a terminal state has no legal edge that
  leaves it, and the audit outbox only grows.

* `ReportsAreCountedOnce`: a sum over rows would be a fold, so `CountedOnce` speaks of
  sets of pairs: (row, 1 .. occurrences) for what is counted, (key, position) for what
  accepted batches carried. Inductive (`CountInv`): the two sums agree (`Even`) and the
  rows an open transaction has buffered add to the stored ones as many pairs as it has
  written findings of its batch (`Tally`), which needs that no other transaction writes
  these rows meanwhile (`Apart`, the row locks). A commit moves both to their other
  side, the batch to a key the ledger does not have (`Claims`). For the second half, a transaction
  that has come to its findings holds the locks of the assets they name (`Holds`,
  `HeldByRow`), so two of one tenant never buffer one fingerprint (`HeldOnce`) and what a commit adds
  is new to the table. The hypothesis `ByAsset` is that a fingerprint names one
  asset and a batch writes the assets of its findings, as the consumers' batches do;
  without it the first divergence below is the counterexample.

Only model-checked: `EverythingSettles`.

Divergences: REST batches with a finding but without its asset can insert two
findings of one fingerprint; events are published after the commit, so a crash
loses them and two workers publish out of order; a rejected key (also a transient
verification failure, or another tenant's) burns the idempotency key; without an
event id the discover key makes later changes replays; "attribute_changed" maps to
the default status active and reactivates an expired asset; a detect stub has status
"" and so active though its comment says candidate; a legal hold set between
`TerminalFindingIDs` and `DeleteFindings` is ignored (`partitions.go:120`);
`ClearEvidenceRef` may null a newer reference; evidence is purged before its audit
row. Left out: edges, rollups, query API, partitions, tenancy administration.

## 7. Alert

One Node process: every await is an interleaving point, and what a handler read
earlier stays in its `job`. `ingress` is the bus message or HTTP request, `alert`,
`dedup`, `incident` and `delivery` the tables, `bucket` a destination's rate limit,
`run` and `scan` the dispatcher and escalation passes (a pass may outlive its
interval). Time is a set of flags per timer.

Run `alert`, eight scenarios (repeated reports, correlation and acknowledgement, key
outages, failing statements and crashes, two channels with retries, overlapping
passes, a climbing chain, the bootstrap policy); 65 thousand states.
`NoTokenNoNotification`; `OneFirstPerWindow` (one event of a window is new);
`NotificationsBounded` (a delivery or a step is repeated once per
overlap or crash, no more); `EverythingSettles` (held alerts, deliveries and chains
end). Fairness: weak for every handler, pass and timer. Bounds: three incidents, three
deliveries of a message, two attempts, one repeat, a burst of two.

Proofs (`AlertProofs`, for any number of handlers, passes and scans, any bounds and
any scenario that limits its faults, `ScenariosAreFinite`):

* `OnlyTheCleared`: a handler past its verdict carries an event that needs no token
  or has a good one; a held row is alerted on only by the retry that verified it,
  and it keeps the event it was inserted for (`TokenInv`).
* `OneFirst`: a claim needs an absent or lapsed dedup row, and only a window or a
  failure of the store makes one: claims are at most one more than these
  (`ClaimInv`).
* `SentOnce`, `FiredOnce` and, from both, `Bounded`. Sends alone are not inductive,
  since a pass that holds a row will send it again: each delivery is credited with
  the passes that hold it undelivered, and the credit is covered by what the
  environment has used (`SendInv`). For a chain the credit is the scans that hold
  it and the steps it has still to climb (`StepInv`).

Only model-checked: `EverythingSettles`.

Divergences: an ingest interrupted between insert and routing is acked as a duplicate
on redelivery, so the alert is lost (against the comment in `buswire.ts` on a
transient throw); a held row without a retry time is never retried; two handlers
correlate into two incidents; `setIncidentEscalation` is unconditional, so an
acknowledgement during a scan is overwritten with "escalated" and the chain goes on
(against `escalate.ts:6`); the bootstrap escalation policy is attached but not
stored; a policy without repeats is never exhausted; overlapping passes resend and
may turn "sent" into "failed"; 429 answers count as attempts; the egress policy is
not checked again at send time; a paused destination with old rows starves others
(LIMIT 100); dedup fails open. Left out: audit spool, lifecycle messages, templates,
acknowledgement nonce, Splunk batching, the 24 hour refusal.

## 8. Audit

`chain[p]` is a partition's rows `[id, seq, prev, hash]`, where a hash is the
sequence of what it covers, so that equal hashes mean equal histories. `job` are the
writers (platform-core's `Log` calls and replay, gatekeeper's `RecordBatch` calls and
its bus consumer), each statement of a transaction a step; `lock` the advisory
lock; `lines`, `torn` and `core` the spill file and its replay at start;
`msg` the messages of `audit.events`; `spool` discover's rows. Statements fail, a
commit's answer is lost, a write is torn, acknowledgements are lost and processes
stop, each a number of times the scenario gives.

Run `audit`, four scenarios, 67 thousand states, two deliveries per message:
`ChainIntact`, `ChainedOnce` and `ImplementsAuditLog`: under the
mapping of a log to the ids of a chain and of `owed` to what is in the spill file,
`Audit` refines `AuditLog`.

Proofs (`AuditProofs`, for any number of writers, events and faults):
`TypeCorrect`, `ChainsStayIntact`, `AuditImplementsAuditLog`, `ToldEventsAreKept`,
`EventsAreChainedOnce`.
`IInv == ChainInv /\ DataType /\ MsgInv /\ ReplayChained`. `ChainInv` says that
chains are sequences of links (`ChainType`), that a job between its lock and its
commit holds the lock (`LockHeld`), and that what it is about to append continues
the chain it read (`Writing`); hence the appended link fits and `ChainIntact` is
inductive. For the refinement each step keeps a promise: logs only extend, what leaves the
file has been chained (`ReplayChained`: the lines before the replay's position
are), who is told is told of what is durable. `ChainedOnce` needs `OnceInv`: platform-core's
events go to their partition one at a time and the INSERT refuses a known id, and the
partition of the bus has the one consumer for a writer, which looked for the ids before it
took the lock and under it nobody added one. The model of `audit` has no liveness property.

Divergences: a replay interrupted half way, or a lost commit answer, leaves a line
whose event id is already chained, and every later replay stops there, so the rest is never
chained (against `audit.go:14`); a torn line glues the next event to it; an outage
of the database longer than ten deliveries drops bus messages though `consumer.go:31`
says "durable, never sampled"; discover's forwarder makes a fresh event id per try,
so a failed mark chains an event twice. Left out: batches of several organisations,
`IngestAuditEvents`, canonicalisation, the intake pause.

## 9. Discover

One order from its submission to its end. The four writers of its state are `submit`
(`SubmitOrder`), `ender` (`Cancel`, `HandleRevocation`, `SweepOnce`: each read and
each `SetOrderState` a step) and the reducer's `processDone`; none of them compares
before it sets.

| variable | code |
|---|---|
| `order` | `discovery_orders`: state and progress (total, done, failed) |
| `lane`, `results` | the work queue stream: lane tasks and `discover.results`, with deliveries; a published id is dropped within the duplicate window |
| `worker` | `Worker.handle`: order check, token check, connector, settlement |
| `reducer` | `runReducer` with `processDone` and `processFinding`, a step per statement, call or publish |
| `assets`, `dp`, `gaps` | working store, applied data platform batches, audited failures |

An asset is its type and value; a source's answer is a sequence of findings with edge
endpoints the scenario gives. Run `discover`, nine scenarios (recursion up to
`max_tasks`, a source without credentials and names out of scope, cancellation and
revocation during submission, crashes, a task run by two workers, a data platform that
stays away, orders that run nothing); 273 thousand states.

- `CompletedCoversTasks`: markers are counted and expansions raise the total
  without a key or a transaction; an order that completes has a report of
  every task, but for one expansion's worth per failed call, crash or late duplicate.
- `BudgetKept`: the total that `ExpandTasks` compares with `max_tasks` was read
  earlier; with the single reducer the published tasks keep it, up to the same error.
- `EndedStaysEnded`: when nobody is about to write, an end is final.
- `OnlyScope`, `GapIsRecorded`, and `EverythingSettles`: the order ends, and no message
  waits for ever. Fairness: weak for the loops of worker, reducer and janitor,
  for redelivery and for the passing of the budget; calls need not fail.

Proofs (`DiscoverProofs`): `ScopeHolds` from the invariant that whatever the reducer is
about to merge or send passed the check; `EndIsFinal` by cases on the actions, since
`Quiet` excludes exactly the writers. `GapsRecorded` (`GapIsRecorded`): a finding whose
message is settled is in the data platform, in the audited gaps or in the hands of the
reducer, which settles it only after one or the other (`GInv`). `BudgetHolds`
(`BudgetKept`): the total never lags behind the published tasks by more than the expansion
in progress and those that a failure, a crash or a late duplicate cut off, one each
(`BInv`). `CompletedHeardAll` (`CompletedCoversTasks`): first that no task is published
twice (`TInv`: a planned task comes from no asset, an expanded one from the one asset of
its name and type, which was new), then that the accounts balance (`CInv`): the tasks
owed and not told of, the markers stored and not counted, and the tally do not exceed the
total as raised by the expansion in progress, plus a share of `|sources|` per
disturbance. The reducer compares tally and total, so what is missing when it closes the
order is within that excess, and nothing is owed later. All of them for any number of
workers, tasks and findings; `ScenarioBounds` makes seeds and sources finite and faults
countable, and `ScenarioAnswers` says that an asset is its type and value (the key
`GetAsset` reads). Only model-checked: `EverythingSettles`.

Divergences: nothing sets the attribute `depth`, so `max_depth` never stops recursion
(`planner.go:243` promises it) and only `max_tasks` does; the initial plan is not
compared with `max_tasks`. A host found under another seed is a subdomain, under its own
expanded task a domain: two assets, expanded twice. Edge endpoints are merged
without a "new" event or expansion. A failure between merge and announcement loses the
"new" event and the expansion, since the redelivered finding is no longer new
(against `reducer.go:13`); a done marker that overtakes a delayed finding completes the
order and the finding is dropped. Overlapping enders overwrite each other, and the
RUNNING write of `SubmitOrder` revives an order cancelled while PENDING; revocation
and janitor miss PENDING orders, so one left by a crash stays. A refused token
acknowledges the task without a marker: the order waits for its budget, and since
no task carries a token every planned task of a class above R0 is refused while expanded
tasks are always R0. The data platform's key is order and asset, so later changes within
an order are replays. Left out: attributes and confidence, edges between existing
assets, expiry of stale assets, status events and webhook, evidence, a panic of a
connector, and the connectors' I/O.

## 10. Detect

`Agent` is the SDK runtime every Go agent runs on; `Detect` extends it with the module
that detect plugs into it, so a halt, an expiring token or a restart meets a scan in any
of its steps. The process is one: coordinator, workers and agent stop together. Jobs go
through JetStream, reports through core NATS.

| variable | code |
|---|---|
| `inbox`, `sent`, `results` | `task.assign` and `task.result`; the result's event id is that of the task, so the stream keeps the first |
| `exec` | one call of `execute`: its place (plan gate, authorize, registration, module, report), context, token |
| `running`, `killed`, `cache`, `applying`, `heard` | the agent's table, its kill flag, the revocation cache, the watcher's handler |
| `scan`, `coordinator` | one `Coordinator.Run`: its mailbox, counters, the candidate in hand; the coordinator's own table |
| `queue` | `detect.jobs`: deliveries, how far the scanner's output was reported, whether the process was cut short |
| `known`, `findings`, `alerts`, `rows` | fingerprints, `detect.findings`, `detect.alert`, the fallback table |

A candidate goes through `process` in the steps at which something else can happen:
suppression and lookup, `Record`, the judgement, `Publish`, `Alert`, `Sink`. The judgement is
one step that yields every verdict its validator and the sandbox can reach
(`DetectSites.Validate`): each validator is a function of the replies to its requests
(`DetectVerdicts`), and the replies are those that a target with the flaw, or one without
it, can give while any may be lost. What a scanner reports, how it is classified and what
its launch excludes is computed by `DetectPlan` from the job, from hits that carry
tags and words instead of text.

What a target without the flaw answers is a choice, and it bounds the result: a reply may
be lost or slow (two of three trials), one page of the header check may be odd, banner or
behaviour may suggest a version but not both. A single page with an SQL error, or a single
error status on the false probe, does confirm (`sqli.go:98-133`), and a site that answers
every URL with one page confirms a traversal by hash; those sites are left out.

Run `detect` explores 146 worlds (`MCDetect`), two executions, two tasks, two jobs for
each: 104 cross the classes of candidates with a flawed or sound target, a missing
collector and a forced sandbox; seventeen are refused assignments; the others are
scopes, filtered and budgeted scans, network scans whose process dies, concurrent tasks, revalidation
and enrichment, two failing calls, redelivered jobs and tasks, restarts,
revocations by scope, broadcasts, and five whose steps are fair. 174 thousand states.
Two jobs are enough for one to end the count of the other; two executions for one to
replace the other in the table.

- `NoFalseAlarm`: whatever the scanners say, an alert names a target that has the flaw.
- `FinishedHeardAll`: a scan that succeeds has processed every report of its jobs. False
  when an `Ack` is lost (the job runs again, and its second done ends the count
  though another job still runs) or when a task runs twice (one mailbox subject
  for both), which `worker.go:98` calls idempotent; the property leaves those out.
- `KillReaches`: once a revocation's handler has returned, no scan or enrichment it covers has a
  live context, those that were between authorisation and registration included. False for
  tasks dispatched twice: the first execution's deferred delete removes the second
  from the table.
- `EverythingSettles`: every execution ends and reports or gives up, when a done is
  lost (by the deadline), gatekeeper is away, or a neighbour's halt aborts it. Fairness,
  in those worlds only: weak for the steps of an execution, which are a goroutine's, for
  its deadline timer, and for the worker of each job; nothing else need happen.

Proofs (`DetectProofs`, for any scenarios, tasks and executions):

* `AlarmsAreTrue` (`NoFalseAlarm`). The verdict lemmas (`Headers`, `Queries`,
  `Traversals`, ..., `Reachable`, `Sandboxed`) say of each validator and of the sandbox
  that no replies an unflawed target can give make it answer CONFIRMED; `Judged` joins
  them with the safe mode, the forced sandbox and the missing evidence. `AlarmInv` then
  follows the candidate: from the judgement on it keeps the verdict of its own target.
  Assumption `Sandboxes`: there is an out-of-band service or there is none.
* `KillsReach` (`KillReaches`). A task that was sent once has one execution (`Alone`),
  which the table holds from its registration to its end (`Table`), because nobody else
  deletes that entry. So when a handler marks a revocation as heard, haltMatching has
  found every run it covers; and a run that enters later has passed AuthorizeTarget, which
  refuses what a heard revocation covers, for each target, and a scan has one (`Gated`: the
  plan gate was passed). `KillInv` is the conjunction. Assumption `Executions`: an
  execution is a positive number, so no execution is taken for the absence of one.

* `SuccessHeardAll` (`FinishedHeardAll`). `HearInv` counts for each run: the raws it has
  processed, has at hand or has in its mailbox are all its jobs published; of the jobs
  dispatched, each is in the queue, or its done is in the mailbox, or is counted, and one
  that is none of these lost its done, for which the count never makes up; and a mailbox
  that ends in a raw has a done still to come, because a worker reports a job's raws before
  its done. So when as many dones are counted as there are jobs, nothing is queued and the mailbox
  is empty (`AllHeard`). Hearing its own task's reports only is `OwnReport`, from `Alone`
  above. Assumption `Targets`: a task has finitely many targets.

Only model-checked: `EverythingSettles`.

Divergences: `Module.Abort` cancels every run of the coordinator, so a halt of one
mission ends the scans of all (as FAILED, "context canceled"), and a typed broadcast
halts every task whatever its scope (`revocation.go:160` says otherwise). A heartbeat
that says `kill_active` halts nothing by itself, and nothing clears `killed`
(`agent.go:344`). A restart forgets revocations that were acknowledged. Target
revocations do not stop a running scan: `haltMatching` asks with no target and the
scanners have no guard. The local sink stores the adapter's name as class,
so revalidation finds no validator and never closes a finding (against
`revalidate.go:14`). A sandbox step that fails is NOT_REPRODUCIBLE and replaces even
CONFIRMED. An `Abort` of nuclei truncates its output and the job still succeeds,
since its exit status is not read; nmap's truncated XML fails the job. A check list that
the exclusions empty selects everything. "NOT VULNERABLE" in a script's output counts as
vulnerable. CONFIRMED asks for some stored reference, not for a transcript
(`candidate.go:218`). Two concurrent tasks can both miss in the lookup and give one
weakness two ids. Left out: the requests of validators and sandbox as
steps, the out-of-band collector's own state, evidence redaction, the refresh of the
intelligence mirror, the egress proxy's transport, registration retries; the rate limits
and audit records of the guard are in `AgentRules` and no steps here.

## 11. Plan

Done, in order of importance: the orchestrator, four-eyes, the chain of authority,
monitor, data platform, alert, audit, discover, agent and detect. Left:

1. `Leases` (Get and Delete as two steps) under an abstract lease specification.
2. Overlapping calls of `PlanIntake` (idempotency keys, quotas) and of role grants as
   actions of modules of their own.
3. `EgressProxy` and the out-of-band collector as steps of `Detect`.

The proof library's induction theorems take an operator as a parameter, which the
installed provers cannot instantiate. Where a proof needs induction over numbers it
is by least counterexample; what a fold computes for every input stays with TLC.

## 12. Not modelled

User interface, browser extension, external scanners and connectors, generated
code, configuration and wiring, cryptography (signatures and hashes are taken
as unforgeable), wording of messages and metrics. `PROJECT.json` gives the
reason per component.
