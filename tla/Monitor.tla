------------------------------- MODULE Monitor -------------------------------
(***************************************************************************)
(* The monitor service around one watched asset of one mission: the        *)
(* coordinator that keeps the watch set and queues scan jobs, the workers  *)
(* that check a job's token and run its scan, the executor's pipeline      *)
(* (probe, snapshot, diff, rules), and the streamer with its dedup window, *)
(* its outbox and the relay.                                               *)
(*                                                                         *)
(* A scan reads the store, then writes what it decided one statement at a  *)
(* time: scan[w].ops is the list of the statements still to execute, so    *)
(* everything else can happen between two of them.  A day is the unit of   *)
(* time: it ends the 24 h dedup windows and the failure window, makes      *)
(* every probe due, and is the hour of the emission cap.                   *)
(***************************************************************************)
EXTENDS MonitorDiff, MonitorRules

CONSTANTS
    Worker,         \* worker goroutines, and those of rescan tasks
    Job,            \* scan jobs ever queued, 1 .. n (a bound)
    MaxDeliver,     \* deliveries of a job
    Scenario        \* the worlds a run explores, see the MC module

ASSUME MonitorAssumption == MaxDeliver \in Nat \ {0}

\* A document is of one of the four probe types and lists finitely many
\* ports; a body is kept or it is not; a watch has finitely many baselines.
AllProbes == {"dns", "tls", "http", "tcp_port"}
ASSUME ScenariosAreSound ==
    \A s \in Scenario :
        /\ \A doc \in s.observation :
              /\ doc.probe \in AllProbes
              /\ doc.probe = "tcp_port" /\ doc.outcome = "ok"
                    => IsFiniteSet(DOMAIN doc.ports)
        /\ s.raw \subseteq {"none", "kept"}
        /\ IsFiniteSet(s.baseline)

VARIABLES
    world,      \* the scenario, fixed by Init
    watch,      \* the watch_assets row: [state, failing, due]
    known,      \* asset_candidates: the CT feed has reported the name
    fresh,      \* probe types probed within their interval
    latest,     \* probe type -> current snapshot: [doc, raw, by, stored]
    pending,    \* pending_changes: key -> [change, after, raw, seen]
    sticky,     \* exposure and baseline rules recorded as open
    dedup,      \* fingerprints with a live window
    events,     \* change_events: <<fingerprint, day>> -> rows
    outbox,     \* event_outbox: <<event, subject>> -> "pending" | "published"
    burst,      \* capped events aggregated in memory
    baseline,   \* the baseline rules of the watch
    muted,      \* an operator suppression is live
    job,        \* the MONITOR_JOBS queue
    scan,       \* what each worker is doing
    current,    \* the coordinator's raw token, 0 when it has none
    refreshing, \* its refresh loop runs
    alive,      \* tokens that still verify
    narrowed,   \* tokens minted after the scope lost the asset
    inScope, listed,    \* the RoE covers the asset; the inventory lists it
    day, rescans, faults,
    owed        \* history: events a scan decided to report

(* What the scenario fixes. *)
Token == 1 .. world.tokens          \* watch tokens ever minted (a bound)
ProbeTypes == world.probes          \* the probes of a job, in order
Observed(pt) ==                     \* what a probe may return
    {doc \in world.observation : doc.probe = pt}
Raw == world.raw                    \* what the body upload does
Cap == world.cap                    \* emission cap of an hour
Days == world.days                  \* days that pass (a bound)
Rescans == world.rescans            \* rescan orders (a bound)
Faults == world.faults              \* what goes wrong ...
MaxFaults == world.maxFaults        \* ... and how often (a bound)
Operator == world.operator          \* what operators and the feed do

coordVars == <<current, refreshing, alive, narrowed>>
envVars == <<world, inScope, listed, day, rescans, muted, baseline>>
storeVars == <<watch, known, fresh, latest, pending, sticky>>
streamVars == <<dedup, events, outbox, burst>>
vars == <<storeVars, streamVars, coordVars, envVars, job, scan, faults,
          owed>>

NoDoc == [probe |-> "none"]
NoSnapshot == [doc |-> NoDoc, raw |-> "none", by |-> "none", stored |-> FALSE]
Idle == [stage |-> "idle"]
NoJob == [status |-> "none"]
Empty == [x \in {} |-> 0]
Put(f, k, v) == [x \in DOMAIN f \cup {k} |-> IF x = k THEN v ELSE f[x]]

Init ==
    /\ world \in Scenario
    /\ listed = world.listed
    /\ watch = world.row
    /\ known = FALSE /\ fresh = {}
    /\ latest = [pt \in AllProbes |-> NoSnapshot]
    /\ pending = Empty
    /\ sticky = {}
    /\ dedup = {} /\ events = Empty /\ outbox = Empty /\ burst = 0
    /\ muted = FALSE /\ baseline = world.baseline
    /\ job = [j \in Job |-> NoJob]
    /\ scan = [w \in Worker |-> Idle]
    /\ current = 1 /\ refreshing = TRUE /\ alive = {1} /\ narrowed = {}
    /\ inScope = TRUE
    /\ day = 0 /\ rescans = 0 /\ faults = 0
    /\ owed = {}

-----------------------------------------------------------------------------
(* The coordinator. *)

\* A purge that skips a manifest whose token no longer verifies.
Purged_LiveToken(state) ==
    IF state = "active" /\ current \in narrowed \cap alive THEN "removed" ELSE state

\* syncWatchSet: upsert what the inventory lists (which reactivates a parked
\* row), then purge the active row the current manifest no longer covers.
Listed(state) == IF listed /\ state # "removed" THEN "active" ELSE state
Purged(state) ==
    IF state = "active" /\ current \in narrowed THEN "removed" ELSE state

SyncWatchSet ==
    /\ watch' = [watch EXCEPT !.state = Purged(Listed(@))]
    /\ UNCHANGED <<known, fresh, latest, pending, sticky, streamVars, coordVars,
                   envVars, job, scan, faults, owed>>

\* publishDueJobs: a due row is queued again by every pass until it is
\* rescheduled; a parked one gets a dns-only reactivation job.
PublishDueJob(j) ==
    /\ current # 0
    /\ watch.due /\ watch.state \in {"active", "paused"}
    /\ j <= world.jobs
    /\ job[j] = NoJob /\ \A i \in Job : i < j => job[i] # NoJob
    /\ job' = [job EXCEPT ![j] =
                 [status |-> "queued", token |-> current, tries |-> 0,
                  react |-> watch.state = "paused"]]
    /\ UNCHANGED <<storeVars, streamVars, coordVars, envVars, scan, faults,
                   owed>>

\* refreshLoop: the successor keeps the predecessor alive; a denial ends the
\* loop and keeps the token; a token that no longer verifies is dropped.
Refresh ==
    /\ refreshing /\ current \in alive
    /\ \E t \in Token : /\ t = Max(alive \cup {current}) + 1
                        /\ current' = t
                        /\ alive' = alive \cup {t}
                        /\ narrowed' = IF inScope THEN narrowed
                                                  ELSE narrowed \cup {t}
    /\ UNCHANGED <<storeVars, streamVars, refreshing, envVars, job, scan,
                   faults, owed>>

RefreshDenied ==
    /\ "deny" \in Operator
    /\ refreshing /\ current \in alive
    /\ refreshing' = FALSE
    /\ UNCHANGED <<storeVars, streamVars, current, alive, narrowed, envVars,
                   job, scan, faults, owed>>

RefreshTooLate ==
    /\ refreshing /\ current # 0 /\ current \notin alive
    /\ current' = 0 /\ refreshing' = FALSE
    /\ UNCHANGED <<storeVars, streamVars, alive, narrowed, envVars, job, scan,
                   faults, owed>>

TokenExpires ==
    /\ "expire" \in Operator
    /\ \E t \in alive : alive' = alive \ {t}
    /\ UNCHANGED <<storeVars, streamVars, current, refreshing, narrowed,
                   envVars, job, scan, faults, owed>>

\* FlushBursts: the aggregate leaves memory before its event is stored.
FlushBursts ==
    /\ burst > 0
    /\ burst' = 0
    /\ LET e == <<<<"monitor.change_burst", "">>, day>>
       IN  /\ events' = Put(events, e, 1)
           /\ outbox' = Put(outbox, <<e, "changes">>, "pending")
    /\ UNCHANGED <<storeVars, dedup, coordVars, envVars, job, scan,
                   faults, owed>>

-----------------------------------------------------------------------------
(* A scan writes a list of statements. *)

Free(w) == w \in world.workers /\ scan[w] = Idle

\* A statement is its name and its argument.
Op(name, arg) == <<<<name, arg>>>>

Fp(c) == <<c.type, c.key>>

\* streamer.Submit starts with the statement that claims the dedup window;
\* each of its statements makes way for the next one (StreamWrite).
Event(c) == [change |-> c, day |-> day, gate |-> "emitted"]
SubmitOps(c) == Op("dedup", Event(c))

\* emitSimple: nothing is submitted for a rescan that does not report.
Submit(w, c) == IF scan[w].report THEN SubmitOps(c) ELSE <<>>

Reports(ops) == {<<Fp(ops[i][2].change), ops[i][2].day>> :
                    i \in {n \in DOMAIN ops : ops[n][1] = "dedup"}}

-----------------------------------------------------------------------------
(* The worker's gate, and how a job ends. *)

Begin(w, j, probes, token, react, report) ==
    scan' = [scan EXCEPT ![w] =
        [stage |-> "probe", job |-> j, token |-> token, react |-> react,
         report |-> report, row |-> watch', todo |-> probes, ops |-> <<>>]]

\* UpsertWatchAsset: a removed row stays removed.
Upserted == [watch EXCEPT !.state = IF @ = "removed" THEN @ ELSE "active"]

Covers(token) == token \notin narrowed

\* One more thing goes wrong.
Fault(f) == f \in Faults /\ faults < MaxFaults /\ faults' = faults + 1

Deliverable(j) == job[j].status = "queued" /\ job[j].tries < MaxDeliver

\* Handle: a bad token or an out-of-scope target is a dead letter; the
\* egress budget sends the job back; otherwise the scan reads the row.
Handle(w, j) ==
    /\ Free(w)
    /\ Deliverable(j)
    /\ UNCHANGED storeVars
    /\ LET taken == [job[j] EXCEPT !.tries = @ + 1]
           ok == job[j].token \in alive /\ Covers(job[j].token)
       IN  \/ /\ ~ok
              /\ job' = [job EXCEPT ![j] = [taken EXCEPT !.status = "dead"]]
              /\ UNCHANGED <<scan, faults>>
           \/ /\ ok
              /\ Fault("budget")
              /\ job' = [job EXCEPT ![j] = taken]
              /\ UNCHANGED scan
           \/ /\ ok
              /\ job' = [job EXCEPT ![j] = [taken EXCEPT !.status = "running"]]
              /\ Begin(w, j, IF job[j].react THEN <<"dns">> ELSE ProbeTypes,
                       job[j].token, job[j].react, TRUE)
              /\ UNCHANGED faults
    /\ UNCHANGED <<streamVars, coordVars, envVars, owed>>

\* runRescan: a commander order scans in its own task, next to the workers;
\* a target that is not watched yet joins the watch set.
Rescan(w) ==
    /\ Free(w) /\ rescans < Rescans
    /\ rescans' = rescans + 1
    /\ watch' = IF watch.state = "absent" THEN Upserted ELSE watch
    /\ \E report \in BOOLEAN :
          Begin(w, 0, ProbeTypes, current, FALSE, report)
    /\ UNCHANGED <<known, fresh, latest, pending, sticky, streamVars, coordVars,
                   world, inScope, listed, day, muted, baseline, job, faults, owed>>

\* passiveSweep: a passive watch evaluates the rules over what is stored.
PassiveSweep(w) ==
    /\ "passive" \in Operator
    /\ Free(w) /\ watch.state = "active"
    /\ UNCHANGED storeVars
    /\ Begin(w, 0, <<>>, current, TRUE, TRUE)
    /\ UNCHANGED <<streamVars, coordVars, envVars, job, faults, owed>>

\* pollFeed: the candidate row is inserted before the sink handles it, and a
\* name already there is never handed over again; an excluded name is only
\* audited, an out-of-scope one is metadata.
PollFeed(w) ==
    /\ "feed" \in Operator
    /\ Free(w) /\ ~known
    /\ LET new == SubmitOps(Change("asset.new", "new", SevInfo))
           ops == Op("known", "") \o Op("candidate", "")
                  \o (IF inScope THEN Op("upsert", "") \o new ELSE <<>>)
       IN  /\ scan' = [scan EXCEPT ![w] =
                 [stage |-> "finish", job |-> 0, report |-> TRUE, ops |-> ops]]
           /\ owed' = owed \cup Reports(ops)
    /\ UNCHANGED <<storeVars, streamVars, coordVars, envVars, job, faults>>

\* A dead letter that leaves the message unsettled.
Settle_Unsettled(w, status) ==
    /\ scan' = [scan EXCEPT ![w] = Idle]
    /\ job' = IF scan[w].job = 0 \/ status = "dead" THEN job
              ELSE [job EXCEPT ![scan[w].job].status = status]

Settle(w, status) ==
    /\ scan' = [scan EXCEPT ![w] = Idle]
    /\ job' = IF scan[w].job = 0 THEN job
              ELSE [job EXCEPT ![scan[w].job].status = status]

\* An infrastructure error: redeliver, or dead-letter the last delivery.
Retry(w) ==
    Settle(w, IF scan[w].job # 0 /\ job[scan[w].job].tries >= MaxDeliver
              THEN "dead" ELSE "queued")

-----------------------------------------------------------------------------
(* The executor: what one observation makes the scan write. *)

\* A hash that also covers the time of the probe.
SameHash_Timestamped(a, b) == FALSE

\* The upload is off or queued ("none"), or it keeps the body ("kept").
\* The raw reference is part of the hashed data, and names the snapshot:
\* two bodies that were both kept never hash alike.
SameHash(a, b) ==
    a.doc = b.doc /\ a.raw = b.raw /\ a.raw # "kept"

\* Equal content: confirm what was parked on it, drop the rest.
ConfirmPending(w, obs) ==
    LET mine == SetToSeq({k \in DOMAIN pending : k[1] = obs.doc.probe})
        Plan(k) == (IF SameHash(pending[k].after, obs)
                    THEN Submit(w, pending[k].change) ELSE <<>>)
                   \o Op("unpark", k)
    IN  Flatten([i \in DOMAIN mine |-> Plan(mine[i])])

\* Changed content: the snapshot first, then its diff against the stored
\* predecessor; a first observation has none and reports nothing.
StoreAndDiff(w, obs) ==
    LET pt == obs.doc.probe
        changes == Snapshots(latest[pt].doc, obs.doc, FALSE)
        Plan(c) == CASE c.silent -> <<>>
                     [] ~c.silent /\ c.type \in NeedsConfirm ->
                           Op("park", [change |-> c, after |-> obs, seen |-> 1])
                     [] OTHER -> Submit(w, c)
    IN  Op("latest", obs) \o Op("history", pt)
        \o (IF latest[pt].stored
            THEN Flatten([i \in DOMAIN changes |-> Plan(changes[i])])
            ELSE <<>>)

Reactivated == Change("asset.reactivated", "reactivated", SevLow)
Removed == Change("asset.removed", "removed", SevMedium)
ProbeFailing(pt) == Change("monitor.probe_failing", pt, SevLow)

\* handleFailure: after a day of failures report it; NXDOMAIN parks the asset.
FailurePlan(w, doc) ==
    LET row == scan[w].row
        long == row.failing = "long"
    IN  (IF row.failing = "no" THEN Op("failing", "recent") ELSE <<>>)
        \o Op("touch", doc.probe)
        \o (IF long THEN Submit(w, ProbeFailing(doc.probe)) ELSE <<>>)
        \o (IF long /\ doc.probe = "dns" /\ doc.outcome = "nxdomain"
               /\ row.state = "active"
            THEN Submit(w, Removed) \o Op("state", "paused") ELSE <<>>)

\* A success: the streak ends, a parked asset comes back.
SuccessPlan(w, obs) ==
    LET row == scan[w].row
        pt == obs.doc.probe
    IN  (IF row.failing # "no" THEN Op("failing", "no") ELSE <<>>)
        \o (IF row.state = "paused"
            THEN Op("state", "active") \o Submit(w, Reactivated) ELSE <<>>)
        \o (IF latest[pt] # NoSnapshot /\ SameHash(latest[pt], obs)
            THEN Op("touch", pt) \o ConfirmPending(w, obs)
            ELSE StoreAndDiff(w, obs))

\* The scan keeps its copy of the row in step with what it decided.
RowAfter(row, doc) ==
    IF doc.outcome = "ok"
    THEN [row EXCEPT !.failing = "no",
                     !.state = IF @ = "paused" THEN "active" ELSE @]
    ELSE [row EXCEPT !.failing = IF @ = "no" THEN "recent" ELSE @,
                     !.state = IF /\ @ = "active" /\ row.failing = "long"
                                  /\ doc.probe = "dns"
                                  /\ doc.outcome = "nxdomain"
                               THEN "paused" ELSE @]

\* ScanAsset, one probe: skip it when it is not due; ask the guard; probe;
\* processObservation reads the latest snapshot and decides.
Probe(w) ==
    /\ scan[w].stage = "probe" /\ scan[w].ops = <<>> /\ scan[w].todo # <<>>
    /\ LET pt == Head(scan[w].todo)
           rest == Tail(scan[w].todo)
           due == scan[w].react \/ pt \notin fresh
           ok == scan[w].token \in alive /\ Covers(scan[w].token)
       IN  \/ /\ ~due
              /\ scan' = [scan EXCEPT ![w].todo = rest]
              /\ UNCHANGED <<job, owed, pending>>
           \/ /\ due /\ ~ok
              /\ Settle(w, "dead")
              /\ UNCHANGED <<owed, pending>>
           \/ /\ due /\ ok
              /\ \E doc \in Observed(pt), raw \in Raw :
                    LET obs == [doc |-> doc,
                                raw |-> IF pt = "http" THEN raw ELSE "none"]
                        ops == IF doc.outcome = "ok" THEN SuccessPlan(w, obs)
                                                    ELSE FailurePlan(w, doc)
                    IN  /\ scan' = [scan EXCEPT
                              ![w].todo = rest, ![w].ops = ops,
                              ![w].row = RowAfter(@, doc)]
                        /\ owed' = owed \cup Reports(ops)
                        /\ pending' = [k \in DOMAIN pending |->
                              IF doc = pending[k].after.doc
                                 /\ doc = latest[pt].doc
                              THEN [pending[k] EXCEPT !.seen = 2]
                              ELSE pending[k]]
              /\ UNCHANGED job
    /\ UNCHANGED <<watch, known, fresh, latest, sticky, streamVars, coordVars,
                   envVars, faults>>

\* evaluateRules: the sticky state is written before the event is submitted.
BaselineIds == {b.id : b \in baseline}
RequiresHSTS ==
    \E b \in baseline : /\ b.type = "http_header" /\ b.present
                         /\ b.header = "strict-transport-security"

\* latestDocuments: the ports probe is not among them.
Documented == {pt \in DOMAIN latest \cap {"dns", "tls", "http"} :
                  latest[pt].stored}
RulesInput == InputFromSnapshots([pt \in Documented |-> latest[pt].doc])

\* runBaselineSet: the rule of an asset replaces the one captured before.
BaselineSet ==
    /\ "baseline" \in Operator
    /\ Documented # {}
    /\ baseline' = {b \in baseline : b.type # "captured"}
                     \cup {CaptureBaseline(RulesInput)}
    /\ UNCHANGED <<storeVars, streamVars, coordVars, world, inScope, listed,
                   day, rescans, muted, job, scan, faults, owed>>

RuleOps(w, id, opens, sev) ==
    LET type == IF id \in BaselineIds
                THEN IF opens THEN "baseline.drift" ELSE "baseline.drift_resolved"
                ELSE IF opens THEN "exposure.opened" ELSE "exposure.closed"
    IN  Op(IF opens THEN "open" ELSE "close", id)
        \o Submit(w, Change(type, id, sev))

EvaluateRules(w) ==
    /\ scan[w].stage = "probe" /\ scan[w].ops = <<>> /\ scan[w].todo = <<>>
    /\ LET in == RulesInput
           hits == EvaluateExposure(in, FALSE, RequiresHSTS)
           sev == [id \in {r.id : r \in hits} |->
                      (CHOOSE r \in hits : r.id = id).sev]
           drifted == {b.id : b \in {b \in baseline : EvaluateBaseline(b, in)}}
           \* nothing is evaluated before the first snapshot
           now == IF Documented = {} THEN sticky ELSE DOMAIN sev \cup drifted
           Toggle(ids) == LET s == SetToSeq(ids) IN Flatten(
               [i \in DOMAIN s |-> RuleOps(w, s[i], s[i] \in now,
                   CASE s[i] \in BaselineIds -> SevMedium
                     [] s[i] \in DOMAIN sev -> sev[s[i]]
                     [] OTHER -> SevInfo)])
           flips == (now \ sticky) \cup (sticky \ now)
           ops == Toggle(BaselineIds \cap flips)
                  \o Toggle((now \ sticky) \ BaselineIds)
                  \o Toggle((sticky \ now) \ BaselineIds)
                  \o (IF scan[w].react THEN <<>>
                      ELSE Op("reschedule", scan[w].row.state))
       IN  /\ scan' = [scan EXCEPT ![w].stage = "finish", ![w].ops = ops]
           /\ owed' = owed \cup Reports(ops)
    /\ UNCHANGED <<storeVars, streamVars, coordVars, envVars, job, faults>>

Finish(w) ==
    /\ scan[w].stage = "finish" /\ scan[w].ops = <<>>
    /\ Settle(w, "done")
    /\ UNCHANGED <<storeVars, streamVars, coordVars, envVars, faults, owed>>

-----------------------------------------------------------------------------
(* The statements of a scan, one at a time. *)

StreamOps == {"dedup", "gate", "event", "outbox", "candidate"}

Rest(w) == scan' = [scan EXCEPT ![w].ops = Tail(@)]

Written(row, o) ==
    CASE o[1] = "state"      -> [row EXCEPT !.state = o[2]]
      [] o[1] = "failing"    -> [row EXCEPT !.failing = o[2]]
      [] o[1] = "reschedule" -> [row EXCEPT !.due = FALSE]
      [] o[1] = "upsert"     -> Upserted
      [] OTHER               -> row

LatestAfter(w, o) ==
    CASE o[1] = "latest" ->
            [latest EXCEPT ![o[2].doc.probe] =
                [doc |-> o[2].doc, raw |-> o[2].raw, by |-> w,
                 stored |-> FALSE]]
      [] o[1] = "history" /\ latest[o[2]].by = w ->
            [latest EXCEPT ![o[2]].stored = TRUE]
      [] OTHER -> latest

StoreWrite(w) ==
    LET o == Head(scan[w].ops)
    IN  /\ o[1] \notin StreamOps
        /\ watch' = Written(watch, o)
        /\ known' = (known \/ o[1] = "known")
        /\ fresh' = CASE o[1] = "touch" /\ latest[o[2]] # NoSnapshot ->
                            fresh \cup {o[2]}
                      [] o[1] = "latest" -> fresh \cup {o[2].doc.probe}
                      [] OTHER -> fresh
        /\ latest' = LatestAfter(w, o)
        /\ pending' = CASE o[1] = "park" ->
                              Put(pending, <<o[2].after.doc.probe,
                                             o[2].change.key>>, o[2])
                        [] o[1] = "unpark" ->
                              Restrict(pending, DOMAIN pending \ {o[2]})
                        [] OTHER -> pending
        /\ sticky' = CASE o[1] = "open"  -> sticky \cup {o[2]}
                       [] o[1] = "close" -> sticky \ {o[2]}
                       [] OTHER -> sticky
        /\ UNCHANGED streamVars

\* Submit: the dedup window is claimed first and on its own; then the row
\* and, unless a suppression or the cap gates it, its bus messages.
Alertable(c) ==
    /\ c.type \in {"dns.dangling_cname", "tls.cert_expired",
                   "tls.protocol_downgrade", "tls.hostname_mismatch",
                   "baseline.drift", "exposure.opened", "exposure.closed"}
    /\ c.sev >= SevMedium

Candidate == <<<<"candidate", "">>, 0>>

EventCount == Cardinality({e \in DOMAIN events : e[2] = day})

\* A window looked up among the stored events, not claimed.
Duplicate_Stored(fp) == <<fp, day>> \in DOMAIN events

\* A window that never ends.
Duplicate_Ever(fp) ==
    fp \in dedup \/ \E e \in DOMAIN events : e[1] = fp

\* DedupCheckInsert claims the window and tells in one statement.
Duplicate(fp) == fp \in dedup

\* The gate: a suppression, then the count of the hour's events, read before
\* the event is stored.
Gate == CASE muted -> "suppressed"
          [] ~muted /\ EventCount >= Cap -> "capped"
          [] OTHER -> "emitted"

\* What the relay still has to publish of event e.
Messages(e, c) ==
    {<<e, "changes">>} \cup (IF Alertable(c) THEN {<<e, "alert">>} ELSE {})
Queued(M) == [m \in DOMAIN outbox \cup M |->
                 IF m \in DOMAIN outbox THEN outbox[m] ELSE "pending"]

StreamWrite(w) ==
    LET o == Head(scan[w].ops)
        e == <<Fp(o[2].change), o[2].day>>
        Then(name, ev) ==
            scan' = [scan EXCEPT ![w].ops = <<<<name, ev>>>> \o Tail(@)]
    IN  \/ /\ o[1] = "dedup"
           /\ \/ /\ Duplicate(e[1])
                 /\ Rest(w)
                 /\ UNCHANGED dedup
              \/ /\ ~Duplicate(e[1])
                 /\ dedup' = dedup \cup {e[1]}
                 /\ Then("gate", [o[2] EXCEPT !.day = day])
           /\ UNCHANGED <<events, outbox, burst>>
        \/ /\ o[1] = "gate"
           /\ Then("event", [o[2] EXCEPT !.gate = Gate])
           /\ UNCHANGED <<dedup, events, outbox, burst>>
        \/ /\ o[1] = "event"
           /\ events' = Put(events, e, IF e \in DOMAIN events THEN events[e] + 1
                                       ELSE 1)
           /\ burst' = IF o[2].gate = "capped" THEN 1 ELSE burst
           /\ IF o[2].gate = "emitted" THEN Then("outbox", o[2]) ELSE Rest(w)
           /\ UNCHANGED <<dedup, outbox>>
        \/ /\ o[1] = "candidate"
           /\ events' = Put(events, Candidate, 1)
           /\ outbox' = Queued({<<Candidate, "assets.new">>})
           /\ Rest(w)
           /\ UNCHANGED <<dedup, burst>>
        \/ /\ o[1] = "outbox"
           /\ outbox' = Queued(Messages(e, o[2].change))
           /\ Rest(w)
           /\ UNCHANGED <<dedup, events, burst>>

DoOp(w) ==
    /\ scan[w].stage # "idle" /\ scan[w].ops # <<>>
    /\ \/ /\ StoreWrite(w) /\ Rest(w)
       \/ /\ StreamWrite(w) /\ UNCHANGED storeVars
    /\ UNCHANGED <<coordVars, envVars, job, faults, owed>>

-----------------------------------------------------------------------------
(* What goes wrong. *)

\* emitSimpleAt drops an error of Submit and the scan goes on; any other
\* failed statement ends the scan.
StoreFails(w) ==
    /\ Fault("store")
    /\ scan[w].stage # "idle" /\ scan[w].ops # <<>>
    /\ IF Head(scan[w].ops)[1] \in {"dedup", "gate", "event", "outbox"}
       THEN Rest(w) /\ UNCHANGED job
       ELSE Retry(w)
    /\ UNCHANGED <<storeVars, streamVars, coordVars, envVars, owed>>

\* The acknowledgement window passes while the worker is still at it.
AckWait(j) ==
    /\ Fault("slow")
    /\ job[j].status = "running"
    /\ job' = [job EXCEPT ![j].status = "queued"]
    /\ UNCHANGED <<storeVars, streamVars, coordVars, envVars, scan, owed>>

\* The process restarts: the workers and the burst aggregate are gone, their
\* jobs come back, and the commander re-issues the watch with a new token.
Crash ==
    /\ Fault("crash")
    /\ scan' = [w \in Worker |-> Idle]
    /\ burst' = 0
    /\ job' = [j \in Job |-> IF job[j].status = "running"
                             THEN [job[j] EXCEPT !.status = "queued"]
                             ELSE job[j]]
    /\ UNCHANGED <<storeVars, dedup, events, outbox, coordVars, envVars,
                   owed>>

-----------------------------------------------------------------------------
(* The relay and the world. *)

\* Relay: publish every pending row, then mark it; a relay that stops between
\* the two publishes again, under the same message id.
Relay ==
    /\ \E m \in DOMAIN outbox : outbox[m] = "pending"
    /\ outbox' = [m \in DOMAIN outbox |-> "published"]
    /\ UNCHANGED <<storeVars, dedup, events, burst, coordVars, envVars,
                   job, scan, faults, owed>>

NextDay ==
    /\ day < Days
    /\ day' = day + 1
    /\ dedup' = {}
    /\ fresh' = {}
    /\ watch' = [watch EXCEPT !.due = TRUE,
                              !.failing = IF @ = "recent" THEN "long" ELSE @]
    /\ UNCHANGED <<known, latest, pending, sticky, events, outbox, burst,
                   coordVars, world, inScope, listed, rescans, muted, baseline, job,
                   scan, faults, owed>>

NarrowScope ==
    /\ "narrow" \in Operator
    /\ inScope /\ inScope' = FALSE
    /\ UNCHANGED <<storeVars, streamVars, coordVars, world, listed, day, rescans,
                   muted, baseline, job, scan, faults, owed>>

Mute ==
    /\ "mute" \in Operator
    /\ ~muted /\ muted' = TRUE
    /\ UNCHANGED <<storeVars, streamVars, coordVars, world, inScope, listed, day,
                   rescans, baseline, job, scan, faults, owed>>

Next ==
    \/ SyncWatchSet
    \/ \E j \in Job : PublishDueJob(j)
    \/ Refresh \/ RefreshDenied \/ RefreshTooLate \/ TokenExpires
    \/ FlushBursts
    \/ \E w \in Worker, j \in Job : Handle(w, j)
    \/ \E w \in Worker :
          \/ Rescan(w) \/ PassiveSweep(w) \/ PollFeed(w)
          \/ Probe(w) \/ EvaluateRules(w) \/ DoOp(w) \/ Finish(w)
          \/ StoreFails(w)
    \/ \E j \in Job : AckWait(j)
    \/ Crash
    \/ Relay
    \/ NextDay \/ NarrowScope \/ Mute \/ BaselineSet

Spec == Init /\ [][Next]_vars

\* The coordinator's ticks, the relay and the workers keep running; what the
\* operators, the clock and the faults do is not fair.
Work(w) ==
    (\E j \in Job : Handle(w, j)) \/ Probe(w) \/ EvaluateRules(w) \/ DoOp(w)
        \/ Finish(w)

\* Fairness is stated in the worlds a run asks about liveness.
FairSpec ==
    /\ Spec
    /\ WF_vars(world.lively /\ SyncWatchSet) /\ WF_vars(world.lively /\ Relay)
    /\ \A w \in Worker : WF_vars(world.lively /\ Work(w))

-----------------------------------------------------------------------------
Quiet == \A w \in Worker : scan[w] = Idle

\* One 24 h window, one event: however many scans of the asset overlap, a
\* fingerprint gets at most one change_events row per dedup window.
OneEventPerWindow == \A e \in DOMAIN events : events[e] <= 1

\* Nothing a scan decided to report is lost while no fault happens: once the
\* workers rest, its event is stored, possibly under a later day.
NothingLost ==
    Quiet /\ faults = 0 =>
        \A o \in owed : \E e \in DOMAIN events : e[1] = o[1] /\ e[2] >= o[2]

\* executor.go, confirmPending: where no bodies are kept, a parked transition
\* is emitted once its new state persisted to a second consecutive probe.
ConfirmedIsEmitted ==
    Quiet /\ faults = 0 /\ "kept" \notin Raw =>
        \A k \in DOMAIN pending : pending[k].seen # 2

\* Once the coordinator holds a token of the narrowed scope, the asset leaves
\* the watch set for good, whatever the scans still in flight write.
PurgeConverges ==
    <>[](current \in narrowed) => <>[](watch.state # "active")

\* Where nothing fails, every queued job is scanned or dead-lettered.
JobsSettle ==
    [](faults = 0) =>
        \A j \in Job : job[j].status = "queued" ~>
                         job[j].status \in {"done", "dead"}

\* Both: the watch set converges and no queued job is forgotten.
EverythingSettles == world.lively => PurgeConverges /\ JobsSettle

=============================================================================
