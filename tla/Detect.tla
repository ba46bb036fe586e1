-------------------------------- MODULE Detect --------------------------------
(***************************************************************************)
(* The detect service: a coordinator, which is the module of a Go SDK      *)
(* agent, plans a scan into jobs, workers run the scanners on them, and    *)
(* the coordinator validates, scores and publishes each candidate they     *)
(* report.  Coordinator, workers and agent share a process; jobs and       *)
(* reports travel over NATS.                                               *)
(*                                                                         *)
(* A task's scan is one call of Coordinator.Run in an execution of the     *)
(* agent.  A job is <<x, i>>, the i-th of execution x: job ids are fresh   *)
(* in every run, while reports name only the task.                         *)
(***************************************************************************)
EXTENDS Agent, DetectPlan, DetectSites

\* The sandbox has an out-of-band service, or has none; a task has finitely
\* many targets.
ASSUME Sandboxes == \A w \in Scenario : w.oob \in BOOLEAN
ASSUME Targets == \A w \in Scenario : \A t \in w.tasks : IsFiniteSet(w.assignment[t].targets)

VARIABLES
    scan,       \* execution -> its run of the coordinator
    coordinator,\* Coordinator.running: task -> execution
    queue,      \* JetStream detect.jobs: job -> its message
    known,      \* detect.fingerprints: fingerprint -> finding id
    findings,   \* what detect.findings carries
    alerts,     \* what detect.alert carries
    rows        \* detect.findings_fallback: finding id -> row

detectVars == <<scan, coordinator, queue, known, findings, alerts, rows>>
stores == <<known, findings, alerts, rows>>
vars == <<agentVars, detectVars>>
\* The variables of the agent, without the count of faults.
agentButFaults == <<world, inbox, sent, exec, running, cache, lapsed, applying,
                    heard, killed, aborting, results>>

\* The function f with v at k.
Put(f, k, v) == [i \in DOMAIN f \cup {k} |-> IF i = k THEN v ELSE f[i]]

MaxDeliver == 3
JobIds == Exec \X (1 .. 2)      \* at most two jobs for a task

NoCand == [step |-> "none"]
\* heardRaws and sentRaws count, for the properties, the reports that a run
\* has processed and those that its jobs have published.
Begun(stage, todo, jobs, err) ==
    [stage |-> stage, todo |-> todo, i |-> 1, jobs |-> jobs, mail |-> <<>>,
     done |-> 0, failed |-> 0, seen |-> {}, cand |-> NoCand, aborted |-> FALSE,
     err |-> err, heardRaws |-> 0, sentRaws |-> 0]
NoScan == Begun("idle", <<>>, <<>>, None)

Init ==
    /\ AgentInit
    /\ scan = [x \in Exec |-> NoScan]
    /\ coordinator = [t \in Task |-> Nobody]
    /\ queue = <<>> /\ known = <<>>
    /\ findings = {} /\ alerts = {} /\ rows = <<>>

MayFail(f) == Fault(f) \/ UNCHANGED faults
Params(t) == ParseParams(Assignment(t).capability, Assignment(t).given).params
\* The context of a run: the agent's, or the cancel of Coordinator.Abort.
Cancelled(x) == Ctx(x) # "live" \/ scan[x].aborted

-----------------------------------------------------------------------------
\* process, from the validator to the evidence: the verdicts of a candidate
\* and whether its proof of concept ran.  Testing credentials needs
\* safe_mode off; the sandbox replaces the verdict, CONFIRMED ones included;
\* and CONFIRMED needs something stored.
Judgements(raw, params, flawed) ==
    LET own == IF raw.class = "default_creds" /\ params.safe THEN {INCONCLUSIVE}
               ELSE Validate(raw.class, flawed, world.oob)
        proofs(v) == IF world.evs /\ ShouldVerify(raw.severity, v, params.verify)
                     THEN EvsResults(raw.class, flawed, world.oob) ELSE {"keep"}
        With(v, p) == [verdict |-> IF p = "keep" THEN v ELSE p, verified |-> p = CONFIRMED]
        Stored(j) == IF j.verdict = CONFIRMED /\ ~world.evidence
                     THEN [j EXCEPT !.verdict = INCONCLUSIVE] ELSE j
    IN  UNION {{Stored(With(v, p)) : p \in proofs(v)} : v \in own}

-----------------------------------------------------------------------------
(* Coordinator.Run. *)

\* Coordinator.Plan, the agent's plan gate.
PlanOk(t) ==
    LET as == Assignment(t)
    IN  /\ as.capability \in Capabilities
        /\ as.risk <= RiskOf(as.capability)
        /\ as.capability = Revalidate \/ as.targets # {}
        /\ ParseParams(as.capability, as.given).ok

\* Task.AuthorizeTarget: without a guard nothing may be contacted.
AuthorizeTarget(x, target) ==
    IF Assignment(TaskOf(x)).risk = 0 THEN "denied" ELSE GuardCheck(x, target.host)

\* runScan's plan; the plan of another capability is the list it goes through.
Entered(x) ==
    LET as == Assignment(TaskOf(x))
        params == Params(TaskOf(x))
        plan == ScanPlan(as.capability, as.targets, params, as.token.maxRPS)
    IN CASE as.capability \in Scans ->
              IF plan.ok THEN Begun("exchange", <<>>, plan.jobs, None)
                         ELSE Begun("return", <<>>, <<>>, "plan")
         [] as.capability = Revalidate ->
              IF world.fallback THEN Begun("revalidate", params.fingerprints, <<>>, None)
                                ELSE Begun("return", <<>>, <<>>, "store")
         [] OTHER -> Begun("enrich", InOrder(as.targets), <<>>, None)

\* Run: the run is registered and every target passes the guard.
Run(x) ==
    /\ exec[x].stage = "running" /\ scan[x] = NoScan
    /\ coordinator' = [coordinator EXCEPT ![TaskOf(x)] = x]
    /\ LET refusals == {AuthorizeTarget(x, t) : t \in Assignment(TaskOf(x)).targets} \ {None}
       IN  \/ refusals = {} /\ scan' = [scan EXCEPT ![x] = Entered(x)]
           \/ \E err \in refusals :
                scan' = [scan EXCEPT ![x] = Begun("return", <<>>, <<>>, err)]
    /\ UNCHANGED <<agentVars, queue, stores>>

Ends(x, err) == scan' = [scan EXCEPT ![x].stage = "return", ![x].err = err]

\* The deferred cleanup and the agent's verdict on the error.
Finish(x) ==
    /\ scan[x].stage = "return"
    /\ Return(x, scan[x].err)
    /\ scan' = [scan EXCEPT ![x].stage = "over"]
    /\ coordinator' = [coordinator EXCEPT ![TaskOf(x)] = Nobody]
    /\ UNCHANGED <<queue, stores>>

\* Abort: every run of the coordinator, whatever task was halted, and every
\* scanner's process.
Abort ==
    /\ aborting
    /\ aborting' = FALSE
    /\ scan' = [x \in Exec |->
                  IF x \in {coordinator[t] : t \in Task} THEN [scan[x] EXCEPT !.aborted = TRUE]
                                                         ELSE scan[x]]
    /\ queue' = [j \in DOMAIN queue |->
                   IF queue[j].status = "running" /\ queue[j].cut = None
                   THEN [queue[j] EXCEPT !.cut = "abort"] ELSE queue[j]]
    /\ UNCHANGED <<world, inbox, sent, exec, running, cache, lapsed, applying, heard,
                   killed, results, faults, coordinator, stores>>

-----------------------------------------------------------------------------
(* runScan. *)

\* ExchangeForJobs: held while gatekeeper is unreachable, until the context
\* ends; a denial fails the task.  Then the run subscribes.
Exchange(x) ==
    /\ scan[x].stage = "exchange"
    /\ \/ Cancelled(x) /\ Ends(x, "context") /\ UNCHANGED faults
       \/ /\ ~Cancelled(x) /\ "unreachable" \notin world.faults
          /\ \/ Fault("denied") /\ Ends(x, "exchange")
             \/ scan' = [scan EXCEPT ![x].stage = "dispatch"] /\ UNCHANGED faults
    /\ UNCHANGED <<agentButFaults, coordinator, queue, stores>>

\* The subscription filters by the task alone.
Subscribed_Late(x) == scan[x].stage = "aggregate"
Subscribed(x) == scan[x].stage \in {"dispatch", "aggregate"}
Hears(x, task) == TaskOf(x) = task
Mailed(x, j, message) ==
    IF scan[x].stage \in {"idle", "over"} THEN scan[x]
    ELSE [scan[x] EXCEPT
            !.mail = IF Subscribed(x) /\ Hears(x, queue[j].task)
                     THEN Append(@, message) ELSE @,
            !.sentRaws = IF x = j[1] /\ message.kind = "raw" THEN @ + 1 ELSE @]
Report(j, message) == scan' = [x \in Exec |-> Mailed(x, j, message)]

\* One job's message; an error ends the run and leaves the jobs before it.
DispatchJob(x) ==
    /\ scan[x].stage = "dispatch"
    /\ LET i == scan[x].i
           more == i < Len(scan[x].jobs)
           message == [task |-> TaskOf(x), job |-> scan[x].jobs[i], status |-> "queued",
                       tries |-> 0, pos |-> 0, cut |-> None]
       IN  \/ /\ ~Cancelled(x)
              /\ queue' = Put(queue, <<x, i>>, message)
              /\ scan' = [scan EXCEPT ![x].i = @ + 1,
                                      ![x].stage = IF more THEN @ ELSE "aggregate"]
              /\ UNCHANGED faults
           \/ /\ IF Cancelled(x) THEN UNCHANGED faults ELSE Fault("dispatch")
              /\ Ends(x, IF Cancelled(x) THEN "context" ELSE "dispatch")
              /\ UNCHANGED queue
    /\ UNCHANGED <<agentButFaults, coordinator, stores>>

Idle(x) == scan[x].cand = NoCand
Aggregating(x) == scan[x].stage = "aggregate" /\ Idle(x)
AllDone(x) == scan[x].done >= Len(scan[x].jobs)

\* The loop ends when as many jobs are done as were planned, or with the
\* context, whatever is in the mailbox.
EndsWithContext_Never(x) == FALSE
EndsWithContext(x) == Cancelled(x)
Aggregate(x) ==
    /\ Aggregating(x)
    /\ \/ AllDone(x) /\ Ends(x, IF scan[x].failed = Len(scan[x].jobs) THEN "jobs" ELSE None)
       \/ ~AllDone(x) /\ EndsWithContext(x) /\ Ends(x, "context")
    /\ UNCHANGED <<agentVars, coordinator, queue, stores>>

\* A done counts whichever job it names.
CountDone(x) ==
    /\ Aggregating(x) /\ ~AllDone(x)
    /\ scan[x].mail # <<>> /\ Head(scan[x].mail).kind = "done"
    /\ scan' = [scan EXCEPT ![x].mail = Tail(@), ![x].done = @ + 1,
                  ![x].failed = IF Head(scan[x].mail).status = "SUCCEEDED" THEN @ ELSE @ + 1]
    /\ UNCHANGED <<agentVars, coordinator, queue, stores>>

-----------------------------------------------------------------------------
(* process, step by step.  A candidate that is dropped is processed. *)

Dropped(record) == [record EXCEPT !.cand = NoCand, !.heardRaws = @ + 1]
Drop(x) == scan' = [scan EXCEPT ![x] = Dropped(scan[x])]

\* Suppression, fingerprint, Dedup.Merge up to its lookup.  A suppression
\* lookup that fails suppresses nothing, any other drops the candidate.
Triage(x, record, raw) ==
    LET fp == Fingerprint(Assignment(TaskOf(x)).mission, raw)
        id == IF fp \in DOMAIN known THEN known[fp] ELSE <<x, Cardinality(record.seen)>>
        kept == [record EXCEPT !.cand = [step |-> "record", raw |-> raw, fp |-> fp, id |-> id]]
        suppressed == <<raw.check, raw.class>> \in world.suppressed
    IN  \/ /\ IF suppressed THEN UNCHANGED faults ELSE Fault("lookup")
           /\ scan' = [scan EXCEPT ![x] = Dropped(record)]
        \/ /\ IF suppressed THEN Fault("suppression") ELSE UNCHANGED faults
           /\ scan' = [scan EXCEPT ![x] = IF fp \in record.seen THEN Dropped(record) ELSE kept]

TakeRaw(x) ==
    /\ Aggregating(x) /\ ~AllDone(x)
    /\ scan[x].mail # <<>> /\ Head(scan[x].mail).kind = "raw"
    /\ Triage(x, [scan[x] EXCEPT !.mail = Tail(@)], Head(scan[x].mail).raw)
    /\ UNCHANGED <<agentButFaults, coordinator, queue, stores>>

\* Record keeps the id of the first who recorded; this run keeps its own.
Record(x) ==
    /\ scan[x].cand.step = "record"
    /\ \/ /\ known' = IF scan[x].cand.fp \in DOMAIN known THEN known
                       ELSE Put(known, scan[x].cand.fp, scan[x].cand.id)
          /\ scan' = [scan EXCEPT ![x].cand.step = "judge", ![x].seen = @ \cup {scan[x].cand.fp}]
          /\ UNCHANGED faults
       \/ Fault("lookup") /\ Drop(x) /\ UNCHANGED known
    /\ UNCHANGED <<agentButFaults, coordinator, queue, findings, alerts, rows>>

\* The score of a judged candidate.
Score(raw, j) ==
    LET intel == IF raw.cve = "" THEN [kev |-> FALSE, epss |-> 0] ELSE world.intel
    IN  ScoreFactors(CapSeverity(raw.severity, j.verdict, raw.class), intel,
                     world.place, j.verified, j.verdict)

\* Validators, sandbox, evidence and score, all on the context: a run that is
\* cancelled publishes nothing any more.
Judge(x) ==
    /\ scan[x].cand.step = "judge"
    /\ LET raw == scan[x].cand.raw
           flawed == <<raw.target.n, raw.class>> \in world.flawed
       IN  IF Cancelled(x) THEN Drop(x)
           ELSE \E j \in Judgements(raw, Params(TaskOf(x)), flawed) :
                  scan' = [scan EXCEPT ![x].cand =
                             [step |-> "publish", raw |-> raw, fp |-> @.fp, id |-> @.id,
                              verdict |-> j.verdict, score |-> Score(raw, j)]]
    /\ UNCHANGED <<agentVars, coordinator, queue, stores>>

\* detect.findings; a failure ends the processing.
Publish(x) ==
    /\ scan[x].cand.step = "publish"
    /\ \/ /\ ~Cancelled(x)
          /\ LET c == scan[x].cand
             IN  findings' = findings \cup
                   {[id |-> c.id, fp |-> c.fp, task |-> TaskOf(x), verdict |-> c.verdict]}
          /\ scan' = [scan EXCEPT ![x].cand.step = "alert"]
          /\ UNCHANGED faults
       \/ /\ IF Cancelled(x) THEN UNCHANGED faults ELSE Fault("publish")
          /\ Drop(x) /\ UNCHANGED findings
    /\ UNCHANGED <<agentButFaults, coordinator, queue, known, alerts, rows>>

\* detect.alert for a confirmed finding of tier 2 or better, under a token;
\* an error is logged.
Alerts(x) ==
    LET c == scan[x].cand
    IN  ShouldAlert(c.verdict, c.score, 2) /\ Assignment(TaskOf(x)).risk > 0
Alert(x) ==
    /\ scan[x].cand.step = "alert"
    /\ \/ /\ alerts' = IF Alerts(x) /\ ~Cancelled(x)
                       THEN alerts \cup {[id |-> scan[x].cand.id, target |-> scan[x].cand.raw.target.n,
                                          class |-> scan[x].cand.raw.class]}
                       ELSE alerts
          /\ UNCHANGED faults
       \/ Alerts(x) /\ Fault("alert") /\ UNCHANGED alerts
    /\ scan' = [scan EXCEPT ![x].cand.step = "sink"]
    /\ UNCHANGED <<agentButFaults, coordinator, queue, known, findings, rows>>

\* UpsertFinding: the row of the id, whose vuln_class is the name of the
\* adapter.  The other sink is the data platform's.
Row(c) == [fp |-> c.fp, state |-> StateString(c.verdict), class |-> c.raw.adapter,
           check |-> c.raw.check, target |-> c.raw.target]
Sink(x) ==
    /\ scan[x].cand.step = "sink"
    /\ LET c == scan[x].cand
       IN  \/ /\ ~Cancelled(x) /\ world.fallback
              /\ rows' = IF c.id \in DOMAIN rows
                         THEN [rows EXCEPT ![c.id].state = Row(c).state]
                         ELSE Put(rows, c.id, Row(c))
              /\ UNCHANGED faults
           \/ /\ IF Cancelled(x) \/ ~world.fallback THEN UNCHANGED faults ELSE Fault("sink")
              /\ UNCHANGED rows
    /\ Drop(x)
    /\ UNCHANGED <<agentButFaults, coordinator, queue, known, findings, alerts>>

-----------------------------------------------------------------------------
(* The other capabilities. *)

\* runEnrich: the next target, checked again and processed as a candidate.
EnrichRaw(target) ==
    [target |-> target, adapter |-> "custom", check |-> "enrich.fingerprint",
     class |-> "exposure", severity |-> "informational", cve |-> "", at |-> target.at]
Enrichment(x) ==
    /\ scan[x].stage = "enrich" /\ Idle(x)
    /\ LET left == scan[x].todo
           refusal == AuthorizeTarget(x, Head(left))
       IN  IF left = <<>> \/ Cancelled(x) \/ refusal # None
           THEN /\ Ends(x, IF left = <<>> THEN None
                           ELSE IF Cancelled(x) THEN "context" ELSE refusal)
                /\ UNCHANGED faults
           ELSE Triage(x, [scan[x] EXCEPT !.todo = Tail(@)], EnrichRaw(Head(left)))
    /\ UNCHANGED <<agentButFaults, coordinator, queue, stores>>

\* runRevalidate: a stored finding is validated again and its state follows
\* the verdict; one that is not found, not authorized or ambiguous is passed.
Reaction == [v \in {NOT_REPRODUCIBLE, CONFIRMED} |->
               IF v = CONFIRMED THEN "reopened" ELSE "verified_closed"]
RowsOf(fp) == {id \in DOMAIN rows : rows[id].fp = fp}
Transitions(id) ==
    \E v \in Validate(rows[id].class, <<rows[id].target.n, rows[id].class>> \in world.flawed,
                      world.oob) :
        rows' = IF v \in DOMAIN Reaction
                THEN [rows EXCEPT ![id].state = Reaction[v]] ELSE rows
Revalidation(x) ==
    /\ scan[x].stage = "revalidate"
    /\ LET left == scan[x].todo
           fp == Head(left)
           passed == scan' = [scan EXCEPT ![x].todo = Tail(@)]
       IN  IF left = <<>> \/ Cancelled(x)
           THEN /\ Ends(x, IF left = <<>> THEN None ELSE "context")
                /\ UNCHANGED rows
           ELSE /\ passed
                /\ IF RowsOf(fp) = {} THEN UNCHANGED rows
                   ELSE \E id \in RowsOf(fp) :
                          IF AuthorizeTarget(x, rows[id].target) # None
                          THEN UNCHANGED rows ELSE Transitions(id)
    /\ UNCHANGED <<agentVars, coordinator, queue, known, findings, alerts>>

-----------------------------------------------------------------------------
(* The workers. *)

Output(j) == ScannerOutput(queue[j].job, world.hits[queue[j].job.target.n])
Refuses(job) == IF job.adapter = "nuclei" THEN NucleiRefuses(job) ELSE NmapRefuses(job)
Set(j, message) == [queue EXCEPT ![j] = message]
Without(j) == [k \in DOMAIN queue \ {j} |-> queue[k]]
RawMessage(j) == [kind |-> "raw", raw |-> Output(j).raws[queue[j].pos + 1]]
DoneMessage(status) == [kind |-> "done", status |-> status]

\* handle: a free slot takes the message; a refusal is reported and settled.
TakeJob(j) ==
    /\ j \in DOMAIN queue /\ queue[j].status = "queued"
    /\ queue[j].tries < MaxDeliver
    /\ Cardinality({k \in DOMAIN queue : queue[k].status = "running"
                                         /\ queue[k].job.adapter = queue[j].job.adapter})
         < world.slots
    /\ IF Refuses(queue[j].job)
       THEN /\ Report(j, DoneMessage("FAILED")) /\ queue' = Without(j)
       ELSE /\ queue' = Set(j, [queue[j] EXCEPT !.status = "running", !.tries = @ + 1,
                                                !.pos = 0, !.cut = None])
            /\ UNCHANGED scan
    /\ UNCHANGED <<agentVars, coordinator, stores>>

\* The scanner's process dies, or the deadline of the job passes, which is
\* before that of its task.
Cut(j) ==
    /\ j \in DOMAIN queue /\ queue[j].status = "running" /\ queue[j].cut = None
    /\ \/ /\ Fault("scanner") /\ queue' = Set(j, [queue[j] EXCEPT !.cut = "abort"])
       \/ /\ Assignment(queue[j].task).deadline
          /\ queue' = Set(j, [queue[j] EXCEPT !.cut = "deadline"])
          /\ UNCHANGED faults
    /\ UNCHANGED <<agentButFaults, scan, coordinator, stores>>

\* A record of the output.  nuclei streams; nmap's output is read whole, so a
\* process that is cut short reports nothing.  A report that cannot be
\* published fails the job.
Streams(j) == queue[j].job.adapter = "nuclei"
CutShort(j) == queue[j].cut = "abort" /\ (Streams(j) \/ queue[j].pos = 0)
Emit(j) ==
    /\ j \in DOMAIN queue /\ queue[j].status = "running"
    /\ queue[j].pos < Len(Output(j).raws)
    /\ queue[j].cut \in {None, "abort"} /\ (CutShort(j) => Streams(j))
    /\ \/ /\ queue' = Set(j, [queue[j] EXCEPT !.pos = @ + 1])
          /\ Report(j, RawMessage(j))
          /\ UNCHANGED faults
       \/ /\ Fault("raw")
          /\ queue' = Set(j, [queue[j] EXCEPT !.cut = "error"])
          /\ UNCHANGED scan
    /\ UNCHANGED <<agentButFaults, coordinator, stores>>

\* How the run of a scanner can end: nuclei's exit status is not looked at, so
\* a process cut short is a success unless the deadline shows.
Statuses(j) ==
    LET cut == queue[j].cut
        complete == cut # "error" /\ queue[j].pos = Len(Output(j).raws)
        short == Output(j).exhausted
        succeeds == \/ cut = "deadline"
                    \/ complete /\ ~short
                    \/ CutShort(j) /\ Streams(j)
        fails == \/ cut \in {"deadline", "error"}
                 \/ complete /\ short
                 \/ CutShort(j) /\ ~Streams(j)
    IN  {s \in {"SUCCEEDED", "FAILED"} : IF s = "FAILED" THEN fails ELSE succeeds}

\* publishDone, whose failure is logged, and Ack, whose failure is not: the
\* message is then delivered again.
FinishJob(j) ==
    /\ j \in DOMAIN queue /\ queue[j].status = "running"
    /\ \E s \in Statuses(j) :
         \/ Report(j, DoneMessage(s)) /\ queue' = Without(j) /\ UNCHANGED faults
         \/ Fault("done") /\ UNCHANGED scan /\ queue' = Without(j)
         \/ Fault("ack") /\ Report(j, DoneMessage(s))
              /\ queue' = Set(j, [queue[j] EXCEPT !.status = "queued"])
    /\ UNCHANGED <<agentButFaults, coordinator, stores>>

-----------------------------------------------------------------------------
(* The process. *)

\* It stops: a running job is delivered again after its AckWait, unless the
\* stop was a clean one, in which the worker settled it unreported.
Crash ==
    /\ Fault("crash")
    /\ AgentCrash
    /\ scan' = [x \in Exec |-> IF scan[x].stage = "idle" THEN NoScan
                               ELSE Begun("over", <<>>, <<>>, None)]
    /\ coordinator' = [t \in Task |-> Nobody]
    /\ LET busy == {j \in DOMAIN queue : queue[j].status = "running"}
       IN  \/ queue' = [j \in DOMAIN queue |-> [queue[j] EXCEPT !.status = "queued"]]
           \/ busy # {} /\ queue' = [j \in DOMAIN queue \ busy |-> queue[j]]
    /\ UNCHANGED stores

AgentStep ==
    /\ \/ \E t \in Task : Redispatch(t)
       \/ \E x \in Exec, t \in Task : Dispatch(x, t)
       \/ \E x \in Exec : Planning(x, PlanOk(TaskOf(x)))
       \/ \E x \in Exec : Authorize(x)
       \/ \E x \in Exec : Start(x)
       \/ \E x \in Exec : ReportResult(x)
       \/ \E x \in Exec : Deadline(x)
       \/ \E x \in Exec : Reauthorize(x)
       \/ \E x \in Exec : TokenExpires(x)
       \/ \E r \in world.revocations : ApplyEvent(r)
       \/ HaltAndAck
       \/ \E r \in world.revocations : Lapse(r)
       \/ \E kill \in world.kills : HearKill(kill)
       \/ Heartbeat
       \/ \E x \in Exec : WatchHalt(x)
    /\ UNCHANGED detectVars
Processing(x) == Record(x) \/ Judge(x) \/ Publish(x) \/ Alert(x) \/ Sink(x)
Scanning(x) == Exchange(x) \/ DispatchJob(x) \/ Aggregate(x) \/ CountDone(x) \/ TakeRaw(x)
Coordinating(x) == Run(x) \/ Finish(x) \/ Scanning(x) \/ Processing(x)
                   \/ Enrichment(x) \/ Revalidation(x)
Working(j) == TakeJob(j) \/ Cut(j) \/ Emit(j) \/ FinishJob(j)
Next ==
    \/ AgentStep
    \/ Abort
    \/ Crash
    \/ \E x \in Exec : Coordinating(x)
    \/ \E j \in JobIds : Working(j)

\* An execution goes on, the timers of the agent run, and a worker takes a job
\* and finishes it.
Executes(x) ==
    world.lively /\ \/ (Planning(x, PlanOk(TaskOf(x))) \/ Authorize(x) \/ Start(x) \/ ReportResult(x)
                         \/ Deadline(x)) /\ UNCHANGED detectVars
                    \/ Coordinating(x)
Works(j) == world.lively /\ (TakeJob(j) \/ Emit(j) \/ FinishJob(j))
Spec == Init /\ [][Next]_vars /\ \A x \in Exec : WF_vars(Executes(x))
                              /\ \A j \in JobIds : WF_vars(Works(j))

-----------------------------------------------------------------------------
(* Properties. *)

\* Whatever the scanners report, and although replies are lost or slow, jobs
\* are delivered twice and the sandbox replaces verdicts, an alert names only
\* a target that has the flaw: process asks a validator before PublishAlert.
NoFalseAlarm == \A a \in alerts : <<a.target, a.class>> \in world.flawed

\* A scan that succeeded has processed every candidate its jobs published: it
\* subscribes before it dispatches, and a job's done follows its raws.  (It
\* counts dones whichever job they name, so a task that ran once, whose jobs
\* were delivered once.)
FinishedHeardAll ==
    \A x \in Exec :
        (exec[x] # NoExec /\ exec[x].stage = "ended" /\ exec[x].status = "SUCCEEDED"
           /\ sent[TaskOf(x)] = 1 /\ "ack" \notin world.faults)
        => scan[x].heardRaws >= scan[x].sentRaws

\* Once the handler of a revocation has returned, no execution that its RoE,
\* capability or everything covers goes on with a live context, also one that
\* was being authorized meanwhile: it is cancelled by haltMatching or refused
\* by the guard of its run.  (A task that was dispatched once: the table of
\* running tasks holds one execution for each.  A revalidation may have no
\* target to be refused for; it is refused for each finding.)
Covered(r, x) ==
    LET token == Assignment(TaskOf(x)).token
    IN  \/ r.scope = "global"
        \/ r.scope = "roe" /\ r.key = token.roe
        \/ r.scope = "capability" /\ r.key = Head(token.capabilities)
KillReaches ==
    \A x \in Exec : \A r \in heard \cap Live :
        (/\ exec[x] # NoExec /\ exec[x].stage = "running" /\ Assignment(TaskOf(x)).risk > 0
         /\ sent[TaskOf(x)] = 1
         /\ scan[x].stage \in {"exchange", "dispatch", "aggregate", "enrich"} /\ Covered(r, x))
        => Ctx(x) # "live"

\* Every execution that was started ends, also when a job or its report was
\* lost, gatekeeper is away, or another task's halt aborted it.
EverythingSettles ==
    \A x \in Exec : (world.lively /\ exec[x] # NoExec) ~> (exec[x] # NoExec /\ exec[x].stage = "over")
===============================================================================
