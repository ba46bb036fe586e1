------------------------------ MODULE Commander ------------------------------
(***************************************************************************)
(* The commander adapters cai, hexstrike-mcp, strix and pentestgpt.  Each  *)
(* makes plans for SubmitTaskPlan out of what its planner wants.  The last *)
(* three keep the verdicts in a ledger in memory, and run accepted tasks   *)
(* with a tool of their own, beside the orchestrator's dispatch and        *)
(* without a scope token.                                                   *)
(*                                                                         *)
(* As in PlanIntake a call is a function of the tables it finds.  Requests *)
(* arrive decoded, and specifications have params, a function from the     *)
(* names of the string parameters that are set.  fresh holds identifiers   *)
(* minted for the call; rpc is how the orchestrator fares with it: the RoE, *)
(* the clock, the quota, the statements that get through, and whether the  *)
(* answer arrives before the adapter's 30 seconds are over.                *)
(***************************************************************************)
EXTENDS PlanIntake

KeysOf(tasks) == {tasks[i].key : i \in DOMAIN tasks}

\* BuildPlan, as far as it refuses.
WellFormed(args) ==
    /\ args.mission # Unset /\ args.tasks # <<>> /\ Unset \notin KeysOf(args.tasks)
    /\ \A i, j \in DOMAIN args.tasks : args.tasks[i].key = args.tasks[j].key => i = j
    /\ \A i \in DOMAIN args.tasks :
          /\ args.tasks[i].capability # <<>> /\ args.tasks[i].risk \in Risks
          /\ args.tasks[i].dependsOn \subseteq KeysOf(args.tasks)

\* BuildPlan, as far as it builds: a caller that gives no key gets a new one.
BuildPlan(commander, fresh, args) ==
    [id |-> fresh.plan, mission |-> args.mission, by |-> commander,
     delegatedBy |-> args.delegatedBy, tasks |-> args.tasks,
     key |-> IF args.key = Unset THEN fresh.key ELSE args.key]

-----------------------------------------------------------------------------
(* The ledger: of each plan, by the id this adapter gave it, the tasks with *)
(* a verdict.                                                               *)

\* Record: a verdict goes to the task of the submitted plan with its key.
Record(ledger, plan, verdicts) ==
    LET entry == [k \in KeysOf(plan.tasks) \cap KeysOf(verdicts) |->
                     [spec |-> plan.tasks[CHOOSE i \in DOMAIN plan.tasks : plan.tasks[i].key = k],
                      accepted |-> \E i \in DOMAIN verdicts : verdicts[i].key = k
                                                             /\ verdicts[i].accepted]]
    IN  [id \in DOMAIN ledger \cup {plan.id} |-> IF id = plan.id THEN entry ELSE ledger[id]]

\* Approved, the gate in front of every execution.
Approved(ledger, id, key) ==
    id \in DOMAIN ledger /\ key \in DOMAIN ledger[id] /\ ledger[id][key].accepted

\* What a submission leaves: nothing is recorded of an answer that is an error
\* or does not arrive.
Submission(db, ledger, plan, rpc) ==
    LET resp == SubmitTaskPlan(db, plan, rpc.roe, rpc.now, rpc.quota, rpc.statements)
        heard == rpc.heard /\ resp.answer = "ok"
    IN  [db |-> resp.db, answer |-> IF heard THEN "ok" ELSE "error",
         verdict |-> IF heard THEN resp.verdict ELSE NoVerdict,
         ledger |-> IF heard THEN Record(ledger, plan, resp.verdict.verdicts) ELSE ledger]
Refused(db, ledger) ==
    [db |-> db, answer |-> "invalid", verdict |-> NoVerdict, ledger |-> ledger]

\* submitTaskPlan of the three.
submitTaskPlan(commander, db, ledger, fresh, args, rpc) ==
    IF WellFormed(args)
    THEN Submission(db, ledger, BuildPlan(commander, fresh, args), rpc)
    ELSE Refused(db, ledger)

\* getMissionStatus, listCapabilities and requestScopeChange pass the question
\* on when it is complete.
getMissionStatus(mission) == mission # Unset
listCapabilities(bound) == bound = Unset \/ bound \in Risks
requestScopeChange(mission, justification) == Unset \notin {mission, justification}

-----------------------------------------------------------------------------
(* hexstrike and pentestgpt: a task becomes a call of a tool per target.    *)

Mapping(tool, key, defaults) == [tool |-> tool, key |-> key, defaults |-> defaults]
nmap == Mapping("nmap", "target", [scan_type |-> "-sV", ports |-> "", additional_args |-> ""])
capabilityTools ==
    [c \in {<<"recon", "port_scan">>, <<"detect", "scan", "network">>, <<"detect", "scan", "web">>}
           \cup {<<"web", w>> : w \in {"dirbust", "nikto", "sqlmap"}} |->
       CASE c = <<"detect", "scan", "web">> -> Mapping("nuclei", "target",
                [severity |-> "", tags |-> "", template |-> "", additional_args |-> ""])
         [] c = <<"web", "dirbust">> -> Mapping("gobuster", "url",
                [mode |-> "dir", wordlist |-> "common.txt", additional_args |-> ""])
         [] c = <<"web", "nikto">> -> Mapping("nikto", "target", [additional_args |-> ""])
         [] c = <<"web", "sqlmap">> -> Mapping("sqlmap", "url",
                [data |-> "", additional_args |-> ""])
         [] OTHER -> nmap]

\* A parameter that is set replaces the default of its name.
Overridden(defaults, params) ==
    [k \in DOMAIN defaults |->
        IF k \in DOMAIN params /\ params[k] # "" THEN params[k] ELSE defaults[k]]

\* TranslateTask: no calls when the capability is not in the table.
TranslateTask(table, spec) ==
    IF spec.capability \notin DOMAIN table THEN {}
    ELSE {[tool |-> table[spec.capability].tool, key |-> table[spec.capability].key,
           target |-> t, args |-> Overridden(table[spec.capability].defaults, spec.params)] :
          t \in spec.targets}

\* CallTool of hx: a reply that is not a 200 or cannot be read is an error.
CallTool(reply) ==
    CASE ~reply.came \/ reply.status # 200 \/ ~reply.json -> "error"
      [] reply.came /\ reply.status = 200 /\ reply.json /\ reply.success -> "ok"
      [] OTHER -> "failed"

\* What can become of the calls: the calls left when the task's time is over
\* are not made, and that is looked at after each call.
Outcomes(targets) ==
    {o \in [targets -> {"ok", "failed", "error", "skipped"}] :
        targets # {} => \E t \in targets : o[t] # "skipped"}

Status(outcome) ==
    IF \A t \in DOMAIN outcome : outcome[t] = "ok" THEN "SUCCEEDED" ELSE "FAILED"

\* MapResult: the targets are the task's, called or not.
MapResult(spec, outcome) ==
    [status |-> Status(outcome), touched |-> spec.targets,
     requests |-> Cardinality(DOMAIN outcome), results |-> outcome]

\* executeApprovedTask, up to the calls: why there are none, or "calls".
executeApprovedTask(ledger, id, key, table) ==
    CASE Unset \in {id, key} -> "invalid"
      [] Unset \notin {id, key} /\ ~Approved(ledger, id, key) -> "refused"
      [] Unset \notin {id, key} /\ Approved(ledger, id, key) ->
            IF TranslateTask(table, ledger[id][key].spec) = {} THEN "unmapped" ELSE "calls"

-----------------------------------------------------------------------------
(* pentestgpt: plans come from a model or, in mock mode, from a list.       *)

passive == {"passive_dns", "ct", "subdomain_passive", "ip_netblock", "cloud_credentialed"}
capabilityOperations ==
    [c \in {<<"recon", r>> : r \in passive \cup {"port_scan"}}
           \cup {<<"detect", "scan", d>> : d \in {"network", "web"}} |->
       Mapping(c, "target",
           CASE c = <<"detect", "scan", "web">> -> [mode |-> "pentest", severity |-> ""]
             [] c \in {<<"recon", "port_scan">>, <<"detect", "scan", "network">>} ->
                    [mode |-> "pentest", scan_type |-> "-sV"]
             [] OTHER -> [mode |-> "pentest"])]

\* TranslateTask of pentestgpt: the instruction is the table's too.
OperationCalls(spec) == TranslateTask(capabilityOperations, spec)
executeOperations(ledger, id, key) ==
    executeApprovedTask(ledger, id, key, capabilityOperations)

\* CallTool of ptg: an exit code that is not 0 is a failure the tool reports,
\* running out of time is one.
Operate(exit) == IF exit = 0 THEN "ok" ELSE "failed"

Stage(key, capability, risk, deps) ==
    [key |-> key, capability |-> capability, risk |-> risk, dependsOn |-> deps]
mockPlanOrder ==
    LET dns == "recon-passive-dns"
    IN  <<Stage(dns, <<"recon", "passive_dns">>, "R0", {}),
          Stage("recon-ct", <<"recon", "ct">>, "R0", {dns}),
          Stage("recon-subdomain-passive", <<"recon", "subdomain_passive">>, "R0", {dns}),
          Stage("scan-ports", <<"recon", "port_scan">>, "R1", {dns}),
          Stage("scan-web", <<"detect", "scan", "web">>, "R2", {"scan-ports"})>>
\* The stages as tasks, each for all the targets.
TasksFor(stages, in) ==
    [i \in DOMAIN stages |->
        [key |-> stages[i].key, capability |-> stages[i].capability, risk |-> stages[i].risk,
         dependsOn |-> stages[i].dependsOn, targets |-> in.targets,
         params |-> [objective |-> in.objective]]]

\* parsePlanTasks: whatever tasks are between the first and the last brace.
parsePlanTasks(reply) == IF reply.exit = 0 /\ reply.json THEN reply.tasks ELSE <<>>

\* GeneratePlan: no tasks is an error.
GeneratePlan(mock, in, reply) ==
    CASE in.objective = "" \/ in.targets = {} -> <<>>
      [] in.objective # "" /\ in.targets # {} ->
            IF mock THEN TasksFor(mockPlanOrder, in) ELSE parsePlanTasks(reply)

\* generatePlan: what was generated is submitted at once, under a key of its own.
generatePlan(db, ledger, fresh, in, mock, reply, rpc) ==
    submitTaskPlan("pentestgpt", db, ledger, fresh,
        [mission |-> in.mission, key |-> Unset, delegatedBy |-> Unset,
         tasks |-> IF in.mission = Unset THEN <<>> ELSE GeneratePlan(mock, in, reply)], rpc)

-----------------------------------------------------------------------------
(* strix: a task becomes a run of the scanner per target.  dirs holds, for  *)
(* each working directory, what its runs have written; a file that cannot   *)
(* be parsed is Broken.  seg makes path segments of keys and of targets.    *)

Broken == "broken"
ScanModes == {"quick", "standard", "deep"}
capabilityScans ==
    [c \in {<<"recon", r>> : r \in {"port_scan", "web_surface"}}
           \cup {<<"detect", "scan", d>> : d \in {"web", "api", "full"}} |->
       [instruction |-> c, scan_mode |-> CASE c[1] = "recon" -> "quick"
                                           [] c = <<"detect", "scan", "full">> -> "deep"
                                           [] OTHER -> "standard"]]

\* TranslateTask of strix: a scan mode that is not one fails the task.
ScanMode(spec) ==
    LET given == IF "scan_mode" \in DOMAIN spec.params THEN spec.params["scan_mode"] ELSE ""
    IN  IF given = "" THEN capabilityScans[spec.capability].scan_mode ELSE given
ScanRequests(spec) ==
    IF spec.capability \notin DOMAIN capabilityScans \/ ScanMode(spec) \notin ScanModes THEN {}
    ELSE {[key |-> spec.key, target |-> t, scan_mode |-> ScanMode(spec)] : t \in spec.targets}

\* sanitize: different targets may become the same segment.
Dir(seg, req) == <<seg.key[req.key], seg.target[req.target]>>

\* MapResult of strix: as the others', with the number of findings.
Skipped == [outcome |-> "skipped", findings |-> {}]
MapScans(spec, scans) ==
    [of |-> MapResult(spec, [t \in spec.targets |-> scans[t].outcome]), scans |-> scans,
     found |-> Cardinality(UNION {{<<t, f>> : f \in scans[t].findings} : t \in spec.targets})]

\* readFindings: what all the runs of the directory have written.
readFindings(dirs, dir) ==
    IF Broken \in dirs[dir] THEN [outcome |-> "error", findings |-> {}]
    ELSE [outcome |-> "ok", findings |-> dirs[dir]]

\* RunScan: 0 and 2 are the exit codes of a complete run, and a run that is not
\* complete may have written too.
RunScan(dirs, seg, req, run) ==
    LET dir == Dir(seg, req)
        old == IF dir \in DOMAIN dirs THEN dirs[dir] ELSE {}
        after == [d \in DOMAIN dirs \cup {dir} |-> IF d = dir THEN old \cup run.wrote ELSE dirs[d]]
    IN  IF run.exit \in {0, 2} THEN [dirs |-> after, scan |-> readFindings(after, dir)]
        ELSE [dirs |-> after, scan |-> [outcome |-> "error", findings |-> {}]]

\* executeApprovedTask of strix: runs, a sequence, are those made before the
\* task's time is over.
executeScans(ledger, id, key, dirs, seg, runs) ==
    LET spec == ledger[id][key].spec
        after[i \in 0 .. Len(runs)] ==
            IF i = 0 THEN [dirs |-> dirs, scan |-> Skipped]
            ELSE RunScan(after[i - 1].dirs, seg, [key |-> key, target |-> runs[i].target], runs[i])
        scans == [t \in spec.targets |->
                     IF \E i \in DOMAIN runs : runs[i].target = t
                     THEN after[CHOOSE i \in DOMAIN runs : runs[i].target = t].scan ELSE Skipped]
    IN  IF ~Approved(ledger, id, key) THEN [dirs |-> dirs, answer |-> "refused"]
        ELSE IF ScanRequests(spec) = {} THEN [dirs |-> dirs, answer |-> "unmapped"]
        ELSE [dirs |-> after[Len(runs)].dirs, answer |-> "calls", result |-> MapScans(spec, scans)]

-----------------------------------------------------------------------------
(* cai: an intent becomes a plan whose id and key are a digest of it.       *)

discoverPassiveOrder ==
    LET dns == "discover-passive-dns"
        stage(key, technique, deps) == Stage(key, <<"recon", technique>>, "R0", deps)
    IN  <<stage(dns, "passive_dns", {}), stage("discover-ct", "ct", {dns}),
          stage("discover-subdomain-passive", "subdomain_passive", {dns}),
          stage("discover-ip-netblock", "ip_netblock", {dns}),
          stage("discover-cloud-credentialed", "cloud_credentialed", {"discover-ip-netblock"})>>

PlanMission(digest, in) ==
    LET seed == digest[<<in.mission, in.objective, in.targets>>]
    IN  [id |-> seed, key |-> seed, mission |-> in.mission, by |-> "cai",
         delegatedBy |-> Unset, tasks |-> TasksFor(discoverPassiveOrder, in)]

\* handleIntent plans and submits, handleSubmitPlan submits; no ledger is kept.
NoLedger == [id \in {} |-> id]
handleIntent(db, digest, in, rpc) ==
    IF in.mission = Unset \/ in.targets = {} THEN Refused(db, NoLedger)
    ELSE Submission(db, NoLedger, PlanMission(digest, in), rpc)
handleSubmitPlan(db, fresh, args, rpc) ==
    submitTaskPlan("cai", db, NoLedger, fresh, args, rpc)

-----------------------------------------------------------------------------
(* The MCP server in front of hexstrike, strix and pentestgpt: one message  *)
(* a line, answered before the next is read.                                *)

\* RegisterTools.
Tools == {"submit_task_plan", "get_mission_status", "list_capabilities",
          "request_scope_change", "execute_approved_task"}

Notification(msg) == msg.id \in {Unset, "null"}

\* onToolCall: what a tool returns and its errors are results, not errors of
\* the protocol.
onToolCall(msg) ==
    IF msg.tool \in Tools THEN (IF msg.fails THEN "toolError" ELSE "result") ELSE "invalidParams"

dispatch(msg) ==
    CASE ~msg.json -> [id |-> "null", answer |-> "parseError"]
      [] msg.json /\ Notification(msg) -> [id |-> "null", answer |-> "none"]
      [] msg.json /\ ~Notification(msg) ->
            [id |-> msg.id,
             answer |-> CASE ~msg.valid -> "invalidRequest"
                          [] msg.valid /\ msg.method \in {"initialize", "ping", "tools/list"} ->
                                 "result"
                          [] msg.valid /\ msg.method = "tools/call" -> onToolCall(msg)
                          [] OTHER -> "methodNotFound"]

\* Serve: a line that is too long ends it, with what came before answered.
Serve(lines) ==
    LET long == {i \in DOMAIN lines : lines[i].long}
        read == {i \in DOMAIN lines : \A j \in long : i < j}
        answers == [i \in 1 .. Cardinality(read) |-> dispatch(lines[i])]
    IN  SelectSeq(answers, LAMBDA a : a.answer # "none")
=============================================================================
