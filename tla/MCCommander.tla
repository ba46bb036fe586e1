----------------------------- MODULE MCCommander -----------------------------
(***************************************************************************)
(* What Commander computes, checked in the small world of MCPlanIntake     *)
(* when TLC starts on a module that extends this one.                      *)
(***************************************************************************)
EXTENDS Commander, MCPlanIntake

Host(n) == [form |-> "host", id |-> n, url |-> FALSE, port |-> FALSE, path |-> FALSE]

\* The specifications of MCPlanIntake, and one for a capability no RoE allows.
Sqlmap == <<"web", "sqlmap">>
SpecFor(key, capability, params) ==
    [key |-> key, capability |-> capability, risk |-> "R1", dependsOn |-> {}, params |-> params,
     targets |-> {Host(n) : n \in {Acme, Api}}]
NoParams == [k \in {} |-> k]
Unseen == SpecFor("k1", Sqlmap, NoParams)
Args(key, tasks) == [mission |-> "hexs", key |-> key, delegatedBy |-> Unset, tasks |-> tasks]
Fresh(n) == [plan |-> <<"plan1", "plan2">>[n], key |-> <<"key1", "key2">>[n]]
Rpc(quota, statements, heard) ==
    [roe |-> Roe, now |-> 2, quota |-> quota, statements |-> statements, heard |-> heard]
Calls == {Rpc(q, n, h) : q \in Quotas, n \in 0 .. 7, h \in BOOLEAN}
hexstrike(db, ledger, n, args, rpc) ==
    submitTaskPlan("hexstrike", db, ledger, Fresh(n), args, rpc)
AllHeard == Rpc(2, 7, TRUE)

\* Under a key nobody used, what the ledger lets through was validated and is
\* queued, wherever the call was cut off.
ASSUME ApprovedWasValidated ==
    \A ts \in TaskLists, rpc \in Calls :
        LET after == hexstrike(Empty, NoLedger, 1, Args(Unset, ts), rpc)
        IN  \A i \in DOMAIN ts : Approved(after.ledger, "plan1", ts[i].key) =>
                /\ Valid(Empty, ts[i], KeysOf(ts), Roe, "hexstrike")
                /\ \E t \in after.db.tasks : t.key = ts[i].key /\ t.state = "QUEUED"

\* Under a key that was used, the old verdicts approve the new tasks.
ASSUME ReusedKeysApproveUnseenTasks ==
    LET first == hexstrike(Empty, NoLedger, 1, Args("p1", <<TaskSpec("k1", Recon, "R1", {})>>), AllHeard)
        second == hexstrike(first.db, first.ledger, 2, Args("p1", <<Unseen>>), AllHeard)
    IN  /\ Approved(second.ledger, "plan2", "k1") /\ second.db = first.db
        /\ second.ledger["plan2"]["k1"].spec = Unseen
        /\ ~Valid(Empty, Unseen, {"k1"}, Roe, "hexstrike")
        /\ executeApprovedTask(second.ledger, "plan2", "k1", capabilityTools) = "calls"

\* A call that is repeated because its answer was lost queues the plan again,
\* unless the caller named the key; then the tasks can be executed after all.
ASSUME LostAnswersAndKeys ==
    LET ts == <<TaskSpec("k1", Recon, "R1", {})>>
        twice(key) == hexstrike(hexstrike(Empty, NoLedger, 1, Args(key, ts), Rpc(2, 7, FALSE)).db,
                                NoLedger, 2, Args(key, ts), AllHeard)
    IN  /\ Cardinality(twice(Unset).db.tasks) = 2 /\ QuotaUsed(twice(Unset).db, "hexstrike") = 2
        /\ Cardinality(twice("p1").db.tasks) = 1 /\ Approved(twice("p1").ledger, "plan2", "k1")

Intent == [mission |-> "cais", objective |-> "map", targets |-> {Host(Api)}]
Digest == [seed \in {<<"cais", "map", Intent.targets>>} |-> "d1"]
Techniques == {discoverPassiveOrder[i].capability : i \in 1 .. 5}
World == [Empty EXCEPT !.agents["a"].capabilities = {Offer(c, "R0") : c \in Techniques}]
Intend(db, statements) == handleIntent(db, Digest, Intent, [Rpc(9, statements, TRUE) EXCEPT
    !.roe.capabilities = {[any |-> FALSE, id |-> c] : c \in Techniques}])

\* An intent is queued once however often it comes; one that was cut off after
\* the plan's row is rejected for good, since every repetition has its key.
ASSUME IntentsAreDecidedOnce ==
    /\ Intend(World, 16).verdict.decision = "ACCEPTED"
    /\ \A n \in 0 .. 16 :
          LET first == Intend(World, n).db
              again == Intend(first, 16)
          IN  /\ again.db = first
              /\ again.verdict.decision = IF n = 16 THEN "ACCEPTED" ELSE "REJECTED"

\* What pentestgpt plans in mock mode it could execute, what cai plans in stub
\* mode is well formed, and of both the orchestrator takes what is registered.
ASSUME GeneratedPlansAreWellFormed ==
    LET ts == GeneratePlan(TRUE, Intent, [exit |-> 0])
        mine == [World EXCEPT !.missions["cais"].owner = "pentestgpt"]
        rpc == [Rpc(9, 16, TRUE) EXCEPT !.roe.capabilities = {[any |-> TRUE, id |-> <<"recon">>]}]
        sent == generatePlan(mine, NoLedger, Fresh(1), Intent, TRUE, [exit |-> 0], rpc)
    IN  /\ WellFormed(Args(Unset, ts)) /\ WellFormed(Args(Unset, PlanMission(Digest, Intent).tasks))
        /\ \A i \in DOMAIN ts : OperationCalls(ts[i]) # {}
        /\ sent.verdict.decision = "PARTIAL"
        /\ \A i \in DOMAIN ts : Approved(sent.ledger, "plan1", ts[i].key) <=> i <= 3
        /\ GeneratePlan(FALSE, Intent, [exit |-> 1]) = <<>>

-----------------------------------------------------------------------------
(* Executions.                                                              *)

ParamNames == {"mode", "scan_type", "scan_mode", "data", "target", "instruction"}
SomeParams == UNION {[S -> {"", "x", "deep"}] : S \in {T \in SUBSET ParamNames : Cardinality(T) <= 2}}

\* No parameter reaches a tool but those of the table, none changes the tool or
\* the target, and each target of the task is called once.
ASSUME OnlyListedArguments ==
    \A ps \in SomeParams : \A table \in {capabilityTools, capabilityOperations} :
        \A c \in DOMAIN table :
            LET calls == TranslateTask(table, SpecFor("k1", c, ps))
            IN  /\ {call.target : call \in calls} = Unseen.targets
                /\ Cardinality(calls) = 2
                /\ \A call \in calls : call.tool = table[c].tool
                       /\ DOMAIN call.args = DOMAIN table[c].defaults

\* A scan has one of the three modes, whatever the parameter says.
ASSUME ScansHaveAMode ==
    \A ps \in SomeParams : \A c \in DOMAIN capabilityScans :
        LET requests == ScanRequests(SpecFor("k1", c, ps))
        IN  /\ \A r \in requests : r.scan_mode \in ScanModes
            /\ (requests = {}) = ("scan_mode" \in DOMAIN ps /\ ps["scan_mode"] = "x")

\* A task succeeds when every call did; the targets it is said to have touched
\* are all of them, those it never came to included.
ASSUME SuccessIsComplete ==
    /\ \A o \in Outcomes(Unseen.targets) :
          LET result == MapResult(Unseen, o)
          IN  /\ (result.status = "SUCCEEDED") = (\A t \in Unseen.targets : o[t] = "ok")
              /\ result.touched = Unseen.targets /\ result.requests = 2
    /\ \E o \in Outcomes(Unseen.targets) : \E t \in Unseen.targets : o[t] = "skipped"
    /\ \A came, json, success \in BOOLEAN, status \in {200, 500} :
          (CallTool([came |-> came, json |-> json, success |-> success, status |-> status]) = "ok")
              = (came /\ json /\ success /\ status = 200)

\* Two targets that become one segment, and a third.
Seg == [key |-> [k \in {"k1"} |-> "k1"], target |-> [t \in {"a/b", "a:b", "c"} |-> IF t = "c" THEN "c" ELSE "a_b"]]
ScanTask == [SpecFor("k1", <<"recon", "port_scan">>, NoParams) EXCEPT !.targets = {"a/b", "a:b", "c"}]
ScanLedger == [id \in {"plan1"} |-> [k \in {"k1"} |-> [spec |-> ScanTask, accepted |-> TRUE]]]
Run(target, exit, wrote) == [target |-> target, exit |-> exit, wrote |-> wrote]
Scan(dirs, runs) == executeScans(ScanLedger, "plan1", "k1", dirs, Seg, runs)
NoDirs == [d \in {} |-> {}]

\* A scan reports what every earlier run in its directory wrote: of an earlier
\* execution, of one that failed, of another target; a file that a run left
\* unfinished fails all the later ones.
ASSUME RunsAccumulate ==
    LET first == Scan(NoDirs, <<Run("a/b", 2, {"f1"}), Run("a:b", 0, {}), Run("c", 1, {"f2"})>>)
        second == Scan(first.dirs, <<Run("a/b", 0, {}), Run("a:b", -1, {Broken}), Run("c", 0, {})>>)
        third == Scan(second.dirs, <<Run("a/b", 2, {"f3"}), Run("c", 0, {})>>)
    IN  /\ first.result.found = 2 /\ first.result.scans["a:b"].findings = {"f1"}
        /\ first.result.scans["c"].outcome = "error" /\ first.result.of.status = "FAILED"
        /\ second.result.scans["c"].findings = {"f2"} /\ second.result.scans["a/b"].findings = {"f1"}
        /\ third.result.scans["a/b"] = [outcome |-> "error", findings |-> {}]
        /\ third.result.scans["a:b"].outcome = "skipped"
        /\ executeScans(ScanLedger, "plan2", "k1", NoDirs, Seg, <<>>).answer = "refused"

-----------------------------------------------------------------------------
(* The server.                                                              *)

Messages == [json : BOOLEAN, valid : BOOLEAN, long : BOOLEAN, id : {Unset, "null", "1"},
             method : {"ping", "tools/call", "x"}, tool : {"list_capabilities", "x"}, fails : BOOLEAN]

\* A request is answered once, under its id; a notification never, even when it
\* is a call of a tool, which then is not made.
ASSUME OneAnswerPerRequest ==
    \A first \in Messages, second \in {m \in Messages : m.id # Unset} :
        LET wanted == SelectSeq(<<first, second>>, LAMBDA m : ~m.json \/ ~Notification(m))
            answers == Serve(<<first, second>>)
        IN  IF first.long THEN answers = <<>>
            ELSE IF second.long THEN Len(answers) <= 1
            ELSE /\ Len(answers) = Len(wanted)
                 /\ \A i \in DOMAIN answers : wanted[i].json => answers[i].id = wanted[i].id
=============================================================================
