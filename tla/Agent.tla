-------------------------------- MODULE Agent --------------------------------
(***************************************************************************)
(* The Go agent SDK: how an agent takes an assignment, checks that it is   *)
(* authorised, runs its module, is halted, and reports the result.         *)
(*                                                                         *)
(* An execution is one run of Agent.execute.  Two may run the same task    *)
(* (the orchestrator dispatches it again when it believes the first one    *)
(* dead); the agent's table of running tasks is keyed by the task, so the  *)
(* second replaces the first and whoever ends removes the entry.  What the *)
(* module does between Start and Return is left to the module that extends *)
(* this one: it reads the context of its execution and asks the guard.     *)
(***************************************************************************)
EXTENDS Integers, Sequences, FiniteSets, SequencesExt, TLC

CONSTANTS
    Exec,       \* executions ever started (a bound)
    Task,       \* tasks assigned to the agent
    Scenario    \* the worlds a run explores, see the MC module

\* An execution is a number of its own, none is Nobody.
ASSUME Executions == Exec \subseteq Nat \ {0}

VARIABLES
    world,      \* the scenario, fixed by Init
    inbox,      \* task -> assignment messages not settled
    sent,       \* task -> assignment messages ever sent (bounded)
    exec,       \* execution -> [stage, task, ctx, halted, token, reauth, status]
    running,    \* task -> the execution registered for it
    cache,      \* revocations the guard and the halts consult
    lapsed,     \* temporary revocations whose expiry has passed
    applying,   \* the revocation whose handler has applied it and not halted
    heard,      \* revocations whose handler has ended
    killed,     \* new assignments are refused
    aborting,   \* a call of the module's Abort is under way
    results,    \* task.result: task -> the status the stream keeps
    faults      \* faults so far

agentVars == <<world, inbox, sent, exec, running, cache, lapsed, applying,
               heard, killed, aborting, results, faults>>

None == "none"
Nobody == 0             \* no execution: executions are 1, 2, ...
NoExec == [stage |-> "idle", task |-> None, ctx |-> "live", halted |-> FALSE,
           token |-> FALSE, reauth |-> FALSE, status |-> None]
Assignment(t) == world.assignment[t]
TaskOf(x) == exec[x].task
Ctx(x) == exec[x].ctx
Fault(f) == f \in world.faults /\ faults < world.maxFaults /\ faults' = faults + 1

AgentInit ==
    /\ world \in Scenario
    /\ inbox = [t \in Task |-> IF t \in world.tasks THEN 1 ELSE 0]
    /\ sent = inbox
    /\ exec = [x \in Exec |-> NoExec]
    /\ running = [t \in Task |-> Nobody]
    /\ cache = {} /\ lapsed = {} /\ applying = {} /\ heard = {}
    /\ killed = FALSE /\ aborting = FALSE
    /\ results = [t \in Task |-> None]
    /\ faults = 0

-----------------------------------------------------------------------------
(* Tokens, manifests and scopes: what authorize and the guard check.        *)

\* Claims.validate: a token is a record of what its claims say.
ClaimsValid(token) ==
    /\ token.issuer /\ token.complete /\ token.risk \in 1 .. 3
    /\ token.ttl \in 1 .. 900
    /\ ~token.early
    /\ token.scopeBound => token.risk = 1 /\ token.watch
    /\ token.risk = 3 => token.approved
Verify(token) == token.signed /\ ClaimsValid(token)

\* Load: the manifest's bytes hash to the claim, have the form it announces,
\* every entry canonicalizes and their number is the claimed one (0: unclaimed).
ManifestLoads(token) ==
    LET m == token.manifest
    IN  /\ m.fetched /\ m.hash = token.hash
        /\ IF token.scopeBound THEN m.form = "scope"
           ELSE m.form = "exact" /\ token.count \in {0, Cardinality(m.targets)}

\* Evaluate: exclusions first, then the includes.  A host is a sequence of
\* labels; an entry names a host or, with any, everything below it.
MatchEntry(entry, host) ==
    LET n == Len(entry.host)
        below == Len(host) > n /\ SubSeq(host, Len(host) - n + 1, Len(host)) = entry.host
    IN  IF entry.any THEN below ELSE host = entry.host
Evaluate(scope, host) ==
    /\ \A e \in scope.excludes : ~MatchEntry(e, host)
    /\ \E e \in scope.includes : MatchEntry(e, host)
ManifestContains(manifest, host) ==
    IF manifest.form = "scope" THEN Evaluate(manifest, host)
    ELSE host \in manifest.targets

\* NewGuard: the token is this task's, permits the capability and has the
\* manifest's form.
GuardBinds(token, t) ==
    /\ token.task = t
    /\ Assignment(t).capability \in Range(token.capabilities)
    /\ token.scopeBound = (token.manifest.form = "scope")

\* authorize: the checks in their order.
Authorized(t) ==
    LET token == Assignment(t).token
    IN  token.present /\ Verify(token) /\ ManifestLoads(token) /\ GuardBinds(token, t)

\* Revoked: by everything, the RoE, the first capability or the target.
Live == cache \ lapsed
Revoked(roe, capability, host) ==
    \E r \in Live : \/ r.scope = "global"
                    \/ r.scope = "roe" /\ r.key = roe
                    \/ r.scope = "capability" /\ r.key = capability
                    \/ r.scope = "target" /\ r.host = host
Halted == \E r \in Live : r.scope = "global"

\* Guard.check for one target: revocation, token time, target.
GuardCheck_TokenOnly(x, host) ==
    LET token == Assignment(TaskOf(x)).token
    IN  IF exec[x].token /\ ManifestContains(token.manifest, host) THEN None ELSE "denied"
GuardCheck(x, host) ==
    LET token == Assignment(TaskOf(x)).token
    IN CASE Revoked(token.roe, Head(token.capabilities), host) -> "revoked"
         [] ~exec[x].token -> "denied"
         [] ~ManifestContains(token.manifest, host) -> "denied"
         [] OTHER -> None

-----------------------------------------------------------------------------
(* Taking an assignment. *)

\* The orchestrator dispatches a task again (its lease ran out).
Redispatch(t) ==
    /\ "redispatch" \in world.faults
    /\ sent[t] \in 1 .. world.maxSent - 1 /\ results[t] = None
    /\ sent' = [sent EXCEPT ![t] = @ + 1]
    /\ inbox' = [inbox EXCEPT ![t] = @ + 1]
    /\ UNCHANGED <<world, exec, running, cache, lapsed, applying, heard, killed,
                   aborting, results, faults>>

\* dispatch: refused while killed and when AckTask fails (the message stays);
\* otherwise it is settled and an execution starts.
Dispatch(x, t) ==
    /\ exec[x] = NoExec /\ \A y \in Exec : y < x => exec[y] # NoExec
    /\ inbox[t] > 0 /\ ~killed
    /\ inbox' = [inbox EXCEPT ![t] = @ - 1]
    /\ exec' = [exec EXCEPT ![x].stage = "planning", ![x].task = t]
    /\ UNCHANGED <<world, sent, running, cache, lapsed, applying, heard, killed,
                   aborting, results, faults>>

\* The plan gate; authorize (skipped for risk class 0, whose module has no
\* guard); a refusal is audited and reported.
End(x, status) ==
    exec' = [exec EXCEPT ![x].stage = "ended", ![x].status = status,
                         ![x].reauth = FALSE]
Planning(x, planned) ==
    /\ exec[x].stage = "planning"
    /\ IF planned THEN exec' = [exec EXCEPT ![x].stage = "authorizing"]
                            ELSE End(x, "FAILED")
    /\ UNCHANGED <<world, inbox, sent, running, cache, lapsed, applying, heard,
                   killed, aborting, results, faults>>
Authorize(x) ==
    /\ exec[x].stage = "authorizing"
    /\ IF Assignment(TaskOf(x)).risk = 0 THEN exec' = [exec EXCEPT ![x].stage = "cleared"]
       ELSE IF Authorized(TaskOf(x))
       THEN exec' = [exec EXCEPT ![x].stage = "cleared", ![x].token = TRUE,
                                 ![x].reauth = TRUE]
       ELSE End(x, "REJECTED_UNAUTHORIZED")
    /\ UNCHANGED <<world, inbox, sent, running, cache, lapsed, applying, heard,
                   killed, aborting, results, faults>>

\* The execution enters the table, replacing one that runs the same task.
Start(x) ==
    /\ exec[x].stage = "cleared"
    /\ exec' = [exec EXCEPT ![x].stage = "running"]
    /\ running' = [running EXCEPT ![TaskOf(x)] = x]
    /\ UNCHANGED <<world, inbox, sent, cache, lapsed, applying, heard, killed,
                   aborting, results, faults>>

\* The module returned err; the status is decided in this order.
StatusOf(x, err) ==
    CASE err = None -> "SUCCEEDED"
      [] Ctx(x) = "deadline" -> "TIMEOUT"
      [] exec[x].halted \/ err = "revoked" -> "KILLED"
      [] err = "denied" -> "REJECTED_UNAUTHORIZED"
      [] OTHER -> "FAILED"
Return(x, err) ==
    /\ exec[x].stage = "running"
    /\ End(x, StatusOf(x, err))
    /\ UNCHANGED <<world, inbox, sent, running, cache, lapsed, applying, heard,
                   killed, aborting, results, faults>>

\* reportResult under the event id of the task, so the stream keeps the first
\* of two results; five failures lose it.  Then the deferred delete.
ReportResult(x) ==
    /\ exec[x].stage = "ended"
    /\ exec' = [exec EXCEPT ![x].stage = "over"]
    /\ running' = [running EXCEPT ![TaskOf(x)] = Nobody]
    /\ \/ /\ results' = [results EXCEPT ![TaskOf(x)] =
                           IF @ = None THEN exec[x].status ELSE @]
          /\ UNCHANGED faults
       \/ Fault("report") /\ UNCHANGED results
    /\ UNCHANGED <<world, inbox, sent, cache, lapsed, applying, heard, killed,
                   aborting>>

\* min(timeout, deadline) of the assignment passes.
Deadline(x) ==
    /\ exec[x].stage = "running" /\ Assignment(TaskOf(x)).deadline
    /\ Ctx(x) = "live"
    /\ exec' = [exec EXCEPT ![x].ctx = "deadline"]
    /\ UNCHANGED <<world, inbox, sent, running, cache, lapsed, applying, heard,
                   killed, aborting, results, faults>>

-----------------------------------------------------------------------------
(* Mid-run re-authorization. *)

\* reauthLoop: a refusal, or a successor that does not verify, ends the loop;
\* the token then expires.  After an RPC error it waits as long again.
Reauthorize(x) ==
    /\ exec[x].reauth /\ "expiry" \in world.faults
    /\ exec' = [exec EXCEPT ![x].reauth = FALSE]
    /\ UNCHANGED <<world, inbox, sent, running, cache, lapsed, applying, heard,
                   killed, aborting, results, faults>>
TokenExpires(x) ==
    /\ exec[x].stage = "running" /\ exec[x].token /\ ~exec[x].reauth
    /\ exec' = [exec EXCEPT ![x].token = FALSE]
    /\ UNCHANGED <<world, inbox, sent, running, cache, lapsed, applying, heard,
                   killed, aborting, results, faults>>

-----------------------------------------------------------------------------
(* Halts. *)

Registered == {running[t] : t \in Task} \ {Nobody}
HaltTasks(victims) ==
    /\ exec' = [x \in Exec |->
                  IF x \notin victims THEN exec[x]
                  ELSE [exec[x] EXCEPT !.halted = TRUE,
                                       !.ctx = IF @ = "live" THEN "cancelled" ELSE @]]
    /\ aborting' = (aborting \/ victims # {})

\* haltMatching: a global revocation sets the flag, which nothing clears, and
\* takes every registered task; another takes those of its RoE or of their
\* token's first capability.
Matching ==
    {x \in Registered :
        \/ killed \/ Halted
        \/ Assignment(TaskOf(x)).risk > 0 /\
           LET token == Assignment(TaskOf(x)).token
           IN  Revoked(token.roe, Head(token.capabilities), <<>>)}
HaltMatching == HaltTasks(Matching) /\ killed' = (killed \/ Halted)

\* The revocation watcher: apply, halt, acknowledge.  An expired revocation
\* is not applied.
ApplyEvent(r) ==
    /\ r \in world.revocations \ heard
    /\ applying = {}
    /\ applying' = {r}
    /\ cache' = IF r \in lapsed THEN cache ELSE cache \cup {r}
    /\ UNCHANGED <<world, inbox, sent, exec, running, lapsed, heard, killed,
                   aborting, results, faults>>
HaltAndAck ==
    /\ applying # {}
    /\ HaltMatching
    /\ heard' = heard \cup applying /\ applying' = {}
    /\ UNCHANGED <<world, inbox, sent, running, cache, lapsed, results, faults>>

Lapse(r) ==
    /\ r \in world.revocations \ lapsed /\ r.temporary
    /\ lapsed' = lapsed \cup {r}
    /\ UNCHANGED <<world, inbox, sent, exec, running, cache, applying, heard,
                   killed, aborting, results, faults>>

\* The core-NATS kill broadcast, lost when nobody listens.  A revocation in it
\* halts every registered task, whatever its scope; an untyped one those of
\* its mission.  haltMatching runs first for a typed one.
KillDecision(kill, mission) ==
    IF kill.typed THEN kill.scope # None ELSE kill.mission = mission
HearKill(kill) ==
    /\ kill \in world.kills
    /\ LET named == {x \in Registered :
                        KillDecision(kill, Assignment(TaskOf(x)).mission)}
       IN  IF KillDecision(kill, None)
           THEN HaltTasks(Matching \cup named) /\ killed' = (killed \/ Halted)
           ELSE HaltTasks(named) /\ UNCHANGED killed
    /\ UNCHANGED <<world, inbox, sent, running, cache, lapsed, applying, heard,
                   results, faults>>

\* A heartbeat answered with kill_active only asks haltMatching.
Heartbeat ==
    /\ world.killActive
    /\ HaltMatching
    /\ UNCHANGED <<world, inbox, sent, running, cache, lapsed, applying, heard,
                   results, faults>>

\* watchHalt, once a second per execution whose task is in the table.
WatchHalt(x) ==
    /\ exec[x].stage = "running" /\ Ctx(x) = "live"
    /\ running[TaskOf(x)] # Nobody
    /\ Revoked(None, Assignment(TaskOf(x)).capability, <<>>)
    /\ HaltTasks({x})
    /\ UNCHANGED <<world, inbox, sent, running, cache, lapsed, applying, heard,
                   killed, results, faults>>

\* The process stops and starts again: the cache, the flag and the table were
\* in memory, revocations already acknowledged do not come back.
AgentCrash ==
    /\ exec' = [x \in Exec |-> IF exec[x] = NoExec THEN NoExec
                               ELSE [exec[x] EXCEPT !.stage = "over"]]
    /\ running' = [t \in Task |-> Nobody]
    /\ cache' = {} /\ applying' = {} /\ killed' = FALSE /\ aborting' = FALSE
    /\ UNCHANGED <<world, inbox, sent, lapsed, heard, results>>
===============================================================================
