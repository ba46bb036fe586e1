------------------------------ MODULE Discover ------------------------------
(***************************************************************************)
(* Discover, the external attack surface mapping (services/discover): an   *)
(* order is authorised, planned into one task per seed and source and      *)
(* published on a lane; a worker runs the task's connector, publishes its  *)
(* findings and then a done marker on discover.results; the reducer checks *)
(* every finding against the scope, commits the asset, forwards it to the  *)
(* data platform, announces it and expands new hosts into further tasks.   *)
(* The order ends when the done markers cover its total, when somebody     *)
(* cancels it, when its RoE is revoked or when its time budget is over:    *)
(* four writers of one column, none of which compares before it sets.      *)
(*                                                                         *)
(* One order is followed.  An asset is its type and its value: a host      *)
(* found under its own name is a domain, under another seed a subdomain,   *)
(* so one host may be two assets.  Attributes, confidence, edges between   *)
(* assets that exist, expiry of stale assets, evidence, status events and  *)
(* the webhook are left out.                                               *)
(***************************************************************************)
EXTENDS Integers, FiniteSets, Sequences

CONSTANTS
  Scenario,        \* the environments checked (MCDiscover)
  Worker,          \* worker processes
  MaxDeliveries,   \* queue.MaxDeliveries: attempts of a connector
  MaxDPRetries     \* reducer.MaxDPRetries

ASSUME DiscoverBounds == {MaxDeliveries, MaxDPRetries} \subseteq Nat \ {0}

(* An order names finitely many seeds and sources, and the environment     *)
(* acts a bounded number of times.                                         *)
Chances == {"faults", "crashes", "windows", "expiries", "cancels", "revokes"}

ASSUME ScenarioBounds ==
  \A w \in Scenario :
    /\ IsFiniteSet(w.seeds) /\ IsFiniteSet(w.sources)
    /\ w.maxTasks \in Nat
    /\ w.left \in [Chances -> Nat]

(* An asset is its type and its value (assets' unique key), and an answer  *)
(* of a source is a list of findings about assets.                         *)
IsAsset(a)  == a = [type |-> a.type, value |-> a.value]
Answers(w)  == UNION {{w.finds[k][i] : i \in DOMAIN w.finds[k]} : k \in DOMAIN w.finds}

ASSUME ScenarioAnswers ==
  \A w \in Scenario :
    /\ \A k \in DOMAIN w.finds : w.finds[k] \in Seq(Answers(w))
    /\ \A f \in Answers(w) : IsAsset(f.asset) /\ \A a \in f.ends : IsAsset(a)

VARIABLES
  world,     \* the scenario, chosen once
  left,      \* what the environment may still do
  late,      \* the order's time budget is over
  revoked,   \* the order's RoE is revoked
  order,     \* the row in discovery_orders
  submit,    \* the SubmitOrder call
  ender,     \* the calls that end an order: cancel, revoke, sweep
  lane,      \* published task -> its message
  worker,    \* the task each worker runs
  results,   \* the messages of discover.results, in stream order
  reducer,   \* the message the reducer works on
  assets,    \* rows of the working store
  dp,        \* assets whose batch the data platform applied
  gaps       \* assets whose missing batch was audited

vars == <<world, left, late, revoked, order, submit, ender, lane, worker,
          results, reducer, assets, dp, gaps>>
database == <<assets, dp, gaps>>

-----------------------------------------------------------------------------
MaxDeliver == MaxDeliveries + 1
Ended      == {"DENIED", "COMPLETED", "PARTIAL", "CANCELLED"}
Enders     == {"cancel", "revoke", "sweep"}

Free     == [pc |-> "idle", task |-> <<>>, n |-> 0, todo |-> <<>>]
NoMsg    == [kind |-> "", task |-> <<>>, f |-> <<>>, failed |-> FALSE]
Resting  == [pc |-> "idle", i |-> 0, m |-> NoMsg, new |-> FALSE, todo |-> {}, total |-> 0,
             state |-> ""]

Init ==
  /\ world \in Scenario /\ left = world.left
  /\ late = FALSE /\ revoked = FALSE
  /\ order = [state |-> "none", total |-> 0, done |-> 0, failed |-> 0]
  /\ submit = [pc |-> "new", todo |-> {}]
  /\ ender = [e \in Enders |-> "idle"]
  /\ lane = <<>>
  /\ worker = [w \in Worker |-> Free]
  /\ results = <<>>
  /\ reducer = Resting
  /\ assets = {} /\ dp = {} /\ gaps = {}

Spend(what) == left[what] > 0 /\ left' = [left EXCEPT ![what] = @ - 1]

-----------------------------------------------------------------------------
(* The planner.  Plan: a task per seed in scope and source.                *)
Task(s, c, from) == [seed |-> s, source |-> c, from |-> from]

Plan == {Task(s, c, "plan") : s \in world.seeds \cap world.scope, c \in world.sources}

(* ExpandDiscovered.  Its depth argument is read from an attribute of the  *)
(* asset that nothing sets: it is 0, max_depth is at least 1, and so only  *)
(* max_tasks stops the recursion.                                          *)
Expansion(a) ==
  IF a.value \notin world.scope THEN {}
  ELSE {Task(a.value, c, a.type) : c \in world.sources}

(* the message PublishTask puts on the lane *)
Queued == [status |-> "queued", n |-> 0, told |-> FALSE]
Publish(t) == lane' = [x \in DOMAIN lane \cup {t} |-> IF x = t THEN Queued ELSE lane[x]]

-----------------------------------------------------------------------------
(* SubmitOrder *)
Submitted == UNCHANGED <<world, late, revoked, ender, worker, results, reducer, database>>

(* gatekeeper does not answer, or a statement or a publish fails: the call *)
(* returns an error and leaves what it has written.                        *)
SubmitFails ==
  /\ submit.pc # "over"
  /\ Spend("faults")
  /\ submit' = [submit EXCEPT !.pc = "over"]
  /\ Submitted /\ UNCHANGED <<order, lane>>

InsertOrder ==
  /\ submit.pc = "new"
  /\ IF world.allowed
     THEN order' = [order EXCEPT !.state = "PENDING"] /\ submit' = [submit EXCEPT !.pc = "plan"]
     ELSE order' = [order EXCEPT !.state = "DENIED"] /\ submit' = [submit EXCEPT !.pc = "over"]
  /\ Submitted /\ UNCHANGED <<left, lane>>

SetTotal ==
  /\ submit.pc = "plan"
  /\ order' = [order EXCEPT !.total = Cardinality(Plan)]
  /\ submit' = [pc |-> "run", todo |-> Plan]
  /\ Submitted /\ UNCHANGED <<left, lane>>

SetRunning ==
  /\ submit.pc = "run"
  /\ order' = [order EXCEPT !.state = "RUNNING"]
  /\ submit' = [submit EXCEPT !.pc = "dispatch"]
  /\ Submitted /\ UNCHANGED <<left, lane>>

Dispatch ==
  /\ submit.pc = "dispatch" /\ submit.todo # {}
  /\ LET t == CHOOSE x \in submit.todo : TRUE IN
       /\ Publish(t)
       /\ submit' = [submit EXCEPT !.todo = @ \ {t}]
  /\ Submitted /\ UNCHANGED <<left, order>>

SubmitReturns ==
  /\ submit.pc = "dispatch" /\ submit.todo = {}
  /\ order' = IF Plan = {} THEN [order EXCEPT !.state = "COMPLETED"] ELSE order
  /\ submit' = [submit EXCEPT !.pc = "over"]
  /\ Submitted /\ UNCHANGED <<left, lane>>

Submit == SubmitFails \/ InsertOrder \/ SetTotal \/ SetRunning \/ Dispatch \/ SubmitReturns

-----------------------------------------------------------------------------
(* Cancel, HandleRevocation and the budget part of SweepOnce: each reads   *)
(* the order's state and then sets it.                                     *)
Ending == UNCHANGED <<world, submit, lane, worker, results, reducer, database>>

(* Mutant: the sweep lists every order, not the RUNNING ones *)
Endable_Any(e) ==
  CASE e = "cancel" -> order.state \in {"PENDING", "RUNNING"}
    [] e = "revoke" -> order.state = "RUNNING"
    [] e = "sweep"  -> order.state # "none" /\ late

Endable(e) ==
  CASE e = "cancel" -> order.state \in {"PENDING", "RUNNING"}
    [] e = "revoke" -> order.state = "RUNNING"
    [] e = "sweep"  -> order.state = "RUNNING" /\ late

Cancel ==
  /\ ender["cancel"] = "idle" /\ Endable("cancel")
  /\ Spend("cancels")
  /\ ender' = [ender EXCEPT !["cancel"] = "set"]
  /\ Ending /\ UNCHANGED <<late, revoked, order>>

(* the revocation event reaches the workers' caches and the orchestrator   *)
HandleRevocation ==
  /\ ender["revoke"] = "idle"
  /\ Spend("revokes")
  /\ revoked' = TRUE
  /\ ender' = [ender EXCEPT !["revoke"] = IF Endable("revoke") THEN "set" ELSE @]
  /\ Ending /\ UNCHANGED <<late, order>>

SweepOnce ==
  /\ ender["sweep"] = "idle" /\ Endable("sweep")
  /\ ender' = [ender EXCEPT !["sweep"] = "set"]
  /\ Ending /\ UNCHANGED <<left, late, revoked, order>>

SetEnded(e) ==
  /\ ender[e] = "set"
  /\ order' = [order EXCEPT !.state = IF e = "sweep" THEN "PARTIAL" ELSE "CANCELLED"]
  /\ ender' = [ender EXCEPT ![e] = "idle"]
  /\ Ending /\ UNCHANGED <<left, late, revoked>>

SetEndedFails(e) ==
  /\ ender[e] = "set"
  /\ Spend("faults")
  /\ ender' = [ender EXCEPT ![e] = "idle"]
  /\ Ending /\ UNCHANGED <<late, revoked, order>>

End == Cancel \/ HandleRevocation \/ SweepOnce
       \/ \E e \in Enders : SetEnded(e) \/ SetEndedFails(e)

-----------------------------------------------------------------------------
(* discover.results.  A message id is published once per duplicate window: *)
(* after it (left.windows) the copy is stored as well.                     *)
Finding(t, f) == [kind |-> "finding", task |-> t, f |-> f, failed |-> FALSE]
Done(t, bad)  == [kind |-> "done", task |-> t, f |-> <<>>, failed |-> bad]

SameId(m, r) == m.kind = r.kind /\ m.task = r.task /\ (m.kind = "finding" => m.f.asset = r.f.asset)
Sent(m)      == \E i \in DOMAIN results : SameId(m, results[i].m)
Stored(m)    == results' = Append(results, [m |-> m, st |-> "new", n |-> 0])

PublishResult(m) ==
  \/ ~ Sent(m) /\ Stored(m) /\ UNCHANGED left
  \/ Sent(m) /\ UNCHANGED <<left, results>>
  \/ Sent(m) /\ Spend("windows") /\ Stored(m)

(* the findings a source reports for a seed, in the order of its answer    *)
Reports(t) == LET k == <<t.seed, t.source>> IN
              IF k \in DOMAIN world.finds THEN world.finds[k] ELSE <<>>

-----------------------------------------------------------------------------
(* Worker.handle *)
Working == UNCHANGED <<world, late, revoked, order, submit, ender, reducer, database>>

Settle(t, st) == lane' = [lane EXCEPT ![t].status = st]
(* NAK, or the AckWait is over: delivered again unless MaxDeliver is reached *)
Again(n)      == IF n < MaxDeliver THEN "queued" ELSE "dead"

Fetch(w) ==
  /\ worker[w].pc = "idle" /\ w \in world.workers
  /\ \E t \in DOMAIN lane :
       /\ lane[t].status = "queued"
       /\ lane' = [lane EXCEPT ![t].status = "held", ![t].n = @ + 1]
       /\ worker' = [worker EXCEPT ![w] = [pc |-> "check", task |-> t, n |-> lane[t].n + 1,
                                            todo |-> Reports(t)]]
  /\ Working /\ UNCHANGED <<left, results>>

(* the order cannot be read: NAK *)
CheckFails(w) ==
  /\ worker[w].pc = "check"
  /\ Spend("faults")
  /\ Settle(worker[w].task, Again(worker[w].n))
  /\ worker' = [worker EXCEPT ![w] = Free]
  /\ Working /\ UNCHANGED results

(* VerifyTaskToken: no task carries a token, and only R0 needs none; an    *)
(* expanded task is R0 whatever the order's class.                         *)
Refused(t) == revoked \/ (t.from = "plan" /\ world.risk # "R0")

Check(w) ==
  /\ worker[w].pc = "check"
  /\ LET t == worker[w].task IN
       \/ /\ order.state # "RUNNING"
          /\ worker' = [worker EXCEPT ![w].pc = "skip"]
          /\ UNCHANGED lane
       \/ /\ order.state = "RUNNING" /\ Refused(t)
          /\ Settle(t, "acked")
          /\ worker' = [worker EXCEPT ![w] = Free]
       \/ /\ order.state = "RUNNING" /\ ~ Refused(t)
          /\ worker' = [worker EXCEPT ![w].pc = "run"]
          /\ UNCHANGED lane
  /\ Working /\ UNCHANGED <<left, results>>

Emit(w) ==
  /\ worker[w].pc = "run" /\ worker[w].todo # <<>>
  /\ worker[w].task.source \notin world.broken
  /\ PublishResult(Finding(worker[w].task, Head(worker[w].todo)))
  /\ worker' = [worker EXCEPT ![w].todo = Tail(@)]
  /\ Working /\ UNCHANGED lane

(* the source or a publish fails: NAK until the last attempt, then the     *)
(* task is reported failed; missing credentials are not retried            *)
ConnectorFails(w) ==
  /\ worker[w].pc = "run"
  /\ LET t == worker[w].task IN
       /\ IF t.source \in world.broken THEN UNCHANGED left ELSE Spend("faults")
       /\ IF worker[w].n < MaxDeliveries /\ t.source \notin world.broken
          THEN Settle(t, Again(worker[w].n)) /\ worker' = [worker EXCEPT ![w] = Free]
          ELSE worker' = [worker EXCEPT ![w].pc = "fail"] /\ UNCHANGED lane
  /\ Working /\ UNCHANGED results

(* publishDone, whose failure is only logged *)
Report(w) ==
  /\ \/ worker[w].pc = "run" /\ worker[w].todo = <<>> /\ worker[w].task.source \notin world.broken
     \/ worker[w].pc \in {"skip", "fail"}
  /\ \/ /\ PublishResult(Done(worker[w].task, worker[w].pc # "run"))
        /\ lane' = [lane EXCEPT ![worker[w].task].told = TRUE]
     \/ Spend("faults") /\ UNCHANGED <<results, lane>>
  /\ worker' = [worker EXCEPT ![w].pc = "ack"]
  /\ Working

AckTask(w) ==
  /\ worker[w].pc = "ack"
  /\ Settle(worker[w].task, "acked")
  /\ worker' = [worker EXCEPT ![w] = Free]
  /\ Working /\ UNCHANGED <<left, results>>

WorkerCrash(w) ==
  /\ worker[w].pc # "idle"
  /\ Spend("crashes")
  /\ worker' = [worker EXCEPT ![w] = Free]
  /\ Working /\ UNCHANGED <<lane, results>>

(* The AckWait of two minutes ends: always for a message nobody works on,  *)
(* and (left.expiries) for one whose batch takes longer than that.         *)
Held(t) == \E w \in Worker : worker[w].pc # "idle" /\ worker[w].task = t

TaskExpires(t) ==
  /\ lane[t].status = "held"
  /\ IF Held(t) THEN Spend("expiries") ELSE UNCHANGED left
  /\ Settle(t, Again(lane[t].n))
  /\ Working /\ UNCHANGED <<worker, results>>

Work == \/ \E w \in Worker : \/ Fetch(w) \/ CheckFails(w) \/ Check(w) \/ Emit(w)
                             \/ ConnectorFails(w) \/ Report(w) \/ AckTask(w)
                             \/ WorkerCrash(w)
        \/ \E t \in DOMAIN lane : TaskExpires(t)

-----------------------------------------------------------------------------
(* The reducer: one loop over discover.results.                            *)
Reducing == UNCHANGED <<world, late, revoked, submit, ender, worker>>
Msg      == reducer.m
Go(pc)   == reducer' = [reducer EXCEPT !.pc = pc]

(* first deliveries come in stream order, a redelivery whenever its delay  *)
(* is over                                                                 *)
Take(i) ==
  /\ reducer.pc = "idle"
  /\ \/ results[i].st = "wait"
     \/ results[i].st = "new" /\ \A j \in 1..(i - 1) : results[j].st # "new"
  /\ results' = [results EXCEPT ![i].st = "held", ![i].n = @ + 1]
  /\ reducer' = [Resting EXCEPT !.i = i, !.m = results[i].m,
                                  !.pc = IF results[i].m.kind = "done" THEN "count" ELSE "scope"]
  /\ Reducing /\ UNCHANGED <<left, order, lane, database>>

Finish(st) ==
  /\ results' = [results EXCEPT ![reducer.i].st = st]
  /\ reducer' = Resting

Ack == /\ reducer.pc = "ack"
       /\ Finish("acked")
       /\ Reducing /\ UNCHANGED <<left, order, lane, database>>

Waiting(n) == IF n < MaxDeliver THEN "wait" ELSE "dead"

(* Retry: NakWithDelay.  Every call up to the announcement may fail, and   *)
(* the data platform may have applied the batch it does not answer for; a  *)
(* batch that fails on the last deliveries is audited instead.             *)
RetryMessage ==
  /\ reducer.pc \in {"count", "judge", "close", "scope", "merge", "ingest", "announce"}
  /\ reducer.pc = "ingest" => results[reducer.i].n < MaxDPRetries
  /\ Spend("faults")
  /\ \/ UNCHANGED dp
     \/ reducer.pc = "ingest" /\ dp' = dp \cup {Msg.f.asset}
  /\ Finish(Waiting(results[reducer.i].n))
  /\ Reducing /\ UNCHANGED <<order, lane, assets, gaps>>

(* processDone *)
Count ==
  /\ reducer.pc = "count"
  /\ order' = IF Msg.failed THEN [order EXCEPT !.failed = @ + 1] ELSE [order EXCEPT !.done = @ + 1]
  /\ Go("judge")
  /\ Reducing /\ UNCHANGED <<left, lane, results, database>>

(* Mutant: only the tasks that succeeded are counted *)
Judge_DoneOnly ==
  /\ reducer.pc = "judge"
  /\ IF order.state = "RUNNING" /\ order.total > 0 /\ order.done >= order.total
     THEN reducer' = [reducer EXCEPT !.pc = "close", !.state = "COMPLETED"]
     ELSE Go("ack")
  /\ Reducing /\ UNCHANGED <<left, order, lane, results, database>>

Judge ==
  /\ reducer.pc = "judge"
  /\ IF order.state = "RUNNING" /\ order.total > 0 /\ order.done + order.failed >= order.total
     THEN reducer' = [reducer EXCEPT !.pc = "close",
                        !.state = IF order.failed > 0 THEN "PARTIAL" ELSE "COMPLETED"]
     ELSE Go("ack")
  /\ Reducing /\ UNCHANGED <<left, order, lane, results, database>>

Close ==
  /\ reducer.pc = "close"
  /\ order' = [order EXCEPT !.state = reducer.state]
  /\ Go("ack")
  /\ Reducing /\ UNCHANGED <<left, lane, results, database>>

(* processFinding: the finding of an order that is not open is dropped,    *)
(* one out of scope is quarantined.                                        *)
Scope ==
  /\ reducer.pc = "scope"
  /\ IF order.state \in {"RUNNING", "PENDING"} /\ Msg.f.asset.value \in world.scope
     THEN Go("merge") ELSE Go("ack")
  /\ Reducing /\ UNCHANGED <<left, order, lane, results, database>>

(* Mutant: the endpoints of edges are not checked against the scope *)
Merge_AnyEnd ==
  /\ reducer.pc = "merge"
  /\ assets' = assets \cup {Msg.f.asset} \cup Msg.f.ends
  /\ reducer' = [reducer EXCEPT !.pc = "ingest", !.new = Msg.f.asset \notin assets]
  /\ Reducing /\ UNCHANGED <<left, order, lane, results, dp, gaps>>

(* mergeAsset for the finding and for the endpoints of its edges: only the *)
(* finding's own asset is reported new.                                    *)
Merge ==
  /\ reducer.pc = "merge"
  /\ assets' = assets \cup {Msg.f.asset} \cup {a \in Msg.f.ends : a.value \in world.scope}
  /\ reducer' = [reducer EXCEPT !.pc = "ingest", !.new = Msg.f.asset \notin assets]
  /\ Reducing /\ UNCHANGED <<left, order, lane, results, dp, gaps>>

Ingest ==
  /\ reducer.pc = "ingest"
  /\ dp' = dp \cup {Msg.f.asset}
  /\ Go("announce")
  /\ Reducing /\ UNCHANGED <<left, order, lane, results, assets, gaps>>

(* Mutant: the reducer gives up without an audit event *)
RecordGap_Silent ==
  /\ reducer.pc = "ingest" /\ results[reducer.i].n >= MaxDPRetries
  /\ Spend("faults")
  /\ Go("announce")
  /\ Reducing /\ UNCHANGED <<order, lane, results, database>>

RecordGap ==
  /\ reducer.pc = "ingest" /\ results[reducer.i].n >= MaxDPRetries
  /\ Spend("faults")
  /\ gaps' = gaps \cup {Msg.f.asset}
  /\ Go("announce")
  /\ Reducing /\ UNCHANGED <<order, lane, results, assets, dp>>

Announce ==
  /\ reducer.pc = "announce"
  /\ IF reducer.new /\ Msg.f.asset.type \in {"domain", "subdomain"} /\ ~ Msg.f.wildcard
     THEN Go("expand") ELSE Go("ack")
  /\ Reducing /\ UNCHANGED <<left, order, lane, results, database>>

(* Mutant: the budget is compared before the tasks are added *)
Expand_Before ==
  /\ reducer.pc = "expand"
  /\ LET ts == Expansion(Msg.f.asset) IN
       IF ts = {} \/ order.total > world.maxTasks
       THEN Go("ack")
       ELSE reducer' = [reducer EXCEPT !.pc = "publish", !.todo = ts,
                                       !.total = order.total + Cardinality(ts)]
  /\ Reducing /\ UNCHANGED <<left, order, lane, results, database>>

(* ExpandTasks: the total is read, compared with max_tasks and, once every *)
(* task is published, written back.                                        *)
Expand ==
  /\ reducer.pc = "expand"
  /\ LET ts == Expansion(Msg.f.asset) IN
       IF ts = {} \/ order.total + Cardinality(ts) > world.maxTasks
       THEN Go("ack")
       ELSE reducer' = [reducer EXCEPT !.pc = "publish", !.todo = ts,
                                       !.total = order.total + Cardinality(ts)]
  /\ Reducing /\ UNCHANGED <<left, order, lane, results, database>>

PublishExpanded ==
  /\ reducer.pc = "publish" /\ reducer.todo # {}
  /\ LET t == CHOOSE x \in reducer.todo : TRUE IN
       /\ Publish(t)
       /\ reducer' = [reducer EXCEPT !.todo = @ \ {t}]
  /\ Reducing /\ UNCHANGED <<left, order, results, database>>

(* Mutant: the total is not raised *)
SetExpandedTotal_Kept ==
  /\ reducer.pc = "publish" /\ reducer.todo = {}
  /\ Go("ack")
  /\ Reducing /\ UNCHANGED <<left, order, lane, results, database>>

SetExpandedTotal ==
  /\ reducer.pc = "publish" /\ reducer.todo = {}
  /\ order' = [order EXCEPT !.total = reducer.total]
  /\ Go("ack")
  /\ Reducing /\ UNCHANGED <<left, lane, results, database>>

(* an expansion that fails is only logged *)
ExpandFails ==
  /\ reducer.pc \in {"expand", "publish"}
  /\ Spend("faults")
  /\ Go("ack")
  /\ Reducing /\ UNCHANGED <<order, lane, results, database>>

(* the AckWait of a message its reducer did not settle *)
ResultExpires(i) ==
  /\ results[i].st = "held" /\ reducer.i # i
  /\ results' = [results EXCEPT ![i].st = Waiting(results[i].n)]
  /\ Reducing /\ UNCHANGED <<left, order, lane, reducer, database>>

Process == \/ \E i \in DOMAIN results : Take(i) \/ ResultExpires(i)
           \/ Count \/ Judge \/ Close \/ Scope \/ Merge \/ Ingest \/ Announce
           \/ Expand \/ PublishExpanded \/ SetExpandedTotal \/ Ack
Reduce  == Process \/ RetryMessage \/ RecordGap \/ ExpandFails

-----------------------------------------------------------------------------
BudgetElapses ==
  /\ world.budget /\ ~ late /\ order.state # "none"
  /\ late' = TRUE
  /\ UNCHANGED <<world, left, revoked, order, submit, ender, lane, worker, results, reducer, database>>

(* the orchestrator stops: its calls and its reducer with it *)
Crash ==
  /\ Spend("crashes")
  /\ submit' = IF submit.pc = "new" THEN submit ELSE [submit EXCEPT !.pc = "over"]
  /\ ender' = [e \in Enders |-> "idle"]
  /\ reducer' = Resting
  /\ UNCHANGED <<world, late, revoked, order, lane, worker, results, database>>

Next == Submit \/ End \/ Work \/ Reduce \/ BudgetElapses \/ Crash

(* JetStream redelivers, the loops of the processes go on, the janitor     *)
(* sweeps every 30 s and the budget passes; nothing obliges a call to fail *)
(* or a process to stop.                                                   *)
Fairness ==
  /\ WF_vars(InsertOrder \/ SetTotal \/ SetRunning \/ Dispatch \/ SubmitReturns)
  /\ WF_vars(SweepOnce)
  /\ \A e \in Enders : WF_vars(SetEnded(e))
  /\ \A w \in Worker : /\ WF_vars(Fetch(w)) /\ WF_vars(Check(w)) /\ WF_vars(Emit(w))
                        /\ WF_vars(Report(w)) /\ WF_vars(AckTask(w))
                        /\ WF_vars(ConnectorFails(w) /\ worker[w].task.source \in world.broken)
  /\ WF_vars(\E t \in DOMAIN lane : TaskExpires(t) /\ ~ Held(t))
  /\ WF_vars(Process)
  /\ WF_vars(BudgetElapses)

Spec == Init /\ [][Next]_vars /\ Fairness

-----------------------------------------------------------------------------
(* What went wrong so far: every call that failed, every crash and every   *)
(* message stored twice.                                                   *)
Disturbances == (world.left.faults - left.faults) + (world.left.crashes - left.crashes)
                + (world.left.windows - left.windows)

(* Nothing is about to write the order's state from what it read earlier.  *)
Quiet ==
  /\ order.state \in Ended
  /\ submit.pc = "over"
  /\ \A e \in Enders : ender[e] = "idle"
  /\ reducer.pc \in {"idle", "scope", "count", "judge", "ack"}

(* An ended order stays ended: once the calls that were about to write are *)
(* over, no late done marker, redelivered finding, sweep or revocation     *)
(* reopens it, gives it another end, or adds an asset or a task to it      *)
(* (processDone, processFinding, Cancel, HandleRevocation, SweepOnce).     *)
EndedStaysEnded ==
  [][Quiet => Quiet' /\ order'.state = order.state /\ assets' = assets
              /\ DOMAIN lane' = DOMAIN lane]_vars

(* A completed order is complete: every task that was published has        *)
(* reported, but for one expansion or one marker per call that failed,     *)
(* crash or message stored twice (processDone counts markers, ExpandTasks  *)
(* raises the total after it publishes).                                   *)
CompletedCoversTasks ==
  order.state = "COMPLETED" =>
    Cardinality({t \in DOMAIN lane : ~ lane[t].told})
      <= Disturbances * Cardinality(world.sources)

(* Recursion keeps the budget of tasks: an order publishes no more than    *)
(* max_tasks or its plan, whichever is larger, but for the expansions      *)
(* whose total was never written (ExpandTasks).                            *)
BudgetKept ==
  LET allowed == IF Cardinality(Plan) > world.maxTasks THEN Cardinality(Plan) ELSE world.maxTasks
  IN Cardinality(DOMAIN lane) <= allowed + Disturbances * Cardinality(world.sources)

(* Nothing outside the RoE's scope enters the working store or the data    *)
(* platform, whether a source reports it or an edge names it               *)
(* (processFinding, scopeViolation).                                       *)
OnlyScope == \A a \in assets \cup dp : a.value \in world.scope

(* While the order runs, a finding that was committed and settled is in    *)
(* the data platform or its absence is audited (processFinding's retries). *)
GapIsRecorded ==
  order.state = "RUNNING" =>
    \A i \in DOMAIN results :
      /\ results[i].st = "acked"
      /\ results[i].m.kind = "finding"
      /\ results[i].m.f.asset \in assets
      => results[i].m.f.asset \in dp \cup gaps

(* Everything settles: the order ends, unless it has no time budget and a  *)
(* task was refused or something went wrong; no task and no result waits   *)
(* for ever; what is given up has been delivered MaxDeliver times          *)
(* (handle, runReducer, SweepOnce).                                        *)
EverythingSettles ==
  <>[] /\ \/ order.state # "RUNNING"
          \/ ~ world.budget /\ (Disturbances > 0 \/ revoked \/ world.risk # "R0")
       /\ \A t \in DOMAIN lane : \/ lane[t].status = "acked"
                                 \/ lane[t].status = "dead" /\ lane[t].n = MaxDeliver
       /\ \A i \in DOMAIN results : \/ results[i].st = "acked"
                                    \/ results[i].st = "dead" /\ results[i].n = MaxDeliver
=============================================================================
