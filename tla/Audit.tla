--------------------------------- MODULE Audit ---------------------------------
(***************************************************************************)
(* The audit trail.  platform-core chains its own events in                *)
(* platform.audit_events and, when the database fails, spills them to a    *)
(* file that is replayed at the next start; the gatekeeper chains, per     *)
(* organisation, the events its own services record and those that other   *)
(* modules publish on audit.events; discover keeps its events in a spool   *)
(* and forwards them there.                                                *)
(*                                                                         *)
(* A link is [id, seq, prev, hash]; a hash is the sequence of what it was  *)
(* computed from, so equal hashes mean equal histories.  An event is a     *)
(* pair <<source, number>>.  Who writes is a job: a call in progress, the  *)
(* replay at start, or the handler of the bus consumer (the durable push   *)
(* consumer has one subscriber, which handles one message at a time).      *)
(***************************************************************************)
EXTENDS Integers, FiniteSets, Sequences

CONSTANTS
  Logger,      \* calls of platform-core's Log in progress at a time
  Caller,      \* calls of the gatekeeper's RecordBatch in progress at a time
  Source,      \* of events: platform-core, the gatekeeper's services, spool rows
  Scenario,    \* the environments checked (MCAudit)
  MaxDeliver,  \* deliveries of a message of audit.events
  NoJob

Job == Logger \cup Caller \cup {"replay", "consumer"}

ASSUME JobsAreDistinct ==
  /\ NoJob \notin Job
  /\ Logger \cap Caller = {}
  /\ {"replay", "consumer"} \cap (Logger \cup Caller) = {}

Event == Source \X Nat
Process == {"platform-core", "gatekeeper", "discover"}
Budget == {"faults", "unknown", "tears", "losses"} \cup Process

(* a scenario: the events platform-core logs, the batches the gatekeeper's *)
(* services record, the rows of discover's spool, and how often a          *)
(* statement fails, a commit's answer is lost, a write to the spill file   *)
(* goes wrong, an acknowledgement is lost, each process stops              *)
ASSUME ScenarioAssumption == \A w \in Scenario :
  /\ w.core \subseteq Event
  /\ \A evs \in w.calls : evs \in Seq(Event) /\ evs # <<>>
  /\ w.rows \subseteq Source
  /\ w.left \in [Budget -> Nat]

ASSUME MaxDeliverAssumption == MaxDeliver \in Nat \ {0}

VARIABLES
  world,   \* the scenario, chosen once
  left,    \* what the environment may still do
  chain,   \* partition -> its links, in the order they were committed
  lock,    \* partition -> the job whose transaction holds its advisory lock
  job,     \* the writers
  core,    \* platform-core: "down", or "up" once the replay has ended
  lines,   \* the spill file: the event of each line, and whether it parses
  torn,    \* the file ends in the middle of a line
  raised,  \* events handed to a writer
  told,    \* events whose writer was told they are durable
  msg,     \* message of audit.events -> its delivery
  spool    \* discover.audit_spool: row -> what the forwarder did with it

vars == <<world, left, chain, lock, job, core, lines, torn, raised, told, msg, spool>>
file == <<core, lines, torn>>
bus  == <<msg, spool>>

-----------------------------------------------------------------------------
(* "core" is platform.audit_events, "platform" the gatekeeper's partition  *)
(* of events without an organisation, "org" that of an organisation.       *)
Partition == {"core", "platform", "org"}

(* the work of a job: its phase, partition, the events it has yet to chain, *)
(* the rows it has inserted, the end of the chain as it sees it, and the   *)
(* line of the spill file it is at                                         *)
At(pc, p, evs, k) == [pc |-> pc, part |-> p, evs |-> evs, rows |-> <<>>,
                      seq |-> 0, hash |-> <<>>, line |-> k]
Idle == At("idle", "core", <<>>, 0)
Working(j) == job[j].pc \in {"lock", "tip", "insert", "commit"}

(* sha256(prev_hash || canonical(event without its hash)) *)
Hash(prev, seq, e) == Append(prev, <<seq, e>>)
Link(prev, seq, e) == [id |-> e, seq |-> seq, prev |-> prev, hash |-> Hash(prev, seq, e)]

Ids(rows)  == {rows[n].id : n \in DOMAIN rows}
Chained    == UNION {Ids(chain[p]) : p \in Partition}
OnDisk     == {lines[n].ev : n \in DOMAIN lines}

(* the transaction of j ends and gives up the lock of its partition *)
Release(j) == lock' = [p \in Partition |-> IF lock[p] = j THEN NoJob ELSE lock[p]]

Spend(what) == /\ left[what] > 0
               /\ left' = [left EXCEPT ![what] = @ - 1]

Init ==
  /\ world \in Scenario
  /\ left = world.left
  /\ chain = [p \in Partition |-> <<>>]
  /\ lock = [p \in Partition |-> NoJob]
  /\ job = [j \in Job |-> Idle]
  /\ core = "up" /\ lines = <<>> /\ torn = FALSE
  /\ raised = {} /\ told = {}
  /\ msg = <<>>
  /\ spool = [r \in world.rows |-> [status |-> "none", sent |-> 0]]

-----------------------------------------------------------------------------
(* The writers.                                                            *)

(* audit.Log *)
LogEvent(j, e) ==
  /\ core = "up" /\ job[j].pc = "idle"
  /\ e \notin raised
  /\ raised' = raised \cup {e}
  /\ job' = [job EXCEPT ![j] = At("lock", "core", <<e>>, 0)]
  /\ UNCHANGED <<world, left, chain, lock, file, told, bus>>

(* RecordBatch of one partition *)
RecordBatch(j, evs) ==
  /\ job[j].pc = "idle"
  /\ {evs[n] : n \in DOMAIN evs} \cap raised = {}
  /\ raised' = raised \cup {evs[n] : n \in DOMAIN evs}
  /\ job' = [job EXCEPT ![j] = At("lock", "org", evs, 0)]
  /\ UNCHANGED <<world, left, chain, lock, file, told, bus>>

(* the consumer takes a message: handleBusMessage *)
Consume(m) ==
  /\ job["consumer"].pc = "idle"
  /\ m \in DOMAIN msg /\ msg[m].status = "queued"
  /\ msg' = [msg EXCEPT ![m] = [status |-> "flight", left |-> @.left - 1]]
  /\ job' = [job EXCEPT !["consumer"] = At("exists", "platform", <<m>>, 0)]
  /\ UNCHANGED <<world, left, chain, lock, file, raised, told, spool>>

Acked(m) == msg' = [msg EXCEPT ![m].status = "done"]

Nacked(S) == msg' = [m \in DOMAIN msg |->
  IF m \in S /\ msg[m].status = "flight"
  THEN [msg[m] EXCEPT !.status = IF msg[m].left > 0 THEN "queued" ELSE "dead"] ELSE msg[m]]

Exists_Unchecked ==   \* mutant: a redelivered message is recorded again
  /\ job["consumer"].pc = "exists"
  /\ job' = [job EXCEPT !["consumer"].pc = "lock"]
  /\ UNCHANGED <<world, left, chain, lock, file, raised, told, bus>>

(* exists: a message whose event is chained is acknowledged at once *)
Exists ==
  LET m == job["consumer"].evs[1] IN
  /\ job["consumer"].pc = "exists"
  /\ IF m \in Chained
     THEN Acked(m) /\ job' = [job EXCEPT !["consumer"] = Idle]
     ELSE job' = [job EXCEPT !["consumer"].pc = "lock"] /\ UNCHANGED msg
  /\ UNCHANGED <<world, left, chain, lock, file, raised, told, spool>>

-----------------------------------------------------------------------------
(* The transaction, append and recordPartition: lock, tip, rows, commit.   *)

Lock_Free(j) ==   \* mutant: no advisory lock
  /\ job[j].pc = "lock"
  /\ job' = [job EXCEPT ![j].pc = "tip"]
  /\ UNCHANGED <<world, left, chain, lock, file, raised, told, bus>>

Lock(j) ==
  LET p == job[j].part IN
  /\ job[j].pc = "lock"
  /\ lock[p] = NoJob
  /\ lock' = [lock EXCEPT ![p] = j]
  /\ job' = [job EXCEPT ![j].pc = "tip"]
  /\ UNCHANGED <<world, left, chain, file, raised, told, bus>>

ReadTip(j) ==
  LET rows == chain[job[j].part]
      n == Len(rows) IN
  /\ job[j].pc = "tip"
  /\ job' = [job EXCEPT ![j].pc = "insert",
                        ![j].seq = IF n = 0 THEN 0 ELSE rows[n].seq,
                        ![j].hash = IF n = 0 THEN <<>> ELSE rows[n].hash]
  /\ UNCHANGED <<world, left, chain, lock, file, raised, told, bus>>

(* platform.audit_events has a unique event_id, the gatekeeper's table has *)
(* not                                                                     *)
Refused(j) == job[j].part = "core" /\ Head(job[j].evs) \in Ids(chain["core"])

Insert(j) ==
  LET link == Link(job[j].hash, job[j].seq + 1, Head(job[j].evs)) IN
  /\ job[j].pc = "insert"
  /\ ~Refused(j)
  /\ job' = [job EXCEPT ![j] = [job[j] EXCEPT
       !.rows = Append(job[j].rows, link), !.seq = link.seq, !.hash = link.hash,
       !.evs = Tail(job[j].evs),
       !.pc = IF Len(job[j].evs) = 1 THEN "commit" ELSE "insert"]]
  /\ UNCHANGED <<world, left, chain, lock, file, raised, told, bus>>

(* what the writer does when its transaction is committed and it knows     *)
Succeed(j) ==
  \/ /\ j \in Logger \cup Caller
     /\ told' = told \cup Ids(job[j].rows)
     /\ job' = [job EXCEPT ![j] = Idle]
     /\ UNCHANGED <<file, bus>>
  \/ /\ j = "replay"
     /\ job' = [job EXCEPT ![j] = At("next", "core", <<>>, job[j].line + 1)]
     /\ UNCHANGED <<file, told, bus>>
  \/ /\ j = "consumer"
     /\ Acked(job[j].rows[1].id)
     /\ told' = told \cup Ids(job[j].rows)
     /\ job' = [job EXCEPT ![j] = Idle]
     /\ UNCHANGED <<file, spool>>

StopReplay == /\ job' = [job EXCEPT !["replay"] = Idle]
              /\ core' = "up"
              /\ UNCHANGED <<lines, torn>>

(* ... and when it failed, or looks so: Log spills, the replay stops, the  *)
(* consumer naks, a caller is refused                                      *)
Fail(j) ==
  LET evs == [n \in DOMAIN job[j].rows |-> job[j].rows[n].id] \o job[j].evs IN
  \/ /\ j \in Logger
     /\ job' = [job EXCEPT ![j] = At("spill", "core", evs, 0)]
     /\ UNCHANGED <<file, bus>>
  \/ /\ j \in Caller
     /\ job' = [job EXCEPT ![j] = Idle]
     /\ UNCHANGED <<file, bus>>
  \/ /\ j = "replay"
     /\ StopReplay
     /\ UNCHANGED bus
  \/ /\ j = "consumer"
     /\ Nacked({evs[1]})
     /\ job' = [job EXCEPT ![j] = Idle]
     /\ UNCHANGED <<file, spool>>

Committed(j) == chain' = [chain EXCEPT ![job[j].part] = @ \o job[j].rows]

Commit(j) ==
  /\ job[j].pc = "commit"
  /\ Committed(j) /\ Release(j) /\ Succeed(j)
  /\ UNCHANGED <<world, left, raised>>

(* the commit took effect, its answer did not arrive *)
CommitUnknown(j) ==
  /\ job[j].pc = "commit"
  /\ Spend("unknown")
  /\ Committed(j) /\ Release(j) /\ Fail(j)
  /\ UNCHANGED <<world, raised, told>>

(* a statement fails: the transaction is rolled back *)
StatementFails(j) ==
  /\ job[j].pc = "exists" \/ Working(j)
  /\ Spend("faults")
  /\ Release(j) /\ Fail(j)
  /\ UNCHANGED <<world, chain, raised, told>>

(* a line that is chained already: only the replay, since Log makes a new  *)
(* id for each event                                                       *)
Duplicate ==
  /\ job["replay"].pc = "insert" /\ Refused("replay")
  /\ Release("replay") /\ StopReplay
  /\ UNCHANGED <<world, left, chain, raised, told, bus>>

-----------------------------------------------------------------------------
(* The spill file.                                                         *)

Spilled(e) == lines' = Append(lines, [ev |-> e, parses |-> ~torn]) /\ torn' = FALSE

(* Log reports the event as spilled, which the dispatch path takes for     *)
(* audited                                                                 *)
Spill(j) ==
  LET e == job[j].evs[1] IN
  /\ job[j].pc = "spill"
  /\ Spilled(e)
  /\ told' = told \cup {e}
  /\ job' = [job EXCEPT ![j] = Idle]
  /\ UNCHANGED <<world, left, chain, lock, core, raised, bus>>

(* the line is written in part, or in full but not synced: Log fails *)
SpillFails(j) ==
  /\ job[j].pc = "spill"
  /\ Spend("tears")
  /\ \/ torn' = TRUE /\ UNCHANGED lines
     \/ Spilled(job[j].evs[1])
  /\ job' = [job EXCEPT ![j] = Idle]
  /\ UNCHANGED <<world, chain, lock, core, raised, told, bus>>

(* main: the process starts, and replays the file before it serves *)
Start ==
  /\ core = "down" /\ job["replay"].pc = "idle"
  /\ job' = [job EXCEPT !["replay"] = At("next", "core", <<>>, 1)]
  /\ UNCHANGED <<world, left, chain, lock, file, raised, told, bus>>

ReplayLine ==
  LET k == job["replay"].line IN
  /\ job["replay"].pc = "next" /\ k \in DOMAIN lines
  /\ IF lines[k].parses
     THEN /\ job' = [job EXCEPT !["replay"] = At("lock", "core", <<lines[k].ev>>, k)]
          /\ UNCHANGED file
     ELSE StopReplay
  /\ UNCHANGED <<world, left, chain, lock, raised, told, bus>>

Truncate_Early ==   \* mutant: the file is emptied after its first line
  /\ job["replay"].pc = "next" /\ job["replay"].line > 1
  /\ lines' = <<>> /\ torn' = FALSE /\ core' = "up"
  /\ job' = [job EXCEPT !["replay"] = Idle]
  /\ UNCHANGED <<world, left, chain, lock, raised, told, bus>>

(* every line is chained again: the file is truncated *)
Truncate ==
  /\ job["replay"].pc = "next" /\ job["replay"].line > Len(lines)
  /\ \/ lines' = <<>> /\ torn' = (torn /\ lines = <<>>) /\ UNCHANGED left
     \/ Spend("tears") /\ lines # <<>> /\ UNCHANGED <<lines, torn>>
  /\ job' = [job EXCEPT !["replay"] = Idle]
  /\ core' = "up"
  /\ UNCHANGED <<world, chain, lock, raised, told, bus>>

-----------------------------------------------------------------------------
(* Discover's spool and its forwarder.                                     *)

Emit(r) ==
  /\ spool[r].status = "none"
  /\ spool' = [spool EXCEPT ![r].status = "pending"]
  /\ UNCHANGED <<world, left, chain, lock, job, file, raised, told, msg>>

(* forwardOne makes a new event of the row each time it is tried *)
Publish(r) ==
  /\ spool[r].status = "pending"
  /\ msg' = [m \in DOMAIN msg \cup {<<r, spool[r].sent + 1>>} |->
               IF m \in DOMAIN msg THEN msg[m] ELSE [status |-> "queued", left |-> MaxDeliver]]
  /\ \/ spool' = [spool EXCEPT ![r] = [status |-> "mark", sent |-> @.sent + 1]]
        /\ UNCHANGED left
     \/ spool' = [spool EXCEPT ![r].sent = @ + 1]   \* the broker's answer is lost
        /\ Spend("faults")
  /\ UNCHANGED <<world, chain, lock, job, file, raised, told>>

Mark(r) ==
  /\ spool[r].status = "mark"
  /\ \/ spool' = [spool EXCEPT ![r].status = "forwarded"] /\ UNCHANGED left
     \/ spool' = [spool EXCEPT ![r].status = "pending"] /\ Spend("faults")
  /\ UNCHANGED <<world, chain, lock, job, file, raised, told, msg>>

(* the rows are worked one by one, in order *)
Forward(r) ==
  /\ \A q \in world.rows : spool[q].status = "mark" => q = r
  /\ Publish(r) \/ Mark(r)

(* an acknowledgement is lost: the message comes again *)
AckLost(m) ==
  /\ msg[m].status = "done" /\ msg[m].left > 0
  /\ Spend("losses")
  /\ msg' = [msg EXCEPT ![m].status = "queued"]
  /\ UNCHANGED <<world, chain, lock, job, file, raised, told, spool>>

-----------------------------------------------------------------------------
(* Crashes: what was not committed is rolled back, a commit on its way may *)
(* still take effect.                                                      *)

Dies(S, C) ==
  /\ C \subseteq {j \in S : job[j].pc = "commit"}
  /\ chain' = [p \in Partition |->
       IF \E j \in C : job[j].part = p
       THEN chain[p] \o job[CHOOSE j \in C : job[j].part = p].rows ELSE chain[p]]
  /\ lock' = [p \in Partition |-> IF lock[p] \in S THEN NoJob ELSE lock[p]]
  /\ job' = [j \in Job |-> IF j \in S THEN Idle ELSE job[j]]

CoreCrash(C) ==
  /\ Spend("platform-core")
  /\ Dies(Logger \cup {"replay"}, C)
  /\ core' = "down"
  /\ UNCHANGED <<world, lines, torn, raised, told, bus>>

GatekeeperCrash(C) ==
  /\ Spend("gatekeeper")
  /\ Dies(Caller \cup {"consumer"}, C)
  /\ Nacked(DOMAIN msg)
  /\ UNCHANGED <<world, file, raised, told, spool>>

DiscoverCrash ==
  /\ Spend("discover")
  /\ spool' = [r \in world.rows |-> IF spool[r].status = "mark"
                                    THEN [spool[r] EXCEPT !.status = "pending"] ELSE spool[r]]
  /\ UNCHANGED <<world, chain, lock, job, file, raised, told, msg>>

-----------------------------------------------------------------------------
Transaction(j) == Lock(j) \/ ReadTip(j) \/ Insert(j) \/ Commit(j)

Writers ==
  \/ \E j \in Logger, e \in world.core : LogEvent(j, e)
  \/ \E j \in Caller, evs \in world.calls : RecordBatch(j, evs)
  \/ \E j \in Logger : Spill(j)

Faults ==
  \/ \E j \in Job : CommitUnknown(j) \/ StatementFails(j)
  \/ \E j \in Logger : SpillFails(j)
  \/ \E m \in DOMAIN msg : AckLost(m)
  \/ \E C \in SUBSET Job : CoreCrash(C) \/ GatekeeperCrash(C)
  \/ DiscoverCrash

Consumer == \/ \E m \in DOMAIN msg : Consume(m)
            \/ Exists
Replay   == Start \/ ReplayLine \/ Duplicate \/ Truncate
Forwarder == \E r \in world.rows : Emit(r) \/ Forward(r)

Next ==
  \/ \E j \in Job : Transaction(j)
  \/ Writers
  \/ Consumer
  \/ Replay
  \/ Forwarder
  \/ Faults

Spec == Init /\ [][Next]_vars
-----------------------------------------------------------------------------
(* Properties.                                                             *)

History == Seq(Nat \X Event)
Row  == [id : Event, seq : Nat \ {0}, prev : History, hash : History]
Work == [pc : {"idle", "exists", "lock", "tip", "insert", "commit", "spill", "next"},
         part : Partition, evs : Seq(Event), rows : Seq(Row), seq : Nat, hash : History,
         line : Nat]
Delivery == [status : {"queued", "flight", "done", "dead"}, left : 0..MaxDeliver]
SpoolRow == [status : {"none", "pending", "mark", "forwarded"}, sent : Nat]

(* the rows, jobs, lines and messages are what they should be; no message  *)
(* is delivered more often than MaxDeliver (consumer.go:52)                *)
TypeOK ==
  /\ world \in Scenario /\ left \in [Budget -> Nat]
  /\ chain \in [Partition -> Seq(Row)]
  /\ lock \in [Partition -> Job \cup {NoJob}]
  /\ job \in [Job -> Work]
  /\ core \in {"up", "down"}
  /\ lines \in Seq([ev : Event, parses : BOOLEAN]) /\ torn \in BOOLEAN
  /\ raised \subseteq Event /\ told \subseteq Event
  /\ DOMAIN msg \subseteq Event /\ \A m \in DOMAIN msg : msg[m] \in Delivery
  /\ spool \in [world.rows -> SpoolRow]

(* VerifyChain and VerifyRange find every chain valid at every moment,     *)
(* whichever writers race for it, fail half way or stop                    *)
TipHash(rows) == IF rows = <<>> THEN <<>> ELSE rows[Len(rows)].hash
Intact(rows) == \A n \in DOMAIN rows :
  rows[n] = Link(IF n = 1 THEN <<>> ELSE rows[n - 1].hash, n, rows[n].id)

ChainIntact == \A p \in Partition : Intact(chain[p])

(* an event that came over the bus, or through the spill file, is chained  *)
(* at most once whatever was redelivered, replayed or answered too late    *)
(* ("a duplicate redelivery is acked without double-chaining",             *)
(* consumer.go:90)                                                         *)
ChainedOnce == \A p \in {"core", "platform"} : \A k, n \in DOMAIN chain[p] :
                 chain[p][k].id = chain[p][n].id => k = n

(* the trail keeps its promise: chains only grow, a spilled line is given  *)
(* up only when it is chained, and Log and RecordBatch answer "durable"    *)
(* only of what is (Record "must only return nil when the event is durably *)
(* persisted", audit.go:145)                                               *)
AL == INSTANCE AuditLog WITH
        log <- [p \in Partition |-> [n \in DOMAIN chain[p] |-> chain[p][n].id]],
        owed <- OnDisk
ImplementsAuditLog == AL!Spec
================================================================================
