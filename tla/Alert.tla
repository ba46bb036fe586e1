-------------------------------- MODULE Alert --------------------------------
(***************************************************************************)
(* Herald, the notification egress (services/alert): alerts arrive on the  *)
(* bus or over HTTP, are checked against their authorization context,      *)
(* deduplicated, correlated into incidents and routed to deliveries; a     *)
(* dispatcher works the deliveries and an escalation loop re-notifies      *)
(* incidents nobody has acknowledged.  One Node process runs all of it, so *)
(* every await is a point where another handler, timer or request may run: *)
(* each action below is the code between two awaits that matter, and what  *)
(* a handler read earlier is kept in its job.                              *)
(*                                                                         *)
(* Time is a set of flags (a timer is "none", "wait" or "due").  The audit *)
(* spool, lifecycle messages, templates and payloads are left out; so is   *)
(* the acknowledgement nonce (a replayed one changes nothing) and an event *)
(* outside the 24 hour window, which is refused before it is stored.       *)
(***************************************************************************)
EXTENDS Integers, FiniteSets, Sequences, SequencesExt

CONSTANTS
  Scenario,      \* the environments checked (MCAlert)
  EventName,     \* every event of every scenario
  MaxIncident,   \* bound on incidents
  MaxDeliver,    \* deliveries of a bus message, max_deliver of herald-ingest
  MaxAttempts,   \* maxDeliveryAttempts
  MaxRepeats,    \* repeats of an escalation policy's last step
  Burst          \* capacity of a destination's token bucket

ASSUME AlertBounds ==
  /\ {MaxIncident, MaxDeliver, MaxAttempts, Burst} \subseteq Nat \ {0}
  /\ MaxRepeats \in Nat

(* what the environment of a scenario may do so many times                 *)
Limits == {"faults", "crashes", "acks", "resolves", "windows", "flips", "slow", "overlaps"}

ASSUME ScenariosAreFinite ==
  \A s \in Scenario :
    /\ IsFiniteSet(DOMAIN s.event) /\ IsFiniteSet(s.runs) /\ IsFiniteSet(s.scans)
    /\ s.left \in [Limits -> Nat] /\ s.steps \in Nat

VARIABLES
  world,      \* the scenario, chosen once
  left,       \* what the environment may still do
  jwks,       \* the signing keys and manifests can be fetched, or are cached
  ingress,    \* event -> its bus message or HTTP request
  alert,      \* event -> its row in alert.alerts
  dedup,      \* fingerprint -> its row in alert.dedup_state
  incident,   \* alert.incidents in creation order
  delivery,   \* idempotency key -> its row in alert.deliveries
  bucket,     \* channel -> tokens and pause of its bucket
  job,        \* ingest and retry handlers
  run,        \* dispatcher passes
  scan        \* escalation passes

vars == <<world, left, jwks, ingress, alert, dedup, incident, delivery, bucket,
          job, run, scan>>
store == <<ingress, alert, dedup, incident, delivery>>

-----------------------------------------------------------------------------
Event       == DOMAIN world.event
Fingerprint == {world.event[e].fp : e \in Event}
Retriers    == {"retry1", "retry2"}
Closed      == {"acknowledged", "resolved"}

NoRow   == [state |-> "open", authz |-> "absent", timer |-> "none", old |-> FALSE,
            inc |-> 0, routed |-> FALSE]
NoDedup == [count |-> 0, live |-> FALSE]
NoChain == [policy |-> FALSE, step |-> 0, repeats |-> 0, timer |-> "none"]
Unseen  == [sev |-> 0, ack |-> FALSE, acked |-> FALSE, policy |-> FALSE]
Idle    == [pc |-> "idle", e |-> "", ver |-> "", inc |-> 0, seen |-> Unseen,
            todo |-> {}]
IdleRun == [todo |-> <<>>, key |-> <<>>, out |-> ""]
IdleScan == [todo |-> <<>>, inc |-> 0, next |-> NoChain, exh |-> FALSE]
Full    == [tokens |-> Burst, paused |-> FALSE]

(* f without the arguments in S *)
Without(f, S) == [x \in DOMAIN f \ S |-> f[x]]

Busy(p)    == job[p].pc # "idle"
Running(d) == run[d].key # <<>> \/ DOMAIN run[d].todo # {}
Scanning(s) == scan[s].inc # 0 \/ DOMAIN scan[s].todo # {}

(* Mutant: the keys are unreachable and the token is believed *)
Verify_Believed(e) ==
  IF world.event[e].auth = "open" THEN "none"
  ELSE IF world.event[e].auth # "missing" /\ (~jwks \/ world.event[e].auth = "good")
       THEN "verified" ELSE "rejected"

(* AuthzEnforcer.verify: the signing keys are fetched only once the event  *)
(* is known to need a token and to carry one.                              *)
Verify(e) ==
  LET a == world.event[e].auth IN
  CASE a = "open"    -> "none"
    [] a = "missing" -> "rejected"
    [] OTHER -> IF ~jwks THEN "unavailable"
                ELSE IF a = "good" THEN "verified" ELSE "rejected"

(* dedupVerdictFor *)
VerdictFor(count, every) ==
  IF count <= 1 THEN "new"
  ELSE IF every > 0 /\ count % every = 0 THEN "renotify" ELSE "duplicate"

(* policyMatches, over the severity and the acknowledgement the policy     *)
(* looks at (the acknowledgement is taken to be recent).                   *)
PolicyMatches(p, inc) ==
  /\ inc.sev >= p.sev
  /\ ~ (p.quiet /\ inc.acked)

(* routeIncident and applyEgressPolicy: the first matching policy of each  *)
(* channel, the policies being in priority order; then the destinations    *)
(* the organisation has not approved are dropped.                          *)
Targets(inc) ==
  LET ps == SelectSeq(world.policies, LAMBDA p : PolicyMatches(p, inc))
      firsts(c) == {k \in DOMAIN ps : /\ c \in ps[k].channels
                                      /\ \A j \in 1..(k - 1) : c \notin ps[j].channels}
  IN {c \in world.channels \cap world.egress : firsts(c) # {}}

(* the escalation policy of the first policy that contributed a target     *)
Attachable(inc) ==
  LET ps == SelectSeq(world.policies, LAMBDA p : PolicyMatches(p, inc))
      contributes(k) == \E c \in ps[k].channels :
                           \A j \in 1..(k - 1) : c \notin ps[j].channels
  IN \E k \in DOMAIN ps : contributes(k) /\ ps[k].escalates

(* insertDelivery: ON CONFLICT (org_id, idempotency_key) DO NOTHING        *)
Queue(trigger, cs, i) ==
  LET keys == {<<trigger, c>> : c \in cs}
      row  == [inc |-> i, status |-> "pending", attempts |-> 0, due |-> TRUE,
               tries |-> 0, oks |-> 0]
  IN [k \in DOMAIN delivery \cup keys |->
        IF k \in DOMAIN delivery THEN delivery[k] ELSE row]

-----------------------------------------------------------------------------
Init ==
  /\ world \in Scenario
  /\ left = world.left
  /\ jwks = world.jwks
  /\ ingress = [e \in Event |-> [status |-> "queued", left |-> MaxDeliver]]
  /\ alert = [e \in Event |-> NoRow]
  /\ dedup = [f \in Fingerprint |-> NoDedup]
  /\ incident = <<>>
  /\ delivery = <<>>
  /\ bucket = [c \in world.channels |-> Full]
  /\ job = [p \in world.procs |-> Idle]
  /\ run = [d \in world.runs |-> IdleRun]
  /\ scan = [s \in world.scans |-> IdleScan]

(* The handler p is done: a bus message is acknowledged, a request         *)
(* answered, a retry pass goes on with its next row.                       *)
Done(p) ==
  /\ job' = [job EXCEPT ![p] = IF p \in Retriers /\ job[p].todo # {}
                               THEN [Idle EXCEPT !.pc = "next", !.todo = job[p].todo]
                               ELSE Idle]
  /\ ingress' = IF p \in Retriers THEN ingress
                ELSE [ingress EXCEPT ![job[p].e].status = "done"]

Goto(p, pc) == /\ job' = [job EXCEPT ![p].pc = pc]
               /\ ingress' = ingress

-----------------------------------------------------------------------------
(* Ingest.                                                                 *)

(* the consumer takes the next message, or a client posts the event; the   *)
(* authorization context is verified at once                               *)
Take(p, e) ==
  /\ p = world.event[e].via
  /\ ~Busy(p)
  /\ ingress[e].status = "queued"
  /\ ingress' = [ingress EXCEPT ![e] = [status |-> "flight", left |-> @.left - 1]]
  /\ job' = [job EXCEPT ![p] = [Idle EXCEPT !.pc = "insert", !.e = e, !.ver = Verify(e)]]
  /\ UNCHANGED <<world, left, jwks, alert, dedup, incident, delivery, bucket, run, scan>>

(* ingest refuses the event: the row is stored as rejected, if it is new   *)
(* (the channel_override form of a notify order stores nothing)            *)
Refuse(p) ==
  LET e == job[p].e IN
  /\ job[p].pc = "insert" /\ job[p].ver = "rejected"
  /\ alert' = IF alert[e].authz = "absent" /\ ~world.event[e].override
              THEN [alert EXCEPT ![e] = [NoRow EXCEPT !.state = "suppressed",
                                                      !.authz = "rejected"]]
              ELSE alert
  /\ Done(p)
  /\ UNCHANGED <<world, left, jwks, dedup, incident, delivery, bucket, run, scan>>

(* the keys could not be fetched: the row is stored as held, and only then *)
(* given its retry time (Hold)                                             *)
InsertHeld(p) ==
  LET e == job[p].e
      new == alert[e].authz = "absent" /\ ~world.event[e].override IN
  /\ job[p].pc = "insert" /\ job[p].ver = "unavailable"
  /\ alert' = IF new THEN [alert EXCEPT ![e] = [NoRow EXCEPT !.authz = "held"]] ELSE alert
  /\ IF new THEN Goto(p, "hold") ELSE Done(p)
  /\ UNCHANGED <<world, left, jwks, dedup, incident, delivery, bucket, run, scan>>

Hold(p) ==
  /\ job[p].pc = "hold"
  /\ alert' = [alert EXCEPT ![job[p].e].authz = "held", ![job[p].e].timer = "wait"]
  /\ Done(p)
  /\ UNCHANGED <<world, left, jwks, dedup, incident, delivery, bucket, run, scan>>

(* accepted: an event_id that is already stored is dropped here            *)
InsertAccepted(p) ==
  LET e == job[p].e
      new == alert[e].authz = "absent" IN
  /\ job[p].pc = "insert" /\ job[p].ver \in {"none", "verified"}
  /\ alert' = IF new THEN [alert EXCEPT ![e] = [NoRow EXCEPT !.authz = job[p].ver]] ELSE alert
  /\ IF new THEN Goto(p, IF world.event[e].override THEN "find" ELSE "dedup") ELSE Done(p)
  /\ UNCHANGED <<world, left, jwks, dedup, incident, delivery, bucket, run, scan>>

(* where a verdict leads: processStored after dedupCheck                   *)
AfterVerdict(v) == IF v = "duplicate" THEN "suppress" ELSE "find"

(* dedupTouch, the upsert: a live fingerprint is counted, an unknown one   *)
(* claimed; an expired one is left to Evict and Claim                      *)
Touch(p) ==
  LET e == job[p].e
      f == world.event[e].fp
      d == dedup[f]
      n == d.count + 1 IN
  /\ job[p].pc = "dedup"
  /\ IF d.count > 0 /\ ~d.live
     THEN Goto(p, "evict") /\ UNCHANGED dedup
     ELSE /\ dedup' = [dedup EXCEPT ![f] =
                         IF d.count = 0
                         THEN [count |-> 1, live |-> TRUE]
                         ELSE [d EXCEPT !.count = n]]
          /\ Goto(p, AfterVerdict(VerdictFor(n, world.event[e].renotify)))
  /\ UNCHANGED <<world, left, jwks, alert, incident, delivery, bucket, run, scan>>

(* DELETE ... WHERE expires_at <= now() *)
Evict(p) ==
  LET f == world.event[job[p].e].fp IN
  /\ job[p].pc = "evict"
  /\ dedup' = IF dedup[f].live THEN dedup
              ELSE [dedup EXCEPT ![f] = NoDedup]
  /\ Goto(p, "claim")
  /\ UNCHANGED <<world, left, jwks, alert, incident, delivery, bucket, run, scan>>

(* Mutant: DO UPDATE, the later of two handlers takes the row over *)
Claim_Over(p) ==
  LET f == world.event[job[p].e].fp IN
  /\ job[p].pc = "claim"
  /\ dedup' = [dedup EXCEPT ![f] = [count |-> 1, live |-> TRUE]]
  /\ Goto(p, "find")
  /\ UNCHANGED <<world, left, jwks, alert, incident, delivery, bucket, run, scan>>

(* INSERT ... ON CONFLICT DO NOTHING: whoever lost takes the winner's row  *)
Claim(p) ==
  LET e == job[p].e
      f == world.event[e].fp
      d == dedup[f]
      n == IF d.count > 2 THEN d.count ELSE 2 IN
  /\ job[p].pc = "claim"
  /\ IF d.count = 0
     THEN /\ dedup' = [dedup EXCEPT ![f] = [count |-> 1, live |-> TRUE]]
          /\ Goto(p, "find")
     ELSE /\ UNCHANGED dedup
          /\ Goto(p, AfterVerdict(VerdictFor(n, world.event[e].renotify)))
  /\ UNCHANGED <<world, left, jwks, alert, incident, delivery, bucket, run, scan>>

Suppress(p) ==
  /\ job[p].pc = "suppress"
  /\ alert' = [alert EXCEPT ![job[p].e].state = "suppressed"]
  /\ Done(p)
  /\ UNCHANGED <<world, left, jwks, dedup, incident, delivery, bucket, run, scan>>

-----------------------------------------------------------------------------
(* Correlate and route.                                                    *)

Matching(e) == {i \in DOMAIN incident : /\ incident[i].key = world.event[e].key
                                        /\ incident[i].state # "resolved"}

(* findOpenIncident: the newest open incident of the correlation key       *)
Find(p) ==
  LET open == Matching(job[p].e) IN
  /\ job[p].pc = "find"
  /\ job' = [job EXCEPT ![p].pc = IF open = {} THEN "create" ELSE "attach",
                        ![p].inc = IF open = {} THEN 0
                                   ELSE CHOOSE i \in open : \A j \in open : j <= i]
  /\ UNCHANGED <<world, left, jwks, store, bucket, run, scan>>

(* insertIncident: nothing stops a second one of the same key              *)
Create(p) ==
  LET ev == world.event[job[p].e] IN
  /\ job[p].pc = "create"
  /\ Len(incident) < MaxIncident
  /\ incident' = Append(incident,
       [key |-> ev.key, state |-> "open", sev |-> ev.eff, ack |-> ev.ack,
        acked |-> FALSE, alerts |-> {}, chain |-> NoChain, exh |-> FALSE,
        fired |-> <<>>, attaches |-> 0])
  /\ job' = [job EXCEPT ![p].pc = "attach", ![p].inc = Len(incident) + 1]
  /\ UNCHANGED <<world, left, jwks, ingress, alert, dedup, delivery, bucket, run, scan>>

(* attachAlertToIncident, one transaction, and the read that follows it    *)
Attach(p) ==
  LET e == job[p].e
      i == job[p].inc
      ev == world.event[e] IN
  /\ job[p].pc = "attach"
  /\ incident' = [incident EXCEPT ![i].alerts = @ \cup {e},
                                  ![i].sev = IF ev.sev > @ THEN ev.sev ELSE @,
                                  ![i].ack = @ \/ ev.ack]
  /\ alert' = [alert EXCEPT ![e].inc = i]
  /\ job' = [job EXCEPT ![p].pc = "route",
       ![p].seen = [sev |-> incident'[i].sev, ack |-> incident'[i].ack,
                    acked |-> incident[i].acked, policy |-> incident[i].chain.policy]]
  /\ UNCHANGED <<world, left, jwks, ingress, dedup, delivery, bucket, run, scan>>

(* routeAndQueue (or the override targets of a notify order): the rows of  *)
(* the deliveries; the escalation chain is attached by the next step, when *)
(* the incident as it was read has none                                    *)
Route(p) ==
  LET e == job[p].e
      i == job[p].inc
      ev == world.event[e]
      seen == job[p].seen
      cs == IF ev.override THEN world.channels \cap world.egress ELSE Targets(seen) IN
  /\ job[p].pc = "route"
  /\ delivery' = Queue(<<"event", e>>, cs, i)
  /\ alert' = [alert EXCEPT ![e].routed = TRUE]
  /\ IF ~ev.override /\ seen.ack /\ ~seen.policy /\ Attachable(seen)
     THEN Goto(p, "escalate") ELSE Done(p)
  /\ UNCHANGED <<world, left, jwks, dedup, incident, bucket, run, scan>>

(* setIncidentEscalation(initialEscalationState): overwrites what is there *)
AttachChain(p) ==
  LET i == job[p].inc IN
  /\ job[p].pc = "escalate"
  /\ incident' = [incident EXCEPT ![i].chain = [NoChain EXCEPT !.policy = TRUE, !.timer = "wait"],
                                  ![i].attaches = @ + 1]
  /\ Done(p)
  /\ UNCHANGED <<world, left, jwks, alert, dedup, delivery, bucket, run, scan>>

-----------------------------------------------------------------------------
(* runDueAuthzRetries.                                                     *)

Due == {e \in Event : alert[e].authz = "held" /\ alert[e].timer = "due"}

(* the rows are read once; a second pass may start before the first ends   *)
RetryScan(p) ==
  /\ p \in Retriers
  /\ ~Busy(p)
  /\ Due # {}
  /\ job' = [job EXCEPT ![p] = [Idle EXCEPT !.pc = "next", !.todo = Due]]
  /\ UNCHANGED <<world, left, jwks, store, bucket, run, scan>>

(* the next row is verified again: resumed, put off, or quarantined        *)
RetryNext(p) ==
  /\ job[p].pc = "next"
  /\ \E e \in job[p].todo :
       LET v == Verify(e)
           rest == job[p].todo \ {e} IN
       /\ alert' = [alert EXCEPT ![e] =
            IF v \in {"verified", "none"} THEN [@ EXCEPT !.authz = v, !.timer = "none"]
            ELSE IF v = "unavailable" /\ ~@.old THEN [@ EXCEPT !.authz = "held", !.timer = "wait"]
            ELSE [@ EXCEPT !.authz = "rejected", !.timer = "none", !.state = "suppressed"]]
       /\ job' = [job EXCEPT ![p] =
            IF v \in {"verified", "none"} THEN [@ EXCEPT !.pc = "dedup", !.e = e, !.todo = rest]
            ELSE IF rest = {} THEN Idle ELSE [@ EXCEPT !.todo = rest]]
  /\ UNCHANGED <<world, left, jwks, ingress, dedup, incident, delivery, bucket, run, scan>>

-----------------------------------------------------------------------------
(* Dispatcher.runDue.                                                      *)

(* Mutant: the scan looks at the time alone *)
Sendable_Timed == {k \in DOMAIN delivery : delivery[k].due}
Sendable == {k \in DOMAIN delivery : /\ delivery[k].status \in {"pending", "failed"}
                                     /\ delivery[k].due}

(* setInterval starts a pass whether or not the previous one has ended     *)
RunStart(d) ==
  LET overlaps == \E o \in world.runs \ {d} : Running(o) IN
  /\ ~Running(d)
  /\ Sendable # {}
  /\ overlaps => left.overlaps > 0
  /\ left' = IF overlaps THEN [left EXCEPT !.overlaps = @ - 1] ELSE left
  /\ run' = [run EXCEPT ![d].todo = [k \in Sendable |-> delivery[k].attempts]]
  /\ UNCHANGED <<world, jwks, store, bucket, job, scan>>

(* no token, or a paused destination: the delivery waits for a later pass  *)
Skip(d) ==
  /\ run[d].key = <<>>
  /\ \E k \in DOMAIN run[d].todo :
       /\ bucket[k[2]].paused \/ bucket[k[2]].tokens = 0
       /\ run' = [run EXCEPT ![d].todo = Without(@, {k})]
  /\ UNCHANGED <<world, left, jwks, store, bucket, job, scan>>

(* one send, answered by the provider with o                               *)
Send(d) ==
  /\ run[d].key = <<>>
  /\ \E k \in DOMAIN run[d].todo, o \in {"ok", "fail", "slow"} \cap world.answers :
       /\ ~bucket[k[2]].paused /\ bucket[k[2]].tokens > 0
       /\ o = "slow" => left.slow > 0
       /\ left' = IF o = "slow" THEN [left EXCEPT !.slow = @ - 1] ELSE left
       /\ bucket' = [bucket EXCEPT ![k[2]].tokens = @ - 1]
       /\ delivery' = [delivery EXCEPT ![k].tries = @ + 1,
                                       ![k].oks = IF o = "ok" THEN @ + 1 ELSE @]
       /\ run' = [run EXCEPT ![d].key = k, ![d].out = o]
  /\ UNCHANGED <<world, jwks, ingress, alert, dedup, incident, job, scan>>

Exhausted(attempt, o) == attempt >= MaxAttempts /\ o # "slow"

(* recordResult: the attempt number is the one read when the pass began;   *)
(* the row is written whatever its status has become                       *)
Record(d) ==
  LET k == run[d].key
      o == run[d].out
      exhausted == Exhausted(run[d].todo[k] + 1, o) IN
  /\ k # <<>>
  /\ delivery' = [delivery EXCEPT
       ![k].attempts = @ + 1,
       ![k].status = IF o = "ok" THEN "sent" ELSE IF exhausted THEN "dlq" ELSE "failed",
       ![k].due = IF o = "ok" THEN @ ELSE FALSE]
  /\ bucket' = IF o = "slow" THEN [bucket EXCEPT ![k[2]].paused = TRUE] ELSE bucket
  /\ run' = [run EXCEPT ![d] = [IdleRun EXCEPT !.todo = Without(run[d].todo, {k})]]
  /\ UNCHANGED <<world, left, jwks, ingress, alert, dedup, incident, job, scan>>

-----------------------------------------------------------------------------
(* runDueEscalations.                                                      *)

DueIncidents == {i \in DOMAIN incident : /\ incident[i].ack
                                         /\ incident[i].state \in {"open", "escalated"}
                                         /\ incident[i].chain.timer = "due"}

ScanStart(s) ==
  LET overlaps == \E o \in world.scans \ {s} : Scanning(o) IN
  /\ ~Scanning(s)
  /\ DueIncidents # {}
  /\ overlaps => left.overlaps > 0
  /\ left' = IF overlaps THEN [left EXCEPT !.overlaps = @ - 1] ELSE left
  /\ scan' = [scan EXCEPT ![s].todo = [i \in DueIncidents |-> incident[i].chain]]
  /\ UNCHANGED <<world, jwks, store, bucket, job, run>>

(* the incident carries no policy, or one the store does not hold: its     *)
(* timer is cleared                                                        *)
Park(s) ==
  /\ scan[s].inc = 0
  /\ \E i \in DOMAIN scan[s].todo :
       LET c == scan[s].todo[i] IN
       /\ ~c.policy \/ ~world.stored
       /\ incident' = [incident EXCEPT ![i].chain = [c EXCEPT !.timer = "none"]]
       /\ scan' = [scan EXCEPT ![s].todo = Without(@, {i})]
  /\ UNCHANGED <<world, left, jwks, ingress, alert, dedup, delivery, bucket, job, run>>

Steps == world.steps
Following_Once(c) == IF c.step < Steps THEN "wait" ELSE "none"
Following(c) == IF c.step < Steps \/ world.repeats THEN "wait" ELSE "none"

(* nextEscalationState over the chain as it was read *)
NextStep(c) ==
  IF c.step < Steps
  THEN LET n == [c EXCEPT !.step = @ + 1] IN [n EXCEPT !.timer = Following(n)]
  ELSE [c EXCEPT !.repeats = @ + 1, !.timer = "wait"]
StepsLeft(c) == c.step < Steps \/ (world.repeats /\ c.repeats < MaxRepeats)

(* fireStep: deliveries under a key of their own, every time it fires      *)
FireStep(s) ==
  /\ scan[s].inc = 0
  /\ \E i \in DOMAIN scan[s].todo :
       LET c == scan[s].todo[i]
           n == NextStep(c) IN
       /\ c.policy /\ world.stored /\ StepsLeft(c)
       /\ delivery' = Queue(<<"step", i, Len(incident[i].fired)>>, world.channels \cap world.egress, i)
       /\ incident' = [incident EXCEPT ![i].fired = Append(@, n.step)]
       /\ scan' = [scan EXCEPT ![s].inc = i, ![s].next = n, ![s].exh = FALSE]
  /\ UNCHANGED <<world, left, jwks, ingress, alert, dedup, bucket, job, run>>

(* fireExhausted: the fail-safe webhook, which no egress policy filters    *)
FireExhausted(s) ==
  /\ scan[s].inc = 0
  /\ \E i \in DOMAIN scan[s].todo :
       LET c == scan[s].todo[i] IN
       /\ c.policy /\ world.stored /\ ~StepsLeft(c)
       /\ delivery' = Queue(<<"exhausted", i>>, world.channels \cap {"webhook"}, i)
       /\ scan' = [scan EXCEPT ![s].inc = i, ![s].next = [c EXCEPT !.timer = "none"],
                               ![s].exh = TRUE]
  /\ UNCHANGED <<world, left, jwks, ingress, alert, dedup, incident, bucket, job, run>>

(* setIncidentEscalation(..., "escalated"): unconditional                  *)
MarkFired(s) ==
  LET i == scan[s].inc IN
  /\ i # 0
  /\ incident' = [incident EXCEPT ![i].chain = scan[s].next, ![i].state = "escalated",
                                  ![i].exh = @ \/ scan[s].exh]
  /\ scan' = [scan EXCEPT ![s] = [IdleScan EXCEPT !.todo = Without(scan[s].todo, {i})]]
  /\ UNCHANGED <<world, left, jwks, ingress, alert, dedup, delivery, bucket, job, run>>

-----------------------------------------------------------------------------
(* Acknowledgement and resolution.                                         *)

Ack(i) ==
  /\ left.acks > 0
  /\ incident[i].state \notin Closed
  /\ left' = [left EXCEPT !.acks = @ - 1]
  /\ incident' = [incident EXCEPT ![i].state = "acknowledged", ![i].acked = TRUE]
  /\ alert' = [e \in Event |-> IF alert[e].inc = i /\ alert[e].state = "open"
                               THEN [alert[e] EXCEPT !.state = "acknowledged"] ELSE alert[e]]
  /\ UNCHANGED <<world, jwks, ingress, dedup, delivery, bucket, job, run, scan>>

Resolve(i) ==
  /\ left.resolves > 0
  /\ left' = [left EXCEPT !.resolves = @ - 1]
  /\ incident' = [incident EXCEPT ![i].state = "resolved"]
  /\ alert' = [e \in Event |-> IF alert[e].inc = i /\ alert[e].state \in {"open", "acknowledged"}
                               THEN [alert[e] EXCEPT !.state = "resolved"] ELSE alert[e]]
  /\ UNCHANGED <<world, jwks, ingress, dedup, delivery, bucket, job, run, scan>>

-----------------------------------------------------------------------------
(* The environment: time, the gatekeeper's keys, failures.                 *)

Elapse(e) ==
  /\ alert[e].timer = "wait"
  /\ alert' = [alert EXCEPT ![e].timer = "due"]
  /\ UNCHANGED <<world, left, jwks, ingress, dedup, incident, delivery, bucket, job, run, scan>>

(* authzHoldQuarantineMs have passed since the alert was received          *)
HoldExpires(e) ==
  /\ alert[e].authz = "held" /\ ~alert[e].old
  /\ alert' = [alert EXCEPT ![e].old = TRUE]
  /\ UNCHANGED <<world, left, jwks, ingress, dedup, incident, delivery, bucket, job, run, scan>>

WindowExpires(f) ==
  /\ dedup[f].live /\ left.windows > 0
  /\ left' = [left EXCEPT !.windows = @ - 1]
  /\ dedup' = [dedup EXCEPT ![f].live = FALSE]
  /\ UNCHANGED <<world, jwks, ingress, alert, incident, delivery, bucket, job, run, scan>>

StepDue(i) ==
  /\ incident[i].chain.timer = "wait"
  /\ incident' = [incident EXCEPT ![i].chain.timer = "due"]
  /\ UNCHANGED <<world, left, jwks, ingress, alert, dedup, delivery, bucket, job, run, scan>>

BackoffEnds(k) ==
  /\ delivery[k].status = "failed" /\ ~delivery[k].due
  /\ delivery' = [delivery EXCEPT ![k].due = TRUE]
  /\ UNCHANGED <<world, left, jwks, ingress, alert, dedup, incident, bucket, job, run, scan>>

Refill(c) ==
  /\ bucket[c] # Full
  /\ bucket' = [bucket EXCEPT ![c] = Full]
  /\ UNCHANGED <<world, left, jwks, store, job, run, scan>>

KeysFlip ==
  /\ left.flips > 0
  /\ left' = [left EXCEPT !.flips = @ - 1]
  /\ jwks' = ~jwks
  /\ UNCHANGED <<world, store, bucket, job, run, scan>>

(* a message whose handler stopped: redelivered while deliveries are left  *)
Requeue(S) ==
  ingress' = [e \in Event |->
    IF e \in S /\ ingress[e].status = "flight"
    THEN [ingress[e] EXCEPT !.status = IF @ = "flight" /\ ingress[e].left > 0
                                       THEN "queued" ELSE "dead"]
    ELSE ingress[e]]

(* a statement of the handler p fails: the message is nak'ed, the request  *)
(* answered 500, the retry pass abandoned                                  *)
StoreFails(p) ==
  /\ Busy(p) /\ left.faults > 0
  /\ left' = [left EXCEPT !.faults = @ - 1]
  /\ Requeue(IF p \in Retriers THEN {} ELSE {job[p].e})
  /\ job' = [job EXCEPT ![p] = Idle]
  /\ UNCHANGED <<world, jwks, alert, dedup, incident, delivery, bucket, run, scan>>

(* dedupCheck is fail-open: a failing dedupTouch counts as a new alert     *)
DedupFails(p) ==
  /\ job[p].pc = "dedup" /\ left.faults > 0
  /\ left' = [left EXCEPT !.faults = @ - 1]
  /\ Goto(p, "find")
  /\ UNCHANGED <<world, jwks, alert, dedup, incident, delivery, bucket, run, scan>>

(* the process stops and starts again: what only it knew is gone           *)
Crash ==
  /\ left.crashes > 0
  /\ left' = [left EXCEPT !.crashes = @ - 1]
  /\ Requeue(Event)
  /\ job' = [p \in world.procs |-> Idle]
  /\ run' = [d \in world.runs |-> IdleRun]
  /\ scan' = [s \in world.scans |-> IdleScan]
  /\ bucket' = [c \in world.channels |-> Full]
  /\ UNCHANGED <<world, jwks, alert, dedup, incident, delivery>>

-----------------------------------------------------------------------------
Handle(p) ==
  \/ \E e \in Event : Take(p, e)
  \/ Refuse(p) \/ InsertHeld(p) \/ Hold(p) \/ InsertAccepted(p)
  \/ Touch(p) \/ Evict(p) \/ Claim(p) \/ Suppress(p)
  \/ Find(p) \/ Create(p) \/ Attach(p) \/ Route(p) \/ AttachChain(p)
  \/ RetryScan(p) \/ RetryNext(p)

Dispatch(d) == RunStart(d) \/ Skip(d) \/ Send(d) \/ Record(d)

Escalate(s) == ScanStart(s) \/ Park(s) \/ FireStep(s) \/ FireExhausted(s) \/ MarkFired(s)

Time ==
  \/ \E e \in Event : Elapse(e)
  \/ \E e \in Event : HoldExpires(e)
  \/ \E i \in DOMAIN incident : StepDue(i)
  \/ \E k \in DOMAIN delivery : BackoffEnds(k)
  \/ \E c \in world.channels : Refill(c)

Fault ==
  \/ \E p \in world.procs : StoreFails(p) \/ DedupFails(p)
  \/ KeysFlip \/ Crash
  \/ \E f \in Fingerprint : WindowExpires(f)

Next ==
  \/ \E p \in world.procs : Handle(p)
  \/ \E d \in world.runs : Dispatch(d)
  \/ \E s \in world.scans : Escalate(s)
  \/ \E i \in DOMAIN incident : Ack(i) \/ Resolve(i)
  \/ Time
  \/ Fault

Spec == Init /\ [][Next]_vars

(* The handlers and loops keep running and time passes; acknowledgements,  *)
(* resolutions and every fault are the environment's choice.               *)
FairSpec ==
  /\ Spec
  /\ \A p \in {"bus", "http"} \cup Retriers : WF_vars(p \in world.procs /\ Handle(p))
  /\ \A d \in {"run1", "run2"} : WF_vars(d \in world.runs /\ Dispatch(d))
  /\ \A s \in {"scan1", "scan2"} : WF_vars(s \in world.scans /\ Escalate(s))
  /\ WF_vars(\E e \in Event : Elapse(e))
  /\ WF_vars(\E e \in Event : HoldExpires(e))
  /\ WF_vars(\E i \in DOMAIN incident : StepDue(i))
  /\ WF_vars(\E k \in DOMAIN delivery : BackoffEnds(k))
  /\ WF_vars(\E c \in world.channels : Refill(c))

-----------------------------------------------------------------------------
(* Correctness.                                                            *)

Used(what) == world.left[what] - left[what]

(* pipeline.ts "no token, no notification": nothing is queued for an event *)
(* that needs a token and has no good one, and no incident contains one,   *)
(* through holds, retries, overlapping retry passes and failures.          *)
NoTokenNoNotification ==
  \A e \in Event : world.event[e].auth \in {"bad", "missing"} =>
    /\ \A k \in DOMAIN delivery : k[1] # <<"event", e>>
    /\ \A i \in DOMAIN incident : e \notin incident[i].alerts

(* dedup.ts: within one window of a fingerprint one event alone is new;    *)
(* two handlers that meet the same expired row do not both claim it.  Only *)
(* a failing dedup store may let a second one through.                     *)
Claimed(f) == {e \in Event : /\ world.event[e].fp = f /\ alert[e].routed
                             /\ ~world.event[e].override /\ world.event[e].renotify = 0}
OneFirstPerWindow ==
  \A f \in Fingerprint :
    Cardinality(Claimed(f)) <= 1 + Used("windows") + Used("faults")

(* A delivery reaches its destination once, plus once for every pass that  *)
(* was started over another one and every pass a crash cut off before it   *)
(* recorded what it had sent (dispatcher.ts).                              *)
SendsBounded ==
  \A k \in DOMAIN delivery :
    delivery[k].oks <= 1 + Used("overlaps") + Used("crashes") * Cardinality(world.runs)

(* A step is fired again only because the chain was attached a second time *)
(* by a router that had read the incident before the first, because a      *)
(* scan was started over another one, or because a crash came between      *)
(* firing a step and marking it fired.                                     *)
StepsBounded ==
  \A i \in DOMAIN incident :
    Len(incident[i].fired) <=
      incident[i].attaches * (Steps + (IF world.repeats THEN MaxRepeats ELSE 0))
        + Used("overlaps") + Used("crashes") * Cardinality(world.scans)

(* Nobody is notified more often than this: deliveries and escalation      *)
(* steps both.                                                             *)
NotificationsBounded == SendsBounded /\ StepsBounded

(* While nothing fails, every alert that was stored is routed, suppressed  *)
(* or quarantined, whatever the gatekeeper's keys do: a held alert is      *)
(* verified or, after the hold window, given up.                           *)
Calm == Used("faults") = 0 /\ Used("crashes") = 0
Settled(e) == e \in Event /\ (alert[e].routed \/ alert[e].state = "suppressed")
AlertSettles ==
  \A e \in EventName :
    (e \in Event /\ alert[e].authz # "absent") ~> (Settled(e) \/ ~Calm)

(* Where the dispatcher runs, every delivery is sent or dead-lettered in   *)
(* the end, through back-off, rate limits, paused destinations and crashes.*)
DeliverySettles ==
  \A e \in EventName, c \in {"slack", "webhook"} :
    LET k == <<<<"event", e>>, c>> IN
    (k \in DOMAIN delivery /\ world.runs # {})
      ~> (k \in DOMAIN delivery /\ delivery[k].status \in {"sent", "dlq"})

(* A chain whose policy is stored and repeats ends where the escalation    *)
(* loop runs: the incident is acknowledged, resolved or exhausted.         *)
ChainEnds ==
  \A i \in 1..MaxIncident :
    (i \in DOMAIN incident /\ incident[i].chain.timer = "wait" /\ world.stored
       /\ world.repeats /\ world.scans # {})
      ~> (i \in DOMAIN incident /\ (incident[i].state \in Closed \/ incident[i].exh))

(* Whatever was accepted comes to an end.                                  *)
EverythingSettles == AlertSettles /\ DeliverySettles /\ ChainEnds
=============================================================================
