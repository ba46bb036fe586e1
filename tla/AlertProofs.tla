------------------------------ MODULE AlertProofs ------------------------------
(***************************************************************************)
(* Alert for any scenarios and bounds.                                     *)
(*                                                                         *)
(* Four arguments.  A handler that is past its verdict carries an event    *)
(* that may be announced (TokenInv).  Every claim of a fingerprint uses up *)
(* a row that is gone, and a row goes only when its window lapses          *)
(* (ClaimInv).  And what may still be sent, or fired, without another      *)
(* overlap or crash is part of the account: a delivery is credited with    *)
(* the passes that hold it and have not delivered it (SendInv), a chain    *)
(* with the scans that hold it and with the steps it has not climbed       *)
(* (StepInv).                                                              *)
(***************************************************************************)
EXTENDS Alert, FiniteSetTheorems, SequenceTheorems, TLAPS

-----------------------------------------------------------------------------
(* What the environment has left.                                          *)

LeftInv == left \in [Limits -> Nat] /\ \A x \in Limits : left[x] <= world.left[x]
Base == world \in Scenario /\ LeftInv

\* Nothing is given back.
Uses == \A x \in Limits : left'[x] <= left[x]

LEMMA LeftTaken ==
  ASSUME Base, world' = world, NEW x \in Limits, left[x] > 0,
         left' = [left EXCEPT ![x] = @ - 1]
  PROVE  LeftInv' /\ Uses /\ left'[x] = left[x] - 1
<1>1. \A y \in Limits : left'[y] = IF y = x THEN left[x] - 1 ELSE left[y]
  BY DEF Base, LeftInv
<1>2. \A y \in Limits : left'[y] \in Nat /\ left'[y] <= left[y] /\ left[y] \in Nat
  BY <1>1 DEF Base, LeftInv
<1>3. \A y \in Limits : left[y] <= world.left[y] /\ world.left[y] \in Nat
  BY ScenariosAreFinite DEF Base, LeftInv
<1>4. left' \in [Limits -> Nat]
  BY <1>2 DEF Base, LeftInv
<1>5. \A y \in Limits : left'[y] <= world'.left[y]
  BY <1>2, <1>3
<1> QED BY <1>1, <1>2, <1>4, <1>5 DEF LeftInv, Uses

LEMMA LeftKept == ASSUME LeftInv, world' = world, left' = left PROVE LeftInv' /\ Uses
  BY DEF LeftInv, Uses

LEMMA BaseStep == ASSUME Base, [Next]_vars PROVE Base' /\ world' = world /\ Uses
<1>1. world' = world
  BY DEF Next, vars, Handle, Dispatch, Escalate, Time, Fault, Take, Refuse, InsertHeld, Hold,
         InsertAccepted, Touch, Evict, Claim, Suppress, Find, Create, Attach, Route,
         AttachChain, RetryScan, RetryNext, RunStart, Skip, Send, Record, ScanStart, Park,
         FireStep, FireExhausted, MarkFired, Ack, Resolve, Elapse, HoldExpires, StepDue,
         BackoffEnds, Refill, StoreFails, DedupFails, KeysFlip, Crash, WindowExpires
<1> DEFINE Takes(x) == left[x] > 0 /\ left' = [left EXCEPT ![x] = @ - 1]
<1>2. left' = left \/ \E x \in Limits : Takes(x)
  <2>1. ASSUME NEW p, Handle(p) PROVE left' = left
    BY <2>1 DEF Handle, Take, Refuse, InsertHeld, Hold, InsertAccepted, Touch, Evict, Claim,
         Suppress, Find, Create, Attach, Route, AttachChain, RetryScan, RetryNext
  <2>2. ASSUME NEW d, Dispatch(d) PROVE left' = left \/ \E x \in Limits : Takes(x)
    <3>1. left' = left \/ Takes("overlaps") \/ Takes("slow")
      BY <2>2 DEF Dispatch, RunStart, Skip, Send, Record
    <3> QED BY <3>1 DEF Limits
  <2>3. ASSUME NEW s, Escalate(s) PROVE left' = left \/ \E x \in Limits : Takes(x)
    <3>1. left' = left \/ Takes("overlaps")
      BY <2>3 DEF Escalate, ScanStart, Park, FireStep, FireExhausted, MarkFired
    <3> QED BY <3>1 DEF Limits
  <2>4. ASSUME NEW i, Ack(i) \/ Resolve(i) PROVE \E x \in Limits : Takes(x)
    <3>1. Takes("acks") \/ Takes("resolves")
      BY <2>4 DEF Ack, Resolve
    <3> QED BY <3>1 DEF Limits
  <2>5. ASSUME Time PROVE left' = left
    BY <2>5 DEF Time, Elapse, HoldExpires, StepDue, BackoffEnds, Refill
  <2>6. ASSUME Fault PROVE \E x \in Limits : Takes(x)
    <3>1. Takes("faults") \/ Takes("flips") \/ Takes("crashes") \/ Takes("windows")
      BY <2>6 DEF Fault, StoreFails, DedupFails, KeysFlip, Crash, WindowExpires
    <3> QED BY <3>1 DEF Limits
  <2>7. CASE UNCHANGED vars
    BY <2>7 DEF vars
  <2> QED BY <2>1, <2>2, <2>3, <2>4, <2>5, <2>6, <2>7 DEF Next
<1> QED BY <1>1, <1>2, LeftTaken, LeftKept DEF Base

-----------------------------------------------------------------------------
(* No token, no notification.                                              *)

JobFields == {"pc", "e", "ver", "inc", "seen", "todo"}

\* The handler has the verdict of its event, and goes on with it.
Past == {"dedup", "evict", "claim", "suppress", "find", "create", "attach", "route", "escalate"}
Good(e) == e \in Event /\ world.event[e].auth \notin {"bad", "missing"}
Cleared(j) == j.pc \in Past \/ (j.pc = "insert" /\ j.ver \in {"none", "verified"})

IsJob(j) == DOMAIN j = JobFields /\ j.todo \subseteq Event /\ (Cleared(j) => Good(j.e))
Jobs == DOMAIN job = world.procs /\ \A p \in world.procs : IsJob(job[p])
Named == \A k \in DOMAIN delivery : \A e \in Event : k[1] = <<"event", e>> => Good(e)
Gathered == \A i \in DOMAIN incident : \A e \in incident[i].alerts : Good(e)

TokenInv == Jobs /\ Named /\ Gathered

LEMMA IdleIs == IsJob(Idle) /\ DOMAIN Idle = JobFields /\ Idle.pc = "idle"
  BY DEF Idle, IsJob, JobFields, Cleared, Past

LEMMA VerdictIsGood ==
  ASSUME NEW e \in Event, Verify(e) \in {"none", "verified"} PROVE Good(e)
  BY DEF Verify, Good

\* The handler of p becomes j.
LEMMA JobStep ==
  ASSUME Jobs, world' = world, NEW p \in world.procs, NEW j, IsJob(j),
         job' = [job EXCEPT ![p] = j]
  PROVE  Jobs'
<1>1. DOMAIN job' = world.procs /\ \A q \in world.procs : job'[q] = IF q = p THEN j ELSE job[q]
  BY DEF Jobs
<1>2. \A q \in world.procs : IsJob(job'[q])
  BY <1>1 DEF Jobs
<1>3. \A x : IsJob(x) => IsJob(x)'
  BY DEF IsJob, Good, Event, Cleared
<1>4. ASSUME NEW q \in world.procs PROVE IsJob(job[q])'
  <2>1. PICK x : x = job'[q]
    OBVIOUS
  <2>2. IsJob(x)'
    BY <1>2, <1>3, <2>1
  <2> QED BY <2>1, <2>2 DEF IsJob, Cleared
<1> QED BY <1>1, <1>4 DEF Jobs

LEMMA DoneIs ==
  ASSUME Jobs, NEW p \in world.procs, Done(p)
  PROVE  \E j : IsJob(j) /\ j.pc \in {"idle", "next"} /\ job' = [job EXCEPT ![p] = j]
<1> DEFINE n == [Idle EXCEPT !.pc = "next", !.todo = job[p].todo]
<1>1. IsJob(n) /\ n.pc = "next"
  BY IdleIs DEF Jobs, IsJob, JobFields, Cleared, Past
<1> HIDE DEF n
<1>2. job' = [job EXCEPT ![p] = n] \/ job' = [job EXCEPT ![p] = Idle]
  BY DEF Done, n
<1> QED BY <1>1, <1>2, IdleIs

\* A handler that has its verdict, or has none yet, moves on.
LEMMA GotoIs ==
  ASSUME Jobs, NEW p \in world.procs, NEW pc, Goto(p, pc), Cleared(job[p]) \/ pc = "hold"
  PROVE  \E j : /\ IsJob(j) /\ j.pc = pc /\ j.e = job[p].e /\ job' = [job EXCEPT ![p] = j]
<1> DEFINE j == [job[p] EXCEPT !.pc = pc]
<1>1. IsJob(job[p]) /\ DOMAIN job[p] = JobFields
  BY DEF Jobs, IsJob
<1>2. DOMAIN j = JobFields /\ j.pc = pc /\ j.e = job[p].e /\ j.todo = job[p].todo
  BY <1>1 DEF JobFields
<1>3. job' = [job EXCEPT ![p] = j]
  BY DEF Goto, Jobs
<1> HIDE DEF j
<1>4. Cleared(j) => Good(j.e)
  BY <1>1, <1>2 DEF IsJob, Cleared, Past
<1> QED BY <1>1, <1>2, <1>3, <1>4 DEF IsJob

\* The handler has an event that counts as new, or is past the question.
Ahead == {"find", "create", "attach", "route"}

\* Only an event that was there before gets ahead, from its verdict or by
\* an override.
Follows(p, j) ==
  j.pc \in Ahead => /\ j.e = job[p].e
                    /\ \/ job[p].pc \in Ahead \cup {"dedup", "claim"}
                       \/ world.event[j.e].override

\* What a step of a handler makes of it.
LEMMA HandleJobs ==
  ASSUME Jobs, world' = world, NEW p \in world.procs, Handle(p)
  PROVE  \E j : IsJob(j) /\ Follows(p, j) /\ job' = [job EXCEPT ![p] = j]
<1>0. IsJob(job[p]) /\ DOMAIN job[p] = JobFields
  BY DEF Jobs, IsJob
<1>1. ASSUME NEW e \in Event, Take(p, e)
      PROVE  \E j : IsJob(j) /\ Follows(p, j) /\ job' = [job EXCEPT ![p] = j]
  <2> DEFINE j == [Idle EXCEPT !.pc = "insert", !.e = e, !.ver = Verify(e)]
  <2>1. /\ DOMAIN j = JobFields /\ j.pc = "insert" /\ j.e = e /\ j.ver = Verify(e)
        /\ j.todo = {}
    BY IdleIs DEF JobFields, Idle
  <2>2. job' = [job EXCEPT ![p] = j]
    BY <1>1 DEF Take
  <2> HIDE DEF j
  <2>3. Cleared(j) => Good(j.e)
    BY <2>1, VerdictIsGood DEF Cleared, Past
  <2> QED BY <2>1, <2>2, <2>3 DEF IsJob, Follows, Ahead
<1>2. ASSUME Done(p) PROVE \E j : IsJob(j) /\ Follows(p, j) /\ job' = [job EXCEPT ![p] = j]
  BY <1>2, DoneIs DEF Follows, Ahead
<1>3. ASSUME NEW pc, Goto(p, pc), Cleared(job[p]) \/ pc = "hold"
      PROVE  \E j : /\ IsJob(j) /\ j.pc = pc /\ j.e = job[p].e
                   /\ job' = [job EXCEPT ![p] = j]
  BY <1>3, GotoIs
<1>4. CASE Refuse(p) \/ Hold(p) \/ Suppress(p)
  BY <1>2, <1>4 DEF Refuse, Hold, Suppress
<1>5. CASE InsertHeld(p)
  BY <1>2, <1>3, <1>5 DEF InsertHeld, Follows, Ahead
<1>6. CASE InsertAccepted(p)
  <2>1. Cleared(job[p])
    BY <1>6 DEF InsertAccepted, Cleared
  <2>2. CASE Done(p)
    BY <1>2, <2>2
  <2>3. CASE Goto(p, "find") /\ world.event[job[p].e].override
    BY <1>3, <2>1, <2>3 DEF Follows
  <2>4. CASE Goto(p, "dedup")
    BY <1>3, <2>1, <2>4 DEF Follows, Ahead
  <2> QED BY <1>6, <2>2, <2>3, <2>4 DEF InsertAccepted
<1>7. CASE Touch(p) \/ Evict(p) \/ Claim(p)
  <2>1. Cleared(job[p])
    BY <1>7 DEF Touch, Evict, Claim, Cleared, Past
  <2>2. CASE Touch(p) \/ Claim(p)
    BY <1>3, <2>1, <2>2 DEF Touch, Claim, Follows
  <2>3. CASE Evict(p)
    BY <1>3, <2>1, <2>3 DEF Evict, Follows, Ahead
  <2> QED BY <1>7, <2>2, <2>3
<1>8. CASE Find(p)
  <2>1. PICK pc, n : /\ pc \in {"create", "attach"}
                     /\ job' = [job EXCEPT ![p].pc = pc, ![p].inc = n]
    BY <1>8 DEF Find
  <2> DEFINE j == [job[p] EXCEPT !.pc = pc, !.inc = n]
  <2>2. DOMAIN j = JobFields /\ j.pc = pc /\ j.e = job[p].e /\ j.todo = job[p].todo
    BY <1>0 DEF JobFields
  <2>3. job' = [job EXCEPT ![p] = j]
    BY <2>1 DEF Jobs
  <2> HIDE DEF j
  <2>4. Cleared(job[p]) /\ job[p].pc \in Ahead
    BY <1>8 DEF Find, Cleared, Past, Ahead
  <2> QED BY <1>0, <2>2, <2>3, <2>4 DEF IsJob, Follows
<1>9. CASE Create(p)
  <2>1. PICK n : job' = [job EXCEPT ![p].pc = "attach", ![p].inc = n]
    BY <1>9 DEF Create
  <2> DEFINE j == [job[p] EXCEPT !.pc = "attach", !.inc = n]
  <2>2. DOMAIN j = JobFields /\ j.e = job[p].e /\ j.todo = job[p].todo
    BY <1>0 DEF JobFields
  <2>3. job' = [job EXCEPT ![p] = j]
    BY <2>1 DEF Jobs
  <2> HIDE DEF j
  <2>4. Cleared(job[p]) /\ job[p].pc \in Ahead
    BY <1>9 DEF Create, Cleared, Past, Ahead
  <2> QED BY <1>0, <2>2, <2>3, <2>4 DEF IsJob, Follows
<1>10. CASE Attach(p)
  <2>1. PICK r : job' = [job EXCEPT ![p].pc = "route", ![p].seen = r]
    BY <1>10 DEF Attach
  <2> DEFINE j == [job[p] EXCEPT !.pc = "route", !.seen = r]
  <2>2. DOMAIN j = JobFields /\ j.e = job[p].e /\ j.todo = job[p].todo
    BY <1>0 DEF JobFields
  <2>3. job' = [job EXCEPT ![p] = j]
    BY <2>1 DEF Jobs
  <2> HIDE DEF j
  <2>4. Cleared(job[p]) /\ job[p].pc \in Ahead
    BY <1>10 DEF Attach, Cleared, Past, Ahead
  <2> QED BY <1>0, <2>2, <2>3, <2>4 DEF IsJob, Follows
<1>11. CASE Route(p)
  <2>1. Cleared(job[p])
    BY <1>11 DEF Route, Cleared, Past
  <2>2. CASE Done(p)
    BY <1>2, <2>2
  <2>3. CASE Goto(p, "escalate")
    BY <1>3, <2>1, <2>3 DEF Follows, Ahead
  <2> QED BY <1>11, <2>2, <2>3 DEF Route
<1>12. CASE AttachChain(p)
  BY <1>2, <1>12 DEF AttachChain
<1>13. CASE RetryScan(p)
  <2> DEFINE j == [Idle EXCEPT !.pc = "next", !.todo = Due]
  <2>1. DOMAIN j = JobFields /\ j.pc = "next" /\ j.todo \subseteq Event
    BY IdleIs DEF JobFields, Due
  <2>2. job' = [job EXCEPT ![p] = j]
    BY <1>13 DEF RetryScan
  <2> HIDE DEF j
  <2> QED BY <2>1, <2>2 DEF IsJob, Cleared, Past, Follows, Ahead
<1>14. CASE RetryNext(p)
  <2>1. PICK e \in job[p].todo :
          job' = [job EXCEPT ![p] =
            IF Verify(e) \in {"verified", "none"}
            THEN [@ EXCEPT !.pc = "dedup", !.e = e, !.todo = job[p].todo \ {e}]
            ELSE IF job[p].todo \ {e} = {} THEN Idle ELSE [@ EXCEPT !.todo = job[p].todo \ {e}]]
    BY <1>14 DEF RetryNext
  <2>2. e \in Event /\ job[p].pc = "next"
    BY <1>0, <1>14 DEF IsJob, RetryNext
  <2>3. CASE Verify(e) \in {"verified", "none"}
    <3> DEFINE j == [job[p] EXCEPT !.pc = "dedup", !.e = e, !.todo = job[p].todo \ {e}]
    <3>1. DOMAIN j = JobFields /\ j.pc = "dedup" /\ j.e = e /\ j.todo = job[p].todo \ {e}
      BY <1>0 DEF JobFields
    <3>2. job' = [job EXCEPT ![p] = j]
      BY <2>1, <2>3 DEF Jobs
    <3> HIDE DEF j
    <3>3. IsJob(j)
      BY <1>0, <2>2, <2>3, <3>1, VerdictIsGood DEF IsJob
    <3> QED BY <3>1, <3>2, <3>3 DEF Follows, Ahead
  <2>4. CASE Verify(e) \notin {"verified", "none"} /\ job[p].todo \ {e} = {}
    BY <2>1, <2>4, IdleIs DEF Follows, Ahead
  <2>5. CASE Verify(e) \notin {"verified", "none"} /\ job[p].todo \ {e} # {}
    <3> DEFINE j == [job[p] EXCEPT !.todo = job[p].todo \ {e}]
    <3>1. DOMAIN j = JobFields /\ j.pc = "next" /\ j.todo = job[p].todo \ {e}
      BY <1>0, <2>2 DEF JobFields
    <3>2. job' = [job EXCEPT ![p] = j]
      BY <2>1, <2>5 DEF Jobs
    <3> HIDE DEF j
    <3>3. IsJob(j)
      BY <1>0, <3>1 DEF IsJob, Cleared, Past
    <3> QED BY <3>1, <3>2, <3>3 DEF Follows, Ahead
  <2> QED BY <2>3, <2>4, <2>5
<1> QED BY <1>1, <1>4, <1>5, <1>6, <1>7, <1>8, <1>9, <1>10, <1>11, <1>12, <1>13, <1>14 DEF Handle

\* Deliveries are only added, for the events of the triggers.
LEMMA QueueIs ==
  ASSUME NEW trigger, NEW cs, NEW i, delivery' = Queue(trigger, cs, i)
  PROVE  /\ DOMAIN delivery' = DOMAIN delivery \cup {<<trigger, c>> : c \in cs}
         /\ \A k \in DOMAIN delivery : delivery'[k] = delivery[k]
         /\ \A k \in DOMAIN delivery' \ DOMAIN delivery :
              delivery'[k].oks = 0 /\ delivery'[k].status = "pending"
         /\ \A k \in DOMAIN delivery' \ DOMAIN delivery : k[1] = trigger /\ k # <<>>
  BY DEF Queue

LEMMA NamedStays ==
  ASSUME Named, world' = world, DOMAIN delivery' = DOMAIN delivery PROVE Named'
  BY DEF Named, Good, Event

LEMMA NamedGrows ==
  ASSUME Named, world' = world, NEW trigger, NEW cs, NEW i, delivery' = Queue(trigger, cs, i),
         \A e \in Event : trigger = <<"event", e>> => Good(e)
  PROVE  Named'
<1>1. \A e : Good(e)' <=> Good(e)
  BY DEF Good, Event
<1>2. \A k \in DOMAIN delivery' : k \in DOMAIN delivery \/ k[1] = trigger
  BY QueueIs
<1>3. Event' = Event
  BY DEF Event
<1> QED BY <1>1, <1>2, <1>3 DEF Named

LEMMA GatheredStays ==
  ASSUME Gathered, world' = world, DOMAIN incident' \subseteq DOMAIN incident,
         \A i \in DOMAIN incident' : incident'[i].alerts = incident[i].alerts
  PROVE  Gathered'
  BY DEF Gathered, Good, Event

\* The incidents are a list of rows.
IncFields == {"key", "state", "sev", "ack", "acked", "alerts", "chain", "exh", "fired", "attaches"}
IncRow(S) == {r \in S : DOMAIN r = IncFields}
Rows == \E S : incident \in Seq(IncRow(S))

LEMMA RowIs ==
  ASSUME Rows, NEW i \in DOMAIN incident PROVE DOMAIN incident[i] = IncFields
<1>1. PICK S : incident \in Seq(IncRow(S))
  BY DEF Rows
<1>2. incident[i] \in IncRow(S)
  BY <1>1, ElementOfSeq, LenProperties
<1> QED BY <1>2 DEF IncRow

LEMMA RowsAppend ==
  ASSUME Rows, NEW r, DOMAIN r = IncFields, incident' = Append(incident, r)
  PROVE  /\ Rows' /\ Len(incident) \in Nat /\ Len(incident) + 1 \notin DOMAIN incident
         /\ DOMAIN incident' = DOMAIN incident \cup {Len(incident) + 1}
         /\ incident'[Len(incident) + 1] = r
         /\ \A i \in DOMAIN incident : incident'[i] = incident[i]
<1>1. PICK S : incident \in Seq(IncRow(S))
  BY DEF Rows
<1> DEFINE T == IncRow(S \cup {r})
<1>2. incident \in Seq(T)
  <2>1. IncRow(S) \subseteq T
    BY DEF IncRow
  <2> HIDE DEF T
  <2> QED BY <1>1, <2>1, SeqMonotonic
<1>3. r \in T
  BY DEF IncRow
<1> HIDE DEF T
<1>4. /\ incident' \in Seq(T) /\ Len(incident') = Len(incident) + 1 /\ Len(incident) \in Nat
      /\ incident'[Len(incident) + 1] = r
      /\ \A n \in 1..Len(incident) : incident'[n] = incident[n]
  BY <1>2, <1>3, AppendProperties, LenProperties
<1>5. DOMAIN incident = 1..Len(incident) /\ DOMAIN incident' = 1..Len(incident) + 1
  BY <1>2, <1>4, LenProperties
<1> QED BY <1>4, <1>5 DEF Rows, T

LEMMA SeqPut ==
  ASSUME NEW T, NEW s \in Seq(T), NEW i \in DOMAIN s, NEW e \in T, NEW r,
         r = [s EXCEPT ![i] = e]
  PROVE  r \in Seq(T)
<1>1. i \in 1..Len(s)
  BY LenProperties
<1> QED BY <1>1, ExceptSeq

LEMMA RowsPut ==
  ASSUME Rows, NEW i, NEW r, i \in DOMAIN incident => DOMAIN r = IncFields,
         incident' = [incident EXCEPT ![i] = r]
  PROVE  /\ Rows' /\ DOMAIN incident' = DOMAIN incident
         /\ i \in DOMAIN incident => incident'[i] = r
         /\ \A j \in DOMAIN incident \ {i} : incident'[j] = incident[j]
<1>1. PICK S : incident \in Seq(IncRow(S))
  BY DEF Rows
<1> DEFINE T == IncRow(S \cup {r})
<1>2. incident \in Seq(T)
  <2>1. IncRow(S) \subseteq T
    BY DEF IncRow
  <2> HIDE DEF T
  <2> QED BY <1>1, <2>1, SeqMonotonic
<1>3. i \in DOMAIN incident => r \in T
  BY DEF IncRow
<1> HIDE DEF T
<1>4. CASE i \in DOMAIN incident
  <2>1. incident' \in Seq(T)
    BY <1>2, <1>3, <1>4, SeqPut
  <2> QED BY <1>4, <2>1 DEF Rows, T
<1>5. CASE i \notin DOMAIN incident
  <2>1. DOMAIN incident' = DOMAIN incident /\ \A j \in DOMAIN incident : incident'[j] = incident[j]
    BY <1>5
  <2>2. incident \in [DOMAIN incident -> T]
    BY <1>2, SeqDef
  <2>3. incident' = incident
    BY <1>5, <2>2
  <2> QED BY <1>2, <1>5, <2>3 DEF Rows, T
<1> QED BY <1>4, <1>5

\* A step adds an incident, rewrites one or leaves them all alone.
Adds(r) ==
  /\ incident' = Append(incident, r)
  /\ DOMAIN r = IncFields /\ r.alerts = {} /\ r.chain = NoChain /\ r.fired = <<>> /\ r.attaches = 0
Edits(i, r) ==
  /\ incident' = [incident EXCEPT ![i] = r]
  /\ i \in DOMAIN incident => DOMAIN r = IncFields
Keeps(i, r, F) == i \in DOMAIN incident => \A x \in F : r[x] = incident[i][x]

LEMMA CreateIs == ASSUME NEW p, Create(p) PROVE \E r : Adds(r)
<1>1. PICK r : /\ incident' = Append(incident, r)
               /\ r = [key |-> world.event[job[p].e].key, state |-> "open",
                       sev |-> world.event[job[p].e].eff, ack |-> world.event[job[p].e].ack,
                       acked |-> FALSE, alerts |-> {}, chain |-> NoChain, exh |-> FALSE,
                       fired |-> <<>>, attaches |-> 0]
  BY DEF Create
<1>2. DOMAIN r = IncFields
  BY <1>1 DEF IncFields
<1>3. r.alerts = {} /\ r.chain = NoChain /\ r.fired = <<>> /\ r.attaches = 0
  BY <1>1
<1> QED BY <1>1, <1>2, <1>3 DEF Adds

LEMMA AttachIs ==
  ASSUME Rows, NEW p, Attach(p)
  PROVE  \E r : /\ Edits(job[p].inc, r)
                /\ Keeps(job[p].inc, r, {"chain", "fired", "attaches"})
                /\ job[p].inc \in DOMAIN incident =>
                     r.alerts = incident[job[p].inc].alerts \cup {job[p].e}
<1> DEFINE i == job[p].inc
           ev == world.event[job[p].e]
           r == [incident[i] EXCEPT !.alerts = @ \cup {job[p].e},
                                    !.sev = IF ev.sev > @ THEN ev.sev ELSE @,
                                    !.ack = @ \/ ev.ack]
<1>1. incident' = [incident EXCEPT ![i] = r]
  BY DEF Attach
<1>2. ASSUME i \in DOMAIN incident
      PROVE  /\ DOMAIN r = IncFields /\ r.alerts = incident[i].alerts \cup {job[p].e}
             /\ r.chain = incident[i].chain /\ r.fired = incident[i].fired
             /\ r.attaches = incident[i].attaches
  BY <1>2, RowIs DEF IncFields
<1> HIDE DEF r
<1> QED BY <1>1, <1>2 DEF Edits, Keeps

LEMMA AttachChainIs ==
  ASSUME Rows, NEW p, AttachChain(p)
  PROVE  \E r : /\ Edits(job[p].inc, r) /\ Keeps(job[p].inc, r, {"alerts", "fired"})
                /\ job[p].inc \in DOMAIN incident =>
                     /\ r.chain = [NoChain EXCEPT !.policy = TRUE, !.timer = "wait"]
                     /\ r.attaches = incident[job[p].inc].attaches + 1
<1> DEFINE i == job[p].inc
           c == [NoChain EXCEPT !.policy = TRUE, !.timer = "wait"]
           r == [incident[i] EXCEPT !.chain = c, !.attaches = @ + 1]
<1>1. incident' = [incident EXCEPT ![i] = r]
  BY DEF AttachChain
<1> HIDE DEF c
<1>2. ASSUME i \in DOMAIN incident
      PROVE  /\ DOMAIN r = IncFields /\ r.alerts = incident[i].alerts
             /\ r.chain = c /\ r.fired = incident[i].fired
             /\ r.attaches = incident[i].attaches + 1
  BY <1>2, RowIs DEF IncFields
<1> HIDE DEF r
<1> QED BY <1>1, <1>2 DEF Edits, Keeps, c

\* The chain of i becomes c, and nothing else that is counted changes.
Rechained(i, c) ==
  \E r : /\ Edits(i, r) /\ Keeps(i, r, {"alerts", "fired", "attaches"})
         /\ i \in DOMAIN incident => r.chain = c

LEMMA ParkIs ==
  ASSUME Rows, NEW i, NEW c, incident' = [incident EXCEPT ![i].chain = c]
  PROVE  Rechained(i, c)
<1> DEFINE r == [incident[i] EXCEPT !.chain = c]
<1>1. incident' = [incident EXCEPT ![i] = r]
  OBVIOUS
<1>2. ASSUME i \in DOMAIN incident
      PROVE  /\ DOMAIN r = IncFields /\ r.alerts = incident[i].alerts /\ r.chain = c
             /\ r.fired = incident[i].fired /\ r.attaches = incident[i].attaches
  BY <1>2, RowIs DEF IncFields
<1> HIDE DEF r
<1> QED BY <1>1, <1>2 DEF Edits, Keeps, Rechained

LEMMA MarkFiredIs ==
  ASSUME Rows, NEW s, MarkFired(s) PROVE Rechained(scan[s].inc, scan[s].next)
<1> DEFINE i == scan[s].inc
           r == [incident[i] EXCEPT !.chain = scan[s].next, !.state = "escalated",
                                    !.exh = @ \/ scan[s].exh]
<1>1. incident' = [incident EXCEPT ![i] = r]
  BY DEF MarkFired
<1>2. ASSUME i \in DOMAIN incident
      PROVE  /\ DOMAIN r = IncFields /\ r.alerts = incident[i].alerts /\ r.chain = scan[s].next
             /\ r.fired = incident[i].fired /\ r.attaches = incident[i].attaches
  BY <1>2, RowIs DEF IncFields
<1> HIDE DEF r
<1> QED BY <1>1, <1>2 DEF Edits, Keeps, Rechained

LEMMA FireStepIs ==
  ASSUME Rows, NEW i, NEW n, incident' = [incident EXCEPT ![i].fired = Append(@, n)]
  PROVE  \E r : /\ Edits(i, r) /\ Keeps(i, r, {"alerts", "chain", "attaches"})
                /\ i \in DOMAIN incident => r.fired = Append(incident[i].fired, n)
<1> DEFINE r == [incident[i] EXCEPT !.fired = Append(@, n)]
<1>1. incident' = [incident EXCEPT ![i] = r]
  OBVIOUS
<1>2. ASSUME i \in DOMAIN incident
      PROVE  /\ DOMAIN r = IncFields /\ r.alerts = incident[i].alerts
             /\ r.fired = Append(incident[i].fired, n)
             /\ r.chain = incident[i].chain /\ r.attaches = incident[i].attaches
  BY <1>2, RowIs DEF IncFields
<1> HIDE DEF r
<1> QED BY <1>1, <1>2 DEF Edits, Keeps

LEMMA ClosedIs ==
  ASSUME Rows, NEW i, Ack(i) \/ Resolve(i)
  PROVE  \E r : Edits(i, r) /\ Keeps(i, r, {"alerts", "chain", "fired", "attaches"})
<1>1. CASE Ack(i)
  <2> DEFINE r == [incident[i] EXCEPT !.state = "acknowledged", !.acked = TRUE]
  <2>1. incident' = [incident EXCEPT ![i] = r]
    BY <1>1 DEF Ack
  <2>2. ASSUME i \in DOMAIN incident
        PROVE  /\ DOMAIN r = IncFields /\ r.alerts = incident[i].alerts
               /\ r.chain = incident[i].chain /\ r.fired = incident[i].fired
               /\ r.attaches = incident[i].attaches
    BY <2>2, RowIs DEF IncFields
  <2> HIDE DEF r
  <2> QED BY <2>1, <2>2 DEF Edits, Keeps
<1>2. CASE Resolve(i)
  <2> DEFINE r == [incident[i] EXCEPT !.state = "resolved"]
  <2>1. incident' = [incident EXCEPT ![i] = r]
    BY <1>2 DEF Resolve
  <2>2. ASSUME i \in DOMAIN incident
        PROVE  /\ DOMAIN r = IncFields /\ r.alerts = incident[i].alerts
               /\ r.chain = incident[i].chain /\ r.fired = incident[i].fired
               /\ r.attaches = incident[i].attaches
    BY <2>2, RowIs DEF IncFields
  <2> HIDE DEF r
  <2> QED BY <2>1, <2>2 DEF Edits, Keeps
<1> QED BY <1>1, <1>2

LEMMA StepDueIs ==
  ASSUME Rows, NEW i \in DOMAIN incident, StepDue(i)
  PROVE  Rechained(i, [incident[i].chain EXCEPT !.timer = "due"])
<1> DEFINE c == [incident[i].chain EXCEPT !.timer = "due"]
<1>1. incident' = [incident EXCEPT ![i].chain = c]
  BY DEF StepDue
<1> HIDE DEF c
<1> QED BY <1>1, ParkIs DEF c

\* What a rewritten incident means for the alerts it gathers.
LEMMA GatheredEdits ==
  ASSUME Rows, Gathered, world' = world, NEW i, NEW r, Edits(i, r),
         i \in DOMAIN incident => \A e \in r.alerts : e \in incident[i].alerts \/ Good(e)
  PROVE  Rows' /\ Gathered'
<1>1. /\ Rows' /\ DOMAIN incident' = DOMAIN incident
      /\ i \in DOMAIN incident => incident'[i] = r
      /\ \A j \in DOMAIN incident \ {i} : incident'[j] = incident[j]
  BY RowsPut DEF Edits
<1>2. \A e : Good(e)' <=> Good(e)
  BY DEF Good, Event
<1> QED BY <1>1, <1>2 DEF Gathered

LEMMA GatheredKept ==
  ASSUME Rows, Gathered, world' = world, NEW i, NEW r, NEW F, Edits(i, r), Keeps(i, r, F),
         "alerts" \in F
  PROVE  Rows' /\ Gathered'
<1>1. i \in DOMAIN incident => r.alerts = incident[i].alerts
  BY DEF Keeps
<1> QED BY <1>1, GatheredEdits

LEMMA GatheredStep ==
  ASSUME Base, TokenInv, Rows, [Next]_vars PROVE Rows' /\ Gathered'
<1>0. world' = world
  BY BaseStep
<1> USE <1>0 DEF TokenInv
<1>1. CASE UNCHANGED incident
  BY <1>1 DEF Rows, Gathered, Good, Event
<1>2. ASSUME NEW p \in world.procs, Handle(p) PROVE Rows' /\ Gathered'
  <2>1. UNCHANGED incident \/ Create(p) \/ Attach(p) \/ AttachChain(p)
    BY <1>2 DEF Handle, Take, Refuse, InsertHeld, Hold, InsertAccepted, Touch, Evict, Claim,
         Suppress, Find, Route, RetryScan, RetryNext, store
  <2>2. CASE Create(p)
    <3>1. PICK r : Adds(r)
      BY <2>2, CreateIs
    <3>2. /\ Rows' /\ DOMAIN incident' = DOMAIN incident \cup {Len(incident) + 1}
          /\ incident'[Len(incident) + 1] = r
          /\ \A i \in DOMAIN incident : incident'[i] = incident[i]
      BY <3>1, RowsAppend DEF Adds
    <3>3. \A e : Good(e)' <=> Good(e)
      BY DEF Good, Event
    <3> QED BY <3>1, <3>2, <3>3 DEF Gathered, Adds
  <2>3. CASE Attach(p)
    <3>1. PICK r : /\ Edits(job[p].inc, r)
                   /\ job[p].inc \in DOMAIN incident =>
                        r.alerts = incident[job[p].inc].alerts \cup {job[p].e}
      BY <2>3, AttachIs
    <3>2. Good(job[p].e)
      BY <2>3 DEF Attach, Jobs, IsJob, Cleared, Past
    <3> QED BY <3>1, <3>2, GatheredEdits
  <2>4. CASE AttachChain(p)
    <3>1. PICK r : Edits(job[p].inc, r) /\ Keeps(job[p].inc, r, {"alerts", "fired"})
      BY <2>4, AttachChainIs
    <3> QED BY <3>1, GatheredKept
  <2> QED BY <1>1, <2>1, <2>2, <2>3, <2>4
<1>3. ASSUME NEW i, NEW c, Rechained(i, c) PROVE Rows' /\ Gathered'
  BY <1>3, GatheredKept DEF Rechained
<1>4. ASSUME NEW s \in world.scans, Escalate(s) PROVE Rows' /\ Gathered'
  <2>1. CASE ScanStart(s) \/ FireExhausted(s)
    BY <1>1, <2>1 DEF ScanStart, FireExhausted, store
  <2>2. CASE Park(s)
    <3>1. PICK i, c : incident' = [incident EXCEPT ![i].chain = c]
      BY <2>2 DEF Park
    <3> QED BY <1>3, <3>1, ParkIs
  <2>3. CASE FireStep(s)
    <3>1. PICK i, n : incident' = [incident EXCEPT ![i].fired = Append(@, n)]
      BY <2>3 DEF FireStep
    <3>2. PICK r : Edits(i, r) /\ Keeps(i, r, {"alerts", "chain", "attaches"})
      BY <3>1, FireStepIs
    <3> QED BY <3>2, GatheredKept
  <2>4. CASE MarkFired(s)
    BY <1>3, <2>4, MarkFiredIs
  <2> QED BY <1>4, <2>1, <2>2, <2>3, <2>4 DEF Escalate
<1>5. ASSUME NEW i, Ack(i) \/ Resolve(i) PROVE Rows' /\ Gathered'
  <2>1. PICK r : Edits(i, r) /\ Keeps(i, r, {"alerts", "chain", "fired", "attaches"})
    BY <1>5, ClosedIs
  <2> QED BY <2>1, GatheredKept
<1>6. ASSUME NEW i \in DOMAIN incident, StepDue(i) PROVE Rows' /\ Gathered'
  BY <1>3, <1>6, StepDueIs
<1>7. UNCHANGED incident \/ (\E p \in world.procs : Handle(p)) \/ (\E s \in world.scans : Escalate(s))
        \/ (\E i \in DOMAIN incident : Ack(i) \/ Resolve(i) \/ StepDue(i))
  <2>1. ASSUME NEW d, Dispatch(d) PROVE UNCHANGED incident
    BY <2>1 DEF Dispatch, RunStart, Skip, Send, Record, store
  <2>2. CASE Time
    BY <2>2 DEF Time, Elapse, HoldExpires, BackoffEnds, Refill, store
  <2>3. CASE Fault
    BY <2>3 DEF Fault, StoreFails, DedupFails, KeysFlip, Crash, WindowExpires, store
  <2> QED BY <2>1, <2>2, <2>3 DEF Next, vars
<1> QED BY <1>1, <1>2, <1>4, <1>5, <1>6, <1>7

LEMMA NamedStep ==
  ASSUME Base, TokenInv, [Next]_vars PROVE Named'
<1>0. world' = world
  BY BaseStep
<1> USE <1>0 DEF TokenInv
<1>1. CASE DOMAIN delivery' = DOMAIN delivery
  BY <1>1, NamedStays
<1>2. ASSUME NEW p \in world.procs, Handle(p) PROVE Named'
  <2>1. UNCHANGED delivery \/ Route(p)
    BY <1>2 DEF Handle, Take, Refuse, InsertHeld, Hold, InsertAccepted, Touch, Evict, Claim,
         Suppress, Find, Create, Attach, AttachChain, RetryScan, RetryNext, store
  <2>2. CASE Route(p)
    <3>1. PICK cs : delivery' = Queue(<<"event", job[p].e>>, cs, job[p].inc)
      BY <2>2 DEF Route
    <3>2. Good(job[p].e)
      BY <2>2 DEF Route, Jobs, IsJob, Cleared, Past
    <3>3. PICK t : t = <<"event", job[p].e>>
      OBVIOUS
    <3>4. \A e \in Event : t = <<"event", e>> => Good(e)
      BY <3>2, <3>3
    <3>5. delivery' = Queue(t, cs, job[p].inc)
      BY <3>1, <3>3
    <3> HIDE <3>3
    <3> QED BY <3>4, <3>5, NamedGrows
  <2> QED BY <1>1, <2>1, <2>2
<1>3. ASSUME NEW s, Escalate(s) PROVE Named'
  <2>1. CASE UNCHANGED delivery
    BY <1>1, <2>1
  <2>2. CASE FireStep(s)
    <3>1. PICK t, cs, i, n : delivery' = Queue(t, cs, i) /\ t = <<"step", i, n>>
      BY <2>2 DEF FireStep
    <3>2. \A e \in Event : t # <<"event", e>>
      BY <3>1
    <3> QED BY <3>1, <3>2, NamedGrows
  <2>3. CASE FireExhausted(s)
    <3>1. PICK t, cs, i : delivery' = Queue(t, cs, i) /\ t = <<"exhausted", i>>
      BY <2>3 DEF FireExhausted
    <3>2. \A e \in Event : t # <<"event", e>>
      BY <3>1
    <3> QED BY <3>1, <3>2, NamedGrows
  <2> QED BY <1>3, <2>1, <2>2, <2>3 DEF Escalate, ScanStart, Park, MarkFired, store
<1>4. ASSUME NEW d, Dispatch(d) PROVE DOMAIN delivery' = DOMAIN delivery
  BY <1>4 DEF Dispatch, RunStart, Skip, Send, Record, store
<1>5. ASSUME NEW i, Ack(i) \/ Resolve(i) PROVE DOMAIN delivery' = DOMAIN delivery
  BY <1>5 DEF Ack, Resolve
<1>6. CASE Time
  <2>1. DOMAIN delivery' = DOMAIN delivery
    BY <1>6 DEF Time, Elapse, HoldExpires, StepDue, BackoffEnds, Refill, store
  <2> QED BY <1>1, <2>1
<1>7. CASE Fault
  <2>1. DOMAIN delivery' = DOMAIN delivery
    BY <1>7 DEF Fault, StoreFails, DedupFails, KeysFlip, Crash, WindowExpires, store
  <2> QED BY <1>1, <2>1
<1>8. CASE UNCHANGED vars
  BY <1>1, <1>8 DEF vars
<1> QED BY <1>1, <1>2, <1>3, <1>4, <1>5, <1>6, <1>7, <1>8 DEF Next

LEMMA JobsStep ==
  ASSUME Base, TokenInv, [Next]_vars PROVE Jobs'
<1>0. world' = world
  BY BaseStep
<1> USE <1>0 DEF TokenInv
<1>1. CASE UNCHANGED job
  BY <1>1 DEF Jobs, IsJob, Cleared, Good, Event
<1>2. ASSUME NEW p \in world.procs, NEW j, IsJob(j), job' = [job EXCEPT ![p] = j] PROVE Jobs'
  BY <1>2, JobStep
<1>3. ASSUME NEW p \in world.procs, Handle(p) PROVE Jobs'
  BY <1>2, <1>3, HandleJobs
<1>4. CASE Fault
  <2>1. ASSUME NEW p \in world.procs, StoreFails(p) PROVE Jobs'
    BY <1>2, <2>1, IdleIs DEF StoreFails
  <2>2. ASSUME NEW p \in world.procs, DedupFails(p) PROVE Jobs'
    <3>1. Cleared(job[p]) /\ Goto(p, "find")
      BY <2>2 DEF DedupFails, Cleared, Past
    <3> QED BY <1>2, <3>1, GotoIs
  <2>3. CASE Crash
    <3>1. job' = [p \in world.procs |-> Idle]
      BY <2>3 DEF Crash
    <3> QED BY <3>1 DEF Jobs, IsJob, Idle, JobFields, Cleared, Past
  <2>4. CASE KeysFlip \/ \E f \in Fingerprint : WindowExpires(f)
    BY <1>1, <2>4 DEF KeysFlip, WindowExpires
  <2> QED BY <1>4, <2>1, <2>2, <2>3, <2>4 DEF Fault
<1>5. UNCHANGED job \/ (\E p \in world.procs : Handle(p)) \/ Fault
  <2>1. ASSUME NEW d, Dispatch(d) PROVE UNCHANGED job
    BY <2>1 DEF Dispatch, RunStart, Skip, Send, Record
  <2>2. ASSUME NEW s, Escalate(s) PROVE UNCHANGED job
    BY <2>2 DEF Escalate, ScanStart, Park, FireStep, FireExhausted, MarkFired
  <2>3. CASE Time
    BY <2>3 DEF Time, Elapse, HoldExpires, StepDue, BackoffEnds, Refill
  <2> QED BY <2>1, <2>2, <2>3 DEF Next, vars, Ack, Resolve
<1> QED BY <1>1, <1>3, <1>4, <1>5

LEMMA Starts == ASSUME Init PROVE Base /\ Rows /\ TokenInv
<1>1. world \in Scenario /\ left = world.left
  BY DEF Init
<1>2. Base
  BY <1>1, ScenariosAreFinite DEF Base, LeftInv
<1>3. Rows
  <2>1. incident = <<>>
    BY DEF Init
  <2>2. incident \in Seq(IncRow({}))
    BY <2>1, EmptySeq
  <2> QED BY <2>2 DEF Rows
<1>4. Jobs
  BY DEF Init, Jobs, IsJob, Idle, JobFields, Cleared, Past
<1>5. Named /\ Gathered
  BY DEF Init, Named, Gathered
<1> QED BY <1>2, <1>3, <1>4, <1>5 DEF TokenInv

(* No token, no notification (pipeline.ts): through holds, retries and     *)
(* failures, nothing is queued for an event that needs a token and has no  *)
(* good one, and no incident gathers it.                                   *)
THEOREM OnlyTheCleared == Spec => []NoTokenNoNotification
<1> DEFINE Inv == Base /\ Rows /\ TokenInv
<1>1. Init => Inv
  BY Starts
<1>2. Inv /\ [Next]_vars => Inv'
  <2> SUFFICES ASSUME Inv, [Next]_vars PROVE Inv'
    OBVIOUS
  <2> QED BY BaseStep, GatheredStep, NamedStep, JobsStep DEF TokenInv
<1>3. Inv => NoTokenNoNotification
  BY DEF TokenInv, Named, Gathered, Good, NoTokenNoNotification
<1> HIDE DEF Inv
<1> QED BY <1>1, <1>2, <1>3, PTL DEF Spec

-----------------------------------------------------------------------------
(* One first per window.                                                   *)

AlertFields == {"state", "authz", "timer", "old", "inc", "routed"}
Alerts == DOMAIN alert = Event /\ \A e \in Event : DOMAIN alert[e] = AlertFields

LEMMA AlertPut ==
  ASSUME Alerts, world' = world, NEW e, NEW r, e \in Event => DOMAIN r = AlertFields,
         alert' = [alert EXCEPT ![e] = r]
  PROVE  Alerts' /\ \A x \in Event : alert'[x] = IF x = e THEN r ELSE alert[x]
  BY DEF Alerts, Event

\* A row is written over; whether it is routed does not change.
LEMMA AlertEdit ==
  ASSUME Alerts, world' = world, NEW e, NEW r, alert' = [alert EXCEPT ![e] = r],
         e \in Event => DOMAIN r = AlertFields /\ (r.routed => alert[e].routed)
  PROVE  Alerts' /\ \A x \in Event : alert'[x].routed => alert[x].routed
  BY AlertPut DEF Alerts

Unrouted == Alerts' /\ \A x \in Event : alert'[x].routed => alert[x].routed

LEMMA HandleAlerts ==
  ASSUME Alerts, world' = world, NEW p, Handle(p)
  PROVE  /\ Alerts'
         /\ \A x \in Event : alert'[x].routed =>
              alert[x].routed \/ (x = job[p].e /\ job[p].pc \in Ahead)
<1> DEFINE e == job[p].e
<1>1. CASE UNCHANGED alert
  BY <1>1 DEF Alerts, Event
<1>2. ASSUME NEW r, alert' = [alert EXCEPT ![e] = r], DOMAIN r = AlertFields, ~r.routed
      PROVE  Unrouted
  BY <1>2, AlertEdit DEF Unrouted
<1>3. CASE Refuse(p)
  <2> DEFINE r == [NoRow EXCEPT !.state = "suppressed", !.authz = "rejected"]
  <2>1. DOMAIN r = AlertFields /\ ~r.routed
    BY DEF NoRow, AlertFields
  <2>2. UNCHANGED alert \/ alert' = [alert EXCEPT ![e] = r]
    BY <1>3 DEF Refuse
  <2> HIDE DEF r
  <2> QED BY <1>1, <1>2, <2>1, <2>2 DEF Unrouted
<1>4. CASE InsertHeld(p)
  <2> DEFINE r == [NoRow EXCEPT !.authz = "held"]
  <2>1. DOMAIN r = AlertFields /\ ~r.routed
    BY DEF NoRow, AlertFields
  <2>2. UNCHANGED alert \/ alert' = [alert EXCEPT ![e] = r]
    BY <1>4 DEF InsertHeld
  <2> HIDE DEF r
  <2> QED BY <1>1, <1>2, <2>1, <2>2 DEF Unrouted
<1>5. CASE InsertAccepted(p)
  <2> DEFINE r == [NoRow EXCEPT !.authz = job[p].ver]
  <2>1. DOMAIN r = AlertFields /\ ~r.routed
    BY DEF NoRow, AlertFields
  <2>2. UNCHANGED alert \/ alert' = [alert EXCEPT ![e] = r]
    BY <1>5 DEF InsertAccepted
  <2> HIDE DEF r
  <2> QED BY <1>1, <1>2, <2>1, <2>2 DEF Unrouted
<1>6. CASE Hold(p)
  <2> DEFINE r == [alert[e] EXCEPT !.authz = "held", !.timer = "wait"]
  <2>1. e \in Event => DOMAIN r = AlertFields /\ r.routed = alert[e].routed
    BY DEF Alerts, AlertFields
  <2>2. alert' = [alert EXCEPT ![e] = r]
    BY <1>6 DEF Hold, Alerts
  <2> HIDE DEF r
  <2> QED BY <2>1, <2>2, AlertEdit
<1>7. CASE Suppress(p)
  <2> DEFINE r == [alert[e] EXCEPT !.state = "suppressed"]
  <2>1. e \in Event => DOMAIN r = AlertFields /\ r.routed = alert[e].routed
    BY DEF Alerts, AlertFields
  <2>2. alert' = [alert EXCEPT ![e] = r]
    BY <1>7 DEF Suppress
  <2> HIDE DEF r
  <2> QED BY <2>1, <2>2, AlertEdit
<1>8. CASE Attach(p)
  <2> DEFINE r == [alert[e] EXCEPT !.inc = job[p].inc]
  <2>1. e \in Event => DOMAIN r = AlertFields /\ r.routed = alert[e].routed
    BY DEF Alerts, AlertFields
  <2>2. alert' = [alert EXCEPT ![e] = r]
    BY <1>8 DEF Attach
  <2> HIDE DEF r
  <2> QED BY <2>1, <2>2, AlertEdit
<1>9. CASE Route(p)
  <2> DEFINE r == [alert[e] EXCEPT !.routed = TRUE]
  <2>1. e \in Event => DOMAIN r = AlertFields
    BY DEF Alerts, AlertFields
  <2>2. alert' = [alert EXCEPT ![e] = r] /\ job[p].pc \in Ahead
    BY <1>9 DEF Route, Ahead
  <2> HIDE DEF r
  <2>3. Alerts' /\ \A x \in Event : alert'[x] = IF x = e THEN r ELSE alert[x]
    BY <2>1, <2>2, AlertPut
  <2> QED BY <2>2, <2>3
<1>10. CASE RetryNext(p)
  <2>1. PICK x, v : alert' = [alert EXCEPT ![x] =
            IF v \in {"verified", "none"} THEN [@ EXCEPT !.authz = v, !.timer = "none"]
            ELSE IF v = "unavailable" /\ ~@.old THEN [@ EXCEPT !.authz = "held", !.timer = "wait"]
            ELSE [@ EXCEPT !.authz = "rejected", !.timer = "none", !.state = "suppressed"]]
    BY <1>10 DEF RetryNext
  <2>2. PICK r : /\ r = IF v \in {"verified", "none"}
                        THEN [alert[x] EXCEPT !.authz = v, !.timer = "none"]
                        ELSE IF v = "unavailable" /\ ~alert[x].old
                        THEN [alert[x] EXCEPT !.authz = "held", !.timer = "wait"]
                        ELSE [alert[x] EXCEPT !.authz = "rejected", !.timer = "none",
                                              !.state = "suppressed"]
                 /\ alert' = [alert EXCEPT ![x] = r]
    BY <2>1
  <2>3. x \in Event => DOMAIN r = AlertFields /\ r.routed = alert[x].routed
    BY <2>2 DEF Alerts, AlertFields
  <2> QED BY <2>2, <2>3, AlertEdit
<1> QED BY <1>1, <1>3, <1>4, <1>5, <1>6, <1>7, <1>8, <1>9, <1>10
        DEF Handle, Take, Touch, Evict, Claim, Find, Create, AttachChain, RetryScan, store

LEMMA OtherAlerts ==
  ASSUME Alerts, world' = world, Next, ~\E p \in world.procs : Handle(p)
  PROVE  Unrouted
<1>1. CASE UNCHANGED alert
  BY <1>1 DEF Alerts, Event, Unrouted
<1>2. ASSUME NEW i, Ack(i) \/ Resolve(i) PROVE Unrouted
  <2>1. PICK st : \A e \in Event :
          /\ DOMAIN alert' = Event
          /\ alert'[e] = alert[e] \/ alert'[e] = [alert[e] EXCEPT !.state = st]
    <3>1. CASE Ack(i)
      <4>1. \A e \in Event :
          /\ DOMAIN alert' = Event
          /\ alert'[e] = alert[e] \/ alert'[e] = [alert[e] EXCEPT !.state = "acknowledged"]
        BY <3>1 DEF Ack
      <4> QED BY <4>1
    <3>2. CASE Resolve(i)
      <4>1. \A e \in Event :
          /\ DOMAIN alert' = Event
          /\ alert'[e] = alert[e] \/ alert'[e] = [alert[e] EXCEPT !.state = "resolved"]
        BY <3>2 DEF Resolve
      <4> QED BY <4>1
    <3> QED BY <1>2, <3>1, <3>2
  <2>2. DOMAIN alert' = Event
    BY <1>2 DEF Ack, Resolve
  <2>3. Event' = Event
    BY DEF Event
  <2> QED BY <2>1, <2>2, <2>3 DEF Unrouted, Alerts, AlertFields
<1>3. ASSUME NEW e \in Event, Elapse(e) \/ HoldExpires(e) PROVE Unrouted
  <2>1. PICK r : /\ r = [alert[e] EXCEPT !.timer = "due"] \/ r = [alert[e] EXCEPT !.old = TRUE]
                 /\ alert' = [alert EXCEPT ![e] = r]
    <3>1. CASE Elapse(e)
      <4>1. alert' = [alert EXCEPT ![e] = [alert[e] EXCEPT !.timer = "due"]]
        BY <3>1 DEF Elapse
      <4> QED BY <4>1
    <3>2. CASE HoldExpires(e)
      <4>1. alert' = [alert EXCEPT ![e] = [alert[e] EXCEPT !.old = TRUE]]
        BY <3>2 DEF HoldExpires
      <4> QED BY <4>1
    <3> QED BY <1>3, <3>1, <3>2
  <2>2. DOMAIN r = AlertFields /\ r.routed = alert[e].routed
    BY <2>1 DEF Alerts, AlertFields
  <2> QED BY <2>1, <2>2, AlertEdit DEF Unrouted
<1>4. CASE Time
  <2>1. UNCHANGED alert \/ \E e \in Event : Elapse(e) \/ HoldExpires(e)
    BY <1>4 DEF Time, StepDue, BackoffEnds, Refill, store
  <2> QED BY <1>1, <1>3, <2>1
<1>5. ASSUME NEW d, Dispatch(d) PROVE UNCHANGED alert
  BY <1>5 DEF Dispatch, RunStart, Skip, Send, Record, store
<1>6. ASSUME NEW s, Escalate(s) PROVE UNCHANGED alert
  BY <1>6 DEF Escalate, ScanStart, Park, FireStep, FireExhausted, MarkFired, store
<1>7. CASE Fault
  <2>1. UNCHANGED alert
    BY <1>7 DEF Fault, StoreFails, DedupFails, KeysFlip, Crash, WindowExpires, store
  <2> QED BY <1>1, <2>1
<1> QED BY <1>1, <1>2, <1>4, <1>5, <1>6, <1>7 DEF Next

\* The events that count against the fingerprint f: claimed, or about to be.
Counts(e, f) == /\ world.event[e].fp = f
                /\ ~world.event[e].override /\ world.event[e].renotify = 0
InHand(f) == {e \in Event : /\ Counts(e, f)
                            /\ \E p \in world.procs : job[p].pc \in Ahead /\ job[p].e = e}
Held(f) == Claimed(f) \cup InHand(f)

DedupRow(f) == /\ DOMAIN dedup[f] = {"count", "live"} /\ dedup[f].count \in Nat
               /\ dedup[f].live \in BOOLEAN /\ (dedup[f].live => dedup[f].count > 0)
Live(f) == IF dedup[f].live THEN 1 ELSE 0

\* A claim is paid for by the row that is there or by one that is gone.
Account(f) ==
  /\ DedupRow(f)
  /\ Cardinality(Held(f)) <= Used("windows") + Used("faults") + Live(f)
Claims == DOMAIN dedup = Fingerprint /\ \A f \in Fingerprint : Account(f)

ClaimInv == Base /\ Rows /\ TokenInv /\ Alerts /\ Claims

LEMMA HeldIs ==
  ASSUME Base, NEW f
  PROVE  /\ Held(f) \subseteq Event /\ IsFiniteSet(Held(f)) /\ Cardinality(Held(f)) \in Nat
         /\ IsFiniteSet(Event)
<1>1. IsFiniteSet(Event)
  BY ScenariosAreFinite DEF Base, Event
<1>2. Held(f) \subseteq Event
  BY DEF Held, Claimed, InHand
<1> QED BY <1>1, <1>2, FS_Subset, FS_CardinalityType

LEMMA UsedIs ==
  ASSUME Base, NEW x \in Limits
  PROVE  Used(x) \in Nat /\ left[x] \in Nat /\ world.left[x] \in Nat
         /\ Used(x) = world.left[x] - left[x]
<1>1. world.left[x] \in Nat /\ left[x] \in Nat /\ left[x] <= world.left[x]
  BY ScenariosAreFinite DEF Base, LeftInv
<1> QED BY <1>1 DEF Used

LEMMA UsedGrows ==
  ASSUME Base, Base', world' = world, Uses, NEW x \in Limits
  PROVE  /\ Used(x) \in Nat /\ Used(x)' \in Nat /\ Used(x) <= Used(x)'
         /\ left'[x] < left[x] => Used(x) + 1 <= Used(x)'
<1>1. Used(x) \in Nat /\ left[x] \in Nat /\ world.left[x] \in Nat /\ Used(x) = world.left[x] - left[x]
  BY UsedIs
<1>2. Used(x)' = world'.left[x] - left'[x] /\ world'.left[x] = world.left[x]
  BY DEF Used
<1>3. left'[x] \in Nat /\ left'[x] <= world'.left[x] /\ left'[x] <= left[x]
  BY DEF Base, LeftInv, Uses
<1> HIDE DEF Used
<1> QED BY <1>1, <1>2, <1>3

\* The budget of f does not shrink, except that a lapsed window pays for its row.
LEMMA AccountMoves ==
  ASSUME Base, Base', world' = world, Uses, NEW f, Account(f), DedupRow(f)', NEW n \in {0, 1},
         Cardinality(Held(f)') <= Cardinality(Held(f)) + n, Cardinality(Held(f)') \in Nat,
         \/ n = 0 /\ (dedup[f].live => dedup'[f].live \/ left'["windows"] < left["windows"])
         \/ ~dedup[f].live /\ dedup'[f].live
         \/ dedup'[f].live = dedup[f].live /\ left'["faults"] < left["faults"]
  PROVE  Account(f)'
<1>1. /\ Used("windows") \in Nat /\ Used("windows")' \in Nat /\ Used("windows") <= Used("windows")'
      /\ left'["windows"] < left["windows"] => Used("windows") + 1 <= Used("windows")'
  BY UsedGrows DEF Limits
<1>2. /\ Used("faults") \in Nat /\ Used("faults")' \in Nat /\ Used("faults") <= Used("faults")'
      /\ left'["faults"] < left["faults"] => Used("faults") + 1 <= Used("faults")'
  BY UsedGrows DEF Limits
<1>3. Live(f) = (IF dedup[f].live THEN 1 ELSE 0) /\ Live(f)' = (IF dedup'[f].live THEN 1 ELSE 0)
  BY DEF Live
<1>4. Cardinality(Held(f)) \in Nat
  BY HeldIs
<1>5. Cardinality(Held(f)) <= Used("windows") + Used("faults") + Live(f)
  BY DEF Account
<1>6. PICK h : h = Cardinality(Held(f)')
  OBVIOUS
<1>7. h \in Nat /\ h <= Cardinality(Held(f)) + n
  BY <1>6
<1>8. h <= Used("windows")' + Used("faults")' + Live(f)'
  BY <1>1, <1>2, <1>3, <1>4, <1>5, <1>7
<1> QED BY <1>6, <1>8 DEF Account

LEMMA HeldStays ==
  ASSUME Base, NEW f, Held(f)' \subseteq Held(f)
  PROVE  Cardinality(Held(f)') <= Cardinality(Held(f)) + 0 /\ Cardinality(Held(f)') \in Nat
<1>1. IsFiniteSet(Held(f)) /\ Cardinality(Held(f)) \in Nat
  BY HeldIs
<1>2. PICK S : S = Held(f)'
  OBVIOUS
<1>3. Cardinality(S) <= Cardinality(Held(f)) /\ Cardinality(S) \in Nat
  BY <1>1, <1>2, FS_Subset, FS_CardinalityType
<1> QED BY <1>1, <1>2, <1>3

LEMMA HeldGrows ==
  ASSUME Base, NEW f, NEW e, Held(f)' \subseteq Held(f) \cup {e}
  PROVE  Cardinality(Held(f)') <= Cardinality(Held(f)) + 1 /\ Cardinality(Held(f)') \in Nat
<1>1. IsFiniteSet(Held(f)) /\ Cardinality(Held(f)) \in Nat
  BY HeldIs
<1>2. PICK S : S = Held(f)'
  OBVIOUS
<1>3. /\ IsFiniteSet(Held(f) \cup {e})
      /\ Cardinality(Held(f) \cup {e}) <= Cardinality(Held(f)) + 1
      /\ Cardinality(Held(f) \cup {e}) \in Nat
  BY <1>1, FS_AddElement, FS_CardinalityType
<1>4. Cardinality(S) <= Cardinality(Held(f) \cup {e}) /\ Cardinality(S) \in Nat
  BY <1>2, <1>3, FS_Subset, FS_CardinalityType
<1> QED BY <1>1, <1>2, <1>3, <1>4

\* The handler of p goes on as j: only what it takes on can be new.
LEMMA HeldMoves ==
  ASSUME world' = world, DOMAIN job = world.procs, NEW p \in world.procs, NEW j,
         job' = [job EXCEPT ![p] = j], NEW f,
         \A e \in Event : alert'[e].routed =>
           alert[e].routed \/ (e = job[p].e /\ job[p].pc \in Ahead)
  PROVE  Held(f)' \subseteq Held(f) \cup {e \in Event : e = j.e /\ j.pc \in Ahead /\ Counts(e, f)}
<1>1. Event' = Event /\ \A e : Counts(e, f)' <=> Counts(e, f)
  BY DEF Event, Counts
<1>2. \A q \in world.procs : job'[q] = IF q = p THEN j ELSE job[q]
  OBVIOUS
<1>3. ASSUME NEW e \in Claimed(f)'
      PROVE  e \in Claimed(f) \cup InHand(f)
  <2>1. e \in Event /\ Counts(e, f) /\ alert'[e].routed
    BY <1>1 DEF Claimed, Counts
  <2> QED BY <2>1 DEF Claimed, InHand, Counts
<1>4. ASSUME NEW e \in InHand(f)'
      PROVE  e \in InHand(f) \/ (e \in Event /\ e = j.e /\ j.pc \in Ahead /\ Counts(e, f))
  <2>1. e \in Event /\ Counts(e, f) /\ \E q \in world.procs : job'[q].pc \in Ahead /\ job'[q].e = e
    BY <1>1 DEF InHand
  <2> QED BY <1>2, <2>1 DEF InHand
<1> QED BY <1>3, <1>4 DEF Held

LEMMA NewAndAgain ==
  /\ \A every : AfterVerdict(VerdictFor(1, every)) = "find"
  /\ \A n \in Nat : n > 1 => AfterVerdict(VerdictFor(n, 0)) \notin Ahead
  BY DEF AfterVerdict, VerdictFor, Ahead

\* A step of a handler can hold an event against f only by its verdict.
LEMMA HandleHeld ==
  ASSUME Base, Jobs, Alerts, world' = world, NEW p \in world.procs, Handle(p), NEW f
  PROVE  /\ Held(f)' \subseteq Held(f) \cup {job[p].e}
         /\ Held(f)' \subseteq Held(f) \/ (/\ job[p].pc \in {"dedup", "claim"}
                                          /\ job'[p].pc \in Ahead /\ Counts(job[p].e, f))
<1>1. PICK j : IsJob(j) /\ Follows(p, j) /\ job' = [job EXCEPT ![p] = j]
  BY HandleJobs
<1>2. job'[p] = j
  BY <1>1 DEF Jobs
<1>3. \A x \in Event : alert'[x].routed =>
        alert[x].routed \/ (x = job[p].e /\ job[p].pc \in Ahead)
  BY HandleAlerts
<1>4. Held(f)' \subseteq Held(f) \cup {e \in Event : e = j.e /\ j.pc \in Ahead /\ Counts(e, f)}
  BY <1>1, <1>3, HeldMoves DEF Jobs
<1>5. ASSUME NEW e \in Event, e = j.e, j.pc \in Ahead, Counts(e, f), e \notin Held(f)
      PROVE  e = job[p].e /\ job[p].pc \in {"dedup", "claim"}
  <2>1. e = job[p].e /\ job[p].pc \in Ahead \cup {"dedup", "claim"}
    BY <1>1, <1>5 DEF Follows, Counts
  <2>2. job[p].pc \notin Ahead
    BY <1>5, <2>1 DEF Held, InHand
  <2> QED BY <2>1, <2>2
<1> QED BY <1>2, <1>4, <1>5

LEMMA HandleClaims ==
  ASSUME Base, Base', Uses, Jobs, Alerts, Claims, world' = world, NEW p \in world.procs, Handle(p)
  PROVE  Claims'
<1> DEFINE e == job[p].e
           g == world.event[e].fp
<1>0. Fingerprint' = Fingerprint /\ \A f \in Fingerprint : Account(f) /\ DedupRow(f)
  BY DEF Fingerprint, Event, Claims, Account
<1>1. ASSUME NEW f \in Fingerprint, Held(f)' \subseteq Held(f), DedupRow(f)',
             dedup[f].live => dedup'[f].live
      PROVE  Account(f)'
  BY <1>0, <1>1, HeldStays, AccountMoves
<1>2. ASSUME NEW f \in Fingerprint, DedupRow(f)', ~dedup[f].live /\ dedup'[f].live
      PROVE  Account(f)'
  <2>1. Held(f)' \subseteq Held(f) \cup {e}
    BY HandleHeld
  <2> QED BY <1>0, <1>2, <2>1, HeldGrows, AccountMoves
<1>3. ASSUME NEW f \in Fingerprint, dedup'[f] = dedup[f] PROVE DedupRow(f)'
  BY <1>0, <1>3 DEF DedupRow
<1>4. ASSUME dedup' = [dedup EXCEPT ![g] = [count |-> 1, live |-> TRUE]],
             g \in Fingerprint => dedup[g].count = 0
      PROVE  Claims'
  <2>1. DOMAIN dedup' = Fingerprint'
    BY <1>0, <1>4 DEF Claims
  <2>2. ASSUME NEW f \in Fingerprint PROVE Account(f)'
    <3>1. CASE f = g
      <4>1. dedup'[f] = [count |-> 1, live |-> TRUE]
        BY <1>4, <3>1 DEF Claims
      <4>2. DedupRow(f)'
        BY <4>1 DEF DedupRow
      <4>3. ~dedup[f].live
        BY <1>0, <1>4, <3>1 DEF DedupRow
      <4> QED BY <1>2, <4>1, <4>2, <4>3
    <3>2. CASE f # g
      <4>1. dedup'[f] = dedup[f]
        BY <1>4, <3>2 DEF Claims
      <4>2. Held(f)' \subseteq Held(f)
        BY <3>2, HandleHeld DEF Counts
      <4> QED BY <1>1, <1>3, <4>1, <4>2
    <3> QED BY <3>1, <3>2
  <2> QED BY <1>0, <2>1, <2>2 DEF Claims
<1>5. ASSUME UNCHANGED dedup, \A f \in Fingerprint : Held(f)' \subseteq Held(f) PROVE Claims'
  BY <1>0, <1>1, <1>3, <1>5 DEF Claims
<1>6. ASSUME NEW pc, Goto(p, pc) PROVE job'[p].pc = pc
  BY <1>6 DEF Goto, Jobs, IsJob, JobFields
<1>7. CASE Touch(p)
  <2>1. CASE dedup[g].count > 0 /\ ~dedup[g].live
    <3>1. Goto(p, "evict") /\ UNCHANGED dedup
      BY <1>7, <2>1 DEF Touch
    <3>2. job'[p].pc \notin Ahead
      BY <1>6, <3>1 DEF Ahead
    <3> QED BY <1>5, <3>1, <3>2, HandleHeld
  <2>2. CASE dedup[g].count = 0
    <3>1. dedup' = [dedup EXCEPT ![g] = [count |-> 1, live |-> TRUE]]
      BY <1>7, <2>2 DEF Touch
    <3> QED BY <1>4, <2>2, <3>1
  <2>3. CASE ~(dedup[g].count > 0 /\ ~dedup[g].live) /\ dedup[g].count # 0
    <3>1. /\ dedup' = [dedup EXCEPT ![g] = [dedup[g] EXCEPT !.count = dedup[g].count + 1]]
          /\ Goto(p, AfterVerdict(VerdictFor(dedup[g].count + 1, world.event[e].renotify)))
      BY <1>7, <2>3 DEF Touch
    <3>2. ASSUME NEW f \in Fingerprint
          PROVE  DedupRow(f)' /\ dedup'[f].live = dedup[f].live
      <4>1. CASE f = g
        <5>1. dedup'[f] = [dedup[f] EXCEPT !.count = dedup[f].count + 1]
          BY <3>1, <4>1 DEF Claims
        <5>2. /\ DOMAIN dedup'[f] = {"count", "live"} /\ dedup'[f].count = dedup[f].count + 1
              /\ dedup'[f].live = dedup[f].live
          BY <1>0, <5>1 DEF DedupRow
        <5> QED BY <1>0, <5>2 DEF DedupRow
      <4>2. CASE f # g
        BY <1>3, <3>1, <4>2 DEF Claims
      <4> QED BY <4>1, <4>2
    <3>3. ASSUME NEW f \in Fingerprint PROVE Held(f)' \subseteq Held(f)
      <4>1. CASE Counts(e, f)
        <5>1. g = f /\ world.event[e].renotify = 0
          BY <4>1 DEF Counts
        <5>2. dedup[g].count + 1 \in Nat /\ dedup[g].count + 1 > 1
          BY <1>0, <2>3, <5>1 DEF DedupRow
        <5>3. job'[p].pc \notin Ahead
          BY <1>6, <3>1, <5>1, <5>2, NewAndAgain
        <5> QED BY <5>3, HandleHeld
      <4>2. CASE ~Counts(e, f)
        BY <4>2, HandleHeld
      <4> QED BY <4>1, <4>2
    <3>4. DOMAIN dedup' = Fingerprint'
      BY <1>0, <3>1 DEF Claims
    <3> QED BY <1>0, <1>1, <3>2, <3>3, <3>4 DEF Claims
  <2> QED BY <2>1, <2>2, <2>3
<1>8. CASE Claim(p)
  <2>1. CASE dedup[g].count = 0
    <3>1. dedup' = [dedup EXCEPT ![g] = [count |-> 1, live |-> TRUE]]
      BY <1>8, <2>1 DEF Claim
    <3> QED BY <1>4, <2>1, <3>1
  <2>2. CASE dedup[g].count # 0
    <3>1. PICK n : /\ n = IF dedup[g].count > 2 THEN dedup[g].count ELSE 2
                   /\ UNCHANGED dedup
                   /\ Goto(p, AfterVerdict(VerdictFor(n, world.event[e].renotify)))
      BY <1>8, <2>2 DEF Claim
    <3>2. ASSUME NEW f \in Fingerprint PROVE Held(f)' \subseteq Held(f)
      <4>1. CASE Counts(e, f)
        <5>1. g = f /\ world.event[e].renotify = 0
          BY <4>1 DEF Counts
        <5>2. n \in Nat /\ n > 1
          BY <1>0, <3>1, <5>1 DEF DedupRow
        <5>3. job'[p].pc \notin Ahead
          BY <1>6, <3>1, <5>1, <5>2, NewAndAgain
        <5> QED BY <5>3, HandleHeld
      <4>2. CASE ~Counts(e, f)
        BY <4>2, HandleHeld
      <4> QED BY <4>1, <4>2
    <3> QED BY <1>5, <3>1, <3>2
  <2> QED BY <2>1, <2>2
<1>9. ASSUME job[p].pc \notin {"dedup", "claim"} PROVE \A f \in Fingerprint : Held(f)' \subseteq Held(f)
  BY <1>9, HandleHeld
<1>10. CASE Evict(p)
  <2>1. job[p].pc \notin {"dedup", "claim"}
    BY <1>10 DEF Evict
  <2>2. UNCHANGED dedup \/ (~dedup[g].live /\ dedup' = [dedup EXCEPT ![g] = NoDedup])
    BY <1>10 DEF Evict
  <2>3. CASE ~dedup[g].live /\ dedup' = [dedup EXCEPT ![g] = NoDedup]
    <3>1. DOMAIN dedup' = Fingerprint'
      BY <1>0, <2>3 DEF Claims
    <3>2. ASSUME NEW f \in Fingerprint PROVE DedupRow(f)' /\ (dedup[f].live => dedup'[f].live)
      <4>1. CASE f = g
        <5>1. dedup'[f] = NoDedup
          BY <2>3, <4>1 DEF Claims
        <5>2. DOMAIN dedup'[f] = {"count", "live"} /\ dedup'[f].count = 0 /\ dedup'[f].live = FALSE
          BY <5>1 DEF NoDedup
        <5>3. ~dedup[f].live
          BY <2>3, <4>1
        <5>4. dedup'[f].live \in BOOLEAN /\ ~dedup'[f].live
          BY <5>2
        <5>5. DedupRow(f)'
          BY <5>2, <5>4 DEF DedupRow
        <5> QED BY <5>3, <5>5
      <4>2. CASE f # g
        BY <1>3, <2>3, <4>2 DEF Claims
      <4> QED BY <4>1, <4>2
    <3> QED BY <1>0, <1>1, <1>9, <2>1, <3>1, <3>2 DEF Claims
  <2> QED BY <1>5, <1>9, <2>1, <2>2, <2>3
<1>11. CASE \/ \E x \in Event : Take(p, x)
            \/ Refuse(p) \/ InsertHeld(p) \/ Hold(p) \/ InsertAccepted(p) \/ Suppress(p)
  <2>1. job[p].pc \notin {"dedup", "claim"} /\ UNCHANGED dedup
    BY <1>11 DEF Take, Busy, Refuse, InsertHeld, Hold, InsertAccepted, Suppress
  <2> QED BY <1>5, <1>9, <2>1
<1>12. CASE \/ Find(p) \/ Create(p) \/ Attach(p) \/ Route(p) \/ AttachChain(p)
            \/ RetryScan(p) \/ RetryNext(p)
  <2>1. job[p].pc \notin {"dedup", "claim"} /\ UNCHANGED dedup
    BY <1>12 DEF Find, Create, Attach, Route, AttachChain, RetryScan, RetryNext, Busy, store
  <2> QED BY <1>5, <1>9, <2>1
<1> QED BY <1>7, <1>8, <1>10, <1>11, <1>12 DEF Handle

LEMMA ClaimStep ==
  ASSUME ClaimInv, [Next]_vars PROVE ClaimInv'
<1>0. Base /\ Base' /\ world' = world /\ Uses /\ Rows' /\ Jobs' /\ Gathered' /\ Named'
  BY BaseStep, GatheredStep, NamedStep, JobsStep DEF ClaimInv
<1>1. Fingerprint' = Fingerprint /\ Event' = Event
      /\ \A f \in Fingerprint : Account(f) /\ DedupRow(f)
  BY <1>0 DEF ClaimInv, Claims, Account, Fingerprint, Event
<1>2. ASSUME NEW p \in world.procs, Handle(p) PROVE Alerts' /\ Claims'
  BY <1>0, <1>2, HandleAlerts, HandleClaims DEF ClaimInv, TokenInv
<1>3. ASSUME NEW f \in Fingerprint, dedup'[f] = dedup[f] PROVE DedupRow(f)'
  BY <1>1, <1>3 DEF DedupRow
<1>4. ASSUME UNCHANGED dedup, \A f \in Fingerprint : Held(f)' \subseteq Held(f) PROVE Claims'
  <2>1. ASSUME NEW f \in Fingerprint PROVE Account(f)'
    BY <1>0, <1>1, <1>3, <1>4, HeldStays, AccountMoves
  <2> QED BY <1>1, <1>4, <2>1 DEF ClaimInv, Claims
<1>5. ASSUME Unrouted, UNCHANGED job, NEW f \in Fingerprint PROVE Held(f)' \subseteq Held(f)
  BY <1>0, <1>1, <1>5 DEF Unrouted, Held, Claimed, InHand, Counts
<1>6. ASSUME Unrouted, NEW p \in world.procs, NEW j, job' = [job EXCEPT ![p] = j], NEW f
      PROVE  /\ Held(f)' \subseteq Held(f) \cup {j.e}
             /\ j.pc \notin Ahead => Held(f)' \subseteq Held(f)
  <2>1. Held(f)' \subseteq Held(f) \cup {e \in Event : e = j.e /\ j.pc \in Ahead /\ Counts(e, f)}
    BY <1>0, <1>6, HeldMoves DEF Unrouted, ClaimInv, TokenInv, Jobs
  <2> QED BY <2>1
<1>7. ASSUME Next, ~\E p \in world.procs : Handle(p) PROVE Unrouted
  BY <1>0, <1>7, OtherAlerts DEF ClaimInv
<1>8. ASSUME Unrouted, Fault PROVE Claims'
  <2>1. ASSUME NEW p \in world.procs, StoreFails(p) PROVE Claims'
    <3>1. job' = [job EXCEPT ![p] = Idle] /\ UNCHANGED dedup
      BY <2>1 DEF StoreFails
    <3>2. Idle.pc \notin Ahead
      BY DEF Idle, Ahead
    <3> QED BY <1>4, <1>6, <1>8, <3>1, <3>2
  <2>2. ASSUME NEW p \in world.procs, DedupFails(p) PROVE Claims'
    <3>1. PICK j : job' = [job EXCEPT ![p] = j] /\ UNCHANGED dedup
      BY <2>2 DEF DedupFails, Goto
    <3>2. left'["faults"] < left["faults"]
      <4>1. left' = [left EXCEPT !["faults"] = @ - 1] /\ left["faults"] > 0
        BY <2>2 DEF DedupFails
      <4>2. left'["faults"] = left["faults"] - 1 /\ left["faults"] \in Nat
        BY <1>0, <4>1 DEF Base, LeftInv, Limits
      <4> QED BY <4>2
    <3>3. ASSUME NEW f \in Fingerprint PROVE Account(f)'
      <4>1. Held(f)' \subseteq Held(f) \cup {j.e}
        BY <1>6, <1>8, <3>1
      <4>2. dedup'[f] = dedup[f]
        BY <3>1
      <4> QED BY <1>0, <1>1, <1>3, <3>2, <4>1, <4>2, HeldGrows, AccountMoves
    <3> QED BY <1>1, <3>1, <3>3 DEF ClaimInv, Claims
  <2>3. CASE Crash
    <3>1. job' = [p \in world.procs |-> Idle] /\ UNCHANGED dedup
      BY <2>3 DEF Crash
    <3>2. ASSUME NEW f \in Fingerprint PROVE Held(f)' \subseteq Held(f)
      BY <1>0, <1>1, <1>8, <3>1 DEF Unrouted, Held, Claimed, InHand, Counts, Idle, Ahead
    <3> QED BY <1>4, <3>1, <3>2
  <2>4. CASE KeysFlip
    BY <1>4, <1>5, <1>8, <2>4 DEF KeysFlip, store
  <2>5. ASSUME NEW g \in Fingerprint, WindowExpires(g) PROVE Claims'
    <3>1. /\ UNCHANGED job /\ dedup' = [dedup EXCEPT ![g] = [dedup[g] EXCEPT !.live = FALSE]]
          /\ left' = [left EXCEPT !["windows"] = @ - 1] /\ left["windows"] > 0
      BY <2>5 DEF WindowExpires
    <3>2. left'["windows"] < left["windows"]
      <4>1. left'["windows"] = left["windows"] - 1 /\ left["windows"] \in Nat
        BY <1>0, <3>1 DEF Base, LeftInv, Limits
      <4> QED BY <4>1
    <3>3. ASSUME NEW f \in Fingerprint PROVE DedupRow(f)'
      <4>1. CASE f = g
        <5>1. dedup'[f] = [dedup[f] EXCEPT !.live = FALSE]
          BY <3>1, <4>1 DEF ClaimInv, Claims
        <5>2. /\ DOMAIN dedup'[f] = {"count", "live"} /\ dedup'[f].count = dedup[f].count
              /\ dedup'[f].live = FALSE
          BY <1>1, <5>1 DEF DedupRow
        <5> QED BY <1>1, <5>2 DEF DedupRow
      <4>2. CASE f # g
        BY <1>3, <3>1, <4>2 DEF ClaimInv, Claims
      <4> QED BY <4>1, <4>2
    <3>4. ASSUME NEW f \in Fingerprint PROVE Account(f)'
      <4>1. Held(f)' \subseteq Held(f)
        BY <1>5, <1>8, <3>1
      <4> QED BY <1>0, <1>1, <3>2, <3>3, <4>1, HeldStays, AccountMoves
    <3> QED BY <1>1, <3>1, <3>4 DEF ClaimInv, Claims
  <2> QED BY <1>8, <2>1, <2>2, <2>3, <2>4, <2>5 DEF Fault
<1>9. ASSUME UNCHANGED <<job, dedup>>, Unrouted PROVE Claims'
  BY <1>4, <1>5, <1>9
<1>10. ASSUME Next, ~\E p \in world.procs : Handle(p), ~Fault PROVE UNCHANGED <<job, dedup>>
  <2>1. ASSUME NEW d, Dispatch(d) PROVE UNCHANGED <<job, dedup>>
    BY <2>1 DEF Dispatch, RunStart, Skip, Send, Record, store
  <2>2. ASSUME NEW s, Escalate(s) PROVE UNCHANGED <<job, dedup>>
    BY <2>2 DEF Escalate, ScanStart, Park, FireStep, FireExhausted, MarkFired, store
  <2>3. CASE Time
    BY <2>3 DEF Time, Elapse, HoldExpires, StepDue, BackoffEnds, Refill, store
  <2>4. ASSUME NEW i, Ack(i) \/ Resolve(i) PROVE UNCHANGED <<job, dedup>>
    BY <2>4 DEF Ack, Resolve
  <2> QED BY <1>10, <2>1, <2>2, <2>3, <2>4 DEF Next
<1>11. CASE UNCHANGED vars
  <2>1. UNCHANGED <<job, dedup, alert>>
    BY <1>11 DEF vars
  <2>2. Unrouted
    BY <1>1, <2>1 DEF Unrouted, Alerts, ClaimInv
  <2> QED BY <1>0, <1>9, <2>1, <2>2 DEF ClaimInv, TokenInv, Unrouted
<1>12. CASE Next /\ ~\E p \in world.procs : Handle(p)
  BY <1>0, <1>7, <1>8, <1>9, <1>10, <1>12 DEF ClaimInv, TokenInv, Unrouted
<1>13. CASE \E p \in world.procs : Handle(p)
  BY <1>0, <1>2, <1>13 DEF ClaimInv, TokenInv
<1> QED BY <1>11, <1>12, <1>13

(* One event alone is new within a window of its fingerprint (dedup.ts),   *)
(* whichever handlers meet the expired row: every other one is paid for by *)
(* a window that lapsed or a failing dedup store.                          *)
THEOREM OneFirst == Spec => []OneFirstPerWindow
<1>1. Init => ClaimInv
  <2> SUFFICES ASSUME Init PROVE ClaimInv
    OBVIOUS
  <2>1. Base /\ Rows /\ TokenInv
    BY Starts
  <2>2. Alerts
    BY DEF Init, Alerts, NoRow, AlertFields
  <2>3. ASSUME NEW f \in Fingerprint PROVE Account(f)
    <3>1. dedup[f] = NoDedup
      BY DEF Init
    <3>2. DedupRow(f) /\ ~dedup[f].live
      BY <3>1 DEF DedupRow, NoDedup
    <3>3. Held(f) = {}
      BY DEF Init, Held, Claimed, InHand, NoRow, Idle, Ahead
    <3>4. Cardinality({}) = 0
      BY FS_EmptySet
    <3>5. Used("windows") \in Nat /\ Used("faults") \in Nat
      BY <2>1, UsedIs DEF Limits
    <3> QED BY <3>2, <3>3, <3>4, <3>5 DEF Account, Live
  <2>4. DOMAIN dedup = Fingerprint
    BY DEF Init
  <2> QED BY <2>1, <2>2, <2>3, <2>4 DEF ClaimInv, Claims
<1>2. ClaimInv /\ [Next]_vars => ClaimInv'
  BY ClaimStep
<1>3. ClaimInv => OneFirstPerWindow
  <2> SUFFICES ASSUME ClaimInv, NEW f \in Fingerprint
               PROVE  Cardinality(Claimed(f)) <= 1 + Used("windows") + Used("faults")
    BY DEF OneFirstPerWindow
  <2>1. Cardinality(Held(f)) <= Used("windows") + Used("faults") + Live(f) /\ Live(f) \in {0, 1}
    BY DEF ClaimInv, Claims, Account, Live
  <2>2. IsFiniteSet(Held(f)) /\ Cardinality(Held(f)) \in Nat
    BY HeldIs DEF ClaimInv
  <2>3. Cardinality(Claimed(f)) <= Cardinality(Held(f)) /\ Cardinality(Claimed(f)) \in Nat
    BY <2>2, FS_Subset, FS_CardinalityType DEF Held
  <2>4. Used("windows") \in Nat /\ Used("faults") \in Nat
    BY UsedIs DEF Limits, ClaimInv
  <2> QED BY <2>1, <2>2, <2>3, <2>4
<1> QED BY <1>1, <1>2, <1>3, PTL DEF Spec

-----------------------------------------------------------------------------
(* A delivery is sent once.                                                *)

LEMMA Product ==
  ASSUME NEW a \in Nat, NEW b \in Nat, NEW n \in Nat, a <= b
  PROVE  a * n \in Nat /\ b * n \in Nat /\ a * n <= b * n /\ (a + 1 <= b => a * n + n <= b * n)
<1>1. a * n \in Nat /\ b * n \in Nat
  OBVIOUS
<1>2. \A x, y \in Nat : (x + y) * n = x * n + y * n /\ y * n \in Nat
  OBVIOUS
<1>3. a * n <= b * n
  <2>1. PICK d \in Nat : b = a + d
    <3>1. b - a \in Nat /\ b = a + (b - a)
      OBVIOUS
    <3> QED BY <3>1
  <2>2. b * n = a * n + d * n /\ d * n \in Nat
    BY <1>2, <2>1
  <2> QED BY <1>1, <2>2
<1>4. ASSUME a + 1 <= b PROVE a * n + n <= b * n
  <2>1. PICK d \in Nat : b = (a + 1) + d
    <3>1. b - (a + 1) \in Nat /\ b = (a + 1) + (b - (a + 1))
      BY <1>4
    <3> QED BY <3>1
  <2>2. b * n = (a + 1) * n + d * n /\ d * n \in Nat /\ (a + 1) * n = a * n + n
    <3>1. (a + 1) * n = a * n + 1 * n
      BY <1>2
    <3>2. b * n = (a + 1) * n + d * n
      BY <1>2, <2>1
    <3> QED BY <1>2, <3>1, <3>2
  <2> QED BY <1>1, <2>2
<1> QED BY <1>1, <1>3, <1>4

\* One pass more or one less.
LEMMA OneMore ==
  ASSUME NEW S, IsFiniteSet(S), NEW d
  PROVE  /\ Cardinality(S) \in Nat
         /\ IsFiniteSet(S \cup {d}) /\ IsFiniteSet(S \ {d})
         /\ d \notin S => Cardinality(S \cup {d}) = Cardinality(S) + 1
         /\ d \in S => Cardinality(S \ {d}) = Cardinality(S) - 1 /\ Cardinality(S) > 0
<1>1. Cardinality(S) \in Nat
  BY FS_CardinalityType
<1>2. ASSUME d \in S PROVE Cardinality(S \ {d}) = Cardinality(S) - 1 /\ Cardinality(S) > 0
  <2>1. Cardinality(S \ {d}) = Cardinality(S) - 1 /\ IsFiniteSet(S \ {d})
    BY <1>2, FS_RemoveElement
  <2>2. Cardinality(S \ {d}) \in Nat
    BY <2>1, FS_CardinalityType
  <2> QED BY <1>1, <2>1, <2>2
<1> QED BY <1>1, <1>2, FS_AddElement, FS_RemoveElement

DeliveryFields == {"inc", "status", "attempts", "due", "tries", "oks"}
RunFields == {"todo", "key", "out"}

Deliveries == \A k \in DOMAIN delivery :
  DOMAIN delivery[k] = DeliveryFields /\ delivery[k].oks \in Nat /\ k # <<>>
Passes == /\ DOMAIN run = world.runs
          /\ \A d \in world.runs :
               /\ DOMAIN run[d] = RunFields
               /\ DOMAIN run[d].todo \subseteq DOMAIN delivery
               /\ run[d].key # <<>> => run[d].key \in DOMAIN run[d].todo

\* The passes that hold a delivery, and those that may still deliver it.
Holders(k) == {d \in world.runs : k \in DOMAIN run[d].todo}
Unsent(k) == {d \in Holders(k) : ~(run[d].key = k /\ run[d].out = "ok")}
SendBound == 1 + Used("overlaps") + Used("crashes") * Cardinality(world.runs)
Pending == {"pending", "failed"}

\* A pass that may still deliver is counted; a delivery no pass holds has room
\* for the next one.
Counted(k) == delivery[k].oks + Cardinality(Unsent(k)) <= SendBound
Waiting(k) == Holders(k) = {} /\ delivery[k].status \in Pending => delivery[k].oks + 1 <= SendBound

SendInv == /\ Base /\ Deliveries /\ Passes
           /\ \A k \in DOMAIN delivery : Counted(k) /\ Waiting(k)

LEMMA BoundIs ==
  ASSUME Base
  PROVE  SendBound \in Nat /\ SendBound >= 1 /\ IsFiniteSet(world.runs)
         /\ Cardinality(world.runs) \in Nat
<1>1. IsFiniteSet(world.runs) /\ Cardinality(world.runs) \in Nat
  BY ScenariosAreFinite, FS_CardinalityType DEF Base
<1>2. Used("overlaps") \in Nat /\ Used("crashes") \in Nat
  BY UsedIs DEF Limits
<1>3. Used("crashes") * Cardinality(world.runs) \in Nat
  BY <1>1, <1>2, Product
<1> QED BY <1>1, <1>2, <1>3 DEF SendBound

LEMMA BoundGrows ==
  ASSUME Base, Base', world' = world, Uses
  PROVE  /\ SendBound \in Nat /\ SendBound' \in Nat /\ SendBound <= SendBound'
         /\ left'["overlaps"] < left["overlaps"] => SendBound + 1 <= SendBound'
         /\ left'["crashes"] < left["crashes"] =>
              SendBound + Cardinality(world.runs) <= SendBound'
<1>0. PICK n : n = Cardinality(world.runs)
  OBVIOUS
<1>1. n \in Nat
  BY <1>0, BoundIs
<1>2. /\ Used("overlaps") \in Nat /\ Used("overlaps")' \in Nat /\ Used("overlaps") <= Used("overlaps")'
      /\ left'["overlaps"] < left["overlaps"] => Used("overlaps") + 1 <= Used("overlaps")'
  BY UsedGrows DEF Limits
<1>3. PICK a, b : a = Used("crashes") /\ b = Used("crashes")'
  OBVIOUS
<1>4. a \in Nat /\ b \in Nat /\ a <= b /\ (left'["crashes"] < left["crashes"] => a + 1 <= b)
  BY <1>3, UsedGrows DEF Limits
<1>5. a * n \in Nat /\ b * n \in Nat /\ a * n <= b * n /\ (a + 1 <= b => a * n + n <= b * n)
  BY <1>1, <1>4, Product
<1>6. SendBound = 1 + Used("overlaps") + a * n /\ SendBound' = 1 + Used("overlaps")' + b * n
  BY <1>0, <1>3 DEF SendBound
<1>7. PICK x, y : x = a * n /\ y = b * n
  OBVIOUS
<1>8. /\ x \in Nat /\ y \in Nat /\ x <= y /\ (a + 1 <= b => x + n <= y)
      /\ SendBound = 1 + Used("overlaps") + x /\ SendBound' = 1 + Used("overlaps")' + y
  BY <1>5, <1>6, <1>7
<1> QED BY <1>0, <1>1, <1>2, <1>4, <1>8

LEMMA PassesFinite ==
  ASSUME Base, NEW k
  PROVE  /\ Unsent(k) \subseteq Holders(k) /\ IsFiniteSet(Unsent(k))
         /\ Cardinality(Unsent(k)) \in Nat
<1>1. Unsent(k) \subseteq world.runs
  BY DEF Unsent, Holders
<1> QED BY <1>1, BoundIs, FS_Subset, FS_CardinalityType DEF Unsent

\* What a step does to the account of one delivery.
LEMMA SendMoves ==
  ASSUME Base, Base', world' = world, Uses, NEW k, Counted(k), Waiting(k),
         delivery[k].oks \in Nat, delivery'[k].oks \in Nat,
         \/ /\ Unsent(k)' = Unsent(k) /\ Holders(k)' = Holders(k)
            /\ delivery'[k].oks = delivery[k].oks
            /\ delivery'[k].status \in Pending => delivery[k].status \in Pending
         \/ \E d \in world.runs :
              /\ d \in Unsent(k) /\ Unsent(k)' = Unsent(k) \ {d}
              /\ delivery'[k].oks = delivery[k].oks
         \/ \E d \in world.runs :
              /\ d \in Unsent(k) /\ Unsent(k)' = Unsent(k) \ {d} /\ Holders(k)' # {}
              /\ delivery'[k].oks = delivery[k].oks + 1
         \/ /\ Unsent(k)' = Unsent(k) /\ delivery'[k].oks = delivery[k].oks
            /\ Holders(k)' # {} \/ delivery'[k].status \notin Pending
         \/ /\ left'["crashes"] < left["crashes"] /\ Unsent(k)' = {} /\ Holders(k)' = {}
            /\ delivery'[k] = delivery[k]
  PROVE  Counted(k)' /\ Waiting(k)'
<1>1. /\ SendBound \in Nat /\ SendBound' \in Nat /\ SendBound <= SendBound'
      /\ left'["crashes"] < left["crashes"] => SendBound + Cardinality(world.runs) <= SendBound'
  BY BoundGrows
<1>2. /\ IsFiniteSet(Unsent(k)) /\ Cardinality(Unsent(k)) \in Nat
      /\ delivery[k].oks + Cardinality(Unsent(k)) <= SendBound
  BY PassesFinite DEF Counted
<1>3. CASE \E d \in world.runs :
             /\ d \in Unsent(k) /\ Unsent(k)' = Unsent(k) \ {d}
             /\ delivery'[k].oks = delivery[k].oks
  <2>1. PICK d : d \in Unsent(k) /\ Unsent(k)' = Unsent(k) \ {d}
    BY <1>3
  <2>2. PICK n : n = Cardinality(Unsent(k)')
    OBVIOUS
  <2>3. n = Cardinality(Unsent(k)) - 1 /\ Cardinality(Unsent(k)) > 0
    BY <1>2, <2>1, <2>2, OneMore
  <2>4. delivery'[k].oks + n <= SendBound' /\ delivery'[k].oks + 1 <= SendBound'
    BY <1>1, <1>2, <1>3, <2>3
  <2> QED BY <2>2, <2>4 DEF Counted, Waiting
<1>4. CASE \E d \in world.runs :
             /\ d \in Unsent(k) /\ Unsent(k)' = Unsent(k) \ {d} /\ Holders(k)' # {}
             /\ delivery'[k].oks = delivery[k].oks + 1
  <2>1. PICK d : d \in Unsent(k) /\ Unsent(k)' = Unsent(k) \ {d}
    BY <1>4
  <2>2. PICK n : n = Cardinality(Unsent(k)')
    OBVIOUS
  <2>3. n = Cardinality(Unsent(k)) - 1 /\ Cardinality(Unsent(k)) > 0
    BY <1>2, <2>1, <2>2, OneMore
  <2>4. delivery'[k].oks + n <= SendBound'
    BY <1>1, <1>2, <1>4, <2>3
  <2> QED BY <1>4, <2>2, <2>4 DEF Counted, Waiting
<1>5. CASE /\ Unsent(k)' = Unsent(k) /\ delivery'[k].oks = delivery[k].oks
           /\ Holders(k)' # {} \/ delivery'[k].status \notin Pending
  <2>1. PICK n : n = Cardinality(Unsent(k)) /\ n = Cardinality(Unsent(k)')
    BY <1>5
  <2>2. delivery'[k].oks + n <= SendBound'
    BY <1>1, <1>2, <1>5, <2>1
  <2> QED BY <1>5, <2>1, <2>2 DEF Counted, Waiting
<1>6. CASE /\ Unsent(k)' = Unsent(k) /\ Holders(k)' = Holders(k)
           /\ delivery'[k].oks = delivery[k].oks
           /\ delivery'[k].status \in Pending => delivery[k].status \in Pending
  <2>1. PICK n : n = Cardinality(Unsent(k)) /\ n = Cardinality(Unsent(k)')
    BY <1>6
  <2>2. delivery'[k].oks + n <= SendBound'
    BY <1>1, <1>2, <1>6, <2>1
  <2>3. ASSUME Holders(k) = {}, delivery[k].status \in Pending
        PROVE  delivery'[k].oks + 1 <= SendBound'
    <3>1. delivery[k].oks + 1 <= SendBound
      BY <2>3 DEF Waiting
    <3> QED BY <1>1, <1>6, <3>1
  <2> QED BY <1>6, <2>1, <2>2, <2>3 DEF Counted, Waiting
<1>7. CASE /\ left'["crashes"] < left["crashes"] /\ Unsent(k)' = {} /\ Holders(k)' = {}
           /\ delivery'[k] = delivery[k]
  <2>1. Cardinality({}) = 0
    BY FS_EmptySet
  <2>2. PICK n : n = Cardinality(Unsent(k)') /\ n = 0
    BY <1>7, <2>1
  <2>3. delivery'[k].oks + n <= SendBound'
    BY <1>1, <1>2, <1>7, <2>2
  <2>4. ASSUME delivery'[k].status \in Pending PROVE delivery'[k].oks + 1 <= SendBound'
    <3>1. CASE world.runs = {}
      <4>1. Holders(k) = {}
        BY <3>1 DEF Holders
      <4>2. delivery[k].oks + 1 <= SendBound
        BY <1>7, <2>4, <4>1 DEF Waiting
      <4> QED BY <1>1, <1>7, <4>2
    <3>2. CASE world.runs # {}
      <4>1. PICK d : d \in world.runs
        BY <3>2
      <4>2. Cardinality(world.runs) > 0 /\ Cardinality(world.runs) \in Nat
        BY <4>1, BoundIs, OneMore
      <4> QED BY <1>1, <1>2, <1>7, <4>2
    <3> QED BY <3>1, <3>2
  <2> QED BY <2>2, <2>3, <2>4 DEF Counted, Waiting
<1> QED BY <1>3, <1>4, <1>5, <1>6, <1>7

\* A row that has just been queued.
LEMMA SendStarts ==
  ASSUME Base, Base', world' = world, Uses, Passes, run' = run, NEW k, k \notin DOMAIN delivery,
         delivery'[k].oks = 0
  PROVE  Counted(k)' /\ Waiting(k)'
<1>1. Holders(k)' = {} /\ Unsent(k)' = {}
  BY DEF Holders, Unsent, Passes
<1>2. Cardinality({}) = 0
  BY FS_EmptySet
<1>3. PICK n : n = Cardinality(Unsent(k)') /\ n = 0
  BY <1>1, <1>2
<1>4. SendBound \in Nat /\ SendBound' \in Nat /\ SendBound <= SendBound' /\ SendBound >= 1
  BY BoundGrows, BoundIs
<1>5. delivery'[k].oks + n <= SendBound' /\ delivery'[k].oks + 1 <= SendBound'
  BY <1>3, <1>4
<1> QED BY <1>3, <1>5 DEF Counted, Waiting

\* A pass takes a delivery that no other one holds, or overlaps.
LEMMA SendTaken ==
  ASSUME Base, Base', world' = world, Uses, NEW k, Counted(k), Waiting(k), delivery' = delivery,
         delivery[k].oks \in Nat, delivery[k].status \in Pending,
         NEW d, d \notin Unsent(k), Unsent(k)' = Unsent(k) \cup {d}, Holders(k)' # {},
         Holders(k) = {} \/ left'["overlaps"] < left["overlaps"]
  PROVE  Counted(k)' /\ Waiting(k)'
<1>1. /\ SendBound \in Nat /\ SendBound' \in Nat /\ SendBound <= SendBound'
      /\ left'["overlaps"] < left["overlaps"] => SendBound + 1 <= SendBound'
  BY BoundGrows
<1>2. /\ IsFiniteSet(Unsent(k)) /\ Cardinality(Unsent(k)) \in Nat
      /\ delivery[k].oks + Cardinality(Unsent(k)) <= SendBound /\ Unsent(k) \subseteq Holders(k)
  BY PassesFinite DEF Counted
<1>3. PICK n : n = Cardinality(Unsent(k)')
  OBVIOUS
<1>4. n = Cardinality(Unsent(k)) + 1
  BY <1>2, <1>3, OneMore
<1>5. delivery[k].oks + n <= SendBound'
  <2>1. CASE left'["overlaps"] < left["overlaps"]
    BY <1>1, <1>2, <1>4, <2>1
  <2>2. CASE Holders(k) = {}
    <3>1. Unsent(k) = {}
      BY <1>2, <2>2
    <3>2. Cardinality({}) = 0
      BY FS_EmptySet
    <3>3. Cardinality(Unsent(k)) = 0
      BY <3>1, <3>2
    <3>4. delivery[k].oks + 1 <= SendBound
      BY <2>2 DEF Waiting
    <3> QED BY <1>1, <1>4, <3>3, <3>4
  <2> QED BY <2>1, <2>2
<1> QED BY <1>3, <1>5 DEF Counted, Waiting

\* The pass d becomes r.
LEMMA PassMoves ==
  ASSUME DOMAIN run = world.runs, world' = world, NEW d \in world.runs, NEW r,
         run' = [run EXCEPT ![d] = r], NEW k
  PROVE  /\ Holders(k)' \ {d} = Holders(k) \ {d} /\ Unsent(k)' \ {d} = Unsent(k) \ {d}
         /\ d \in Holders(k) <=> k \in DOMAIN run[d].todo
         /\ d \in Holders(k)' <=> k \in DOMAIN r.todo
         /\ d \in Unsent(k) <=> k \in DOMAIN run[d].todo /\ ~(run[d].key = k /\ run[d].out = "ok")
         /\ d \in Unsent(k)' <=> k \in DOMAIN r.todo /\ ~(r.key = k /\ r.out = "ok")
  BY DEF Holders, Unsent

LEMMA PassesPut ==
  ASSUME Passes, world' = world, DOMAIN delivery' = DOMAIN delivery, NEW d \in world.runs, NEW r,
         run' = [run EXCEPT ![d] = r], DOMAIN r = RunFields,
         DOMAIN r.todo \subseteq DOMAIN delivery, r.key # <<>> => r.key \in DOMAIN r.todo
  PROVE  Passes'
  BY DEF Passes

LEMMA RunStartSends ==
  ASSUME SendInv, Base', Uses, world' = world, NEW d \in world.runs, RunStart(d)
  PROVE  SendInv'
<1>0. run[d].key = <<>> /\ DOMAIN run[d].todo = {} /\ UNCHANGED delivery
  BY DEF RunStart, Running, store
<1> DEFINE todo == [k \in Sendable |-> delivery[k].attempts]
           r == [run[d] EXCEPT !.todo = todo]
<1>1. run' = [run EXCEPT ![d] = r]
  BY DEF RunStart
<1>2. DOMAIN run[d] = RunFields /\ Passes /\ Deliveries
  BY DEF SendInv, Passes
<1>3. DOMAIN r = RunFields /\ r.key = <<>> /\ r.todo = todo
  BY <1>0, <1>2 DEF RunFields
<1>4. DOMAIN todo = Sendable /\ Sendable \subseteq DOMAIN delivery
  BY DEF Sendable
<1> HIDE DEF todo, r
<1>5. Passes'
  BY <1>0, <1>1, <1>2, <1>3, <1>4, PassesPut
<1>6. (\E o \in world.runs \ {d} : Running(o)) => left'["overlaps"] < left["overlaps"]
  <2>1. (\E o \in world.runs \ {d} : Running(o)) =>
          left' = [left EXCEPT !["overlaps"] = @ - 1] /\ left["overlaps"] \in Nat
    BY DEF RunStart, SendInv, Base, LeftInv, Limits
  <2>2. "overlaps" \in DOMAIN left
    BY DEF SendInv, Base, LeftInv, Limits
  <2> QED BY <2>1, <2>2
<1>7. ASSUME NEW k \in DOMAIN delivery PROVE Counted(k)' /\ Waiting(k)'
  <2>0. /\ Base /\ Counted(k) /\ Waiting(k) /\ delivery[k].oks \in Nat /\ k # <<>>
        /\ DOMAIN run = world.runs
    BY <1>2 DEF SendInv, Deliveries, Passes
  <2>1. /\ Holders(k)' \ {d} = Holders(k) \ {d} /\ Unsent(k)' \ {d} = Unsent(k) \ {d}
        /\ d \notin Holders(k) /\ d \notin Unsent(k)
        /\ d \in Holders(k)' <=> k \in Sendable
        /\ d \in Unsent(k)' <=> k \in Sendable
    BY <1>0, <1>1, <1>3, <1>4, <2>0, PassMoves
  <2>2. CASE k \notin Sendable
    <3>1. Unsent(k)' = Unsent(k) /\ Holders(k)' = Holders(k)
      BY <2>1, <2>2
    <3> QED BY <1>0, <2>0, <3>1, SendMoves
  <2>3. CASE k \in Sendable
    <3>1. Unsent(k)' = Unsent(k) \cup {d} /\ Holders(k)' # {}
      BY <2>1, <2>3
    <3>2. delivery[k].status \in Pending
      BY <2>3 DEF Sendable, Pending
    <3>3. Holders(k) = {} \/ left'["overlaps"] < left["overlaps"]
      <4>1. ASSUME NEW o \in Holders(k) PROVE o \in world.runs \ {d} /\ Running(o)
        BY <2>1 DEF Holders, Running
      <4> QED BY <1>6, <4>1
    <3> QED BY <1>0, <2>0, <2>1, <3>1, <3>2, <3>3, SendTaken
  <2> QED BY <2>2, <2>3
<1> QED BY <1>0, <1>2, <1>5, <1>7 DEF SendInv, Deliveries

LEMMA SkipSends ==
  ASSUME SendInv, Base', Uses, world' = world, NEW d \in world.runs, Skip(d)
  PROVE  SendInv'
<1>0. run[d].key = <<>> /\ UNCHANGED delivery
  BY DEF Skip, store
<1>1. PICK q \in DOMAIN run[d].todo : run' = [run EXCEPT ![d].todo = Without(@, {q})]
  BY DEF Skip
<1> DEFINE r == [run[d] EXCEPT !.todo = Without(@, {q})]
<1>2. run' = [run EXCEPT ![d] = r]
  BY <1>1
<1>3. DOMAIN run[d] = RunFields /\ Passes /\ Deliveries
  BY DEF SendInv, Passes
<1>4. DOMAIN r = RunFields /\ r.key = <<>> /\ DOMAIN r.todo = DOMAIN run[d].todo \ {q}
  BY <1>0, <1>3 DEF RunFields, Without
<1> HIDE DEF r
<1>5. Passes'
  BY <1>0, <1>2, <1>3, <1>4, PassesPut DEF Passes
<1>6. ASSUME NEW k \in DOMAIN delivery PROVE Counted(k)' /\ Waiting(k)'
  <2>0. /\ Base /\ Counted(k) /\ Waiting(k) /\ delivery[k].oks \in Nat /\ k # <<>>
        /\ DOMAIN run = world.runs
    BY <1>3 DEF SendInv, Deliveries, Passes
  <2>1. /\ Holders(k)' \ {d} = Holders(k) \ {d} /\ Unsent(k)' \ {d} = Unsent(k) \ {d}
        /\ d \in Holders(k) <=> k \in DOMAIN run[d].todo
        /\ d \in Unsent(k) <=> k \in DOMAIN run[d].todo
        /\ d \in Holders(k)' <=> k \in DOMAIN run[d].todo \ {q}
        /\ d \in Unsent(k)' <=> k \in DOMAIN run[d].todo \ {q}
    BY <1>0, <1>2, <1>4, <2>0, PassMoves
  <2>2. CASE k = q
    <3>1. d \in Unsent(k) /\ Unsent(k)' = Unsent(k) \ {d}
      BY <1>1, <2>1, <2>2
    <3> QED BY <1>0, <2>0, <3>1, SendMoves
  <2>3. CASE k # q
    <3>1. Unsent(k)' = Unsent(k) /\ Holders(k)' = Holders(k)
      BY <2>1, <2>3
    <3> QED BY <1>0, <2>0, <3>1, SendMoves
  <2> QED BY <2>2, <2>3
<1> QED BY <1>0, <1>3, <1>5, <1>6 DEF SendInv, Deliveries

LEMMA SendSends ==
  ASSUME SendInv, Base', Uses, world' = world, NEW d \in world.runs, Send(d)
  PROVE  SendInv'
<1>0. run[d].key = <<>>
  BY DEF Send
<1>1. PICK q, o :
        /\ q \in DOMAIN run[d].todo
        /\ delivery' = [delivery EXCEPT ![q].tries = @ + 1,
                                        ![q].oks = IF o = "ok" THEN @ + 1 ELSE @]
        /\ run' = [run EXCEPT ![d].key = q, ![d].out = o]
  BY DEF Send
<1> DEFINE r == [run[d] EXCEPT !.key = q, !.out = o]
           row == [delivery[q] EXCEPT !.tries = @ + 1, !.oks = IF o = "ok" THEN @ + 1 ELSE @]
<1>2. run' = [run EXCEPT ![d] = r]
  BY <1>1
<1>3. DOMAIN run[d] = RunFields /\ Passes /\ Deliveries /\ DOMAIN run = world.runs
  BY DEF SendInv, Passes
<1>4. DOMAIN r = RunFields /\ r.key = q /\ r.out = o /\ r.todo = run[d].todo
  BY <1>3 DEF RunFields
<1> HIDE DEF r
<1>5. q \in DOMAIN delivery /\ q # <<>>
  BY <1>1, <1>3 DEF Passes, Deliveries
<1>6. delivery' = [delivery EXCEPT ![q] = row]
  BY <1>1
<1>7. /\ DOMAIN row = DeliveryFields /\ row.status = delivery[q].status
      /\ row.oks = IF o = "ok" THEN delivery[q].oks + 1 ELSE delivery[q].oks
  BY <1>3, <1>5 DEF Deliveries, DeliveryFields
<1> HIDE DEF row
<1>8. /\ DOMAIN delivery' = DOMAIN delivery /\ delivery'[q] = row
      /\ \A k \in DOMAIN delivery \ {q} : delivery'[k] = delivery[k]
  BY <1>5, <1>6
<1>9. Deliveries'
  BY <1>3, <1>5, <1>7, <1>8 DEF Deliveries
<1>10. Passes'
  BY <1>1, <1>2, <1>3, <1>4, <1>8, PassesPut DEF Passes
<1>11. ASSUME NEW k \in DOMAIN delivery PROVE Counted(k)' /\ Waiting(k)'
  <2>0. Base /\ Counted(k) /\ Waiting(k) /\ delivery[k].oks \in Nat /\ k # <<>>
    BY <1>3 DEF SendInv, Deliveries
  <2>1. /\ Holders(k)' \ {d} = Holders(k) \ {d} /\ Unsent(k)' \ {d} = Unsent(k) \ {d}
        /\ d \in Holders(k) <=> k \in DOMAIN run[d].todo
        /\ d \in Unsent(k) <=> k \in DOMAIN run[d].todo
        /\ d \in Holders(k)' <=> k \in DOMAIN run[d].todo
        /\ d \in Unsent(k)' <=> k \in DOMAIN run[d].todo /\ ~(q = k /\ o = "ok")
    BY <1>0, <1>2, <1>3, <1>4, <2>0, PassMoves
  <2>2. CASE k = q /\ o = "ok"
    <3>1. d \in Unsent(k) /\ Unsent(k)' = Unsent(k) \ {d} /\ Holders(k)' # {}
      BY <1>1, <2>1, <2>2
    <3>2. delivery'[k].oks = delivery[k].oks + 1
      BY <1>7, <1>8, <2>2
    <3> QED BY <2>0, <3>1, <3>2, SendMoves
  <2>3. CASE ~(k = q /\ o = "ok")
    <3>1. Unsent(k)' = Unsent(k) /\ Holders(k)' = Holders(k)
      BY <2>1, <2>3
    <3>2. delivery'[k].oks = delivery[k].oks /\ delivery'[k].status = delivery[k].status
      BY <1>7, <1>8, <2>3
    <3> QED BY <2>0, <3>1, <3>2, SendMoves
  <2> QED BY <2>2, <2>3
<1> QED BY <1>8, <1>9, <1>10, <1>11 DEF SendInv

LEMMA RecordSends ==
  ASSUME SendInv, Base', Uses, world' = world, NEW d \in world.runs, Record(d)
  PROVE  SendInv'
<1> DEFINE q == run[d].key
<1>1. PICK st, due, n :
        /\ q # <<>>
        /\ delivery' = [delivery EXCEPT ![q].attempts = n, ![q].status = st, ![q].due = due]
        /\ run' = [run EXCEPT ![d] = [IdleRun EXCEPT !.todo = Without(run[d].todo, {q})]]
        /\ run[d].out = "ok" => st = "sent"
  <2>1. PICK st : st = IF run[d].out = "ok" THEN "sent"
                       ELSE IF Exhausted(run[d].todo[q] + 1, run[d].out) THEN "dlq" ELSE "failed"
    OBVIOUS
  <2>2. PICK due : due = IF run[d].out = "ok" THEN delivery[q].due ELSE FALSE
    OBVIOUS
  <2>3. PICK n : n = delivery[q].attempts + 1
    OBVIOUS
  <2>4. delivery' = [delivery EXCEPT ![q].attempts = @ + 1,
       ![q].status = IF run[d].out = "ok" THEN "sent"
                     ELSE IF Exhausted(run[d].todo[q] + 1, run[d].out) THEN "dlq" ELSE "failed",
       ![q].due = IF run[d].out = "ok" THEN @ ELSE FALSE]
    BY DEF Record
  <2>5. q \in DOMAIN delivery /\ DOMAIN delivery[q] = DeliveryFields
    BY DEF SendInv, Passes, Deliveries, Record
  <2>6. delivery' = [delivery EXCEPT ![q].attempts = n, ![q].status = st, ![q].due = due]
    BY <2>1, <2>2, <2>3, <2>4, <2>5 DEF DeliveryFields
  <2>7. /\ q # <<>>
        /\ run' = [run EXCEPT ![d] = [IdleRun EXCEPT !.todo = Without(run[d].todo, {q})]]
    BY DEF Record
  <2>8. run[d].out = "ok" => st = "sent"
    BY <2>1
  <2> QED BY <2>6, <2>7, <2>8
<1> DEFINE r == [IdleRun EXCEPT !.todo = Without(run[d].todo, {q})]
           row == [delivery[q] EXCEPT !.attempts = n, !.status = st, !.due = due]
<1>2. DOMAIN run[d] = RunFields /\ Passes /\ Deliveries /\ DOMAIN run = world.runs
  BY DEF SendInv, Passes
<1>3. run' = [run EXCEPT ![d] = r]
  BY <1>1
<1>4. DOMAIN r = RunFields /\ r.key = <<>> /\ DOMAIN r.todo = DOMAIN run[d].todo \ {q}
  BY DEF RunFields, Without, IdleRun
<1> HIDE DEF r
<1>5. q \in DOMAIN delivery /\ q \in DOMAIN run[d].todo
  BY <1>1, <1>2 DEF Passes
<1>6. delivery' = [delivery EXCEPT ![q] = row]
  BY <1>1
<1>7. DOMAIN row = DeliveryFields /\ row.status = st /\ row.oks = delivery[q].oks
  BY <1>2, <1>5 DEF Deliveries, DeliveryFields
<1> HIDE DEF row
<1>8. /\ DOMAIN delivery' = DOMAIN delivery /\ delivery'[q] = row
      /\ \A k \in DOMAIN delivery \ {q} : delivery'[k] = delivery[k]
  BY <1>5, <1>6
<1>9. Deliveries'
  BY <1>2, <1>5, <1>7, <1>8 DEF Deliveries
<1>10. Passes'
  BY <1>2, <1>3, <1>4, <1>8, PassesPut DEF Passes
<1>11. ASSUME NEW k \in DOMAIN delivery PROVE Counted(k)' /\ Waiting(k)'
  <2>0. Base /\ Counted(k) /\ Waiting(k) /\ delivery[k].oks \in Nat /\ k # <<>>
    BY <1>2 DEF SendInv, Deliveries
  <2>1. /\ Holders(k)' \ {d} = Holders(k) \ {d} /\ Unsent(k)' \ {d} = Unsent(k) \ {d}
        /\ d \in Holders(k) <=> k \in DOMAIN run[d].todo
        /\ d \in Unsent(k) <=> k \in DOMAIN run[d].todo /\ ~(q = k /\ run[d].out = "ok")
        /\ d \in Holders(k)' <=> k \in DOMAIN run[d].todo \ {q}
        /\ d \in Unsent(k)' <=> k \in DOMAIN run[d].todo \ {q}
    BY <1>2, <1>3, <1>4, <2>0, PassMoves
  <2>2. CASE k = q /\ run[d].out = "ok"
    <3>1. Unsent(k)' = Unsent(k)
      BY <2>1, <2>2
    <3>2. delivery'[k].oks = delivery[k].oks /\ delivery'[k].status \notin Pending
      BY <1>1, <1>7, <1>8, <2>2 DEF Pending
    <3> QED BY <2>0, <3>1, <3>2, SendMoves
  <2>3. CASE k = q /\ run[d].out # "ok"
    <3>1. d \in Unsent(k) /\ Unsent(k)' = Unsent(k) \ {d}
      BY <1>5, <2>1, <2>3
    <3>2. delivery'[k].oks = delivery[k].oks
      BY <1>7, <1>8, <2>3
    <3> QED BY <2>0, <3>1, <3>2, SendMoves
  <2>4. CASE k # q
    <3>1. Unsent(k)' = Unsent(k) /\ Holders(k)' = Holders(k)
      BY <2>1, <2>4
    <3>2. delivery'[k] = delivery[k]
      BY <1>8, <2>4
    <3> QED BY <2>0, <3>1, <3>2, SendMoves
  <2> QED BY <2>2, <2>3, <2>4
<1> QED BY <1>8, <1>9, <1>10, <1>11 DEF SendInv

LEMMA QueueSends ==
  ASSUME SendInv, Base', Uses, world' = world, UNCHANGED run,
         NEW trigger, NEW cs, NEW i, delivery' = Queue(trigger, cs, i)
  PROVE  SendInv'
<1>1. /\ DOMAIN delivery' = DOMAIN delivery \cup {<<trigger, c>> : c \in cs}
      /\ \A k \in DOMAIN delivery : delivery'[k] = delivery[k]
      /\ \A k \in DOMAIN delivery' \ DOMAIN delivery :
           delivery'[k].oks = 0 /\ delivery'[k].status = "pending" /\ k # <<>>
  BY QueueIs
<1>2. \A k \in DOMAIN delivery' \ DOMAIN delivery : DOMAIN delivery'[k] = DeliveryFields
  BY DEF Queue, DeliveryFields
<1>3. Passes' /\ Deliveries'
  BY <1>1, <1>2 DEF SendInv, Passes, Deliveries
<1>4. ASSUME NEW k \in DOMAIN delivery' PROVE Counted(k)' /\ Waiting(k)'
  <2>1. CASE k \in DOMAIN delivery
    <3>1. Base /\ Counted(k) /\ Waiting(k) /\ delivery[k].oks \in Nat /\ delivery'[k] = delivery[k]
      BY <1>1, <2>1 DEF SendInv, Deliveries
    <3>2. Holders(k)' = Holders(k) /\ Unsent(k)' = Unsent(k)
      BY DEF Holders, Unsent
    <3> QED BY <3>1, <3>2, SendMoves
  <2>2. CASE k \notin DOMAIN delivery
    <3>1. delivery'[k].oks = 0
      BY <1>1, <2>2
    <3> QED BY <2>2, <3>1, SendStarts DEF SendInv
  <2> QED BY <2>1, <2>2
<1> QED BY <1>3, <1>4 DEF SendInv

LEMMA KeptSends ==
  ASSUME SendInv, Base', Uses, world' = world, UNCHANGED run, DOMAIN delivery' = DOMAIN delivery,
         \A k \in DOMAIN delivery :
           /\ DOMAIN delivery'[k] = DeliveryFields /\ delivery'[k].oks = delivery[k].oks
           /\ delivery'[k].status = delivery[k].status
  PROVE  SendInv'
<1>1. Passes' /\ Deliveries'
  BY DEF SendInv, Passes, Deliveries
<1>2. ASSUME NEW k \in DOMAIN delivery PROVE Counted(k)' /\ Waiting(k)'
  <2>1. Base /\ Counted(k) /\ Waiting(k) /\ delivery[k].oks \in Nat
    BY DEF SendInv, Deliveries
  <2>2. Holders(k)' = Holders(k) /\ Unsent(k)' = Unsent(k)
    BY DEF Holders, Unsent
  <2> QED BY <2>1, <2>2, SendMoves
<1> QED BY <1>1, <1>2 DEF SendInv

LEMMA CrashSends ==
  ASSUME SendInv, Base', Uses, world' = world, Crash
  PROVE  SendInv'
<1>1. run' = [d \in world.runs |-> IdleRun] /\ UNCHANGED delivery
  BY DEF Crash
<1>2. DOMAIN IdleRun = RunFields /\ DOMAIN IdleRun.todo = {} /\ IdleRun.key = <<>>
  BY DEF IdleRun, RunFields
<1>3. Passes' /\ Deliveries'
  BY <1>1, <1>2 DEF SendInv, Passes, Deliveries
<1>4. left'["crashes"] < left["crashes"]
  <2>1. left' = [left EXCEPT !["crashes"] = @ - 1] /\ left["crashes"] \in Nat
        /\ "crashes" \in DOMAIN left
    BY DEF Crash, SendInv, Base, LeftInv, Limits
  <2> QED BY <2>1
<1>5. ASSUME NEW k \in DOMAIN delivery PROVE Counted(k)' /\ Waiting(k)'
  <2>1. Base /\ Counted(k) /\ Waiting(k) /\ delivery[k].oks \in Nat
    BY DEF SendInv, Deliveries
  <2>2. Holders(k)' = {} /\ Unsent(k)' = {}
    BY <1>1, <1>2 DEF Holders, Unsent
  <2> QED BY <1>1, <1>4, <2>1, <2>2, SendMoves
<1> QED BY <1>1, <1>3, <1>5 DEF SendInv

LEMMA SendStep ==
  ASSUME SendInv, [Next]_vars PROVE SendInv'
<1>0. Base /\ Base' /\ world' = world /\ Uses
  BY BaseStep DEF SendInv
<1>1. ASSUME UNCHANGED <<delivery, run>> PROVE SendInv'
  BY <1>0, <1>1, KeptSends DEF SendInv, Deliveries
<1>2. ASSUME NEW d \in world.runs, Dispatch(d) PROVE SendInv'
  BY <1>0, <1>2, RunStartSends, SkipSends, SendSends, RecordSends DEF Dispatch
<1>3. ASSUME NEW p, Handle(p) PROVE SendInv'
  <2>1. UNCHANGED <<delivery, run>> \/ Route(p)
    BY <1>3 DEF Handle, Take, Refuse, InsertHeld, Hold, InsertAccepted, Touch, Evict, Claim,
         Suppress, Find, Create, Attach, AttachChain, RetryScan, RetryNext, store
  <2>2. CASE Route(p)
    <3>1. PICK t, cs, i : delivery' = Queue(t, cs, i) /\ UNCHANGED run
      BY <2>2 DEF Route
    <3> QED BY <1>0, <3>1, QueueSends
  <2> QED BY <1>1, <2>1, <2>2
<1>4. ASSUME NEW s, Escalate(s) PROVE SendInv'
  <2>1. CASE UNCHANGED <<delivery, run>>
    BY <1>1, <2>1
  <2>2. CASE FireStep(s)
    <3>1. PICK t, cs, i : delivery' = Queue(t, cs, i) /\ UNCHANGED run
      BY <2>2 DEF FireStep
    <3> QED BY <1>0, <3>1, QueueSends
  <2>3. CASE FireExhausted(s)
    <3>1. PICK t, cs, i : delivery' = Queue(t, cs, i) /\ UNCHANGED run
      BY <2>3 DEF FireExhausted
    <3> QED BY <1>0, <3>1, QueueSends
  <2> QED BY <1>4, <2>1, <2>2, <2>3 DEF Escalate, ScanStart, Park, MarkFired, store
<1>5. ASSUME NEW i, Ack(i) \/ Resolve(i) PROVE SendInv'
  BY <1>1, <1>5 DEF Ack, Resolve
<1>6. ASSUME NEW q \in DOMAIN delivery, BackoffEnds(q) PROVE SendInv'
  <2> DEFINE row == [delivery[q] EXCEPT !.due = TRUE]
  <2>1. delivery' = [delivery EXCEPT ![q] = row] /\ UNCHANGED run
    BY <1>6 DEF BackoffEnds
  <2>2. DOMAIN row = DeliveryFields /\ row.oks = delivery[q].oks /\ row.status = delivery[q].status
    BY DEF SendInv, Deliveries, DeliveryFields
  <2>3. \A k \in DOMAIN delivery : DOMAIN delivery[k] = DeliveryFields
    BY DEF SendInv, Deliveries
  <2> HIDE DEF row
  <2> QED BY <1>0, <2>1, <2>2, <2>3, KeptSends
<1>7. ASSUME Time PROVE SendInv'
  <2>1. UNCHANGED <<delivery, run>> \/ \E q \in DOMAIN delivery : BackoffEnds(q)
    BY <1>7 DEF Time, Elapse, HoldExpires, StepDue, Refill, store
  <2> QED BY <1>1, <1>6, <2>1
<1>8. ASSUME Fault PROVE SendInv'
  <2>1. UNCHANGED <<delivery, run>> \/ Crash
    BY <1>8 DEF Fault, StoreFails, DedupFails, KeysFlip, WindowExpires, store
  <2> QED BY <1>0, <1>1, <2>1, CrashSends
<1>9. CASE UNCHANGED vars
  BY <1>1, <1>9 DEF vars
<1> QED BY <1>2, <1>3, <1>4, <1>5, <1>7, <1>8, <1>9 DEF Next

(* A delivery reaches its destination once, and once more for every pass   *)
(* started over another and every pass a crash cut off before it recorded  *)
(* what it had sent (dispatcher.ts).                                       *)
THEOREM SentOnce == Spec => []SendsBounded
<1>1. Init => SendInv
  <2> SUFFICES ASSUME Init PROVE SendInv
    OBVIOUS
  <2>1. delivery = <<>>
    BY DEF Init
  <2>2. DOMAIN delivery = {}
    BY <2>1
  <2>3. Passes
    BY DEF Init, Passes, IdleRun, RunFields
  <2> QED BY <2>2, <2>3, Starts DEF SendInv, Deliveries
<1>2. SendInv /\ [Next]_vars => SendInv'
  BY SendStep
<1>3. SendInv => SendsBounded
  <2> SUFFICES ASSUME SendInv, NEW k \in DOMAIN delivery PROVE delivery[k].oks <= SendBound
    BY DEF SendsBounded, SendBound
  <2>1. delivery[k].oks \in Nat /\ delivery[k].oks + Cardinality(Unsent(k)) <= SendBound
    BY DEF SendInv, Deliveries, Counted
  <2>2. Cardinality(Unsent(k)) \in Nat /\ SendBound \in Nat
    BY PassesFinite, BoundIs DEF SendInv
  <2> QED BY <2>1, <2>2
<1> QED BY <1>1, <1>2, <1>3, PTL DEF Spec

-----------------------------------------------------------------------------
(* A step is fired once.                                                   *)

ScanFields == {"todo", "inc", "next", "exh"}
ChainFields == {"policy", "step", "repeats", "timer"}

\* A chain climbs one rung with every step: so many rungs, and so many at most.
Climb == Steps + (IF world.repeats THEN MaxRepeats ELSE 0)
Climbed(c) == c.step + c.repeats
IsChain(c) == /\ DOMAIN c = ChainFields
              /\ c.step \in 0..Steps /\ c.repeats \in 0..MaxRepeats
              /\ c.repeats > 0 => world.repeats
MayFire(c) == c.policy /\ world.stored /\ StepsLeft(c)

\* The scans that hold the incident, those that have yet to fire it, and the
\* rung at which each leaves it.
ToFire(r, i) == i \in DOMAIN r.todo /\ r.inc # i /\ MayFire(r.todo[i])
Rung(r, i) == IF r.inc = i THEN Climbed(r.next)
              ELSE Climbed(r.todo[i]) + (IF MayFire(r.todo[i]) THEN 1 ELSE 0)
OnIt(i) == {s \in world.scans : i \in DOMAIN scan[s].todo}
Unfired(i) == {s \in world.scans : ToFire(scan[s], i)}
Reach(s, i) == Rung(scan[s], i)

Allowed(i) == incident[i].attaches * Climb + Used("overlaps")
                + Used("crashes") * Cardinality(world.scans)
Debt(i) == Len(incident[i].fired) + Cardinality(Unfired(i)) + Climb - Allowed(i)

Scans == /\ DOMAIN scan = world.scans
         /\ \A s \in world.scans :
              /\ DOMAIN scan[s] = ScanFields /\ DOMAIN scan[s].todo \subseteq DOMAIN incident
              /\ scan[s].inc # 0 => scan[s].inc \in DOMAIN scan[s].todo /\ IsChain(scan[s].next)
              /\ \A i \in DOMAIN scan[s].todo : IsChain(scan[s].todo[i])
Counter(i) == /\ IsChain(incident[i].chain) /\ incident[i].attaches \in Nat
              /\ incident[i].fired \in Seq(Nat)

\* No chain yet; or what has been fired and will be is covered by the rungs
\* the chain has climbed, and by those every scan leaves it at.
Fresh(i) == /\ incident[i].attaches = 0 /\ incident[i].chain = NoChain
            /\ incident[i].fired = <<>> /\ OnIt(i) = {}
Fits(i) == /\ incident[i].attaches > 0
           /\ OnIt(i) = {} => Debt(i) <= Climbed(incident[i].chain)
           /\ Debt(i) <= Climbed(incident[i].chain) + 1
           /\ \A s \in OnIt(i) : Debt(i) <= Reach(s, i)

StepInv == /\ Base /\ Rows /\ Scans
           /\ \A i \in DOMAIN incident : Counter(i) /\ (Fresh(i) \/ Fits(i))

LEMMA ClimbIs ==
  ASSUME Base
  PROVE  /\ Climb \in Nat /\ Steps \in Nat /\ MaxRepeats \in Nat
         /\ \A c : IsChain(c) => Climbed(c) \in Nat /\ Climbed(c) <= Climb
         /\ \A c : IsChain(c) /\ MayFire(c) => Climbed(c) + 1 <= Climb
<1>1. Steps \in Nat /\ MaxRepeats \in Nat
  BY ScenariosAreFinite, AlertBounds DEF Base, Steps
<1>2. Climb \in Nat
  BY <1>1 DEF Climb
<1>3. ASSUME NEW c, IsChain(c) PROVE Climbed(c) \in Nat /\ Climbed(c) <= Climb
  <2>1. /\ c.step \in Nat /\ c.step <= Steps /\ c.repeats \in Nat /\ c.repeats <= MaxRepeats
        /\ c.repeats > 0 => world.repeats
    BY <1>1, <1>3 DEF IsChain
  <2>2. CASE world.repeats
    BY <1>1, <2>1, <2>2 DEF Climbed, Climb
  <2>3. CASE ~world.repeats
    BY <1>1, <2>1, <2>3 DEF Climbed, Climb
  <2> QED BY <2>2, <2>3
<1>4. ASSUME NEW c, IsChain(c), MayFire(c) PROVE Climbed(c) + 1 <= Climb
  <2>1. /\ c.step \in Nat /\ c.step <= Steps /\ c.repeats \in Nat /\ c.repeats <= MaxRepeats
        /\ c.repeats > 0 => world.repeats
        /\ c.step < Steps \/ (world.repeats /\ c.repeats < MaxRepeats)
    BY <1>1, <1>4 DEF IsChain, MayFire, StepsLeft
  <2>2. CASE world.repeats
    BY <1>1, <2>1, <2>2 DEF Climbed, Climb
  <2>3. CASE ~world.repeats
    BY <1>1, <2>1, <2>3 DEF Climbed, Climb
  <2> QED BY <2>2, <2>3
<1> QED BY <1>1, <1>2, <1>3, <1>4

LEMMA ScansFinite ==
  ASSUME Base, NEW i
  PROVE  /\ IsFiniteSet(world.scans) /\ Cardinality(world.scans) \in Nat
         /\ IsFiniteSet(Unfired(i)) /\ Cardinality(Unfired(i)) \in Nat
<1>1. IsFiniteSet(world.scans)
  BY ScenariosAreFinite DEF Base
<1>2. Unfired(i) \subseteq world.scans
  BY DEF Unfired, OnIt
<1> QED BY <1>1, <1>2, FS_Subset, FS_CardinalityType

LEMMA AllowedIs ==
  ASSUME Base, NEW i, incident[i].attaches \in Nat
  PROVE  Allowed(i) \in Nat
<1>1. PICK a, b, c, n : /\ a = incident[i].attaches /\ b = Climb
                        /\ c = Used("crashes") /\ n = Cardinality(world.scans)
  OBVIOUS
<1>2. a \in Nat /\ b \in Nat /\ c \in Nat /\ n \in Nat /\ Used("overlaps") \in Nat
  BY <1>1, ClimbIs, ScansFinite, UsedIs DEF Limits
<1>3. a * b \in Nat /\ c * n \in Nat
  BY <1>2, Product
<1>4. Allowed(i) = a * b + Used("overlaps") + c * n
  BY <1>1 DEF Allowed
<1> QED BY <1>2, <1>3, <1>4

LEMMA AllowedGrows ==
  ASSUME Base, Base', world' = world, Uses, NEW i,
         incident[i].attaches \in Nat, incident'[i].attaches \in Nat,
         incident[i].attaches <= incident'[i].attaches
  PROVE  /\ Allowed(i) \in Nat /\ Allowed(i)' \in Nat /\ Allowed(i) <= Allowed(i)'
         /\ left'["overlaps"] < left["overlaps"] => Allowed(i) + 1 <= Allowed(i)'
         /\ left'["crashes"] < left["crashes"] =>
              Allowed(i) + Cardinality(world.scans) <= Allowed(i)'
         /\ incident[i].attaches + 1 <= incident'[i].attaches => Allowed(i) + Climb <= Allowed(i)'
<1>1. PICK a, aa, b, c, cc, n :
        /\ a = incident[i].attaches /\ aa = incident'[i].attaches /\ b = Climb
        /\ c = Used("crashes") /\ cc = Used("crashes")' /\ n = Cardinality(world.scans)
  OBVIOUS
<1>2. /\ a \in Nat /\ aa \in Nat /\ a <= aa /\ b \in Nat /\ n \in Nat
      /\ c \in Nat /\ cc \in Nat /\ c <= cc /\ (left'["crashes"] < left["crashes"] => c + 1 <= cc)
  BY <1>1, ClimbIs, ScansFinite, UsedGrows DEF Limits
<1>3. PICK o, oo : o = Used("overlaps") /\ oo = Used("overlaps")'
  OBVIOUS
<1>4. o \in Nat /\ oo \in Nat /\ o <= oo /\ (left'["overlaps"] < left["overlaps"] => o + 1 <= oo)
  BY <1>3, UsedGrows DEF Limits
<1>5. PICK x, xx, y, yy : x = a * b /\ xx = aa * b /\ y = c * n /\ yy = cc * n
  OBVIOUS
<1>6. /\ x \in Nat /\ xx \in Nat /\ x <= xx /\ (a + 1 <= aa => x + b <= xx)
      /\ y \in Nat /\ yy \in Nat /\ y <= yy /\ (c + 1 <= cc => y + n <= yy)
  BY <1>2, <1>5, Product
<1>7. Climb' = Climb
  BY DEF Climb, Steps
<1>8. Allowed(i) = x + o + y /\ Allowed(i)' = xx + oo + yy
  BY <1>1, <1>3, <1>5, <1>7 DEF Allowed
<1>9. PICK al, all : al = Allowed(i) /\ all = Allowed(i)'
  OBVIOUS
<1>10. /\ al \in Nat /\ all \in Nat /\ al <= all
       /\ left'["overlaps"] < left["overlaps"] => al + 1 <= all
       /\ left'["crashes"] < left["crashes"] => al + n <= all
       /\ a + 1 <= aa => al + b <= all
  BY <1>2, <1>4, <1>6, <1>8, <1>9
<1> QED BY <1>1, <1>9, <1>10

\* How the debt of an incident moves with what is fired and yet to be fired.
LEMMA DebtMoves ==
  ASSUME Base, Base', world' = world, Uses, NEW i, Counter(i),
         incident'[i].attaches \in Nat, incident[i].attaches <= incident'[i].attaches,
         NEW l \in Nat, Len(incident'[i].fired) = l, NEW u \in Nat, Cardinality(Unfired(i)') = u
  PROVE  /\ Debt(i) \in Int /\ Debt(i)' \in Int
         /\ Len(incident[i].fired) \in Nat /\ Cardinality(Unfired(i)) \in Nat /\ Climb \in Nat
         /\ \A d \in Int : d = l + u - Len(incident[i].fired) - Cardinality(Unfired(i)) =>
              /\ Debt(i)' <= Debt(i) + d
              /\ left'["overlaps"] < left["overlaps"] => Debt(i)' + 1 <= Debt(i) + d
              /\ left'["crashes"] < left["crashes"] =>
                   Debt(i)' + Cardinality(world.scans) <= Debt(i) + d
              /\ incident[i].attaches + 1 <= incident'[i].attaches =>
                   Debt(i)' + Climb <= Debt(i) + d
<1>1. Len(incident[i].fired) \in Nat /\ Cardinality(Unfired(i)) \in Nat /\ Climb \in Nat
      /\ Cardinality(world.scans) \in Nat
  BY ScansFinite, ClimbIs, LenProperties DEF Counter
<1>2. PICK a, b, n : a = Allowed(i) /\ b = Allowed(i)' /\ n = Cardinality(world.scans)
  OBVIOUS
<1>3. /\ a \in Nat /\ b \in Nat /\ a <= b
      /\ left'["overlaps"] < left["overlaps"] => a + 1 <= b
      /\ left'["crashes"] < left["crashes"] => a + n <= b
      /\ incident[i].attaches + 1 <= incident'[i].attaches => a + Climb <= b
  BY <1>2, AllowedGrows DEF Counter
<1>4. Climb' = Climb
  BY DEF Climb, Steps
<1>5. Debt(i) = Len(incident[i].fired) + Cardinality(Unfired(i)) + Climb - a
      /\ Debt(i)' = l + u + Climb - b
  BY <1>2, <1>4 DEF Debt
<1>6. PICK x, y, m, v : x = Debt(i) /\ y = Debt(i)' /\ m = Len(incident[i].fired)
                        /\ v = Cardinality(Unfired(i))
  OBVIOUS
<1>7. x \in Int /\ y \in Int /\ x = m + v + Climb - a /\ y = l + u + Climb - b
      /\ m \in Nat /\ v \in Nat /\ n \in Nat
  <2>1. m \in Nat /\ v \in Nat /\ n \in Nat
    BY <1>1, <1>2, <1>6
  <2>2. x = m + v + Climb - a
    BY <1>5, <1>6
  <2>3. y = l + u + Climb - b
    BY <1>5, <1>6
  <2> QED BY <1>1, <1>3, <2>1, <2>2, <2>3
<1>8. ASSUME NEW d \in Int, d = l + u - m - v
      PROVE  /\ y <= x + d
             /\ left'["overlaps"] < left["overlaps"] => y + 1 <= x + d
             /\ left'["crashes"] < left["crashes"] => y + n <= x + d
             /\ incident[i].attaches + 1 <= incident'[i].attaches => y + Climb <= x + d
  BY <1>1, <1>3, <1>7, <1>8
<1> QED BY <1>1, <1>2, <1>6, <1>7, <1>8

LEMMA RowsDomain == ASSUME Rows PROVE 0 \notin DOMAIN incident
<1>1. PICK S : incident \in Seq(IncRow(S))
  BY DEF Rows
<1>2. DOMAIN incident = 1..Len(incident) /\ Len(incident) \in Nat
  BY <1>1, LenProperties
<1> QED BY <1>2

LEMMA ReachIs ==
  ASSUME Base, Rows, Scans, NEW i \in DOMAIN incident, NEW s \in OnIt(i)
  PROVE  Reach(s, i) \in Nat /\ Reach(s, i) <= Climb
<1>1. s \in world.scans /\ i \in DOMAIN scan[s].todo /\ IsChain(scan[s].todo[i])
  BY DEF OnIt, Scans
<1>2. i # 0 /\ Climb \in Nat
  BY RowsDomain, ClimbIs
<1>3. CASE scan[s].inc = i
  <2>1. IsChain(scan[s].next)
    BY <1>1, <1>2, <1>3 DEF Scans
  <2> QED BY <1>3, <2>1, ClimbIs DEF Reach, Rung
<1>4. CASE scan[s].inc # i
  <2>1. PICK c : c = scan[s].todo[i] /\ IsChain(c)
    BY <1>1
  <2>2. Reach(s, i) = Climbed(c) + (IF MayFire(c) THEN 1 ELSE 0)
    BY <1>4, <2>1 DEF Reach, Rung
  <2>3. Climbed(c) \in Nat /\ Climbed(c) <= Climb /\ (MayFire(c) => Climbed(c) + 1 <= Climb)
    BY <2>1, ClimbIs
  <2>4. CASE MayFire(c)
    BY <2>2, <2>3, <2>4
  <2>5. CASE ~MayFire(c)
    BY <2>2, <2>3, <2>5
  <2> QED BY <2>4, <2>5
<1> QED BY <1>3, <1>4

\* The model's functions of a chain or a scan do not depend on the state.
LEMMA Timeless ==
  ASSUME world' = world
  PROVE  /\ \A c : (IsChain(c)' <=> IsChain(c)) /\ (MayFire(c)' <=> MayFire(c))
         /\ \A r, i : Rung(r, i)' = Rung(r, i) /\ (ToFire(r, i)' <=> ToFire(r, i))
         /\ Climb' = Climb
<1>1. \A c : (IsChain(c)' <=> IsChain(c)) /\ (MayFire(c)' <=> MayFire(c))
  BY DEF IsChain, Steps, MayFire, StepsLeft
<1>2. \A r, i : (ToFire(r, i)' <=> ToFire(r, i))
  BY <1>1 DEF ToFire
<1>3. \A r, i : Rung(r, i)' = Rung(r, i)
  BY <1>1 DEF Rung, Climbed
<1> QED BY <1>1, <1>2, <1>3 DEF Climb, Steps

\* The scan s becomes r, and what that means for the incident i.
Rewrites(s, r) == scan' = [scan EXCEPT ![s] = r]
Moved(s, r, i) ==
  /\ OnIt(i)' \ {s} = OnIt(i) \ {s} /\ Unfired(i)' \ {s} = Unfired(i) \ {s}
  /\ s \in OnIt(i) <=> i \in DOMAIN scan[s].todo
  /\ s \in OnIt(i)' <=> i \in DOMAIN r.todo
  /\ s \in Unfired(i) <=> ToFire(scan[s], i)
  /\ s \in Unfired(i)' <=> ToFire(r, i)
  /\ \A o \in world.scans \ {s} : Reach(o, i)' = Reach(o, i)
  /\ Reach(s, i)' = Rung(r, i)

LEMMA ScanMoves ==
  ASSUME DOMAIN scan = world.scans, world' = world, NEW s \in world.scans, NEW r,
         Rewrites(s, r), NEW i
  PROVE  Moved(s, r, i)
<1>1. \A o \in world.scans : scan'[o] = IF o = s THEN r ELSE scan[o]
  BY DEF Rewrites
<1>2. Unfired(i)' = {o \in world.scans : ToFire(scan'[o], i)}
  BY Timeless DEF Unfired
<1>3. \A o : Reach(o, i)' = Rung(scan'[o], i)
  BY Timeless DEF Reach
<1>4. OnIt(i)' = {o \in world.scans : i \in DOMAIN scan'[o].todo}
  BY DEF OnIt
<1>5. OnIt(i)' \ {s} = OnIt(i) \ {s} /\ (s \in OnIt(i)' <=> i \in DOMAIN r.todo)
      /\ (s \in OnIt(i) <=> i \in DOMAIN scan[s].todo)
  BY <1>1, <1>4 DEF OnIt
<1>6. Unfired(i)' \ {s} = Unfired(i) \ {s} /\ (s \in Unfired(i) <=> ToFire(scan[s], i))
      /\ (s \in Unfired(i)' <=> ToFire(r, i))
  BY <1>1, <1>2 DEF Unfired
<1>7. (\A o \in world.scans \ {s} : Reach(o, i)' = Reach(o, i)) /\ Reach(s, i)' = Rung(r, i)
  BY <1>1, <1>3 DEF Reach
<1> QED BY <1>5, <1>6, <1>7 DEF Moved

LEMMA ScansPut ==
  ASSUME Scans, world' = world, DOMAIN incident \subseteq DOMAIN incident',
         NEW s \in world.scans, NEW r, Rewrites(s, r), DOMAIN r = ScanFields,
         DOMAIN r.todo \subseteq DOMAIN incident,
         r.inc # 0 => r.inc \in DOMAIN r.todo /\ IsChain(r.next),
         \A i \in DOMAIN r.todo : IsChain(r.todo[i])
  PROVE  Scans'
<1>1. \A o \in world.scans : scan'[o] = IF o = s THEN r ELSE scan[o]
  BY DEF Scans, Rewrites
<1>2. DOMAIN scan' = world'.scans
  BY DEF Scans, Rewrites
<1>3. ASSUME NEW o \in world.scans
      PROVE  /\ DOMAIN scan'[o] = ScanFields /\ DOMAIN scan'[o].todo \subseteq DOMAIN incident'
             /\ scan'[o].inc # 0 => scan'[o].inc \in DOMAIN scan'[o].todo /\ IsChain(scan'[o].next)
             /\ \A i \in DOMAIN scan'[o].todo : IsChain(scan'[o].todo[i])
  <2>1. CASE o = s
    BY <1>1, <2>1
  <2>2. CASE o # s
    BY <1>1, <2>2 DEF Scans
  <2> QED BY <2>1, <2>2
<1>4. \A c : IsChain(c)' <=> IsChain(c)
  BY Timeless
<1>5. ASSUME NEW o \in world.scans
      PROVE  (/\ scan[o].inc # 0 => IsChain(scan[o].next)
              /\ \A i \in DOMAIN scan[o].todo : IsChain(scan[o].todo[i]))'
  <2>1. PICK x : x = scan'[o]
    OBVIOUS
  <2>2. (x.inc # 0 => IsChain(x.next)') /\ \A i \in DOMAIN x.todo : IsChain(x.todo[i])'
    BY <1>3, <1>4, <2>1
  <2> QED BY <2>1, <2>2 DEF IsChain, Steps
<1>6. \A o \in world.scans :
        /\ DOMAIN scan'[o] = ScanFields /\ DOMAIN scan'[o].todo \subseteq DOMAIN incident'
        /\ scan'[o].inc # 0 => scan'[o].inc \in DOMAIN scan'[o].todo
  BY <1>3
<1> QED BY <1>2, <1>5, <1>6 DEF Scans

LEMMA SameBut ==
  ASSUME NEW A, NEW B, NEW x, A \ {x} = B \ {x}, x \in A <=> x \in B PROVE A = B
  OBVIOUS

\* An incident the rewriting of s does not concern.
LEMMA MovedNot ==
  ASSUME NEW s, NEW r, NEW i, Moved(s, r, i), i \in DOMAIN r.todo <=> i \in DOMAIN scan[s].todo,
         ToFire(r, i) <=> ToFire(scan[s], i)
  PROVE  OnIt(i)' = OnIt(i) /\ Unfired(i)' = Unfired(i)
<1>1. PICK A, B : A = OnIt(i) /\ B = OnIt(i)'
  OBVIOUS
<1>2. A \ {s} = B \ {s} /\ (s \in A <=> s \in B)
  BY <1>1 DEF Moved
<1>3. PICK C, D : C = Unfired(i) /\ D = Unfired(i)'
  OBVIOUS
<1>4. C \ {s} = D \ {s} /\ (s \in C <=> s \in D)
  BY <1>3 DEF Moved
<1> QED BY <1>1, <1>2, <1>3, <1>4, SameBut

LEMMA MovedReach ==
  ASSUME NEW s, NEW r, NEW i, Moved(s, r, i), i \in DOMAIN scan[s].todo => Rung(r, i) = Rung(scan[s], i)
  PROVE  \A o \in OnIt(i) : Reach(o, i)' = Reach(o, i)
<1>1. ASSUME NEW o \in OnIt(i), o # s PROVE Reach(o, i)' = Reach(o, i)
  BY <1>1 DEF Moved, OnIt
<1>2. ASSUME s \in OnIt(i) PROVE Reach(s, i)' = Reach(s, i)
  <2>1. Reach(s, i)' = Rung(r, i) /\ i \in DOMAIN scan[s].todo
    BY <1>2 DEF Moved
  <2> QED BY <2>1 DEF Reach
<1> QED BY <1>1, <1>2

LEMMA CounterIs ==
  ASSUME world' = world, NEW i, IsChain(incident[i].chain)', incident'[i].attaches \in Nat,
         incident'[i].fired \in Seq(Nat)
  PROVE  Counter(i)'
  BY DEF Counter

\* The debt does not grow while nothing more is fired, or is to be.
LEMMA DebtStays ==
  ASSUME Base, Base', world' = world, Uses, NEW i, Counter(i),
         incident'[i].attaches = incident[i].attaches,
         incident'[i].fired = incident[i].fired, Unfired(i)' = Unfired(i)
  PROVE  Debt(i) \in Int /\ Debt(i)' \in Int /\ Debt(i)' <= Debt(i)
<1>1. PICK l, u : l = Len(incident[i].fired) /\ u = Cardinality(Unfired(i))
  OBVIOUS
<1>2. /\ l \in Nat /\ u \in Nat /\ Len(incident'[i].fired) = l /\ Cardinality(Unfired(i)') = u
      /\ incident[i].attaches \in Nat
  BY <1>1, ScansFinite, LenProperties DEF Counter
<1>3. /\ incident'[i].attaches \in Nat /\ incident[i].attaches <= incident'[i].attaches
  BY <1>2
<1>4. /\ Debt(i) \in Int /\ Debt(i)' \in Int
      /\ \A d \in Int : d = l + u - Len(incident[i].fired) - Cardinality(Unfired(i)) =>
           Debt(i)' <= Debt(i) + d
  BY <1>2, <1>3, DebtMoves
<1>5. 0 = l + u - Len(incident[i].fired) - Cardinality(Unfired(i))
  BY <1>1, <1>2
<1>6. Debt(i)' <= Debt(i) + 0
  BY <1>4, <1>5
<1> QED BY <1>4, <1>6

LEMMA FitsFrom ==
  ASSUME Base, Base', world' = world, Uses, Rows, Scans, NEW i \in DOMAIN incident,
         Counter(i), Fits(i),
         incident'[i].attaches = incident[i].attaches,
         Debt(i) \in Int, Debt(i)' \in Int, Debt(i)' <= Debt(i),
         Climbed(incident'[i].chain) = Climbed(incident[i].chain),
         OnIt(i)' = OnIt(i),
         \A s \in OnIt(i) : Reach(s, i)' = Reach(s, i)
  PROVE  Fits(i)'
<1>1. Debt(i) \in Int /\ Debt(i)' \in Int /\ Debt(i)' <= Debt(i)
  OBVIOUS
<1>2. Climbed(incident[i].chain) \in Nat
  BY ClimbIs DEF Counter
<1>3. PICK x, y, c : x = Debt(i) /\ y = Debt(i)' /\ c = Climbed(incident[i].chain)
  OBVIOUS
<1>4. c = Climbed(incident[i].chain)'
  BY <1>3 DEF Climbed
<1>5. /\ incident[i].attaches > 0 /\ x <= c + 1 /\ (OnIt(i) = {} => x <= c)
      /\ \A s \in OnIt(i) : x <= Reach(s, i)
  BY <1>3 DEF Fits
<1>6. y <= c + 1 /\ (OnIt(i)' = {} => y <= c)
  BY <1>1, <1>2, <1>3, <1>5
<1>7. ASSUME NEW s \in OnIt(i)' PROVE y <= Reach(s, i)'
  <2>1. s \in OnIt(i)
    OBVIOUS
  <2>2. Reach(s, i) \in Nat /\ x <= Reach(s, i) /\ Reach(s, i)' = Reach(s, i)
    BY <1>5, <2>1, ReachIs
  <2> QED BY <1>1, <1>3, <2>2
<1>8. incident'[i].attaches > 0
  BY <1>5
<1> QED BY <1>3, <1>4, <1>6, <1>7, <1>8 DEF Fits

LEMMA FitsStays ==
  ASSUME Base, Base', world' = world, Uses, Rows, Scans, NEW i \in DOMAIN incident,
         Counter(i), Fits(i),
         incident'[i].attaches = incident[i].attaches, incident'[i].fired = incident[i].fired,
         Climbed(incident'[i].chain) = Climbed(incident[i].chain),
         OnIt(i)' = OnIt(i), Unfired(i)' = Unfired(i),
         \A s \in OnIt(i) : Reach(s, i)' = Reach(s, i)
  PROVE  Fits(i)'
  BY DebtStays, FitsFrom

LEMMA FreshStays ==
  ASSUME NEW i, Fresh(i), OnIt(i)' = OnIt(i),
         incident'[i].attaches = incident[i].attaches, incident'[i].fired = incident[i].fired,
         incident'[i].chain = incident[i].chain
  PROVE  Fresh(i)'
  BY DEF Fresh

\* An incident the step does not count on.
LEMMA CounterStays ==
  ASSUME StepInv, Base', world' = world, Uses, NEW i \in DOMAIN incident,
         incident'[i].attaches = incident[i].attaches, incident'[i].fired = incident[i].fired,
         incident'[i].chain = incident[i].chain,
         OnIt(i)' = OnIt(i), Unfired(i)' = Unfired(i),
         \A s \in OnIt(i) : Reach(s, i)' = Reach(s, i)
  PROVE  Counter(i)' /\ (Fresh(i)' \/ Fits(i)')
<1>1. Base /\ Rows /\ Scans /\ Counter(i) /\ (Fresh(i) \/ Fits(i))
  BY DEF StepInv
<1>2. Counter(i)'
  BY <1>1 DEF Counter, IsChain, Steps
<1>3. CASE Fresh(i)
  BY <1>2, <1>3, FreshStays
<1>4. CASE Fits(i)
  BY <1>1, <1>2, <1>4, FitsStays
<1> QED BY <1>1, <1>3, <1>4

LEMMA ScanKept ==
  ASSUME world' = world, scan' = scan, NEW i
  PROVE  /\ OnIt(i)' = OnIt(i) /\ Unfired(i)' = Unfired(i)
         /\ \A s : Reach(s, i)' = Reach(s, i)
<1>1. OnIt(i)' = OnIt(i)
  BY DEF OnIt
<1>2. Unfired(i)' = Unfired(i)
  BY Timeless DEF Unfired
<1>3. \A s : Reach(s, i)' = Reach(s, i)
  BY Timeless DEF Reach
<1> QED BY <1>1, <1>2, <1>3

LEMMA ScansKept ==
  ASSUME Scans, world' = world, scan' = scan, DOMAIN incident \subseteq DOMAIN incident'
  PROVE  Scans'
<1>1. \A s \in world.scans :
        (/\ scan[s].inc # 0 => IsChain(scan[s].next)
         /\ \A i \in DOMAIN scan[s].todo : IsChain(scan[s].todo[i]))'
  BY DEF Scans, IsChain, Steps
<1> QED BY <1>1 DEF Scans

\* Steps that leave the scans and what is counted of every incident alone.
LEMMA QuietSteps ==
  ASSUME StepInv, Base', world' = world, Uses, Rows', scan' = scan,
         DOMAIN incident' = DOMAIN incident,
         \A i \in DOMAIN incident : /\ incident'[i].attaches = incident[i].attaches
                                    /\ incident'[i].fired = incident[i].fired
                                    /\ incident'[i].chain = incident[i].chain
  PROVE  StepInv'
<1>1. Scans'
  BY ScansKept DEF StepInv
<1>2. ASSUME NEW i \in DOMAIN incident PROVE Counter(i)' /\ (Fresh(i)' \/ Fits(i)')
  BY ScanKept, CounterStays
<1> QED BY <1>1, <1>2 DEF StepInv

LEMMA EditIs ==
  ASSUME Rows, NEW i, NEW r, Edits(i, r)
  PROVE  /\ Rows' /\ DOMAIN incident' = DOMAIN incident
         /\ i \in DOMAIN incident => incident'[i] = r
         /\ \A j \in DOMAIN incident \ {i} : incident'[j] = incident[j]
  BY RowsPut DEF Edits

LEMMA AttachSteps ==
  ASSUME StepInv, Base', world' = world, Uses,
         \/ \E p : Attach(p)
         \/ \E i : Ack(i) \/ Resolve(i)
  PROVE  StepInv'
<1>1. Rows
  BY DEF StepInv
<1>2. PICK i, r : Edits(i, r) /\ Keeps(i, r, {"chain", "fired", "attaches"}) /\ scan' = scan
  <2>1. CASE \E p : Attach(p)
    BY <1>1, <2>1, AttachIs DEF Attach
  <2>2. ASSUME NEW i, Ack(i) \/ Resolve(i)
        PROVE  \E r : Edits(i, r) /\ Keeps(i, r, {"chain", "fired", "attaches"}) /\ scan' = scan
    <3>1. PICK r : Edits(i, r) /\ Keeps(i, r, {"alerts", "chain", "fired", "attaches"})
      BY <1>1, <2>2, ClosedIs
    <3>2. Keeps(i, r, {"chain", "fired", "attaches"})
      BY <3>1 DEF Keeps
    <3> QED BY <2>2, <3>1, <3>2 DEF Ack, Resolve
  <2> QED BY <2>1, <2>2
<1>3. /\ Rows' /\ DOMAIN incident' = DOMAIN incident
      /\ i \in DOMAIN incident => incident'[i] = r
      /\ \A j \in DOMAIN incident \ {i} : incident'[j] = incident[j]
  BY <1>1, <1>2, EditIs
<1>4. i \in DOMAIN incident => /\ r.attaches = incident[i].attaches /\ r.fired = incident[i].fired
                               /\ r.chain = incident[i].chain
  BY <1>2 DEF Keeps
<1> QED BY <1>2, <1>3, <1>4, QuietSteps

LEMMA CreateSteps ==
  ASSUME StepInv, Base', world' = world, Uses, NEW p, Create(p)
  PROVE  StepInv'
<1>1. Rows /\ Scans /\ scan' = scan
  BY DEF StepInv, Create
<1>2. PICK r : Adds(r)
  BY CreateIs
<1>3. PICK n : /\ n = Len(incident) + 1
  OBVIOUS
<1>4. /\ Rows' /\ n \notin DOMAIN incident
      /\ DOMAIN incident' = DOMAIN incident \cup {n} /\ incident'[n] = r
      /\ \A i \in DOMAIN incident : incident'[i] = incident[i]
  BY <1>1, <1>2, <1>3, RowsAppend DEF Adds
<1>5. Scans'
  BY <1>1, <1>4, ScansKept
<1>6. ASSUME NEW i \in DOMAIN incident PROVE Counter(i)' /\ (Fresh(i)' \/ Fits(i)')
  <2>1. incident'[i] = incident[i]
    BY <1>4
  <2> QED BY <1>1, <2>1, ScanKept, CounterStays
<1>7. Counter(n)' /\ Fresh(n)'
  <2>1. /\ incident'[n].attaches = 0 /\ incident'[n].fired = <<>> /\ incident'[n].chain = NoChain
    BY <1>2, <1>4 DEF Adds
  <2>2. OnIt(n)' = {}
    BY <1>1, <1>4 DEF OnIt, Scans
  <2>3. IsChain(NoChain)
    BY AlertBounds, ClimbIs DEF IsChain, NoChain, ChainFields, StepInv
  <2>4. IsChain(NoChain)' /\ <<>> \in Seq(Nat)
    BY <2>3, Timeless, EmptySeq
  <2>5. Counter(n)'
    BY <2>1, <2>4 DEF Counter, IsChain, Steps
  <2> QED BY <2>1, <2>2, <2>5 DEF Fresh
<1> QED BY <1>4, <1>5, <1>6, <1>7 DEF StepInv

LEMMA RechainIs ==
  ASSUME Rows, NEW i \in DOMAIN incident, NEW c, Rechained(i, c)
  PROVE  /\ Rows' /\ DOMAIN incident' = DOMAIN incident
         /\ \A k \in DOMAIN incident \ {i} : incident'[k] = incident[k]
         /\ incident'[i].chain = c /\ incident'[i].fired = incident[i].fired
         /\ incident'[i].attaches = incident[i].attaches
<1>1. PICK r : /\ Edits(i, r) /\ Keeps(i, r, {"alerts", "fired", "attaches"})
               /\ r.chain = c
  BY DEF Rechained
<1>2. r.fired = incident[i].fired /\ r.attaches = incident[i].attaches
  BY <1>1 DEF Keeps
<1> QED BY <1>1, <1>2, EditIs

LEMMA StepDueSteps ==
  ASSUME StepInv, Base', world' = world, Uses, NEW i \in DOMAIN incident, StepDue(i)
  PROVE  StepInv'
<1>1. Base /\ Rows /\ Scans /\ scan' = scan /\ Counter(i) /\ incident[i].chain.timer = "wait"
  BY DEF StepInv, StepDue
<1>2. PICK c : c = [incident[i].chain EXCEPT !.timer = "due"]
  OBVIOUS
<1>3. IsChain(c) /\ Climbed(c) = Climbed(incident[i].chain)
  <2>1. DOMAIN incident[i].chain = ChainFields
    BY <1>1 DEF Counter, IsChain
  <2>2. /\ DOMAIN c = ChainFields /\ c.step = incident[i].chain.step
        /\ c.repeats = incident[i].chain.repeats
    BY <1>2, <2>1 DEF ChainFields
  <2> QED BY <1>1, <2>2 DEF Counter, IsChain, Climbed
<1>4. Rechained(i, c)
  BY <1>1, <1>2, StepDueIs
<1>5. /\ Rows' /\ DOMAIN incident' = DOMAIN incident
      /\ \A k \in DOMAIN incident \ {i} : incident'[k] = incident[k]
      /\ incident'[i].chain = c /\ incident'[i].fired = incident[i].fired
      /\ incident'[i].attaches = incident[i].attaches
  BY <1>1, <1>4, RechainIs
<1>6. Scans'
  BY <1>1, <1>5, ScansKept
<1>7. Counter(i)' /\ Fits(i)'
  <2>1. ~Fresh(i)
    BY <1>1 DEF Fresh, NoChain
  <2>2. Fits(i)
    BY <2>1 DEF StepInv
  <2>3. Fits(i)'
    BY <1>1, <1>3, <1>5, <2>2, ScanKept, FitsStays
  <2>4. IsChain(c)'
    BY <1>3, Timeless
  <2>5. IsChain(incident[i].chain)'
    BY <1>5, <2>4 DEF IsChain, Steps
  <2> QED BY <1>1, <1>5, <2>3, <2>5, CounterIs DEF Counter
<1>8. ASSUME NEW k \in DOMAIN incident, k # i PROVE Counter(k)' /\ (Fresh(k)' \/ Fits(k)')
  BY <1>1, <1>5, <1>8, ScanKept, CounterStays
<1> QED BY <1>5, <1>6, <1>7, <1>8 DEF StepInv

LEMMA AttachChainSteps ==
  ASSUME StepInv, Base', world' = world, Uses, NEW p, AttachChain(p)
  PROVE  StepInv'
<1>0. PICK i : i = job[p].inc
  OBVIOUS
<1>1. Base /\ Rows /\ Scans /\ scan' = scan
  BY DEF StepInv, AttachChain
<1>2. PICK c : c = [NoChain EXCEPT !.policy = TRUE, !.timer = "wait"]
  OBVIOUS
<1>3. IsChain(c) /\ Climbed(c) = 0
  <2>1. DOMAIN c = ChainFields /\ c.step = 0 /\ c.repeats = 0
    BY <1>2 DEF NoChain, ChainFields
  <2> QED BY <1>1, <2>1, ClimbIs DEF IsChain, Climbed
<1>4. PICK r : /\ Edits(i, r) /\ Keeps(i, r, {"alerts", "fired"})
               /\ i \in DOMAIN incident => r.chain = c /\ r.attaches = incident[i].attaches + 1
  BY <1>0, <1>1, <1>2, AttachChainIs
<1>5. /\ Rows' /\ DOMAIN incident' = DOMAIN incident
      /\ i \in DOMAIN incident => incident'[i] = r
      /\ \A k \in DOMAIN incident \ {i} : incident'[k] = incident[k]
  BY <1>1, <1>4, EditIs
<1>6. Scans'
  BY <1>1, <1>5, ScansKept
<1>7. ASSUME i \in DOMAIN incident PROVE Counter(i)' /\ Fits(i)'
  <2>1. /\ incident'[i].chain = c /\ incident'[i].attaches = incident[i].attaches + 1
        /\ incident'[i].fired = incident[i].fired
    BY <1>4, <1>5, <1>7 DEF Keeps
  <2>2. Counter(i) /\ (Fresh(i) \/ Fits(i)) /\ incident[i].attaches \in Nat
        /\ incident[i].fired \in Seq(Nat)
    BY <1>7 DEF StepInv, Counter
  <2>3. Counter(i)'
    <3>1. IsChain(c)'
      BY <1>3, Timeless
    <3>2. IsChain(incident[i].chain)'
      BY <2>1, <3>1 DEF IsChain, Steps
    <3> QED BY <2>1, <2>2, <3>2, CounterIs
  <2>4. PICK l, u : l = Len(incident[i].fired) /\ u = Cardinality(Unfired(i))
    OBVIOUS
  <2>5. /\ l \in Nat /\ u \in Nat /\ Len(incident'[i].fired) = l /\ Cardinality(Unfired(i)') = u
        /\ incident'[i].attaches \in Nat /\ incident[i].attaches <= incident'[i].attaches
    BY <1>1, <2>1, <2>2, <2>4, ScansFinite, ScanKept, LenProperties
  <2>6. /\ Debt(i) \in Int /\ Debt(i)' \in Int /\ Climb \in Nat
        /\ \A d \in Int : d = l + u - Len(incident[i].fired) - Cardinality(Unfired(i)) =>
             /\ Debt(i)' <= Debt(i) + d
             /\ incident[i].attaches + 1 <= incident'[i].attaches => Debt(i)' + Climb <= Debt(i) + d
    BY <1>1, <2>2, <2>5, DebtMoves
  <2>7. 0 = l + u - Len(incident[i].fired) - Cardinality(Unfired(i))
    BY <2>4, <2>5
  <2>8. Debt(i)' + Climb <= Debt(i) + 0
    BY <2>1, <2>2, <2>6, <2>7
  <2>9. PICK x, y, m : x = Debt(i) /\ y = Debt(i)' /\ m = Climbed(incident[i].chain)
    OBVIOUS
  <2>10. x \in Int /\ y \in Int /\ y + Climb <= x /\ m \in Nat /\ m <= Climb /\ Climb \in Nat
    BY <1>1, <2>2, <2>6, <2>8, <2>9, ClimbIs DEF Counter
  <2>11. OnIt(i)' = OnIt(i) /\ \A s : Reach(s, i)' = Reach(s, i)
    BY <1>1, ScanKept
  <2>12. Climbed(incident[i].chain)' = 0 /\ incident'[i].attaches > 0
    BY <1>3, <2>1, <2>2 DEF Climbed
  <2>13. CASE Fresh(i)
    <3>1. OnIt(i) = {} /\ Unfired(i) = {} /\ l = 0
      BY <2>4, <2>13 DEF Fresh, Unfired, OnIt, ToFire
    <3>2. Cardinality({}) = 0
      BY FS_EmptySet
    <3>3. u = 0
      BY <2>4, <3>1, <3>2
    <3>4. PICK a : a = Allowed(i) /\ a \in Nat
      BY <1>1, <2>2, AllowedIs
    <3>5. x = Climb - a
      BY <2>4, <2>9, <2>10, <3>1, <3>3, <3>4 DEF Debt
    <3>6. y <= 0
      BY <2>10, <3>4, <3>5
    <3> QED BY <2>3, <2>9, <2>10, <2>11, <2>12, <3>1, <3>6 DEF Fits
  <2>14. CASE Fits(i)
    <3>1. /\ x <= m + 1 /\ (OnIt(i) = {} => x <= m)
          /\ \A s \in OnIt(i) : x <= Reach(s, i)
      BY <2>9, <2>14 DEF Fits
    <3>2. y <= 1 /\ (OnIt(i) = {} => y <= 0) /\ y <= x
      BY <2>10, <3>1
    <3>3. \A s \in OnIt(i)' : y <= Reach(s, i)'
      <4>1. SUFFICES ASSUME NEW s \in OnIt(i)' PROVE y <= Reach(s, i)'
        OBVIOUS
      <4>2. s \in OnIt(i)
        BY <2>11
      <4>3. Reach(s, i) \in Nat /\ x <= Reach(s, i)
        BY <1>1, <1>7, <3>1, <4>2, ReachIs
      <4>4. y <= Reach(s, i)
        BY <2>10, <3>2, <4>3
      <4> QED BY <2>11, <4>4
    <3> QED BY <2>3, <2>9, <2>10, <2>11, <2>12, <3>2, <3>3 DEF Fits
  <2> QED BY <2>2, <2>3, <2>13, <2>14
<1>8. ASSUME NEW k \in DOMAIN incident, k # i PROVE Counter(k)' /\ (Fresh(k)' \/ Fits(k)')
  BY <1>1, <1>5, <1>8, ScanKept, CounterStays
<1> QED BY <1>5, <1>6, <1>7, <1>8 DEF StepInv

\* The scan s has done with the incident i, and leaves its chain as c.
LEMMA LeaveSteps ==
  ASSUME StepInv, Base', world' = world, Uses, NEW s \in world.scans,
         NEW i \in DOMAIN scan[s].todo, scan[s].inc \in {0, i}, ~ToFire(scan[s], i),
         NEW c, IsChain(c), Climbed(c) = Reach(s, i), Rechained(i, c),
         NEW r, Rewrites(s, r), DOMAIN r = ScanFields, r.inc = 0,
         r.todo = Without(scan[s].todo, {i})
  PROVE  StepInv'
<1>1. Base /\ Rows /\ Scans /\ DOMAIN scan = world.scans /\ i \in DOMAIN incident /\ s \in OnIt(i)
  BY DEF StepInv, Scans, OnIt
<1>2. /\ Rows' /\ DOMAIN incident' = DOMAIN incident
      /\ \A k \in DOMAIN incident \ {i} : incident'[k] = incident[k]
      /\ incident'[i].chain = c /\ incident'[i].fired = incident[i].fired
      /\ incident'[i].attaches = incident[i].attaches
  BY <1>1, RechainIs
<1>3. /\ DOMAIN r.todo = DOMAIN scan[s].todo \ {i}
      /\ \A k \in DOMAIN r.todo : r.todo[k] = scan[s].todo[k]
  BY DEF Without
<1>4. Scans'
  BY <1>1, <1>2, <1>3, ScansPut DEF Scans
<1>7. \A k : Moved(s, r, k)
  BY <1>1, ScanMoves
<1>5. ASSUME NEW k \in DOMAIN incident, k # i PROVE Counter(k)' /\ (Fresh(k)' \/ Fits(k)')
  <2>1. k # 0 /\ scan[s].inc # k /\ r.inc # k
    BY <1>1, <1>5, RowsDomain
  <2>2. ToFire(r, k) <=> ToFire(scan[s], k)
    BY <1>3, <1>5, <2>1 DEF ToFire
  <2>3. k \in DOMAIN scan[s].todo => Rung(r, k) = Rung(scan[s], k)
    BY <1>3, <1>5, <2>1 DEF Rung
  <2>4. OnIt(k)' = OnIt(k) /\ Unfired(k)' = Unfired(k)
    <3>1. k \in DOMAIN r.todo <=> k \in DOMAIN scan[s].todo
      BY <1>3, <1>5
    <3> QED BY <1>7, <2>2, <3>1, MovedNot
  <2>5. \A o \in OnIt(k) : Reach(o, k)' = Reach(o, k)
    BY <1>7, <2>3, MovedReach
  <2> QED BY <1>2, <1>5, <2>4, <2>5, CounterStays
<1>6. Counter(i)' /\ Fits(i)'
  <2>1. Counter(i) /\ Fits(i)
    BY <1>1 DEF StepInv, Fresh
  <2>2. Counter(i)'
    <3>1. IsChain(c)'
      BY Timeless
    <3>2. IsChain(incident[i].chain)'
      BY <1>2, <3>1 DEF IsChain, Steps
    <3> QED BY <1>2, <2>1, <3>2, CounterIs DEF Counter
  <2>3. OnIt(i)' = OnIt(i) \ {s} /\ Unfired(i)' = Unfired(i)
    <3>1. ~ToFire(r, i) /\ i \notin DOMAIN r.todo
      BY <1>3 DEF ToFire
    <3>2. Moved(s, r, i)
      BY <1>7
    <3>3. PICK A, B : A = OnIt(i) /\ B = OnIt(i)'
      OBVIOUS
    <3>4. A \ {s} = B \ {s} /\ s \notin B
      BY <3>1, <3>2, <3>3 DEF Moved
    <3>5. PICK C, D : C = Unfired(i) /\ D = Unfired(i)'
      OBVIOUS
    <3>6. C \ {s} = D \ {s} /\ s \notin C /\ s \notin D
      BY <3>1, <3>2, <3>5 DEF Moved
    <3> QED BY <3>3, <3>4, <3>5, <3>6, SameBut
  <2>4. Debt(i) \in Int /\ Debt(i)' \in Int /\ Debt(i)' <= Debt(i)
    BY <1>1, <1>2, <2>1, <2>3, DebtStays
  <2>5. PICK x, y, m : x = Debt(i) /\ y = Debt(i)' /\ m = Climbed(c)
    OBVIOUS
  <2>6. m \in Nat /\ x <= m
    BY <1>1, <2>1, <2>5, ClimbIs DEF Fits
  <2>7. m = Climbed(incident[i].chain)'
    BY <1>2, <2>5 DEF Climbed
  <2>8. y <= m /\ y <= m + 1
    BY <2>4, <2>5, <2>6
  <2>9. ASSUME NEW o \in OnIt(i)' PROVE y <= Reach(o, i)'
    <3>1. o \in OnIt(i) /\ o # s /\ o \in world.scans
      BY <2>3 DEF OnIt
    <3>2. Reach(o, i)' = Reach(o, i)
      BY <1>7, <3>1 DEF Moved
    <3>3. Reach(o, i) \in Nat /\ x <= Reach(o, i)
      BY <1>1, <2>1, <2>5, <3>1, ReachIs DEF Fits
    <3> QED BY <2>4, <2>5, <3>2, <3>3
  <2>10. incident'[i].attaches > 0
    BY <1>2, <2>1 DEF Fits
  <2> QED BY <2>2, <2>5, <2>7, <2>8, <2>9, <2>10 DEF Fits
<1> QED BY <1>2, <1>4, <1>5, <1>6 DEF StepInv

LEMMA ParkSteps ==
  ASSUME StepInv, Base', world' = world, Uses, NEW s \in world.scans, Park(s)
  PROVE  StepInv'
<1>1. PICK i \in DOMAIN scan[s].todo :
        /\ ~scan[s].todo[i].policy \/ ~world.stored
        /\ incident' = [incident EXCEPT ![i].chain = [scan[s].todo[i] EXCEPT !.timer = "none"]]
        /\ scan' = [scan EXCEPT ![s].todo = Without(@, {i})]
  BY DEF Park
<1>2. Rows /\ Scans /\ scan[s].inc = 0 /\ DOMAIN scan[s] = ScanFields /\ i \in DOMAIN incident
  BY DEF StepInv, Park, Scans
<1>3. PICK b, c : b = scan[s].todo[i] /\ c = [b EXCEPT !.timer = "none"]
  OBVIOUS
<1>4. IsChain(b) /\ ~MayFire(b)
  BY <1>1, <1>2, <1>3 DEF Scans, MayFire
<1>5. IsChain(c) /\ Climbed(c) = Climbed(b)
  <2>1. DOMAIN c = ChainFields /\ c.step = b.step /\ c.repeats = b.repeats
    BY <1>3, <1>4 DEF IsChain, ChainFields
  <2> QED BY <1>4, <2>1 DEF IsChain, Climbed
<1>6. i # 0 /\ ~ToFire(scan[s], i)
  BY <1>2, <1>3, <1>4, RowsDomain DEF ToFire
<1>7. Reach(s, i) = Climbed(c)
  <2>1. Reach(s, i) = Climbed(b) + 0
    BY <1>2, <1>3, <1>4, <1>6 DEF Reach, Rung
  <2>2. Climbed(b) \in Nat
    BY <1>4, ClimbIs DEF StepInv
  <2> QED BY <1>5, <2>1, <2>2
<1>8. Rechained(i, c)
  BY <1>1, <1>2, <1>3, ParkIs
<1> DEFINE r == [scan[s] EXCEPT !.todo = Without(scan[s].todo, {i})]
<1>9. Rewrites(s, r)
  BY <1>1 DEF Rewrites
<1>10. DOMAIN r = ScanFields /\ r.inc = 0 /\ r.todo = Without(scan[s].todo, {i})
  BY <1>2 DEF ScanFields
<1> HIDE DEF r
<1> QED BY <1>2, <1>5, <1>6, <1>7, <1>8, <1>9, <1>10, LeaveSteps

LEMMA MarkFiredSteps ==
  ASSUME StepInv, Base', world' = world, Uses, NEW s \in world.scans, MarkFired(s)
  PROVE  StepInv'
<1>0. PICK i, c : i = scan[s].inc /\ c = scan[s].next
  OBVIOUS
<1>1. Rows /\ Scans /\ i # 0 /\ i \in DOMAIN scan[s].todo /\ IsChain(c)
  BY <1>0 DEF StepInv, MarkFired, Scans
<1>2. ~ToFire(scan[s], i) /\ Reach(s, i) = Climbed(c)
  BY <1>0 DEF ToFire, Reach, Rung
<1>3. Rechained(i, c)
  BY <1>0, <1>1, MarkFiredIs
<1> DEFINE r == [IdleScan EXCEPT !.todo = Without(scan[s].todo, {i})]
<1>4. Rewrites(s, r)
  BY <1>0 DEF MarkFired, Rewrites
<1>5. DOMAIN r = ScanFields /\ r.inc = 0 /\ r.todo = Without(scan[s].todo, {i})
  BY DEF ScanFields, IdleScan
<1> HIDE DEF r
<1> QED BY <1>0, <1>1, <1>2, <1>3, <1>4, <1>5, LeaveSteps

\* The next step of a chain is one rung up.
LEMMA NextIs ==
  ASSUME Base, NEW c, IsChain(c), MayFire(c)
  PROVE  /\ IsChain(NextStep(c)) /\ Climbed(NextStep(c)) = Climbed(c) + 1
         /\ NextStep(c).step \in Nat
<1>1. /\ Steps \in Nat /\ MaxRepeats \in Nat /\ DOMAIN c = ChainFields
      /\ c.step \in Nat /\ c.step <= Steps /\ c.repeats \in Nat /\ c.repeats <= MaxRepeats
      /\ c.repeats > 0 => world.repeats
  BY ClimbIs DEF IsChain
<1>2. CASE c.step < Steps
  <2>1. PICK m : m = [c EXCEPT !.step = @ + 1]
    OBVIOUS
  <2>2. PICK f : f = Following(m)
    OBVIOUS
  <2>3. PICK n : n = [m EXCEPT !.timer = f]
    OBVIOUS
  <2>4. DOMAIN m = ChainFields /\ m.step = c.step + 1 /\ m.repeats = c.repeats
    BY <1>1, <2>1 DEF ChainFields
  <2>5. DOMAIN n = ChainFields /\ n.step = c.step + 1 /\ n.repeats = c.repeats
    BY <2>3, <2>4 DEF ChainFields
  <2>6. NextStep(c) = n
    BY <1>2, <2>1, <2>2, <2>3 DEF NextStep
  <2>7. IsChain(n) /\ Climbed(n) = Climbed(c) + 1 /\ n.step \in Nat
    BY <1>1, <1>2, <2>5 DEF IsChain, Climbed
  <2> QED BY <2>6, <2>7
<1>3. CASE ~(c.step < Steps)
  <2>1. world.repeats /\ c.repeats < MaxRepeats
    BY <1>3 DEF MayFire, StepsLeft
  <2>2. PICK n : n = [c EXCEPT !.repeats = @ + 1, !.timer = "wait"]
    OBVIOUS
  <2>3. DOMAIN n = ChainFields /\ n.step = c.step /\ n.repeats = c.repeats + 1
    BY <1>1, <2>2 DEF ChainFields
  <2>4. NextStep(c) = n
    BY <1>3, <2>2 DEF NextStep
  <2>5. IsChain(n) /\ Climbed(n) = Climbed(c) + 1 /\ n.step \in Nat
    BY <1>1, <2>1, <2>3 DEF IsChain, Climbed
  <2> QED BY <2>4, <2>5
<1> QED BY <1>2, <1>3

\* The scan s takes the incident i in hand and leaves the others to later.
LEMMA TakesIn ==
  ASSUME StepInv, world' = world, NEW s \in world.scans, NEW i \in DOMAIN scan[s].todo,
         scan[s].inc = 0, NEW r, Rewrites(s, r), DOMAIN r = ScanFields, r.todo = scan[s].todo,
         r.inc = i, IsChain(r.next), Climbed(r.next) = Reach(s, i),
         DOMAIN incident' = DOMAIN incident
  PROVE  /\ Scans' /\ i \in DOMAIN incident /\ s \in OnIt(i) /\ Moved(s, r, i)
         /\ OnIt(i)' = OnIt(i) /\ \A o \in OnIt(i) : Reach(o, i)' = Reach(o, i)
         /\ \A k \in DOMAIN incident \ {i} :
              /\ OnIt(k)' = OnIt(k) /\ Unfired(k)' = Unfired(k)
              /\ \A o \in OnIt(k) : Reach(o, k)' = Reach(o, k)
<1>1. Rows /\ Scans /\ DOMAIN scan = world.scans /\ i \in DOMAIN incident /\ s \in OnIt(i)
  BY DEF StepInv, Scans, OnIt
<1>2. \A k : Moved(s, r, k)
  BY <1>1, ScanMoves
<1>3. Scans'
  <2>1. /\ DOMAIN r.todo \subseteq DOMAIN incident
        /\ \A k \in DOMAIN r.todo : IsChain(r.todo[k])
        /\ r.inc # 0 => r.inc \in DOMAIN r.todo /\ IsChain(r.next)
    BY <1>1 DEF Scans
  <2> QED BY <1>1, <2>1, ScansPut
<1>4. ASSUME NEW k \in DOMAIN incident, k # i
      PROVE  /\ OnIt(k)' = OnIt(k) /\ Unfired(k)' = Unfired(k)
             /\ \A o \in OnIt(k) : Reach(o, k)' = Reach(o, k)
  <2>1. k # 0 /\ r.inc # k /\ scan[s].inc # k
    BY <1>1, <1>4, RowsDomain
  <2>2. ToFire(r, k) <=> ToFire(scan[s], k)
    BY <2>1 DEF ToFire
  <2>3. Rung(r, k) = Rung(scan[s], k)
    BY <2>1 DEF Rung
  <2>4. k \in DOMAIN r.todo <=> k \in DOMAIN scan[s].todo
    OBVIOUS
  <2> QED BY <1>2, <2>2, <2>3, <2>4, MovedNot, MovedReach
<1>5. OnIt(i)' = OnIt(i)
  <2>1. PICK A, B : A = OnIt(i) /\ B = OnIt(i)'
    OBVIOUS
  <2>2. A \ {s} = B \ {s} /\ (s \in A <=> s \in B)
    BY <1>2, <2>1 DEF Moved
  <2> QED BY <2>1, <2>2, SameBut
<1>6. \A o \in OnIt(i) : Reach(o, i)' = Reach(o, i)
  <2>1. Rung(r, i) = Rung(scan[s], i)
    BY DEF Rung, Reach
  <2> QED BY <1>2, <2>1, MovedReach
<1> QED BY <1>1, <1>2, <1>3, <1>4, <1>5, <1>6

LEMMA FireStepSteps ==
  ASSUME StepInv, Base', world' = world, Uses, NEW s \in world.scans, FireStep(s)
  PROVE  StepInv'
<1>0. PICK i \in DOMAIN scan[s].todo :
        /\ MayFire(scan[s].todo[i])
        /\ incident' = [incident EXCEPT ![i].fired = Append(@, NextStep(scan[s].todo[i]).step)]
        /\ scan' = [scan EXCEPT ![s].inc = i, ![s].next = NextStep(scan[s].todo[i]),
                                ![s].exh = FALSE]
  BY DEF FireStep, MayFire
<1>1. PICK c, n :
        /\ c = scan[s].todo[i] /\ n = NextStep(c) /\ MayFire(c)
        /\ incident' = [incident EXCEPT ![i].fired = Append(@, n.step)]
        /\ scan' = [scan EXCEPT ![s].inc = i, ![s].next = n, ![s].exh = FALSE]
  BY <1>0
<1>2. /\ Base /\ Rows /\ Scans /\ scan[s].inc = 0 /\ DOMAIN scan[s] = ScanFields
      /\ i \in DOMAIN incident /\ IsChain(c) /\ i # 0 /\ DOMAIN scan = world.scans
  BY <1>1, RowsDomain DEF StepInv, FireStep, Scans
<1>3. IsChain(n) /\ Climbed(n) = Climbed(c) + 1 /\ n.step \in Nat
  BY <1>1, <1>2, NextIs
<1>4. Reach(s, i) = Climbed(n) /\ ToFire(scan[s], i)
  BY <1>1, <1>2, <1>3 DEF Reach, Rung, ToFire
<1> DEFINE r == [scan[s] EXCEPT !.inc = i, !.next = n, !.exh = FALSE]
<1>5. Rewrites(s, r)
  BY <1>1 DEF Rewrites
<1>6. DOMAIN r = ScanFields /\ r.todo = scan[s].todo /\ r.inc = i /\ r.next = n
  BY <1>2 DEF ScanFields
<1> HIDE DEF r
<1>7. PICK q : /\ Edits(i, q) /\ Keeps(i, q, {"alerts", "chain", "attaches"})
               /\ q.fired = Append(incident[i].fired, n.step)
  BY <1>1, <1>2, FireStepIs
<1>8. /\ Rows' /\ DOMAIN incident' = DOMAIN incident /\ incident'[i] = q
      /\ \A k \in DOMAIN incident \ {i} : incident'[k] = incident[k]
  BY <1>2, <1>7, EditIs
<1>9. /\ incident'[i].chain = incident[i].chain /\ incident'[i].attaches = incident[i].attaches
      /\ incident'[i].fired = Append(incident[i].fired, n.step)
  BY <1>2, <1>7, <1>8 DEF Keeps
<1>10. /\ Scans' /\ s \in OnIt(i) /\ Moved(s, r, i)
       /\ OnIt(i)' = OnIt(i) /\ \A o \in OnIt(i) : Reach(o, i)' = Reach(o, i)
       /\ \A k \in DOMAIN incident \ {i} :
            /\ OnIt(k)' = OnIt(k) /\ Unfired(k)' = Unfired(k)
            /\ \A o \in OnIt(k) : Reach(o, k)' = Reach(o, k)
  BY <1>2, <1>3, <1>4, <1>5, <1>6, <1>8, TakesIn
<1>11. Counter(i) /\ Fits(i) /\ incident[i].fired \in Seq(Nat) /\ incident[i].attaches \in Nat
  BY <1>2, <1>10 DEF StepInv, Fresh, Counter
<1>12. Counter(i)'
  <2>1. IsChain(incident[i].chain)'
    BY <1>9, <1>11 DEF Counter, IsChain, Steps
  <2>2. Append(incident[i].fired, n.step) \in Seq(Nat)
    BY <1>3, <1>11, AppendProperties
  <2> QED BY <1>9, <1>11, <2>1, <2>2, CounterIs
<1>13. Fits(i)'
  <2>1. PICK l, u : l = Len(incident[i].fired) /\ u = Cardinality(Unfired(i))
    OBVIOUS
  <2>2. l \in Nat /\ Len(incident'[i].fired) = l + 1
    BY <1>3, <1>9, <1>11, <2>1, AppendProperties, LenProperties
  <2>3. Unfired(i)' = Unfired(i) \ {s} /\ s \in Unfired(i)
    <3>1. PICK A, B : A = Unfired(i) /\ B = Unfired(i)'
      OBVIOUS
    <3>2. ~ToFire(r, i)
      BY <1>6 DEF ToFire
    <3>3. A \ {s} = B \ {s} /\ s \in A /\ s \notin B
      BY <1>4, <1>10, <3>1, <3>2 DEF Moved
    <3>4. B = A \ {s}
      BY <3>3
    <3> QED BY <3>1, <3>3, <3>4
  <2>4. u \in Nat /\ u - 1 \in Nat /\ Cardinality(Unfired(i)') = u - 1
    <3>1. IsFiniteSet(Unfired(i)) /\ Cardinality(Unfired(i)) \in Nat
      BY <1>2, ScansFinite
    <3>2. PICK B : B = Unfired(i)'
      OBVIOUS
    <3>3. Cardinality(B) = u - 1 /\ u > 0
      BY <2>1, <2>3, <3>1, <3>2, OneMore
    <3> QED BY <2>1, <3>1, <3>2, <3>3
  <2>5. /\ Debt(i) \in Int /\ Debt(i)' \in Int
        /\ \A d \in Int : d = (l + 1) + (u - 1) - Len(incident[i].fired) - Cardinality(Unfired(i)) =>
             Debt(i)' <= Debt(i) + d
    <3>1. incident'[i].attaches \in Nat /\ incident[i].attaches <= incident'[i].attaches
      BY <1>9, <1>11
    <3>2. l + 1 \in Nat
      BY <2>2
    <3> QED BY <1>2, <1>11, <2>2, <2>4, <3>1, <3>2, DebtMoves
  <2>6. 0 = (l + 1) + (u - 1) - Len(incident[i].fired) - Cardinality(Unfired(i))
    BY <2>1, <2>2, <2>4
  <2>7. Debt(i)' <= Debt(i) + 0
    BY <2>5, <2>6
  <2>8. Debt(i)' <= Debt(i)
    BY <2>5, <2>7
  <2> QED BY <1>2, <1>9, <1>10, <1>11, <2>5, <2>8, FitsFrom
<1>14. ASSUME NEW k \in DOMAIN incident, k # i PROVE Counter(k)' /\ (Fresh(k)' \/ Fits(k)')
  BY <1>8, <1>10, <1>14, CounterStays
<1> QED BY <1>8, <1>10, <1>12, <1>13, <1>14 DEF StepInv

LEMMA FireExhaustedSteps ==
  ASSUME StepInv, Base', world' = world, Uses, NEW s \in world.scans, FireExhausted(s)
  PROVE  StepInv'
<1>0. PICK i \in DOMAIN scan[s].todo :
        /\ ~MayFire(scan[s].todo[i])
        /\ scan' = [scan EXCEPT ![s].inc = i, ![s].next = [scan[s].todo[i] EXCEPT !.timer = "none"],
                                ![s].exh = TRUE]
  BY DEF FireExhausted, MayFire
<1>1. PICK c, n :
        /\ c = scan[s].todo[i] /\ n = [c EXCEPT !.timer = "none"] /\ ~MayFire(c)
        /\ scan' = [scan EXCEPT ![s].inc = i, ![s].next = n, ![s].exh = TRUE]
  BY <1>0
<1>2. /\ Base /\ Rows /\ Scans /\ scan[s].inc = 0 /\ DOMAIN scan[s] = ScanFields
      /\ i \in DOMAIN incident /\ IsChain(c) /\ i # 0 /\ DOMAIN scan = world.scans
      /\ incident' = incident
  BY <1>1, RowsDomain DEF StepInv, FireExhausted, Scans
<1>3. IsChain(n) /\ Climbed(n) = Climbed(c)
  <2>1. DOMAIN n = ChainFields /\ n.step = c.step /\ n.repeats = c.repeats
    BY <1>1, <1>2 DEF IsChain, ChainFields
  <2> QED BY <1>2, <2>1 DEF IsChain, Climbed
<1>4. Reach(s, i) = Climbed(n) /\ ~ToFire(scan[s], i)
  <2>1. Reach(s, i) = Climbed(c) + 0
    BY <1>1, <1>2 DEF Reach, Rung
  <2>2. Climbed(c) \in Nat
    BY <1>2, ClimbIs
  <2> QED BY <1>1, <1>3, <2>1, <2>2 DEF ToFire
<1> DEFINE r == [scan[s] EXCEPT !.inc = i, !.next = n, !.exh = TRUE]
<1>5. Rewrites(s, r)
  BY <1>1 DEF Rewrites
<1>6. DOMAIN r = ScanFields /\ r.todo = scan[s].todo /\ r.inc = i /\ r.next = n
  BY <1>2 DEF ScanFields
<1> HIDE DEF r
<1>7. /\ Scans' /\ s \in OnIt(i) /\ Moved(s, r, i)
      /\ OnIt(i)' = OnIt(i) /\ \A o \in OnIt(i) : Reach(o, i)' = Reach(o, i)
      /\ \A k \in DOMAIN incident \ {i} :
           /\ OnIt(k)' = OnIt(k) /\ Unfired(k)' = Unfired(k)
           /\ \A o \in OnIt(k) : Reach(o, k)' = Reach(o, k)
  BY <1>2, <1>3, <1>4, <1>5, <1>6, TakesIn
<1>8. Unfired(i)' = Unfired(i)
  <2>1. ~ToFire(r, i)
    BY <1>6 DEF ToFire
  <2> QED BY <1>4, <1>6, <1>7, <2>1, MovedNot
<1>9. \A k \in DOMAIN incident : Counter(k)' /\ (Fresh(k)' \/ Fits(k)')
  <2> SUFFICES ASSUME NEW k \in DOMAIN incident PROVE Counter(k)' /\ (Fresh(k)' \/ Fits(k)')
    OBVIOUS
  <2>1. /\ OnIt(k)' = OnIt(k) /\ Unfired(k)' = Unfired(k)
        /\ \A o \in OnIt(k) : Reach(o, k)' = Reach(o, k)
    BY <1>7, <1>8
  <2> QED BY <1>2, <2>1, CounterStays
<1>10. Rows'
  BY <1>2 DEF Rows
<1> QED BY <1>2, <1>7, <1>9, <1>10 DEF StepInv

\* A scan takes an incident that no other one holds, or overlaps.
LEMMA ScanTakes ==
  ASSUME StepInv, Base', Rows', Scans', world' = world, Uses, incident' = incident,
         NEW s \in world.scans, NEW t, Rewrites(s, t), t.inc = 0,
         NEW i \in DOMAIN incident, i \notin DOMAIN scan[s].todo, i \in DOMAIN t.todo,
         t.todo[i] = incident[i].chain, incident[i].chain.timer = "due",
         OnIt(i) = {} \/ left'["overlaps"] < left["overlaps"]
  PROVE  Counter(i)' /\ Fits(i)'
<1>0. PICK c : c = incident[i].chain
  OBVIOUS
<1>1. /\ Base /\ Rows /\ Scans /\ DOMAIN scan = world.scans /\ Counter(i) /\ i # 0 /\ IsChain(c)
  BY <1>0, RowsDomain DEF StepInv, Scans, Counter
<1>2. Fits(i)
  <2>1. ~Fresh(i)
    BY DEF Fresh, NoChain
  <2> QED BY <2>1 DEF StepInv
<1>3. Counter(i)'
  BY <1>1 DEF Counter, IsChain, Steps
<1>4. Moved(s, t, i)
  BY <1>1, ScanMoves
<1>5. PICK A, B, C, D : A = OnIt(i) /\ B = OnIt(i)' /\ C = Unfired(i) /\ D = Unfired(i)'
  OBVIOUS
<1>6. A \ {s} = B \ {s} /\ s \notin A /\ s \in B
  BY <1>4, <1>5 DEF Moved
<1>7. /\ C \ {s} = D \ {s} /\ s \notin C /\ (s \in D <=> MayFire(c))
  <2>1. ToFire(t, i) <=> MayFire(c)
    BY <1>0, <1>1 DEF ToFire
  <2>2. ~ToFire(scan[s], i)
    BY DEF ToFire
  <2> QED BY <1>4, <1>5, <2>1, <2>2 DEF Moved
<1>8. B = A \cup {s}
  BY <1>6
<1>9. PICK m, b, l, u, x, y :
        /\ m = IF MayFire(c) THEN 1 ELSE 0
        /\ b = Climbed(c) /\ l = Len(incident[i].fired) /\ u = Cardinality(Unfired(i))
        /\ x = Debt(i) /\ y = Debt(i)'
  OBVIOUS
<1>10. m \in 0..1 /\ b \in Nat /\ l \in Nat /\ u \in Nat /\ incident[i].attaches \in Nat
  BY <1>1, <1>9, ClimbIs, ScansFinite, LenProperties DEF Counter
<1>11. Reach(s, i)' = b + m
  <2>1. Rung(t, i) = Climbed(c) + (IF MayFire(c) THEN 1 ELSE 0)
    BY <1>0, <1>1 DEF Rung
  <2>2. Reach(s, i)' = Rung(t, i)
    BY <1>4 DEF Moved
  <2> QED BY <1>9, <2>1, <2>2
<1>12. Cardinality(Unfired(i)') = u + m
  <2>1. IsFiniteSet(C) /\ Cardinality(C) = u
    BY <1>1, <1>5, <1>9, ScansFinite
  <2>2. CASE MayFire(c)
    <3>1. D = C \cup {s} /\ s \notin C
      BY <1>7, <2>2
    <3>2. Cardinality(D) = Cardinality(C) + 1
      BY <2>1, <3>1, OneMore
    <3> QED BY <1>5, <1>9, <2>1, <2>2, <3>2
  <2>3. CASE ~MayFire(c)
    <3>1. D = C
      BY <1>7, <2>3
    <3> QED BY <1>5, <1>9, <1>10, <2>1, <2>3, <3>1
  <2> QED BY <2>2, <2>3
<1>13. /\ x \in Int /\ y \in Int /\ y <= x + m
       /\ left'["overlaps"] < left["overlaps"] => y + 1 <= x + m
  <2>1. /\ u + m \in Nat /\ incident'[i].attaches \in Nat /\ Len(incident'[i].fired) = l
        /\ incident[i].attaches <= incident'[i].attaches
    BY <1>9, <1>10
  <2>2. /\ Debt(i) \in Int /\ Debt(i)' \in Int
        /\ \A d \in Int : d = l + (u + m) - Len(incident[i].fired) - Cardinality(Unfired(i)) =>
             /\ Debt(i)' <= Debt(i) + d
             /\ left'["overlaps"] < left["overlaps"] => Debt(i)' + 1 <= Debt(i) + d
    BY <1>1, <1>10, <1>12, <2>1, DebtMoves
  <2>3. m = l + (u + m) - Len(incident[i].fired) - Cardinality(Unfired(i)) /\ m \in Int
    BY <1>9, <1>10
  <2>4. /\ Debt(i)' <= Debt(i) + m
        /\ left'["overlaps"] < left["overlaps"] => Debt(i)' + 1 <= Debt(i) + m
    BY <2>2, <2>3
  <2> QED BY <1>9, <2>2, <2>4
<1>14. /\ incident[i].attaches > 0 /\ (OnIt(i) = {} => x <= b) /\ x <= b + 1
       /\ \A o \in OnIt(i) : x <= Reach(o, i)
  BY <1>0, <1>2, <1>9 DEF Fits
<1>15. y <= b + m /\ y <= b + 1
  <2>1. CASE OnIt(i) = {}
    BY <1>10, <1>13, <1>14, <2>1
  <2>2. CASE left'["overlaps"] < left["overlaps"]
    BY <1>10, <1>13, <1>14, <2>2
  <2> QED BY <2>1, <2>2
<1>16. ASSUME NEW o \in OnIt(i)' PROVE y <= Reach(o, i)'
  <2>1. CASE o = s
    BY <1>11, <1>15, <2>1
  <2>2. CASE o # s
    <3>1. o \in OnIt(i) /\ o \in world.scans
      BY <1>5, <1>8, <2>2 DEF OnIt
    <3>2. Reach(o, i)' = Reach(o, i)
      BY <1>4, <2>2, <3>1 DEF Moved
    <3>3. Reach(o, i) \in Nat /\ x <= Reach(o, i)
      BY <1>1, <1>14, <3>1, ReachIs
    <3>4. left'["overlaps"] < left["overlaps"]
      BY <3>1
    <3>5. y <= x
      BY <1>10, <1>13, <3>4
    <3> QED BY <1>13, <3>2, <3>3, <3>5
  <2> QED BY <2>1, <2>2
<1>17. OnIt(i)' # {} /\ b = Climbed(incident[i].chain)'
  BY <1>0, <1>5, <1>6, <1>9 DEF Climbed
<1> QED BY <1>3, <1>9, <1>14, <1>15, <1>16, <1>17 DEF Fits

LEMMA ScanStartSteps ==
  ASSUME StepInv, Base', world' = world, Uses, NEW s \in world.scans, ScanStart(s)
  PROVE  StepInv'
<1>0. PICK todo : todo = [i \in DueIncidents |-> incident[i].chain]
  OBVIOUS
<1>1. /\ Base /\ Rows /\ Scans /\ DOMAIN scan = world.scans /\ DOMAIN scan[s] = ScanFields
      /\ scan[s].inc = 0 /\ DOMAIN scan[s].todo = {} /\ incident' = incident
  BY DEF StepInv, Scans, ScanStart, Scanning, store
<1> DEFINE t == [scan[s] EXCEPT !.todo = todo]
<1>2. Rewrites(s, t)
  BY <1>0 DEF ScanStart, Rewrites
<1>3. DOMAIN t = ScanFields /\ t.inc = 0 /\ t.todo = todo
  BY <1>1 DEF ScanFields
<1>4. /\ DOMAIN todo = DueIncidents /\ DueIncidents \subseteq DOMAIN incident
      /\ \A i \in DueIncidents : todo[i] = incident[i].chain /\ incident[i].chain.timer = "due"
  BY <1>0 DEF DueIncidents
<1> HIDE DEF t
<1>5. Scans'
  <2>1. \A i \in DOMAIN t.todo : IsChain(t.todo[i])
    BY <1>3, <1>4 DEF StepInv, Counter
  <2> QED BY <1>1, <1>2, <1>3, <1>4, <2>1, ScansPut
<1>6. Rows'
  BY <1>1 DEF Rows
<1>7. (\E o \in world.scans \ {s} : Scanning(o)) => left'["overlaps"] < left["overlaps"]
  <2>1. (\E o \in world.scans \ {s} : Scanning(o)) =>
          left' = [left EXCEPT !["overlaps"] = @ - 1] /\ left["overlaps"] \in Nat
    BY DEF ScanStart, StepInv, Base, LeftInv, Limits
  <2>2. "overlaps" \in DOMAIN left
    BY DEF StepInv, Base, LeftInv, Limits
  <2> QED BY <2>1, <2>2
<1>8. ASSUME NEW i \in DOMAIN incident PROVE Counter(i)' /\ (Fresh(i)' \/ Fits(i)')
  <2>1. CASE i \in DueIncidents
    <3>1. OnIt(i) = {} \/ left'["overlaps"] < left["overlaps"]
      <4>1. ASSUME NEW o \in OnIt(i) PROVE o \in world.scans \ {s} /\ Scanning(o)
        BY <1>1 DEF OnIt, Scanning
      <4> QED BY <1>7, <4>1
    <3>2. i \notin DOMAIN scan[s].todo /\ i \in DOMAIN t.todo /\ t.todo[i] = incident[i].chain
          /\ incident[i].chain.timer = "due"
      BY <1>1, <1>3, <1>4, <2>1
    <3> QED BY <1>1, <1>2, <1>3, <1>5, <1>6, <3>1, <3>2, ScanTakes
  <2>2. CASE i \notin DueIncidents
    <3>1. Moved(s, t, i)
      BY <1>1, <1>2, ScanMoves
    <3>2. /\ i \notin DOMAIN t.todo /\ i \notin DOMAIN scan[s].todo
          /\ ~ToFire(t, i) /\ ~ToFire(scan[s], i)
      BY <1>1, <1>3, <1>4, <2>2 DEF ToFire
    <3>3. OnIt(i)' = OnIt(i) /\ Unfired(i)' = Unfired(i)
      BY <3>1, <3>2, MovedNot
    <3>4. \A o \in OnIt(i) : Reach(o, i)' = Reach(o, i)
      BY <3>1, <3>2, MovedReach
    <3> QED BY <1>1, <3>3, <3>4, CounterStays
  <2> QED BY <2>1, <2>2
<1> QED BY <1>1, <1>5, <1>6, <1>8 DEF StepInv

LEMMA CrashSteps ==
  ASSUME StepInv, Base', world' = world, Uses, Crash
  PROVE  StepInv'
<1>1. /\ Base /\ Rows /\ Scans /\ incident' = incident
      /\ scan' = [s \in world.scans |-> IdleScan]
  BY DEF StepInv, Crash
<1>2. /\ DOMAIN IdleScan = ScanFields /\ DOMAIN IdleScan.todo = {} /\ IdleScan.inc = 0
  BY DEF IdleScan, ScanFields
<1>3. Scans'
  BY <1>1, <1>2 DEF Scans
<1>4. Rows'
  BY <1>1 DEF Rows
<1>5. left'["crashes"] < left["crashes"]
  <2>1. left' = [left EXCEPT !["crashes"] = @ - 1] /\ left["crashes"] \in Nat
        /\ "crashes" \in DOMAIN left
    BY DEF Crash, StepInv, Base, LeftInv, Limits
  <2> QED BY <2>1
<1>6. ASSUME NEW i \in DOMAIN incident PROVE Counter(i)' /\ (Fresh(i)' \/ Fits(i)')
  <2>1. OnIt(i)' = {} /\ Unfired(i)' = {}
    BY <1>1, <1>2 DEF OnIt, Unfired, ToFire
  <2>2. Counter(i) /\ (Fresh(i) \/ Fits(i)) /\ incident[i].attaches \in Nat
    BY DEF StepInv, Counter
  <2>3. Counter(i)'
    BY <1>1, <2>2 DEF Counter, IsChain, Steps
  <2>4. CASE Fresh(i)
    BY <1>1, <2>1, <2>3, <2>4 DEF Fresh
  <2>5. CASE Fits(i)
    <3>1. PICK l, u, x, y, b, n :
            /\ l = Len(incident[i].fired) /\ u = Cardinality(Unfired(i)) /\ x = Debt(i)
            /\ y = Debt(i)' /\ b = Climbed(incident[i].chain) /\ n = Cardinality(world.scans)
      OBVIOUS
    <3>2. l \in Nat /\ u \in Nat /\ b \in Nat /\ n \in Nat
      BY <1>1, <2>2, <3>1, ClimbIs, ScansFinite, LenProperties DEF Counter
    <3>3. Cardinality({}) = 0
      BY FS_EmptySet
    <3>4. /\ Cardinality(Unfired(i)') = 0 /\ Len(incident'[i].fired) = l
          /\ incident'[i].attaches \in Nat /\ incident[i].attaches <= incident'[i].attaches
      BY <1>1, <2>1, <2>2, <3>1, <3>3
    <3>5. /\ Debt(i) \in Int /\ Debt(i)' \in Int
          /\ \A d \in Int : d = l + 0 - Len(incident[i].fired) - Cardinality(Unfired(i)) =>
               (left'["crashes"] < left["crashes"] => Debt(i)' + Cardinality(world.scans) <= Debt(i) + d)
      BY <1>1, <2>2, <3>2, <3>4, DebtMoves
    <3>6. PICK d : d = 0 - u
      OBVIOUS
    <3>7. d \in Int /\ d = l + 0 - Len(incident[i].fired) - Cardinality(Unfired(i))
      BY <3>1, <3>2, <3>6
    <3>8. x \in Int /\ y \in Int /\ y + n <= x + d
      BY <1>5, <3>1, <3>5, <3>7
    <3>9. x <= b + 1 /\ (OnIt(i) = {} => x <= b) /\ incident[i].attaches > 0
      BY <2>5, <3>1 DEF Fits
    <3>10. y <= b
      <4>1. CASE OnIt(i) = {}
        BY <3>2, <3>6, <3>8, <3>9, <4>1
      <4>2. CASE OnIt(i) # {}
        <5>1. world.scans # {}
          BY <4>2 DEF OnIt
        <5>2. n # 0
          BY <1>1, <3>1, <5>1, ScansFinite, FS_EmptySet
        <5> QED BY <3>2, <3>6, <3>8, <3>9, <5>2
      <4> QED BY <4>1, <4>2
    <3>11. b = Climbed(incident[i].chain)'
      BY <1>1, <3>1 DEF Climbed
    <3>12. y <= b + 1
      BY <3>2, <3>8, <3>10
    <3> QED BY <1>1, <2>1, <2>3, <3>1, <3>9, <3>10, <3>11, <3>12 DEF Fits
  <2> QED BY <2>2, <2>4, <2>5
<1> QED BY <1>1, <1>3, <1>4, <1>6 DEF StepInv

LEMMA StepStep ==
  ASSUME StepInv, [Next]_vars PROVE StepInv'
<1>0. Base /\ Base' /\ world' = world /\ Uses
  BY BaseStep DEF StepInv
<1>1. ASSUME UNCHANGED <<incident, scan>> PROVE StepInv'
  <2>1. Rows'
    BY <1>1 DEF StepInv, Rows
  <2> QED BY <1>0, <1>1, <2>1, QuietSteps
<1>2. ASSUME NEW d, Dispatch(d) PROVE UNCHANGED <<incident, scan>>
  BY <1>2 DEF Dispatch, RunStart, Skip, Send, Record, store
<1>3. ASSUME NEW p, Handle(p) PROVE StepInv'
  <2>1. UNCHANGED <<incident, scan>> \/ Create(p) \/ Attach(p) \/ AttachChain(p)
    BY <1>3 DEF Handle, Take, Refuse, InsertHeld, Hold, InsertAccepted, Touch, Evict, Claim,
         Suppress, Find, Route, RetryScan, RetryNext, store
  <2>2. CASE Create(p)
    BY <1>0, <2>2, CreateSteps
  <2>3. CASE Attach(p)
    BY <1>0, <2>3, AttachSteps
  <2>4. CASE AttachChain(p)
    BY <1>0, <2>4, AttachChainSteps
  <2> QED BY <1>1, <2>1, <2>2, <2>3, <2>4
<1>4. ASSUME NEW s \in world.scans, Escalate(s) PROVE StepInv'
  BY <1>0, <1>4, ScanStartSteps, ParkSteps, FireStepSteps, FireExhaustedSteps, MarkFiredSteps
     DEF Escalate
<1>5. ASSUME NEW i, Ack(i) \/ Resolve(i) PROVE StepInv'
  BY <1>0, <1>5, AttachSteps
<1>6. ASSUME Time PROVE StepInv'
  <2>1. UNCHANGED <<incident, scan>> \/ \E i \in DOMAIN incident : StepDue(i)
    BY <1>6 DEF Time, Elapse, HoldExpires, BackoffEnds, Refill, store
  <2> QED BY <1>0, <1>1, <2>1, StepDueSteps
<1>7. ASSUME Fault PROVE StepInv'
  <2>1. UNCHANGED <<incident, scan>> \/ Crash
    BY <1>7 DEF Fault, StoreFails, DedupFails, KeysFlip, WindowExpires, store
  <2> QED BY <1>0, <1>1, <2>1, CrashSteps
<1>8. CASE UNCHANGED vars
  BY <1>1, <1>8 DEF vars
<1> QED BY <1>1, <1>2, <1>3, <1>4, <1>5, <1>6, <1>7, <1>8 DEF Next

\* What has been fired of an incident is paid for.
LEMMA FiredIsAllowed ==
  ASSUME StepInv, NEW i \in DOMAIN incident
  PROVE  Len(incident[i].fired) <= Allowed(i)
<1>1. Base /\ Rows /\ Scans /\ Counter(i) /\ (Fresh(i) \/ Fits(i))
  BY DEF StepInv
<1>2. PICK l, u, a, k, b :
        /\ l = Len(incident[i].fired) /\ u = Cardinality(Unfired(i)) /\ a = Allowed(i)
        /\ k = Climb /\ b = Climbed(incident[i].chain)
  OBVIOUS
<1>3. l \in Nat /\ u \in Nat /\ a \in Nat /\ k \in Nat /\ b \in Nat /\ b <= k
  BY <1>1, <1>2, ClimbIs, ScansFinite, AllowedIs, LenProperties DEF Counter
<1>4. CASE Fresh(i)
  <2>1. l = 0
    BY <1>2, <1>4 DEF Fresh
  <2> QED BY <1>2, <1>3, <2>1
<1>5. CASE Fits(i)
  <2>1. Debt(i) = l + u + k - a
    BY <1>2 DEF Debt
  <2>2. Debt(i) <= k
    <3>1. CASE OnIt(i) = {}
      BY <1>2, <1>3, <1>5, <2>1, <3>1 DEF Fits
    <3>2. ASSUME NEW s \in OnIt(i) PROVE Debt(i) <= k
      <4>1. PICK x, y : x = Reach(s, i) /\ y = Debt(i)
        OBVIOUS
      <4>2. x \in Nat /\ x <= k
        BY <1>1, <1>2, <4>1, ReachIs
      <4>3. y <= x
        BY <1>5, <4>1 DEF Fits
      <4> QED BY <1>3, <2>1, <4>1, <4>2, <4>3
    <3> QED BY <3>1, <3>2
  <2>3. l <= a
    BY <1>3, <2>1, <2>2
  <2> QED BY <1>2, <2>3
<1> QED BY <1>1, <1>4, <1>5

(* An escalation step is fired again only because its chain was attached a *)
(* second time, a scan was started over another one, or a crash came       *)
(* between firing and marking (escalation.ts, runDueEscalations).          *)
THEOREM FiredOnce == Spec => []StepsBounded
<1>1. Init => StepInv
  <2> SUFFICES ASSUME Init PROVE StepInv
    OBVIOUS
  <2>1. incident = <<>>
    BY DEF Init
  <2>2. DOMAIN incident = {}
    BY <2>1
  <2>3. /\ DOMAIN IdleScan = ScanFields /\ DOMAIN IdleScan.todo = {} /\ IdleScan.inc = 0
    BY DEF IdleScan, ScanFields
  <2>4. Scans
    BY <2>3 DEF Init, Scans
  <2> QED BY <2>2, <2>4, Starts DEF StepInv
<1>2. StepInv /\ [Next]_vars => StepInv'
  BY StepStep
<1>3. StepInv => StepsBounded
  BY FiredIsAllowed DEF StepsBounded, Allowed, Climb
<1> QED BY <1>1, <1>2, <1>3, PTL DEF Spec

(* Both together: nobody is notified more often than the overlapping       *)
(* passes, the crashes and the racing routers account for (dispatcher.ts,  *)
(* escalation.ts).                                                         *)
THEOREM Bounded == Spec => []NotificationsBounded
<1>1. SendsBounded /\ StepsBounded => NotificationsBounded
  BY DEF NotificationsBounded
<1> QED BY <1>1, SentOnce, FiredOnce, PTL
====
