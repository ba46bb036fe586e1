--------------------------- MODULE DiscoverProofs ---------------------------
(***************************************************************************)
(* What Discover guarantees for every plan, every answer of the sources    *)
(* and every schedule of faults: an ended order stays ended, nothing       *)
(* outside the scope is committed, what is committed is forwarded or its   *)
(* gap audited, recursion keeps the budget of tasks, and a completed order *)
(* has heard of its tasks.                                                 *)
(***************************************************************************)
EXTENDS Discover, FiniteSetTheorems, SequenceTheorems, TLAPS

(* The records are records of their fields, whatever the fields hold. *)
Shape ==
  /\ DOMAIN order = {"state", "total", "done", "failed"}
  /\ DOMAIN submit = {"pc", "todo"}
  /\ DOMAIN reducer = {"pc", "i", "m", "new", "todo", "total", "state"}
  /\ DOMAIN ender = Enders

(* A finding past its scope check is about an asset in scope. *)
Checked ==
  reducer.pc \in {"merge", "ingest", "announce", "expand", "publish"} =>
    Msg.f.asset.value \in world.scope

IInv == Shape /\ Checked /\ OnlyScope

-----------------------------------------------------------------------------
(* The first state: no order, an idle reducer, an empty store. *)
LEMMA InitIInv == Init => IInv
<1> SUFFICES ASSUME Init PROVE IInv  OBVIOUS
<1>1. Shape  BY DEF Init, Shape, Resting
<1>2. reducer.pc = "idle"  BY DEF Init, Resting
<1>3. Checked  BY <1>2 DEF Checked
<1>4. OnlyScope  BY DEF Init, OnlyScope
<1> QED  BY <1>1, <1>3, <1>4 DEF IInv

(* SubmitOrder writes the order and the lane, never the store. *)
LEMMA SubmitIInv == IInv /\ Submit => IInv'
<1> SUFFICES ASSUME IInv, Submit PROVE IInv'  OBVIOUS
<1> USE DEF IInv, Shape, Checked, OnlyScope, Submitted, database, Msg
<1>1. CASE SubmitFails  BY <1>1 DEF SubmitFails, Spend
<1>2. CASE InsertOrder  BY <1>2 DEF InsertOrder
<1>3. CASE SetTotal  BY <1>3 DEF SetTotal
<1>4. CASE SetRunning  BY <1>4 DEF SetRunning
<1>5. CASE Dispatch  BY <1>5 DEF Dispatch
<1>6. CASE SubmitReturns  BY <1>6 DEF SubmitReturns
<1> QED  BY <1>1, <1>2, <1>3, <1>4, <1>5, <1>6 DEF Submit

(* Cancel, revocation and sweep write the order alone. *)
LEMMA EndIInv == IInv /\ End => IInv'
<1> SUFFICES ASSUME IInv, End PROVE IInv'  OBVIOUS
<1> USE DEF IInv, Shape, Checked, OnlyScope, Ending, database, Msg
<1>1. CASE Cancel  BY <1>1 DEF Cancel
<1>2. CASE HandleRevocation  BY <1>2 DEF HandleRevocation
<1>3. CASE SweepOnce  BY <1>3 DEF SweepOnce
<1>4. CASE \E e \in Enders : SetEnded(e)  BY <1>4 DEF SetEnded
<1>5. CASE \E e \in Enders : SetEndedFails(e)  BY <1>5 DEF SetEndedFails
<1> QED  BY <1>1, <1>2, <1>3, <1>4, <1>5 DEF End

(* A worker touches neither the order, nor the reducer, nor the store. *)
LEMMA WorkFrame == Work => UNCHANGED <<world, order, submit, ender, reducer, assets, dp>>
  BY DEF Work, Working, database, Fetch, CheckFails, Check, Emit, ConnectorFails, Report,
         AckTask, WorkerCrash, TaskExpires

(* The reducer commits what it has checked. *)
LEMMA ReduceIInv == IInv /\ Reduce => IInv'
<1> SUFFICES ASSUME IInv, Reduce PROVE IInv'  OBVIOUS
<1> USE DEF IInv, Shape, Checked, OnlyScope, Reducing, database, Msg, Go, Resting, NoMsg, Finish
<1>1. CASE \E i \in DOMAIN results : Take(i)  BY <1>1 DEF Take
<1>2. CASE \E i \in DOMAIN results : ResultExpires(i)  BY <1>2 DEF ResultExpires
<1>3. CASE Count  BY <1>3 DEF Count
<1>4. CASE Judge  BY <1>4 DEF Judge
<1>5. CASE Close  BY <1>5 DEF Close
<1>6. CASE Scope  BY <1>6 DEF Scope
<1>7. CASE Merge  BY <1>7 DEF Merge
<1>8. CASE Ingest  BY <1>8 DEF Ingest
<1>9. CASE Announce  BY <1>9 DEF Announce
<1>10. CASE Expand  BY <1>10 DEF Expand
<1>11. CASE PublishExpanded  BY <1>11 DEF PublishExpanded
<1>12. CASE SetExpandedTotal  BY <1>12 DEF SetExpandedTotal
<1>13. CASE Ack  BY <1>13 DEF Ack
<1>14. CASE RetryMessage  BY <1>14 DEF RetryMessage
<1>15. CASE RecordGap  BY <1>15 DEF RecordGap
<1>16. CASE ExpandFails  BY <1>16 DEF ExpandFails
<1> QED
  BY <1>1, <1>2, <1>3, <1>4, <1>5, <1>6, <1>7, <1>8, <1>9, <1>10, <1>11, <1>12, <1>13,
     <1>14, <1>15, <1>16 DEF Reduce, Process

(* Every step keeps the invariant. *)
LEMMA NextIInv == IInv /\ [Next]_vars => IInv'
<1> SUFFICES ASSUME IInv, [Next]_vars PROVE IInv'  OBVIOUS
<1>1. CASE Submit  BY <1>1, SubmitIInv
<1>2. CASE End  BY <1>2, EndIInv
<1>3. CASE Work  BY <1>3, WorkFrame DEF IInv, Shape, Checked, OnlyScope, Msg
<1>4. CASE Reduce  BY <1>4, ReduceIInv
<1>5. CASE BudgetElapses  BY <1>5 DEF BudgetElapses, IInv, Shape, Checked, OnlyScope, Msg, database
<1>6. CASE Crash
  BY <1>6 DEF Crash, IInv, Shape, Checked, OnlyScope, Msg, database, Resting, NoMsg
<1>7. CASE UNCHANGED vars
  BY <1>7 DEF vars, IInv, Shape, Checked, OnlyScope, Msg
<1> QED  BY <1>1, <1>2, <1>3, <1>4, <1>5, <1>6, <1>7 DEF Next

(* The invariant holds in every behaviour. *)
LEMMA Invariance == Spec => []IInv
  BY InitIInv, NextIInv, PTL DEF Spec

(* Nothing outside the RoE's scope enters the working store or the data    *)
(* platform, neither a finding nor an endpoint of an edge (processFinding, *)
(* scopeViolation).                                                        *)
THEOREM ScopeHolds == Spec => []OnlyScope
  BY Invariance, PTL DEF IInv
-----------------------------------------------------------------------------
(* No step leaves Quiet: SubmitOrder is over, nobody may arm an end of an  *)
(* ended order, and the reducer drops what it takes.                       *)
Kept == Quiet' /\ order'.state = order.state /\ assets' = assets /\ DOMAIN lane' = DOMAIN lane

LEMMA QuietSubmit == Quiet => ~ Submit
  BY DEF Quiet, Submit, SubmitFails, InsertOrder, SetTotal, SetRunning, Dispatch, SubmitReturns

(* An ended order is endable by nobody, so only a revocation is noted. *)
LEMMA QuietEnd == IInv /\ Quiet /\ End => Kept
<1> SUFFICES ASSUME IInv, Quiet, End PROVE Kept  OBVIOUS
<1>1. \A e \in Enders : ~ Endable(e) /\ ender[e] = "idle"
  BY DEF Quiet, Ended, Enders, Endable
<1>2. CASE HandleRevocation
  <2>1. \A e \in Enders : ender'[e] = "idle"
    BY <1>1, <1>2 DEF HandleRevocation, Enders, IInv, Shape
  <2> QED  BY <1>2, <2>1 DEF HandleRevocation, Ending, database, Quiet, Kept
<1> QED
  BY <1>1, <1>2 DEF End, Cancel, SweepOnce, SetEnded, SetEndedFails, Enders

(* Workers settle messages, they publish no task. *)
LEMMA WorkLane == Work => DOMAIN lane' = DOMAIN lane
  BY DEF Work, Fetch, CheckFails, Check, Emit, ConnectorFails, Report, AckTask, WorkerCrash,
         TaskExpires, Settle

(* Late markers are counted and late findings dropped. *)
LEMMA QuietReduce == IInv /\ Quiet /\ Reduce => Kept
<1> SUFFICES ASSUME IInv, Quiet, Reduce PROVE Kept  OBVIOUS
<1> USE DEF IInv, Shape, Quiet, Ended, Kept, Reducing, database, Go, Resting, Finish
<1>1. CASE \E i \in DOMAIN results : Take(i)  BY <1>1 DEF Take
<1>2. CASE \E i \in DOMAIN results : ResultExpires(i)  BY <1>2 DEF ResultExpires
<1>3. CASE Count  BY <1>3 DEF Count
<1>4. CASE Judge  BY <1>4 DEF Judge
<1>5. CASE Scope  BY <1>5 DEF Scope
<1>6. CASE Ack  BY <1>6 DEF Ack
<1>7. CASE RetryMessage  BY <1>7 DEF RetryMessage
<1>8. CASE Close \/ Merge \/ Ingest \/ Announce \/ Expand \/ PublishExpanded
             \/ SetExpandedTotal \/ RecordGap \/ ExpandFails
  BY <1>8 DEF Close, Merge, Ingest, Announce, Expand, PublishExpanded, SetExpandedTotal,
              RecordGap, ExpandFails
<1> QED
  BY <1>1, <1>2, <1>3, <1>4, <1>5, <1>6, <1>7, <1>8 DEF Reduce, Process

(* Every step from a quiet state keeps the order's end, store and tasks. *)
LEMMA QuietNext == IInv /\ [Next]_vars => (Quiet => Kept)
<1> SUFFICES ASSUME IInv, [Next]_vars, Quiet PROVE Kept  OBVIOUS
<1>1. CASE Submit  BY <1>1, QuietSubmit
<1>2. CASE End  BY <1>2, QuietEnd
<1>3. CASE Work  BY <1>3, WorkFrame, WorkLane DEF Quiet, Kept
<1>4. CASE Reduce  BY <1>4, QuietReduce
<1>5. CASE BudgetElapses  BY <1>5 DEF BudgetElapses, Quiet, Kept, database
<1>6. CASE Crash  BY <1>6 DEF Crash, IInv, Shape, Quiet, Kept, database, Resting
<1>7. CASE UNCHANGED vars  BY <1>7 DEF vars, Quiet, Kept
<1> QED  BY <1>1, <1>2, <1>3, <1>4, <1>5, <1>6, <1>7 DEF Next

(* An ended order stays ended, with the assets and the tasks it has, once  *)
(* the calls that were about to write it are over (processDone,            *)
(* processFinding, Cancel, HandleRevocation, SweepOnce).                   *)
THEOREM EndIsFinal == Spec => EndedStaysEnded
<1>1. IInv /\ [Next]_vars => [Quiet => Kept]_vars  BY QuietNext
<1> QED  BY <1>1, Invariance, PTL DEF Spec, EndedStaysEnded, Kept
-----------------------------------------------------------------------------
(* Commit before forward: what the store has and the data platform not.    *)

(* The entries of discover.results, over some set of messages. *)
Entry(S) == [m : S, st : {"new", "held", "wait", "acked", "dead"}, n : Nat]
Stream   == \E S : results \in Seq(Entry(S))

(* Until the order runs there is nothing to work on. *)
Idle ==
  /\ DOMAIN lane = {} /\ results = <<>> /\ reducer.pc = "idle"
  /\ \A w \in Worker : worker[w].pc = "idle"

Early == submit.pc \in {"new", "plan", "run"} => Idle

(* The reducer works on an entry of the stream; it closes no order as      *)
(* RUNNING.                                                                *)
Link ==
  reducer.pc # "idle" =>
    /\ reducer.i \in DOMAIN results /\ reducer.m = results[reducer.i].m
    /\ reducer.pc \in {"count", "judge", "close"} => Msg.kind # "finding"
    /\ reducer.pc = "close" => reducer.state # "RUNNING"

(* An asset in scope that a running order is done with is forwarded, or    *)
(* its absence audited.                                                    *)
Forwarded(a) == order.state = "RUNNING" /\ a.value \in world.scope => a \in dp \cup gaps

SettledOnes ==
  \A i \in DOMAIN results : results[i].st = "acked" /\ results[i].m.kind = "finding" =>
    Forwarded(results[i].m.f.asset)

SettledForwarded ==
  /\ reducer.pc \in {"announce", "expand", "publish", "ack"} /\ Msg.kind = "finding" =>
       Forwarded(Msg.f.asset)
  /\ SettledOnes

GInv == Stream /\ Early /\ Link /\ SettledForwarded

-----------------------------------------------------------------------------
(* What a step does to the stream: entries keep their message, and only    *)
(* the reducer acknowledges, the one it works on.                          *)
StreamStep ==
  /\ Stream'
  /\ DOMAIN results \subseteq DOMAIN results'
  /\ \A i \in DOMAIN results : results'[i].m = results[i].m
  /\ \A i \in DOMAIN results' : results'[i].st = "acked" =>
       i \in DOMAIN results /\ (results[i].st = "acked" \/ (reducer.pc = "ack" /\ i = reducer.i))

(* Replacing an element of a sequence. *)
LEMMA PatchSeq ==
    ASSUME NEW T, NEW s \in Seq(T), NEW i \in DOMAIN s, NEW e \in T,
           NEW r, r = [s EXCEPT ![i] = e]
    PROVE  /\ r \in Seq(T)
           /\ DOMAIN r = DOMAIN s
           /\ \A j \in DOMAIN s : r[j] = IF j = i THEN e ELSE s[j]
<1>1. i \in 1..Len(s)
  BY LenProperties
<1> QED BY <1>1, ExceptSeq

(* A step that leaves the stream alone. *)
LEMMA StreamSame == ASSUME Stream, UNCHANGED results PROVE StreamStep
  BY DEF Stream, StreamStep

(* Storing a message puts a new entry at the end. *)
LEMMA StreamStored == ASSUME Stream, NEW m, Stored(m) PROVE StreamStep
<1> PICK S : results \in Seq(Entry(S))
  BY DEF Stream
<1> DEFINE e == [m |-> m, st |-> "new", n |-> 0]
<1> DEFINE T == Entry(S \cup {m})
<1>0. Entry(S) \subseteq T /\ e \in T
  BY DEF Entry
<1>2. e.st = "new"
  OBVIOUS
<1> HIDE DEF T, e
<1>1. results \in Seq(T) /\ e \in T
  BY <1>0, SeqMonotonic
<1>3. results' = Append(results, e)
  BY DEF Stored, e
<1>4. results' \in Seq(T) /\ Len(results') = Len(results) + 1 /\ Len(results) \in Nat
  BY <1>1, <1>3
<1>5. \A i \in 1..Len(results) : results'[i] = results[i]
  BY <1>1, <1>3
<1>6. results'[Len(results) + 1] = e
  BY <1>1, <1>3
<1>7. DOMAIN results = 1..Len(results) /\ DOMAIN results' = 1..(Len(results) + 1)
  BY <1>1, <1>4
<1>8. Stream'
  BY <1>4 DEF Stream, T
<1> QED BY <1>2, <1>4, <1>5, <1>6, <1>7, <1>8 DEF StreamStep

(* Settling changes the status of one entry. *)
LEMMA StreamSettled ==
    ASSUME Stream, NEW i \in DOMAIN results, NEW st \in {"held", "wait", "acked", "dead"},
           NEW n \in Nat, NEW e, e = [results[i] EXCEPT !.st = st, !.n = n],
           results' = [results EXCEPT ![i] = e],
           st = "acked" => reducer.pc = "ack" /\ i = reducer.i
    PROVE  StreamStep
<1> PICK S : results \in Seq(Entry(S))
  BY DEF Stream
<1>a. results[i] \in Entry(S)
  <2>1. i \in 1..Len(results)
    BY LenProperties
  <2> QED BY <2>1, ElementOfSeq
<1>b. e \in Entry(S) /\ e.m = results[i].m /\ e.st = st
  BY <1>a DEF Entry
<1>1. results' \in Seq(Entry(S))
  BY <1>b, PatchSeq
<1>2. DOMAIN results' = DOMAIN results
      /\ \A j \in DOMAIN results : results'[j] = IF j = i THEN e ELSE results[j]
  OBVIOUS
<1> QED BY <1>b, <1>1, <1>2 DEF StreamStep, Stream

(* SubmitOrder, the ends of an order and the environment publish no result. *)
LEMMA OtherStream ==
    Stream /\ (Submit \/ End \/ BudgetElapses \/ Crash \/ UNCHANGED vars) => StreamStep
  BY StreamSame
  DEF Submit, SubmitFails, InsertOrder, SetTotal, SetRunning, Dispatch, SubmitReturns, Submitted,
      End, Cancel, HandleRevocation, SweepOnce, SetEnded, SetEndedFails, Ending,
      BudgetElapses, Crash, vars

(* Workers store findings and done markers. *)
LEMMA WorkStream == Stream /\ Work => StreamStep
<1> SUFFICES ASSUME Stream, Work PROVE StreamStep  OBVIOUS
<1>1. ASSUME NEW m, PublishResult(m) PROVE StreamStep
  BY <1>1, StreamSame, StreamStored DEF PublishResult
<1>2. CASE \E w \in Worker : Emit(w) \/ Report(w)
  BY <1>1, <1>2, StreamSame DEF Emit, Report
<1>3. CASE ~ \E w \in Worker : Emit(w) \/ Report(w)
  BY <1>3, StreamSame
  DEF Work, Fetch, CheckFails, Check, ConnectorFails, AckTask, WorkerCrash, TaskExpires
<1> QED BY <1>2, <1>3

(* The reducer settles the entry it works on. *)
LEMMA ReduceStream == Stream /\ Link /\ Reduce => StreamStep
<1> SUFFICES ASSUME Stream, Link, Reduce PROVE StreamStep  OBVIOUS
<1>e. \A i \in DOMAIN results :
        results[i] = [m |-> results[i].m, st |-> results[i].st, n |-> results[i].n]
        /\ results[i].n \in Nat
  <2> PICK S : results \in Seq(Entry(S))
    BY DEF Stream
  <2>1. \A i \in DOMAIN results : results[i] \in Entry(S)
    BY LenProperties, ElementOfSeq
  <2> QED BY <2>1 DEF Entry
<1>f. ASSUME NEW i \in DOMAIN results, NEW st \in {"held", "wait", "acked", "dead"},
             results' = [results EXCEPT ![i].st = st],
             st = "acked" => reducer.pc = "ack" /\ i = reducer.i
      PROVE  StreamStep
  <2> DEFINE e == [results[i] EXCEPT !.st = st, !.n = results[i].n]
  <2>1. [results[i] EXCEPT !.st = st] = e /\ results[i].n \in Nat
    BY <1>e
  <2>2. results' = [results EXCEPT ![i] = e]
    BY <1>f, <2>1
  <2>3. st = "acked" => reducer.pc = "ack" /\ i = reducer.i
    BY <1>f
  <2> QED BY <2>1, <2>2, <2>3, StreamSettled
<1>1. ASSUME NEW i \in DOMAIN results, Take(i) PROVE StreamStep
  <2> DEFINE e == [results[i] EXCEPT !.st = "held", !.n = results[i].n + 1]
  <2>1. results' = [results EXCEPT ![i] = e]
    BY <1>1, <1>e DEF Take
  <2>2. results[i].n + 1 \in Nat
    BY <1>e
  <2> QED BY <2>1, <2>2, StreamSettled
<1>2. ASSUME NEW i \in DOMAIN results, ResultExpires(i) PROVE StreamStep
  BY <1>2, <1>f DEF ResultExpires, Waiting
<1>3. CASE Ack
  BY <1>3, <1>f DEF Ack, Finish, Link
<1>4. CASE RetryMessage
  BY <1>4, <1>f DEF RetryMessage, Finish, Link, Waiting
<1>5. CASE Count \/ Judge \/ Close \/ Scope \/ Merge \/ Ingest \/ Announce \/ Expand
             \/ PublishExpanded \/ SetExpandedTotal \/ RecordGap \/ ExpandFails
  <2>1. CASE Count  BY <2>1, StreamSame DEF Count
  <2>2. CASE Judge  BY <2>2, StreamSame DEF Judge
  <2>3. CASE Close  BY <2>3, StreamSame DEF Close
  <2>4. CASE Scope  BY <2>4, StreamSame DEF Scope
  <2>5. CASE Merge  BY <2>5, StreamSame DEF Merge
  <2>6. CASE Ingest  BY <2>6, StreamSame DEF Ingest
  <2>7. CASE Announce  BY <2>7, StreamSame DEF Announce
  <2>8. CASE Expand  BY <2>8, StreamSame DEF Expand
  <2>9. CASE PublishExpanded  BY <2>9, StreamSame DEF PublishExpanded
  <2>10. CASE SetExpandedTotal  BY <2>10, StreamSame DEF SetExpandedTotal
  <2>11. CASE RecordGap  BY <2>11, StreamSame DEF RecordGap
  <2>12. CASE ExpandFails  BY <2>12, StreamSame DEF ExpandFails
  <2> QED BY <1>5, <2>1, <2>2, <2>3, <2>4, <2>5, <2>6, <2>7, <2>8, <2>9, <2>10, <2>11, <2>12
<1> QED BY <1>1, <1>2, <1>3, <1>4, <1>5 DEF Reduce, Process

-----------------------------------------------------------------------------
(* What is settled stays forwarded, as long as nothing is forgotten and    *)
(* nothing reopens the order.                                              *)
LEMMA SettledStays ==
    ASSUME StreamStep, Link, SettledForwarded, world' = world, dp \subseteq dp', gaps \subseteq gaps',
           order'.state = "RUNNING" => order.state = "RUNNING"
    PROVE  (\A a : Forwarded(a) => Forwarded(a)') /\ SettledOnes'
<1>1. \A a : Forwarded(a) => Forwarded(a)'
  BY DEF Forwarded
<1>2. ASSUME NEW i \in DOMAIN results', results'[i].st = "acked", results'[i].m.kind = "finding"
      PROVE  Forwarded(results[i].m.f.asset) /\ results'[i].m = results[i].m
  <2>1. i \in DOMAIN results /\ results'[i].m = results[i].m
    BY <1>2 DEF StreamStep
  <2>2. CASE results[i].st = "acked"
    BY <1>2, <2>1, <2>2 DEF SettledForwarded, SettledOnes
  <2>3. CASE reducer.pc = "ack" /\ i = reducer.i
    BY <1>2, <2>1, <2>3 DEF SettledForwarded, Link, Msg
  <2> QED BY <1>2, <2>2, <2>3 DEF StreamStep
<1>3. ASSUME NEW i \in DOMAIN results', results'[i].st = "acked", results'[i].m.kind = "finding"
      PROVE  (results'[i].m.f.asset \in dp' \cup gaps')
             \/ ~ (order'.state = "RUNNING" /\ results'[i].m.f.asset.value \in world'.scope)
  BY <1>2, <1>3 DEF Forwarded
<1> QED BY <1>1, <1>3 DEF SettledOnes, Forwarded

(* With nothing published nobody has work. *)
LEMMA IdleRests == Idle => ~ Work /\ ~ Reduce
<1> SUFFICES ASSUME Idle PROVE ~ Work /\ ~ Reduce  OBVIOUS
<1>1. DOMAIN results = {} /\ DOMAIN lane = {} /\ reducer.pc = "idle"
      /\ \A w \in Worker : worker[w].pc = "idle"
  BY DEF Idle
<1>2. ~ Work
  BY <1>1 DEF Work, Fetch, CheckFails, Check, Emit, ConnectorFails, Report, AckTask, WorkerCrash
<1>3. ~ Reduce
  BY <1>1 DEF Reduce, Process, Count, Judge, Close, Scope, Merge, Ingest, Announce, Expand,
              PublishExpanded, SetExpandedTotal, Ack, RetryMessage, RecordGap, ExpandFails
<1> QED BY <1>2, <1>3

(* Before the order runs neither a worker nor the reducer has work. *)
LEMMA EarlyRests ==
    ASSUME Early, submit.pc \in {"new", "plan", "run"}
    PROVE  ~ Work /\ ~ Reduce
  BY IdleRests DEF Early

LEMMA SubmitGInv == IInv /\ GInv /\ Submit => GInv'
<1> SUFFICES ASSUME IInv, GInv, Submit PROVE GInv'  OBVIOUS
<1>0. UNCHANGED <<world, results, reducer, worker, dp, gaps>>
  BY DEF Submit, SubmitFails, InsertOrder, SetTotal, SetRunning, Dispatch, SubmitReturns, Submitted,
         database
<1>1. StreamStep
  BY OtherStream DEF GInv
<1>2. Early'
  BY <1>0 DEF GInv, Early, Idle, IInv, Shape, Submit, SubmitFails, InsertOrder, SetTotal, SetRunning,
              Dispatch, SubmitReturns
<1>3. Link'
  BY <1>0 DEF GInv, Link, Msg
<1>4. SettledForwarded'
  <2>1. CASE SetRunning
    BY <1>0, <2>1 DEF SetRunning, GInv, Early, Idle, SettledForwarded, SettledOnes
  <2>2. CASE ~ SetRunning
    <3>1. order'.state = "RUNNING" => order.state = "RUNNING"
      BY <2>2 DEF Submit, SubmitFails, InsertOrder, SetTotal, Dispatch, SubmitReturns, IInv, Shape
    <3> QED BY <1>0, <1>1, <3>1, SettledStays DEF GInv, SettledForwarded, Msg
  <2> QED BY <2>1, <2>2
<1> QED BY <1>1, <1>2, <1>3, <1>4 DEF GInv, StreamStep

LEMMA EndGInv == IInv /\ GInv /\ (End \/ BudgetElapses) => GInv'
<1> SUFFICES ASSUME IInv, GInv, End \/ BudgetElapses PROVE GInv'  OBVIOUS
<1>0. UNCHANGED <<world, submit, lane, results, reducer, worker, dp, gaps>>
  BY DEF End, Cancel, HandleRevocation, SweepOnce, SetEnded, SetEndedFails, Ending, BudgetElapses,
         database
<1>1. StreamStep
  BY OtherStream DEF GInv
<1>2. Early' /\ Link'
  BY <1>0 DEF GInv, Early, Idle, Link, Msg
<1>3. order'.state = "RUNNING" => order.state = "RUNNING"
  BY DEF End, Cancel, HandleRevocation, SweepOnce, SetEnded, SetEndedFails, BudgetElapses, IInv, Shape
<1>4. SettledForwarded'
  BY <1>0, <1>1, <1>3, SettledStays DEF GInv, SettledForwarded, Msg
<1> QED BY <1>1, <1>2, <1>4 DEF GInv, StreamStep

LEMMA WorkGInv == IInv /\ GInv /\ Work => GInv'
<1> SUFFICES ASSUME IInv, GInv, Work PROVE GInv'  OBVIOUS
<1>0. UNCHANGED <<world, order, submit, reducer, dp, gaps>>
  BY DEF Work, Working, database, Fetch, CheckFails, Check, Emit, ConnectorFails, Report,
         AckTask, WorkerCrash, TaskExpires
<1>1. StreamStep
  BY WorkStream DEF GInv
<1>2. Early'
  BY <1>0, EarlyRests DEF GInv, Early, Idle
<1>3. Link'
  BY <1>0, <1>1 DEF GInv, Link, Msg, StreamStep
<1>4. SettledForwarded'
  BY <1>0, <1>1, SettledStays DEF GInv, SettledForwarded, Msg
<1> QED BY <1>1, <1>2, <1>3, <1>4 DEF GInv, StreamStep

(* The reducer: a batch applied or audited leads to the acknowledgement. *)
LEMMA ReduceGInv == IInv /\ GInv /\ Reduce => GInv'
<1> SUFFICES ASSUME IInv, GInv, Reduce PROVE GInv'  OBVIOUS
<1>0. UNCHANGED <<world, submit, worker>> /\ dp \subseteq dp' /\ gaps \subseteq gaps'
  BY DEF Reduce, Process, Take, ResultExpires, Count, Judge, Close, Scope, Merge, Ingest, Announce,
         Expand, PublishExpanded, SetExpandedTotal, Ack, RetryMessage, RecordGap, ExpandFails,
         Reducing, database
<1>1. StreamStep
  BY ReduceStream DEF GInv
<1>2. Early'
  BY <1>0, EarlyRests DEF GInv, Early, Idle
<1>3. order'.state = "RUNNING" => order.state = "RUNNING"
  BY DEF Reduce, Process, Take, ResultExpires, Count, Judge, Close, Scope, Merge, Ingest, Announce,
         Expand, PublishExpanded, SetExpandedTotal, Ack, RetryMessage, RecordGap, ExpandFails,
         IInv, Shape, GInv, Link
<1>4. \A i \in DOMAIN results : results'[i].m = results[i].m /\ i \in DOMAIN results'
  BY <1>1 DEF StreamStep
<1>5. (\A a : Forwarded(a) => Forwarded(a)') /\ SettledOnes'
  BY <1>0, <1>1, <1>3, SettledStays DEF GInv
<1> USE DEF IInv, Shape, GInv, Link, Msg, Go
<1>6. Link'
  <2>1. CASE reducer' = Resting \/ reducer' = reducer
    <3>1. CASE reducer' = Resting
      BY <3>1 DEF Resting
    <3>2. CASE reducer' = reducer
      BY <1>4, <3>2
    <3> QED BY <2>1, <3>1, <3>2
  <2>2. ASSUME NEW i \in DOMAIN results, Take(i) PROVE Link'
    BY <1>4, <2>2 DEF Take, Resting
  <2>3. CASE Judge
    BY <1>4, <2>3 DEF Judge
  <2>4. CASE Count \/ Close \/ Scope \/ Merge \/ Ingest \/ Announce \/ Expand
             \/ PublishExpanded \/ SetExpandedTotal \/ RecordGap \/ ExpandFails
    <3>1. CASE Count  BY <1>4, <3>1 DEF Count
    <3>2. CASE Close  BY <1>4, <3>2 DEF Close
    <3>3. CASE Scope  BY <1>4, <3>3 DEF Scope
    <3>4. CASE Merge  BY <1>4, <3>4 DEF Merge
    <3>5. CASE Ingest  BY <1>4, <3>5 DEF Ingest
    <3>6. CASE Announce  BY <1>4, <3>6 DEF Announce
    <3>7. CASE Expand  BY <1>4, <3>7 DEF Expand
    <3>8. CASE PublishExpanded  BY <1>4, <3>8 DEF PublishExpanded
    <3>9. CASE SetExpandedTotal  BY <1>4, <3>9 DEF SetExpandedTotal
    <3>10. CASE RecordGap  BY <1>4, <3>10 DEF RecordGap
    <3>11. CASE ExpandFails  BY <1>4, <3>11 DEF ExpandFails
    <3> QED BY <2>4, <3>1, <3>2, <3>3, <3>4, <3>5, <3>6, <3>7, <3>8, <3>9, <3>10, <3>11
  <2> QED
    BY <2>1, <2>2, <2>3, <2>4 DEF Reduce, Process, ResultExpires, Ack, RetryMessage, Finish
<1>7. reducer'.pc \in {"announce", "expand", "publish", "ack"} /\ Msg'.kind = "finding" =>
        Forwarded(Msg.f.asset)' /\ Msg' = Msg
  <2> USE DEF SettledForwarded
  <2>1. CASE reducer' = Resting \/ reducer' = reducer
    <3>1. CASE reducer' = Resting
      BY <3>1 DEF Resting
    <3>2. CASE reducer' = reducer
      BY <1>5, <3>2
    <3> QED BY <2>1, <3>1, <3>2
  <2>2. CASE \E i \in DOMAIN results : Take(i)
    BY <2>2 DEF Take, Resting
  <2>3. CASE Count \/ Judge \/ Close \/ Merge
    BY <2>3 DEF Count, Judge, Close, Merge
  <2>4. CASE Scope
    <3>1. Forwarded(Msg.f.asset) \/ reducer'.pc = "merge"
      BY <2>4 DEF Scope, Forwarded
    <3> QED BY <1>5, <2>4, <3>1 DEF Scope
  <2>5. CASE Ingest \/ RecordGap
    BY <2>5 DEF Ingest, RecordGap, Forwarded
  <2>6. CASE Announce \/ Expand \/ PublishExpanded \/ SetExpandedTotal \/ ExpandFails
    BY <1>5, <2>6 DEF Announce, Expand, PublishExpanded, SetExpandedTotal, ExpandFails
  <2> QED
    BY <2>1, <2>2, <2>3, <2>4, <2>5, <2>6
    DEF Reduce, Process, ResultExpires, Ack, RetryMessage, Finish
<1>8. SettledForwarded'
  BY <1>5, <1>7 DEF SettledForwarded
<1> QED BY <1>1, <1>2, <1>6, <1>8 DEF StreamStep

(* The orchestrator stops: what it held is redelivered later. *)
LEMMA CrashGInv == IInv /\ GInv /\ Crash => GInv'
<1> SUFFICES ASSUME IInv, GInv, Crash PROVE GInv'  OBVIOUS
<1>1. StreamStep
  BY OtherStream DEF GInv
<1>2. /\ UNCHANGED <<world, order, lane, worker, results, dp, gaps>> /\ reducer' = Resting
      /\ submit'.pc \in {"new", "plan", "run"} => submit' = submit
  BY DEF Crash, database, IInv, Shape
<1>3. Early' /\ Link'
  BY <1>2 DEF GInv, Early, Idle, Link, Msg, Resting
<1>4. SettledForwarded'
  BY <1>1, <1>2, SettledStays DEF GInv, SettledForwarded, Msg, Resting
<1> QED BY <1>1, <1>3, <1>4 DEF GInv, StreamStep

(* Every step keeps it. *)
LEMMA NextGInv == IInv /\ GInv /\ [Next]_vars => GInv'
<1> SUFFICES ASSUME IInv, GInv, [Next]_vars PROVE GInv'  OBVIOUS
<1>1. CASE UNCHANGED vars
  BY <1>1 DEF vars, GInv, Stream, Early, Idle, Link, SettledForwarded, SettledOnes, Forwarded, Msg
<1> QED BY <1>1, SubmitGInv, EndGInv, WorkGInv, ReduceGInv, CrashGInv DEF Next

(* An empty stream, an idle reducer. *)
LEMMA InitGInv == Init => GInv
<1> SUFFICES ASSUME Init PROVE GInv  OBVIOUS
<1>1. Stream
  <2>1. <<>> \in Seq(Entry({}))
    OBVIOUS
  <2> QED BY <2>1 DEF Init, Stream
<1>2. DOMAIN lane = {} /\ DOMAIN results = {} /\ results = <<>>
  BY DEF Init
<1>3. reducer.pc = "idle"
  BY DEF Init, Resting
<1>4. \A w \in Worker : worker[w].pc = "idle"
  BY DEF Init, Free
<1> QED BY <1>1, <1>2, <1>3, <1>4 DEF GInv, Early, Idle, Link, SettledForwarded, SettledOnes

(* While the order runs, a finding that was committed and settled is in    *)
(* the data platform or its absence is audited, however often the call     *)
(* fails, the batch is applied without an answer, or the reducer stops     *)
(* (processFinding's retries).                                             *)
THEOREM GapsRecorded == Spec => []GapIsRecorded
<1>1. IInv /\ GInv => GapIsRecorded
  BY DEF IInv, OnlyScope, GInv, SettledForwarded, SettledOnes, Forwarded, GapIsRecorded
<1> QED BY InitIInv, InitGInv, NextIInv, NextGInv, <1>1, PTL DEF Spec
-----------------------------------------------------------------------------
(* The budget of tasks.                                                    *)

Share == Cardinality(world.sources)

(* The tasks published and the ones a call is about to publish. *)
Expanding == IF reducer.pc = "publish" THEN Expansion(Msg.f.asset) ELSE {}
Owed      == DOMAIN lane \cup submit.todo \cup Expanding
Raising   == Cardinality(Expanding)

(* The scenario bounds what the environment did. *)
Bounded ==
  /\ world \in Scenario
  /\ left \in [Chances -> Nat]
  /\ \A k \in Chances : left[k] <= world.left[k]

(* The total counts what is owed, but for the expansions that were given   *)
(* up after some of their tasks were published.                            *)
Room ==
  /\ IsFiniteSet(Owed)
  /\ order.total \in Nat
  /\ Cardinality(Owed) <= order.total + Raising + Disturbances * Share

Planned ==
  /\ submit.pc \in {"new", "plan"} => submit.todo = {}
  /\ order.total <= Cardinality(Plan) \/ order.total <= world.maxTasks
  /\ reducer.pc = "publish" =>
       /\ reducer.todo \subseteq Expanding
       /\ reducer.total = order.total + Raising
       /\ reducer.total <= world.maxTasks

BInv == Bounded /\ Room /\ Planned

-----------------------------------------------------------------------------
(* An expansion has at most a task per source. *)
LEMMA ExpansionSize ==
    ASSUME Bounded, NEW a
    PROVE  /\ Share \in Nat
           /\ IsFiniteSet(Expansion(a)) /\ Cardinality(Expansion(a)) \in 0..Share
<1>1. IsFiniteSet(world.sources)
  BY ScenarioBounds DEF Bounded
<1>2. Share \in Nat
  BY <1>1, FS_CardinalityType DEF Share
<1>3. CASE a.value \notin world.scope
  <2>1. Expansion(a) = {}
    BY <1>3 DEF Expansion
  <2>2. IsFiniteSet({}) /\ Cardinality({}) = 0
    BY FS_EmptySet
  <2> QED BY <1>2, <2>1, <2>2
<1>4. CASE a.value \in world.scope
  <2> DEFINE E == {Task(a.value, c, a.type) : c \in world.sources}
             f == [c \in world.sources |-> Task(a.value, c, a.type)]
  <2>1. f \in Surjection(world.sources, E)
    BY DEF Surjection
  <2>2. Expansion(a) = E
    BY <1>4 DEF Expansion
  <2> HIDE DEF E, f
  <2>3. IsFiniteSet(E) /\ Cardinality(E) <= Share
    BY <1>1, <2>1, FS_Surjection DEF Share
  <2>4. Cardinality(E) \in Nat
    BY <2>3, FS_CardinalityType
  <2> QED BY <1>2, <2>2, <2>3, <2>4
<1> QED BY <1>3, <1>4

(* What is being expanded is counted by a number. *)
LEMMA RaisingType == Bounded => Raising \in Nat /\ Raising <= Share /\ Share \in Nat
<1>1. Bounded => \A a : Cardinality(Expansion(a)) \in 0..Share /\ Share \in Nat
  BY ExpansionSize
<1>2. Cardinality({}) = 0
  BY FS_EmptySet
<1> QED BY <1>1, <1>2 DEF Raising, Expanding

(* The plan is finite. *)
LEMMA PlanFinite == ASSUME Bounded PROVE IsFiniteSet(Plan) /\ Cardinality(Plan) \in Nat
<1> DEFINE A == world.seeds \cap world.scope
           f == [p \in A \X world.sources |-> Task(p[1], p[2], "plan")]
<1>1. IsFiniteSet(world.seeds) /\ IsFiniteSet(world.sources)
  BY ScenarioBounds DEF Bounded
<1>2. IsFiniteSet(A)
  BY <1>1, FS_Intersection
<1>3. f \in Surjection(A \X world.sources, Plan)
  <2>1. f \in [A \X world.sources -> Plan]
    BY DEF Plan
  <2>2. ASSUME NEW t \in Plan PROVE \E p \in A \X world.sources : f[p] = t
    <3> PICK u \in A, c \in world.sources : t = Task(u, c, "plan")
      BY DEF Plan
    <3>1. <<u, c>> \in A \X world.sources /\ f[<<u, c>>] = t
      OBVIOUS
    <3> QED BY <3>1
  <2> QED BY <2>1, <2>2 DEF Surjection
<1> HIDE DEF A, f
<1>4. IsFiniteSet(A \X world.sources)
  BY <1>1, <1>2, FS_Product
<1>5. IsFiniteSet(Plan)
  BY <1>3, <1>4, FS_Surjection
<1> QED BY <1>5, FS_CardinalityType

(* The environment spends what it has. *)
LEMMA Spending ==
    ASSUME Bounded, world' = world, left' = left \/ \E k \in Chances : Spend(k)
    PROVE  /\ Bounded'
           /\ Disturbances \in Nat /\ Disturbances' \in Nat /\ Disturbances' >= Disturbances
           /\ Spend("faults") \/ Spend("crashes") \/ Spend("windows") =>
                Disturbances' = Disturbances + 1
<1> USE DEF Bounded, Chances
<1>0. world.left \in [Chances -> Nat]
  BY ScenarioBounds
<1>1. \A k \in Chances : left'[k] \in Nat /\ left'[k] <= left[k]
  BY DEF Spend
<1>2. left' \in [Chances -> Nat]
  BY <1>1 DEF Spend
<1>3. Bounded'
  BY <1>0, <1>1, <1>2
<1>4. Disturbances \in Nat /\ Disturbances' \in Nat /\ Disturbances' >= Disturbances
  BY <1>0, <1>1, <1>2 DEF Disturbances
<1>5. ASSUME NEW k \in {"faults", "crashes", "windows"}, Spend(k) PROVE Disturbances' = Disturbances + 1
  BY <1>0, <1>5 DEF Disturbances, Spend
<1> QED BY <1>3, <1>4, <1>5

(* One share more for one disturbance more. *)
LEMMA MoreShares ==
    ASSUME NEW d \in Nat, NEW e \in Nat, NEW s \in Nat
    PROVE  /\ d * s \in Nat
           /\ e >= d => e * s >= d * s
           /\ e = d + 1 => e * s = d * s + s
  OBVIOUS

-----------------------------------------------------------------------------
(* Nothing more is owed, and the total accounts for as much as before. *)
LEMMA RoomKept ==
    ASSUME BInv, world' = world, left' = left \/ \E k \in Chances : Spend(k),
           Owed' \subseteq Owed, order'.total \in Nat,
           order'.total + Raising' >= order.total + Raising
    PROVE  Bounded' /\ Room'
<1> USE DEF BInv, Room
<1>1. /\ Bounded' /\ Disturbances \in Nat /\ Disturbances' \in Nat
      /\ Disturbances' >= Disturbances /\ Share \in Nat /\ Share' = Share
  BY Spending, ExpansionSize DEF Share
<1>2. IsFiniteSet(Owed') /\ Cardinality(Owed') <= Cardinality(Owed)
  BY FS_Subset
<1>3. Cardinality(Owed) \in Nat /\ Cardinality(Owed') \in Nat
  BY <1>2, FS_CardinalityType
<1>4. Disturbances' * Share >= Disturbances * Share
      /\ Disturbances * Share \in Nat /\ Disturbances' * Share \in Nat
  BY <1>1, MoreShares
<1>5. Raising \in Nat /\ Raising' \in Nat
  <2>1. Bounded => Raising \in Nat
    BY RaisingType
  <2>2. (Bounded => Raising \in Nat)'
    BY RaisingType, PTL
  <2> QED BY <1>1, <2>1, <2>2
<1> QED BY <1>1, <1>2, <1>3, <1>4, <1>5

(* An expansion that is given up costs a disturbance. *)
LEMMA RoomDisturbed ==
    ASSUME BInv, world' = world, Spend("faults") \/ Spend("crashes"),
           Owed' \subseteq Owed, UNCHANGED order, reducer'.pc # "publish"
    PROVE  Bounded' /\ Room'
<1> USE DEF BInv, Room
<1>1. /\ Bounded' /\ Disturbances \in Nat /\ Disturbances' = Disturbances + 1
      /\ Share \in Nat /\ Share' = Share
  BY Spending, ExpansionSize DEF Share, Chances
<1>2. IsFiniteSet(Owed') /\ Cardinality(Owed') <= Cardinality(Owed)
  BY FS_Subset
<1>3. Cardinality(Owed) \in Nat /\ Cardinality(Owed') \in Nat
  BY <1>2, FS_CardinalityType
<1>4. Disturbances' * Share = Disturbances * Share + Share /\ Disturbances * Share \in Nat
  BY <1>1, MoreShares
<1>5. Raising \in 0..Share
  BY <1>1, RaisingType
<1>6. Raising' = 0
  BY FS_EmptySet DEF Raising, Expanding
<1> QED BY <1>1, <1>2, <1>3, <1>4, <1>5, <1>6

-----------------------------------------------------------------------------
(* The plan and the budget are the scenario's. *)
LEMMA SamePlan == world' = world => Plan' = Plan /\ \A a : Expansion(a)' = Expansion(a)
  BY DEF Plan, Expansion

(* A step outside the order, the reducer and the lane's tasks. *)
LEMMA PlannedKept ==
    ASSUME BInv, UNCHANGED <<world, reducer, submit>>, order'.total = order.total
    PROVE  Planned'
  BY SamePlan DEF BInv, Planned, Raising, Expanding, Msg

(* SubmitOrder: the plan is counted before any of it is published. *)
LEMMA SubmitBInv == IInv /\ GInv /\ BInv /\ Submit => BInv'
<1> SUFFICES ASSUME IInv, GInv, BInv, Submit PROVE BInv'  OBVIOUS
<1> USE DEF IInv, Shape
<1>0. UNCHANGED <<world, reducer>> /\ (left' = left \/ \E k \in Chances : Spend(k))
  BY DEF Submit, SubmitFails, InsertOrder, SetTotal, SetRunning, Dispatch, SubmitReturns, Submitted,
         Chances
<1>1. Expanding' = Expanding /\ Raising' = Raising
  BY <1>0, SamePlan DEF Expanding, Raising, Msg
<1>2. Raising \in Nat /\ order.total \in Nat
  BY RaisingType DEF BInv, Room
<1>3. CASE SetTotal
  <2>1. Owed = {} /\ Raising = 0 /\ reducer.pc = "idle"
    <3>1. reducer.pc = "idle" /\ submit.todo = {} /\ DOMAIN lane = {}
      BY <1>3 DEF SetTotal, GInv, Early, Idle, BInv, Planned
    <3> QED BY <3>1, FS_EmptySet DEF Owed, Raising, Expanding
  <2>2. order'.total = Cardinality(Plan) /\ Owed' = Plan /\ submit'.pc = "run"
    BY <1>0, <1>1, <1>3, <2>1 DEF SetTotal, Owed, Expanding
  <2>3. IsFiniteSet(Plan) /\ Cardinality(Plan) \in Nat
    BY PlanFinite DEF BInv
  <2>4. /\ Bounded' /\ Disturbances' \in Nat /\ Share' \in Nat
    BY <1>0, Spending, ExpansionSize DEF BInv, Share
  <2>5. Room'
    <3>1. Disturbances' * Share' \in Nat
      BY <2>4, MoreShares
    <3> HIDE DEF Owed, Raising
    <3> QED BY <1>1, <2>1, <2>2, <2>3, <3>1 DEF Room
  <2>6. Planned'
    BY <1>0, <2>1, <2>2, <2>3, SamePlan DEF Planned
  <2> QED BY <2>4, <2>5, <2>6 DEF BInv
<1>4. CASE ~ SetTotal
  <2>1. order'.total = order.total
    BY <1>4 DEF Submit, SubmitFails, InsertOrder, SetRunning, Dispatch, SubmitReturns
  <2>2. Owed' \subseteq Owed
    BY <1>1, <1>4 DEF Submit, SubmitFails, InsertOrder, SetRunning, Dispatch, SubmitReturns, Owed, Publish
  <2>3. Planned'
    <3>1. submit'.pc \in {"new", "plan"} => submit'.todo = submit.todo /\ submit.pc \in {"new", "plan"}
      BY <1>4 DEF Submit, SubmitFails, InsertOrder, SetRunning, Dispatch, SubmitReturns
    <3> QED BY <1>0, <1>1, <2>1, <3>1, SamePlan DEF BInv, Planned
  <2> QED BY <1>0, <1>1, <1>2, <2>1, <2>2, <2>3, RoomKept DEF BInv
<1> QED BY <1>3, <1>4

(* The ends of an order and the workers publish no task. *)
LEMMA OtherBInv == IInv /\ BInv /\ (End \/ Work \/ BudgetElapses) => BInv'
<1> SUFFICES ASSUME IInv, BInv, End \/ Work \/ BudgetElapses PROVE BInv'  OBVIOUS
<1>1. /\ UNCHANGED <<world, reducer, submit>> /\ DOMAIN lane' = DOMAIN lane
      /\ order'.total = order.total
  BY WorkLane, WorkFrame
  DEF End, Cancel, HandleRevocation, SweepOnce, SetEnded, SetEndedFails, Ending, BudgetElapses, IInv, Shape
<1>2. left' = left \/ \E k \in Chances : Spend(k)
  BY DEF End, Cancel, HandleRevocation, SweepOnce, SetEnded, SetEndedFails, BudgetElapses,
         Work, Fetch, CheckFails, Check, Emit, ConnectorFails, Report, AckTask, WorkerCrash,
         TaskExpires, PublishResult, Chances
<1>3. Owed' = Owed /\ Raising' = Raising
  BY <1>1, SamePlan DEF Owed, Raising, Expanding, Msg
<1>4. Raising \in Nat /\ order.total \in Nat
  BY RaisingType DEF BInv, Room
<1> QED BY <1>1, <1>2, <1>3, <1>4, RoomKept, PlannedKept DEF BInv

(* The reducer: an expansion is within max_tasks when it begins, and is    *)
(* added to the total once all of it is published.                         *)
LEMMA ReduceBInv == IInv /\ GInv /\ BInv /\ Reduce => BInv'
<1> SUFFICES ASSUME IInv, GInv, BInv, Reduce PROVE BInv'  OBVIOUS
<1> USE DEF IInv, Shape
<1>0. UNCHANGED <<world, submit>> /\ (left' = left \/ \E k \in Chances : Spend(k))
  BY DEF Reduce, Process, Take, ResultExpires, Count, Judge, Close, Scope, Merge, Ingest, Announce,
         Expand, PublishExpanded, SetExpandedTotal, Ack, RetryMessage, RecordGap, ExpandFails,
         Reducing, Chances
<1>1. Raising \in Nat /\ order.total \in Nat /\ Bounded
  BY RaisingType DEF BInv, Room
<1>2. \A a : Expansion(a)' = Expansion(a)
  BY <1>0, SamePlan
<1>3. Plan' = Plan
  BY <1>0, SamePlan
<1>q. ASSUME reducer.pc # "publish", reducer'.pc # "publish", DOMAIN lane' = DOMAIN lane,
             order'.total = order.total
      PROVE  BInv'
  <2>1. Expanding' = Expanding /\ Raising' = Raising /\ Owed' = Owed
    BY <1>0, <1>q DEF Expanding, Raising, Owed
  <2>2. Planned'
    BY <1>0, <1>3, <1>q DEF BInv, Planned
  <2> QED BY <1>0, <1>1, <1>q, <2>1, <2>2, RoomKept DEF BInv
<1>4. CASE \E i \in DOMAIN results : Take(i)
  BY <1>4, <1>q DEF Take, Resting
<1>5. CASE \E i \in DOMAIN results : ResultExpires(i)
  <2>1. UNCHANGED <<order, reducer, lane>>
    BY <1>5 DEF ResultExpires
  <2>2. Expanding' = Expanding /\ Raising' = Raising /\ Owed' = Owed
    BY <1>0, <1>2, <2>1 DEF Expanding, Raising, Owed, Msg
  <2>3. Planned'
    BY <1>0, <2>1, PlannedKept
  <2> QED BY <1>0, <1>1, <2>1, <2>2, <2>3, RoomKept DEF BInv
<1>6. CASE Count \/ Judge \/ Close \/ Scope \/ Merge \/ Ingest \/ Announce \/ Ack
           \/ RetryMessage \/ RecordGap
  <2>a. ASSUME Judge PROVE reducer.pc # "publish" /\ reducer'.pc # "publish"
    <3>1. reducer.pc = "judge" /\ reducer'.pc \in {"close", "ack"}
      <4>1. CASE order.state = "RUNNING" /\ order.total > 0 /\ order.done + order.failed >= order.total
        BY <2>a, <4>1 DEF Judge
      <4>2. CASE ~ (order.state = "RUNNING" /\ order.total > 0 /\ order.done + order.failed >= order.total)
        BY <2>a, <4>2 DEF Judge, Go
      <4> QED BY <4>1, <4>2
    <3> QED BY <3>1
  <2>b. ASSUME RetryMessage \/ Ack PROVE reducer.pc # "publish" /\ reducer'.pc # "publish"
    <3>1. reducer' = Resting /\ reducer.pc # "publish"
      BY <2>b DEF RetryMessage, Ack, Finish
    <3> QED BY <3>1 DEF Resting
  <2>1. reducer.pc # "publish" /\ reducer'.pc # "publish"
    BY <1>6, <2>a, <2>b
    DEF Count, Close, Scope, Merge, Ingest, Announce, RecordGap, Go
  <2>2. order'.total = order.total
    BY <1>6 DEF Count, Judge, Close, Scope, Merge, Ingest, Announce, Ack, RetryMessage, RecordGap
  <2>3. lane' = lane
    BY <1>6 DEF Count, Judge, Close, Scope, Merge, Ingest, Announce, Ack, RetryMessage, RecordGap
  <2> QED BY <1>q, <2>1, <2>2, <2>3
<1>7. CASE Expand
  <2> DEFINE E == Expansion(Msg.f.asset)
  <2>1. CASE E = {} \/ order.total + Cardinality(E) > world.maxTasks
    BY <1>7, <1>q, <2>1 DEF Expand, Go
  <2>2. CASE ~ (E = {} \/ order.total + Cardinality(E) > world.maxTasks)
    <3>1. /\ reducer' = [reducer EXCEPT !.pc = "publish", !.todo = E,
                                       !.total = order.total + Cardinality(E)]
          /\ UNCHANGED <<order, lane>> /\ reducer.pc = "expand"
      BY <1>7, <2>2 DEF Expand
    <3>2. Expanding' = E /\ Expanding = {} /\ Raising' = Cardinality(E) /\ Raising = 0
      <4>1. Expanding' = E /\ Expanding = {}
        BY <1>2, <3>1 DEF Expanding, Msg
      <4> QED BY <4>1, FS_EmptySet DEF Raising
    <3>3. Owed' = Owed \cup E
      BY <1>0, <3>1, <3>2 DEF Owed
    <3>4. IsFiniteSet(E) /\ Cardinality(E) \in Nat /\ Share \in Nat
      BY <1>1, ExpansionSize
    <3>5. world.maxTasks \in Nat
      BY <1>1, ScenarioBounds DEF Bounded
    <3>6. Planned'
      <4> HIDE DEF E
      <4>1. order.total + Cardinality(E) <= world.maxTasks
        BY <1>1, <2>2, <3>4, <3>5
      <4> QED BY <1>0, <1>1, <1>3, <3>1, <3>2, <3>4, <4>1 DEF BInv, Planned
    <3>7. Room'
      <4>1. IsFiniteSet(Owed) /\ Cardinality(Owed) \in Nat
        BY FS_CardinalityType DEF BInv, Room
      <4> DEFINE O == Owed
      <4> HIDE DEF E, O
      <4>2. IsFiniteSet(O \cup E) /\ Cardinality(O \cup E) <= Cardinality(O) + Cardinality(E)
        <5>1. IsFiniteSet(O) /\ Cardinality(O) \in Nat
          BY <4>1 DEF O
        <5>2. IsFiniteSet(O \cap E) /\ Cardinality(O \cap E) \in Nat
          BY <5>1, FS_Intersection, FS_CardinalityType
        <5>3. IsFiniteSet(O \cup E)
              /\ Cardinality(O \cup E) = Cardinality(O) + Cardinality(E) - Cardinality(O \cap E)
          BY <3>4, <5>1, FS_Union
        <5> QED BY <3>4, <5>1, <5>2, <5>3
      <4>3. Cardinality(O \cup E) \in Nat
        BY <4>2, FS_CardinalityType
      <4>4. /\ Disturbances \in Nat /\ Disturbances' \in Nat /\ Disturbances' >= Disturbances
            /\ Share' = Share
        BY <1>0, <1>1, Spending DEF Share
      <4>5. /\ Disturbances * Share \in Nat /\ Disturbances' * Share \in Nat
            /\ Disturbances' * Share >= Disturbances * Share
        BY <3>4, <4>4, MoreShares
      <4>6. Cardinality(Owed') <= order.total + Cardinality(E) + Disturbances' * Share
        <5>1. Owed' = O \cup E
          BY <3>3 DEF O
        <5>2. Cardinality(O) <= order.total + Disturbances * Share
          BY <1>1, <3>2, <4>5 DEF O, BInv, Room
        <5> HIDE <1>7, <2>2
        <5> QED BY <1>1, <3>4, <4>1, <4>2, <4>3, <4>5, <5>1, <5>2 DEF O
      <4> QED BY <1>1, <3>1, <3>2, <3>3, <4>2, <4>4, <4>6 DEF Room, O
    <3>8. Bounded'
      BY <1>0, <1>1, Spending
    <3> QED BY <3>6, <3>7, <3>8 DEF BInv
  <2> QED BY <2>1, <2>2
<1>8. CASE PublishExpanded
  <2> DEFINE t == CHOOSE x \in reducer.todo : TRUE
  <2>1. /\ t \in Expanding /\ reducer.pc = "publish"
        /\ reducer' = [reducer EXCEPT !.todo = @ \ {t}]
        /\ DOMAIN lane' = DOMAIN lane \cup {t} /\ UNCHANGED order
    BY <1>8 DEF PublishExpanded, Publish, BInv, Planned
  <2> HIDE DEF t
  <2>2. Expanding' = Expanding /\ Raising' = Raising
    BY <1>2, <2>1 DEF Expanding, Raising, Msg
  <2>3. Owed' = Owed
    BY <1>0, <2>1, <2>2 DEF Owed
  <2>4. Planned'
    BY <1>0, <1>3, <2>1, <2>2 DEF BInv, Planned
  <2> QED BY <1>0, <1>1, <2>1, <2>2, <2>3, <2>4, RoomKept DEF BInv
<1>9. CASE SetExpandedTotal
  <2>1. /\ reducer.pc = "publish" /\ reducer'.pc = "ack" /\ lane' = lane
        /\ order'.total = order.total + Raising /\ order'.total <= world.maxTasks
    BY <1>9 DEF SetExpandedTotal, Go, BInv, Planned
  <2>2. Expanding' = {} /\ Raising' = 0
    BY <2>1, FS_EmptySet DEF Expanding, Raising
  <2>3. Owed' \subseteq Owed
    BY <1>0, <2>1, <2>2 DEF Owed
  <2>4. Planned'
    BY <1>0, <2>1 DEF BInv, Planned
  <2> QED BY <1>0, <1>1, <2>1, <2>2, <2>3, <2>4, RoomKept DEF BInv
<1>10. CASE ExpandFails
  <2>1. UNCHANGED <<order, lane>> /\ reducer'.pc = "ack" /\ Spend("faults")
    BY <1>10 DEF ExpandFails, Go
  <2>2. Owed' \subseteq Owed
    BY <1>0, <2>1 DEF Owed, Expanding
  <2>3. Planned'
    BY <1>0, <1>3, <2>1 DEF BInv, Planned
  <2> QED BY <1>0, <2>1, <2>2, <2>3, RoomDisturbed DEF BInv
<1> QED BY <1>4, <1>5, <1>6, <1>7, <1>8, <1>9, <1>10 DEF Reduce, Process

(* The orchestrator stops in the middle of an expansion. *)
LEMMA CrashBInv == IInv /\ BInv /\ Crash => BInv'
<1> SUFFICES ASSUME IInv, BInv, Crash PROVE BInv'  OBVIOUS
<1>1. /\ UNCHANGED <<world, order, lane>> /\ reducer'.pc = "idle" /\ Spend("crashes")
      /\ submit'.todo = submit.todo /\ (submit'.pc \in {"new", "plan"} => submit'.pc = submit.pc)
  BY DEF Crash, Resting, IInv, Shape
<1>2. Owed' \subseteq Owed
  BY <1>1 DEF Owed, Expanding
<1>3. Planned'
  BY <1>1, SamePlan DEF BInv, Planned
<1> QED BY <1>1, <1>2, <1>3, RoomDisturbed DEF BInv

LEMMA NextBInv == IInv /\ GInv /\ BInv /\ [Next]_vars => BInv'
<1> SUFFICES ASSUME IInv, GInv, BInv, [Next]_vars PROVE BInv'  OBVIOUS
<1>1. CASE UNCHANGED vars
  <2>1. Owed' = Owed /\ Raising' = Raising /\ UNCHANGED <<world, left, order, reducer, submit>>
    BY <1>1, SamePlan DEF vars, Owed, Raising, Expanding, Msg
  <2>2. Planned'
    BY <2>1, PlannedKept
  <2>3. Raising \in Nat /\ order.total \in Nat
    BY RaisingType DEF BInv, Room
  <2> QED BY <2>1, <2>2, <2>3, RoomKept DEF BInv
<1> QED BY <1>1, SubmitBInv, OtherBInv, ReduceBInv, CrashBInv DEF Next

LEMMA InitBInv == Init => BInv
<1> SUFFICES ASSUME Init PROVE BInv  OBVIOUS
<1>1. Bounded
  BY ScenarioBounds DEF Init, Bounded
<1>2. reducer.pc = "idle" /\ Owed = {} /\ order.total = 0 /\ submit.todo = {}
  <2>1. reducer.pc = "idle"
    BY DEF Init, Resting
  <2>2. DOMAIN lane = {} /\ submit.todo = {} /\ order.total = 0
    BY DEF Init
  <2> QED BY <2>1, <2>2 DEF Owed, Expanding
<1>3. Raising = 0
  BY <1>2, FS_EmptySet DEF Raising, Expanding
<1>4. Disturbances = 0 /\ Share \in Nat
  BY <1>1, ExpansionSize, ScenarioBounds DEF Init, Disturbances, Chances
<1>5. Room
  BY <1>2, <1>3, <1>4, FS_EmptySet DEF Room
<1>6. Planned
  <2>1. Cardinality(Plan) \in Nat
    BY <1>1, PlanFinite
  <2> QED BY <1>2, <2>1 DEF Planned
<1> QED BY <1>1, <1>5, <1>6 DEF BInv

(* Recursion keeps the budget of tasks: an order publishes no more tasks   *)
(* than max_tasks or its plan allows, but for the expansions that a        *)
(* failure or a crash cut off before their total was written               *)
(* (ExpandTasks).                                                          *)
THEOREM BudgetHolds == Spec => []BudgetKept
<1>1. IInv /\ BInv => BudgetKept
  <2> SUFFICES ASSUME BInv PROVE BudgetKept  OBVIOUS
  <2> USE DEF BInv
  <2> DEFINE p == Cardinality(Plan)
             allowed == IF p > world.maxTasks THEN p ELSE world.maxTasks
  <2>1. /\ p \in Nat /\ world.maxTasks \in Nat
        /\ Raising \in Nat /\ Share \in Nat /\ order.total \in Nat
    BY PlanFinite, RaisingType, ScenarioBounds DEF Bounded, Room
  <2>2. Raising = 0 \/ reducer.pc = "publish"
    BY FS_EmptySet DEF Raising, Expanding
  <2> HIDE DEF p
  <2>3. order.total + Raising <= allowed
    BY <2>1, <2>2 DEF Planned, p
  <2>4. Disturbances * Share \in Nat
    <3>1. Disturbances \in Nat
      BY ScenarioBounds DEF Bounded, Disturbances, Chances
    <3> QED BY <2>1, <3>1, MoreShares
  <2>5. Cardinality(Owed) <= allowed + Disturbances * Share /\ Cardinality(Owed) \in Nat
    BY <2>1, <2>3, <2>4, FS_CardinalityType DEF Room
  <2>6. Cardinality(DOMAIN lane) <= Cardinality(Owed) /\ Cardinality(DOMAIN lane) \in Nat
    <3>1. IsFiniteSet(DOMAIN lane) /\ Cardinality(DOMAIN lane) <= Cardinality(Owed)
      BY FS_Subset DEF Room, Owed
    <3> QED BY <3>1, FS_CardinalityType
  <2>7. Cardinality(DOMAIN lane) <= allowed + Disturbances * Share
    BY <2>1, <2>4, <2>5, <2>6
  <2> QED BY <2>7 DEF BudgetKept, p, Share
<1> QED
  BY InitIInv, InitGInv, InitBInv, NextIInv, NextGInv, NextBInv, <1>1, PTL DEF Spec
-----------------------------------------------------------------------------
(* A completed order covers its tasks.  Every task has at most one origin  *)
(* (the plan, or the one asset that was new), every marker one task.       *)

(* The data: assets are types and values, workers work on published tasks  *)
(* and hold findings of the sources.                                       *)
Known ==
  /\ \A a \in assets : IsAsset(a)
  /\ \A i \in DOMAIN results :
       /\ results[i].m.kind \in {"finding", "done"}
       /\ results[i].m.kind = "finding" => results[i].m.f \in Answers(world)

Crew ==
  /\ DOMAIN worker = Worker
  /\ \A w \in Worker : /\ DOMAIN worker[w] = {"pc", "task", "n", "todo"}
                       /\ worker[w].todo \in Seq(Answers(world))
                       /\ worker[w].pc # "idle" => worker[w].task \in DOMAIN lane

(* A task told of has its marker in the stream; an expanded one its asset  *)
(* in the store.                                                           *)
Marked(t) == \E i \in DOMAIN results : results[i].m.kind = "done" /\ results[i].m.task = t
Grown(t)  == \E a \in assets : a.value = t.seed /\ a.type = t.from

LaneSound ==
  \A t \in DOMAIN lane :
    /\ DOMAIN lane[t] = {"status", "n", "told"} /\ lane[t].told \in BOOLEAN
    /\ t.source \in world.sources
    /\ t.from # "plan" => Grown(t)
    /\ lane[t].told => Marked(t)

Hosts      == {"domain", "subdomain"}
Untried(a) == \A t \in DOMAIN lane : t.from = a.type => t.seed # a.value

(* No task is published twice. *)
Fresh ==
  /\ submit.todo \subseteq Plan /\ submit.todo \cap DOMAIN lane = {}
  /\ reducer.pc \in {"ingest", "announce", "expand", "publish"} => Msg.f.asset \in assets
  /\ reducer.pc \in {"ingest", "announce"} /\ reducer.new /\ Msg.f.asset.type \in Hosts =>
       Untried(Msg.f.asset)
  /\ reducer.pc = "expand" => Msg.f.asset.type \in Hosts /\ Untried(Msg.f.asset)
  /\ reducer.pc = "publish" => Msg.f.asset.type \in Hosts /\ reducer.todo \cap DOMAIN lane = {}

(* What the reducer does with a message of each kind; when the order is    *)
(* not yet, or no more, expanded.                                          *)
Phases ==
  /\ reducer.pc \in {"count", "judge", "close"} => Msg.kind = "done"
  /\ reducer.pc \in {"scope", "merge", "ingest", "announce", "expand", "publish"} =>
       Msg.kind = "finding"
  /\ Plan = {} => Idle
  /\ submit.pc \in {"new", "plan", "run"} =>
       order.done = 0 /\ order.failed = 0 /\ order.state # "COMPLETED"
  /\ order.done \in Nat /\ order.failed \in Nat
  /\ order.state = "COMPLETED" =>
       reducer.pc \notin {"merge", "ingest", "announce", "expand", "publish"}

TInv == Known /\ Crew /\ LaneSound /\ Fresh /\ Phases

-----------------------------------------------------------------------------
(* A plan's task comes from no asset, and an expansion's tasks from the    *)
(* asset they expand.                                                      *)
LEMMA TaskOrigin ==
    /\ \A t \in Plan : t.from = "plan" /\ t.source \in world.sources
    /\ \A a : \A t \in Expansion(a) :
         t.from = a.type /\ t.seed = a.value /\ t.source \in world.sources
  BY DEF Plan, Expansion, Task

-----------------------------------------------------------------------------
(* SubmitOrder publishes tasks of the plan. *)
LEMMA SubmitTInv == IInv /\ GInv /\ BInv /\ TInv /\ Submit => TInv'
<1> SUFFICES ASSUME IInv, GInv, BInv, TInv, Submit PROVE TInv'  OBVIOUS
<1> USE DEF TInv, IInv, Shape
<1>0. UNCHANGED <<world, reducer, worker, results, assets>>
  BY DEF Submit, SubmitFails, InsertOrder, SetTotal, SetRunning, Dispatch, SubmitReturns, Submitted,
         database
<1>1. Plan' = Plan
  BY <1>0, SamePlan
<1>2. Known'
  BY <1>0 DEF Known
<1>3. CASE Dispatch
  <2> DEFINE t == CHOOSE x \in submit.todo : TRUE
  <2>1. t \in submit.todo /\ Publish(t) /\ submit.pc = "dispatch" /\ UNCHANGED order
        /\ submit' = [submit EXCEPT !.todo = @ \ {t}]
    BY <1>3 DEF Dispatch
  <2> HIDE DEF t
  <2>2. t \in Plan /\ t.from = "plan" /\ t.source \in world.sources /\ t \notin DOMAIN lane
    BY <2>1, TaskOrigin DEF Fresh
  <2>3. DOMAIN lane' = DOMAIN lane \cup {t} /\ lane'[t] = Queued
        /\ \A x \in DOMAIN lane : lane'[x] = lane[x]
    BY <2>1, <2>2 DEF Publish
  <2>4. Crew'
    BY <1>0, <2>3 DEF Crew
  <2>5. LaneSound'
    <3>1. \A x : Marked(x)' = Marked(x) /\ Grown(x)' = Grown(x)
      BY <1>0 DEF Marked, Grown
    <3>2. DOMAIN lane'[t] = {"status", "n", "told"} /\ lane'[t].told = FALSE
      BY <2>3 DEF Queued
    <3> QED BY <1>0, <2>2, <2>3, <3>1, <3>2 DEF LaneSound
  <2>6. Fresh'
    <3>1. submit'.todo = submit.todo \ {t}
      BY <2>1
    <3>2. submit'.todo \subseteq Plan' /\ submit'.todo \cap DOMAIN lane' = {}
      BY <1>1, <2>3, <3>1 DEF Fresh
    <3>3. \A a : a.type \in Hosts /\ Untried(a) => Untried(a)'
      BY <2>2, <2>3 DEF Untried, Hosts
    <3>4. reducer.pc = "publish" /\ Msg.f.asset.type \in Hosts => t \notin reducer.todo
      BY <2>2, TaskOrigin DEF BInv, Planned, Expanding, Hosts
    <3>5. Msg' = Msg
      BY <1>0 DEF Msg
    <3> QED BY <1>0, <2>3, <3>2, <3>3, <3>4, <3>5 DEF Fresh
  <2>7. Phases'
    BY <1>0, <1>1, <2>1, <2>2 DEF Phases, Idle, Msg
  <2> QED BY <1>2, <2>4, <2>5, <2>6, <2>7
<1>4. CASE ~ Dispatch
  <2>1. lane' = lane
    BY <1>4 DEF Submit, SubmitFails, InsertOrder, SetTotal, SetRunning, SubmitReturns
  <2>2. Crew' /\ LaneSound'
    <3>1. \A x : Marked(x)' = Marked(x) /\ Grown(x)' = Grown(x)
      BY <1>0 DEF Marked, Grown
    <3>2. Crew'
      BY <1>0, <2>1 DEF Crew
    <3>3. LaneSound'
      BY <1>0, <2>1, <3>1 DEF LaneSound
    <3> QED BY <3>2, <3>3
  <2>3. Fresh'
    <3>1. submit'.todo = submit.todo \/ (submit'.todo = Plan /\ submit.pc = "plan")
      BY <1>4 DEF Submit, SubmitFails, InsertOrder, SetTotal, SetRunning, SubmitReturns
    <3>2. submit.pc = "plan" => DOMAIN lane = {}
      BY DEF GInv, Early, Idle
    <3> QED BY <1>0, <1>1, <2>1, <3>1, <3>2 DEF Fresh, Untried, Msg
  <2>4. Phases'
    <3>1. order'.done = order.done /\ order'.failed = order.failed
          /\ (submit'.pc \in {"new", "plan", "run"} => submit.pc \in {"new", "plan", "run"})
      BY <1>4 DEF Submit, SubmitFails, InsertOrder, SetTotal, SetRunning, SubmitReturns
    <3>2. order'.state = "COMPLETED" =>
            order.state = "COMPLETED" \/ (Plan = {} /\ submit'.pc = "over")
      BY <1>4 DEF Submit, SubmitFails, InsertOrder, SetTotal, SetRunning, SubmitReturns
    <3> QED BY <1>0, <1>1, <2>1, <3>1, <3>2 DEF Phases, Idle, Msg
  <2> QED BY <1>2, <2>2, <2>3, <2>4
<1> QED BY <1>3, <1>4

(* The ends of an order write its state, and a crash leaves the store and  *)
(* the streams.                                                            *)
LEMMA OtherTInv == IInv /\ TInv /\ (End \/ BudgetElapses \/ Crash \/ UNCHANGED vars) => TInv'
<1> SUFFICES ASSUME IInv, TInv, End \/ BudgetElapses \/ Crash \/ UNCHANGED vars PROVE TInv'
  OBVIOUS
<1> USE DEF TInv, IInv, Shape
<1>1. UNCHANGED <<world, lane, worker, results, assets>> /\ submit'.todo = submit.todo
      /\ (submit'.pc \in {"new", "plan", "run"} => submit'.pc = submit.pc)
  <2>1. CASE Crash
    BY <2>1 DEF Crash, database
  <2>2. CASE End
    BY <2>2 DEF End, Cancel, HandleRevocation, SweepOnce, SetEnded, SetEndedFails, Ending, database
  <2> QED BY <2>1, <2>2 DEF BudgetElapses, vars, database
<1>2. reducer' = reducer \/ reducer'.pc = "idle"
  <2>1. CASE Crash
    BY <2>1 DEF Crash, Resting
  <2>2. CASE ~ Crash
    BY <2>2 DEF End, Cancel, HandleRevocation, SweepOnce, SetEnded, SetEndedFails, Ending,
                BudgetElapses, vars
  <2> QED BY <2>1, <2>2
<1>3. order'.done = order.done /\ order'.failed = order.failed
      /\ (order'.state = "COMPLETED" => order.state = "COMPLETED")
  <2>1. CASE \E e \in Enders : SetEnded(e)
    <3> PICK e \in Enders : SetEnded(e)
      BY <2>1
    <3> DEFINE st == IF e = "sweep" THEN "PARTIAL" ELSE "CANCELLED"
    <3>1. order' = [order EXCEPT !.state = st] /\ st # "COMPLETED"
      BY DEF SetEnded
    <3> HIDE DEF st
    <3> QED BY <3>1
  <2>2. CASE ~ \E e \in Enders : SetEnded(e)
    <3>1. order' = order
      BY <2>2 DEF End, Cancel, HandleRevocation, SweepOnce, SetEndedFails, BudgetElapses, Crash, vars
    <3> QED BY <3>1
  <2> QED BY <2>1, <2>2
<1>4. Plan' = Plan
  BY <1>1, SamePlan
<1>5. Known' /\ Crew' /\ LaneSound'
  BY <1>1 DEF Known, Crew, LaneSound, Marked, Grown, Answers
<1>6. Fresh'
  <2>1. CASE reducer' = reducer
    BY <1>1, <1>4, <2>1 DEF Fresh, Untried, Msg
  <2>2. CASE reducer'.pc = "idle"
    BY <1>1, <1>4, <2>2 DEF Fresh
  <2> QED BY <1>2, <2>1, <2>2
<1>7. Phases'
  <2>1. CASE reducer' = reducer
    BY <1>1, <1>3, <1>4, <2>1 DEF Phases, Idle, Msg
  <2>2. CASE reducer'.pc = "idle"
    BY <1>1, <1>3, <1>4, <2>2 DEF Phases, Idle
  <2> QED BY <1>2, <2>1, <2>2
<1> QED BY <1>5, <1>6, <1>7

-----------------------------------------------------------------------------
(* Workers: a task is told of when its marker is stored or was before. *)
Telling(t) == lane' = [lane EXCEPT ![t].told = TRUE]
Settling   ==
  /\ DOMAIN lane' = DOMAIN lane
  /\ \A t \in DOMAIN lane : DOMAIN lane'[t] = DOMAIN lane[t] /\ lane'[t].told = lane[t].told

(* Settling a message leaves its marker as it is. *)
LEMMA SettleKeeps ==
    ASSUME LaneSound, NEW t \in DOMAIN lane, NEW st, Settle(t, st)
    PROVE  Settling
  BY DEF Settle, Settling, LaneSound

LEMMA WorkSettles == Crew /\ LaneSound /\ Work => Settling \/ \E w \in Worker : Report(w)
<1> SUFFICES ASSUME Crew, LaneSound, Work PROVE Settling \/ \E w \in Worker : Report(w)  OBVIOUS
<1>0. UNCHANGED lane => Settling
  BY DEF Settling
<1>1. \A w \in Worker : worker[w].pc # "idle" => worker[w].task \in DOMAIN lane
  BY DEF Crew
<1>2. ASSUME NEW w \in Worker, Fetch(w) PROVE Settling
  BY <1>2 DEF Fetch, Settling, LaneSound
<1>3. ASSUME NEW w \in Worker, CheckFails(w) \/ AckTask(w) PROVE Settling
  BY <1>1, <1>3, SettleKeeps DEF CheckFails, AckTask
<1>4. ASSUME NEW w \in Worker, Check(w) PROVE Settling
  <2>1. worker[w].task \in DOMAIN lane
    BY <1>1, <1>4 DEF Check
  <2>2. UNCHANGED lane \/ Settle(worker[w].task, "acked")
    BY <1>4 DEF Check
  <2> QED BY <1>0, <2>1, <2>2, SettleKeeps
<1>5. ASSUME NEW w \in Worker, ConnectorFails(w) PROVE Settling
  <2>1. worker[w].task \in DOMAIN lane
    BY <1>1, <1>5 DEF ConnectorFails
  <2>2. UNCHANGED lane \/ Settle(worker[w].task, Again(worker[w].n))
    BY <1>5 DEF ConnectorFails
  <2> QED BY <1>0, <2>1, <2>2, SettleKeeps
<1>6. ASSUME NEW w \in Worker, Emit(w) \/ WorkerCrash(w) PROVE Settling
  BY <1>0, <1>6 DEF Emit, WorkerCrash
<1>7. ASSUME NEW t \in DOMAIN lane, TaskExpires(t) PROVE Settling
  BY <1>7, SettleKeeps DEF TaskExpires
<1> QED BY <1>2, <1>3, <1>4, <1>5, <1>6, <1>7 DEF Work

(* Storing a message of a task: the others keep their places. *)
LEMMA StoredStep ==
    ASSUME Stream, NEW m, Stored(m)
    PROVE  /\ DOMAIN results' = DOMAIN results \cup {Len(results) + 1}
           /\ Len(results) + 1 \notin DOMAIN results
           /\ \A i \in DOMAIN results : results'[i] = results[i]
           /\ results'[Len(results) + 1] = [m |-> m, st |-> "new", n |-> 0]
<1> PICK S : results \in Seq(Entry(S))
  BY DEF Stream
<1> DEFINE e == [m |-> m, st |-> "new", n |-> 0]
           T == Entry(S \cup {m})
<1>1. Entry(S) \subseteq T /\ e \in T
  BY DEF Entry
<1> HIDE DEF T, e
<1>2. results \in Seq(T)
  BY <1>1, SeqMonotonic
<1>3. results' = Append(results, e)
  BY DEF Stored, e
<1>4. Len(results) \in Nat /\ DOMAIN results = 1..Len(results)
      /\ DOMAIN results' = 1..(Len(results) + 1)
      /\ (\A i \in 1..Len(results) : results'[i] = results[i])
      /\ results'[Len(results) + 1] = e
  BY <1>1, <1>2, <1>3
<1> QED BY <1>4 DEF e

(* A report published: the marker is in the stream. *)
LEMMA PublishedDone ==
    ASSUME Stream, NEW t, NEW bad, PublishResult(Done(t, bad))
    PROVE  Marked(t)'
<1> DEFINE m == Done(t, bad)
<1>1. m.kind = "done" /\ m.task = t
  BY DEF Done
<1>2. CASE Stored(m)
  <2> DEFINE k == Len(results) + 1
  <2>1. k \in DOMAIN results' /\ results'[k] = [m |-> m, st |-> "new", n |-> 0]
    <3> HIDE DEF m
    <3> QED BY <1>2, StoredStep
  <2>2. results'[k].m = m
    BY <2>1
  <2> HIDE DEF k, m
  <2> QED BY <1>1, <2>1, <2>2 DEF Marked
<1>3. CASE Sent(m) /\ UNCHANGED results
  BY <1>1, <1>3 DEF Sent, SameId, Marked
<1> QED BY <1>2, <1>3 DEF PublishResult

-----------------------------------------------------------------------------
(* What a source answers is a list of findings. *)
LEMMA ReportsType == Bounded => \A t : Reports(t) \in Seq(Answers(world))
<1> SUFFICES ASSUME Bounded, NEW t PROVE Reports(t) \in Seq(Answers(world))  OBVIOUS
<1>1. \A k \in DOMAIN world.finds : world.finds[k] \in Seq(Answers(world))
  BY ScenarioAnswers DEF Bounded
<1>2. <<>> \in Seq(Answers(world))
  OBVIOUS
<1> HIDE DEF Answers
<1> QED BY <1>1, <1>2 DEF Reports

(* A worker's message is the marker of its task or the next finding. *)
LEMMA WorkMessages ==
    ASSUME Stream, Crew, Known, Work
    PROVE  \A i \in DOMAIN results' :
             \/ i \in DOMAIN results /\ results'[i].m = results[i].m
             \/ results'[i].m.kind = "done"
             \/ results'[i].m.kind = "finding" /\ results'[i].m.f \in Answers(world)
<1> DEFINE Goal == \A i \in DOMAIN results' :
             \/ i \in DOMAIN results /\ results'[i].m = results[i].m
             \/ results'[i].m.kind = "done"
             \/ results'[i].m.kind = "finding" /\ results'[i].m.f \in Answers(world)
<1>1. UNCHANGED results => Goal
  OBVIOUS
<1>2. ASSUME NEW m, PublishResult(m), m.kind = "done" \/ (m.kind = "finding" /\ m.f \in Answers(world))
      PROVE  Goal
  <2>1. UNCHANGED results \/ Stored(m)
    BY <1>2 DEF PublishResult
  <2>2. CASE Stored(m)
    <3> DEFINE e == [m |-> m, st |-> "new", n |-> 0]
    <3>1. e.m = m
      OBVIOUS
    <3>2. \A i \in DOMAIN results' :
            (i \in DOMAIN results /\ results'[i] = results[i]) \/ results'[i] = e
      BY <2>2, StoredStep
    <3> HIDE DEF e
    <3> QED BY <1>2, <3>1, <3>2
  <2> QED BY <1>1, <2>1, <2>2
<1>3. ASSUME NEW w \in Worker, Emit(w) PROVE Goal
  <2> DEFINE h == Head(worker[w].todo)
             m == Finding(worker[w].task, h)
  <2>1. worker[w].todo \in Seq(Answers(world)) /\ worker[w].todo # <<>> /\ PublishResult(m)
    BY <1>3 DEF Emit, Crew
  <2>2. h \in Answers(world)
    BY <2>1
  <2>3. m.kind = "finding" /\ m.f = h
    BY DEF Finding
  <2> HIDE DEF h, m
  <2> QED BY <1>2, <2>1, <2>2, <2>3
<1>4. ASSUME NEW w \in Worker, Report(w) PROVE Goal
  <2> DEFINE m == Done(worker[w].task, worker[w].pc # "run")
  <2>1. PublishResult(m) \/ UNCHANGED results
    BY <1>4 DEF Report
  <2>2. m.kind = "done"
    BY DEF Done
  <2> HIDE DEF m
  <2> QED BY <1>1, <1>2, <2>1, <2>2
<1>5. CASE ~ \E w \in Worker : Emit(w) \/ Report(w)
  BY <1>1, <1>5
  DEF Work, Fetch, CheckFails, Check, ConnectorFails, AckTask, WorkerCrash, TaskExpires
<1> QED BY <1>3, <1>4, <1>5

(* A worker holds a published task and what is left of its findings. *)
LEMMA WorkCrew == Bounded /\ Crew /\ Work => Crew'
<1> SUFFICES ASSUME Bounded, Crew, Work PROVE Crew'  OBVIOUS
<1>0. world' = world /\ DOMAIN lane' = DOMAIN lane
  BY WorkFrame, WorkLane
<1> DEFINE A == Answers(world)
           Fit(v) == /\ DOMAIN v = {"pc", "task", "n", "todo"} /\ v.todo \in Seq(A)
                     /\ v.pc # "idle" => v.task \in DOMAIN lane
<1>1. ASSUME NEW w \in Worker, NEW v, worker' = [worker EXCEPT ![w] = v], Fit(v) PROVE Crew'
  <2>1. DOMAIN worker' = Worker
        /\ \A x \in Worker : worker'[x] = worker[x] \/ worker'[x] = v
    BY <1>1 DEF Crew
  <2>2. \A x \in Worker : Fit(worker[x])
    BY DEF Crew
  <2> HIDE DEF A
  <2>3. \A x \in Worker : Fit(worker'[x])
    BY <1>1, <2>1, <2>2
  <2> QED BY <1>0, <2>1, <2>3 DEF Crew, A
<1>2. Fit(Free)
  <2>1. <<>> \in Seq(A)
    OBVIOUS
  <2> HIDE DEF A
  <2> QED BY <2>1 DEF Free
<1>3. \A w \in Worker : Fit(worker[w])
  BY DEF Crew
<1> HIDE DEF A
<1>f. ASSUME NEW w \in Worker, worker' = [worker EXCEPT ![w] = Free] PROVE Crew'
  <2> HIDE DEF Fit
  <2> QED BY <1>1, <1>2, <1>f
<1>p. ASSUME NEW w \in Worker, worker[w].pc # "idle", NEW pc, worker' = [worker EXCEPT ![w].pc = pc]
      PROVE  Crew'
  <2> DEFINE v == [worker[w] EXCEPT !.pc = pc]
  <2>1. Fit(v)
    BY <1>3, <1>p
  <2>2. worker' = [worker EXCEPT ![w] = v]
    BY <1>p
  <2> HIDE DEF v, Fit
  <2> QED BY <1>1, <2>1, <2>2
<1>4. ASSUME NEW w \in Worker, Fetch(w) PROVE Crew'
  <2> PICK t \in DOMAIN lane : worker' = [worker EXCEPT ![w] = [pc |-> "check", task |-> t,
                                  n |-> lane[t].n + 1, todo |-> Reports(t)]]
    BY <1>4 DEF Fetch
  <2>1. Reports(t) \in Seq(A)
    BY ReportsType DEF A
  <2> DEFINE v == [pc |-> "check", task |-> t, n |-> lane[t].n + 1, todo |-> Reports(t)]
  <2>2. Fit(v)
    BY <2>1
  <2> HIDE DEF Fit
  <2> QED BY <1>1, <2>2
<1>5. ASSUME NEW w \in Worker, CheckFails(w) \/ AckTask(w) \/ WorkerCrash(w) PROVE Crew'
  BY <1>5, <1>f DEF CheckFails, AckTask, WorkerCrash
<1>6. ASSUME NEW w \in Worker, Check(w) PROVE Crew'
  <2>1. worker[w].pc = "check"
    BY <1>6 DEF Check
  <2>2. \/ worker' = [worker EXCEPT ![w].pc = "skip"]
        \/ worker' = [worker EXCEPT ![w] = Free]
        \/ worker' = [worker EXCEPT ![w].pc = "run"]
    BY <1>6 DEF Check
  <2> QED BY <1>f, <1>p, <2>1, <2>2
<1>7. ASSUME NEW w \in Worker, Emit(w) PROVE Crew'
  <2> DEFINE v == [worker[w] EXCEPT !.todo = Tail(@)]
  <2>1. worker[w].pc = "run" /\ worker[w].todo # <<>> /\ worker[w].todo \in Seq(A)
        /\ worker' = [worker EXCEPT ![w].todo = Tail(@)]
    BY <1>3, <1>7 DEF Emit
  <2>2. Tail(worker[w].todo) \in Seq(A)
    BY <2>1
  <2>3. Fit(v)
    BY <1>3, <2>1, <2>2
  <2>4. worker' = [worker EXCEPT ![w] = v]
    BY <2>1
  <2> HIDE DEF v, Fit
  <2> QED BY <1>1, <2>3, <2>4
<1>8. ASSUME NEW w \in Worker, ConnectorFails(w) PROVE Crew'
  <2>1. worker[w].pc = "run"
    BY <1>8 DEF ConnectorFails
  <2>2. worker' = [worker EXCEPT ![w] = Free] \/ worker' = [worker EXCEPT ![w].pc = "fail"]
    BY <1>8 DEF ConnectorFails
  <2> QED BY <1>f, <1>p, <2>1, <2>2
<1>9. ASSUME NEW w \in Worker, Report(w) PROVE Crew'
  <2>1. worker[w].pc # "idle" /\ worker' = [worker EXCEPT ![w].pc = "ack"]
    BY <1>9 DEF Report
  <2> QED BY <1>p, <2>1
<1>10. ASSUME NEW t \in DOMAIN lane, TaskExpires(t) PROVE Crew'
  <2>1. worker' = worker
    BY <1>10 DEF TaskExpires
  <2> QED BY <1>0, <2>1 DEF Crew
<1> QED BY <1>4, <1>5, <1>6, <1>7, <1>8, <1>9, <1>10 DEF Work

(* Work keeps the invariant: only a report tells, and leaves a marker. *)
LEMMA WorkTInv == GInv /\ BInv /\ TInv /\ Work => TInv'
<1> SUFFICES ASSUME GInv, BInv, TInv, Work PROVE TInv'  OBVIOUS
<1> USE DEF TInv
<1>0. UNCHANGED <<world, order, submit, reducer, assets>> /\ DOMAIN lane' = DOMAIN lane
  BY WorkFrame, WorkLane
<1>1. Plan' = Plan
  BY <1>0, SamePlan
<1>2. StreamStep
  BY WorkStream DEF GInv
<1>3. Known'
  BY <1>0, WorkMessages DEF GInv, Known
<1>4. Crew'
  BY WorkCrew DEF BInv
<1>5. LaneSound'
  <2>1. \A t : (Marked(t) => Marked(t)') /\ Grown(t)' = Grown(t)
    BY <1>0, <1>2 DEF Marked, Grown, StreamStep
  <2>2. CASE Settling
    BY <1>0, <2>1, <2>2 DEF LaneSound, Settling
  <2>3. ASSUME NEW w \in Worker, Report(w) PROVE LaneSound'
    <3> PICK t : t = worker[w].task
      OBVIOUS
    <3>1. t \in DOMAIN lane
      BY <2>3 DEF Crew, Report
    <3>2. CASE UNCHANGED lane
      BY <1>0, <2>1, <3>2 DEF LaneSound
    <3>3. CASE PublishResult(Done(t, worker[w].pc # "run")) /\ Telling(t)
      <4>1. Marked(t)'
        BY <3>3, PublishedDone DEF GInv
      <4>2. \A x \in DOMAIN lane : DOMAIN lane'[x] = DOMAIN lane[x]
              /\ lane'[x].told = IF x = t THEN TRUE ELSE lane[x].told
        BY <3>1, <3>3 DEF Telling, LaneSound
      <4> QED BY <1>0, <2>1, <3>1, <4>1, <4>2 DEF LaneSound
    <3> QED BY <2>3, <3>2, <3>3 DEF Report, Telling
  <2> QED BY <2>2, <2>3, WorkSettles
<1>6. Fresh'
  BY <1>0, <1>1 DEF Fresh, Untried, Msg
<1>7. Phases'
  BY <1>0, <1>1, IdleRests DEF Phases, Msg
<1> QED BY <1>3, <1>4, <1>5, <1>6, <1>7
-----------------------------------------------------------------------------
(* The reducer's steps on the stream and the lane. *)
LEMMA ReduceFrame ==
    ASSUME Stream, Link, Reduce
    PROVE  /\ UNCHANGED <<world, submit, worker>>
           /\ DOMAIN results' = DOMAIN results
           /\ \A i \in DOMAIN results : results'[i].m = results[i].m
           /\ assets \subseteq assets'
           /\ lane' = lane \/ PublishExpanded
           /\ assets' = assets \/ Merge
<1>1. UNCHANGED <<world, submit, worker>> /\ assets \subseteq assets'
      /\ (lane' = lane \/ PublishExpanded) /\ (assets' = assets \/ Merge)
  BY DEF Reduce, Process, Take, ResultExpires, Count, Judge, Close, Scope, Merge, Ingest, Announce,
         Expand, SetExpandedTotal, Ack, RetryMessage, RecordGap, ExpandFails, PublishExpanded,
         Reducing, database
<1>2. DOMAIN results' = DOMAIN results
  BY DEF Reduce, Process, Take, ResultExpires, Count, Judge, Close, Scope, Merge, Ingest, Announce,
         Expand, SetExpandedTotal, Ack, RetryMessage, RecordGap, ExpandFails, PublishExpanded, Finish
<1>3. \A i \in DOMAIN results : results'[i].m = results[i].m
  BY ReduceStream DEF StreamStep
<1> QED BY <1>1, <1>2, <1>3

(* What is merged is about assets of the sources' answers. *)
LEMMA MergeKnown == Bounded /\ Known /\ Link /\ Phases /\ Merge => \A a \in assets' : IsAsset(a)
<1> SUFFICES ASSUME Bounded, Known, Link, Phases, Merge, NEW a \in assets' PROVE IsAsset(a)  OBVIOUS
<1>1. Msg.f \in Answers(world)
  <2>1. reducer.i \in DOMAIN results /\ reducer.m = results[reducer.i].m /\ Msg.kind = "finding"
    BY DEF Merge, Link, Phases
  <2> QED BY <2>1 DEF Known, Msg
<1>2. IsAsset(Msg.f.asset) /\ \A b \in Msg.f.ends : IsAsset(b)
  BY <1>1, ScenarioAnswers DEF Bounded
<1>3. a \in assets \/ a = Msg.f.asset \/ a \in Msg.f.ends
  BY DEF Merge
<1> QED BY <1>2, <1>3 DEF Known

(* An asset that is new has no task yet. *)
LEMMA NewUntried ==
    ASSUME Bounded, Known, Link, Phases, LaneSound, reducer.pc = "merge",
           Msg.f.asset \notin assets, Msg.f.asset.type \in Hosts
    PROVE  Untried(Msg.f.asset)
<1>1. IsAsset(Msg.f.asset)
  <2>1. reducer.i \in DOMAIN results /\ reducer.m = results[reducer.i].m /\ Msg.kind = "finding"
    BY DEF Link, Phases
  <2>2. Msg.f \in Answers(world)
    BY <2>1 DEF Known, Msg
  <2> QED BY <2>2, ScenarioAnswers DEF Bounded
<1>2. ASSUME NEW t \in DOMAIN lane, t.from = Msg.f.asset.type PROVE t.seed # Msg.f.asset.value
  <2> SUFFICES ASSUME t.seed = Msg.f.asset.value PROVE FALSE  OBVIOUS
  <2>1. t.from # "plan"
    BY <1>2 DEF Hosts
  <2>2. PICK a \in assets : a.value = t.seed /\ a.type = t.from
    BY <2>1 DEF LaneSound, Grown
  <2>3. a = [type |-> a.type, value |-> a.value]
    BY DEF Known, IsAsset
  <2>4. Msg.f.asset = [type |-> Msg.f.asset.type, value |-> Msg.f.asset.value]
    BY <1>1 DEF IsAsset
  <2>5. a = Msg.f.asset
    BY <1>2, <2>2, <2>3, <2>4
  <2> QED BY <2>5
<1> QED BY <1>2 DEF Untried

(* The task an expansion publishes next. *)
LEMMA ExpandedTask ==
    ASSUME BInv, Fresh, LaneSound, PublishExpanded
    PROVE  \E t : /\ t \in reducer.todo /\ t \in Expansion(Msg.f.asset) /\ t \notin DOMAIN lane
                  /\ DOMAIN lane' = DOMAIN lane \cup {t} /\ lane'[t] = Queued
                  /\ \A x \in DOMAIN lane : lane'[x] = lane[x]
                  /\ reducer' = [reducer EXCEPT !.todo = @ \ {t}]
<1> DEFINE t == CHOOSE x \in reducer.todo : TRUE
<1>1. /\ t \in reducer.todo /\ Publish(t) /\ reducer.pc = "publish"
      /\ reducer' = [reducer EXCEPT !.todo = @ \ {t}]
  BY DEF PublishExpanded
<1> HIDE DEF t
<1>2. t \in Expansion(Msg.f.asset) /\ t \notin DOMAIN lane
  BY <1>1 DEF BInv, Planned, Expanding, Fresh
<1> QED BY <1>1, <1>2 DEF Publish

(* The store, the crew and the lane after a step of the reducer. *)
LEMMA ReduceSound == IInv /\ GInv /\ BInv /\ TInv /\ Reduce => (Known /\ Crew /\ LaneSound)'
<1> SUFFICES ASSUME IInv, GInv, BInv, TInv, Reduce PROVE (Known /\ Crew /\ LaneSound)'  OBVIOUS
<1> USE DEF TInv
<1>1. /\ UNCHANGED <<world, submit, worker>> /\ DOMAIN results' = DOMAIN results
      /\ \A i \in DOMAIN results : results'[i].m = results[i].m
      /\ assets \subseteq assets'
      /\ lane' = lane \/ PublishExpanded
      /\ assets' = assets \/ Merge
  BY ReduceFrame DEF GInv
<1>2. Known'
  BY <1>1, MergeKnown DEF Known, GInv, BInv
<1>3. DOMAIN lane \subseteq DOMAIN lane'
  <2>1. PublishExpanded => DOMAIN lane \subseteq DOMAIN lane'
    BY DEF PublishExpanded, Publish
  <2> QED BY <1>1, <2>1
<1>4. Crew'
  BY <1>1, <1>3 DEF Crew
<1>5. \A t : (Marked(t) => Marked(t)') /\ (Grown(t) => Grown(t)')
  BY <1>1 DEF Marked, Grown
<1>6. LaneSound'
  <2>1. CASE lane' = lane
    BY <1>1, <1>5, <2>1 DEF LaneSound
  <2>2. CASE PublishExpanded
    <3>1. PICK t : /\ t \in reducer.todo /\ t \in Expansion(Msg.f.asset) /\ t \notin DOMAIN lane
                   /\ DOMAIN lane' = DOMAIN lane \cup {t} /\ lane'[t] = Queued
                   /\ \A x \in DOMAIN lane : lane'[x] = lane[x]
                   /\ reducer' = [reducer EXCEPT !.todo = @ \ {t}]
      BY <2>2, ExpandedTask
    <3>2. t.source \in world.sources /\ t.from = Msg.f.asset.type /\ t.seed = Msg.f.asset.value
      BY <3>1, TaskOrigin
    <3>3. Grown(t)
      <4>1. Msg.f.asset \in assets
        BY <2>2 DEF PublishExpanded, Fresh
      <4> QED BY <3>2, <4>1 DEF Grown
    <3>4. DOMAIN lane'[t] = {"status", "n", "told"} /\ lane'[t].told = FALSE
      BY <3>1 DEF Queued
    <3> QED BY <1>1, <1>5, <3>1, <3>2, <3>3, <3>4 DEF LaneSound
  <2> QED BY <1>1, <2>1, <2>2
<1> QED BY <1>2, <1>4, <1>6

(* Expansions stay apart from the tasks published. *)
LEMMA ReduceFresh == IInv /\ GInv /\ BInv /\ TInv /\ Reduce => Fresh'
<1> SUFFICES ASSUME IInv, GInv, BInv, TInv, Reduce PROVE Fresh'  OBVIOUS
<1> USE DEF TInv, IInv, Shape
<1>1. /\ UNCHANGED <<world, submit, worker>> /\ DOMAIN results' = DOMAIN results
      /\ \A i \in DOMAIN results : results'[i].m = results[i].m
      /\ assets \subseteq assets'
      /\ lane' = lane \/ PublishExpanded
      /\ assets' = assets \/ Merge
  BY ReduceFrame DEF GInv
<1>2. Plan' = Plan
  BY <1>1, SamePlan
<1> DEFINE SubmitFresh == submit.todo \subseteq Plan /\ submit.todo \cap DOMAIN lane = {}
<1>3. lane' = lane => SubmitFresh'
  BY <1>1, <1>2 DEF Fresh
<1>q. ASSUME lane' = lane, reducer'.pc \notin {"ingest", "announce", "expand", "publish"} PROVE Fresh'
  BY <1>1, <1>2, <1>3, <1>q DEF Fresh
<1>k. ASSUME UNCHANGED <<lane, assets>>, Msg' = Msg,
             reducer'.pc \in {"ingest", "announce"} => reducer.pc \in {"ingest", "announce"} /\ reducer'.new = reducer.new,
             reducer'.pc = "expand" => Msg.f.asset \in assets /\ Msg.f.asset.type \in Hosts /\ Untried(Msg.f.asset),
             reducer'.pc = "publish" => Msg.f.asset \in assets /\ Msg.f.asset.type \in Hosts /\ reducer'.todo \cap DOMAIN lane = {}
      PROVE  Fresh'
  BY <1>1, <1>2, <1>3, <1>k DEF Fresh, Untried
<1>4. CASE \E i \in DOMAIN results : Take(i)
  <2>1. lane' = lane /\ reducer'.pc \in {"count", "scope"}
    <3> PICK i \in DOMAIN results : Take(i)
      BY <1>4
    <3> DEFINE pc == IF results[i].m.kind = "done" THEN "count" ELSE "scope"
    <3>1. reducer' = [Resting EXCEPT !.i = i, !.m = results[i].m, !.pc = pc] /\ lane' = lane
          /\ pc \in {"count", "scope"}
      BY DEF Take
    <3> HIDE DEF pc
    <3> QED BY <3>1 DEF Resting
  <2> QED BY <1>q, <2>1
<1>5. CASE \E i \in DOMAIN results : ResultExpires(i)
  BY <1>1, <1>2, <1>3, <1>5 DEF ResultExpires, Fresh, Untried, Msg, database
<1>6. CASE Count \/ Judge \/ Close \/ Scope
  <2>1. lane' = lane /\ reducer'.pc \in {"judge", "close", "ack", "merge"}
    BY <1>6 DEF Count, Judge, Close, Scope, Go
  <2> QED BY <1>q, <2>1
<1>7. CASE Ack \/ RetryMessage
  <2>1. lane' = lane /\ reducer'.pc = "idle"
    <3>1. lane' = lane /\ reducer' = Resting
      BY <1>7 DEF Ack, RetryMessage, Finish
    <3> QED BY <3>1 DEF Resting
  <2> QED BY <1>q, <2>1
<1>8. CASE Merge
  <2>1. /\ reducer.pc = "merge" /\ lane' = lane /\ Msg' = Msg /\ reducer'.pc = "ingest"
        /\ reducer'.new = (Msg.f.asset \notin assets) /\ Msg.f.asset \in assets'
    BY <1>8 DEF Merge, Msg
  <2>2. reducer'.new /\ Msg.f.asset.type \in Hosts => Untried(Msg.f.asset)
    BY <2>1, NewUntried DEF BInv, GInv
  <2> QED BY <1>1, <1>2, <1>3, <2>1, <2>2 DEF Fresh, Untried
<1>9. CASE Ingest \/ RecordGap
  <2>1. UNCHANGED <<lane, assets>> /\ Msg' = Msg /\ reducer'.pc = "announce" /\ reducer.pc = "ingest"
        /\ reducer'.new = reducer.new
    BY <1>9 DEF Ingest, RecordGap, Go, Msg
  <2> QED BY <1>k, <2>1
<1>10. CASE Announce
  <2>1. UNCHANGED <<lane, assets>> /\ Msg' = Msg /\ reducer.pc = "announce"
        /\ reducer'.pc \in {"expand", "ack"}
        /\ (reducer'.pc = "expand" => reducer.new /\ Msg.f.asset.type \in Hosts)
    BY <1>10 DEF Announce, Go, Msg, database, Hosts
  <2>2. reducer'.pc = "expand" =>
          Msg.f.asset \in assets /\ Msg.f.asset.type \in Hosts /\ Untried(Msg.f.asset)
    BY <2>1 DEF Fresh
  <2> QED BY <1>k, <2>1, <2>2
<1>11. CASE Expand
  <2>1. UNCHANGED <<lane, assets>> /\ Msg' = Msg /\ reducer.pc = "expand"
        /\ reducer'.pc \in {"publish", "ack"}
        /\ (reducer'.pc = "publish" => reducer'.todo = Expansion(Msg.f.asset))
    BY <1>11 DEF Expand, Go, Msg, database
  <2>2. Msg.f.asset \in assets /\ Msg.f.asset.type \in Hosts /\ Untried(Msg.f.asset)
    BY <2>1 DEF Fresh
  <2>3. Expansion(Msg.f.asset) \cap DOMAIN lane = {}
    BY <2>2, TaskOrigin DEF Untried
  <2> QED BY <1>k, <2>1, <2>2, <2>3
<1>12. CASE PublishExpanded
  <2>1. PICK t : /\ t \in reducer.todo /\ t \in Expansion(Msg.f.asset) /\ t \notin DOMAIN lane
                 /\ DOMAIN lane' = DOMAIN lane \cup {t} /\ lane'[t] = Queued
                 /\ \A x \in DOMAIN lane : lane'[x] = lane[x]
                 /\ reducer' = [reducer EXCEPT !.todo = @ \ {t}]
    BY <1>12, ExpandedTask
  <2>2. /\ reducer'.pc = "publish" /\ Msg' = Msg /\ assets' = assets
        /\ reducer'.todo = reducer.todo \ {t} /\ reducer.pc = "publish"
    BY <1>12, <2>1 DEF PublishExpanded, Msg, database
  <2>3. Msg.f.asset \in assets /\ Msg.f.asset.type \in Hosts /\ reducer.todo \cap DOMAIN lane = {}
    BY <2>2 DEF Fresh
  <2>4. t.from \in Hosts
    BY <2>1, <2>3, TaskOrigin
  <2>5. t \notin submit.todo
    BY <2>4, TaskOrigin DEF Fresh, Hosts
  <2> QED BY <1>1, <1>2, <2>1, <2>2, <2>3, <2>5 DEF Fresh
<1>13. CASE SetExpandedTotal \/ ExpandFails
  <2>1. lane' = lane /\ reducer'.pc = "ack"
    BY <1>13 DEF SetExpandedTotal, ExpandFails, Go
  <2> QED BY <1>q, <2>1
<1> QED
  BY <1>4, <1>5, <1>6, <1>7, <1>8, <1>9, <1>10, <1>11, <1>12, <1>13 DEF Reduce, Process

(* What the reducer does follows the message's kind and the order's state. *)
LEMMA ReducePhases == IInv /\ GInv /\ BInv /\ TInv /\ Reduce => Phases'
<1> SUFFICES ASSUME IInv, GInv, BInv, TInv, Reduce PROVE Phases'  OBVIOUS
<1> USE DEF TInv, IInv, Shape
<1>1. UNCHANGED <<world, submit>> /\ Plan' = Plan
  BY ReduceFrame, SamePlan DEF GInv
<1>2. Plan' # {} /\ submit'.pc \notin {"new", "plan", "run"}
  BY <1>1, IdleRests DEF Phases, GInv, Early, Idle
<1> DEFINE Late == {"merge", "ingest", "announce", "expand", "publish"}
           Kinds == /\ reducer.pc \in {"count", "judge", "close"} => Msg.kind = "done"
                    /\ reducer.pc \in {"scope"} \cup Late => Msg.kind = "finding"
           Numbers == order.done \in Nat /\ order.failed \in Nat
           Over == order.state = "COMPLETED" => reducer.pc \notin Late
<1>w. Kinds' /\ Numbers' /\ Over' => Phases'
  BY <1>1, <1>2 DEF Phases
<1>o. Kinds /\ Numbers /\ Over
  BY DEF Phases
<1>3. CASE \E i \in DOMAIN results : Take(i)
  <2> PICK i \in DOMAIN results : Take(i)
    BY <1>3
  <2>1. /\ reducer'.m = results[i].m /\ UNCHANGED order
        /\ reducer'.pc = IF results[i].m.kind = "done" THEN "count" ELSE "scope"
    BY DEF Take, Resting
  <2>2. results[i].m.kind \in {"finding", "done"}
    BY DEF Known
  <2> QED BY <1>o, <1>w, <2>1, <2>2 DEF Msg
<1>4. CASE \E i \in DOMAIN results : ResultExpires(i)
  BY <1>o, <1>w, <1>4 DEF ResultExpires, Msg
<1>5. CASE Count
  <2>1. Numbers'
    BY <1>o, <1>5 DEF Count
  <2> QED BY <1>o, <1>w, <1>5, <2>1 DEF Count, Go, Msg
<1>6. CASE Judge
  BY <1>o, <1>w, <1>6 DEF Judge, Go, Msg
<1>7. CASE Close
  BY <1>o, <1>w, <1>7 DEF Close, Go, Msg
<1>8. CASE Scope
  BY <1>o, <1>w, <1>8 DEF Scope, Go, Msg
<1>9. CASE Merge \/ Ingest \/ RecordGap \/ Announce
  BY <1>o, <1>w, <1>9 DEF Merge, Ingest, RecordGap, Announce, Go, Msg
<1>10. CASE Expand \/ PublishExpanded
  BY <1>o, <1>w, <1>10 DEF Expand, PublishExpanded, Go, Msg
<1>11. CASE SetExpandedTotal \/ ExpandFails
  BY <1>o, <1>w, <1>11 DEF SetExpandedTotal, ExpandFails, Go, Msg
<1>12. CASE Ack \/ RetryMessage
  <2>1. reducer' = Resting /\ order' = order
    BY <1>12 DEF Ack, RetryMessage, Finish
  <2>2. reducer'.pc = "idle"
    BY <2>1 DEF Resting
  <2> QED BY <1>o, <1>w, <2>1, <2>2
<1> QED
  BY <1>3, <1>4, <1>5, <1>6, <1>7, <1>8, <1>9, <1>10, <1>11, <1>12 DEF Reduce, Process

LEMMA InitTInv == Init => TInv
<1> SUFFICES ASSUME Init PROVE TInv  OBVIOUS
<1>1. /\ DOMAIN lane = {} /\ DOMAIN results = {} /\ results = <<>> /\ assets = {}
      /\ submit = [pc |-> "new", todo |-> {}]
      /\ order = [state |-> "none", total |-> 0, done |-> 0, failed |-> 0]
      /\ worker = [w \in Worker |-> Free]
  BY DEF Init
<1>2. reducer.pc = "idle"
  BY DEF Init, Resting
<1>3. Free = [pc |-> "idle", task |-> <<>>, n |-> 0, todo |-> <<>>]
  BY DEF Free
<1>4. \A w \in Worker : worker[w] = Free /\ worker[w].pc = "idle"
  BY <1>1, <1>3
<1>5. Crew
  <2>1. <<>> \in Seq(Answers(world))
    OBVIOUS
  <2> HIDE DEF Answers
  <2> QED BY <1>1, <1>3, <1>4, <2>1 DEF Crew
<1>6. Known /\ LaneSound
  BY <1>1 DEF Known, LaneSound
<1>7. Fresh
  BY <1>1, <1>2 DEF Fresh
<1>8. Phases
  BY <1>1, <1>2, <1>4 DEF Phases, Idle
<1> QED BY <1>5, <1>6, <1>7, <1>8 DEF TInv

LEMMA NextTInv == IInv /\ GInv /\ BInv /\ TInv /\ [Next]_vars => TInv'
<1> SUFFICES ASSUME IInv, GInv, BInv, TInv, [Next]_vars PROVE TInv'  OBVIOUS
<1>1. CASE Reduce
  BY <1>1, ReduceSound, ReduceFresh, ReducePhases DEF TInv
<1> QED BY <1>1, SubmitTInv, WorkTInv, OtherTInv DEF Next
-----------------------------------------------------------------------------
(* The accounts: what is owed and not told of, the markers not counted     *)
(* yet, the markers counted, and the total they are compared with.         *)
Told(t)    == t \in DOMAIN lane /\ lane[t].told
Untold     == {t \in Owed : ~ Told(t)}
Counted(i) == results[i].st = "acked" \/ (reducer.i = i /\ reducer.pc \in {"judge", "close", "ack"})
Pending    == {i \in DOMAIN results : results[i].m.kind = "done" /\ ~ Counted(i)}

Markers == Cardinality(Pending)
Missing == Cardinality(Untold)
Tally   == order.done + order.failed
Target  == order.total + Raising
Excess  == Disturbances * Share

Balance == Missing + Markers + Tally <= Target + Excess

(* The reducer holds its message. *)
Holding == reducer.pc # "idle" => results[reducer.i].st = "held"

(* Who closes an order as completed has heard of its tasks. *)
Closing == order.state = "COMPLETED" \/ (reducer.pc = "close" /\ reducer.state = "COMPLETED")
Covered == Closing => Missing <= Excess

CInv == Holding /\ Balance /\ Covered

Base == IInv /\ GInv /\ BInv /\ TInv

-----------------------------------------------------------------------------
(* The accounts are numbers. *)
Numbers == /\ Missing \in Nat /\ Markers \in Nat /\ Tally \in Nat /\ Target \in Nat
           /\ Excess \in Nat /\ Share \in Nat /\ IsFiniteSet(Untold) /\ IsFiniteSet(Pending)

LEMMA NumbersHold == Base => Numbers
<1> SUFFICES ASSUME Base PROVE Numbers  OBVIOUS
<1> USE DEF Base, BInv
<1>1. IsFiniteSet(Untold) /\ Missing \in Nat
  <2>1. Untold \subseteq Owed
    BY DEF Untold
  <2>2. IsFiniteSet(Untold)
    BY <2>1, FS_Subset DEF Room
  <2> QED BY <2>2, FS_CardinalityType DEF Missing
<1>2. IsFiniteSet(Pending) /\ Markers \in Nat
  <2>1. PICK S : results \in Seq(Entry(S))
    BY DEF GInv, Stream
  <2>2. DOMAIN results = 1..Len(results) /\ Len(results) \in Nat
    BY <2>1
  <2>3. IsFiniteSet(1..Len(results))
    BY <2>2, FS_Interval
  <2>4. Pending \subseteq 1..Len(results)
    BY <2>2 DEF Pending
  <2>5. IsFiniteSet(Pending)
    BY <2>3, <2>4, FS_Subset
  <2> QED BY <2>5, FS_CardinalityType DEF Markers
<1>3. Tally \in Nat
  BY DEF Tally, TInv, Phases
<1>4. Target \in Nat
  BY RaisingType DEF Target, Room
<1>5. Share \in Nat /\ Excess \in Nat
  <2>1. Share \in Nat
    BY RaisingType
  <2>2. Disturbances \in Nat
    BY ScenarioBounds DEF Bounded, Disturbances, Chances
  <2> QED BY <2>1, <2>2, MoreShares DEF Excess
<1> QED BY <1>1, <1>2, <1>3, <1>4, <1>5 DEF Numbers

(* What a disturbance allows. *)
LEMMA ExcessGrows ==
    ASSUME Bounded, world' = world, left' = left \/ \E k \in Chances : Spend(k)
    PROVE  /\ Excess' >= Excess + 0
           /\ Spend("faults") \/ Spend("crashes") \/ Spend("windows") => Excess' >= Excess + Share
<1>1. Share \in Nat
  BY RaisingType
<1>2. Share' = Share
  BY DEF Share
<1>3. /\ Disturbances \in Nat /\ Disturbances' \in Nat /\ Disturbances' >= Disturbances
      /\ Spend("faults") \/ Spend("crashes") \/ Spend("windows") =>
           Disturbances' = Disturbances + 1
  BY Spending
<1>4. Disturbances' * Share >= Disturbances * Share
      /\ (Disturbances' = Disturbances + 1 => Disturbances' * Share = Disturbances * Share + Share)
  BY <1>1, <1>3, MoreShares
<1>5. Disturbances * Share \in Nat /\ Disturbances' * Share \in Nat
  BY <1>1, <1>3, MoreShares
<1>6. Excess = Disturbances * Share /\ Excess' = Disturbances' * Share
  BY <1>2 DEF Excess
<1>7. PICK a \in Nat, b \in Nat : a = Disturbances * Share /\ b = Disturbances' * Share
  BY <1>5
<1>8. b >= a + 0 /\ (Disturbances' = Disturbances + 1 => b >= a + Share)
  BY <1>1, <1>4, <1>7
<1>9. Excess = a /\ Excess' = b
  BY <1>6, <1>7
<1> QED BY <1>3, <1>8, <1>9

(* One element more or less. *)
LEMMA SetSizes ==
    ASSUME NEW S, IsFiniteSet(S), NEW R, IsFiniteSet(R)
    PROVE  /\ R \subseteq S => Cardinality(R) <= Cardinality(S)
           /\ \A x : R \subseteq S \cup {x} => Cardinality(R) <= Cardinality(S) + 1
           /\ \A x \in S : R \subseteq S \ {x} => Cardinality(R) <= Cardinality(S) - 1
<1>0. Cardinality(S) \in Nat /\ Cardinality(R) \in Nat
  BY FS_CardinalityType
<1>1. R \subseteq S => Cardinality(R) <= Cardinality(S)
  BY FS_Subset
<1>2. ASSUME NEW x, R \subseteq S \cup {x} PROVE Cardinality(R) <= Cardinality(S) + 1
  <2>1. IsFiniteSet(S \cup {x}) /\ Cardinality(S \cup {x}) <= Cardinality(S) + 1
    <3>1. /\ IsFiniteSet(S \cup {x})
          /\ Cardinality(S \cup {x}) = IF x \in S THEN Cardinality(S) ELSE Cardinality(S) + 1
      BY FS_AddElement
    <3> QED BY <1>0, <3>1
  <2>2. Cardinality(R) <= Cardinality(S \cup {x}) /\ Cardinality(S \cup {x}) \in Nat
    BY <1>2, <2>1, FS_Subset, FS_CardinalityType
  <2> QED BY <1>0, <2>1, <2>2
<1>3. ASSUME NEW x \in S, R \subseteq S \ {x} PROVE Cardinality(R) <= Cardinality(S) - 1
  <2>1. IsFiniteSet(S \ {x}) /\ Cardinality(S \ {x}) = Cardinality(S) - 1
    BY FS_RemoveElement
  <2>2. Cardinality(R) <= Cardinality(S \ {x})
    BY <1>3, <2>1, FS_Subset
  <2> QED BY <2>1, <2>2
<1> QED BY <1>1, <1>2, <1>3

(* The accounts stay balanced when what one side gains the other does. *)
Moves(m, k, c, t, e) ==
  /\ Missing' <= Missing + m /\ Markers' <= Markers + k /\ Tally' <= Tally + c
  /\ Target' >= Target + t /\ Excess' >= Excess + e

LEMMA BalanceMoved ==
    ASSUME Numbers, Numbers', Balance,
           NEW m \in Int, NEW k \in Int, NEW c \in Int, NEW t \in Int, NEW e \in Int,
           Moves(m, k, c, t, e), m + k + c <= t + e
    PROVE  Balance'
<1>1. /\ Missing \in Nat /\ Markers \in Nat /\ Tally \in Nat /\ Target \in Nat /\ Excess \in Nat
      /\ Missing' \in Nat /\ Markers' \in Nat /\ Tally' \in Nat /\ Target' \in Nat /\ Excess' \in Nat
  BY DEF Numbers
<1>2. PICK v \in Nat, w \in Nat, x \in Nat, y \in Nat, z \in Nat :
        v = Missing' /\ w = Markers' /\ x = Tally' /\ y = Target' /\ z = Excess'
  BY <1>1
<1>3. Missing + Markers + Tally <= Target + Excess
  BY DEF Balance
<1>4. /\ v <= Missing + m /\ w <= Markers + k /\ x <= Tally + c
      /\ y >= Target + t /\ z >= Excess + e
  BY <1>2, Zenon DEF Moves
<1>5. v + w + x <= y + z
  BY <1>1, <1>3, <1>4
<1>6. Missing' + Markers' + Tally' <= Target' + Excess'
  BY <1>2, <1>5, Zenon
<1> QED BY <1>6 DEF Balance
-----------------------------------------------------------------------------
(* Who is told of stays told of. *)
LEMMA ToldKept == Base /\ [Next]_vars => \A t : Told(t) => Told(t)'
<1> SUFFICES ASSUME Base, [Next]_vars PROVE \A t : Told(t) => Told(t)'  OBVIOUS
<1> USE DEF Base, TInv
<1>1. lane' = lane => \A t : Told(t) => Told(t)'
  BY DEF Told
<1>2. ASSUME NEW t, t \notin DOMAIN lane, Publish(t) PROVE \A x : Told(x) => Told(x)'
  BY <1>2 DEF Told, Publish
<1>3. CASE Submit
  <2>1. CASE Dispatch
    <3> DEFINE t == CHOOSE x \in submit.todo : TRUE
    <3>1. t \in submit.todo /\ Publish(t)
      BY <2>1 DEF Dispatch
    <3> HIDE DEF t
    <3> QED BY <1>2, <3>1 DEF Fresh
  <2>2. CASE ~ Dispatch
    BY <1>1, <1>3, <2>2 DEF Submit, SubmitFails, InsertOrder, SetTotal, SetRunning, SubmitReturns
  <2> QED BY <2>1, <2>2
<1>4. CASE Work
  <2>1. CASE Settling
    BY <2>1 DEF Told, Settling
  <2>2. ASSUME NEW w \in Worker, Report(w) PROVE \A x : Told(x) => Told(x)'
    <3>1. UNCHANGED lane \/ lane' = [lane EXCEPT ![worker[w].task].told = TRUE]
      BY <2>2 DEF Report
    <3>2. \A x \in DOMAIN lane : DOMAIN lane[x] = {"status", "n", "told"}
      BY DEF LaneSound
    <3> QED BY <1>1, <3>1, <3>2 DEF Told
  <2> QED BY <1>4, <2>1, <2>2, WorkSettles
<1>5. CASE Reduce
  <2>1. lane' = lane \/ PublishExpanded
    BY <1>5, ReduceFrame DEF GInv
  <2>2. CASE PublishExpanded
    <3>1. PICK t : /\ t \in reducer.todo /\ t \in Expansion(Msg.f.asset) /\ t \notin DOMAIN lane
                   /\ DOMAIN lane' = DOMAIN lane \cup {t} /\ lane'[t] = Queued
                   /\ \A x \in DOMAIN lane : lane'[x] = lane[x]
                   /\ reducer' = [reducer EXCEPT !.todo = @ \ {t}]
      BY <2>2, ExpandedTask
    <3> QED BY <3>1 DEF Told
  <2> QED BY <1>1, <2>1, <2>2
<1>6. CASE End \/ BudgetElapses \/ Crash \/ UNCHANGED vars
  BY <1>1, <1>6 DEF End, Cancel, HandleRevocation, SweepOnce, SetEnded, SetEndedFails, Ending,
                    BudgetElapses, Crash, vars
<1> QED BY <1>3, <1>4, <1>5, <1>6 DEF Next

(* Only the plan and an expansion add to what is owed. *)
LEMMA OwedKept == Base /\ [Next]_vars => SetTotal \/ Expand \/ Owed' \subseteq Owed
<1> SUFFICES ASSUME Base, [Next]_vars, ~ SetTotal, ~ Expand PROVE Owed' \subseteq Owed  OBVIOUS
<1> USE DEF Base, IInv, Shape
<1>1. world' = world => \A a : Expansion(a)' = Expansion(a)
  BY SamePlan
<1>2. CASE Submit
  <2>1. UNCHANGED <<world, reducer>>
    BY <1>2 DEF Submit, SubmitFails, InsertOrder, SetTotal, SetRunning, Dispatch, SubmitReturns,
                Submitted
  <2>2. Expanding' = Expanding
    BY <1>1, <2>1 DEF Expanding, Msg
  <2> QED BY <1>2, <2>2 DEF Submit, SubmitFails, InsertOrder, SetRunning, Dispatch, SubmitReturns,
                         Owed, Publish
<1>3. CASE End \/ Work \/ BudgetElapses \/ UNCHANGED vars
  <2>1. UNCHANGED <<world, reducer, submit>> /\ DOMAIN lane' = DOMAIN lane
    BY <1>3, WorkLane, WorkFrame
    DEF End, Cancel, HandleRevocation, SweepOnce, SetEnded, SetEndedFails, Ending, BudgetElapses, vars
  <2> QED BY <1>1, <2>1 DEF Owed, Expanding, Msg
<1>4. CASE Crash
  <2>1. UNCHANGED <<world, lane>> /\ reducer'.pc = "idle" /\ submit'.todo = submit.todo
    BY <1>4 DEF Crash, Resting
  <2> QED BY <2>1 DEF Owed, Expanding
<1>5. CASE Reduce
  <2>0. UNCHANGED <<world, submit>> /\ (lane' = lane \/ PublishExpanded)
    BY <1>5, ReduceFrame DEF GInv
  <2>1. reducer'.pc = "publish" => reducer.pc = "publish" /\ Msg' = Msg
    <3>1. CASE \E i \in DOMAIN results : Take(i)
      BY <3>1 DEF Take, Resting
    <3>2. CASE \E i \in DOMAIN results : ResultExpires(i)
      BY <3>2 DEF ResultExpires, Msg
    <3>3. CASE Count \/ Judge \/ Close \/ Scope \/ Merge \/ Ingest \/ Announce \/ RecordGap
      BY <3>3 DEF Count, Judge, Close, Scope, Merge, Ingest, Announce, RecordGap, Go
    <3>4. CASE PublishExpanded \/ SetExpandedTotal \/ ExpandFails
      BY <3>4 DEF PublishExpanded, SetExpandedTotal, ExpandFails, Go, Msg
    <3>5. CASE Ack \/ RetryMessage
      <4>1. reducer' = Resting
        BY <3>5 DEF Ack, RetryMessage, Finish
      <4> QED BY <4>1 DEF Resting
    <3> QED BY <1>5, <3>1, <3>2, <3>3, <3>4, <3>5 DEF Reduce, Process
  <2>2. Expanding' \subseteq Expanding
    BY <1>1, <2>0, <2>1 DEF Expanding
  <2>3. DOMAIN lane' \subseteq Owed
    <3>1. CASE PublishExpanded
      <4>1. PICK t : /\ t \in reducer.todo /\ t \in Expansion(Msg.f.asset) /\ t \notin DOMAIN lane
                   /\ DOMAIN lane' = DOMAIN lane \cup {t} /\ lane'[t] = Queued
                   /\ \A x \in DOMAIN lane : lane'[x] = lane[x]
                   /\ reducer' = [reducer EXCEPT !.todo = @ \ {t}]
        BY <3>1, ExpandedTask DEF TInv
      <4>2. t \in Expanding
        BY <3>1, <4>1 DEF PublishExpanded, Expanding
      <4> QED BY <4>1, <4>2 DEF Owed
    <3> QED BY <2>0, <3>1 DEF Owed
  <2> QED BY <2>0, <2>2, <2>3 DEF Owed
<1> QED BY <1>2, <1>3, <1>4, <1>5 DEF Next

LEMMA UntoldKept == Base /\ [Next]_vars => SetTotal \/ Expand \/ Untold' \subseteq Untold
  BY ToldKept, OwedKept DEF Untold
-----------------------------------------------------------------------------
LEMMA NextBase == Base /\ [Next]_vars => Base'
  BY NextIInv, NextGInv, NextBInv, NextTInv DEF Base

(* What was counted stays counted, and a new message is no marker, except  *)
(* where a worker reports or the reducer loses its message.                *)
MarkersKept ==
  \A i \in DOMAIN results' : results'[i].m.kind = "done" =>
    /\ i \in DOMAIN results /\ results'[i].m = results[i].m
    /\ Counted(i) => Counted(i)'

(* The other steps of the reducer on the stream. *)
LEMMA ReduceMarkers == Base /\ Holding /\ Reduce => RetryMessage \/ MarkersKept
<1> SUFFICES ASSUME Base, Holding, Reduce, ~ RetryMessage PROVE MarkersKept  OBVIOUS
<1> USE DEF Base, IInv, Shape
<1>0. DOMAIN results' = DOMAIN results /\ \A i \in DOMAIN results : results'[i].m = results[i].m
  BY ReduceFrame DEF GInv
<1>e. \A i \in DOMAIN results : DOMAIN results[i] = {"m", "st", "n"}
  <2> PICK S : results \in Seq(Entry(S))
    BY DEF GInv, Stream
  <2>1. \A i \in DOMAIN results : results[i] \in Entry(S)
    BY LenProperties, ElementOfSeq
  <2> QED BY <2>1 DEF Entry
<1>w. (\A i \in DOMAIN results : Counted(i) => Counted(i)') => MarkersKept
  BY <1>0 DEF MarkersKept
<1>g. ASSUME results' = results, reducer'.i = reducer.i,
             reducer.pc \in {"judge", "close", "ack"} => reducer'.pc \in {"judge", "close", "ack"}
      PROVE  MarkersKept
  BY <1>w, <1>g DEF Counted
<1>1. ASSUME NEW j \in DOMAIN results, Take(j) PROVE MarkersKept
  <2>1. reducer.pc = "idle" /\ results[j].st # "acked"
        /\ \A i \in DOMAIN results : i # j => results'[i] = results[i]
    BY <1>1 DEF Take
  <2> QED BY <1>w, <2>1 DEF Counted
<1>2. ASSUME NEW j \in DOMAIN results, ResultExpires(j) PROVE MarkersKept
  <2>1. reducer' = reducer /\ reducer.i # j /\ results[j].st # "acked"
        /\ \A i \in DOMAIN results : i # j => results'[i] = results[i]
    BY <1>2 DEF ResultExpires
  <2> QED BY <1>w, <2>1 DEF Counted
<1>3. CASE Ack
  <2>1. reducer.i \in DOMAIN results /\ results' = [results EXCEPT ![reducer.i].st = "acked"]
    BY <1>3 DEF Ack, Finish, GInv, Link
  <2>2. results'[reducer.i].st = "acked"
        /\ \A i \in DOMAIN results : i # reducer.i => results'[i] = results[i]
    BY <1>e, <2>1
  <2> QED BY <1>w, <2>2 DEF Counted
<1>4. CASE Count \/ Close \/ Scope \/ Merge \/ Ingest \/ Announce \/ RecordGap
  BY <1>g, <1>4 DEF Count, Close, Scope, Merge, Ingest, Announce, RecordGap, Go
<1>5. CASE Judge
  BY <1>g, <1>5 DEF Judge, Go
<1>6. CASE Expand \/ PublishExpanded \/ SetExpandedTotal \/ ExpandFails
  BY <1>g, <1>6 DEF Expand, PublishExpanded, SetExpandedTotal, ExpandFails, Go
<1> QED BY <1>1, <1>2, <1>3, <1>4, <1>5, <1>6 DEF Reduce, Process

LEMMA PendingKept ==
    Base /\ Holding /\ [Next]_vars =>
      RetryMessage \/ Crash \/ (\E w \in Worker : Report(w)) \/ Pending' \subseteq Pending
<1> SUFFICES ASSUME Base, Holding, [Next]_vars, ~ RetryMessage, ~ Crash,
                    ~ \E w \in Worker : Report(w)
             PROVE  Pending' \subseteq Pending
  OBVIOUS
<1>w. MarkersKept => Pending' \subseteq Pending
  BY DEF MarkersKept, Pending
<1>s. UNCHANGED <<results, reducer>> => MarkersKept
  BY DEF MarkersKept, Counted
<1>1. ASSUME NEW w \in Worker, Emit(w) PROVE MarkersKept
  <2> DEFINE m == Finding(worker[w].task, Head(worker[w].todo))
  <2>1. PublishResult(m) /\ reducer' = reducer
    BY <1>1 DEF Emit, Working
  <2>2. m.kind # "done"
    BY DEF Finding
  <2> HIDE DEF m
  <2>3. CASE Stored(m)
    <3> DEFINE e == [m |-> m, st |-> "new", n |-> 0]
    <3>1. e.m = m
      OBVIOUS
    <3>2. \A i \in DOMAIN results' :
            (i \in DOMAIN results /\ results'[i] = results[i]) \/ results'[i] = e
      BY <2>3, StoredStep DEF Base, GInv
    <3> HIDE DEF e
    <3> QED BY <2>1, <2>2, <3>1, <3>2 DEF MarkersKept, Counted
  <2> QED BY <1>s, <2>1, <2>3 DEF PublishResult
<1>2. CASE Work
  <2>1. CASE \E w \in Worker : Emit(w)
    BY <1>1, <1>w, <2>1
  <2>2. CASE ~ \E w \in Worker : Emit(w)
    <3>1. UNCHANGED <<results, reducer>>
      BY <1>2, <2>2 DEF Work, Working, Fetch, CheckFails, Check, ConnectorFails, AckTask, WorkerCrash,
                        TaskExpires
    <3> QED BY <1>s, <1>w, <3>1
  <2> QED BY <2>1, <2>2
<1>3. CASE Submit \/ End \/ BudgetElapses \/ UNCHANGED vars
  <2>1. UNCHANGED <<results, reducer>>
    BY <1>3 DEF Submit, SubmitFails, InsertOrder, SetTotal, SetRunning, Dispatch, SubmitReturns,
                Submitted, End, Cancel, HandleRevocation, SweepOnce, SetEnded, SetEndedFails, Ending,
                BudgetElapses, vars
  <2> QED BY <1>s, <1>w, <2>1
<1>4. CASE Reduce
  BY <1>4, <1>w, ReduceMarkers
<1> QED BY <1>2, <1>3, <1>4 DEF Next

(* Only the reducer counts. *)
LEMMA TallyKept == Base /\ [Next]_vars => Count \/ Tally' = Tally
<1> SUFFICES ASSUME Base, [Next]_vars, ~ Count PROVE Tally' = Tally  OBVIOUS
<1> USE DEF Base, IInv, Shape
<1>1. order'.done = order.done /\ order'.failed = order.failed
  <2>1. CASE Submit
    BY <2>1 DEF Submit, SubmitFails, InsertOrder, SetTotal, SetRunning, Dispatch, SubmitReturns
  <2>2. CASE End
    BY <2>2 DEF End, Cancel, HandleRevocation, SweepOnce, SetEnded, SetEndedFails
  <2>3. CASE Work \/ BudgetElapses \/ Crash \/ UNCHANGED vars
    BY <2>3, WorkFrame DEF BudgetElapses, Crash, vars
  <2>4. CASE Reduce
    BY <2>4 DEF Reduce, Process, Take, ResultExpires, Judge, Close, Scope, Merge, Ingest, Announce,
                Expand, PublishExpanded, SetExpandedTotal, Ack, RetryMessage, RecordGap, ExpandFails
  <2> QED BY <2>1, <2>2, <2>3, <2>4 DEF Next
<1> QED BY <1>1 DEF Tally

(* The total is compared as raised by the expansion that is published. *)
LEMMA TargetKept ==
    Base /\ [Next]_vars => SetTotal \/ Expand \/ ExpandFails \/ Crash \/ Target' = Target
<1> SUFFICES ASSUME Base, [Next]_vars, ~ SetTotal, ~ Expand, ~ ExpandFails, ~ Crash
             PROVE  Target' = Target
  OBVIOUS
<1> USE DEF Base, IInv, Shape
<1>0. world' = world => \A a : Expansion(a)' = Expansion(a)
  BY SamePlan
<1>n. Raising \in Nat /\ order.total \in Nat
  BY RaisingType DEF BInv, Room
<1>q. ASSUME order'.total = order.total, Expanding' = Expanding PROVE Target' = Target
  BY <1>q DEF Target, Raising
<1>1. CASE Submit
  <2>1. UNCHANGED <<world, reducer>> /\ order'.total = order.total
    BY <1>1 DEF Submit, SubmitFails, InsertOrder, SetRunning, Dispatch, SubmitReturns, Submitted
  <2>2. Expanding' = Expanding
    BY <1>0, <2>1 DEF Expanding, Msg
  <2> QED BY <1>q, <2>1, <2>2
<1>2. CASE End \/ Work \/ BudgetElapses \/ UNCHANGED vars
  <2>1. UNCHANGED <<world, reducer>> /\ order'.total = order.total
    BY <1>2, WorkFrame
    DEF End, Cancel, HandleRevocation, SweepOnce, SetEnded, SetEndedFails, Ending, BudgetElapses, vars
  <2>2. Expanding' = Expanding
    BY <1>0, <2>1 DEF Expanding, Msg
  <2> QED BY <1>q, <2>1, <2>2
<1>3. CASE Reduce
  <2>0. world' = world
    BY <1>3, ReduceFrame DEF GInv
  <2>q. ASSUME reducer.pc # "publish", reducer'.pc # "publish", order'.total = order.total
        PROVE  Target' = Target
    BY <1>q, <2>q DEF Expanding
  <2>s. ASSUME reducer.pc = "publish", reducer'.pc = "publish", Msg' = Msg, order' = order
        PROVE  Target' = Target
    <3>1. Expanding' = Expanding
      BY <1>0, <2>0, <2>s DEF Expanding
    <3> QED BY <1>q, <2>s, <3>1
  <2>1. CASE \E i \in DOMAIN results : Take(i)
    <3> PICK i \in DOMAIN results : Take(i)
      BY <2>1
    <3> DEFINE pc == IF results[i].m.kind = "done" THEN "count" ELSE "scope"
    <3>1. reducer' = [Resting EXCEPT !.i = i, !.m = results[i].m, !.pc = pc] /\ order' = order
          /\ pc \in {"count", "scope"} /\ reducer.pc = "idle"
      BY DEF Take
    <3> HIDE DEF pc
    <3>2. reducer'.pc # "publish"
      BY <3>1 DEF Resting
    <3> QED BY <2>q, <3>1, <3>2
  <2>2. CASE \E i \in DOMAIN results : ResultExpires(i)
    <3>1. UNCHANGED <<order, reducer>>
      BY <2>2 DEF ResultExpires
    <3>2. Expanding' = Expanding
      BY <1>0, <2>0, <3>1 DEF Expanding, Msg
    <3> QED BY <1>q, <3>1, <3>2
  <2>3. CASE Count \/ Judge \/ Close \/ Scope
    <3>1. reducer.pc # "publish" /\ reducer'.pc # "publish" /\ order'.total = order.total
      BY <2>3 DEF Count, Judge, Close, Scope, Go
    <3> QED BY <2>q, <3>1
  <2>4. CASE Merge \/ Ingest \/ Announce \/ RecordGap
    <3>1. reducer.pc # "publish" /\ reducer'.pc # "publish" /\ order'.total = order.total
      BY <2>4 DEF Merge, Ingest, Announce, RecordGap, Go
    <3> QED BY <2>q, <3>1
  <2>5. CASE Ack \/ RetryMessage
    <3>1. reducer' = Resting /\ reducer.pc # "publish" /\ order' = order
      BY <2>5 DEF Ack, RetryMessage, Finish
    <3>2. reducer'.pc # "publish"
      BY <3>1 DEF Resting
    <3> QED BY <2>q, <3>1, <3>2
  <2>6. CASE PublishExpanded
    BY <2>6, <2>s DEF PublishExpanded, Msg
  <2>7. CASE SetExpandedTotal
    <3>1. order'.total = order.total + Raising /\ reducer'.pc = "ack"
      BY <2>7 DEF SetExpandedTotal, Go, BInv, Planned
    <3>2. Raising' = 0
      BY <3>1, FS_EmptySet DEF Raising, Expanding
    <3>3. Target' = order'.total + 0
      BY <3>2 DEF Target
    <3> HIDE DEF Raising
    <3>4. Target' = order.total + Raising
      BY <1>n, <3>1, <3>3
    <3> QED BY <3>4 DEF Target
  <2> QED BY <1>3, <2>1, <2>2, <2>3, <2>4, <2>5, <2>6, <2>7 DEF Reduce, Process
<1> QED BY <1>1, <1>2, <1>3 DEF Next
-----------------------------------------------------------------------------
LEMMA Environment == [Next]_vars => world' = world /\ (left' = left \/ \E k \in Chances : Spend(k))
<1> SUFFICES ASSUME [Next]_vars PROVE world' = world /\ (left' = left \/ \E k \in Chances : Spend(k))
  OBVIOUS
<1> USE DEF Chances
<1>1. CASE Submit
  BY <1>1 DEF Submit, SubmitFails, InsertOrder, SetTotal, SetRunning, Dispatch, SubmitReturns, Submitted
<1>2. CASE End
  BY <1>2 DEF End, Cancel, HandleRevocation, SweepOnce, SetEnded, SetEndedFails, Ending
<1>3. CASE Work
  BY <1>3 DEF Work, Working, Fetch, CheckFails, Check, Emit, ConnectorFails, Report, AckTask,
              WorkerCrash, TaskExpires, PublishResult
<1>4. CASE Reduce
  BY <1>4 DEF Reduce, Process, Take, ResultExpires, Count, Judge, Close, Scope, Merge, Ingest, Announce,
              Expand, PublishExpanded, SetExpandedTotal, Ack, RetryMessage, RecordGap, ExpandFails,
              Reducing
<1>5. CASE BudgetElapses \/ Crash \/ UNCHANGED vars
  BY <1>5 DEF BudgetElapses, Crash, vars
<1> QED BY <1>1, <1>2, <1>3, <1>4, <1>5 DEF Next

LEMMA CrashRests == Crash => reducer'.pc = "idle"
<1>1. Crash => reducer' = Resting
  BY DEF Crash
<1>2. Resting.pc = "idle"
  BY DEF Resting
<1> QED BY <1>1, <1>2

(* A share is a task at least, where there is anything to count. *)
LEMMA ShareOne == Base /\ ~ Idle => Share >= 1
<1> SUFFICES ASSUME Base, ~ Idle PROVE Share >= 1  OBVIOUS
<1>1. PICK t : t \in Plan
  BY DEF Base, TInv, Phases
<1>2. world.sources # {} /\ IsFiniteSet(world.sources)
  BY <1>1, TaskOrigin, ScenarioBounds DEF Base, BInv, Bounded
<1>3. Share # 0 /\ Share \in Nat
  BY <1>2, FS_EmptySet, FS_CardinalityType DEF Share
<1> QED BY <1>3

(* The accounts as the sets move. *)
LEMMA SetsMove ==
    ASSUME Numbers, Numbers'
    PROVE  /\ Untold' \subseteq Untold => Missing' <= Missing + 0
           /\ \A t \in Untold : Untold' \subseteq Untold \ {t} => Missing' <= Missing + (-1)
           /\ Pending' \subseteq Pending => Markers' <= Markers + 0
           /\ \A i : Pending' \subseteq Pending \cup {i} => Markers' <= Markers + 1
           /\ \A i \in Pending : Pending' \subseteq Pending \ {i} => Markers' <= Markers + (-1)
<1> PICK U : U = Untold'  OBVIOUS
<1> PICK P : P = Pending'  OBVIOUS
<1>1. IsFiniteSet(Untold) /\ IsFiniteSet(Pending) /\ IsFiniteSet(U) /\ IsFiniteSet(P)
  BY DEF Numbers
<1>2. /\ Missing = Cardinality(Untold) /\ Markers = Cardinality(Pending)
      /\ Missing' = Cardinality(U) /\ Markers' = Cardinality(P)
  BY DEF Missing, Markers
<1>3. /\ Cardinality(Untold) \in Nat /\ Cardinality(Pending) \in Nat
      /\ Cardinality(U) \in Nat /\ Cardinality(P) \in Nat
  BY <1>1, FS_CardinalityType
<1>4. /\ U \subseteq Untold => Cardinality(U) <= Cardinality(Untold) + 0
      /\ \A t \in Untold : U \subseteq Untold \ {t} => Cardinality(U) <= Cardinality(Untold) + (-1)
  BY <1>1, <1>3, SetSizes
<1>5. /\ P \subseteq Pending => Cardinality(P) <= Cardinality(Pending) + 0
      /\ \A i : P \subseteq Pending \cup {i} => Cardinality(P) <= Cardinality(Pending) + 1
      /\ \A i \in Pending : P \subseteq Pending \ {i} => Cardinality(P) <= Cardinality(Pending) + (-1)
  BY <1>1, <1>3, SetSizes
<1> QED BY <1>2, <1>4, <1>5, Zenon

(* A number that stays is no less and no more. *)
LEMMA NumbersStay ==
    ASSUME Numbers
    PROVE  /\ Tally' = Tally => Tally' <= Tally + 0
           /\ Target' = Target => Target' >= Target + 0
<1>1. Tally <= Tally + 0 /\ Target >= Target + 0
  BY DEF Numbers
<1> QED BY <1>1, Zenon

(* Most steps keep the accounts as they are. *)
LEMMA QuietBalance ==
    ASSUME Base, CInv, [Next]_vars,
           ~ SetTotal, ~ Expand, ~ ExpandFails, ~ Crash, ~ Count, ~ RetryMessage,
           ~ \E w \in Worker : Report(w)
    PROVE  Balance'
<1>1. Numbers /\ Numbers'
  BY NextBase, NumbersHold, PTL
<1>2. Missing' <= Missing + 0 /\ Markers' <= Markers + 0
  BY <1>1, UntoldKept, PendingKept, SetsMove DEF CInv
<1>3. Tally' <= Tally + 0 /\ Target' >= Target + 0
  BY <1>1, TallyKept, TargetKept, NumbersStay
<1>4. Excess' >= Excess + 0
  BY Environment, ExcessGrows DEF Base, BInv
<1>5. Moves(0, 0, 0, 0, 0)
  BY <1>2, <1>3, <1>4, Zenon DEF Moves
<1> QED BY <1>1, <1>5, BalanceMoved DEF CInv

(* A marker counted is pending no more. *)
LEMMA CountBalance == Base /\ CInv /\ Count => Balance'
<1> SUFFICES ASSUME Base, CInv, Count PROVE Balance'  OBVIOUS
<1>0. [Next]_vars
  BY DEF Next, Reduce, Process
<1>1. Numbers /\ Numbers'
  BY <1>0, NextBase, NumbersHold, PTL
<1> DEFINE i == reducer.i
<1>2. /\ i \in DOMAIN results /\ results[i].m.kind = "done" /\ results[i].st = "held"
      /\ UNCHANGED <<results, lane>> /\ reducer.pc = "count" /\ reducer'.pc = "judge" /\ reducer'.i = i
  BY DEF Count, Base, GInv, TInv, Link, Phases, CInv, Holding, Msg, Go, IInv, Shape
<1>3. i \in Pending /\ Pending' \subseteq Pending \ {i}
  BY <1>2 DEF Pending, Counted
<1>4. Missing' <= Missing + 0 /\ Markers' <= Markers + (-1)
  <2>1. Untold' \subseteq Untold
    <3>1. ~ SetTotal /\ ~ Expand
      BY <1>2 DEF SetTotal, Expand, Base, GInv, Early, Idle
    <3> QED BY <1>0, <3>1, UntoldKept
  <2> QED BY <1>1, <1>3, <2>1, SetsMove
<1>5. Tally' <= Tally + 1
  BY DEF Count, Tally, Base, TInv, Phases, IInv, Shape
<1>6. Target' >= Target + 0
  <2>1. ~ SetTotal /\ ~ Expand /\ ~ ExpandFails /\ ~ Crash
    <3>1. ~ SetTotal /\ ~ Expand /\ ~ ExpandFails
      BY <1>2 DEF SetTotal, Expand, ExpandFails, Base, GInv, Early, Idle
    <3>2. ~ Crash
      BY <1>2, CrashRests
    <3> QED BY <3>1, <3>2
  <2> QED BY <1>0, <1>1, <2>1, TargetKept, NumbersStay
<1>7. Excess' >= Excess + 0
  BY <1>0, Environment, ExcessGrows DEF Base, BInv
<1>8. Moves(0, -1, 1, 0, 0)
  BY <1>4, <1>5, <1>6, <1>7, Zenon DEF Moves
<1> QED BY <1>1, <1>8, BalanceMoved DEF CInv

(* The total is written before anything is counted. *)
LEMMA SetTotalBalance == Base /\ SetTotal => Balance'
<1> SUFFICES ASSUME Base, SetTotal PROVE Balance'  OBVIOUS
<1>0. [Next]_vars
  BY DEF Next, Submit
<1> USE DEF Base, IInv, Shape
<1>1. Numbers'
  BY <1>0, NextBase, NumbersHold, PTL
<1>2. /\ DOMAIN lane = {} /\ results = <<>> /\ reducer.pc = "idle"
      /\ order.done = 0 /\ order.failed = 0
  BY DEF SetTotal, GInv, Early, Idle, TInv, Phases
<1>3. /\ UNCHANGED <<world, lane, results, reducer>> /\ submit'.todo = Plan
      /\ order'.total = Cardinality(Plan) /\ order'.done = 0 /\ order'.failed = 0
  BY <1>2 DEF SetTotal, Submitted
<1>4. Untold' \subseteq Plan /\ Pending' = {} /\ Expanding' = {}
  <2>1. Expanding' = {}
    BY <1>2, <1>3 DEF Expanding
  <2>2. DOMAIN results' = {}
    BY <1>2, <1>3
  <2> QED BY <1>2, <1>3, <2>1, <2>2 DEF Untold, Owed, Pending
<1>5. Missing' <= Cardinality(Plan) /\ Cardinality(Plan) \in Nat
  <2>1. IsFiniteSet(Plan) /\ Cardinality(Plan) \in Nat
    BY PlanFinite DEF BInv
  <2> QED BY <1>4, <2>1, FS_Subset DEF Missing
<1>6. Markers' = 0 /\ Tally' = 0 /\ Raising' = 0
  <2>1. Markers' = 0 /\ Raising' = 0
    BY <1>4, FS_EmptySet DEF Markers, Raising
  <2>2. Tally' = 0 + 0
    BY <1>3 DEF Tally
  <2> QED BY <2>1, <2>2
<1>7. Target' = Cardinality(Plan)
  <2>1. Target' = Cardinality(Plan) + 0
    BY <1>3, <1>6, Zenon DEF Target
  <2> QED BY <1>5, <2>1
<1>8. PICK m \in Nat, e \in Nat : m = Missing' /\ e = Excess'
  BY <1>1 DEF Numbers
<1>9. m + 0 + 0 <= Cardinality(Plan) + e
  <2>1. m <= Cardinality(Plan)
    BY <1>5, <1>8, Zenon
  <2> QED BY <1>5, <1>8, <2>1
<1> QED BY <1>6, <1>7, <1>8, <1>9, Zenon DEF Balance

(* An expansion raises the total by what it owes. *)
LEMMA ExpandBalance == Base /\ CInv /\ Expand => Balance'
<1> SUFFICES ASSUME Base, CInv, Expand PROVE Balance'  OBVIOUS
<1>0. [Next]_vars
  BY DEF Next, Reduce, Process
<1>1. Numbers /\ Numbers'
  BY <1>0, NextBase, NumbersHold, PTL
<1> DEFINE E == Expansion(Msg.f.asset)
<1>2. /\ UNCHANGED <<world, submit, lane, order, results>> /\ reducer.pc = "expand"
      /\ reducer'.m = reducer.m /\ reducer'.pc \in {"publish", "ack"}
  BY DEF Expand, Reducing, Go, Base, IInv, Shape
<1>3. Excess' >= Excess + 0
  BY <1>0, Environment, ExcessGrows DEF Base, BInv
<1>4. Tally' <= Tally + 0
  <2>1. ~ Count
    BY <1>2 DEF Count
  <2> QED BY <1>0, <1>1, <2>1, TallyKept, NumbersStay
<1>5. Markers' <= Markers + 0
  <2>1. ~ RetryMessage /\ ~ Crash /\ ~ \E w \in Worker : Report(w)
    <3>1. ~ RetryMessage
      BY <1>2 DEF RetryMessage
    <3>2. ~ Crash
      BY <1>2, CrashRests
    <3>3. ~ \E w \in Worker : Report(w)
      BY <1>2 DEF Report, Working
    <3> QED BY <3>1, <3>2, <3>3
  <2> QED BY <1>0, <1>1, <2>1, PendingKept, SetsMove DEF CInv
<1>6. IsFiniteSet(E) /\ Cardinality(E) \in Nat
  BY ExpansionSize DEF Base, BInv
<1>7. Expanding = {} /\ Expanding' \subseteq E /\ (reducer'.pc = "publish" => Expanding' = E)
      /\ (reducer'.pc # "publish" => Expanding' = {})
  BY <1>2, SamePlan DEF Expanding, Msg
<1>8. CASE reducer'.pc = "publish"
  <2>1. Expanding' = E
    BY <1>7, <1>8
  <2>2. Untold' \subseteq Untold \cup E
    BY <1>2, <2>1 DEF Untold, Owed, Told
  <2>3. Missing' <= Missing + Cardinality(E)
    <3> PICK U : U = Untold'  OBVIOUS
    <3> PICK V : V = Untold  OBVIOUS
    <3>1. IsFiniteSet(V) /\ IsFiniteSet(U) /\ U \subseteq V \cup E
      BY <1>1, <2>2 DEF Numbers
    <3> HIDE DEF E
    <3>2. /\ IsFiniteSet(V \cup E) /\ IsFiniteSet(V \cap E)
          /\ Cardinality(V \cup E) = Cardinality(V) + Cardinality(E) - Cardinality(V \cap E)
      BY <1>6, <3>1, FS_Union, FS_Intersection
    <3>3. /\ Cardinality(U) <= Cardinality(V \cup E) /\ Cardinality(V) \in Nat
          /\ Cardinality(U) \in Nat /\ Cardinality(V \cup E) \in Nat /\ Cardinality(V \cap E) \in Nat
      BY <3>1, <3>2, FS_Subset, FS_CardinalityType
    <3>4. Cardinality(U) <= Cardinality(V) + Cardinality(E)
      BY <1>6, <3>2, <3>3
    <3>5. Missing = Cardinality(V) /\ Missing' = Cardinality(U)
      BY DEF Missing
    <3> QED BY <3>4, <3>5, Zenon
  <2>4. Target' >= Target + Cardinality(E)
    <3>1. Raising = 0 /\ Raising' = Cardinality(E)
      BY <1>7, <2>1, FS_EmptySet DEF Raising
    <3>2. Target = order.total + 0 /\ Target' = order.total + Cardinality(E) /\ order.total \in Nat
      BY <1>2, <3>1 DEF Target, Base, BInv, Room
    <3> HIDE DEF E
    <3>3. order.total + Cardinality(E) >= Target + Cardinality(E)
      BY <1>6, <3>2
    <3> QED BY <3>2, <3>3, Zenon
  <2> HIDE DEF E
  <2>5. Moves(Cardinality(E), 0, 0, Cardinality(E), 0)
    BY <1>3, <1>4, <1>5, <2>3, <2>4, Zenon DEF Moves
  <2>6. Cardinality(E) + 0 + 0 <= Cardinality(E) + 0 /\ Cardinality(E) \in Int
    BY <1>6
  <2> QED BY <1>1, <2>5, <2>6, BalanceMoved DEF CInv
<1>9. CASE reducer'.pc # "publish"
  <2>1. Expanding' = {}
    BY <1>7, <1>9
  <2>2. Untold' \subseteq Untold
    BY <1>2, <2>1 DEF Untold, Owed, Told
  <2>3. Missing' <= Missing + 0
    BY <1>1, <2>2, SetsMove
  <2>4. Target' >= Target + 0
    <3>1. Target' = Target
      BY <1>2, <1>7, <2>1 DEF Target, Raising
    <3> QED BY <1>1, <3>1, NumbersStay
  <2>5. Moves(0, 0, 0, 0, 0)
    BY <1>3, <1>4, <1>5, <2>3, <2>4, Zenon DEF Moves
  <2> QED BY <1>1, <2>5, BalanceMoved DEF CInv
<1> QED BY <1>8, <1>9
-----------------------------------------------------------------------------
(* An expansion given up is forgiven a share. *)
LEMMA ExpandFailsBalance == Base /\ CInv /\ ExpandFails => Balance'
<1> SUFFICES ASSUME Base, CInv, ExpandFails PROVE Balance'  OBVIOUS
<1>0. [Next]_vars
  BY DEF Next, Reduce
<1>1. Numbers /\ Numbers'
  BY <1>0, NextBase, NumbersHold, PTL
<1>2. /\ UNCHANGED <<lane, order, results>> /\ reducer.pc \in {"expand", "publish"}
      /\ reducer'.pc = "ack" /\ Spend("faults")
  BY DEF ExpandFails, Go, Base, IInv, Shape
<1>3. Excess' >= Excess + Share
  BY <1>0, <1>2, Environment, ExcessGrows DEF Base, BInv
<1>4. Tally' <= Tally + 0
  <2>1. ~ Count
    BY <1>2 DEF Count
  <2> QED BY <1>0, <1>1, <2>1, TallyKept, NumbersStay
<1>5. Markers' <= Markers + 0
  <2>1. ~ RetryMessage /\ ~ Crash /\ ~ \E w \in Worker : Report(w)
    <3>1. ~ RetryMessage
      BY <1>2 DEF RetryMessage
    <3>2. ~ Crash
      BY <1>2, CrashRests
    <3>3. ~ \E w \in Worker : Report(w)
      BY <1>2 DEF Report, Working
    <3> QED BY <3>1, <3>2, <3>3
  <2> QED BY <1>0, <1>1, <2>1, PendingKept, SetsMove DEF CInv
<1>6. Missing' <= Missing + 0
  <2>1. ~ SetTotal /\ ~ Expand
    <3>1. ~ SetTotal
      BY <1>2 DEF SetTotal, Base, GInv, Early, Idle
    <3>2. ~ Expand
      BY DEF Expand, ExpandFails, Spend, Chances, Base, BInv, Bounded
    <3> QED BY <3>1, <3>2
  <2> QED BY <1>0, <1>1, <2>1, UntoldKept, SetsMove
<1>7. Target' >= Target + (-Share)
  <2>1. Raising \in Nat /\ Raising <= Share /\ Share \in Nat /\ order.total \in Nat
    BY RaisingType DEF Base, BInv, Room
  <2>2. Raising' = 0
    BY <1>2, FS_EmptySet DEF Raising, Expanding
  <2>3. Target' = order.total + 0 /\ Target = order.total + Raising
    BY <1>2, <2>2 DEF Target
  <2> HIDE DEF Raising
  <2>4. order.total + 0 >= Target + (-Share)
    BY <2>1, <2>3
  <2> QED BY <2>3, <2>4, Zenon
<1>8. Moves(0, 0, 0, -Share, Share)
  BY <1>3, <1>4, <1>5, <1>6, <1>7, Zenon DEF Moves
<1>9. 0 + 0 + 0 <= -Share + Share /\ Share \in Int /\ -Share \in Int
  BY <1>1 DEF Numbers
<1> QED BY <1>1, <1>8, <1>9, BalanceMoved DEF CInv

(* A marker counted and not settled is counted again: one disturbance. *)
LEMMA RetryBalance == Base /\ CInv /\ RetryMessage => Balance'
<1> SUFFICES ASSUME Base, CInv, RetryMessage PROVE Balance'  OBVIOUS
<1>0. [Next]_vars
  BY DEF Next, Reduce
<1>1. Numbers /\ Numbers'
  BY <1>0, NextBase, NumbersHold, PTL
<1> DEFINE i == reducer.i
<1>2. /\ UNCHANGED <<lane, order>> /\ Spend("faults") /\ reducer' = Resting
      /\ reducer.pc \notin {"idle", "expand", "publish", "ack"}
      /\ results' = [results EXCEPT ![i].st = Waiting(results[i].n)]
  BY DEF RetryMessage, Finish
<1>3. Excess' >= Excess + Share
  BY <1>0, <1>2, Environment, ExcessGrows DEF Base, BInv
<1>4. Share >= 1 /\ Share \in Nat
  BY <1>1, <1>2, ShareOne DEF Idle, Numbers
<1>5. Tally' <= Tally + 0
  BY <1>1, <1>2, NumbersStay DEF Tally
<1>6. Missing' <= Missing + 0
  <2>1. ~ SetTotal /\ ~ Expand
    BY <1>2 DEF SetTotal, Expand, Base, GInv, Early, Idle
  <2> QED BY <1>0, <1>1, <2>1, UntoldKept, SetsMove
<1>7. Target' >= Target + 0
  <2>1. ~ SetTotal /\ ~ Expand /\ ~ ExpandFails
    BY <1>2 DEF SetTotal, Expand, ExpandFails, Base, GInv, Early, Idle
  <2>2. CASE ~ Crash
    BY <1>0, <1>1, <2>1, <2>2, TargetKept, NumbersStay
  <2>3. CASE Crash
    <3>1. Expanding' = Expanding
      BY <1>2, <2>3, CrashRests DEF Expanding
    <3>2. Target' = Target
      BY <1>2, <3>1 DEF Target, Raising
    <3> QED BY <1>1, <3>2, NumbersStay
  <2> QED BY <2>2, <2>3
<1>8. Pending' \subseteq Pending \cup {i}
  <2>1. DOMAIN results' = DOMAIN results /\ \A j \in DOMAIN results : j # i => results'[j] = results[j]
    BY <1>2
  <2> QED BY <2>1 DEF Pending, Counted
<1>9. Markers' <= Markers + 1
  BY <1>1, <1>8, SetsMove
<1>10. Moves(0, 1, 0, 0, Share)
  BY <1>3, <1>5, <1>6, <1>7, <1>9, Zenon DEF Moves
<1>11. 0 + 1 + 0 <= 0 + Share /\ Share \in Int
  BY <1>4
<1> QED BY <1>1, <1>10, <1>11, BalanceMoved DEF CInv

(* A crash loses the expansion or the marker in hand. *)
LEMMA CrashBalance == Base /\ CInv /\ Crash => Balance'
<1> SUFFICES ASSUME Base, CInv, Crash PROVE Balance'  OBVIOUS
<1>0. [Next]_vars
  BY DEF Next
<1>1. Numbers /\ Numbers'
  BY <1>0, NextBase, NumbersHold, PTL
<1>2. UNCHANGED <<lane, order, results>> /\ Spend("crashes") /\ reducer'.pc = "idle"
  BY CrashRests DEF Crash
<1>3. Excess' >= Excess + Share
  BY <1>0, <1>2, Environment, ExcessGrows DEF Base, BInv
<1>4. Share \in Nat
  BY <1>1 DEF Numbers
<1>5. Tally' <= Tally + 0
  BY <1>1, <1>2, NumbersStay DEF Tally
<1>6. Missing' <= Missing + 0
  <2>1. Owed' \subseteq Owed
    BY <1>2 DEF Crash, Owed, Expanding, Base, IInv, Shape
  <2>2. Untold' \subseteq Untold
    BY <1>0, <2>1, ToldKept DEF Untold
  <2> QED BY <1>1, <2>2, SetsMove
<1>7. Expanding' = {} /\ Raising' = 0
  BY <1>2, FS_EmptySet DEF Raising, Expanding
<1>8. CASE reducer.pc = "publish"
  <2>1. Pending' \subseteq Pending
    BY <1>2, <1>8 DEF Pending, Counted
  <2>2. Markers' <= Markers + 0
    BY <1>1, <2>1, SetsMove
  <2>3. Target' >= Target + (-Share)
    <3>1. Raising \in Nat /\ Raising <= Share /\ order.total \in Nat
      BY RaisingType DEF Base, BInv, Room
    <3>2. Target' = order.total + 0 /\ Target = order.total + Raising
      BY <1>2, <1>7 DEF Target
    <3> HIDE DEF Raising
    <3>3. order.total + 0 >= Target + (-Share)
      BY <1>4, <3>1, <3>2
    <3> QED BY <3>2, <3>3, Zenon
  <2>4. Moves(0, 0, 0, -Share, Share)
    BY <1>3, <1>5, <1>6, <2>2, <2>3, Zenon DEF Moves
  <2>5. 0 + 0 + 0 <= -Share + Share /\ Share \in Int /\ -Share \in Int
    BY <1>4
  <2> QED BY <1>1, <2>4, <2>5, BalanceMoved DEF CInv
<1>9. CASE reducer.pc # "publish"
  <2>1. Target' >= Target + 0
    <3>1. Target' = Target
      BY <1>2, <1>7, <1>9 DEF Target, Raising, Expanding
    <3> QED BY <1>1, <3>1, NumbersStay
  <2>2. CASE reducer.pc = "idle"
    <3>1. Pending' \subseteq Pending
      BY <1>2, <2>2 DEF Pending, Counted
    <3>2. Markers' <= Markers + 0
      BY <1>1, <3>1, SetsMove
    <3>3. Excess' >= Excess + 0
      BY <1>0, Environment, ExcessGrows DEF Base, BInv
    <3>4. Moves(0, 0, 0, 0, 0)
      BY <1>5, <1>6, <2>1, <3>2, <3>3, Zenon DEF Moves
    <3> QED BY <1>1, <3>4, BalanceMoved DEF CInv
  <2>3. CASE reducer.pc # "idle"
    <3>1. Share >= 1
      BY <2>3, ShareOne DEF Idle
    <3>2. Pending' \subseteq Pending \cup {reducer.i}
      BY <1>2 DEF Pending, Counted
    <3>3. Markers' <= Markers + 1
      BY <1>1, <3>2, SetsMove
    <3>4. Moves(0, 1, 0, 0, Share)
      BY <1>3, <1>5, <1>6, <2>1, <3>3, Zenon DEF Moves
    <3>5. 0 + 1 + 0 <= 0 + Share /\ Share \in Int
      BY <1>4, <3>1
    <3> QED BY <1>1, <3>4, <3>5, BalanceMoved DEF CInv
  <2> QED BY <2>2, <2>3
<1> QED BY <1>8, <1>9

(* A task told of for the first time stores one marker, a marker stored    *)
(* again costs a disturbance.                                              *)
LEMMA ReportBalance == ASSUME Base, CInv, NEW w \in Worker, Report(w) PROVE Balance'
<1>0. Work /\ [Next]_vars
  BY DEF Next, Work
<1>1. Numbers /\ Numbers'
  BY <1>0, NextBase, NumbersHold, PTL
<1> PICK t : t = worker[w].task  OBVIOUS
<1> PICK m : m = Done(t, worker[w].pc # "run")  OBVIOUS
<1>m. m.kind = "done" /\ m.task = t
  BY DEF Done
<1>2. /\ UNCHANGED <<order, reducer, world, submit>> /\ worker[w].pc # "idle" /\ t \in DOMAIN lane
      /\ DOMAIN lane' = DOMAIN lane
  BY <1>0, WorkFrame, WorkLane DEF Report, Base, TInv, Crew
<1>3. Share >= 1 /\ Share \in Nat
  BY <1>1, <1>2, ShareOne DEF Idle, Numbers
<1>4. Tally' <= Tally + 0
  BY <1>1, <1>2, NumbersStay DEF Tally
<1>5. Target' >= Target + 0
  <2>1. Expanding' = Expanding
    BY <1>2, SamePlan DEF Expanding, Msg
  <2>2. Target' = Target
    BY <1>2, <2>1 DEF Target, Raising
  <2> QED BY <1>1, <2>2, NumbersStay
<1>6. Excess' >= Excess + 0
  BY <1>0, Environment, ExcessGrows DEF Base, BInv
<1>7. Untold' \subseteq Untold
  <2>1. Owed' = Owed
    BY <1>2, SamePlan DEF Owed, Expanding, Msg
  <2> QED BY <1>0, <2>1, ToldKept DEF Untold
<1>8. Missing' <= Missing + 0
  BY <1>1, <1>7, SetsMove
<1>s. ASSUME Stored(m) PROVE \E k : Pending' \subseteq Pending \cup {k}
  <2>1. \A i \in DOMAIN results' : i = Len(results) + 1 \/ (i \in DOMAIN results /\ results'[i] = results[i])
    BY <1>s, StoredStep DEF Base, GInv
  <2>2. Pending' \subseteq Pending \cup {Len(results) + 1}
    BY <1>2, <2>1 DEF Pending, Counted
  <2> QED BY <2>2
<1>k. ASSUME Stored(m) PROVE Markers' <= Markers + 1
  <2> PICK k : Pending' \subseteq Pending \cup {k}
    BY <1>s, <1>k
  <2> QED BY <1>1, SetsMove
<1>9. CASE results' = results
  <2>1. Pending' \subseteq Pending
    BY <1>2, <1>9 DEF Pending, Counted
  <2>2. Markers' <= Markers + 0
    BY <1>1, <2>1, SetsMove
  <2>3. Moves(0, 0, 0, 0, 0)
    BY <1>4, <1>5, <1>6, <1>8, <2>2, Zenon DEF Moves
  <2> QED BY <1>1, <2>3, BalanceMoved DEF CInv
<1>10. CASE Spend("windows") /\ Stored(m)
  <2>1. Excess' >= Excess + Share
    BY <1>0, <1>10, Environment, ExcessGrows DEF Base, BInv
  <2>2. Markers' <= Markers + 1
    BY <1>k, <1>10
  <2>3. Moves(0, 1, 0, 0, Share)
    BY <1>4, <1>5, <1>8, <2>1, <2>2, Zenon DEF Moves
  <2>4. 0 + 1 + 0 <= 0 + Share /\ Share \in Int
    BY <1>3
  <2> QED BY <1>1, <2>3, <2>4, BalanceMoved DEF CInv
<1>11. CASE ~ Sent(m) /\ Stored(m) /\ lane' = [lane EXCEPT ![t].told = TRUE]
  <2>1. ~ Marked(t)
    BY <1>m, <1>11 DEF Sent, SameId, Marked
  <2>2. DOMAIN lane[t] = {"status", "n", "told"} /\ ~ lane[t].told
    BY <1>2, <2>1 DEF Base, TInv, LaneSound
  <2>3. t \in Untold
    BY <1>2, <2>2 DEF Untold, Owed, Told
  <2>4. lane'[t].told = TRUE
    BY <1>2, <1>11, <2>2
  <2>5. Untold' \subseteq Untold \ {t}
    BY <1>2, <1>7, <2>4 DEF Untold, Told
  <2>6. Missing' <= Missing + (-1)
    BY <1>1, <2>3, <2>5, SetsMove
  <2>7. Markers' <= Markers + 1
    BY <1>k, <1>11
  <2>8. Moves(-1, 1, 0, 0, 0)
    BY <1>4, <1>5, <1>6, <2>6, <2>7, Zenon DEF Moves
  <2>9. -1 + 1 + 0 <= 0 + 0 /\ -1 \in Int
    OBVIOUS
  <2> QED BY <1>1, <2>8, <2>9, BalanceMoved DEF CInv
<1> QED BY <1>9, <1>10, <1>11 DEF Report, PublishResult
-----------------------------------------------------------------------------
LEMMA BalanceNext == Base /\ CInv /\ [Next]_vars => Balance'
  BY QuietBalance, CountBalance, SetTotalBalance, ExpandBalance, ExpandFailsBalance, RetryBalance,
     CrashBalance, ReportBalance

(* The message in hand stays held: it expires for no reducer that has it. *)
LEMMA HoldingNext == Base /\ Holding /\ [Next]_vars => Holding'
<1> SUFFICES ASSUME Base, Holding, [Next]_vars PROVE Holding'  OBVIOUS
<1> USE DEF Base, IInv, Shape, Holding
<1>1. reducer.pc # "idle" => reducer.i \in DOMAIN results
  BY DEF GInv, Link
<1>s. ASSUME reducer' = reducer, \A i \in DOMAIN results : results'[i] = results[i] PROVE Holding'
  BY <1>1, <1>s
<1>2. CASE Submit \/ End \/ BudgetElapses \/ UNCHANGED vars
  <2>1. UNCHANGED <<results, reducer>>
    BY <1>2 DEF Submit, SubmitFails, InsertOrder, SetTotal, SetRunning, Dispatch, SubmitReturns,
                Submitted, End, Cancel, HandleRevocation, SweepOnce, SetEnded, SetEndedFails, Ending,
                BudgetElapses, vars
  <2> QED BY <1>s, <2>1
<1>3. CASE Crash
  BY <1>3, CrashRests
<1>4. CASE Work
  <2>1. reducer' = reducer
    BY <1>4, WorkFrame
  <2>2. ASSUME NEW m, PublishResult(m) PROVE \A i \in DOMAIN results : results'[i] = results[i]
    BY <2>2, StoredStep DEF PublishResult, GInv
  <2>3. \A i \in DOMAIN results : results'[i] = results[i]
    <3>1. CASE \E w \in Worker : Emit(w) \/ Report(w)
      BY <2>2, <3>1 DEF Emit, Report
    <3>2. CASE ~ \E w \in Worker : Emit(w) \/ Report(w)
      BY <1>4, <3>2 DEF Work, Fetch, CheckFails, Check, ConnectorFails, AckTask, WorkerCrash,
                        TaskExpires
    <3> QED BY <3>1, <3>2
  <2> QED BY <1>s, <2>1, <2>3
<1>5. CASE Reduce
  <2>e. \A i \in DOMAIN results : DOMAIN results[i] = {"m", "st", "n"}
    <3> PICK S : results \in Seq(Entry(S))
      BY DEF GInv, Stream
    <3>1. \A i \in DOMAIN results : results[i] \in Entry(S)
      BY LenProperties, ElementOfSeq
    <3> QED BY <3>1 DEF Entry
  <2>1. ASSUME NEW j \in DOMAIN results, Take(j) PROVE Holding'
    <3>1. results' = [results EXCEPT ![j].st = "held", ![j].n = @ + 1] /\ reducer'.i = j
      BY <2>1 DEF Take, Resting
    <3> QED BY <2>e, <3>1
  <2>2. ASSUME NEW j \in DOMAIN results, ResultExpires(j) PROVE Holding'
    BY <1>1, <2>2 DEF ResultExpires
  <2>3. CASE Ack \/ RetryMessage
    <3>1. reducer' = Resting
      BY <2>3 DEF Ack, RetryMessage, Finish
    <3>2. reducer'.pc = "idle"
      BY <3>1 DEF Resting
    <3> QED BY <3>2
  <2>g. ASSUME results' = results, reducer.pc # "idle", reducer'.i = reducer.i PROVE Holding'
    BY <2>g
  <2>4. CASE Count \/ Close \/ Scope \/ Merge \/ Ingest \/ Announce \/ RecordGap
    BY <2>g, <2>4 DEF Count, Close, Scope, Merge, Ingest, Announce, RecordGap, Go
  <2>5. CASE Judge
    BY <2>g, <2>5 DEF Judge, Go
  <2>6. CASE Expand \/ PublishExpanded \/ SetExpandedTotal \/ ExpandFails
    BY <2>g, <2>6 DEF Expand, PublishExpanded, SetExpandedTotal, ExpandFails, Go
  <2> QED BY <1>5, <2>1, <2>2, <2>3, <2>4, <2>5, <2>6 DEF Reduce, Process
<1> QED BY <1>2, <1>3, <1>4, <1>5 DEF Next

(* Who begins to close an order has compared the tally with the total, or  *)
(* the plan was empty.                                                     *)
LEMMA ClosingNext ==
    Base /\ [Next]_vars /\ ~ Closing /\ Closing' =>
      \/ reducer.pc = "judge" /\ Tally >= order.total /\ Judge
      \/ Untold = {} /\ ~ SetTotal /\ ~ Expand
<1> SUFFICES ASSUME Base, [Next]_vars, ~ Closing, Closing'
             PROVE  \/ reducer.pc = "judge" /\ Tally >= order.total /\ Judge
                    \/ Untold = {} /\ ~ SetTotal /\ ~ Expand
  OBVIOUS
<1> USE DEF Base, IInv, Shape, Closing
<1>1. CASE Submit
  <2>1. UNCHANGED reducer
    BY <1>1 DEF Submit, SubmitFails, InsertOrder, SetTotal, SetRunning, Dispatch, SubmitReturns,
                Submitted
  <2>2. SubmitReturns /\ Plan = {}
    BY <1>1, <2>1 DEF Submit, SubmitFails, InsertOrder, SetTotal, SetRunning, Dispatch, SubmitReturns
  <2>3. Idle /\ submit.todo = {}
    BY <2>2 DEF TInv, Phases, SubmitReturns
  <2>4. Owed = {}
    BY <2>3 DEF Idle, Owed, Expanding
  <2>5. ~ SetTotal /\ ~ Expand
    BY <2>2, <2>3 DEF SubmitReturns, SetTotal, Expand, Idle
  <2> QED BY <2>4, <2>5 DEF Untold
<1>2. CASE End
  <2>1. UNCHANGED reducer
    BY <1>2 DEF End, Cancel, HandleRevocation, SweepOnce, SetEnded, SetEndedFails, Ending
  <2>2. order'.state = "COMPLETED" => order.state = "COMPLETED"
    <3>1. CASE \E e \in Enders : SetEnded(e)
      <4> PICK e \in Enders : SetEnded(e)
        BY <3>1
      <4> DEFINE st == IF e = "sweep" THEN "PARTIAL" ELSE "CANCELLED"
      <4>1. order' = [order EXCEPT !.state = st] /\ st # "COMPLETED"
        BY DEF SetEnded
      <4> HIDE DEF st
      <4> QED BY <4>1
    <3>2. CASE ~ \E e \in Enders : SetEnded(e)
      BY <1>2, <3>2 DEF End, Cancel, HandleRevocation, SweepOnce, SetEndedFails
    <3> QED BY <3>1, <3>2
  <2> QED BY <2>1, <2>2
<1>3. CASE Work \/ BudgetElapses \/ UNCHANGED vars
  BY <1>3, WorkFrame DEF BudgetElapses, vars
<1>4. CASE Crash
  <2>1. order' = order
    BY <1>4 DEF Crash
  <2> QED BY <1>4, <2>1, CrashRests
<1>5. CASE Reduce
  <2>1. CASE Judge
    <3>1. reducer.pc = "judge" /\ order' = order
      BY <2>1 DEF Judge
    <3>2. reducer'.pc = "close"
      BY <3>1
    <3>3. order.done + order.failed >= order.total
      BY <2>1, <3>2 DEF Judge, Go
    <3> QED BY <2>1, <3>1, <3>3 DEF Tally
  <2>2. CASE Close
    BY <2>2 DEF Close, Go
  <2>3. CASE Ack \/ RetryMessage
    <3>1. reducer' = Resting /\ order' = order
      BY <2>3 DEF Ack, RetryMessage, Finish
    <3>2. reducer'.pc = "idle"
      BY <3>1 DEF Resting
    <3> QED BY <3>1, <3>2
  <2>4. CASE \E j \in DOMAIN results : Take(j)
    <3>1. order' = order /\ reducer'.pc # "close"
      BY <2>4 DEF Take, Resting
    <3> QED BY <3>1
  <2>5. CASE \E j \in DOMAIN results : ResultExpires(j)
    BY <2>5 DEF ResultExpires
  <2>6. CASE Count \/ Scope \/ Merge \/ Ingest \/ Announce \/ RecordGap
    BY <2>6 DEF Count, Scope, Merge, Ingest, Announce, RecordGap, Go
  <2>7. CASE Expand \/ PublishExpanded \/ SetExpandedTotal \/ ExpandFails
    BY <2>7 DEF Expand, PublishExpanded, SetExpandedTotal, ExpandFails, Go
  <2> QED BY <1>5, <2>1, <2>2, <2>3, <2>4, <2>5, <2>6, <2>7 DEF Reduce, Process
<1> QED BY <1>1, <1>2, <1>3, <1>4, <1>5 DEF Next

LEMMA CoveredNext == Base /\ CInv /\ [Next]_vars => Covered'
<1> SUFFICES ASSUME Base, CInv, [Next]_vars, Closing' PROVE Missing' <= Excess'
  BY DEF Covered
<1>1. Numbers /\ Numbers'
  BY NextBase, NumbersHold, PTL
<1>2. Excess' >= Excess + 0
  BY Environment, ExcessGrows DEF Base, BInv
<1>w. ASSUME Missing <= Excess, Untold' \subseteq Untold PROVE Missing' <= Excess'
  <2>1. Missing' <= Missing + 0
    BY <1>1, <1>w, SetsMove
  <2>2. PICK a \in Nat, b \in Nat : a = Missing' /\ b = Excess'
    BY <1>1 DEF Numbers
  <2>3. a <= Missing + 0 /\ b >= Excess + 0
    BY <1>2, <2>1, <2>2, Zenon
  <2>4. a <= b
    BY <1>1, <1>w, <2>2, <2>3 DEF Numbers
  <2> QED BY <2>2, <2>4, Zenon
<1>3. CASE Closing
  <2>1. ~ SetTotal /\ ~ Expand
    BY <1>3 DEF Closing, SetTotal, Expand, Base, GInv, Early, Idle, TInv, Phases
  <2> QED BY <1>3, <1>w, <2>1, UntoldKept DEF CInv, Covered
<1>4. CASE ~ Closing
  <2>1. CASE reducer.pc = "judge" /\ Tally >= order.total /\ Judge
    <3>1. ~ SetTotal /\ ~ Expand
      BY <2>1 DEF SetTotal, Expand, Base, GInv, Early, Idle
    <3>2. Raising = 0
      BY <2>1, FS_EmptySet DEF Raising, Expanding
    <3>3. Target = order.total + 0 /\ order.total \in Nat
      BY <3>2 DEF Target, Base, BInv, Room
    <3>4. Missing <= Excess
      BY <1>1, <2>1, <3>3 DEF CInv, Balance, Numbers
    <3> QED BY <1>w, <3>1, <3>4, UntoldKept
  <2>2. CASE Untold = {} /\ ~ SetTotal /\ ~ Expand
    <3>1. Missing = 0
      BY <2>2, FS_EmptySet DEF Missing
    <3>2. Missing <= Excess
      BY <1>1, <3>1 DEF Numbers
    <3> QED BY <1>w, <2>2, <3>2, UntoldKept
  <2> QED BY <1>4, <2>1, <2>2, ClosingNext
<1> QED BY <1>3, <1>4

LEMMA InitCInv == Init => CInv
<1> SUFFICES ASSUME Init PROVE CInv  OBVIOUS
<1>1. Numbers
  BY InitIInv, InitGInv, InitBInv, InitTInv, NumbersHold DEF Base
<1>2. /\ DOMAIN lane = {} /\ DOMAIN results = {} /\ submit.todo = {}
      /\ order.done = 0 /\ order.failed = 0 /\ order.state = "none"
  BY DEF Init
<1>3. reducer.pc = "idle"
  BY DEF Init, Resting
<1>4. Untold = {} /\ Pending = {}
  BY <1>2, <1>3 DEF Untold, Owed, Expanding, Pending
<1>5. Missing = 0 /\ Markers = 0 /\ Tally = 0 + 0
  BY <1>2, <1>4, FS_EmptySet DEF Missing, Markers, Tally
<1>6. Balance
  BY <1>1, <1>5 DEF Balance, Numbers
<1> QED BY <1>2, <1>3, <1>6 DEF CInv, Holding, Covered, Closing

(* A completed order is complete: every task that was published has        *)
(* reported, but for one expansion or one marker per call that failed,     *)
(* crash or message stored twice, whatever the plan, the answers of the    *)
(* sources and the redeliveries (processDone, ExpandTasks).                *)
THEOREM CompletedHeardAll == Spec => []CompletedCoversTasks
<1>1. Base /\ CInv => CompletedCoversTasks
  <2> SUFFICES ASSUME Base, CInv, order.state = "COMPLETED"
               PROVE  Cardinality({t \in DOMAIN lane : ~ lane[t].told})
                        <= Disturbances * Cardinality(world.sources)
    BY DEF CompletedCoversTasks
  <2> DEFINE D == {t \in DOMAIN lane : ~ lane[t].told}
  <2>1. Missing <= Excess /\ Numbers
    BY NumbersHold DEF CInv, Covered, Closing
  <2>2. D \subseteq Untold
    BY DEF Untold, Owed, Told
  <2> HIDE DEF D
  <2>3. IsFiniteSet(D) /\ Cardinality(D) <= Missing
    BY <2>1, <2>2, FS_Subset DEF Numbers, Missing
  <2>4. Cardinality(D) <= Excess
    BY <2>1, <2>3, FS_CardinalityType DEF Numbers
  <2> QED BY <2>4 DEF D, Excess, Share
<1>2. Init => Base
  BY InitIInv, InitGInv, InitBInv, InitTInv DEF Base
<1>3. Base /\ CInv /\ [Next]_vars => Base' /\ CInv'
  BY NextBase, BalanceNext, HoldingNext, CoveredNext DEF CInv
<1> QED BY <1>1, <1>2, <1>3, InitCInv, PTL DEF Spec
=============================================================================
