----------------------------- MODULE DetectProofs -----------------------------
(***************************************************************************)
(* Detect for any scenarios, executions and tasks.                         *)
(*                                                                         *)
(* Three arguments.  A candidate that is judged CONFIRMED is one of a      *)
(* target that has the flaw, because no validator and no sandbox confirms  *)
(* on what an unflawed target can answer, and process stores and alerts    *)
(* the candidate it judged (AlarmInv).  A task that was sent once has one  *)
(* execution, which the table of running tasks holds while it runs: so     *)
(* haltMatching cancels it, or the revocation was heard before the run and *)
(* AuthorizeTarget refuses every target of the scan (KillInv).  And a run  *)
(* hears every raw before the last done: for each job that was dispatched  *)
(* there is one in the queue, or a done in the mailbox, or one counted, or *)
(* none that will come, and a raw in the mailbox has a done still to come  *)
(* (HearInv).                                                              *)
(***************************************************************************)
EXTENDS Detect, FiniteSetTheorems, SequenceTheorems, TLAPS

-----------------------------------------------------------------------------
(* What each step does to the runs of the coordinator.                     *)

ScanFields == {"stage", "todo", "i", "jobs", "mail", "done", "failed", "seen", "cand",
               "aborted", "err", "heardRaws", "sentRaws"}
Runs == DOMAIN scan = Exec /\ \A x \in Exec : DOMAIN scan[x] = ScanFields

\* A step that changes the run of x alone, and of it only the fields in F.
Edited(x, F) ==
    /\ DOMAIN scan' = Exec
    /\ \A y \in Exec \ {x} : scan'[y] = scan[y]
    /\ DOMAIN scan'[x] = ScanFields
    /\ \A f \in ScanFields \ F : scan'[x][f] = scan[x][f]

LEMMA RunsEdited == ASSUME Runs, NEW x \in Exec, NEW F, Edited(x, F) PROVE Runs'
BY DEF Runs, Edited

LEMMA BegunIs ==
  ASSUME NEW stage, NEW todo, NEW jobs, NEW err
  PROVE  /\ DOMAIN Begun(stage, todo, jobs, err) = ScanFields
         /\ Begun(stage, todo, jobs, err).stage = stage
         /\ Begun(stage, todo, jobs, err).cand = NoCand
         /\ Begun(stage, todo, jobs, err).err = err
         /\ Begun(stage, todo, jobs, err).jobs = jobs
         /\ Begun(stage, todo, jobs, err).i = 1
         /\ Begun(stage, todo, jobs, err).done = 0
         /\ Begun(stage, todo, jobs, err).mail = <<>>
         /\ Begun(stage, todo, jobs, err).heardRaws = 0
         /\ Begun(stage, todo, jobs, err).sentRaws = 0
BY DEF Begun, ScanFields

LEMMA EndsIs ==
  ASSUME Runs, NEW x \in Exec, NEW err, Ends(x, err)
  PROVE  Edited(x, {"stage", "err"}) /\ scan'[x].stage = "return" /\ scan'[x].err = err
BY DEF Runs, Ends, Edited, ScanFields

LEMMA DropIs ==
  ASSUME Runs, NEW x \in Exec, Drop(x)
  PROVE  /\ Edited(x, {"cand", "heardRaws"})
         /\ scan'[x].cand = NoCand /\ scan'[x].heardRaws = scan[x].heardRaws + 1
BY DEF Runs, Drop, Dropped, Edited, ScanFields

\* What the run of x begins with.
Fresh(x) ==
    /\ scan'[x].cand = NoCand /\ scan'[x].mail = <<>> /\ scan'[x].i = 1 /\ scan'[x].done = 0
    /\ scan'[x].heardRaws = 0 /\ scan'[x].sentRaws = 0

LEMMA EnteredIs ==
  ASSUME NEW x
  PROVE  \E stage, todo, jobs, err : Entered(x) = Begun(stage, todo, jobs, err)
BY DEF Entered

LEMMA RunIs ==
  ASSUME Runs, NEW x \in Exec, Run(x)
  PROVE  /\ Edited(x, ScanFields) /\ Fresh(x)
         /\ \/ /\ scan'[x] = Entered(x)
               /\ \A t \in Assignment(TaskOf(x)).targets : AuthorizeTarget(x, t) = None
            \/ scan'[x].stage = "return" /\ scan'[x].err # None
<1> DEFINE T == Assignment(TaskOf(x)).targets
           R == {AuthorizeTarget(x, t) : t \in T} \ {None}
<1>1. CASE R = {} /\ scan' = [scan EXCEPT ![x] = Entered(x)]
  <2>1. PICK stage, todo, jobs, err : Entered(x) = Begun(stage, todo, jobs, err)
    BY EnteredIs
  <2>2. \A t \in T : AuthorizeTarget(x, t) = None
    BY <1>1
  <2>3. scan'[x] = Entered(x) /\ DOMAIN scan' = Exec /\ \A y \in Exec \ {x} : scan'[y] = scan[y]
    BY <1>1 DEF Runs
  <2> QED BY <2>1, <2>2, <2>3, BegunIs DEF Edited, Fresh
<1>2. CASE \E err \in R : scan' = [scan EXCEPT ![x] = Begun("return", <<>>, <<>>, err)]
  <2>1. PICK err \in R : scan' = [scan EXCEPT ![x] = Begun("return", <<>>, <<>>, err)]
    BY <1>2
  <2>2. /\ scan'[x] = Begun("return", <<>>, <<>>, err) /\ DOMAIN scan' = Exec
        /\ \A y \in Exec \ {x} : scan'[y] = scan[y]
    BY <2>1 DEF Runs
  <2>3. err # None
    OBVIOUS
  <2> HIDE DEF R
  <2> QED BY <2>2, <2>3, BegunIs DEF Edited, Fresh
<1> QED BY <1>1, <1>2 DEF Run

LEMMA FinishIs ==
  ASSUME Runs, NEW x \in Exec, Finish(x)
  PROVE  Edited(x, {"stage"}) /\ scan[x].stage = "return" /\ scan'[x].stage = "over"
BY DEF Runs, Finish, Edited, ScanFields

LEMMA ExchangeIs ==
  ASSUME Runs, NEW x \in Exec, Exchange(x)
  PROVE  \/ Edited(x, {"stage", "err"}) /\ scan'[x].stage = "return" /\ scan'[x].err # None
         \/ Edited(x, {"stage"}) /\ scan[x].stage = "exchange" /\ scan'[x].stage = "dispatch"
BY EndsIs DEF Runs, Exchange, Edited, ScanFields, None

LEMMA DispatchJobIs ==
  ASSUME Runs, NEW x \in Exec, DispatchJob(x)
  PROVE  /\ scan[x].stage = "dispatch"
         /\ \/ /\ Edited(x, {"stage", "err"}) /\ scan'[x].stage = "return" /\ scan'[x].err # None
               /\ UNCHANGED queue
            \/ /\ Edited(x, {"i", "stage"}) /\ scan'[x].i = scan[x].i + 1
               /\ scan'[x].stage = IF scan[x].i < Len(scan[x].jobs) THEN "dispatch" ELSE "aggregate"
               /\ \E m : "task" \in DOMAIN m /\ m.task = TaskOf(x) /\ m.status = "queued"
                         /\ queue' = Put(queue, <<x, scan[x].i>>, m)
<1> DEFINE more == scan[x].i < Len(scan[x].jobs)
           message == [task |-> TaskOf(x), job |-> scan[x].jobs[scan[x].i], status |-> "queued",
                       tries |-> 0, pos |-> 0, cut |-> None]
<1>0. scan[x].stage = "dispatch"
  BY DEF DispatchJob
<1>1. CASE (Ends(x, "context") \/ Ends(x, "dispatch")) /\ UNCHANGED queue
  BY <1>0, <1>1, EndsIs DEF None
<1>2. CASE /\ queue' = Put(queue, <<x, scan[x].i>>, message)
           /\ scan' = [scan EXCEPT ![x].i = @ + 1, ![x].stage = IF more THEN @ ELSE "aggregate"]
  <2>1. /\ Edited(x, {"i", "stage"}) /\ scan'[x].i = scan[x].i + 1
        /\ scan'[x].stage = IF more THEN "dispatch" ELSE "aggregate"
    BY <1>0, <1>2 DEF Edited, Runs, ScanFields
  <2>2. "task" \in DOMAIN message /\ message.task = TaskOf(x) /\ message.status = "queued"
    OBVIOUS
  <2> HIDE DEF message
  <2> QED BY <1>0, <1>2, <2>1, <2>2
<1>3. \/ (Ends(x, "context") \/ Ends(x, "dispatch")) /\ UNCHANGED queue
      \/ /\ queue' = Put(queue, <<x, scan[x].i>>, message)
         /\ scan' = [scan EXCEPT ![x].i = @ + 1, ![x].stage = IF more THEN @ ELSE "aggregate"]
  BY DEF DispatchJob
<1> QED BY <1>1, <1>2, <1>3

LEMMA AggregateIs ==
  ASSUME Runs, NEW x \in Exec, Aggregate(x)
  PROVE  /\ Edited(x, {"stage", "err"}) /\ scan[x].stage = "aggregate" /\ scan'[x].stage = "return"
         /\ scan'[x].err = None => AllDone(x)
         /\ scan[x].cand = NoCand
BY EndsIs DEF Aggregate, Aggregating, Idle, None

LEMMA CountDoneIs ==
  ASSUME Runs, NEW x \in Exec, CountDone(x)
  PROVE  /\ Edited(x, {"mail", "done", "failed"}) /\ scan[x].stage = "aggregate"
         /\ scan[x].mail # <<>> /\ Head(scan[x].mail).kind = "done"
         /\ scan'[x].mail = Tail(scan[x].mail) /\ scan'[x].done = scan[x].done + 1
BY DEF CountDone, Aggregating, Runs, Edited, ScanFields

\* A candidate that process has not judged yet.
LEMMA TriageIs ==
  ASSUME Runs, NEW x \in Exec, NEW record, NEW raw, DOMAIN record = ScanFields, Triage(x, record, raw)
  PROVE  /\ Edited(x, ScanFields)
         /\ \A f \in ScanFields \ {"cand", "heardRaws"} : scan'[x][f] = record[f]
         /\ \/ scan'[x].cand = NoCand /\ scan'[x].heardRaws = record.heardRaws + 1
            \/ /\ \E fp, id : scan'[x].cand = [step |-> "record", raw |-> raw, fp |-> fp, id |-> id]
               /\ scan'[x].heardRaws = record.heardRaws
<1>1. PICK fp, id : \/ scan' = [scan EXCEPT ![x] = Dropped(record)]
                    \/ scan' = [scan EXCEPT ![x] =
                          [record EXCEPT !.cand = [step |-> "record", raw |-> raw, fp |-> fp, id |-> id]]]
  BY DEF Triage
<1>2. CASE scan' = [scan EXCEPT ![x] = Dropped(record)]
  BY <1>2 DEF Edited, Runs, ScanFields, Dropped
<1>3. CASE scan' = [scan EXCEPT ![x] =
                      [record EXCEPT !.cand = [step |-> "record", raw |-> raw, fp |-> fp, id |-> id]]]
  BY <1>3 DEF Edited, Runs, ScanFields
<1> QED BY <1>1, <1>2, <1>3

LEMMA TakeRawIs ==
  ASSUME Runs, NEW x \in Exec, TakeRaw(x)
  PROVE  /\ Edited(x, {"mail", "cand", "heardRaws"}) /\ scan[x].stage = "aggregate" /\ scan[x].cand = NoCand
         /\ scan[x].mail # <<>> /\ Head(scan[x].mail).kind = "raw"
         /\ scan'[x].mail = Tail(scan[x].mail)
         /\ \/ scan'[x].cand = NoCand /\ scan'[x].heardRaws = scan[x].heardRaws + 1
            \/ /\ \E fp, id : scan'[x].cand = [step |-> "record", raw |-> Head(scan[x].mail).raw,
                                               fp |-> fp, id |-> id]
               /\ scan'[x].heardRaws = scan[x].heardRaws
<1>1. PICK record : record = [scan[x] EXCEPT !.mail = Tail(@)]
  OBVIOUS
<1>2. /\ DOMAIN record = ScanFields /\ record.mail = Tail(scan[x].mail)
      /\ \A f \in ScanFields \ {"mail"} : record[f] = scan[x][f]
      /\ record.heardRaws = scan[x].heardRaws
  BY <1>1 DEF Runs, ScanFields
<1>3. Triage(x, record, Head(scan[x].mail).raw)
  BY <1>1 DEF TakeRaw
<1> DEFINE raw == Head(scan[x].mail).raw
<1> HIDE DEF raw
<1>5. /\ Edited(x, ScanFields)
      /\ \A f \in ScanFields \ {"cand", "heardRaws"} : scan'[x][f] = record[f]
      /\ \/ scan'[x].cand = NoCand /\ scan'[x].heardRaws = record.heardRaws + 1
         \/ /\ \E fp, id : scan'[x].cand = [step |-> "record", raw |-> raw, fp |-> fp, id |-> id]
            /\ scan'[x].heardRaws = record.heardRaws
  BY <1>2, <1>3, TriageIs DEF raw
<1>4. scan'[x].mail = record.mail
  BY <1>2, <1>5 DEF ScanFields
<1>6. Edited(x, {"mail", "cand", "heardRaws"})
  BY <1>2, <1>5 DEF Edited, ScanFields
<1>7. /\ scan[x].stage = "aggregate" /\ scan[x].cand = NoCand
      /\ scan[x].mail # <<>> /\ Head(scan[x].mail).kind = "raw"
  BY DEF TakeRaw, Aggregating, Idle
<1> QED BY <1>2, <1>4, <1>5, <1>6, <1>7 DEF raw

LEMMA EnrichmentIs ==
  ASSUME Runs, NEW x \in Exec, Enrichment(x)
  PROVE  /\ scan[x].stage = "enrich" /\ scan[x].cand = NoCand
         /\ \/ Edited(x, {"stage", "err"}) /\ scan'[x].stage = "return"
            \/ /\ Edited(x, {"todo", "cand", "heardRaws"})
               /\ \/ scan'[x].cand = NoCand /\ scan'[x].heardRaws = scan[x].heardRaws + 1
                  \/ /\ \E raw, fp, id : scan'[x].cand = [step |-> "record", raw |-> raw, fp |-> fp, id |-> id]
                     /\ scan'[x].heardRaws = scan[x].heardRaws
<1>1. CASE \E err : Ends(x, err)
  BY <1>1, EndsIs DEF Enrichment, Idle
<1>2. CASE Triage(x, [scan[x] EXCEPT !.todo = Tail(@)], EnrichRaw(Head(scan[x].todo)))
  <2>1. PICK record : record = [scan[x] EXCEPT !.todo = Tail(@)]
    OBVIOUS
  <2>2. /\ DOMAIN record = ScanFields
        /\ \A f \in ScanFields \ {"todo"} : record[f] = scan[x][f]
        /\ record.heardRaws = scan[x].heardRaws
    BY <2>1 DEF Runs, ScanFields
  <2>3. PICK raw : Triage(x, record, raw)
    BY <1>2, <2>1
  <2>4. /\ Edited(x, ScanFields)
        /\ \A f \in ScanFields \ {"cand", "heardRaws"} : scan'[x][f] = record[f]
        /\ \/ scan'[x].cand = NoCand /\ scan'[x].heardRaws = record.heardRaws + 1
           \/ /\ \E fp, id : scan'[x].cand = [step |-> "record", raw |-> raw, fp |-> fp, id |-> id]
              /\ scan'[x].heardRaws = record.heardRaws
    BY <2>2, <2>3, TriageIs
  <2>5. Edited(x, {"todo", "cand", "heardRaws"})
    BY <2>2, <2>4 DEF Edited, ScanFields
  <2> QED BY <2>2, <2>4, <2>5 DEF Enrichment, Idle
<1> QED BY <1>1, <1>2 DEF Enrichment

LEMMA RevalidationIs ==
  ASSUME Runs, NEW x \in Exec, Revalidation(x)
  PROVE  /\ scan[x].stage = "revalidate"
         /\ \/ Edited(x, {"stage", "err"}) /\ scan'[x].stage = "return"
            \/ Edited(x, {"todo"})
<1>1. CASE \E err : Ends(x, err)
  BY <1>1, EndsIs DEF Revalidation
<1>2. CASE scan' = [scan EXCEPT ![x].todo = Tail(@)]
  BY <1>2 DEF Revalidation, Edited, Runs, ScanFields
<1> QED BY <1>1, <1>2 DEF Revalidation

\* What process does next with the candidate at hand.
Processed(x) == scan'[x].cand = NoCand /\ scan'[x].heardRaws = scan[x].heardRaws + 1
Carries(x, step) ==
    scan'[x].cand = [scan[x].cand EXCEPT !.step = step] /\ scan'[x].heardRaws = scan[x].heardRaws

LEMMA RecordIs ==
  ASSUME Runs, NEW x \in Exec, Record(x)
  PROVE  /\ Edited(x, {"cand", "seen", "heardRaws"}) /\ scan[x].cand.step = "record"
         /\ Carries(x, "judge") \/ Processed(x)
<1>1. CASE Drop(x)
  BY <1>1, DropIs DEF Record, Processed, Edited
<1>2. CASE scan' = [scan EXCEPT ![x].cand.step = "judge", ![x].seen = @ \cup {scan[x].cand.fp}]
  BY <1>2 DEF Record, Edited, Runs, ScanFields, Carries
<1> QED BY <1>1, <1>2 DEF Record

Flawed(raw) == <<raw.target.n, raw.class>> \in world.flawed

LEMMA JudgeIs ==
  ASSUME Runs, NEW x \in Exec, Judge(x)
  PROVE  /\ Edited(x, {"cand", "heardRaws"}) /\ scan[x].cand.step = "judge"
         /\ \/ Processed(x)
            \/ /\ \E j, fp, id, score :
                    /\ j \in Judgements(scan[x].cand.raw, Params(TaskOf(x)), Flawed(scan[x].cand.raw))
                    /\ scan'[x].cand = [step |-> "publish", raw |-> scan[x].cand.raw, fp |-> fp,
                                        id |-> id, verdict |-> j.verdict, score |-> score]
               /\ scan'[x].heardRaws = scan[x].heardRaws
<1> DEFINE raw == scan[x].cand.raw
           J == Judgements(raw, Params(TaskOf(x)), Flawed(raw))
<1>0. scan[x].cand.step = "judge"
  BY DEF Judge
<1>1. CASE Drop(x)
  BY <1>0, <1>1, DropIs DEF Processed
<1>2. CASE \E j \in J :
             scan' = [scan EXCEPT ![x].cand =
                        [step |-> "publish", raw |-> raw, fp |-> @.fp, id |-> @.id,
                         verdict |-> j.verdict, score |-> Score(raw, j)]]
  <2>1. PICK j \in J :
             scan' = [scan EXCEPT ![x].cand =
                        [step |-> "publish", raw |-> raw, fp |-> @.fp, id |-> @.id,
                         verdict |-> j.verdict, score |-> Score(raw, j)]]
    BY <1>2
  <2>2. PICK c : c = [step |-> "publish", raw |-> raw, fp |-> scan[x].cand.fp, id |-> scan[x].cand.id,
                      verdict |-> j.verdict, score |-> Score(raw, j)]
    OBVIOUS
  <2>3. scan' = [scan EXCEPT ![x] = [scan[x] EXCEPT !.cand = c]]
    BY <2>1, <2>2
  <2>4. /\ Edited(x, {"cand", "heardRaws"}) /\ scan'[x].cand = c
        /\ scan'[x].heardRaws = scan[x].heardRaws
    BY <2>3 DEF Edited, Runs, ScanFields
  <2> HIDE DEF J
  <2> QED BY <1>0, <2>2, <2>4 DEF J
<1> QED BY <1>0, <1>1, <1>2 DEF Judge, Flawed

LEMMA PublishIs ==
  ASSUME Runs, NEW x \in Exec, Publish(x)
  PROVE  /\ Edited(x, {"cand", "heardRaws"}) /\ scan[x].cand.step = "publish"
         /\ Carries(x, "alert") \/ Processed(x)
<1>1. CASE Drop(x)
  BY <1>1, DropIs DEF Publish, Processed
<1>2. CASE scan' = [scan EXCEPT ![x].cand.step = "alert"]
  BY <1>2 DEF Publish, Edited, Runs, ScanFields, Carries
<1> QED BY <1>1, <1>2 DEF Publish

LEMMA AlertIs ==
  ASSUME Runs, NEW x \in Exec, Alert(x)
  PROVE  /\ Edited(x, {"cand", "heardRaws"}) /\ scan[x].cand.step = "alert"
         /\ Carries(x, "sink")
<1>1. scan' = [scan EXCEPT ![x].cand.step = "sink"] /\ scan[x].cand.step = "alert"
  BY DEF Alert
<1> QED BY <1>1 DEF Edited, Runs, ScanFields, Carries

LEMMA SinkIs ==
  ASSUME Runs, NEW x \in Exec, Sink(x)
  PROVE  /\ Edited(x, {"cand", "heardRaws"}) /\ scan[x].cand.step = "sink" /\ Processed(x)
BY DropIs DEF Sink, Processed

\* A report of the job j reaches the runs that are subscribed.
LEMMA MailedIs ==
  ASSUME Runs, NEW x \in Exec, NEW j, NEW message
  PROVE  /\ DOMAIN Mailed(x, j, message) = ScanFields
         /\ \A f \in ScanFields \ {"mail", "sentRaws"} : Mailed(x, j, message)[f] = scan[x][f]
         /\ Mailed(x, j, message).mail =
              IF Subscribed(x) /\ Hears(x, queue[j].task) THEN Append(scan[x].mail, message)
                                                          ELSE scan[x].mail
         /\ Mailed(x, j, message).sentRaws =
              IF scan[x].stage \notin {"idle", "over"} /\ x = j[1] /\ message.kind = "raw"
              THEN scan[x].sentRaws + 1 ELSE scan[x].sentRaws
<1>1. CASE scan[x].stage \in {"idle", "over"}
  <2>1. ~Subscribed(x)
    BY <1>1 DEF Subscribed
  <2> QED BY <1>1, <2>1 DEF Mailed, Runs
<1>2. CASE scan[x].stage \notin {"idle", "over"}
  BY <1>2 DEF Mailed, Runs, ScanFields
<1> QED BY <1>1, <1>2

LEMMA ReportIs ==
  ASSUME Runs, NEW j, NEW message, Report(j, message)
  PROVE  /\ Runs'
         /\ \A x \in Exec :
              /\ \A f \in ScanFields \ {"mail", "sentRaws"} : scan'[x][f] = scan[x][f]
              /\ scan'[x].mail = IF Subscribed(x) /\ Hears(x, queue[j].task)
                                 THEN Append(scan[x].mail, message) ELSE scan[x].mail
              /\ scan'[x].sentRaws =
                   IF scan[x].stage \notin {"idle", "over"} /\ x = j[1] /\ message.kind = "raw"
                   THEN scan[x].sentRaws + 1 ELSE scan[x].sentRaws
BY MailedIs DEF Report, Runs

LEMMA WorkingIs ==
  ASSUME NEW j, Working(j)
  PROVE  UNCHANGED scan \/ \E message : Report(j, message)
<1>1. CASE TakeJob(j)
  BY <1>1 DEF TakeJob
<1>2. CASE Cut(j)
  BY <1>2 DEF Cut
<1>3. CASE Emit(j)
  BY <1>3 DEF Emit
<1>4. CASE FinishJob(j)
  BY <1>4 DEF FinishJob
<1> QED BY <1>1, <1>2, <1>3, <1>4 DEF Working

LEMMA AbortIs ==
  ASSUME Runs, Abort
  PROVE  /\ Runs'
         /\ \A x \in Exec : \A f \in ScanFields \ {"aborted"} : scan'[x][f] = scan[x][f]
BY DEF Abort, Runs, ScanFields

\* A crash forgets the runs; what has not begun stays so.
LEMMA CrashIs ==
  ASSUME Runs, Crash
  PROVE  /\ Runs'
         /\ \A x \in Exec :
              \/ scan[x].stage = "idle" /\ scan'[x] = NoScan
              \/ /\ scan[x].stage # "idle" /\ scan'[x].stage = "over" /\ scan'[x].cand = NoCand
                 /\ scan'[x].mail = <<>> /\ scan'[x].done = 0
                 /\ scan'[x].heardRaws = 0 /\ scan'[x].sentRaws = 0
<1>1. scan' = [x \in Exec |-> IF scan[x].stage = "idle" THEN NoScan
                              ELSE Begun("over", <<>>, <<>>, None)]
  BY DEF Crash
<1> QED BY <1>1, BegunIs DEF Runs, NoScan

LEMMA CoordinatingIs ==
  ASSUME Runs, NEW x \in Exec, Coordinating(x)
  PROVE  Runs' /\ Edited(x, ScanFields)
<1>1. Edited(x, ScanFields)
  <2>1. CASE Run(x)
    BY <2>1, RunIs
  <2>2. CASE Finish(x)
    BY <2>2, FinishIs DEF Edited
  <2>3. CASE Exchange(x)
    BY <2>3, ExchangeIs DEF Edited
  <2>4. CASE DispatchJob(x)
    BY <2>4, DispatchJobIs DEF Edited
  <2>5. CASE Aggregate(x)
    BY <2>5, AggregateIs DEF Edited
  <2>6. CASE CountDone(x)
    BY <2>6, CountDoneIs DEF Edited
  <2>7. CASE TakeRaw(x)
    BY <2>7, TakeRawIs DEF Edited
  <2>8. CASE Record(x)
    BY <2>8, RecordIs DEF Edited
  <2>9. CASE Judge(x)
    BY <2>9, JudgeIs DEF Edited
  <2>10. CASE Publish(x)
    BY <2>10, PublishIs DEF Edited
  <2>11. CASE Alert(x)
    BY <2>11, AlertIs DEF Edited
  <2>12. CASE Sink(x)
    BY <2>12, SinkIs DEF Edited
  <2>13. CASE Enrichment(x)
    BY <2>13, EnrichmentIs DEF Edited
  <2>14. CASE Revalidation(x)
    BY <2>14, RevalidationIs DEF Edited
  <2> QED BY <2>1, <2>2, <2>3, <2>4, <2>5, <2>6, <2>7, <2>8, <2>9, <2>10, <2>11, <2>12, <2>13,
             <2>14 DEF Coordinating, Scanning, Processing
<1> QED BY <1>1, RunsEdited

LEMMA RunsStep == ASSUME Runs, [Next]_vars PROVE Runs'
<1>1. CASE AgentStep \/ UNCHANGED vars
  BY <1>1 DEF AgentStep, vars, detectVars, Runs
<1>2. CASE \E x \in Exec : Coordinating(x)
  BY <1>2, CoordinatingIs
<1>3. CASE \E j \in JobIds : Working(j)
  <2>1. PICK j : Working(j)
    BY <1>3
  <2> QED BY <2>1, WorkingIs, ReportIs DEF Runs
<1> QED BY <1>1, <1>2, <1>3, AbortIs, CrashIs DEF Next

LEMMA RunsBegin == Init => Runs
BY BegunIs DEF Init, Runs, NoScan

-----------------------------------------------------------------------------
(* No verdict confirms on an unflawed target.                              *)

LEMMA Headers ==
  ASSUME NEW flawed, flawed = FALSE
  PROVE  \A r \in HeaderReplies(flawed) : HeadersVerdict(r[1], r[2]) # CONFIRMED
<1> SUFFICES ASSUME NEW r \in HeaderReplies(flawed), HeadersVerdict(r[1], r[2]) = CONFIRMED PROVE FALSE
  OBVIOUS
<1>1. /\ r[1].ok /\ r[2].ok /\ r[1].missing # {} /\ r[1].missing = r[2].missing
  BY DEF HeadersVerdict, CONFIRMED, INCONCLUSIVE, NOT_REPRODUCIBLE
<1> DEFINE page(m) == [ok |-> TRUE, missing |-> m]
<1>2. \/ r[1] \in OrLost({page({})})
      \/ r = <<page({"hsts"}), page({})>> \/ r = <<page({}), page({"hsts"})>>
  BY DEF HeaderReplies
<1>3. CASE r[1] \in OrLost({page({})})
  <2>1. r[1] = page({}) \/ r[1] = Lost(page({}))
    BY <1>3 DEF OrLost
  <2> QED BY <1>1, <2>1 DEF Lost
<1>4. CASE r = <<page({"hsts"}), page({})>> \/ r = <<page({}), page({"hsts"})>>
  BY <1>1, <1>4
<1> QED BY <1>2, <1>3, <1>4

LEMMA Versions ==
  ASSUME NEW flawed, flawed = FALSE
  PROVE  \A r \in VersionReplies(flawed) : VersionVerdict("cve-2021-41773", r[1], r[2], TRUE) # CONFIRMED
BY DEF VersionReplies, VersionVerdict, OrLost, Lost, BannerPatterns, CONFIRMED, INCONCLUSIVE, NOT_REPRODUCIBLE

LEMMA Canaries ==
  ASSUME NEW flawed, flawed = FALSE, NEW oob \in BOOLEAN, NEW canary \in BOOLEAN,
         NEW cancelled \in BOOLEAN, NEW injections, NEW callback \in Signs(flawed)
  PROVE  SSRFVerdict(oob, canary, injections, callback, cancelled) # CONFIRMED
BY DEF Signs, SSRFVerdict, CONFIRMED, INCONCLUSIVE, NOT_REPRODUCIBLE, NOT_VALIDATABLE

LEMMA Times ==
  ASSUME NEW flawed, flawed = FALSE, NEW tr \in SqlTrials(flawed) PROVE TimeVerdict(tr) # CONFIRMED
<1>1. PICK i \in 1 .. 3 : ~tr[i].slow
  BY DEF SqlTrials
<1>2. DOMAIN tr = 1 .. 3
  BY DEF SqlTrials
<1>3. i \notin {k \in Answers(tr) : tr[k].slow}
  BY <1>1
<1>4. {k \in Answers(tr) : tr[k].slow} # DOMAIN tr
  BY <1>2, <1>3
<1> QED BY <1>4 DEF TimeVerdict, CONFIRMED, INCONCLUSIVE, NOT_REPRODUCIBLE

LEMMA Queries ==
  ASSUME NEW flawed, flawed = FALSE, NEW p \in SqlPages(flawed), NEW tr \in SqlTrials(flawed)
  PROVE  SqliVerdict(p[1][1], p[2], p[3], p[4], p[5], tr) # CONFIRMED
<1> DEFINE page(sigs, like) == [ok |-> TRUE, sigs |-> sigs, like |-> like, status |-> 200]
<1>1. /\ p[1] = <<page({}, 100)>> /\ p[2] \in OrLost({page({}, 50)}) /\ p[5] \in OrLost({page({}, 100)})
  BY DEF SqlPages
<1>2. p[1][1] = page({}, 100)
  BY <1>1
<1>3. p[2].sigs = {} /\ p[5].like = 100 /\ p[5].status = 200
  BY <1>1 DEF OrLost, Lost
<1>4. ~ErrorLeg(p[1][1], p[2], p[3])
  BY <1>3 DEF ErrorLeg
<1>5. ~BooleanLeg(p[1][1], p[4], p[5])
  BY <1>2, <1>3 DEF BooleanLeg
<1> QED BY <1>4, <1>5, Times DEF SqliVerdict, CONFIRMED, INCONCLUSIVE

LEMMA ProbeIs ==
  ASSUME NEW n, NEW answer, NEW q \in Probes(n, answer)
  PROVE  \A i \in Answers(q) : i \in 1 .. n /\ (q[i] = answer \/ q[i] = Lost(answer))
BY DEF Probes, Answers

LEMMA Traversals ==
  ASSUME NEW flawed, flawed = FALSE, NEW reference \in OrLost({Robots}), NEW shown \in BOOLEAN,
         NEW q \in Probes(6, Fetched(flawed, "other"))
  PROVE  TraversalVerdict(reference, q, shown) # CONFIRMED
<1> DEFINE answer == Fetched(flawed, "other")
<1>0. /\ answer.signed = FALSE /\ answer.body = "other"
      /\ Lost(answer).signed = FALSE /\ Lost(answer).body = "other"
  BY DEF Lost, Fetched
<1> HIDE DEF answer
<1>1. \A i \in Answers(q) : q[i].signed = FALSE /\ q[i].body = "other"
  <2>1. q \in Probes(6, answer)
    BY DEF answer
  <2> QED BY <1>0, <2>1, ProbeIs
<1>2. \A i \in Answers(q) : ~TraversalHit(i, q[i], reference, shown)
  BY <1>1 DEF OrLost, Lost, Robots, TraversalHit
<1> QED BY <1>2 DEF TraversalVerdict, CONFIRMED, INCONCLUSIVE, NOT_REPRODUCIBLE

LEMMA Ciphers == ASSUME NEW up \in BOOLEAN
  PROVE TlsVerdict(IF up THEN {12, 13} \cup {} ELSE {}, FALSE, up) # CONFIRMED
BY DEF TlsVerdict, CONFIRMED, INCONCLUSIVE, NOT_REPRODUCIBLE

LEMMA Reflections ==
  ASSUME NEW how \in {"encoded", "ambiguous"}, NEW q \in Probes(4, [ok |-> TRUE, reflects |-> how])
  PROVE  XssVerdict(q) # CONFIRMED
<1> DEFINE answer == [ok |-> TRUE, reflects |-> how]
<1>0. answer.reflects = how /\ Lost(answer).reflects = how
  BY DEF Lost
<1> HIDE DEF answer
<1>1. \A i \in Answers(q) : q[i].reflects = how
  <2>1. q \in Probes(4, answer)
    BY DEF answer
  <2> QED BY <1>0, <2>1, ProbeIs
<1>2. "executable" \notin {q[i].reflects : i \in Answers(q)}
  BY <1>1
<1> QED BY <1>2 DEF XssVerdict, CONFIRMED, INCONCLUSIVE, NOT_REPRODUCIBLE

LEMMA Reachable ==
  ASSUME NEW class \in Validatable, NEW oob \in BOOLEAN, NEW flawed, flawed = FALSE
  PROVE  CONFIRMED \notin ReachableVerdicts(class, flawed, oob)
<1> DEFINE R == ReachableVerdicts(class, flawed, oob)
<1>1. CASE class = "security_header"
  <2>1. R = {HeadersVerdict(r[1], r[2]) : r \in HeaderReplies(flawed)}
    BY <1>1 DEF ReachableVerdicts
  <2> QED BY <2>1, Headers
<1>2. CASE class = "version_cve"
  <2>1. R = {VersionVerdict("cve-2021-41773", r[1], r[2], TRUE) : r \in VersionReplies(flawed)}
    BY <1>2 DEF ReachableVerdicts
  <2> QED BY <2>1, Versions
<1>3. CASE class \in {"ssrf", "blind_xxe", "blind_rce"}
  <2>1. R = {SSRFVerdict(oob, canary, injections, callback, cancelled) :
               canary, cancelled \in BOOLEAN, injections \in Probes(4, Answered),
               callback \in Signs(flawed)}
    <3>1. CASE class = "ssrf"
      BY <3>1 DEF ReachableVerdicts
    <3>2. CASE class = "blind_xxe"
      BY <3>2 DEF ReachableVerdicts
    <3>3. CASE class = "blind_rce"
      BY <3>3 DEF ReachableVerdicts
    <3> QED BY <1>3, <3>1, <3>2, <3>3
  <2>2. \A canary, cancelled \in BOOLEAN, injections \in Probes(4, Answered),
           callback \in Signs(flawed) :
          SSRFVerdict(oob, canary, injections, callback, cancelled) # CONFIRMED
    BY Canaries
  <2> QED BY <2>1, <2>2
<1>4. CASE class = "sqli"
  <2>1. R = {SqliVerdict(p[1][1], p[2], p[3], p[4], p[5], tr) :
               p \in SqlPages(flawed), tr \in SqlTrials(flawed)} \cup {INCONCLUSIVE}
    BY <1>4 DEF ReachableVerdicts
  <2>2. \A p \in SqlPages(flawed), tr \in SqlTrials(flawed) :
          SqliVerdict(p[1][1], p[2], p[3], p[4], p[5], tr) # CONFIRMED
    BY Queries
  <2>3. CONFIRMED \notin {SqliVerdict(p[1][1], p[2], p[3], p[4], p[5], tr) :
                            p \in SqlPages(flawed), tr \in SqlTrials(flawed)}
    BY <2>2
  <2> QED BY <2>1, <2>3 DEF CONFIRMED, INCONCLUSIVE
<1>5. CASE class = "path_traversal"
  <2>1. R = {TraversalVerdict(reference, probes, shown) :
               reference \in OrLost({Robots}), shown \in BOOLEAN,
               probes \in Probes(6, Fetched(flawed, "other"))}
    BY <1>5 DEF ReachableVerdicts
  <2>2. \A reference \in OrLost({Robots}), shown \in BOOLEAN,
               probes \in Probes(6, Fetched(flawed, "other")) :
          TraversalVerdict(reference, probes, shown) # CONFIRMED
    BY Traversals
  <2> QED BY <2>1, <2>2
<1>6. CASE class = "tls_misconfig"
  <2>1. R = {TlsVerdict(IF up THEN {12, 13} \cup {} ELSE {}, FALSE, up) : up \in BOOLEAN}
    BY <1>6 DEF ReachableVerdicts
  <2> QED BY <2>1, Ciphers
<1>7. CASE class = "reflected_xss"
  <2>1. R = {XssVerdict(probes) :
              probes \in UNION {Probes(4, [ok |-> TRUE, reflects |-> how]) : how \in {"encoded", "ambiguous"}}}
    BY <1>7 DEF ReachableVerdicts
  <2> QED BY <2>1, Reflections
<1> QED BY <1>1, <1>2, <1>3, <1>4, <1>5, <1>6, <1>7 DEF Validatable

LEMMA Validated ==
  ASSUME NEW class, NEW oob \in BOOLEAN, NEW flawed, flawed = FALSE
  PROVE  CONFIRMED \notin Validate(class, flawed, oob)
<1>1. CASE class \in Validatable
  <2>1. VerdictsTable[class][flawed][oob] = ReachableVerdicts(class, flawed, oob)
    BY <1>1 DEF VerdictsTable
  <2> QED BY <1>1, <2>1, Reachable DEF Validate
<1>2. CASE class \notin Validatable
  BY <1>2 DEF Validate, CONFIRMED, NOT_VALIDATABLE
<1> QED BY <1>1, <1>2

LEMMA Programs ==
  ASSUME NEW pack, NEW steps, NEW sign, sign = FALSE, steps[1].echo = sign
  PROVE  RunProgram(pack, steps, sign) = FALSE
BY DEF RunProgram

LEMMA Sandboxed ==
  ASSUME NEW class, NEW oob \in BOOLEAN, NEW flawed, flawed = FALSE
  PROVE  CONFIRMED \notin EvsResults(class, flawed, oob)
<1>1. ASSUME NEW free \in BOOLEAN, NEW runs \in BOOLEAN, NEW ok \in BOOLEAN, NEW sign \in Signs(flawed)
      PROVE  EvsVerdict(class, free, oob, runs, Proof(ok, sign), sign)
               # CONFIRMED
  <2> DEFINE steps == Proof(ok, sign)
  <2>1. steps[1].echo = sign /\ sign = FALSE
    BY DEF Signs, Proof
  <2> HIDE DEF steps
  <2>2. RunProgram(ForClass(class), steps, sign) = FALSE
    BY <2>1, Programs
  <2>3. EvsVerdict(class, free, oob, runs, steps, sign) # CONFIRMED
    BY <2>2 DEF EvsVerdict, CONFIRMED, NOT_VALIDATABLE, NOT_REPRODUCIBLE
  <2> QED BY <2>3 DEF steps
<1>2. EvsResults(class, flawed, oob) =
        {EvsVerdict(class, free, oob, runs, Proof(ok, sign), sign) :
           free, runs, ok \in BOOLEAN, sign \in Signs(flawed)}
  BY DEF EvsResults
<1> QED BY <1>1, <1>2

\* A candidate whose target has not the flaw is never confirmed.
LEMMA Judged ==
  ASSUME NEW raw, NEW params, NEW flawed, flawed = FALSE,
         NEW j \in Judgements(raw, params, flawed), world.oob \in BOOLEAN
  PROVE  j.verdict # CONFIRMED
<1> DEFINE own == IF raw.class = "default_creds" /\ params.safe THEN {INCONCLUSIVE}
                  ELSE Validate(raw.class, flawed, world.oob)
           proofs(v) == IF world.evs /\ ShouldVerify(raw.severity, v, params.verify)
                        THEN EvsResults(raw.class, flawed, world.oob) ELSE {"keep"}
           With(v, p) == [verdict |-> IF p = "keep" THEN v ELSE p, verified |-> p = CONFIRMED]
           Stored(w) == IF w.verdict = CONFIRMED /\ ~world.evidence
                        THEN [w EXCEPT !.verdict = INCONCLUSIVE] ELSE w
<1>1. CONFIRMED \notin own
  BY Validated DEF CONFIRMED, INCONCLUSIVE
<1>2. \A v : CONFIRMED \notin proofs(v)
  BY Sandboxed DEF CONFIRMED
<1>0. PICK v \in own : \E p \in proofs(v) : j = Stored(With(v, p))
  BY DEF Judgements
<1>3. PICK p \in proofs(v) : j = Stored(With(v, p))
  BY <1>0
<1>4. PICK w : w = With(v, p)
  OBVIOUS
<1>5. w.verdict # CONFIRMED
  <2>1. v # CONFIRMED /\ p # CONFIRMED
    BY <1>1, <1>2
  <2> HIDE DEF own, proofs
  <2> QED BY <1>4, <2>1
<1>6. j = w
  BY <1>3, <1>4, <1>5
<1> QED BY <1>5, <1>6

-----------------------------------------------------------------------------
(* No false alarm.                                                         *)

LEMMA WorldStays == ASSUME [Next]_vars PROVE world' = world
<1>1. CASE UNCHANGED vars
  BY <1>1 DEF vars, agentVars
<1>2. CASE AgentStep
  BY <1>2 DEF AgentStep, Redispatch, Dispatch, Planning, Authorize, Start, ReportResult, Deadline,
     Reauthorize, TokenExpires, ApplyEvent, HaltAndAck, Lapse, HearKill, Heartbeat, WatchHalt
<1>3. CASE Abort
  BY <1>3 DEF Abort
<1>4. CASE Crash
  BY <1>4 DEF Crash, AgentCrash
<1>5. ASSUME NEW x, Coordinating(x) PROVE world' = world
  BY <1>5 DEF Coordinating, Scanning, Processing, Run, Finish, Return, Exchange, DispatchJob,
     Aggregate, CountDone, TakeRaw, Record, Judge, Publish, Alert, Sink, Enrichment, Revalidation,
     agentVars, agentButFaults
<1>6. ASSUME NEW j, Working(j) PROVE world' = world
  BY <1>6 DEF Working, TakeJob, Cut, Emit, FinishJob, agentVars, agentButFaults
<1> QED BY <1>1, <1>2, <1>3, <1>4, <1>5, <1>6 DEF Next

JudgedFields == {"step", "raw", "fp", "id", "verdict", "score"}

\* A candidate, before process has judged it and after; a confirmed one is of
\* a target that has the flaw.
Sound(c, flawed) ==
    \/ c = NoCand
    \/ c.step \in {"record", "judge"} /\ DOMAIN c = {"step", "raw", "fp", "id"}
    \/ /\ c.step \in {"publish", "alert", "sink"} /\ DOMAIN c = JudgedFields
       /\ c.verdict = CONFIRMED => <<c.raw.target.n, c.raw.class>> \in flawed

AlarmInv == Runs /\ world \in Scenario /\ NoFalseAlarm /\ \A x \in Exec : Sound(scan[x].cand, world.flawed)

LEMMA NoCandIs == DOMAIN NoCand = {"step"} /\ NoCand.step = "none"
BY DEF NoCand

LEMMA CarriesSound ==
  ASSUME Runs, NEW flawed, NEW x \in Exec, Sound(scan[x].cand, flawed), NEW step, Carries(x, step),
         \/ scan[x].cand.step = "record" /\ step = "judge"
         \/ scan[x].cand.step = "publish" /\ step = "alert"
         \/ scan[x].cand.step = "alert" /\ step = "sink"
  PROVE  Sound(scan'[x].cand, flawed)
<1>1. scan[x].cand # NoCand
  BY NoCandIs
<1>2. scan'[x].cand = [scan[x].cand EXCEPT !.step = step]
  BY DEF Carries
<1> QED BY <1>1, <1>2 DEF Sound, JudgedFields

LEMMA AlarmBegins == Init => AlarmInv
<1> SUFFICES ASSUME Init PROVE AlarmInv
  OBVIOUS
<1>1. \A x \in Exec : scan[x].cand = NoCand
  BY BegunIs DEF Init, NoScan
<1> QED BY <1>1, RunsBegin DEF Init, AgentInit, AlarmInv, NoFalseAlarm, Sound

\* What a step of one run does to its own candidate.
LEMMA CandidateSound ==
  ASSUME AlarmInv, NEW x \in Exec, Coordinating(x)
  PROVE  Sound(scan'[x].cand, world.flawed)
<1> USE DEF AlarmInv
<1>0. Sound(NoCand, world.flawed) /\ Sound(scan[x].cand, world.flawed)
  BY DEF Sound
<1>1. CASE Processed(x)
  BY <1>0, <1>1 DEF Processed
<1>2. CASE scan'[x].cand = scan[x].cand
  BY <1>0, <1>2
<1>3. CASE \E raw, fp, id : scan'[x].cand = [step |-> "record", raw |-> raw, fp |-> fp, id |-> id]
  <2>1. PICK raw, fp, id : scan'[x].cand = [step |-> "record", raw |-> raw, fp |-> fp, id |-> id]
    BY <1>3
  <2>2. scan'[x].cand.step = "record" /\ DOMAIN scan'[x].cand = {"step", "raw", "fp", "id"}
    BY <2>1
  <2> QED BY <2>2 DEF Sound
<1>4. CASE Run(x)
  BY <1>0, <1>4, RunIs DEF Fresh
<1>5. CASE Finish(x)
  BY <1>2, <1>5, FinishIs DEF Edited, ScanFields
<1>6. CASE Exchange(x)
  BY <1>2, <1>6, ExchangeIs DEF Edited, ScanFields
<1>7. CASE DispatchJob(x)
  BY <1>2, <1>7, DispatchJobIs DEF Edited, ScanFields
<1>8. CASE Aggregate(x)
  BY <1>2, <1>8, AggregateIs DEF Edited, ScanFields
<1>9. CASE CountDone(x)
  BY <1>2, <1>9, CountDoneIs DEF Edited, ScanFields
<1>10. CASE TakeRaw(x)
  BY <1>0, <1>3, <1>10, TakeRawIs
<1>11. CASE Record(x)
  <2>1. CASE Carries(x, "judge")
    BY <1>11, <2>1, RecordIs, CarriesSound
  <2> QED BY <1>1, <1>11, <2>1, RecordIs
<1>12. CASE Judge(x)
  <2>1. ASSUME NEW j, NEW fp, NEW id, NEW score,
               j \in Judgements(scan[x].cand.raw, Params(TaskOf(x)), Flawed(scan[x].cand.raw)),
               scan'[x].cand = [step |-> "publish", raw |-> scan[x].cand.raw, fp |-> fp,
                                id |-> id, verdict |-> j.verdict, score |-> score]
        PROVE  Sound(scan'[x].cand, world.flawed)
    <3>1. world.oob \in BOOLEAN
      BY Sandboxes
    <3>2. j.verdict = CONFIRMED => Flawed(scan[x].cand.raw)
      <4>1. CASE Flawed(scan[x].cand.raw)
        BY <4>1
      <4>2. CASE ~Flawed(scan[x].cand.raw)
        <5>1. PICK flawed : flawed = Flawed(scan[x].cand.raw)
          OBVIOUS
        <5>2. flawed = FALSE
          <6>1. Flawed(scan[x].cand.raw) = FALSE
            BY <4>2 DEF Flawed
          <6> QED BY <5>1, <6>1
        <5> QED BY <2>1, <3>1, <5>1, <5>2, Judged
      <4> QED BY <4>1, <4>2
    <3>3. PICK raw : raw = scan[x].cand.raw
      OBVIOUS
    <3>4. PICK c : c = [step |-> "publish", raw |-> raw, fp |-> fp,
                        id |-> id, verdict |-> j.verdict, score |-> score]
      OBVIOUS
    <3>5. c.step = "publish" /\ DOMAIN c = JudgedFields /\ c.raw = raw /\ c.verdict = j.verdict
      BY <3>4 DEF JudgedFields
    <3>6. c.verdict = CONFIRMED => Flawed(c.raw)
      BY <3>2, <3>3, <3>5
    <3>7. Sound(c, world.flawed)
      BY <3>5, <3>6 DEF Sound, Flawed
    <3> QED BY <2>1, <3>3, <3>4, <3>7
  <2>2. CASE \E j, fp, id, score :
               /\ j \in Judgements(scan[x].cand.raw, Params(TaskOf(x)), Flawed(scan[x].cand.raw))
               /\ scan'[x].cand = [step |-> "publish", raw |-> scan[x].cand.raw, fp |-> fp,
                                   id |-> id, verdict |-> j.verdict, score |-> score]
    BY <2>1, <2>2
  <2> QED BY <1>1, <1>12, <2>2, JudgeIs
<1>13. CASE Publish(x)
  <2>1. CASE Carries(x, "alert")
    BY <1>13, <2>1, PublishIs, CarriesSound
  <2> QED BY <1>1, <1>13, <2>1, PublishIs
<1>14. CASE Alert(x)
  BY <1>14, AlertIs, CarriesSound
<1>15. CASE Sink(x)
  BY <1>1, <1>15, SinkIs
<1>16. CASE Enrichment(x)
  <2>1. \/ scan'[x].cand = scan[x].cand \/ scan'[x].cand = NoCand
        \/ \E raw, fp, id : scan'[x].cand = [step |-> "record", raw |-> raw, fp |-> fp, id |-> id]
    BY <1>16, EnrichmentIs DEF Edited, ScanFields
  <2> QED BY <1>0, <1>3, <2>1
<1>17. CASE Revalidation(x)
  BY <1>2, <1>17, RevalidationIs DEF Edited, ScanFields
<1> QED BY <1>4, <1>5, <1>6, <1>7, <1>8, <1>9, <1>10, <1>11, <1>12, <1>13, <1>14, <1>15, <1>16,
           <1>17 DEF Coordinating, Scanning, Processing

\* Only Alert writes to detect.alert, and it writes of the candidate at hand.
LEMMA AlertsStay ==
  ASSUME [Next]_vars, \A x \in Exec : ~Alert(x)
  PROVE  alerts' = alerts
<1>1. CASE UNCHANGED vars \/ AgentStep
  BY <1>1 DEF vars, detectVars, AgentStep
<1>2. CASE Abort \/ Crash
  BY <1>2 DEF Abort, Crash, stores
<1>3. ASSUME NEW x \in Exec, Coordinating(x) PROVE alerts' = alerts
  BY <1>3 DEF Coordinating, Scanning, Processing, Run, Finish, Exchange, DispatchJob,
     Aggregate, CountDone, TakeRaw, Record, Judge, Publish, Sink, Enrichment, Revalidation, stores
<1>4. ASSUME NEW j, Working(j) PROVE alerts' = alerts
  BY <1>4 DEF Working, TakeJob, Cut, Emit, FinishJob, stores
<1> QED BY <1>1, <1>2, <1>3, <1>4 DEF Next

LEMMA AlertTrue ==
  ASSUME AlarmInv, world' = world, NEW x \in Exec, Alert(x)
  PROVE  NoFalseAlarm'
<1>1. CASE alerts' = alerts
  BY <1>1 DEF AlarmInv, NoFalseAlarm
<1>2. CASE Alerts(x) /\ alerts' = alerts \cup {[id |-> scan[x].cand.id,
                target |-> scan[x].cand.raw.target.n, class |-> scan[x].cand.raw.class]}
  <2>1. scan[x].cand.verdict = CONFIRMED
    BY <1>2 DEF Alerts, ShouldAlert
  <2>2. Flawed(scan[x].cand.raw)
    BY <2>1, NoCandIs DEF AlarmInv, Sound, Alert, Flawed
  <2>3. PICK a : a = [id |-> scan[x].cand.id, target |-> scan[x].cand.raw.target.n,
                      class |-> scan[x].cand.raw.class]
    OBVIOUS
  <2>4. <<a.target, a.class>> \in world.flawed
    BY <2>2, <2>3 DEF Flawed
  <2>5. alerts' = alerts \cup {a}
    BY <1>2, <2>3
  <2> QED BY <2>4, <2>5 DEF AlarmInv, NoFalseAlarm
<1> QED BY <1>1, <1>2 DEF Alert

LEMMA AlarmStep == AlarmInv /\ [Next]_vars => AlarmInv'
<1> SUFFICES ASSUME AlarmInv, [Next]_vars PROVE AlarmInv'
  OBVIOUS
<1>1. world' = world /\ Runs'
  BY WorldStays, RunsStep DEF AlarmInv
<1>2. NoFalseAlarm'
  <2>1. CASE \E x \in Exec : Alert(x)
    BY <1>1, <2>1, AlertTrue
  <2>2. CASE \A x \in Exec : ~Alert(x)
    BY <1>1, <2>2, AlertsStay DEF AlarmInv, NoFalseAlarm
  <2> QED BY <2>1, <2>2
<1>3. \A x \in Exec : Sound(scan'[x].cand, world.flawed)
  <2>1. CASE \A x \in Exec : scan'[x].cand = scan[x].cand \/ scan'[x].cand = NoCand
    BY <2>1 DEF AlarmInv, Sound
  <2>2. CASE UNCHANGED vars \/ AgentStep
    BY <2>1, <2>2 DEF vars, detectVars, AgentStep
  <2>3. CASE Abort
    BY <2>1, <2>3, AbortIs DEF AlarmInv, ScanFields
  <2>4. CASE Crash
    BY <2>1, <2>4, CrashIs, BegunIs DEF AlarmInv, NoScan
  <2>5. ASSUME NEW j, Working(j) PROVE \A x \in Exec : scan'[x].cand = scan[x].cand
    BY <2>5, WorkingIs, ReportIs DEF AlarmInv, ScanFields
  <2>6. ASSUME NEW x \in Exec, Coordinating(x)
        PROVE  \A y \in Exec : Sound(scan'[y].cand, world.flawed)
    <3>1. Sound(scan'[x].cand, world.flawed)
      BY <2>6, CandidateSound
    <3>2. \A y \in Exec \ {x} : scan'[y] = scan[y]
      BY <2>6, CoordinatingIs DEF AlarmInv, Edited
    <3> QED BY <3>1, <3>2 DEF AlarmInv
  <2> QED BY <2>1, <2>2, <2>3, <2>4, <2>5, <2>6 DEF Next
<1> QED BY <1>1, <1>2, <1>3 DEF AlarmInv

\* process raises detect.alert only for a candidate that a validator or the
\* sandbox confirmed, and neither confirms what is not there: every alert is
\* of a target that has the flaw.
THEOREM AlarmsAreTrue == Spec => []NoFalseAlarm
<1>1. AlarmInv => NoFalseAlarm
  BY DEF AlarmInv
<1> QED BY AlarmBegins, AlarmStep, <1>1, PTL DEF Spec

-----------------------------------------------------------------------------
(* A kill reaches the runs it covers.                                      *)

ExecFields == {"stage", "task", "ctx", "halted", "token", "reauth", "status"}
Early == {"planning", "authorizing", "cleared"}
Active == {"exchange", "dispatch", "aggregate", "enrich"}

\* The executions and the table of running tasks.
Executing ==
    /\ DOMAIN exec = Exec /\ \A x \in Exec : DOMAIN exec[x] = ExecFields
    /\ \A x \in Exec : exec[x] = NoExec \/ (exec[x].stage # "idle" /\ TaskOf(x) \in Task)
    /\ DOMAIN running = Task /\ DOMAIN sent = Task /\ DOMAIN inbox = Task
    /\ \A t \in Task : running[t] \in Exec => exec[running[t]] # NoExec

\* A task that was sent once has one execution, or none yet.
Alone ==
    \A t \in Task : sent[t] = 1 =>
      /\ inbox[t] \in {0, 1}
      /\ inbox[t] = 1 => \A x \in Exec : exec[x] # NoExec => TaskOf(x) # t
      /\ \A x, y \in Exec : exec[x] # NoExec /\ exec[y] # NoExec /\ TaskOf(x) = t /\ TaskOf(y) = t => x = y
Unsent == \A t \in Task : sent[t] # 1 => (sent[t] = 0 /\ inbox[t] = 0) \/ sent[t] > 1

Table == \A x \in Exec : exec[x].stage = "running" /\ sent[TaskOf(x)] = 1 => running[TaskOf(x)] = x

Gated == \A x \in Exec : exec[x].stage \in {"authorizing", "cleared", "running"} => PlanOk(TaskOf(x))

Before == \A x \in Exec : exec[x].stage \in Early \cup {"idle"} => scan[x].stage = "idle"

KillInv == Runs /\ Executing /\ Alone /\ Unsent /\ Table /\ Gated /\ Before /\ KillReaches

\* A step in which no execution begins or goes on to its next stage: some may
\* end, some may be halted.
Ages ==
    /\ DOMAIN exec' = Exec
    /\ \A x \in Exec : /\ DOMAIN exec'[x] = ExecFields
                       /\ exec'[x].task = exec[x].task
                       /\ exec[x] = NoExec => exec'[x] = NoExec
                       /\ exec[x] # NoExec => exec'[x] # NoExec
                       /\ exec'[x].stage = exec[x].stage \/ exec'[x].stage \in {"ended", "over"}
                       /\ exec[x].ctx # "live" => exec'[x].ctx # "live"
    /\ UNCHANGED <<world, sent, inbox>>

LEMMA NoExecIs == DOMAIN NoExec = ExecFields /\ NoExec.stage = "idle" /\ NoExec.reauth = FALSE
BY DEF NoExec, ExecFields

LEMMA HaltTasksIs ==
  ASSUME Executing, NEW victims, HaltTasks(victims), \A x \in victims \cap Exec : exec[x] # NoExec,
         UNCHANGED <<world, sent, inbox>>
  PROVE  /\ Ages
         /\ \A x \in victims \cap Exec : exec'[x].ctx # "live"
<1>1. \A x \in Exec : exec'[x] = IF x \notin victims THEN exec[x]
                                 ELSE [exec[x] EXCEPT !.halted = TRUE,
                                         !.ctx = IF @ = "live" THEN "cancelled" ELSE @]
  BY DEF HaltTasks
<1>2. DOMAIN exec' = Exec
  BY DEF HaltTasks
<1>3. ASSUME NEW x \in Exec, x \in victims
      PROVE  /\ DOMAIN exec'[x] = ExecFields /\ exec'[x].task = exec[x].task
             /\ exec'[x].stage = exec[x].stage /\ exec'[x].ctx # "live" /\ exec'[x] # NoExec
             /\ exec[x] # NoExec
  <2>1. exec'[x] = [exec[x] EXCEPT !.halted = TRUE, !.ctx = IF @ = "live" THEN "cancelled" ELSE @]
    BY <1>1, <1>3
  <2>2. DOMAIN exec[x] = ExecFields /\ exec[x].stage # "idle"
    BY <1>3 DEF Executing
  <2>3. PICK c : c = IF exec[x].ctx = "live" THEN "cancelled" ELSE exec[x].ctx
    OBVIOUS
  <2>4. exec'[x] = [exec[x] EXCEPT !.halted = TRUE, !.ctx = c] /\ c # "live"
    BY <2>1, <2>3
  <2>5. /\ DOMAIN exec'[x] = ExecFields /\ exec'[x].task = exec[x].task
        /\ exec'[x].stage = exec[x].stage /\ exec'[x].ctx = c
    BY <2>2, <2>4 DEF ExecFields
  <2> QED BY <1>3, <2>2, <2>4, <2>5, NoExecIs
<1> QED BY <1>1, <1>2, <1>3 DEF Ages, Executing

LEMMA EndIs ==
  ASSUME Executing, NEW x \in Exec, exec[x] # NoExec, NEW status, End(x, status), UNCHANGED <<world, sent, inbox>>
  PROVE  Ages /\ exec'[x].stage = "ended"
<1>1. exec' = [exec EXCEPT ![x].stage = "ended", ![x].status = status, ![x].reauth = FALSE]
  BY DEF End
<1>2. DOMAIN exec[x] = ExecFields
  BY DEF Executing
<1>3. /\ DOMAIN exec'[x] = ExecFields /\ exec'[x].task = exec[x].task
      /\ exec'[x].stage = "ended" /\ exec'[x].ctx = exec[x].ctx /\ DOMAIN exec' = Exec
      /\ \A y \in Exec \ {x} : exec'[y] = exec[y]
  BY <1>1, <1>2 DEF Executing, ExecFields
<1> QED BY <1>3, NoExecIs DEF Ages, Executing

LEMMA MatchingIs == ASSUME Executing PROVE \A x \in Registered \cap Exec : exec[x] # NoExec
BY DEF Executing, Registered

\* The table changes in such a step only for a task that has ended.
Retires ==
    /\ DOMAIN running' = Task
    /\ \A t \in Task : running'[t] \in Exec => running'[t] = running[t]
    /\ \A x \in Exec : exec'[x].stage = "running" /\ TaskOf(x) \in Task /\ sent[TaskOf(x)] = 1
         => running'[TaskOf(x)] = running[TaskOf(x)]
\* The runs go on in such a step, and none begins.
Proceeds ==
    /\ Runs'
    /\ \A x \in Exec : scan'[x].stage \in Active => scan[x].stage \in Active
    /\ \A x \in Exec : exec[x].stage \in Early \cup {"idle"} => scan'[x].stage = scan[x].stage
Hushed == \A r : r \in heard' \cap Live' => r \in heard \cap Live

TableInv == Runs /\ Executing /\ Alone /\ Unsent /\ Table /\ Gated /\ Before

LEMMA Aging ==
  ASSUME TableInv, Ages, Retires, Proceeds
  PROVE  TableInv'
<1>1. Executing'
  <2>1. \A x \in Exec : exec'[x] = NoExec \/ (exec'[x].stage # "idle" /\ exec'[x].task \in Task)
    BY DEF Ages, TableInv, Executing, TaskOf
  <2>2. \A t \in Task : running'[t] \in Exec => exec'[running'[t]] # NoExec
    BY DEF Ages, Retires, TableInv, Executing
  <2> QED BY <2>1, <2>2 DEF Ages, Retires, TableInv, Executing, TaskOf
<1>2. Alone' /\ Unsent'
  <2>1. sent' = sent /\ inbox' = inbox
    BY DEF Ages
  <2>2. \A x \in Exec : exec'[x].task = exec[x].task /\ (exec'[x] # NoExec <=> exec[x] # NoExec)
    BY DEF Ages
  <2> QED BY <2>1, <2>2 DEF TableInv, Alone, Unsent, TaskOf
<1>3. Table'
  <2> SUFFICES ASSUME NEW x \in Exec, exec'[x].stage = "running", sent'[exec'[x].task] = 1
               PROVE  running'[exec'[x].task] = x
    BY DEF Table, TaskOf
  <2>1. exec[x].stage = "running" /\ exec'[x].task = exec[x].task /\ sent[exec[x].task] = 1
    BY DEF Ages
  <2>2. TaskOf(x) \in Task
    BY <2>1, NoExecIs DEF TableInv, Executing
  <2> QED BY <2>1, <2>2 DEF TableInv, Table, Retires, TaskOf
<1>4. Gated'
  <2>1. \A x \in Exec : exec'[x].stage \in {"authorizing", "cleared", "running"} =>
          exec[x].stage = exec'[x].stage /\ exec'[x].task = exec[x].task
    BY DEF Ages
  <2>2. \A t : PlanOk(t)' <=> PlanOk(t)
    BY DEF Ages, PlanOk, Assignment
  <2> QED BY <2>1, <2>2 DEF TableInv, Gated, TaskOf
<1>5. Before'
  BY DEF Ages, Proceeds, TableInv, Before, Early
<1> QED BY <1>1, <1>2, <1>3, <1>4, <1>5 DEF TableInv, Proceeds

\* Who is to be reached.
Reached(x, r) ==
    /\ exec[x] # NoExec /\ exec[x].stage = "running" /\ Assignment(TaskOf(x)).risk > 0
    /\ sent[TaskOf(x)] = 1 /\ scan[x].stage \in Active /\ Covered(r, x)

LEMMA KillIs == KillReaches <=> \A x \in Exec : \A r \in heard \cap Live : Reached(x, r) => Ctx(x) # "live"
BY DEF KillReaches, Reached, Active

LEMMA ReachedBefore ==
  ASSUME Ages, Proceeds, NEW x \in Exec, NEW r, Reached(x, r)'
  PROVE  Reached(x, r)
<1>1. /\ exec[x].stage = "running" /\ exec'[x].task = exec[x].task /\ exec[x] # NoExec
      /\ scan[x].stage \in Active /\ sent' = sent /\ world' = world
  BY DEF Ages, Proceeds, Reached
<1> QED BY <1>1 DEF Reached, Covered, Assignment, TaskOf

LEMMA AgingKill ==
  ASSUME KillReaches, Ages, Proceeds, Hushed
  PROVE  KillReaches'
<1>1. ASSUME NEW x \in Exec, NEW r \in heard' \cap Live', Reached(x, r)' PROVE exec'[x].ctx # "live"
  <2>1. Reached(x, r) /\ r \in heard \cap Live
    BY <1>1, ReachedBefore DEF Hushed
  <2>2. exec[x].ctx # "live"
    BY <2>1, KillIs DEF Ctx
  <2> QED BY <2>2 DEF Ages
<1>2. (\A x \in Exec : \A r \in heard \cap Live : Reached(x, r) => Ctx(x) # "live")'
  BY <1>1 DEF Ctx
<1> QED BY <1>2, KillIs, PTL

LEMMA SameAges == ASSUME Executing, UNCHANGED <<world, sent, inbox, exec>> PROVE Ages
BY DEF Executing, Ages

LEMMA SameRetires == ASSUME Executing, UNCHANGED running PROVE Retires
BY DEF Executing, Retires

LEMMA Forgets ==
  ASSUME TableInv, NEW x \in Exec, ReportResult(x)
  PROVE  Ages /\ Retires
<1>1. /\ exec' = [exec EXCEPT ![x].stage = "over"] /\ exec[x].stage = "ended"
      /\ running' = [running EXCEPT ![TaskOf(x)] = Nobody]
      /\ UNCHANGED <<world, sent, inbox>>
  BY DEF ReportResult
<1>2. exec[x] # NoExec
  BY <1>1, NoExecIs
<1>3. /\ DOMAIN exec' = Exec /\ DOMAIN exec'[x] = ExecFields /\ exec'[x].stage = "over"
      /\ exec'[x].task = exec[x].task /\ exec'[x].ctx = exec[x].ctx
      /\ \A y \in Exec \ {x} : exec'[y] = exec[y]
  BY <1>1 DEF TableInv, Executing, ExecFields
<1>4. Ages
  BY <1>1, <1>2, <1>3, NoExecIs DEF Ages, TableInv, Executing
<1>5. Nobody \notin Exec
  BY Executions DEF Nobody
<1>6. ASSUME NEW y \in Exec, exec'[y].stage = "running", TaskOf(y) \in Task, sent[TaskOf(y)] = 1
      PROVE  running'[TaskOf(y)] = running[TaskOf(y)]
  <2>1. y # x /\ exec[y].stage = "running" /\ exec[y] # NoExec
    BY <1>3, <1>6, NoExecIs
  <2>2. TaskOf(y) # TaskOf(x)
    BY <1>2, <1>6, <2>1 DEF TableInv, Alone
  <2> QED BY <1>1, <1>6, <2>2 DEF TableInv, Executing
<1> QED BY <1>1, <1>4, <1>5, <1>6 DEF Retires, TableInv, Executing

\* The halts: who is cancelled was in the table.
Halting == HaltAndAck \/ Heartbeat \/ (\E kill : HearKill(kill)) \/ (\E x \in Exec : WatchHalt(x))

LEMMA HaltingIs ==
  ASSUME TableInv, Halting
  PROVE  Ages /\ Retires
<1>1. \A x \in Registered \cap Exec : exec[x] # NoExec
  BY MatchingIs DEF TableInv
<1>2. Matching \subseteq Registered
  BY DEF Matching
<1>3. UNCHANGED <<world, sent, inbox, running>>
  BY DEF Halting, HaltAndAck, Heartbeat, HearKill, WatchHalt
<1>4. \E victims : HaltTasks(victims) /\ \A x \in victims \cap Exec : exec[x] # NoExec
  <2>1. CASE HaltAndAck \/ Heartbeat
    BY <1>1, <1>2, <2>1 DEF HaltAndAck, Heartbeat, HaltMatching
  <2>2. ASSUME NEW kill, HearKill(kill)
        PROVE  \E victims : HaltTasks(victims) /\ \A x \in victims \cap Exec : exec[x] # NoExec
    <3> DEFINE named == {x \in Registered : KillDecision(kill, Assignment(TaskOf(x)).mission)}
    <3>1. HaltTasks(Matching \cup named) \/ HaltTasks(named)
      BY <2>2 DEF HearKill
    <3>2. \A x \in named \cap Exec : exec[x] # NoExec
      BY <1>1
    <3>3. \A x \in (Matching \cup named) \cap Exec : exec[x] # NoExec
      BY <1>1, <1>2
    <3> HIDE DEF named
    <3> QED BY <3>1, <3>2, <3>3
  <2>3. ASSUME NEW x \in Exec, WatchHalt(x)
        PROVE  \E victims : HaltTasks(victims) /\ \A y \in victims \cap Exec : exec[y] # NoExec
    BY <2>3, NoExecIs DEF WatchHalt
  <2> QED BY <2>1, <2>2, <2>3 DEF Halting
<1> QED BY <1>3, <1>4, HaltTasksIs, SameRetires DEF TableInv

LEMMA SmallSteps ==
  ASSUME TableInv, NEW x \in Exec, Deadline(x) \/ Reauthorize(x) \/ TokenExpires(x)
  PROVE  Ages /\ Retires
<1>1. \/ exec' = [exec EXCEPT ![x].ctx = "deadline"] /\ exec[x].stage = "running"
      \/ exec' = [exec EXCEPT ![x].reauth = FALSE] /\ exec[x].reauth
      \/ exec' = [exec EXCEPT ![x].token = FALSE] /\ exec[x].stage = "running"
  BY DEF Deadline, Reauthorize, TokenExpires
<1>2. UNCHANGED <<world, sent, inbox, running>>
  BY DEF Deadline, Reauthorize, TokenExpires
<1>3. exec[x] # NoExec /\ DOMAIN exec[x] = ExecFields /\ exec[x].stage # "idle"
  BY <1>1, NoExecIs DEF TableInv, Executing
<1>4. /\ DOMAIN exec' = Exec /\ DOMAIN exec'[x] = ExecFields /\ exec'[x].stage = exec[x].stage
      /\ exec'[x].task = exec[x].task /\ (exec[x].ctx # "live" => exec'[x].ctx # "live")
      /\ \A y \in Exec \ {x} : exec'[y] = exec[y]
  BY <1>1, <1>3 DEF TableInv, Executing, ExecFields
<1> QED BY <1>2, <1>3, <1>4, NoExecIs, SameRetires DEF Ages, TableInv, Executing

LEMMA CrashAges ==
  ASSUME TableInv, Crash
  PROVE  Ages /\ Retires
<1>1. /\ exec' = [x \in Exec |-> IF exec[x] = NoExec THEN NoExec ELSE [exec[x] EXCEPT !.stage = "over"]]
      /\ running' = [t \in Task |-> Nobody] /\ UNCHANGED <<world, sent, inbox>>
  BY DEF Crash, AgentCrash
<1>2. ASSUME NEW x \in Exec, exec[x] # NoExec
      PROVE  /\ DOMAIN exec'[x] = ExecFields /\ exec'[x].task = exec[x].task
             /\ exec'[x].stage = "over" /\ exec'[x].ctx = exec[x].ctx
  BY <1>1, <1>2 DEF TableInv, Executing, ExecFields
<1>3. Nobody \notin Exec
  BY Executions DEF Nobody
<1>4. Ages
  BY <1>1, <1>2, NoExecIs DEF Ages
<1>5. \A x \in Exec : exec'[x].stage # "running"
  BY <1>1, <1>2, NoExecIs
<1> QED BY <1>1, <1>3, <1>4, <1>5 DEF Retires

\* A run of the coordinator ends its execution in Finish.
LEMMA CoordinatingAges ==
  ASSUME TableInv, NEW x \in Exec, Coordinating(x)
  PROVE  Ages /\ Retires
<1>1. CASE Finish(x)
  <2>1. End(x, StatusOf(x, scan[x].err)) /\ exec[x].stage = "running" /\ UNCHANGED <<world, sent, inbox, running>>
    BY <1>1 DEF Finish, Return
  <2> QED BY <2>1, EndIs, SameRetires, NoExecIs DEF TableInv
<1>2. CASE UNCHANGED <<world, sent, inbox, exec, running>>
  BY <1>2, SameAges, SameRetires DEF TableInv
<1>3. CASE Run(x) \/ Exchange(x) \/ DispatchJob(x) \/ Aggregate(x) \/ CountDone(x)
  BY <1>2, <1>3 DEF Run, Exchange, DispatchJob, Aggregate, CountDone, agentVars, agentButFaults
<1>4. CASE TakeRaw(x) \/ Record(x) \/ Judge(x) \/ Publish(x) \/ Alert(x)
  BY <1>2, <1>4 DEF TakeRaw, Record, Judge, Publish, Alert, agentVars, agentButFaults
<1>5. CASE Sink(x) \/ Enrichment(x) \/ Revalidation(x)
  BY <1>2, <1>5 DEF Sink, Enrichment, Revalidation, agentVars, agentButFaults
<1> QED BY <1>1, <1>3, <1>4, <1>5 DEF Coordinating, Scanning, Processing

LEMMA WorkingAges ==
  ASSUME TableInv, NEW j, Working(j)
  PROVE  Ages /\ Retires
<1>1. UNCHANGED <<world, sent, inbox, exec, running>>
  BY DEF Working, TakeJob, Cut, Emit, FinishJob, agentVars, agentButFaults
<1> QED BY <1>1, SameAges, SameRetires DEF TableInv

LEMMA SameProceeds == ASSUME Runs, UNCHANGED scan PROVE Proceeds
BY DEF Proceeds, Runs

LEMMA SameFieldProceeds ==
  ASSUME Runs', \A x \in Exec : scan'[x].stage = scan[x].stage
  PROVE  Proceeds
BY DEF Proceeds

LEMMA EditedProceeds ==
  ASSUME TableInv, NEW x \in Exec, Edited(x, ScanFields),
         scan'[x].stage \in Active => scan[x].stage \in Active,
         scan'[x].stage = scan[x].stage \/ scan[x].stage # "idle"
  PROVE  Proceeds
<1>1. \A y \in Exec \ {x} : scan'[y] = scan[y]
  BY DEF Edited
<1>2. Runs'
  BY RunsEdited DEF TableInv
<1>3. exec[x].stage \in Early \cup {"idle"} => scan'[x].stage = scan[x].stage
  BY DEF TableInv, Before
<1> QED BY <1>1, <1>2, <1>3 DEF Proceeds

LEMMA CoordinatingProceeds ==
  ASSUME TableInv, NEW x \in Exec, Coordinating(x), ~Run(x)
  PROVE  Proceeds
<1>0. Edited(x, ScanFields) /\ Runs
  BY CoordinatingIs DEF TableInv
<1>1. CASE scan'[x].stage = scan[x].stage
  BY <1>0, <1>1, EditedProceeds
<1>2. CASE scan'[x].stage \in {"return", "over"} /\ scan[x].stage # "idle"
  BY <1>0, <1>2, EditedProceeds DEF Active
<1>3. CASE Finish(x)
  BY <1>0, <1>2, <1>3, FinishIs
<1>4. CASE Exchange(x)
  <2>1. CASE scan'[x].stage = "dispatch" /\ scan[x].stage = "exchange"
    BY <1>0, <2>1, EditedProceeds DEF Active
  <2>2. scan[x].stage = "exchange"
    BY <1>4 DEF Exchange
  <2> QED BY <1>0, <1>2, <1>4, <2>1, <2>2, ExchangeIs
<1>5. CASE DispatchJob(x)
  <2>1. CASE scan'[x].stage \in {"dispatch", "aggregate"} /\ scan[x].stage = "dispatch"
    BY <1>0, <2>1, EditedProceeds DEF Active
  <2>2. scan[x].stage = "dispatch" /\ scan'[x].stage \in {"return", "dispatch", "aggregate"}
    BY <1>0, <1>5, DispatchJobIs
  <2> QED BY <1>2, <2>1, <2>2
<1>6. CASE Aggregate(x)
  BY <1>0, <1>2, <1>6, AggregateIs
<1>7. CASE CountDone(x)
  BY <1>0, <1>1, <1>7, CountDoneIs DEF Edited, ScanFields
<1>8. CASE TakeRaw(x)
  BY <1>0, <1>1, <1>8, TakeRawIs DEF Edited, ScanFields
<1>9. CASE Record(x)
  BY <1>0, <1>1, <1>9, RecordIs DEF Edited, ScanFields
<1>10. CASE Judge(x)
  BY <1>0, <1>1, <1>10, JudgeIs DEF Edited, ScanFields
<1>11. CASE Publish(x)
  BY <1>0, <1>1, <1>11, PublishIs DEF Edited, ScanFields
<1>12. CASE Alert(x)
  BY <1>0, <1>1, <1>12, AlertIs DEF Edited, ScanFields
<1>13. CASE Sink(x)
  BY <1>0, <1>1, <1>13, SinkIs DEF Edited, ScanFields
<1>14. CASE Enrichment(x)
  <2>1. scan'[x].stage = scan[x].stage \/ (scan'[x].stage = "return" /\ scan[x].stage # "idle")
    BY <1>0, <1>14, EnrichmentIs DEF Edited, ScanFields
  <2> QED BY <1>1, <1>2, <2>1
<1>15. CASE Revalidation(x)
  <2>1. scan'[x].stage = scan[x].stage \/ (scan'[x].stage = "return" /\ scan[x].stage # "idle")
    BY <1>0, <1>15, RevalidationIs DEF Edited, ScanFields
  <2> QED BY <1>1, <1>2, <2>1
<1> QED BY <1>3, <1>4, <1>5, <1>6, <1>7, <1>8, <1>9, <1>10, <1>11, <1>12, <1>13, <1>14, <1>15
        DEF Coordinating, Scanning, Processing

LEMMA WorkingProceeds == ASSUME Runs, NEW j, Working(j) PROVE Proceeds
<1>1. CASE UNCHANGED scan
  BY <1>1, SameProceeds
<1>2. ASSUME NEW message, Report(j, message) PROVE Proceeds
  BY <1>2, ReportIs, SameFieldProceeds DEF ScanFields
<1> QED BY <1>1, <1>2, WorkingIs

LEMMA AbortProceeds == ASSUME Runs, Abort PROVE Proceeds
BY AbortIs, SameFieldProceeds DEF ScanFields

\* After a crash no execution is waiting to begin.
LEMMA CrashProceeds == ASSUME TableInv, Crash PROVE Proceeds
<1>1. NoScan.stage = "idle"
  BY BegunIs DEF NoScan
<1>2. \A x \in Exec : (scan[x].stage = "idle" /\ scan'[x].stage = "idle") \/ scan'[x].stage = "over"
  BY <1>1, CrashIs DEF TableInv
<1>3. \A x \in Exec : exec[x].stage \in Early \cup {"idle"} => scan'[x].stage = scan[x].stage
  BY <1>1, CrashIs DEF TableInv, Before
<1> QED BY <1>2, <1>3, CrashIs DEF TableInv, Proceeds, Active

\* Nothing but the end of a handler adds to the revocations that are heard.
LEMMA Silent == ASSUME UNCHANGED <<cache, lapsed, heard>> PROVE Hushed
BY DEF Hushed, Live

LEMMA AgentHushed ==
  ASSUME AgentStep, ~HaltAndAck
  PROVE  Hushed
<1>1. ASSUME NEW r, ApplyEvent(r) PROVE Hushed
  <2>1. r \notin heard /\ cache' \subseteq cache \cup {r} /\ heard' = heard /\ lapsed' = lapsed
    BY <1>1 DEF ApplyEvent
  <2> QED BY <2>1 DEF Hushed, Live
<1>2. ASSUME NEW r, Lapse(r) PROVE Hushed
  BY <1>2 DEF Lapse, Hushed, Live
<1>3. ASSUME NEW x \in Exec,
             \/ \E t \in Task : Dispatch(x, t)
             \/ Planning(x, PlanOk(TaskOf(x))) \/ Authorize(x) \/ Start(x) \/ ReportResult(x)
      PROVE  Hushed
  BY <1>3, Silent DEF Dispatch, Planning, Authorize, Start, ReportResult
<1>4. ASSUME NEW x \in Exec,
             Deadline(x) \/ Reauthorize(x) \/ TokenExpires(x) \/ WatchHalt(x)
      PROVE  Hushed
  BY <1>4, Silent DEF Deadline, Reauthorize, TokenExpires, WatchHalt
<1>5. ASSUME NEW t, Redispatch(t) PROVE Hushed
  BY <1>5, Silent DEF Redispatch
<1>6. ASSUME NEW kill, HearKill(kill) PROVE Hushed
  BY <1>6, Silent DEF HearKill
<1>7. CASE Heartbeat
  BY <1>7, Silent DEF Heartbeat
<1> QED BY <1>1, <1>2, <1>3, <1>4, <1>5, <1>6, <1>7 DEF AgentStep

LEMMA CoordinatingHushed == ASSUME NEW x \in Exec, Coordinating(x) PROVE Hushed
<1>1. CASE Run(x) \/ Finish(x) \/ Exchange(x) \/ DispatchJob(x) \/ Aggregate(x) \/ CountDone(x)
  BY <1>1, Silent DEF Run, Finish, Return, Exchange, DispatchJob, Aggregate, CountDone, agentVars, agentButFaults
<1>2. CASE TakeRaw(x) \/ Record(x) \/ Judge(x) \/ Publish(x) \/ Alert(x)
  BY <1>2, Silent DEF TakeRaw, Record, Judge, Publish, Alert, agentVars, agentButFaults
<1>3. CASE Sink(x) \/ Enrichment(x) \/ Revalidation(x)
  BY <1>3, Silent DEF Sink, Enrichment, Revalidation, agentVars, agentButFaults
<1> QED BY <1>1, <1>2, <1>3 DEF Coordinating, Scanning, Processing

LEMMA WorkingHushed == ASSUME NEW j, Working(j) PROVE Hushed
BY Silent DEF Working, TakeJob, Cut, Emit, FinishJob, agentVars, agentButFaults

\* haltMatching takes every registered task that a revocation covers.
LEMMA HaltReaches ==
  ASSUME KillInv, HaltAndAck, UNCHANGED detectVars
  PROVE  KillReaches'
<1>0. TableInv /\ UNCHANGED <<world, sent, running, scan, cache, lapsed>> /\ heard' = heard \cup applying
  BY DEF KillInv, TableInv, HaltAndAck, detectVars
<1>1. Ages /\ Proceeds
  BY <1>0, HaltingIs, SameProceeds DEF Halting, TableInv
<1>2. Live' = Live
  BY <1>0 DEF Live
<1>3. ASSUME NEW x \in Exec, NEW r \in heard' \cap Live', Reached(x, r)' PROVE exec'[x].ctx # "live"
  <2>1. Reached(x, r) /\ r \in Live
    BY <1>1, <1>2, <1>3, ReachedBefore
  <2>2. TaskOf(x) \in Task /\ running[TaskOf(x)] = x /\ exec[x] # NoExec
    BY <1>0, <2>1, NoExecIs DEF TableInv, Executing, Table, Reached
  <2>3. x \in Registered
    BY <2>2, Executions DEF Registered, Nobody
  <2>4. x \in Matching
    BY <2>1, <2>3 DEF Matching, Reached, Covered, Revoked, Halted
  <2>5. HaltTasks(Matching) /\ \A y \in Matching \cap Exec : exec[y] # NoExec
    BY <1>0, MatchingIs DEF HaltAndAck, HaltMatching, Matching, TableInv
  <2>6. inbox' = inbox
    BY DEF HaltAndAck
  <2> QED BY <1>0, <2>4, <2>5, <2>6, HaltTasksIs DEF TableInv
<1>4. (\A x \in Exec : \A r \in heard \cap Live : Reached(x, r) => Ctx(x) # "live")'
  BY <1>3 DEF Ctx
<1> QED BY <1>4, KillIs, PTL

\* The steps by which an execution begins and goes on.
LEMMA ForwardKill ==
  ASSUME KillReaches, Hushed, UNCHANGED <<world, scan>>,
         \A y \in Exec : exec'[y].stage = "running" /\ sent'[exec'[y].task] = 1 /\ scan[y].stage \in Active
           => exec'[y] = exec[y] /\ sent[exec[y].task] = 1
  PROVE  KillReaches'
<1>1. ASSUME NEW x \in Exec, NEW r \in heard' \cap Live', Reached(x, r)' PROVE exec'[x].ctx # "live"
  <2>1. exec'[x] = exec[x] /\ sent[exec[x].task] = 1 /\ scan[x].stage \in Active
    BY <1>1 DEF Reached, TaskOf
  <2>2. Reached(x, r)
    BY <1>1, <2>1 DEF Reached, Covered, Assignment, TaskOf
  <2>3. r \in heard \cap Live
    BY DEF Hushed
  <2>4. exec[x].ctx # "live"
    BY <2>2, <2>3, KillIs DEF Ctx
  <2> QED BY <2>1, <2>4
<1>2. (\A x \in Exec : \A r \in heard \cap Live : Reached(x, r) => Ctx(x) # "live")'
  BY <1>1 DEF Ctx
<1> QED BY <1>2, KillIs, PTL

LEMMA SamePlans == ASSUME world' = world PROVE \A t : PlanOk(t)' <=> PlanOk(t)
BY DEF PlanOk, Assignment

LEMMA Advances ==
  ASSUME TableInv, UNCHANGED <<world, sent, inbox, scan>>, NEW x \in Exec, NEW e,
         exec' = [exec EXCEPT ![x] = e], exec[x].stage \in Early, DOMAIN e = ExecFields,
         e.task = exec[x].task, PlanOk(TaskOf(x)),
         \/ e.stage \in {"authorizing", "cleared"} /\ running' = running
         \/ e.stage = "running" /\ running' = [running EXCEPT ![TaskOf(x)] = x]
  PROVE  TableInv'
<1>1. exec[x] # NoExec /\ e # NoExec /\ e.stage \notin {"idle", "planning"} /\ TaskOf(x) \in Task
  BY NoExecIs DEF Early, TableInv, Executing
<1>2. /\ DOMAIN exec' = Exec /\ exec'[x] = e /\ \A y \in Exec \ {x} : exec'[y] = exec[y]
      /\ \A y \in Exec : exec'[y].task = exec[y].task
      /\ \A y \in Exec : exec'[y] # NoExec <=> exec[y] # NoExec
  BY <1>1 DEF TableInv, Executing
<1>3. Executing'
  <2>1. DOMAIN running' = Task /\ \A t \in Task : running'[t] = running[t] \/ running'[t] = x
    BY DEF TableInv, Executing
  <2>2. \A t \in Task : running'[t] \in Exec => exec'[running'[t]] # NoExec
    BY <1>1, <1>2, <2>1 DEF TableInv, Executing
  <2>3. \A y \in Exec : exec'[y] = NoExec \/ (exec'[y].stage # "idle" /\ exec'[y].task \in Task)
    BY <1>1, <1>2 DEF TableInv, Executing, TaskOf
  <2> QED BY <1>2, <2>1, <2>2, <2>3 DEF TableInv, Executing, TaskOf
<1>4. Alone' /\ Unsent'
  BY <1>2 DEF TableInv, Alone, Unsent, TaskOf
<1>5. Table'
  <2> SUFFICES ASSUME NEW y \in Exec, exec'[y].stage = "running", sent[exec[y].task] = 1
               PROVE  running'[exec[y].task] = y
    BY <1>2 DEF Table, TaskOf
  <2>1. CASE y = x
    BY <1>1, <1>2, <2>1 DEF TableInv, Executing, TaskOf
  <2>2. CASE y # x
    <3>1. exec[y].stage = "running" /\ exec[y] # NoExec /\ running[exec[y].task] = y
      BY <1>2, <2>2, NoExecIs DEF TableInv, Table, TaskOf
    <3>2. exec[y].task # exec[x].task
      BY <1>1, <2>2, <3>1 DEF TableInv, Alone, Executing, TaskOf
    <3> QED BY <3>1, <3>2 DEF TableInv, Executing, TaskOf
  <2> QED BY <2>1, <2>2
<1>6. Gated'
  BY <1>2, SamePlans DEF TableInv, Gated, TaskOf
<1>7. Before'
  BY <1>2 DEF TableInv, Before, Early
<1>8. Runs'
  BY DEF TableInv, Runs
<1> QED BY <1>3, <1>4, <1>5, <1>6, <1>7, <1>8 DEF TableInv

LEMMA PlanningSteps ==
  ASSUME KillInv, Hushed, UNCHANGED detectVars, NEW x \in Exec,
         Planning(x, PlanOk(TaskOf(x))) \/ Authorize(x) \/ Start(x)
  PROVE  KillInv'
<1>0. TableInv /\ KillReaches /\ UNCHANGED <<world, sent, inbox, scan>>
  BY DEF KillInv, TableInv, detectVars, Planning, Authorize, Start
<1>1. ASSUME NEW status, End(x, status), exec[x].stage \in Early, running' = running PROVE KillInv'
  <2>1. Ages /\ Retires /\ Proceeds
    BY <1>0, <1>1, EndIs, SameRetires, SameProceeds, NoExecIs DEF TableInv, Early
  <2> QED BY <1>0, <2>1, Aging, AgingKill DEF KillInv, TableInv
<1>2. ASSUME NEW e, exec' = [exec EXCEPT ![x] = e], exec[x].stage \in Early, DOMAIN e = ExecFields,
             e.task = exec[x].task, PlanOk(TaskOf(x)),
             \/ e.stage \in {"authorizing", "cleared"} /\ running' = running
             \/ e.stage = "running" /\ running' = [running EXCEPT ![TaskOf(x)] = x]
      PROVE  KillInv'
  <2>1. TableInv'
    BY <1>0, <1>2, Advances
  <2>2. \A y \in Exec \ {x} : exec'[y] = exec[y]
    BY <1>0, <1>2 DEF TableInv, Executing
  <2>3. scan[x].stage = "idle"
    BY <1>0, <1>2 DEF TableInv, Before
  <2>4. KillReaches'
    BY <1>0, <2>2, <2>3, ForwardKill DEF Active
  <2> QED BY <2>1, <2>4 DEF KillInv, TableInv
<1>3. DOMAIN exec[x] = ExecFields
  BY <1>0 DEF TableInv, Executing
<1>4. CASE Planning(x, PlanOk(TaskOf(x)))
  <2>1. running' = running /\ exec[x].stage \in Early
    BY <1>4 DEF Planning, Early
  <2>2. CASE PlanOk(TaskOf(x))
    <3>1. PICK e : e = [exec[x] EXCEPT !.stage = "authorizing"]
      OBVIOUS
    <3>2. exec' = [exec EXCEPT ![x] = e]
      BY <1>4, <2>2, <3>1 DEF Planning
    <3>3. DOMAIN e = ExecFields /\ e.task = exec[x].task /\ e.stage = "authorizing"
      BY <1>3, <3>1 DEF ExecFields
    <3> QED BY <1>2, <2>1, <2>2, <3>2, <3>3
  <2>3. CASE ~PlanOk(TaskOf(x))
    BY <1>1, <1>4, <2>1, <2>3 DEF Planning
  <2> QED BY <2>2, <2>3
<1>5. CASE Authorize(x)
  <2>1. running' = running /\ exec[x].stage = "authorizing" /\ PlanOk(TaskOf(x))
    BY <1>0, <1>5 DEF Authorize, TableInv, Gated
  <2>2. CASE End(x, "REJECTED_UNAUTHORIZED")
    BY <1>1, <2>1, <2>2 DEF Early
  <2>3. ASSUME NEW e, exec' = [exec EXCEPT ![x] = e],
               \/ e = [exec[x] EXCEPT !.stage = "cleared"]
               \/ e = [exec[x] EXCEPT !.stage = "cleared", !.token = TRUE, !.reauth = TRUE]
        PROVE  KillInv'
    <3>1. DOMAIN e = ExecFields /\ e.task = exec[x].task /\ e.stage = "cleared"
      BY <1>3, <2>3 DEF ExecFields
    <3> QED BY <1>2, <2>1, <2>3, <3>1 DEF Early
  <2>4. \/ End(x, "REJECTED_UNAUTHORIZED")
        \/ exec' = [exec EXCEPT ![x] = [exec[x] EXCEPT !.stage = "cleared"]]
        \/ exec' = [exec EXCEPT ![x] = [exec[x] EXCEPT !.stage = "cleared", !.token = TRUE, !.reauth = TRUE]]
    BY <1>5 DEF Authorize
  <2> QED BY <2>2, <2>3, <2>4
<1>6. CASE Start(x)
  <2>1. /\ running' = [running EXCEPT ![TaskOf(x)] = x] /\ exec[x].stage = "cleared"
        /\ PlanOk(TaskOf(x))
    BY <1>0, <1>6 DEF Start, TableInv, Gated
  <2>2. PICK e : e = [exec[x] EXCEPT !.stage = "running"]
    OBVIOUS
  <2>3. exec' = [exec EXCEPT ![x] = e]
    BY <1>6, <2>2 DEF Start
  <2>4. DOMAIN e = ExecFields /\ e.task = exec[x].task /\ e.stage = "running"
    BY <1>3, <2>2 DEF ExecFields
  <2> QED BY <1>2, <2>1, <2>3, <2>4 DEF Early
<1> QED BY <1>4, <1>5, <1>6

LEMMA RedispatchKill ==
  ASSUME KillInv, Hushed, UNCHANGED detectVars, NEW t \in Task, Redispatch(t)
  PROVE  KillInv'
<1>1. /\ sent[t] \in Nat /\ sent[t] >= 1
      /\ sent' = [sent EXCEPT ![t] = @ + 1] /\ inbox' = [inbox EXCEPT ![t] = @ + 1]
      /\ UNCHANGED <<world, exec, running, scan>>
  BY DEF Redispatch, detectVars
<1>2. /\ DOMAIN sent' = Task /\ DOMAIN inbox' = Task /\ sent'[t] > 1
      /\ \A s \in Task \ {t} : sent'[s] = sent[s] /\ inbox'[s] = inbox[s]
  BY <1>1 DEF KillInv, Executing
<1>3. \A x \in Exec : exec[x].stage = "running" => exec[x].task \in Task
  BY NoExecIs DEF KillInv, Executing, TaskOf
<1>4. Executing'
  BY <1>1, <1>2 DEF KillInv, Executing, TaskOf
<1>5. Alone' /\ Unsent'
  BY <1>1, <1>2 DEF KillInv, Alone, Unsent, TaskOf
<1>6. Table'
  BY <1>1, <1>2, <1>3 DEF KillInv, Table, TaskOf
<1>7. Gated' /\ Before'
  BY <1>1, SamePlans DEF KillInv, Gated, Before, TaskOf
<1>8. KillReaches'
  BY <1>1, <1>2, <1>3, ForwardKill DEF KillInv
<1> QED BY <1>1, <1>4, <1>5, <1>6, <1>7, <1>8 DEF KillInv, Runs

LEMMA DispatchKill ==
  ASSUME KillInv, Hushed, UNCHANGED detectVars, NEW x \in Exec, NEW t \in Task, Dispatch(x, t)
  PROVE  KillInv'
<1>1. /\ exec[x] = NoExec /\ inbox[t] > 0 /\ inbox' = [inbox EXCEPT ![t] = @ - 1]
      /\ exec' = [exec EXCEPT ![x].stage = "planning", ![x].task = t]
      /\ UNCHANGED <<world, sent, running, scan>>
  BY DEF Dispatch, detectVars
<1>2. PICK e : e = [NoExec EXCEPT !.stage = "planning", !.task = t]
  OBVIOUS
<1>3. exec' = [exec EXCEPT ![x] = e]
  BY <1>1, <1>2
<1>4. e.stage = "planning" /\ e.task = t /\ DOMAIN e = ExecFields /\ e # NoExec
  BY <1>2, NoExecIs DEF ExecFields
<1>5. /\ DOMAIN exec' = Exec /\ exec'[x] = e /\ \A y \in Exec \ {x} : exec'[y] = exec[y]
  BY <1>3 DEF KillInv, Executing
<1>6. Executing'
  <2>1. DOMAIN inbox' = Task
    BY <1>1 DEF KillInv, Executing
  <2> QED BY <1>1, <1>4, <1>5, <2>1 DEF KillInv, Executing, TaskOf
<1>7. Alone'
  <2>1. ASSUME NEW s \in Task, sent[s] = 1
        PROVE  inbox'[s] \in {0, 1} /\ (inbox'[s] = 1 => inbox[s] = 1 /\ s # t)
               /\ (s = t => inbox[s] = 1)
    BY <1>1, <2>1 DEF KillInv, Alone, Executing
  <2>2. ASSUME NEW s \in Task, sent[s] = 1, inbox'[s] = 1, NEW y \in Exec, exec'[y] # NoExec
        PROVE  exec'[y].task # s
    BY <1>4, <1>5, <2>1, <2>2 DEF KillInv, Alone, TaskOf
  <2>3. ASSUME NEW s \in Task, sent[s] = 1, NEW y \in Exec, NEW z \in Exec,
               exec'[y] # NoExec, exec'[z] # NoExec, exec'[y].task = s, exec'[z].task = s
        PROVE  y = z
    <3>1. ASSUME NEW w \in Exec, w # x, exec'[w] # NoExec, exec'[w].task = s PROVE s # t
      BY <1>5, <2>1, <2>3, <3>1 DEF KillInv, Alone, TaskOf
    <3>2. CASE s = t
      BY <2>3, <3>1, <3>2
    <3>3. CASE s # t
      <4>1. y # x /\ z # x
        BY <1>4, <1>5, <2>3, <3>3
      <4> QED BY <1>5, <2>3, <4>1 DEF KillInv, Alone, TaskOf
    <3> QED BY <3>2, <3>3
  <2>4. \A s \in Task : sent'[s] = sent[s]
    BY <1>1
  <2> QED BY <2>1, <2>2, <2>3, <2>4 DEF Alone, TaskOf
<1>8. Unsent'
  <2>1. sent[t] # 1 => sent[t] > 1
    BY <1>1 DEF KillInv, Unsent
  <2>2. \A s \in Task \ {t} : inbox'[s] = inbox[s]
    BY <1>1 DEF KillInv, Executing
  <2> QED BY <1>1, <2>1, <2>2 DEF KillInv, Unsent
<1>9. Table' /\ Gated' /\ Before'
  <2>1. \A y \in Exec : exec'[y].stage \in {"authorizing", "cleared", "running"} => exec'[y] = exec[y]
    BY <1>4, <1>5
  <2>2. Before'
    BY <1>1, <1>4, <1>5, NoExecIs DEF KillInv, Before, Early
  <2>3. Gated'
    BY <1>1, <2>1, SamePlans DEF KillInv, Gated, TaskOf
  <2>4. Table'
    BY <1>1, <2>1 DEF KillInv, Table, TaskOf
  <2> QED BY <2>2, <2>3, <2>4
<1>10. KillReaches'
  BY <1>1, <1>4, <1>5, ForwardKill DEF KillInv
<1> QED BY <1>1, <1>6, <1>7, <1>8, <1>9, <1>10 DEF KillInv, Runs

\* The guard of a run refuses what a revocation covers, and a plan without
\* targets is a revalidation's.
LEMMA GuardRefuses ==
  ASSUME NEW x, NEW r \in Live, Covered(r, x), Assignment(TaskOf(x)).risk > 0, NEW target
  PROVE  AuthorizeTarget(x, target) # None
<1>1. Assignment(TaskOf(x)).risk # 0
  OBVIOUS
<1>2. Revoked(Assignment(TaskOf(x)).token.roe, Head(Assignment(TaskOf(x)).token.capabilities), target.host)
  BY DEF Covered, Revoked
<1> QED BY <1>1, <1>2 DEF AuthorizeTarget, GuardCheck, None

LEMMA EnteredActive ==
  ASSUME NEW x, PlanOk(TaskOf(x)), Entered(x).stage \in Active
  PROVE  Assignment(TaskOf(x)).targets # {}
<1>1. CASE Assignment(TaskOf(x)).capability # Revalidate
  BY <1>1 DEF PlanOk
<1>2. CASE Assignment(TaskOf(x)).capability = Revalidate
  <2>1. Entered(x).stage \in {"revalidate", "return"}
    <3>1. Revalidate \notin Scans
      BY DEF Revalidate, Scans, ScanWeb, ScanNetwork
    <3>2. \E stage \in {"revalidate", "return"} : \E todo, err :
            Entered(x) = Begun(stage, todo, <<>>, err)
      BY <1>2, <3>1 DEF Entered
    <3> QED BY <3>2, BegunIs
  <2> QED BY <2>1 DEF Active
<1> QED BY <1>1, <1>2

LEMMA RunKill ==
  ASSUME KillInv, Hushed, NEW x \in Exec, Run(x)
  PROVE  KillInv'
<1>0. /\ TableInv /\ KillReaches /\ Runs /\ exec[x].stage = "running"
      /\ UNCHANGED <<world, inbox, sent, exec, running, cache, lapsed, heard>>
  BY DEF KillInv, TableInv, Run, agentVars
<1>1. Edited(x, ScanFields)
  BY <1>0, RunIs
<1>2. Runs' /\ \A y \in Exec \ {x} : scan'[y] = scan[y]
  BY <1>0, <1>1, RunsEdited DEF Edited
<1>3. TableInv'
  <2>1. Executing' /\ Alone' /\ Unsent' /\ Table'
    BY <1>0 DEF TableInv, Executing, Alone, Unsent, Table, TaskOf
  <2>2. Gated'
    BY <1>0, SamePlans DEF TableInv, Gated, TaskOf
  <2>3. Before'
    BY <1>0, <1>2 DEF TableInv, Before, Early
  <2> QED BY <1>2, <2>1, <2>2, <2>3 DEF TableInv
<1>4. ASSUME NEW y \in Exec, NEW r \in heard' \cap Live', Reached(y, r)' PROVE exec'[y].ctx # "live"
  <2>1. r \in heard /\ r \in Live
    BY DEF Hushed
  <2>2. CASE y # x
    <3>1. Reached(y, r)
      BY <1>0, <1>2, <1>4, <2>2 DEF Reached, Covered, Assignment, TaskOf
    <3> QED BY <1>0, <2>1, <3>1, KillIs DEF Ctx
  <2>3. CASE y = x
    <3>1. Covered(r, x) /\ Assignment(TaskOf(x)).risk > 0 /\ scan'[x].stage \in Active
      BY <1>0, <1>4, <2>3 DEF Reached, Covered, Assignment, TaskOf
    <3>2. scan'[x] = Entered(x) /\ \A t \in Assignment(TaskOf(x)).targets : AuthorizeTarget(x, t) = None
      BY <1>0, <3>1, RunIs DEF Active
    <3>3. PlanOk(TaskOf(x))
      BY <1>0 DEF TableInv, Gated
    <3>4. Assignment(TaskOf(x)).targets # {}
      BY <3>1, <3>2, <3>3, EnteredActive
    <3> QED BY <2>1, <3>1, <3>2, <3>4, GuardRefuses
  <2> QED BY <2>2, <2>3
<1>5. (\A y \in Exec : \A r \in heard \cap Live : Reached(y, r) => Ctx(y) # "live")'
  BY <1>4 DEF Ctx
<1>6. KillReaches'
  BY <1>5 DEF KillReaches, Reached, Active
<1> QED BY <1>3, <1>6 DEF KillInv, TableInv

LEMMA KillBegins == Init => KillInv
<1> SUFFICES ASSUME Init PROVE KillInv
  OBVIOUS
<1>0. /\ exec = [x \in Exec |-> NoExec] /\ running = [t \in Task |-> Nobody] /\ sent = inbox
      /\ inbox = [t \in Task |-> IF t \in world.tasks THEN 1 ELSE 0] /\ heard = {}
      /\ scan = [x \in Exec |-> NoScan]
  BY DEF Init, AgentInit
<1>1. Nobody \notin Exec
  BY Executions DEF Nobody
<1>2. \A x \in Exec : exec[x] = NoExec /\ exec[x].stage = "idle" /\ scan[x].stage = "idle"
  BY <1>0, NoExecIs, BegunIs DEF NoScan
<1>3. Executing
  <2>1. DOMAIN exec = Exec /\ DOMAIN running = Task /\ DOMAIN inbox = Task /\ DOMAIN sent = Task
    BY <1>0
  <2>2. \A x \in Exec : DOMAIN exec[x] = ExecFields
    BY <1>2, NoExecIs
  <2>3. \A t \in Task : running[t] \notin Exec
    BY <1>0, <1>1
  <2>4. \A x \in Exec : exec[x] = NoExec \/ (exec[x].stage # "idle" /\ TaskOf(x) \in Task)
    BY <1>2
  <2>5. \A t \in Task : running[t] \in Exec => exec[running[t]] # NoExec
    BY <2>3
  <2> QED BY <2>1, <2>2, <2>4, <2>5 DEF Executing
<1>4. Alone /\ Unsent
  BY <1>0, <1>2 DEF Alone, Unsent
<1>5. Table /\ Gated /\ Before
  BY <1>2 DEF Table, Gated, Before
<1>6. KillReaches
  BY <1>0 DEF KillReaches
<1> QED BY <1>3, <1>4, <1>5, <1>6, RunsBegin DEF KillInv

LEMMA KillStep == KillInv /\ [Next]_vars => KillInv'
<1> SUFFICES ASSUME KillInv, [Next]_vars PROVE KillInv'
  OBVIOUS
<1>0. TableInv /\ Runs /\ KillReaches /\ (KillInv' <=> TableInv' /\ KillReaches')
  BY DEF KillInv, TableInv
<1>1. ASSUME Ages, Retires, Proceeds, Hushed PROVE KillInv'
  BY <1>0, <1>1, Aging, AgingKill
<1>2. CASE UNCHANGED vars
  <2>1. Ages /\ Retires /\ Proceeds
    BY <1>0, <1>2, SameAges, SameRetires, SameProceeds DEF vars, agentVars, detectVars, TableInv
  <2>2. Hushed
    BY <1>2 DEF vars, agentVars, Hushed, Live
  <2> QED BY <1>1, <2>1, <2>2
<1>3. CASE HaltAndAck /\ UNCHANGED detectVars
  <2>1. Ages /\ Retires /\ Proceeds
    BY <1>0, <1>3, HaltingIs, SameProceeds DEF Halting, detectVars
  <2> QED BY <1>0, <1>3, <2>1, Aging, HaltReaches
<1>4. CASE AgentStep /\ ~HaltAndAck
  <2>0. Hushed /\ UNCHANGED detectVars /\ Proceeds
    BY <1>0, <1>4, AgentHushed, SameProceeds DEF AgentStep, detectVars
  <2>1. ASSUME NEW t \in Task, Redispatch(t) PROVE KillInv'
    BY <2>0, <2>1, RedispatchKill
  <2>2. ASSUME NEW x \in Exec, NEW t \in Task, Dispatch(x, t) PROVE KillInv'
    BY <2>0, <2>2, DispatchKill
  <2>3. ASSUME NEW x \in Exec, Planning(x, PlanOk(TaskOf(x))) \/ Authorize(x) \/ Start(x) PROVE KillInv'
    BY <2>0, <2>3, PlanningSteps
  <2>4. ASSUME NEW x \in Exec, ReportResult(x) PROVE KillInv'
    BY <1>0, <1>1, <2>0, <2>4, Forgets
  <2>5. ASSUME NEW x \in Exec, Deadline(x) \/ Reauthorize(x) \/ TokenExpires(x) PROVE KillInv'
    BY <1>0, <1>1, <2>0, <2>5, SmallSteps
  <2>6. ASSUME NEW r, ApplyEvent(r) \/ Lapse(r) PROVE KillInv'
    <3>1. UNCHANGED <<world, sent, inbox, exec, running>>
      BY <2>6 DEF ApplyEvent, Lapse
    <3> QED BY <1>0, <1>1, <2>0, <3>1, SameAges, SameRetires DEF TableInv
  <2>7. CASE Halting
    BY <1>0, <1>1, <2>0, <2>7, HaltingIs
  <2> QED BY <1>4, <2>1, <2>2, <2>3, <2>4, <2>5, <2>6, <2>7 DEF AgentStep, Halting
<1>5. CASE Abort
  <2>1. UNCHANGED <<world, sent, inbox, exec, running>>
    BY <1>5 DEF Abort
  <2>2. Hushed
    BY <1>5 DEF Abort, Hushed, Live
  <2> QED BY <1>0, <1>1, <1>5, <2>1, <2>2, SameAges, SameRetires, AbortProceeds DEF TableInv
<1>6. CASE Crash
  <2>1. Hushed
    BY <1>6 DEF Crash, AgentCrash, Hushed, Live
  <2> QED BY <1>0, <1>1, <1>6, <2>1, CrashAges, CrashProceeds
<1>7. ASSUME NEW x \in Exec, Coordinating(x) PROVE KillInv'
  <2>0. Hushed
    BY <1>7, CoordinatingHushed
  <2>1. CASE Run(x)
    BY <2>0, <2>1, RunKill
  <2>2. CASE ~Run(x)
    BY <1>0, <1>1, <1>7, <2>0, <2>2, CoordinatingAges, CoordinatingProceeds
  <2> QED BY <2>1, <2>2
<1>8. ASSUME NEW j, Working(j) PROVE KillInv'
  BY <1>0, <1>1, <1>8, WorkingHushed, WorkingAges, WorkingProceeds
<1>9. AgentStep /\ HaltAndAck => UNCHANGED detectVars
  BY DEF AgentStep
<1> QED BY <1>2, <1>3, <1>4, <1>5, <1>6, <1>7, <1>8, <1>9 DEF Next

\* Once the handler of a revocation has returned, no scan of a task that was
\* dispatched once and that the revocation covers goes on with a live context:
\* haltMatching cancelled it, or AuthorizeTarget will refuse it.
THEOREM KillsReach == Spec => []KillReaches
<1>1. KillInv => KillReaches
  BY DEF KillInv
<1> QED BY KillBegins, KillStep, <1>1, PTL DEF Spec

-----------------------------------------------------------------------------
(* A scan that succeeded has heard what its jobs reported.                 *)

\* A sequence, of whatever; how many of its messages are of a kind.
IsSeq(s) == \E S : s \in Seq(S)
Number(s, kind) == Cardinality({k \in DOMAIN s : s[k].kind = kind})

LEMMA FunctionIsSeq ==
  ASSUME NEW n \in Nat, NEW f, f = [i \in 1 .. n |-> f[i]]
  PROVE  IsSeq(f) /\ Len(f) = n
<1> DEFINE S == {f[i] : i \in 1 .. n}
<1>1. f \in [1 .. n -> S]
  OBVIOUS
<1> HIDE DEF S
<1>2. f \in Seq(S)
  BY <1>1
<1>3. Len(f) = n
  BY <1>1, <1>2
<1> QED BY <1>2, <1>3 DEF IsSeq

LEMMA EmptyIs == IsSeq(<<>>) /\ \A kind : Number(<<>>, kind) = 0
<1>1. IsSeq(<<>>)
  BY DEF IsSeq
<1>2. ASSUME NEW kind PROVE Number(<<>>, kind) = 0
  <2>1. {k \in DOMAIN <<>> : <<>>[k].kind = kind} = {}
    OBVIOUS
  <2> QED BY <2>1, FS_EmptySet DEF Number
<1> QED BY <1>1, <1>2

LEMMA NumberIs ==
  ASSUME NEW s, IsSeq(s), NEW kind
  PROVE  /\ IsFiniteSet({k \in DOMAIN s : s[k].kind = kind}) /\ Number(s, kind) \in Nat
         /\ Len(s) \in Nat /\ DOMAIN s = 1 .. Len(s)
<1>1. PICK S : s \in Seq(S)
  BY DEF IsSeq
<1>2. Len(s) \in Nat /\ DOMAIN s = 1 .. Len(s)
  BY <1>1
<1>3. IsFiniteSet(1 .. Len(s))
  BY <1>2, FS_Interval
<1>4. IsFiniteSet({k \in DOMAIN s : s[k].kind = kind})
  BY <1>2, <1>3, FS_Subset
<1> QED BY <1>2, <1>4, FS_CardinalityType DEF Number

LEMMA NonEmpty == ASSUME NEW s, IsSeq(s), s # <<>> PROVE Len(s) # 0
BY DEF IsSeq

LEMMA AppendIs ==
  ASSUME NEW s, IsSeq(s), NEW m
  PROVE  /\ IsSeq(Append(s, m)) /\ Len(Append(s, m)) = Len(s) + 1 /\ Append(s, m)[Len(s) + 1] = m
         /\ Append(s, m) # <<>>
         /\ \A k \in 1 .. Len(s) : Append(s, m)[k] = s[k]
         /\ \A kind : Number(Append(s, m), kind) = IF m.kind = kind THEN Number(s, kind) + 1
                                                                    ELSE Number(s, kind)
<1>1. PICK S : s \in Seq(S)
  BY DEF IsSeq
<1>2. s \in Seq(S \cup {m}) /\ m \in S \cup {m}
  BY <1>1
<1>3. PICK a : a = Append(s, m)
  OBVIOUS
<1>4. /\ a \in Seq(S \cup {m}) /\ Len(a) = Len(s) + 1 /\ a[Len(s) + 1] = m /\ Len(s) \in Nat
      /\ \A k \in 1 .. Len(s) : a[k] = s[k]
      /\ DOMAIN a = 1 .. Len(s) + 1 /\ DOMAIN s = 1 .. Len(s)
  BY <1>2, <1>3
<1>5. ASSUME NEW kind
      PROVE  Number(a, kind) = IF m.kind = kind THEN Number(s, kind) + 1 ELSE Number(s, kind)
  <2> DEFINE A == {k \in DOMAIN s : s[k].kind = kind}
             B == {k \in DOMAIN a : a[k].kind = kind}
  <2>1. IsFiniteSet(A)
    BY NumberIs
  <2>2. CASE m.kind = kind
    <3>1. B = A \cup {Len(s) + 1} /\ Len(s) + 1 \notin A
      BY <1>4, <2>2
    <3> HIDE DEF A, B
    <3>2. Cardinality(B) = Cardinality(A) + 1
      BY <2>1, <3>1, FS_AddElement
    <3> QED BY <2>2, <3>2 DEF Number, A, B
  <2>3. CASE m.kind # kind
    <3>1. B = A
      BY <1>4, <2>3
    <3> QED BY <2>3, <3>1 DEF Number
  <2> QED BY <2>2, <2>3
<1>6. IsSeq(a)
  BY <1>4 DEF IsSeq
<1>7. a # <<>>
  BY <1>4
<1> QED BY <1>3, <1>4, <1>5, <1>6, <1>7

LEMMA TailIs ==
  ASSUME NEW s, IsSeq(s), s # <<>>
  PROVE  /\ IsSeq(Tail(s)) /\ Len(Tail(s)) = Len(s) - 1
         /\ \A k \in 1 .. Len(s) - 1 : Tail(s)[k] = s[k + 1]
         /\ \A kind : Number(s, kind) = IF Head(s).kind = kind THEN Number(Tail(s), kind) + 1
                                                               ELSE Number(Tail(s), kind)
<1>1. PICK S : s \in Seq(S)
  BY DEF IsSeq
<1>2. PICK t : t = Tail(s)
  OBVIOUS
<1>3. /\ t \in Seq(S) /\ Len(t) = Len(s) - 1 /\ Len(s) \in Nat /\ Len(s) >= 1
      /\ \A k \in 1 .. Len(s) - 1 : t[k] = s[k + 1]
      /\ DOMAIN t = 1 .. Len(s) - 1 /\ DOMAIN s = 1 .. Len(s) /\ Head(s) = s[1]
  BY <1>1, <1>2
<1>4. IsSeq(t)
  BY <1>3 DEF IsSeq
<1>5. ASSUME NEW kind
      PROVE  Number(s, kind) = IF Head(s).kind = kind THEN Number(t, kind) + 1 ELSE Number(t, kind)
  <2> DEFINE A == {k \in DOMAIN s : s[k].kind = kind}
             B == {k \in DOMAIN t : t[k].kind = kind}
             C == {k \in A : k # 1}
             f == [k \in B |-> k + 1]
  <2>1. IsFiniteSet(B) /\ IsFiniteSet(A)
    BY <1>4, NumberIs
  <2>2. f \in Bijection(B, C)
    <3>1. \A k \in B : k + 1 \in C /\ k \in Nat
      BY <1>3
    <3>2. \A c \in C : c - 1 \in B /\ (c - 1) + 1 = c
      BY <1>3
    <3> HIDE DEF B, C
    <3>3. f \in [B -> C] /\ \A k, l \in B : f[k] = f[l] => k = l
      BY <3>1
    <3>4. \A c \in C : \E k \in B : f[k] = c
      BY <3>2
    <3> QED BY <3>3, <3>4 DEF Bijection, Injection, Surjection, IsInjective
  <2>3. Cardinality(C) = Cardinality(B) /\ IsFiniteSet(C)
    <3> HIDE DEF B, C, f
    <3> QED BY <2>1, <2>2, FS_Bijection DEF ExistsBijection
  <2>4. CASE Head(s).kind = kind
    <3>1. A = C \cup {1} /\ 1 \notin C
      BY <1>3, <2>4
    <3> HIDE DEF A, B, C
    <3>2. Cardinality(A) = Cardinality(C) + 1
      BY <2>3, <3>1, FS_AddElement
    <3> QED BY <2>3, <2>4, <3>2 DEF Number, A, B
  <2>5. CASE Head(s).kind # kind
    <3>1. A = C
      BY <1>3, <2>5
    <3> HIDE DEF B, C
    <3> QED BY <2>3, <2>5, <3>1 DEF Number, B, C
  <2> QED BY <2>4, <2>5
<1> QED BY <1>2, <1>3, <1>4, <1>5

(* The jobs of a plan. *)

LEMMA InOrderIs ==
  ASSUME NEW S, IsFiniteSet(S)
  PROVE  Cardinality(S) \in Nat /\ IsSeq(InOrder(S)) /\ Len(InOrder(S)) = Cardinality(S)
<1>1. Cardinality(S) \in Nat
  BY FS_CardinalityType
<1>2. PICK f : f = InOrder(S)
  OBVIOUS
<1>3. f = [i \in 1 .. Cardinality(S) |-> Nth(S, i)]
  BY <1>2 DEF InOrder
<1>4. f = [i \in 1 .. Cardinality(S) |-> f[i]]
  BY <1>3
<1> QED BY <1>1, <1>2, <1>4, FunctionIsSeq

LEMMA PlanIs ==
  ASSUME NEW capability, NEW targets, IsFiniteSet(targets), NEW params, NEW maxRPS,
         ScanPlan(capability, targets, params, maxRPS).ok
  PROVE  Len(ScanPlan(capability, targets, params, maxRPS).jobs) \in Nat \ {0}
<1> DEFINE plan == ScanPlan(capability, targets, params, maxRPS)
<1>1. PICK S : S = {t \in targets : Planned(capability, t)}
  OBVIOUS
<1>2. IsFiniteSet(S)
  BY <1>1, FS_Subset
<1>3. PICK kept : kept = InOrder(S)
  OBVIOUS
<1>4. IsSeq(kept) /\ Len(kept) \in Nat /\ DOMAIN kept = 1 .. Len(kept)
  BY <1>2, <1>3, InOrderIs, NumberIs
<1>5. kept # <<>>
  BY <1>1, <1>3 DEF ScanPlan
<1>6. PICK jobs : jobs = [i \in DOMAIN kept |-> JobOf(kept[i], params, maxRPS, Len(kept))]
  OBVIOUS
<1>9. plan.jobs = jobs
  BY <1>1, <1>3, <1>5, <1>6 DEF ScanPlan
<1>10. jobs = [i \in 1 .. Len(kept) |-> jobs[i]]
  BY <1>4, <1>6
<1>7. Len(plan.jobs) = Len(kept)
  <2> HIDE DEF plan
  <2> QED BY <1>4, <1>9, <1>10, FunctionIsSeq
<1>8. Len(kept) # 0
  BY <1>4, <1>5 DEF IsSeq
<1> QED BY <1>4, <1>7, <1>8

(* The invariant. *)

Queued(x) == {j \in DOMAIN queue : j[1] = x}
Waiting(x) == Cardinality(Queued(x))
Held(s) == IF s.cand = NoCand THEN 0 ELSE 1
Dispatching == {"dispatch", "aggregate"}

\* A job is of an execution that began, and bears the name of its task.
QueueOk ==
    /\ IsFiniteSet(DOMAIN queue)
    /\ \A j \in DOMAIN queue : /\ j[1] \in Exec /\ exec[j[1]] # NoExec
                               /\ "task" \in DOMAIN queue[j] /\ queue[j].task = TaskOf(j[1])
SentOk == \A t \in Task : sent[t] # 0 => t \in world.tasks

Numbers(s) ==
    /\ s.i \in Nat /\ s.done \in Nat /\ s.heardRaws \in Nat /\ s.sentRaws \in Nat
    /\ IsSeq(s.mail)

\* Before it dispatches, a run has no job in the queue and nothing is reported.
Quiet(x) ==
    /\ scan[x].stage \in {"idle", "exchange", "revalidate", "enrich"}
         => Queued(x) = {} /\ scan[x].sentRaws = 0
    /\ scan[x].stage = "exchange" => scan[x].mail = <<>> /\ scan[x].i = 1 /\ scan[x].done = 0

\* What a run that dispatches or aggregates has still to hear, n of its jobs
\* being in the queue: the raws that it has not processed are in the mailbox or
\* at hand; a job that was dispatched is in the queue, is a done in the mailbox
\* or has been counted, if its done was not lost; and behind a raw there is a
\* job that is not done.
Owes(s, n) ==
    /\ Len(s.jobs) \in Nat \ {0}
    /\ IF s.stage = "dispatch" THEN s.i <= Len(s.jobs) ELSE s.i = Len(s.jobs) + 1
    /\ s.heardRaws + Number(s.mail, "raw") + Held(s) >= s.sentRaws
    /\ s.done + Number(s.mail, "done") + n < s.i
    /\ s.mail # <<>> /\ s.mail[Len(s.mail)].kind # "done"
         => s.done + Number(s.mail, "done") + 1 < s.i

Once(x) == exec[x] # NoExec /\ sent[TaskOf(x)] = 1 /\ "ack" \notin world.faults
Won(x) == exec[x].stage = "ended" /\ exec[x].status = "SUCCEEDED"
HeardAll(s) == s.heardRaws >= s.sentRaws

Accounted(x) ==
    /\ scan[x].stage = "exchange" => Len(scan[x].jobs) \in Nat \ {0}
    /\ scan[x].stage \in Dispatching => Owes(scan[x], Waiting(x))
    /\ scan[x].stage = "return" /\ scan[x].err = None => Queued(x) = {} /\ HeardAll(scan[x])
    /\ Won(x) => scan[x].stage = "over" /\ HeardAll(scan[x])

RunOk(x) == Numbers(scan[x]) /\ Quiet(x) /\ (Once(x) => Accounted(x))
HearInv == QueueOk /\ SentOk /\ \A x \in Exec : RunOk(x)

-----------------------------------------------------------------------------
(* What a step leaves of the executions and of the queue. *)

Lasts ==
    /\ world' = world
    /\ \A x \in Exec : exec[x] # NoExec => exec'[x] # NoExec /\ exec'[x].task = exec[x].task
    /\ \A t \in Task : sent'[t] = sent[t] \/ (sent[t] # 0 /\ sent'[t] # 1)
\* No execution ends with success.
NoWin == \A x \in Exec : Won(x)' => Won(x)
Keeps ==
    /\ DOMAIN queue' \subseteq DOMAIN queue
    /\ \A j \in DOMAIN queue' : "task" \in DOMAIN queue'[j] /\ queue'[j].task = queue[j].task
\* The run of x goes on as it was.
Steady(x) ==
    /\ \A f \in ScanFields \ {"aborted"} : scan'[x][f] = scan[x][f]
    /\ Queued(x)' \subseteq Queued(x)

LEMMA OnceBefore ==
  ASSUME TableInv, Lasts, NEW x \in Exec, Once(x)'
  PROVE  Once(x) \/ exec[x] = NoExec
<1> SUFFICES ASSUME exec[x] # NoExec PROVE Once(x)
  OBVIOUS
<1>1. exec'[x].task = exec[x].task /\ exec[x].task \in Task
  BY DEF Lasts, TableInv, Executing, TaskOf
<1>2. sent'[exec[x].task] = 1 /\ "ack" \notin world.faults
  BY <1>1 DEF Once, TaskOf, Lasts
<1> QED BY <1>1, <1>2 DEF Lasts, Once, TaskOf

LEMMA KeepsQueue ==
  ASSUME QueueOk, Lasts, Keeps
  PROVE  QueueOk' /\ \A x : Queued(x)' \subseteq Queued(x)
<1>1. IsFiniteSet(DOMAIN queue')
  BY FS_Subset DEF QueueOk, Keeps
<1>2. \A j \in DOMAIN queue' : /\ j[1] \in Exec /\ exec'[j[1]] # NoExec
                               /\ "task" \in DOMAIN queue'[j] /\ queue'[j].task = exec'[j[1]].task
  BY DEF QueueOk, Keeps, Lasts, TaskOf
<1> QED BY <1>1, <1>2 DEF QueueOk, Queued, Keeps, TaskOf

LEMMA FewerWait ==
  ASSUME QueueOk, NEW x, Queued(x)' \subseteq Queued(x)
  PROVE  Waiting(x) \in Nat /\ Waiting(x)' \in Nat /\ Waiting(x)' <= Waiting(x)
<1>1. IsFiniteSet(Queued(x))
  BY FS_Subset DEF QueueOk, Queued
<1> QED BY <1>1, FS_Subset, FS_CardinalityType DEF Waiting

LEMMA FewerOwed ==
  ASSUME NEW s, Numbers(s), NEW n \in Nat, NEW m \in Nat, m <= n, Owes(s, n)
  PROVE  Owes(s, m)
<1>1. Number(s.mail, "done") \in Nat /\ s.i \in Nat /\ s.done \in Nat
  BY NumberIs DEF Numbers
<1> QED BY <1>1 DEF Owes

LEMMA SteadyRun ==
  ASSUME TableInv, HearInv, Lasts, NEW x \in Exec, Won(x)' => Won(x), Steady(x)
  PROVE  RunOk(x)'
<1>1. /\ scan'[x].stage = scan[x].stage /\ scan'[x].i = scan[x].i /\ scan'[x].jobs = scan[x].jobs
      /\ scan'[x].mail = scan[x].mail /\ scan'[x].done = scan[x].done /\ scan'[x].cand = scan[x].cand
      /\ scan'[x].err = scan[x].err /\ scan'[x].heardRaws = scan[x].heardRaws
      /\ scan'[x].sentRaws = scan[x].sentRaws
  BY DEF Steady, ScanFields
<1>2. Numbers(scan[x]) /\ Quiet(x) /\ Queued(x)' \subseteq Queued(x)
  BY DEF HearInv, RunOk, Steady
<1>3. Numbers(scan[x])'
  BY <1>1, <1>2 DEF Numbers
<1>4. Quiet(x)'
  BY <1>1, <1>2 DEF Quiet
<1>5. ASSUME Once(x)' PROVE Accounted(x)'
  <2>1. CASE exec[x] = NoExec
    <3>1. scan[x].stage = "idle" /\ ~Won(x)
      BY <2>1, NoExecIs DEF TableInv, Before, Won
    <3> QED BY <1>1, <3>1 DEF Accounted, Dispatching
  <2>2. CASE Once(x)
    <3>1. Accounted(x)
      BY <2>2 DEF HearInv, RunOk
    <3>2. ASSUME scan[x].stage \in Dispatching PROVE Owes(scan[x], Waiting(x))'
      <4>1. Owes(scan[x], Waiting(x)')
        BY <1>2, <3>1, <3>2, FewerWait, FewerOwed DEF HearInv, RunOk, Accounted
      <4> QED BY <1>1, <4>1 DEF Owes, Held
    <3> QED BY <1>1, <1>2, <3>1, <3>2 DEF Accounted, HeardAll
  <2> QED BY <1>5, <2>1, <2>2, OnceBefore
<1> QED BY <1>3, <1>4, <1>5 DEF RunOk

LEMMA SentLasts == ASSUME SentOk, Lasts PROVE SentOk'
BY DEF SentOk, Lasts

LEMMA HearSteady ==
  ASSUME TableInv, HearInv, Lasts, NoWin, Keeps,
         \A x \in Exec : \A f \in ScanFields \ {"aborted"} : scan'[x][f] = scan[x][f]
  PROVE  HearInv'
<1>1. QueueOk' /\ SentOk' /\ \A x : Queued(x)' \subseteq Queued(x)
  BY KeepsQueue, SentLasts DEF HearInv
<1>2. \A x \in Exec : Steady(x)
  BY <1>1 DEF Steady
<1>3. \A x \in Exec : RunOk(x)'
  BY <1>2, SteadyRun DEF NoWin
<1> QED BY <1>1, <1>3 DEF HearInv

\* One execution changes, and does not succeed.
LEMMA OneLasts ==
  ASSUME TableInv, UNCHANGED <<world, sent>>, NEW x \in Exec, NEW e, exec' = [exec EXCEPT ![x] = e],
         e # NoExec, exec[x] = NoExec \/ e.task = exec[x].task,
         e.stage # "ended" \/ e.status # "SUCCEEDED" \/ (e.stage = exec[x].stage /\ e.status = exec[x].status)
  PROVE  Lasts /\ NoWin
<1>1. exec'[x] = e /\ \A y \in Exec \ {x} : exec'[y] = exec[y]
  BY DEF TableInv, Executing
<1> QED BY <1>1 DEF Lasts, NoWin, Won

LEMMA EndLasts ==
  ASSUME TableInv, UNCHANGED <<world, sent>>, NEW x \in Exec, exec[x] # NoExec, NEW status,
         End(x, status), status # "SUCCEEDED"
  PROVE  Lasts /\ NoWin
<1>1. PICK e : e = [exec[x] EXCEPT !.stage = "ended", !.status = status, !.reauth = FALSE]
  OBVIOUS
<1>2. exec' = [exec EXCEPT ![x] = e]
  BY <1>1 DEF End
<1>3. e.stage = "ended" /\ e.status = status /\ e.task = exec[x].task
  BY <1>1 DEF TableInv, Executing, ExecFields
<1> QED BY <1>2, <1>3, NoExecIs, OneLasts

LEMMA HaltsLast ==
  ASSUME TableInv, UNCHANGED <<world, sent>>, NEW victims, HaltTasks(victims)
  PROVE  Lasts /\ NoWin
<1>1. \A x \in Exec : exec'[x] = IF x \notin victims THEN exec[x]
                                 ELSE [exec[x] EXCEPT !.halted = TRUE,
                                         !.ctx = IF @ = "live" THEN "cancelled" ELSE @]
  BY DEF HaltTasks
<1>2. ASSUME NEW x \in Exec, x \in victims
      PROVE  exec'[x].task = exec[x].task /\ exec'[x].stage = exec[x].stage /\ exec'[x].status = exec[x].status
  <2>1. PICK c : c = IF exec[x].ctx = "live" THEN "cancelled" ELSE exec[x].ctx
    OBVIOUS
  <2>2. exec'[x] = [exec[x] EXCEPT !.halted = TRUE, !.ctx = c]
    BY <1>1, <1>2, <2>1
  <2> QED BY <2>2 DEF TableInv, Executing, ExecFields
<1>3. \A x \in Exec : /\ exec'[x].task = exec[x].task /\ exec'[x].stage = exec[x].stage
                      /\ exec'[x].status = exec[x].status
  BY <1>1, <1>2
<1>4. \A x \in Exec : exec[x] # NoExec => exec'[x] # NoExec
  BY <1>3, NoExecIs DEF TableInv, Executing
<1> QED BY <1>3, <1>4 DEF Lasts, NoWin, Won

LEMMA SameLasts == ASSUME UNCHANGED <<world, sent, exec>> PROVE Lasts /\ NoWin
BY DEF Lasts, NoWin, Won

LEMMA HaltingLasts ==
  ASSUME TableInv, HaltAndAck \/ Heartbeat \/ (\E kill : HearKill(kill)) \/ (\E x \in Exec : WatchHalt(x))
  PROVE  Lasts /\ NoWin
<1>1. UNCHANGED <<world, sent>>
  BY DEF HaltAndAck, Heartbeat, HearKill, WatchHalt
<1>2. \E victims : HaltTasks(victims)
  BY DEF HaltAndAck, Heartbeat, HaltMatching, HearKill, WatchHalt
<1> QED BY <1>1, <1>2, HaltsLast

LEMMA ForwardLasts ==
  ASSUME TableInv, NEW x \in Exec, Planning(x, PlanOk(TaskOf(x))) \/ Authorize(x) \/ Start(x)
  PROVE  Lasts /\ NoWin
<1>0. UNCHANGED <<world, sent>> /\ exec[x] # NoExec /\ DOMAIN exec[x] = ExecFields
  BY NoExecIs DEF Planning, Authorize, Start, TableInv, Executing
<1>1. CASE End(x, "FAILED") \/ End(x, "REJECTED_UNAUTHORIZED")
  BY <1>0, <1>1, EndLasts
<1>2. ASSUME NEW e, exec' = [exec EXCEPT ![x] = e],
             e = [exec[x] EXCEPT !.stage = "authorizing"] \/ e = [exec[x] EXCEPT !.stage = "cleared"]
             \/ e = [exec[x] EXCEPT !.stage = "cleared", !.token = TRUE, !.reauth = TRUE]
             \/ e = [exec[x] EXCEPT !.stage = "running"]
      PROVE  Lasts /\ NoWin
  <2>1. e.stage \in {"authorizing", "cleared", "running"} /\ e.task = exec[x].task
    BY <1>0, <1>2 DEF ExecFields
  <2> QED BY <1>0, <1>2, <2>1, NoExecIs, OneLasts
<1>3. \/ End(x, "FAILED") \/ End(x, "REJECTED_UNAUTHORIZED")
      \/ exec' = [exec EXCEPT ![x] = [exec[x] EXCEPT !.stage = "authorizing"]]
      \/ exec' = [exec EXCEPT ![x] = [exec[x] EXCEPT !.stage = "cleared"]]
      \/ exec' = [exec EXCEPT ![x] = [exec[x] EXCEPT !.stage = "cleared", !.token = TRUE, !.reauth = TRUE]]
      \/ exec' = [exec EXCEPT ![x] = [exec[x] EXCEPT !.stage = "running"]]
  BY DEF Planning, Authorize, Start
<1> QED BY <1>1, <1>2, <1>3

LEMMA SmallLasts ==
  ASSUME TableInv, NEW x \in Exec, Deadline(x) \/ Reauthorize(x) \/ TokenExpires(x) \/ ReportResult(x)
  PROVE  Lasts /\ NoWin
<1>0. UNCHANGED <<world, sent>>
  BY DEF Deadline, Reauthorize, TokenExpires, ReportResult
<1>1. PICK e : /\ exec' = [exec EXCEPT ![x] = e]
               /\ \/ e = [exec[x] EXCEPT !.ctx = "deadline"] /\ exec[x].stage = "running"
                  \/ e = [exec[x] EXCEPT !.reauth = FALSE] /\ exec[x].reauth
                  \/ e = [exec[x] EXCEPT !.token = FALSE] /\ exec[x].stage = "running"
                  \/ e = [exec[x] EXCEPT !.stage = "over"] /\ exec[x].stage = "ended"
  BY DEF Deadline, Reauthorize, TokenExpires, ReportResult
<1>2. exec[x] # NoExec /\ DOMAIN exec[x] = ExecFields /\ exec[x].stage # "idle"
  BY <1>1, NoExecIs DEF TableInv, Executing
<1>3. /\ e.task = exec[x].task /\ e.stage # "idle"
      /\ e.stage = "over" \/ (e.stage = exec[x].stage /\ e.status = exec[x].status)
  BY <1>1, <1>2 DEF ExecFields
<1> QED BY <1>0, <1>1, <1>3, NoExecIs, OneLasts

LEMMA DispatchLasts ==
  ASSUME TableInv, NEW x \in Exec, NEW t \in Task, Dispatch(x, t)
  PROVE  Lasts /\ NoWin
<1>1. /\ exec[x] = NoExec /\ UNCHANGED <<world, sent>>
      /\ exec' = [exec EXCEPT ![x].stage = "planning", ![x].task = t]
  BY DEF Dispatch
<1>2. PICK e : e = [NoExec EXCEPT !.stage = "planning", !.task = t]
  OBVIOUS
<1>3. exec' = [exec EXCEPT ![x] = e] /\ e.stage = "planning"
  BY <1>1, <1>2, NoExecIs DEF ExecFields
<1> QED BY <1>1, <1>3, NoExecIs, OneLasts

LEMMA RedispatchLasts ==
  ASSUME TableInv, NEW t \in Task, Redispatch(t)
  PROVE  Lasts /\ NoWin
<1>1. /\ sent[t] \in Nat /\ sent[t] >= 1 /\ sent' = [sent EXCEPT ![t] = @ + 1]
      /\ UNCHANGED <<world, exec>>
  BY DEF Redispatch
<1>2. DOMAIN sent = Task
  BY DEF TableInv, Executing
<1>3. \A s \in Task : sent'[s] = sent[s] \/ (sent[s] # 0 /\ sent'[s] # 1)
  BY <1>1, <1>2
<1> QED BY <1>1, <1>3 DEF Lasts, NoWin, Won

LEMMA AgentLasts == ASSUME TableInv, AgentStep PROVE Lasts /\ NoWin
<1>1. ASSUME NEW r, ApplyEvent(r) \/ Lapse(r) PROVE Lasts /\ NoWin
  BY <1>1, SameLasts DEF ApplyEvent, Lapse
<1> QED BY <1>1, RedispatchLasts, DispatchLasts, ForwardLasts, SmallLasts, HaltingLasts DEF AgentStep

-----------------------------------------------------------------------------
(* The workers. *)

\* What a worker's step does: nothing that is heard, a raw of a job that stays,
\* or a done of a job that goes, unless its Ack is lost.
WorkerStep(j) ==
    /\ j \in DOMAIN queue /\ UNCHANGED <<world, sent, exec>> /\ Keeps
    /\ \/ UNCHANGED scan
       \/ \E m : /\ Report(j, m)
                 /\ \/ m.kind = "raw"
                    \/ m.kind = "done" /\ (j \notin DOMAIN queue' \/ "ack" \in world.faults)

LEMMA SetKeeps ==
  ASSUME QueueOk, NEW j \in DOMAIN queue, NEW m, queue' = Set(j, m),
         "task" \in DOMAIN m /\ m.task = queue[j].task
  PROVE  Keeps
BY DEF QueueOk, Keeps, Set

LEMMA WithoutKeeps ==
  ASSUME QueueOk, NEW j, queue' = Without(j)
  PROVE  Keeps /\ j \notin DOMAIN queue'
BY DEF QueueOk, Keeps, Without

LEMMA WorkerIs ==
  ASSUME QueueOk, NEW j, Working(j)
  PROVE  WorkerStep(j)
<1>0. j \in DOMAIN queue /\ UNCHANGED <<world, sent, exec>>
  BY DEF Working, TakeJob, Cut, Emit, FinishJob, agentVars, agentButFaults
<1>1. "task" \in DOMAIN queue[j]
  BY <1>0 DEF QueueOk
<1>2. ASSUME NEW m, queue' = Set(j, m), DOMAIN m = DOMAIN queue[j], m.task = queue[j].task PROVE Keeps
  BY <1>0, <1>1, <1>2, SetKeeps
<1>3. CASE TakeJob(j)
  <2>1. CASE Report(j, DoneMessage("FAILED")) /\ queue' = Without(j)
    BY <1>0, <2>1, WithoutKeeps DEF WorkerStep, DoneMessage
  <2>2. CASE UNCHANGED scan
    <3>1. PICK m : m = [queue[j] EXCEPT !.status = "running", !.tries = @ + 1, !.pos = 0, !.cut = None]
      OBVIOUS
    <3>2. DOMAIN m = DOMAIN queue[j] /\ m.task = queue[j].task
      BY <1>1, <3>1
    <3>3. queue' = Set(j, m) \/ (queue' = Without(j) /\ Report(j, DoneMessage("FAILED")))
      BY <1>3, <3>1 DEF TakeJob
    <3> QED BY <1>0, <1>2, <2>1, <2>2, <3>2, <3>3 DEF WorkerStep
  <2> QED BY <1>3, <2>1, <2>2 DEF TakeJob
<1>4. CASE Cut(j)
  <2>1. PICK m : queue' = Set(j, m) /\ (m = [queue[j] EXCEPT !.cut = "abort"] \/ m = [queue[j] EXCEPT !.cut = "deadline"])
    BY <1>4 DEF Cut
  <2>2. DOMAIN m = DOMAIN queue[j] /\ m.task = queue[j].task
    BY <1>1, <2>1
  <2> QED BY <1>0, <1>2, <1>4, <2>1, <2>2 DEF WorkerStep, Cut
<1>5. CASE Emit(j)
  <2>1. CASE queue' = Set(j, [queue[j] EXCEPT !.pos = @ + 1]) /\ Report(j, RawMessage(j))
    <3>1. PICK m : m = [queue[j] EXCEPT !.pos = @ + 1]
      OBVIOUS
    <3>2. DOMAIN m = DOMAIN queue[j] /\ m.task = queue[j].task
      BY <1>1, <3>1
    <3>3. Keeps
      BY <1>2, <2>1, <3>1, <3>2
    <3>4. RawMessage(j).kind = "raw"
      BY DEF RawMessage
    <3> QED BY <1>0, <2>1, <3>3, <3>4 DEF WorkerStep
  <2>2. CASE queue' = Set(j, [queue[j] EXCEPT !.cut = "error"]) /\ UNCHANGED scan
    <3>1. PICK m : m = [queue[j] EXCEPT !.cut = "error"]
      OBVIOUS
    <3>2. DOMAIN m = DOMAIN queue[j] /\ m.task = queue[j].task
      BY <1>1, <3>1
    <3> QED BY <1>0, <1>2, <2>2, <3>1, <3>2 DEF WorkerStep
  <2> QED BY <1>5, <2>1, <2>2 DEF Emit
<1>6. CASE FinishJob(j)
  <2>1. \A status : DoneMessage(status).kind = "done"
    BY DEF DoneMessage
  <2>2. ASSUME NEW status, Report(j, DoneMessage(status)), queue' = Without(j) PROVE WorkerStep(j)
    BY <1>0, <2>1, <2>2, WithoutKeeps DEF WorkerStep
  <2>3. CASE UNCHANGED scan /\ queue' = Without(j)
    BY <1>0, <2>3, WithoutKeeps DEF WorkerStep
  <2>4. ASSUME NEW status, Fault("ack"), Report(j, DoneMessage(status)),
               queue' = Set(j, [queue[j] EXCEPT !.status = "queued"])
        PROVE  WorkerStep(j)
    <3>1. PICK m : m = [queue[j] EXCEPT !.status = "queued"]
      OBVIOUS
    <3>2. DOMAIN m = DOMAIN queue[j] /\ m.task = queue[j].task
      BY <1>1, <3>1
    <3>3. Keeps
      BY <1>2, <2>4, <3>1, <3>2
    <3>4. "ack" \in world.faults
      BY <2>4 DEF Fault
    <3> QED BY <1>0, <2>1, <2>4, <3>3, <3>4 DEF WorkerStep
  <2> QED BY <1>6, <2>2, <2>3, <2>4 DEF FinishJob
<1> QED BY <1>3, <1>4, <1>5, <1>6 DEF Working

\* A report counts for the run it is of, which alone hears it when its task
\* was dispatched once.
LEMMA OwnReport ==
  ASSUME TableInv, HearInv, NEW j \in DOMAIN queue, NEW x \in Exec, Once(x)
  PROVE  Hears(x, queue[j].task) <=> x = j[1]
<1>1. j[1] \in Exec /\ exec[j[1]] # NoExec /\ queue[j].task = TaskOf(j[1])
  BY DEF HearInv, QueueOk
<1>2. TaskOf(x) \in Task
  BY DEF Once, TableInv, Executing
<1> QED BY <1>1, <1>2 DEF Hears, Once, TableInv, Alone

LEMMA OwesRaw ==
  ASSUME NEW s, Numbers(s), NEW n \in Nat, n > 0, Owes(s, n), NEW t, NEW m, m.kind = "raw",
         t.stage = s.stage, t.i = s.i, t.jobs = s.jobs, t.done = s.done, t.cand = s.cand,
         t.heardRaws = s.heardRaws, t.sentRaws = s.sentRaws + 1, t.mail = Append(s.mail, m)
  PROVE  Owes(t, n)
<1>1. /\ Number(s.mail, "raw") \in Nat /\ Number(s.mail, "done") \in Nat
      /\ s.i \in Nat /\ s.done \in Nat /\ s.heardRaws \in Nat /\ s.sentRaws \in Nat
      /\ Held(s) \in {0, 1} /\ Held(t) = Held(s) /\ IsSeq(s.mail)
  BY NumberIs DEF Numbers, Held
<1>2. Number(t.mail, "raw") = Number(s.mail, "raw") + 1 /\ Number(t.mail, "done") = Number(s.mail, "done")
  BY <1>1, AppendIs
<1>3. s.done + Number(s.mail, "done") + n < s.i /\ s.heardRaws + Number(s.mail, "raw") + Held(s) >= s.sentRaws
  BY DEF Owes
<1>4. s.done + Number(s.mail, "done") + 1 < s.i
  BY <1>1, <1>3
<1>5. s.heardRaws + (Number(s.mail, "raw") + 1) + Held(s) >= s.sentRaws + 1
  BY <1>1, <1>3
<1> QED BY <1>1, <1>2, <1>3, <1>4, <1>5 DEF Owes

LEMMA OwesDone ==
  ASSUME NEW s, Numbers(s), NEW n \in Nat, Owes(s, n + 1), NEW t, NEW m, m.kind = "done",
         t.stage = s.stage, t.i = s.i, t.jobs = s.jobs, t.done = s.done, t.cand = s.cand,
         t.heardRaws = s.heardRaws, t.sentRaws = s.sentRaws, t.mail = Append(s.mail, m)
  PROVE  Owes(t, n)
<1>1. /\ Number(s.mail, "raw") \in Nat /\ Number(s.mail, "done") \in Nat
      /\ s.i \in Nat /\ s.done \in Nat /\ s.heardRaws \in Nat /\ s.sentRaws \in Nat
      /\ Held(s) \in {0, 1} /\ Held(t) = Held(s) /\ IsSeq(s.mail)
  BY NumberIs DEF Numbers, Held
<1>2. /\ Number(t.mail, "raw") = Number(s.mail, "raw") /\ Number(t.mail, "done") = Number(s.mail, "done") + 1
      /\ t.mail[Len(t.mail)].kind = "done"
  BY <1>1, AppendIs
<1>3. s.done + Number(s.mail, "done") + (n + 1) < s.i
  BY DEF Owes
<1>4. s.done + (Number(s.mail, "done") + 1) + n < s.i
  BY <1>1, <1>3
<1> QED BY <1>1, <1>2, <1>4 DEF Owes

LEMMA ReportRun ==
  ASSUME TableInv, HearInv, NEW j \in DOMAIN queue, UNCHANGED <<world, sent, exec>>, Keeps,
         NEW m, Report(j, m),
         m.kind = "raw" \/ (m.kind = "done" /\ (j \notin DOMAIN queue' \/ "ack" \in world.faults)),
         NEW x \in Exec
  PROVE  RunOk(x)'
<1>0. Lasts /\ NoWin /\ QueueOk /\ Numbers(scan[x]) /\ Quiet(x) /\ Queued(x)' \subseteq Queued(x)
  BY SameLasts, KeepsQueue DEF HearInv, RunOk
<1>1. /\ scan'[x].stage = scan[x].stage /\ scan'[x].i = scan[x].i /\ scan'[x].jobs = scan[x].jobs
      /\ scan'[x].done = scan[x].done /\ scan'[x].cand = scan[x].cand
      /\ scan'[x].err = scan[x].err /\ scan'[x].heardRaws = scan[x].heardRaws
      /\ scan'[x].mail = IF Subscribed(x) /\ Hears(x, queue[j].task)
                         THEN Append(scan[x].mail, m) ELSE scan[x].mail
      /\ scan'[x].sentRaws = IF scan[x].stage \notin {"idle", "over"} /\ x = j[1] /\ m.kind = "raw"
                             THEN scan[x].sentRaws + 1 ELSE scan[x].sentRaws
  BY ReportIs DEF TableInv, ScanFields
<1>2. j \in Queued(j[1])
  BY DEF Queued
<1>3. Numbers(scan'[x])
  <2>1. IsSeq(scan[x].mail) /\ scan[x].sentRaws \in Nat
    BY <1>0 DEF Numbers
  <2>2. IsSeq(Append(scan[x].mail, m))
    BY <2>1, AppendIs
  <2>3. IsSeq(scan'[x].mail)
    <3>1. scan'[x].mail = Append(scan[x].mail, m) \/ scan'[x].mail = scan[x].mail
      BY <1>1
    <3> QED BY <2>1, <2>2, <3>1
  <2>4. scan'[x].sentRaws \in Nat
    BY <1>1, <2>1
  <2> QED BY <1>0, <1>1, <2>3, <2>4 DEF Numbers
<1>4. Quiet(x)'
  <2>1. CASE scan[x].stage \in {"idle", "exchange", "revalidate", "enrich"}
    <3>1. Queued(x) = {} /\ scan[x].sentRaws = 0 /\ x # j[1]
      BY <1>0, <1>2, <2>1 DEF Quiet
    <3>2. scan'[x].mail = scan[x].mail /\ scan'[x].sentRaws = scan[x].sentRaws
      BY <1>1, <2>1, <3>1 DEF Subscribed
    <3> QED BY <1>0, <1>1, <3>1, <3>2 DEF Quiet
  <2>2. CASE scan[x].stage \notin {"idle", "exchange", "revalidate", "enrich"}
    BY <1>1, <2>2 DEF Quiet
  <2> QED BY <2>1, <2>2
<1>5. ASSUME Once(x)' PROVE Accounted(x)'
  <2>0. Once(x) /\ Accounted(x)
    BY <1>5 DEF Once, TaskOf, HearInv, RunOk
  <2>1. Won(x)' <=> Won(x)
    BY DEF Won
  <2>2. CASE scan[x].stage \notin Dispatching
    <3>1. scan[x].stage = "return" /\ scan[x].err = None => scan'[x].sentRaws = scan[x].sentRaws
      BY <1>1, <1>2, <2>0 DEF Accounted
    <3>2. scan[x].stage = "over" => scan'[x].sentRaws = scan[x].sentRaws
      BY <1>1
    <3> QED BY <1>0, <1>1, <2>0, <2>1, <2>2, <3>1, <3>2 DEF Accounted, HeardAll
  <2>3. CASE scan[x].stage \in Dispatching
    <3>1. Subscribed(x) /\ scan[x].stage \notin {"idle", "over", "exchange", "return"} /\ ~Won(x)
      BY <2>0, <2>3 DEF Subscribed, Dispatching, Accounted
    <3>2. Hears(x, queue[j].task) <=> x = j[1]
      BY <2>0, OwnReport
    <3>3. Owes(scan[x], Waiting(x)) /\ Waiting(x) \in Nat /\ Waiting(x)' \in Nat /\ Waiting(x)' <= Waiting(x)
      BY <1>0, <2>0, <2>3, FewerWait DEF Accounted
    <3>4. Owes(scan'[x], Waiting(x)')
      <4>1. CASE x # j[1]
        <5>1. Owes(scan[x], Waiting(x)')
          BY <1>0, <3>3, FewerOwed
        <5> QED BY <1>1, <3>2, <4>1, <5>1 DEF Owes, Held
      <4>2. CASE x = j[1] /\ m.kind = "raw"
        <5>1. Waiting(x) > 0
          <6>1. IsFiniteSet(Queued(x)) /\ Queued(x) # {}
            BY <1>0, <1>2, <4>2, FS_Subset DEF QueueOk, Queued
          <6> QED BY <3>3, <6>1, FS_EmptySet DEF Waiting
        <5>2. Owes(scan'[x], Waiting(x))
          BY <1>0, <1>1, <3>1, <3>2, <3>3, <4>2, <5>1, OwesRaw
        <5> QED BY <1>3, <3>3, <5>2, FewerOwed
      <4>3. CASE x = j[1] /\ m.kind = "done"
        <5>1. j \notin DOMAIN queue'
          BY <2>0, <4>3 DEF Once
        <5>2. IsFiniteSet(Queued(x)) /\ j \in Queued(x)
          BY <1>0, <1>2, <4>3, FS_Subset DEF QueueOk, Queued
        <5>3. Queued(x)' \subseteq Queued(x) \ {j}
          BY <1>0, <5>1 DEF Queued
        <5>4. /\ IsFiniteSet(Queued(x) \ {j})
              /\ Cardinality(Queued(x) \ {j}) = Cardinality(Queued(x)) - 1
          BY <5>2, FS_RemoveElement
        <5>5. Waiting(x)' <= Cardinality(Queued(x) \ {j}) /\ Cardinality(Queued(x) \ {j}) \in Nat
          BY <5>3, <5>4, FS_Subset, FS_CardinalityType DEF Waiting
        <5>6. Waiting(x)' + 1 <= Waiting(x)
          BY <3>3, <5>4, <5>5 DEF Waiting
        <5>7. Owes(scan[x], Waiting(x)' + 1)
          BY <1>0, <3>3, <5>6, FewerOwed
        <5> QED BY <1>0, <1>1, <3>1, <3>2, <3>3, <4>3, <5>7, OwesDone
      <4> QED BY <4>1, <4>2, <4>3
    <3>5. (Owes(scan[x], Waiting(x)))'
      BY <3>4
    <3> QED BY <1>1, <2>1, <2>3, <3>1, <3>5 DEF Accounted, Dispatching
  <2> QED BY <2>2, <2>3
<1> QED BY <1>3, <1>4, <1>5 DEF RunOk

LEMMA WorkerHears ==
  ASSUME TableInv, HearInv, NEW j, Working(j)
  PROVE  HearInv'
<1>1. WorkerStep(j)
  BY WorkerIs DEF HearInv
<1>2. CASE UNCHANGED scan
  BY <1>1, <1>2, SameLasts, HearSteady DEF WorkerStep
<1>3. ASSUME NEW m, Report(j, m),
             m.kind = "raw" \/ (m.kind = "done" /\ (j \notin DOMAIN queue' \/ "ack" \in world.faults))
      PROVE  HearInv'
  <2>1. \A x \in Exec : RunOk(x)'
    BY <1>1, <1>3, ReportRun DEF WorkerStep
  <2>2. QueueOk' /\ SentOk'
    BY <1>1, SameLasts, KeepsQueue, SentLasts DEF WorkerStep, HearInv
  <2> QED BY <2>1, <2>2 DEF HearInv
<1> QED BY <1>1, <1>2, <1>3 DEF WorkerStep

LEMMA AgentHears == ASSUME TableInv, HearInv, AgentStep PROVE HearInv'
<1>1. UNCHANGED <<scan, queue>>
  BY DEF AgentStep, detectVars
<1>2. Keeps
  BY <1>1 DEF Keeps, HearInv, QueueOk
<1> QED BY <1>1, <1>2, AgentLasts, HearSteady

LEMMA AbortHears == ASSUME TableInv, HearInv, Abort PROVE HearInv'
<1>1. Lasts /\ NoWin
  BY SameLasts DEF Abort
<1>2. Keeps
  <2>1. \A j \in DOMAIN queue' : j \in DOMAIN queue /\ (queue'[j] = queue[j] \/ queue'[j] = [queue[j] EXCEPT !.cut = "abort"])
    BY DEF Abort
  <2>2. \A j \in DOMAIN queue : "task" \in DOMAIN queue[j]
    BY DEF HearInv, QueueOk
  <2> QED BY <2>1, <2>2 DEF Keeps
<1> QED BY <1>1, <1>2, AbortIs, HearSteady DEF TableInv

LEMMA CrashHears == ASSUME TableInv, HearInv, Crash PROVE HearInv'
<1>1. /\ exec' = [x \in Exec |-> IF exec[x] = NoExec THEN NoExec ELSE [exec[x] EXCEPT !.stage = "over"]]
      /\ UNCHANGED <<world, sent>>
  BY DEF Crash, AgentCrash
<1>2. \A x \in Exec : exec[x] # NoExec => exec'[x].task = exec[x].task /\ exec'[x].stage = "over"
  BY <1>1 DEF TableInv, Executing, ExecFields
<1>3. Lasts /\ \A x \in Exec : ~Won(x)'
  BY <1>1, <1>2, NoExecIs DEF Lasts, Won
<1>4. Keeps
  <2>1. \A j \in DOMAIN queue' : j \in DOMAIN queue /\ (queue'[j] = queue[j] \/ queue'[j] = [queue[j] EXCEPT !.status = "queued"])
    BY DEF Crash
  <2>2. \A j \in DOMAIN queue : "task" \in DOMAIN queue[j]
    BY DEF HearInv, QueueOk
  <2> QED BY <2>1, <2>2 DEF Keeps
<1>5. QueueOk' /\ SentOk' /\ \A x : Queued(x)' \subseteq Queued(x)
  BY <1>3, <1>4, KeepsQueue, SentLasts DEF HearInv
<1>6. ASSUME NEW x \in Exec PROVE RunOk(x)'
  <2>1. /\ scan' = [y \in Exec |-> IF scan[y].stage = "idle" THEN NoScan
                                   ELSE Begun("over", <<>>, <<>>, None)]
    BY DEF Crash
  <2>2. /\ scan'[x].stage = IF scan[x].stage = "idle" THEN "idle" ELSE "over"
        /\ scan'[x].mail = <<>> /\ scan'[x].i = 1 /\ scan'[x].done = 0
        /\ scan'[x].heardRaws = 0 /\ scan'[x].sentRaws = 0
    BY <2>1, BegunIs DEF NoScan
  <2>3. Numbers(scan'[x])
    BY <2>2, EmptyIs DEF Numbers
  <2>4. Quiet(x)'
    BY <1>5, <2>2 DEF Quiet, HearInv, RunOk
  <2>5. Accounted(x)'
    BY <1>3, <2>2 DEF Accounted, Dispatching
  <2> QED BY <2>3, <2>4, <2>5 DEF RunOk
<1> QED BY <1>5, <1>6 DEF HearInv

-----------------------------------------------------------------------------
(* A run's own steps. *)

\* The step of a run that changes no execution.
LEMMA RunsLast ==
  ASSUME NEW x \in Exec, Coordinating(x), ~Finish(x)
  PROVE  UNCHANGED <<world, sent, exec>>
<1>1. CASE Run(x) \/ Exchange(x) \/ DispatchJob(x) \/ Aggregate(x) \/ CountDone(x)
  BY <1>1 DEF Run, Exchange, DispatchJob, Aggregate, CountDone, agentVars, agentButFaults
<1>2. CASE TakeRaw(x) \/ Record(x) \/ Judge(x) \/ Publish(x) \/ Alert(x)
  BY <1>2 DEF TakeRaw, Record, Judge, Publish, Alert, agentVars, agentButFaults
<1>3. CASE Sink(x) \/ Enrichment(x) \/ Revalidation(x)
  BY <1>3 DEF Sink, Enrichment, Revalidation, agentVars, agentButFaults
<1> QED BY <1>1, <1>2, <1>3 DEF Coordinating, Scanning, Processing

LEMMA QueueLasts ==
  ASSUME NEW x \in Exec, Coordinating(x), ~DispatchJob(x)
  PROVE  UNCHANGED queue
<1>1. CASE Run(x) \/ Finish(x) \/ Exchange(x) \/ Aggregate(x) \/ CountDone(x)
  BY <1>1 DEF Run, Finish, Exchange, Aggregate, CountDone
<1>2. CASE TakeRaw(x) \/ Record(x) \/ Judge(x) \/ Publish(x) \/ Alert(x)
  BY <1>2 DEF TakeRaw, Record, Judge, Publish, Alert
<1>3. CASE Sink(x) \/ Enrichment(x) \/ Revalidation(x)
  BY <1>3 DEF Sink, Enrichment, Revalidation
<1> QED BY <1>1, <1>2, <1>3 DEF Coordinating, Scanning, Processing

LEMMA SameOnce == ASSUME UNCHANGED <<world, sent, exec>> PROVE \A x : (Once(x)' <=> Once(x)) /\ (Won(x)' <=> Won(x))
BY DEF Once, Won, TaskOf

\* Entering a run: a scan has jobs, and what fails says why.
LEMMA EnteredHears ==
  ASSUME NEW x, IsFiniteSet(Assignment(TaskOf(x)).targets)
  PROVE  /\ Entered(x).stage \in {"exchange", "revalidate", "enrich", "return"}
         /\ Entered(x).stage = "exchange" => Len(Entered(x).jobs) \in Nat \ {0}
         /\ Entered(x).stage = "return" => Entered(x).err # None
<1> DEFINE as == Assignment(TaskOf(x))
           plan == ScanPlan(as.capability, as.targets, Params(TaskOf(x)), as.token.maxRPS)
<1>1. CASE Entered(x) = Begun("exchange", <<>>, plan.jobs, None) /\ plan.ok
  <2>1. Len(plan.jobs) \in Nat \ {0}
    BY <1>1, PlanIs
  <2> HIDE DEF plan
  <2> QED BY <1>1, <2>1, BegunIs
<1>2. CASE \E stage \in {"revalidate", "enrich"} : \E todo : Entered(x) = Begun(stage, todo, <<>>, None)
  BY <1>2, BegunIs
<1>3. CASE Entered(x) = Begun("return", <<>>, <<>>, "plan") \/ Entered(x) = Begun("return", <<>>, <<>>, "store")
  BY <1>3, BegunIs DEF None
<1>4. \/ Entered(x) = Begun("exchange", <<>>, plan.jobs, None) /\ plan.ok
      \/ \E stage \in {"revalidate", "enrich"} : \E todo : Entered(x) = Begun(stage, todo, <<>>, None)
      \/ Entered(x) = Begun("return", <<>>, <<>>, "plan")
      \/ Entered(x) = Begun("return", <<>>, <<>>, "store")
  BY DEF Entered
<1> QED BY <1>1, <1>2, <1>3, <1>4

LEMMA RunHears ==
  ASSUME TableInv, HearInv, world \in Scenario, NEW x \in Exec, Run(x)
  PROVE  RunOk(x)'
<1>1. /\ UNCHANGED <<world, sent, exec, queue>> /\ exec[x].stage = "running" /\ scan[x].stage = "idle"
  BY BegunIs DEF Run, agentVars, NoScan
<1>2. Fresh(x)
  BY RunIs DEF TableInv
<1>3. Queued(x)' = {}
  BY <1>1 DEF HearInv, RunOk, Quiet, Queued
<1>4. Numbers(scan[x])'
  BY <1>2, EmptyIs DEF Numbers, Fresh
<1>5. Quiet(x)'
  BY <1>2, <1>3 DEF Quiet, Fresh
<1>6. ASSUME Once(x)' PROVE Accounted(x)'
  <2>1. ~Won(x)'
    BY <1>1 DEF Won
  <2>2. CASE scan'[x].stage = "return" /\ scan'[x].err # None
    BY <2>1, <2>2 DEF Accounted, Dispatching
  <2>3. CASE scan'[x] = Entered(x)
    <3>1. Once(x)
      BY <1>1, <1>6, SameOnce
    <3>2. TaskOf(x) \in world.tasks
      BY <3>1 DEF Once, TableInv, Executing, HearInv, SentOk
    <3>3. IsFiniteSet(Assignment(TaskOf(x)).targets)
      BY <3>2, Targets DEF Assignment
    <3> QED BY <2>1, <2>3, <3>3, EnteredHears DEF Accounted, Dispatching
  <2> QED BY <2>2, <2>3, RunIs DEF TableInv
<1> QED BY <1>4, <1>5, <1>6 DEF RunOk

LEMMA FinishHears ==
  ASSUME TableInv, HearInv, NEW x \in Exec, Finish(x)
  PROVE  RunOk(x)' /\ Lasts /\ \A y \in Exec \ {x} : Won(y)' => Won(y)
<1>1. /\ Edited(x, {"stage"}) /\ scan[x].stage = "return" /\ scan'[x].stage = "over"
      /\ End(x, StatusOf(x, scan[x].err)) /\ exec[x].stage = "running" /\ UNCHANGED <<world, sent, queue>>
  BY FinishIs DEF TableInv, Finish, Return
<1>2. PICK status : status = StatusOf(x, scan[x].err)
  OBVIOUS
<1>3. PICK e : e = [exec[x] EXCEPT !.stage = "ended", !.status = status, !.reauth = FALSE]
  OBVIOUS
<1>4. e.stage = "ended" /\ e.status = status /\ e.task = exec[x].task
  BY <1>3 DEF TableInv, Executing, ExecFields
<1>5. exec' = [exec EXCEPT ![x] = e]
  BY <1>1, <1>2, <1>3 DEF End
<1>6. exec'[x] = e /\ \A y \in Exec \ {x} : exec'[y] = exec[y]
  BY <1>5 DEF TableInv, Executing
<1>7. Lasts /\ \A y \in Exec \ {x} : Won(y)' => Won(y)
  BY <1>1, <1>4, <1>6, NoExecIs DEF Lasts, Won
<1>8. status = "SUCCEEDED" => scan[x].err = None
  BY <1>2 DEF StatusOf
<1>9. /\ scan'[x].i = scan[x].i /\ scan'[x].done = scan[x].done /\ scan'[x].mail = scan[x].mail
      /\ scan'[x].heardRaws = scan[x].heardRaws /\ scan'[x].sentRaws = scan[x].sentRaws
  BY <1>1 DEF Edited, ScanFields
<1>10. Numbers(scan[x])' /\ Quiet(x)'
  BY <1>1, <1>9 DEF HearInv, RunOk, Numbers, Quiet
<1>11. ASSUME Once(x)' PROVE Accounted(x)'
  <2>1. Once(x)
    BY <1>1, <1>7, <1>11, NoExecIs, OnceBefore
  <2>2. scan[x].err = None => HeardAll(scan[x])
    BY <1>1, <2>1 DEF HearInv, RunOk, Accounted
  <2>3. Won(x)' => scan[x].err = None
    BY <1>4, <1>6, <1>8 DEF Won
  <2> QED BY <1>1, <1>9, <2>2, <2>3 DEF Accounted, HeardAll, Dispatching
<1> QED BY <1>7, <1>10, <1>11 DEF RunOk

\* A run that is going on has not won.
LEMMA NotWon ==
  ASSUME HearInv, UNCHANGED <<world, sent, exec>>, NEW x \in Exec, Once(x)', scan[x].stage # "over"
  PROVE  Once(x) /\ Accounted(x) /\ ~Won(x)'
<1>1. Once(x) /\ (Won(x)' <=> Won(x))
  BY SameOnce
<1>2. Accounted(x)
  BY <1>1 DEF HearInv, RunOk
<1> QED BY <1>1, <1>2 DEF Accounted

\* A run that ends with an error owes nothing.
LEMMA ErrorHears ==
  ASSUME TableInv, HearInv, UNCHANGED <<world, sent, exec, queue>>, NEW x \in Exec,
         Edited(x, {"stage", "err"}), scan[x].stage # "over",
         scan'[x].stage = "return", scan'[x].err # None
  PROVE  RunOk(x)'
<1>1. /\ scan'[x].i = scan[x].i /\ scan'[x].done = scan[x].done /\ scan'[x].mail = scan[x].mail
      /\ scan'[x].heardRaws = scan[x].heardRaws /\ scan'[x].sentRaws = scan[x].sentRaws
  BY DEF Edited, ScanFields
<1>2. Numbers(scan[x])' /\ Quiet(x)'
  BY <1>1 DEF HearInv, RunOk, Numbers, Quiet
<1>3. ASSUME Once(x)' PROVE Accounted(x)'
  BY <1>3, NotWon DEF Accounted, Dispatching
<1> QED BY <1>2, <1>3 DEF RunOk

LEMMA ExchangeHears ==
  ASSUME TableInv, HearInv, NEW x \in Exec, Exchange(x)
  PROVE  RunOk(x)'
<1>0. UNCHANGED <<world, sent, exec, queue>> /\ scan[x].stage = "exchange"
  BY DEF Exchange, agentButFaults
<1>1. CASE Edited(x, {"stage", "err"}) /\ scan'[x].stage = "return" /\ scan'[x].err # None
  BY <1>0, <1>1, ErrorHears
<1>2. CASE Edited(x, {"stage"}) /\ scan'[x].stage = "dispatch"
  <2>1. /\ scan'[x].i = scan[x].i /\ scan'[x].done = scan[x].done /\ scan'[x].mail = scan[x].mail
        /\ scan'[x].heardRaws = scan[x].heardRaws /\ scan'[x].sentRaws = scan[x].sentRaws
        /\ scan'[x].jobs = scan[x].jobs /\ scan'[x].cand = scan[x].cand
    BY <1>2 DEF Edited, ScanFields
  <2>2. /\ scan[x].mail = <<>> /\ scan[x].i = 1 /\ scan[x].done = 0 /\ Queued(x) = {} /\ scan[x].sentRaws = 0
        /\ Numbers(scan[x])
    BY <1>0 DEF HearInv, RunOk, Quiet
  <2>3. Numbers(scan[x])' /\ Quiet(x)'
    BY <1>2, <2>1, <2>2 DEF Numbers, Quiet
  <2>4. Waiting(x)' = 0
    BY <1>0, <2>2, FS_EmptySet DEF Waiting, Queued
  <2>5. ASSUME Once(x)' PROVE Accounted(x)'
    <3>1. Len(scan[x].jobs) \in Nat \ {0} /\ ~Won(x)'
      BY <1>0, <2>5, NotWon DEF Accounted
    <3>2. scan'[x].heardRaws + 0 + Held(scan'[x]) >= scan'[x].sentRaws
      BY <2>1, <2>2 DEF Held, Numbers
    <3>3. Owes(scan'[x], 0)
      BY <1>2, <2>1, <2>2, <3>1, <3>2, EmptyIs DEF Owes
    <3>4. Owes(scan[x], Waiting(x))'
      BY <2>4, <3>3
    <3> QED BY <1>2, <3>1, <3>4 DEF Accounted
  <2> QED BY <2>3, <2>5 DEF RunOk
<1> QED BY <1>1, <1>2, ExchangeIs DEF TableInv

LEMMA DispatchHears ==
  ASSUME TableInv, HearInv, NEW x \in Exec, DispatchJob(x)
  PROVE  RunOk(x)' /\ QueueOk' /\ \A y \in Exec \ {x} : Queued(y)' \subseteq Queued(y)
<1>0. UNCHANGED <<world, sent, exec>> /\ scan[x].stage = "dispatch"
  BY DEF DispatchJob, agentButFaults
<1>1. CASE /\ Edited(x, {"stage", "err"}) /\ scan'[x].stage = "return" /\ scan'[x].err # None
           /\ UNCHANGED queue
  <2>1. RunOk(x)'
    BY <1>0, <1>1, ErrorHears
  <2>2. QueueOk' /\ \A y : Queued(y)' = Queued(y)
    BY <1>0, <1>1 DEF HearInv, QueueOk, Queued, TaskOf
  <2> QED BY <2>1, <2>2
<1>2. ASSUME Edited(x, {"i", "stage"}), scan'[x].i = scan[x].i + 1,
             scan'[x].stage = IF scan[x].i < Len(scan[x].jobs) THEN "dispatch" ELSE "aggregate",
             NEW m, "task" \in DOMAIN m, m.task = TaskOf(x), queue' = Put(queue, <<x, scan[x].i>>, m)
      PROVE  RunOk(x)' /\ QueueOk' /\ \A y \in Exec \ {x} : Queued(y)' \subseteq Queued(y)
  <2>1. PICK j : j = <<x, scan[x].i>>
    OBVIOUS
  <2>2. /\ j[1] = x /\ DOMAIN queue' = DOMAIN queue \cup {j} /\ queue'[j] = m
        /\ \A k \in DOMAIN queue \ {j} : queue'[k] = queue[k]
    BY <1>2, <2>1 DEF Put
  <2>3. exec[x] # NoExec
    BY <1>0, NoExecIs DEF TableInv, Before
  <2>4. QueueOk'
    <3>1. IsFiniteSet(DOMAIN queue')
      BY <2>2, FS_AddElement DEF HearInv, QueueOk
    <3>2. ASSUME NEW k \in DOMAIN queue'
          PROVE  /\ k[1] \in Exec /\ exec[k[1]] # NoExec
                 /\ "task" \in DOMAIN queue'[k] /\ queue'[k].task = TaskOf(k[1])
      BY <1>2, <2>2, <2>3 DEF HearInv, QueueOk
    <3> QED BY <1>0, <3>1, <3>2 DEF QueueOk, TaskOf
  <2>5. \A y \in Exec \ {x} : Queued(y)' \subseteq Queued(y)
    BY <2>2 DEF Queued
  <2>6. Waiting(x)' \in Nat /\ Waiting(x) \in Nat /\ Waiting(x)' <= Waiting(x) + 1
    <3>1. IsFiniteSet(Queued(x))
      BY FS_Subset DEF HearInv, QueueOk, Queued
    <3>2. Queued(x)' = Queued(x) \cup {j}
      BY <2>2 DEF Queued
    <3>3. Cardinality(Queued(x) \cup {j}) = IF j \in Queued(x) THEN Cardinality(Queued(x))
                                                            ELSE Cardinality(Queued(x)) + 1
      BY <3>1, FS_AddElement
    <3>4. Cardinality(Queued(x)) \in Nat
      BY <3>1, FS_CardinalityType
    <3> QED BY <3>2, <3>3, <3>4 DEF Waiting
  <2>7. /\ scan'[x].done = scan[x].done /\ scan'[x].mail = scan[x].mail
        /\ scan'[x].heardRaws = scan[x].heardRaws /\ scan'[x].sentRaws = scan[x].sentRaws
        /\ scan'[x].jobs = scan[x].jobs /\ scan'[x].cand = scan[x].cand
    BY <1>2 DEF Edited, ScanFields
  <2>8. Numbers(scan[x]) /\ scan'[x].stage \in Dispatching
    BY <1>2 DEF HearInv, RunOk, Dispatching
  <2>9. Numbers(scan[x])' /\ Quiet(x)'
    BY <1>2, <2>7, <2>8 DEF Numbers, Quiet, Dispatching
  <2>10. ASSUME Once(x)' PROVE Accounted(x)'
    <3>1. Owes(scan[x], Waiting(x)) /\ ~Won(x)'
      BY <1>0, <2>10, NotWon DEF Accounted, Dispatching
    <3>2. PICK d \in Nat : d = Number(scan[x].mail, "done")
      BY <2>8, NumberIs DEF Numbers
    <3>3. /\ scan[x].i \in Nat /\ scan[x].done \in Nat /\ Len(scan[x].jobs) \in Nat \ {0}
          /\ scan[x].i <= Len(scan[x].jobs) /\ scan[x].done + d + Waiting(x) < scan[x].i
          /\ scan[x].heardRaws + Number(scan[x].mail, "raw") + Held(scan[x]) >= scan[x].sentRaws
          /\ scan[x].mail # <<>> /\ scan[x].mail[Len(scan[x].mail)].kind # "done"
               => scan[x].done + d + 1 < scan[x].i
      BY <1>0, <2>8, <3>1, <3>2 DEF Owes, Numbers
    <3>4. scan[x].done + d + Waiting(x)' < scan[x].i + 1
      BY <2>6, <3>2, <3>3
    <3>5. scan'[x].mail # <<>> /\ scan'[x].mail[Len(scan'[x].mail)].kind # "done"
            => scan'[x].done + d + 1 < scan'[x].i
      BY <1>2, <2>7, <3>2, <3>3
    <3>6. IF scan'[x].stage = "dispatch" THEN scan'[x].i <= Len(scan'[x].jobs)
                                         ELSE scan'[x].i = Len(scan'[x].jobs) + 1
      BY <1>2, <2>7, <3>3
    <3>7. Owes(scan'[x], Waiting(x)')
      BY <1>2, <2>7, <3>2, <3>3, <3>4, <3>5, <3>6 DEF Owes, Held
    <3> QED BY <2>8, <3>1, <3>7 DEF Accounted, Dispatching
  <2> QED BY <2>4, <2>5, <2>9, <2>10 DEF RunOk
<1> QED BY <1>1, <1>2, DispatchJobIs DEF TableInv

\* When as many jobs are done as there are, nothing waits and the mailbox is
\* empty.
LEMMA AllHeard ==
  ASSUME NEW s, Numbers(s), NEW n \in Nat, Owes(s, n), s.stage = "aggregate",
         s.done >= Len(s.jobs), s.cand = NoCand
  PROVE  n = 0 /\ HeardAll(s)
<1>1. PICK d \in Nat : d = Number(s.mail, "done")
  BY NumberIs DEF Numbers
<1>2. /\ s.done \in Nat /\ s.i = Len(s.jobs) + 1 /\ Len(s.jobs) \in Nat /\ s.done + d + n < s.i
      /\ s.mail # <<>> /\ s.mail[Len(s.mail)].kind # "done" => s.done + d + 1 < s.i
  BY <1>1 DEF Owes, Numbers
<1>3. n = 0 /\ d = 0 /\ ~(s.done + d + 1 < s.i)
  BY <1>1, <1>2
<1>4. s.mail = <<>>
  <2> SUFFICES ASSUME s.mail # <<>> PROVE FALSE
    OBVIOUS
  <2>1. s.mail[Len(s.mail)].kind = "done"
    BY <1>2, <1>3
  <2>2. PICK last : last = Len(s.mail)
    OBVIOUS
  <2>3. last \in DOMAIN s.mail
    BY <2>2, NumberIs DEF Numbers, IsSeq
  <2>4. last \in {k \in DOMAIN s.mail : s.mail[k].kind = "done"}
    BY <2>1, <2>2, <2>3
  <2> QED BY <1>1, <1>3, <2>4, NumberIs, FS_EmptySet DEF Numbers, Number
<1>5. s.heardRaws + 0 + 0 >= s.sentRaws
  BY <1>4, EmptyIs DEF Owes, Held
<1> QED BY <1>3, <1>5 DEF HeardAll, Numbers

LEMMA AggregateHears ==
  ASSUME TableInv, HearInv, NEW x \in Exec, Aggregate(x)
  PROVE  RunOk(x)'
<1>0. UNCHANGED <<world, sent, exec, queue>> /\ Numbers(scan[x])
  BY DEF Aggregate, agentVars, HearInv, RunOk
<1>1. /\ Edited(x, {"stage", "err"}) /\ scan[x].stage = "aggregate" /\ scan'[x].stage = "return"
      /\ scan'[x].err = None => AllDone(x)
      /\ scan[x].cand = NoCand
  BY AggregateIs DEF TableInv
<1>2. CASE scan'[x].err # None
  BY <1>0, <1>1, <1>2, ErrorHears
<1>3. CASE scan'[x].err = None
  <2>1. /\ scan'[x].i = scan[x].i /\ scan'[x].done = scan[x].done /\ scan'[x].mail = scan[x].mail
        /\ scan'[x].heardRaws = scan[x].heardRaws /\ scan'[x].sentRaws = scan[x].sentRaws
    BY <1>1 DEF Edited, ScanFields
  <2>2. Numbers(scan[x])' /\ Quiet(x)'
    BY <1>0, <1>1, <2>1 DEF Numbers, Quiet
  <2>3. ASSUME Once(x)' PROVE Accounted(x)'
    <3>1. Owes(scan[x], Waiting(x)) /\ ~Won(x)'
      BY <1>0, <1>1, <2>3, NotWon DEF Accounted, Dispatching
    <3>2. IsFiniteSet(Queued(x))
      BY FS_Subset DEF HearInv, QueueOk, Queued
    <3>3. Waiting(x) = 0 /\ HeardAll(scan[x])
      BY <1>0, <1>1, <1>3, <3>1, <3>2, FS_CardinalityType, AllHeard DEF Waiting, AllDone
    <3>4. Queued(x) = {}
      BY <3>2, <3>3, FS_EmptySet DEF Waiting
    <3>5. Queued(x)' = {} /\ HeardAll(scan'[x])
      BY <1>0, <2>1, <3>3, <3>4 DEF Queued, HeardAll
    <3> QED BY <1>1, <3>1, <3>5 DEF Accounted, Dispatching
  <2> QED BY <2>2, <2>3 DEF RunOk
<1> QED BY <1>2, <1>3

\* A message that the loop takes is counted or at hand.
LEMMA OwesTaken ==
  ASSUME NEW s, Numbers(s), NEW n \in Nat, Owes(s, n), s.stage = "aggregate", s.cand = NoCand, s.mail # <<>>,
         NEW t, t.stage = s.stage, t.i = s.i, t.jobs = s.jobs, t.sentRaws = s.sentRaws, t.mail = Tail(s.mail),
         \/ /\ Head(s.mail).kind = "done" /\ t.done = s.done + 1 /\ t.cand = s.cand
            /\ t.heardRaws = s.heardRaws
         \/ /\ Head(s.mail).kind = "raw" /\ t.done = s.done /\ t.heardRaws \in Nat
            /\ t.heardRaws + Held(t) = s.heardRaws + 1
  PROVE  Owes(t, n) /\ Numbers(t)
<1>1. PICK d \in Nat : d = Number(t.mail, "done")
  BY NumberIs, TailIs DEF Numbers
<1>2. PICK r \in Nat : r = Number(t.mail, "raw")
  BY NumberIs, TailIs DEF Numbers
<1>3. /\ IsSeq(t.mail) /\ Len(t.mail) = Len(s.mail) - 1 /\ Len(s.mail) \in Nat /\ Len(t.mail) \in Nat
      /\ \A k \in 1 .. Len(s.mail) - 1 : t.mail[k] = s.mail[k + 1]
      /\ Number(s.mail, "done") = IF Head(s.mail).kind = "done" THEN d + 1 ELSE d
      /\ Number(s.mail, "raw") = IF Head(s.mail).kind = "raw" THEN r + 1 ELSE r
  BY <1>1, <1>2, NumberIs, TailIs DEF Numbers
<1>4. /\ s.i \in Nat /\ s.done \in Nat /\ s.heardRaws \in Nat /\ s.sentRaws \in Nat /\ Held(s) = 0
      /\ Held(t) \in {0, 1} /\ (t.cand = s.cand => Held(t) = 0)
  BY DEF Numbers, Held
<1>5. /\ Len(s.jobs) \in Nat \ {0} /\ s.i = Len(s.jobs) + 1
      /\ s.heardRaws + Number(s.mail, "raw") + 0 >= s.sentRaws
      /\ s.done + Number(s.mail, "done") + n < s.i
      /\ s.mail[Len(s.mail)].kind # "done" => s.done + Number(s.mail, "done") + 1 < s.i
  BY <1>4 DEF Owes
<1>6. t.mail # <<>> => t.mail[Len(t.mail)] = s.mail[Len(s.mail)]
  <2> SUFFICES ASSUME t.mail # <<>> PROVE t.mail[Len(t.mail)] = s.mail[Len(s.mail)]
    OBVIOUS
  <2>2. Len(t.mail) # 0
    BY <1>3, NonEmpty
  <2>3. Len(t.mail) \in 1 .. Len(s.mail) - 1
    BY <1>3, <2>2
  <2>4. t.mail[Len(t.mail)] = s.mail[Len(t.mail) + 1]
    BY <1>3, <2>3
  <2> QED BY <1>3, <2>4
<1>7. CASE Head(s.mail).kind = "done"
  <2>1. t.done = s.done + 1 /\ t.heardRaws = s.heardRaws /\ Held(t) = 0
    BY <1>4, <1>7
  <2>2. Number(s.mail, "done") = d + 1 /\ Number(s.mail, "raw") = r
    BY <1>3, <1>7
  <2>3. t.heardRaws + r + Held(t) >= t.sentRaws
    BY <1>5, <2>1, <2>2
  <2>4. (s.done + 1) + d + n < s.i
    BY <1>1, <1>4, <1>5, <2>2
  <2>5. ASSUME t.mail # <<>>, t.mail[Len(t.mail)].kind # "done" PROVE (s.done + 1) + d + 1 < s.i
    <3>1. s.done + (d + 1) + 1 < s.i
      BY <1>5, <1>6, <2>2, <2>5
    <3> QED BY <1>1, <1>4, <1>5, <3>1
  <2>6. Numbers(t)
    BY <1>3, <1>4, <2>1 DEF Numbers
  <2> QED BY <1>1, <1>2, <1>5, <2>1, <2>3, <2>4, <2>5, <2>6 DEF Owes
<1>8. CASE Head(s.mail).kind = "raw"
  <2>1. t.done = s.done /\ t.heardRaws \in Nat /\ t.heardRaws + Held(t) = s.heardRaws + 1
    BY <1>8
  <2>2. Number(s.mail, "done") = d /\ Number(s.mail, "raw") = r + 1
    BY <1>3, <1>8
  <2>3. t.heardRaws + r + Held(t) >= t.sentRaws
    BY <1>2, <1>4, <1>5, <2>1, <2>2
  <2>4. s.done + d + n < s.i
    BY <1>5, <2>2
  <2>5. t.mail # <<>> /\ t.mail[Len(t.mail)].kind # "done" => s.done + d + 1 < s.i
    BY <1>5, <1>6, <2>2
  <2>6. Numbers(t)
    BY <1>3, <1>4, <2>1 DEF Numbers
  <2> QED BY <1>1, <1>2, <1>5, <2>1, <2>3, <2>4, <2>5, <2>6 DEF Owes
<1> QED BY <1>7, <1>8

LEMMA TakenHears ==
  ASSUME TableInv, HearInv, UNCHANGED <<world, sent, exec, queue>>, NEW x \in Exec,
         Edited(x, {"mail", "done", "failed", "cand", "heardRaws"}),
         scan[x].stage = "aggregate", scan[x].cand = NoCand, scan[x].mail # <<>>,
         scan'[x].mail = Tail(scan[x].mail),
         \/ /\ Head(scan[x].mail).kind = "done" /\ scan'[x].done = scan[x].done + 1
            /\ scan'[x].cand = scan[x].cand /\ scan'[x].heardRaws = scan[x].heardRaws
         \/ /\ Head(scan[x].mail).kind = "raw" /\ scan'[x].done = scan[x].done
            /\ scan'[x].heardRaws \in Nat /\ scan'[x].heardRaws + Held(scan'[x]) = scan[x].heardRaws + 1
  PROVE  RunOk(x)'
<1>1. /\ scan'[x].stage = scan[x].stage /\ scan'[x].i = scan[x].i /\ scan'[x].jobs = scan[x].jobs
      /\ scan'[x].sentRaws = scan[x].sentRaws
  BY DEF Edited, ScanFields
<1>2. Numbers(scan[x])
  BY DEF HearInv, RunOk
<1>3. IsSeq(scan'[x].mail)
  BY <1>2, TailIs DEF Numbers
<1>4. Numbers(scan[x])' /\ Quiet(x)'
  BY <1>1, <1>2, <1>3 DEF Numbers, Quiet
<1>5. ASSUME Once(x)' PROVE Accounted(x)'
  <2>1. Owes(scan[x], Waiting(x)) /\ ~Won(x)'
    BY <1>5, NotWon DEF Accounted, Dispatching
  <2>2. Waiting(x) \in Nat /\ Waiting(x)' = Waiting(x)
    BY FewerWait DEF Waiting, Queued, HearInv
  <2>3. Owes(scan'[x], Waiting(x))
    BY <1>1, <1>2, <2>1, <2>2, OwesTaken
  <2>4. Owes(scan[x], Waiting(x))'
    BY <2>2, <2>3
  <2> QED BY <1>1, <2>1, <2>4 DEF Accounted, Dispatching
<1> QED BY <1>4, <1>5 DEF RunOk

LEMMA CountDoneHears ==
  ASSUME TableInv, HearInv, NEW x \in Exec, CountDone(x)
  PROVE  RunOk(x)'
<1>1. UNCHANGED <<world, sent, exec, queue>> /\ scan[x].cand = NoCand
  BY DEF CountDone, Aggregating, Idle, agentVars
<1>2. /\ Edited(x, {"mail", "done", "failed"}) /\ scan[x].stage = "aggregate"
      /\ scan[x].mail # <<>> /\ Head(scan[x].mail).kind = "done"
      /\ scan'[x].mail = Tail(scan[x].mail) /\ scan'[x].done = scan[x].done + 1
  BY CountDoneIs DEF TableInv
<1>3. /\ scan'[x].cand = scan[x].cand /\ scan'[x].heardRaws = scan[x].heardRaws
      /\ Edited(x, {"mail", "done", "failed", "cand", "heardRaws"})
  BY <1>2 DEF Edited, ScanFields
<1> QED BY <1>1, <1>2, <1>3, TakenHears

LEMMA TakeRawHears ==
  ASSUME TableInv, HearInv, NEW x \in Exec, TakeRaw(x)
  PROVE  RunOk(x)'
<1>1. UNCHANGED <<world, sent, exec, queue>> /\ scan[x].heardRaws \in Nat
  BY DEF TakeRaw, agentButFaults, HearInv, RunOk, Numbers
<1>2. /\ Edited(x, {"mail", "cand", "heardRaws"}) /\ scan[x].stage = "aggregate" /\ scan[x].cand = NoCand
      /\ scan[x].mail # <<>> /\ Head(scan[x].mail).kind = "raw"
      /\ scan'[x].mail = Tail(scan[x].mail)
  BY TakeRawIs DEF TableInv
<1>3. scan'[x].done = scan[x].done /\ Edited(x, {"mail", "done", "failed", "cand", "heardRaws"})
  BY <1>2 DEF Edited, ScanFields
<1>4. CASE scan'[x].cand = NoCand /\ scan'[x].heardRaws = scan[x].heardRaws + 1
  BY <1>1, <1>2, <1>3, <1>4, TakenHears DEF Held
<1>5. ASSUME NEW fp, NEW id, scan'[x].heardRaws = scan[x].heardRaws,
             scan'[x].cand = [step |-> "record", raw |-> Head(scan[x].mail).raw, fp |-> fp, id |-> id]
      PROVE  RunOk(x)'
  <2>1. scan'[x].cand # NoCand
    <3>1. scan'[x].cand.step = "record"
      BY <1>5
    <3> QED BY <3>1, NoCandIs
  <2>2. Held(scan'[x]) = 1
    BY <2>1 DEF Held
  <2> QED BY <1>1, <1>2, <1>3, <1>5, <2>2, TakenHears
<1> QED BY <1>4, <1>5, TakeRawIs DEF TableInv

\* A candidate goes on, or is processed.
Digests(x) ==
    \/ scan'[x].heardRaws = scan[x].heardRaws /\ (scan[x].cand # NoCand => scan'[x].cand # NoCand)
    \/ scan'[x].heardRaws = scan[x].heardRaws + 1

LEMMA DigestHears ==
  ASSUME TableInv, HearInv, UNCHANGED <<world, sent, exec, queue>>, NEW x \in Exec,
         Edited(x, {"cand", "seen", "todo", "heardRaws"}), Digests(x)
  PROVE  RunOk(x)'
<1>1. /\ scan'[x].stage = scan[x].stage /\ scan'[x].i = scan[x].i /\ scan'[x].jobs = scan[x].jobs
      /\ scan'[x].sentRaws = scan[x].sentRaws /\ scan'[x].done = scan[x].done
      /\ scan'[x].mail = scan[x].mail /\ scan'[x].err = scan[x].err
  BY DEF Edited, ScanFields
<1>2. Numbers(scan[x]) /\ Quiet(x)
  BY DEF HearInv, RunOk
<1>3. Numbers(scan[x])' /\ Quiet(x)'
  BY <1>1, <1>2 DEF Numbers, Quiet, Digests, Queued
<1>4. scan'[x].heardRaws >= scan[x].heardRaws /\ scan[x].heardRaws \in Nat /\ scan[x].sentRaws \in Nat
  BY <1>2 DEF Digests, Numbers
<1>5. ASSUME Once(x)' PROVE Accounted(x)'
  <2>1. Once(x) /\ (Won(x)' <=> Won(x)) /\ Accounted(x)
    BY <1>5, SameOnce DEF HearInv, RunOk
  <2>2. HeardAll(scan[x]) => HeardAll(scan'[x])
    BY <1>1, <1>4, <1>3 DEF HeardAll, Numbers
  <2>3. ASSUME scan[x].stage \in Dispatching PROVE Owes(scan[x], Waiting(x))'
    <3>1. Owes(scan[x], Waiting(x)) /\ Waiting(x)' = Waiting(x)
      BY <2>1, <2>3 DEF Accounted, Waiting, Queued
    <3>2. PICK r \in Nat : r = Number(scan[x].mail, "raw")
      BY <1>2, NumberIs DEF Numbers
    <3>3. scan[x].heardRaws + r + Held(scan[x]) >= scan[x].sentRaws
      BY <3>1, <3>2 DEF Owes
    <3>4. scan'[x].heardRaws + Held(scan'[x]) >= scan[x].heardRaws + Held(scan[x])
      BY <1>4 DEF Digests, Held
    <3>5. Held(scan[x]) \in {0, 1} /\ Held(scan'[x]) \in {0, 1} /\ scan'[x].heardRaws \in Nat
      BY <1>3 DEF Held, Numbers
    <3>6. scan'[x].heardRaws + r + Held(scan'[x]) >= scan[x].sentRaws
      BY <1>4, <3>2, <3>3, <3>4, <3>5
    <3>7. Owes(scan'[x], Waiting(x))
      BY <1>1, <3>1, <3>2, <3>6 DEF Owes
    <3> QED BY <3>1, <3>7
  <2>4. scan[x].stage = "return" /\ scan[x].err = None => Queued(x)' = {}
    BY <2>1 DEF Accounted, Queued
  <2> QED BY <1>1, <2>1, <2>2, <2>3, <2>4 DEF Accounted
<1> QED BY <1>3, <1>5 DEF RunOk

LEMMA CarriesDigests ==
  ASSUME Runs, NEW x \in Exec, NEW flawed, Sound(scan[x].cand, flawed), NEW step, Carries(x, step)
  PROVE  Digests(x)
<1>1. scan'[x].cand = [scan[x].cand EXCEPT !.step = step] /\ scan'[x].heardRaws = scan[x].heardRaws
  BY DEF Carries
<1>2. ASSUME scan[x].cand # NoCand PROVE scan'[x].cand # NoCand
  <2>1. "raw" \in DOMAIN scan[x].cand
    BY <1>2 DEF Sound, JudgedFields
  <2>2. "raw" \in DOMAIN scan'[x].cand
    BY <1>1, <2>1
  <2> QED BY <2>2, NoCandIs
<1> QED BY <1>1, <1>2 DEF Digests

LEMMA RecordedDigests ==
  ASSUME NEW x, scan'[x].heardRaws = scan[x].heardRaws, scan'[x].cand.step \in {"record", "publish"}
  PROVE  Digests(x)
BY NoCandIs DEF Digests

LEMMA ProcessingHears ==
  ASSUME TableInv, HearInv, AlarmInv, NEW x \in Exec, Processing(x)
  PROVE  RunOk(x)'
<1>1. UNCHANGED <<world, sent, exec, queue>>
  BY DEF Processing, Record, Judge, Publish, Alert, Sink, agentVars, agentButFaults
<1>2. Runs /\ Sound(scan[x].cand, world.flawed)
  BY DEF AlarmInv
<1>3. Processed(x) => Digests(x)
  BY DEF Processed, Digests
<1>4. CASE Record(x)
  <2>1. Carries(x, "judge") => Digests(x)
    BY <1>2, CarriesDigests
  <2>2. Digests(x) /\ Edited(x, {"cand", "seen", "todo", "heardRaws"})
    BY <1>2, <1>3, <1>4, <2>1, RecordIs DEF Edited
  <2> QED BY <1>1, <2>2, DigestHears
<1>5. CASE Judge(x)
  <2>1. Edited(x, {"cand", "seen", "todo", "heardRaws"})
    BY <1>2, <1>5, JudgeIs DEF Edited
  <2>2. ASSUME \E j, fp, id, score :
                 /\ j \in Judgements(scan[x].cand.raw, Params(TaskOf(x)), Flawed(scan[x].cand.raw))
                 /\ scan'[x].cand = [step |-> "publish", raw |-> scan[x].cand.raw, fp |-> fp,
                                     id |-> id, verdict |-> j.verdict, score |-> score]
        PROVE  Digests(x)
    <3>1. scan'[x].cand.step = "publish"
      BY <2>2
    <3>2. Processed(x) \/ scan'[x].heardRaws = scan[x].heardRaws
      BY <1>2, <1>5, JudgeIs
    <3> QED BY <1>3, <3>1, <3>2, RecordedDigests
  <2>3. Digests(x)
    BY <1>2, <1>3, <1>5, <2>2, JudgeIs
  <2> QED BY <1>1, <2>1, <2>3, DigestHears
<1>6. CASE Publish(x)
  <2>1. Carries(x, "alert") => Digests(x)
    BY <1>2, CarriesDigests
  <2>2. Digests(x) /\ Edited(x, {"cand", "seen", "todo", "heardRaws"})
    BY <1>2, <1>3, <1>6, <2>1, PublishIs DEF Edited
  <2> QED BY <1>1, <2>2, DigestHears
<1>7. CASE Alert(x)
  <2>1. Digests(x) /\ Edited(x, {"cand", "seen", "todo", "heardRaws"})
    BY <1>2, <1>7, CarriesDigests, AlertIs DEF Edited
  <2> QED BY <1>1, <2>1, DigestHears
<1>8. CASE Sink(x)
  <2>1. Digests(x) /\ Edited(x, {"cand", "seen", "todo", "heardRaws"})
    BY <1>2, <1>3, <1>8, SinkIs DEF Edited
  <2> QED BY <1>1, <2>1, DigestHears
<1> QED BY <1>4, <1>5, <1>6, <1>7, <1>8 DEF Processing

\* No job reports to a run that enriches or revalidates.
LEMMA PassedHears ==
  ASSUME TableInv, HearInv, UNCHANGED <<world, sent, exec, queue>>, NEW x \in Exec,
         scan[x].stage \in {"enrich", "revalidate"}, Edited(x, {"stage", "err"}), scan'[x].stage = "return"
  PROVE  RunOk(x)'
<1>1. /\ scan'[x].i = scan[x].i /\ scan'[x].done = scan[x].done /\ scan'[x].mail = scan[x].mail
      /\ scan'[x].heardRaws = scan[x].heardRaws /\ scan'[x].sentRaws = scan[x].sentRaws
  BY DEF Edited, ScanFields
<1>2. Numbers(scan[x]) /\ Queued(x) = {} /\ scan[x].sentRaws = 0
  BY DEF HearInv, RunOk, Quiet
<1>3. Numbers(scan[x])' /\ Quiet(x)'
  BY <1>1, <1>2 DEF Numbers, Quiet
<1>4. ASSUME Once(x)' PROVE Accounted(x)'
  <2>1. ~Won(x)'
    BY <1>4, NotWon
  <2>2. Queued(x)' = {} /\ HeardAll(scan'[x])
    BY <1>1, <1>2 DEF Queued, HeardAll, Numbers
  <2> QED BY <2>1, <2>2 DEF Accounted, Dispatching
<1> QED BY <1>3, <1>4 DEF RunOk

LEMMA EnrichmentHears ==
  ASSUME TableInv, HearInv, NEW x \in Exec, Enrichment(x)
  PROVE  RunOk(x)'
<1>1. UNCHANGED <<world, sent, exec, queue>>
  BY DEF Enrichment, agentButFaults
<1>2. scan[x].stage = "enrich" /\ scan[x].cand = NoCand
  BY EnrichmentIs DEF TableInv
<1>3. CASE Edited(x, {"stage", "err"}) /\ scan'[x].stage = "return"
  BY <1>1, <1>2, <1>3, PassedHears
<1>4. CASE Edited(x, {"todo", "cand", "heardRaws"}) /\ Digests(x)
  <2>1. Edited(x, {"cand", "seen", "todo", "heardRaws"})
    BY <1>4 DEF Edited
  <2> QED BY <1>1, <1>4, <2>1, DigestHears
<1>5. Edited(x, {"todo", "cand", "heardRaws"}) \/ (Edited(x, {"stage", "err"}) /\ scan'[x].stage = "return")
  BY EnrichmentIs DEF TableInv
<1>6. scan'[x].heardRaws \in {scan[x].heardRaws, scan[x].heardRaws + 1}
      \/ (Edited(x, {"stage", "err"}) /\ scan'[x].stage = "return")
  BY EnrichmentIs DEF TableInv
<1> QED BY <1>2, <1>3, <1>4, <1>5, <1>6 DEF Digests

LEMMA RevalidationHears ==
  ASSUME TableInv, HearInv, NEW x \in Exec, Revalidation(x)
  PROVE  RunOk(x)'
<1>1. UNCHANGED <<world, sent, exec, queue>> /\ scan[x].stage = "revalidate"
  BY DEF Revalidation, agentVars
<1>2. CASE Edited(x, {"stage", "err"}) /\ scan'[x].stage = "return"
  BY <1>1, <1>2, PassedHears
<1>3. CASE Edited(x, {"todo"})
  <2>1. Edited(x, {"cand", "seen", "todo", "heardRaws"}) /\ Digests(x)
    BY <1>3 DEF Edited, ScanFields, Digests
  <2> QED BY <1>1, <2>1, DigestHears
<1> QED BY <1>2, <1>3, RevalidationIs DEF TableInv

\* The own run, and the others.
LEMMA OwnHears ==
  ASSUME TableInv, HearInv, AlarmInv, NEW x \in Exec, Coordinating(x)
  PROVE  RunOk(x)'
<1>1. world \in Scenario
  BY DEF AlarmInv
<1> QED BY <1>1, RunHears, FinishHears, ExchangeHears, DispatchHears, AggregateHears, CountDoneHears,
           TakeRawHears, ProcessingHears, EnrichmentHears, RevalidationHears
        DEF Coordinating, Scanning

LEMMA OthersHear ==
  ASSUME TableInv, HearInv, NEW x \in Exec, Coordinating(x), NEW y \in Exec \ {x}
  PROVE  RunOk(y)'
<1>1. Lasts /\ (Won(y)' => Won(y))
  <2>1. CASE Finish(x)
    BY <2>1, FinishHears
  <2>2. CASE ~Finish(x)
    BY <2>2, RunsLast, SameLasts DEF NoWin
  <2> QED BY <2>1, <2>2
<1>2. Queued(y)' \subseteq Queued(y)
  <2>1. CASE DispatchJob(x)
    BY <2>1, DispatchHears
  <2>2. CASE ~DispatchJob(x)
    BY <2>2, QueueLasts DEF Queued
  <2> QED BY <2>1, <2>2
<1>3. scan'[y] = scan[y]
  BY CoordinatingIs DEF TableInv, Edited
<1> QED BY <1>1, <1>2, <1>3, SteadyRun DEF Steady

LEMMA CoordinatingHears ==
  ASSUME TableInv, HearInv, AlarmInv, NEW x \in Exec, Coordinating(x)
  PROVE  HearInv'
<1>1. \A y \in Exec : RunOk(y)'
  BY OwnHears, OthersHear
<1>2. Lasts
  <2>1. CASE Finish(x)
    BY <2>1, FinishHears
  <2>2. CASE ~Finish(x)
    BY <2>2, RunsLast, SameLasts
  <2> QED BY <2>1, <2>2
<1>3. QueueOk'
  <2>1. CASE DispatchJob(x)
    BY <2>1, DispatchHears
  <2>2. CASE ~DispatchJob(x)
    <3>1. UNCHANGED queue
      BY <2>2, QueueLasts
    <3>2. Keeps
      BY <3>1 DEF Keeps, HearInv, QueueOk
    <3> QED BY <1>2, <3>2, KeepsQueue DEF HearInv
  <2> QED BY <2>1, <2>2
<1> QED BY <1>1, <1>2, <1>3, SentLasts DEF HearInv

LEMMA HearBegins == Init => HearInv
<1> SUFFICES ASSUME Init PROVE HearInv
  OBVIOUS
<1>1. /\ queue = <<>> /\ sent = inbox /\ scan = [x \in Exec |-> NoScan] /\ exec = [x \in Exec |-> NoExec]
      /\ inbox = [t \in Task |-> IF t \in world.tasks THEN 1 ELSE 0]
  BY DEF Init, AgentInit
<1>2. DOMAIN queue = {}
  BY <1>1
<1>3. QueueOk
  BY <1>2, FS_EmptySet DEF QueueOk
<1>4. SentOk
  BY <1>1 DEF SentOk
<1>5. ASSUME NEW x \in Exec PROVE RunOk(x)
  <2>1. /\ scan[x].stage = "idle" /\ scan[x].mail = <<>> /\ scan[x].i = 1 /\ scan[x].done = 0
        /\ scan[x].heardRaws = 0 /\ scan[x].sentRaws = 0
    BY <1>1, BegunIs DEF NoScan
  <2>2. Numbers(scan[x])
    BY <2>1, EmptyIs DEF Numbers
  <2>3. Quiet(x)
    BY <1>2, <2>1 DEF Quiet, Queued
  <2>4. ~Once(x)
    BY <1>1 DEF Once
  <2> QED BY <2>2, <2>3, <2>4 DEF RunOk
<1> QED BY <1>3, <1>4, <1>5 DEF HearInv

LEMMA HearStep == KillInv /\ AlarmInv /\ HearInv /\ [Next]_vars => HearInv'
<1> SUFFICES ASSUME KillInv, AlarmInv, HearInv, [Next]_vars PROVE HearInv'
  OBVIOUS
<1>0. TableInv
  BY DEF KillInv, TableInv
<1>1. CASE UNCHANGED vars
  <2>1. UNCHANGED <<world, sent, exec, scan, queue>>
    BY <1>1 DEF vars, agentVars, detectVars
  <2>2. Keeps
    BY <2>1 DEF Keeps, HearInv, QueueOk
  <2> QED BY <1>0, <2>1, <2>2, SameLasts, HearSteady
<1> QED BY <1>0, <1>1, AgentHears, AbortHears, CrashHears, CoordinatingHears, WorkerHears DEF Next

\* Aggregate returns no error only when as many jobs are done as there are,
\* and the done of a job follows its raws: a scan that succeeded, of a task
\* that ran once and whose jobs were delivered once, has processed every
\* candidate that its jobs published.
THEOREM SuccessHeardAll == Spec => []FinishedHeardAll
<1>1. HearInv => FinishedHeardAll
  BY DEF HearInv, RunOk, Accounted, Once, Won, HeardAll, FinishedHeardAll
<1> QED BY KillBegins, KillStep, AlarmBegins, AlarmStep, HearBegins, HearStep, <1>1, PTL DEF Spec
=============================================================================
