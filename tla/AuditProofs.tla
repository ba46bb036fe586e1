------------------------------ MODULE AuditProofs ------------------------------
(***************************************************************************)
(* Audit for any events, scenarios, callers and delivery limits.           *)
(*                                                                         *)
(* The job that holds a partition's lock is the only one between reading   *)
(* its tip and committing (LockHeld), so the chain followed by the rows of *)
(* that job is intact, and the job's seq and hash are its end (Continues). *)
(* The replay has chained every line before the one it is at               *)
(* (ReplayChained), which is why truncating the file loses nothing.        *)
(***************************************************************************)
EXTENDS Audit, SequenceTheorems, TLAPS

Holding == {"tip", "insert", "commit"}

LockHeld == \A p \in Partition, j \in Job :
  lock[p] = j <=> (job[j].part = p /\ job[j].pc \in Holding)

\* The shape of the work in each phase.
Shape(b) ==
  /\ b.pc \in {"exists", "lock", "tip"} => b.rows = <<>> /\ b.evs # <<>>
  /\ b.pc \in {"insert", "spill"} => b.evs # <<>>
  /\ b.pc = "commit" => b.rows # <<>> /\ b.evs = <<>>

\* The rows of a job continue the chain it writes to.
Ends(b, all) == Intact(all) /\ b.seq = Len(all) /\ b.hash = TipHash(all)
Continues(b, rows) == b.pc \in {"insert", "commit"} => Ends(b, rows \o b.rows)

Writing == \A j \in Job : Shape(job[j]) /\ Continues(job[j], chain[job[j].part])

ChainType == /\ chain \in [Partition -> Seq(Row)]
             /\ lock \in [Partition -> Job \cup {NoJob}]
             /\ job \in [Job -> Work]

ChainInv == ChainType /\ LockHeld /\ Writing /\ ChainIntact

-----------------------------------------------------------------------------
LEMMA JobNames == NoJob \notin Job /\ "replay" \in Job /\ "consumer" \in Job
                  /\ Logger \subseteq Job /\ Caller \subseteq Job
  BY JobsAreDistinct DEF Job

Phase == {"idle", "exists", "lock", "tip", "insert", "commit", "spill", "next"}

\* What is left of a sequence without its first element.
LEMMA HeadTail ==
  ASSUME NEW S, NEW s \in Seq(S), s # <<>>
  PROVE  /\ Head(s) \in S /\ Tail(s) \in Seq(S)
         /\ Len(s) = 1 => Tail(s) = <<>>
         /\ Len(s) # 1 => Tail(s) # <<>>
<1>1. Head(s) \in S /\ Tail(s) \in Seq(S) /\ Len(Tail(s)) = Len(s) - 1
  BY HeadTailProperties
<1> DEFINE t == Tail(s)
<1> HIDE DEF t
<1>2. t \in Seq(S) /\ (Len(t) = 0 <=> t = <<>>) /\ Len(t) = Len(s) - 1 /\ Len(s) \in Nat
  BY <1>1, EmptySeq DEF t
<1> QED BY <1>1, <1>2 DEF t

LEMMA AppendConcat ==
  ASSUME NEW s \in Seq(Row), NEW t \in Seq(Row), NEW x \in Row
  PROVE  /\ Append(t, x) \in Seq(Row) /\ Append(t, x) # <<>>
         /\ s \o Append(t, x) = Append(s \o t, x)
<1>1. t \o <<x>> = Append(t, x) /\ (s \o t) \o <<x>> = Append(s \o t, x)
  OBVIOUS
<1>2. <<x>> \in Seq(Row)
  OBVIOUS
<1>3. s \o (t \o <<x>>) = (s \o t) \o <<x>>
  BY <1>2, ConcatAssociative
<1> DEFINE a == Append(t, x)
<1>4. a \in Seq(Row) /\ Len(a) = Len(t) + 1 /\ Len(t) \in Nat
  OBVIOUS
<1> HIDE DEF a
<1>5. a # <<>>
  BY <1>4, EmptySeq
<1> QED BY <1>1, <1>3, <1>4, <1>5 DEF a

LEMMA ConcatNonEmpty ==
  ASSUME NEW S, NEW s \in Seq(S), NEW t \in Seq(S), s # <<>> \/ t # <<>>
  PROVE  s \o t \in Seq(S) /\ s \o t # <<>>
  BY ConcatProperties, ConcatEqualIffEmpty

\* The events of rows.
LEMMA IdsOfRows ==
  ASSUME NEW rows \in Seq(Row)
  PROVE  /\ [n \in DOMAIN rows |-> rows[n].id] \in Seq(Event)
         /\ rows # <<>> => [n \in DOMAIN rows |-> rows[n].id] # <<>>
<1>1. DOMAIN rows = 1..Len(rows) /\ Len(rows) \in Nat
  OBVIOUS
<1>2. \A n \in DOMAIN rows : rows[n].id \in Event
  <2>1. \A n \in DOMAIN rows : rows[n] \in Row
    BY <1>1, ElementOfSeq
  <2>2. \A x \in Row : x.id \in Event
    BY DEF Row
  <2> QED BY <2>1, <2>2
<1> DEFINE old == [n \in DOMAIN rows |-> rows[n].id]
<1>3. old \in [1..Len(rows) -> Event]
  BY <1>1, <1>2
<1>4. DOMAIN old = DOMAIN rows
  OBVIOUS
<1> HIDE DEF old
<1>5. old \in Seq(Event)
  BY <1>1, <1>3, SeqDef
<1>6. rows # <<>> => Len(rows) # 0
  OBVIOUS
<1>7. rows # <<>> => old # <<>>
  BY <1>1, <1>4, <1>6
<1> QED BY <1>5, <1>7 DEF old

\* Work that has just begun.
LEMMA AtIsWork ==
  ASSUME NEW pc \in Phase, NEW p \in Partition, NEW s \in Seq(Event), NEW k \in Nat
  PROVE  /\ At(pc, p, s, k) \in Work
         /\ At(pc, p, s, k).pc = pc /\ At(pc, p, s, k).part = p /\ At(pc, p, s, k).evs = s
         /\ At(pc, p, s, k).rows = <<>> /\ At(pc, p, s, k).line = k
<1>1. <<>> \in Seq(Row) /\ <<>> \in History
  BY DEF History
<1> QED BY <1>1 DEF At, Work, Phase

LEMMA IdleIsWork == Idle \in Work /\ Idle.pc = "idle" /\ Idle.pc \notin Holding /\ Shape(Idle)
<1>1. <<>> \in Seq(Event) /\ <<>> \in Seq(Row) /\ <<>> \in History
  BY DEF History
<1>2. Idle \in Work /\ Idle.pc = "idle"
  BY <1>1 DEF Idle, At, Work, Partition
<1> QED BY <1>2 DEF Holding, Shape

LEMMA NextIsWork ==
  ASSUME NEW k \in Nat
  PROVE  /\ At("next", "core", <<>>, k) \in Work /\ At("next", "core", <<>>, k).pc = "next"
         /\ At("next", "core", <<>>, k).line = k /\ Shape(At("next", "core", <<>>, k))
<1>1. <<>> \in Seq(Event) /\ <<>> \in Seq(Row) /\ <<>> \in History
  BY DEF History
<1>2. /\ At("next", "core", <<>>, k) \in Work /\ At("next", "core", <<>>, k).pc = "next"
      /\ At("next", "core", <<>>, k).line = k
  BY <1>1 DEF At, Work, Partition
<1> QED BY <1>2 DEF Shape

\* A link at the end of an intact chain keeps it intact.
LEMMA LinkContinues ==
  ASSUME NEW all \in Seq(Row), Intact(all), NEW e \in Event,
         NEW l, l = Link(TipHash(all), Len(all) + 1, e)
  PROVE  /\ l \in Row /\ Append(all, l) \in Seq(Row) /\ Intact(Append(all, l))
         /\ l.seq = Len(Append(all, l)) /\ l.hash = TipHash(Append(all, l))
<1>1. TipHash(all) \in History
  <2>1. CASE all = <<>>
    BY <2>1 DEF TipHash, History
  <2>2. CASE all # <<>>
    <3>1. Len(all) \in 1..Len(all)
      BY <2>2
    <3>2. all[Len(all)] \in Row
      BY <3>1
    <3> QED BY <3>2, <2>2 DEF TipHash, Row
  <2> QED BY <2>1, <2>2
<1>2. Len(all) + 1 \in Nat \ {0}
  OBVIOUS
<1>3. Hash(TipHash(all), Len(all) + 1, e) \in History
  BY <1>1, <1>2 DEF Hash, History
<1>4. l \in Row
  BY <1>1, <1>2, <1>3 DEF Link, Row
<1>5. l.hash = Hash(TipHash(all), Len(all) + 1, e) /\ l.seq = Len(all) + 1 /\ l.id = e
  BY DEF Link
<1> DEFINE new == Append(all, l)
<1>6. new \in Seq(Row) /\ Len(new) = Len(all) + 1 /\ new[Len(new)] = l
      /\ \A n \in 1..Len(all) : new[n] = all[n]
  BY <1>4
<1>7. TipHash(new) = l.hash
  BY <1>6 DEF TipHash
<1>8. Intact(new)
  <2> SUFFICES ASSUME NEW n \in DOMAIN new
               PROVE  new[n] = Link(IF n = 1 THEN <<>> ELSE new[n - 1].hash, n, new[n].id)
    BY DEF Intact
  <2>1. CASE n \in 1..Len(all)
    <3>1. all[n] = Link(IF n = 1 THEN <<>> ELSE all[n - 1].hash, n, all[n].id)
      BY <2>1 DEF Intact
    <3>2. new[n] = all[n] /\ (n # 1 => new[n - 1] = all[n - 1])
      BY <2>1, <1>6
    <3> HIDE DEF new
    <3> QED BY <3>1, <3>2
  <2>2. CASE n = Len(all) + 1
    <3>1. TipHash(all) = IF n = 1 THEN <<>> ELSE new[n - 1].hash
      BY <2>2, <1>6 DEF TipHash
    <3>2. new[n] = l
      BY <2>2, <1>6
    <3> HIDE DEF new
    <3> QED BY <3>1, <3>2, <1>5, <2>2
  <2>3. n \in 1..Len(all) \/ n = Len(all) + 1
    BY <1>6
  <2> QED BY <2>1, <2>2, <2>3
<1> QED BY <1>4, <1>5, <1>6, <1>7, <1>8

-----------------------------------------------------------------------------
(* The chains, the locks and the jobs.                                     *)

\* The work of j becomes b, which holds no lock, nor did j's.
LEMMA Outside ==
  ASSUME ChainInv, NEW j \in Job, NEW b \in Work, b.pc \notin Holding, Shape(b),
         job[j].pc \notin Holding, job' = [job EXCEPT ![j] = b], chain' = chain, lock' = lock
  PROVE  ChainInv'
<1> USE DEF ChainInv
<1>1. ChainType'
  BY DEF ChainType
<1>2. \A k \in Job : job'[k] = IF k = j THEN b ELSE job[k]
  BY DEF ChainType
<1>3. LockHeld'
  BY <1>2 DEF LockHeld
<1>4. Writing'
  BY <1>2 DEF Writing, Continues, Holding
<1> QED BY <1>1, <1>3, <1>4 DEF ChainIntact

\* j gives up its work, and the lock if it had one; nothing is committed.
LEMMA GivenUp ==
  ASSUME ChainInv, NEW j \in Job, NEW b \in Work, b.pc \notin Holding, Shape(b),
         Release(j), job' = [job EXCEPT ![j] = b], chain' = chain
  PROVE  ChainInv'
<1> USE DEF ChainInv
<1>0. \A p \in Partition : lock'[p] = IF lock[p] = j THEN NoJob ELSE lock[p]
  BY DEF Release
<1>1. ChainType'
  BY DEF ChainType, Release
<1>2. \A k \in Job : job'[k] = IF k = j THEN b ELSE job[k]
  BY DEF ChainType
<1>3. LockHeld'
  BY <1>0, <1>2, JobNames DEF LockHeld
<1>4. Writing'
  BY <1>2 DEF Writing, Continues, Holding
<1> QED BY <1>1, <1>3, <1>4 DEF ChainIntact

\* j commits its rows.
LEMMA Ended ==
  ASSUME ChainInv, NEW j \in Job, job[j].pc = "commit", Committed(j),
         NEW b \in Work, b.pc \notin Holding, Shape(b),
         Release(j), job' = [job EXCEPT ![j] = b]
  PROVE  ChainInv'
<1> USE DEF ChainInv
<1>0. \A p \in Partition : lock'[p] = IF lock[p] = j THEN NoJob ELSE lock[p]
  BY DEF Release
<1>a. job[j] \in Work /\ job[j].part \in Partition /\ job[j].rows \in Seq(Row)
  BY DEF ChainType, Work
<1>b. \A p \in Partition : chain'[p] = IF p = job[j].part THEN chain[p] \o job[j].rows
                                                          ELSE chain[p]
  BY DEF Committed, ChainType
<1>c. chain' \in [Partition -> Seq(Row)]
  BY <1>a DEF Committed, ChainType
<1>1. ChainType'
  BY <1>c DEF ChainType, Release
<1>2. \A k \in Job : job'[k] = IF k = j THEN b ELSE job[k]
  BY DEF ChainType
<1>3. LockHeld'
  BY <1>0, <1>2, JobNames DEF LockHeld
<1>4. Writing'
  <2> SUFFICES ASSUME NEW k \in Job
               PROVE  Shape(job'[k]) /\ Continues(job'[k], chain'[job'[k].part])
    BY DEF Writing
  <2>1. CASE k = j
    BY <2>1, <1>2 DEF Continues, Holding
  <2>2. CASE k # j
    <3>1. job'[k] = job[k] /\ job[k].part \in Partition
      BY <2>2, <1>2 DEF ChainType, Work
    <3>2. job[k].pc \in Holding => job[k].part # job[j].part
      BY <2>2, <1>a, <3>1 DEF LockHeld, Holding
    <3>3. job[k].pc \in Holding => chain'[job[k].part] = chain[job[k].part]
      BY <3>1, <3>2, <1>b
    <3>4. Shape(job[k]) /\ Continues(job[k], chain[job[k].part])
      BY DEF Writing
    <3> QED BY <3>1, <3>3, <3>4 DEF Continues, Holding
  <2> QED BY <2>1, <2>2
<1>5. ChainIntact'
  <2>1. Intact(chain[job[j].part] \o job[j].rows)
    BY DEF Writing, Continues, Ends
  <2> QED BY <2>1, <1>b DEF ChainIntact
<1> QED BY <1>1, <1>3, <1>4, <1>5

\* A crash: the jobs of S stop, the commits of C still take effect.
LEMMA Crashed ==
  ASSUME ChainInv, NEW S \in SUBSET Job, NEW C \in SUBSET Job, Dies(S, C)
  PROVE  ChainInv'
<1> USE DEF ChainInv
<1> DEFINE Late(p) == \E j \in C : job[j].part = p
           Who(p) == CHOOSE j \in C : job[j].part = p
<1>a. \A p \in Partition : Late(p) => /\ Who(p) \in C /\ job[Who(p)].part = p
                                      /\ Who(p) \in S /\ job[Who(p)].pc = "commit"
  BY DEF Dies
<1>0. chain' = [p \in Partition |-> IF Late(p) THEN chain[p] \o job[Who(p)].rows ELSE chain[p]]
  BY DEF Dies
<1>b. \A p \in Partition : chain'[p] = IF Late(p) THEN chain[p] \o job[Who(p)].rows ELSE chain[p]
  BY <1>0
<1>c. \A p \in Partition : lock'[p] = IF lock[p] \in S THEN NoJob ELSE lock[p]
  BY DEF Dies
<1>d. \A k \in Job : job'[k] = IF k \in S THEN Idle ELSE job[k]
  BY DEF Dies
<1>e. \A k \in Job : job[k] \in Work /\ job[k].part \in Partition /\ job[k].rows \in Seq(Row)
  BY DEF ChainType, Work
<1> HIDE DEF Late, Who
<1>1. ChainType'
  <2>1. ASSUME NEW p \in Partition PROVE chain'[p] \in Seq(Row)
    <3>1. chain[p] \in Seq(Row)
      BY DEF ChainType
    <3>2. CASE Late(p)
      <4>1. job[Who(p)].rows \in Seq(Row)
        BY <3>2, <1>a, <1>e
      <4>2. chain[p] \o job[Who(p)].rows \in Seq(Row)
        BY <3>1, <4>1
      <4> QED BY <3>2, <4>2, <1>b
    <3> QED BY <3>1, <3>2, <1>b
  <2>2. chain' \in [Partition -> Seq(Row)]
    BY <2>1, <1>0
  <2>3. job' \in [Job -> Work]
    <3>1. job' = [k \in Job |-> IF k \in S THEN Idle ELSE job[k]]
      BY DEF Dies
    <3> QED BY <1>e, <3>1, IdleIsWork
  <2>4. lock' \in [Partition -> Job \cup {NoJob}]
    BY DEF Dies, ChainType
  <2> QED BY <2>2, <2>3, <2>4 DEF ChainType
<1>3. LockHeld'
  BY <1>c, <1>d, JobNames, IdleIsWork DEF LockHeld
<1>4. Writing'
  <2> SUFFICES ASSUME NEW k \in Job
               PROVE  Shape(job'[k]) /\ Continues(job'[k], chain'[job'[k].part])
    BY DEF Writing
  <2>1. CASE k \in S
    BY <2>1, <1>d, IdleIsWork DEF Continues, Holding
  <2>2. CASE k \notin S
    <3>1. job'[k] = job[k] /\ job[k].part \in Partition
      BY <2>2, <1>d, <1>e
    <3>2. job[k].pc \in Holding => ~Late(job[k].part)
      BY <2>2, <1>a, <1>e, <3>1 DEF LockHeld, Holding
    <3>3. job[k].pc \in Holding => chain'[job[k].part] = chain[job[k].part]
      BY <3>1, <3>2, <1>b
    <3>4. Shape(job[k]) /\ Continues(job[k], chain[job[k].part])
      BY DEF Writing
    <3> QED BY <3>1, <3>3, <3>4 DEF Continues, Holding
  <2> QED BY <2>1, <2>2
<1>5. ChainIntact'
  <2> SUFFICES ASSUME NEW p \in Partition PROVE Intact(chain'[p])
    BY DEF ChainIntact
  <2>1. CASE Late(p)
    <3>1. Intact(chain[p] \o job[Who(p)].rows)
      BY <2>1, <1>a, <1>e DEF Writing, Continues, Ends
    <3> QED BY <3>1, <2>1, <1>b
  <2>2. CASE ~Late(p)
    BY <2>2, <1>b DEF ChainIntact
  <2> QED BY <2>1, <2>2
<1> QED BY <1>1, <1>3, <1>4, <1>5

LEMMA LockStep == ASSUME ChainInv, NEW j \in Job, Lock(j) PROVE ChainInv'
<1> USE DEF ChainInv
<1> DEFINE p == job[j].part
<1>0. p \in Partition /\ job[j].pc = "lock" /\ lock[p] = NoJob
      /\ lock' = [lock EXCEPT ![p] = j] /\ chain' = chain
      /\ job' = [job EXCEPT ![j].pc = "tip"]
  BY DEF Lock, ChainType, Work
<1>2. \A k \in Job : job'[k] = IF k = j THEN [job[j] EXCEPT !.pc = "tip"] ELSE job[k]
  BY <1>0 DEF ChainType
<1>3. job'[j] \in Work /\ job'[j].pc = "tip" /\ job'[j].part = p
      /\ job'[j].rows = job[j].rows /\ job'[j].evs = job[j].evs
  BY <1>2 DEF ChainType, Work
<1>1. ChainType'
  BY <1>0, <1>3 DEF ChainType
<1>5. \A q \in Partition : lock'[q] = IF q = p THEN j ELSE lock[q]
  BY <1>0 DEF ChainType
<1>6. LockHeld'
  <2> SUFFICES ASSUME NEW q \in Partition, NEW k \in Job
               PROVE  lock'[q] = k <=> (job'[k].part = q /\ job'[k].pc \in Holding)
    BY DEF LockHeld
  <2>1. CASE k = j
    BY <2>1, <1>0, <1>3, <1>5, JobNames DEF LockHeld, Holding
  <2>2. CASE k # j
    BY <2>2, <1>0, <1>2, <1>5, JobNames DEF LockHeld, Holding
  <2> QED BY <2>1, <2>2
<1>7. Writing'
  BY <1>0, <1>2, <1>3 DEF Writing, Continues, Shape
<1> QED BY <1>0, <1>1, <1>6, <1>7 DEF ChainIntact

LEMMA ReadTipStep == ASSUME ChainInv, NEW j \in Job, ReadTip(j) PROVE ChainInv'
<1> USE DEF ChainInv
<1> DEFINE p == job[j].part
           rows == chain[p]
<1>0. p \in Partition /\ job[j].pc = "tip" /\ lock' = lock /\ chain' = chain
  BY DEF ReadTip, ChainType, Work
<1>a. rows \in Seq(Row) /\ Intact(rows)
  BY <1>0 DEF ChainType, ChainIntact
<1>b. /\ (IF Len(rows) = 0 THEN 0 ELSE rows[Len(rows)].seq) = Len(rows)
      /\ (IF Len(rows) = 0 THEN <<>> ELSE rows[Len(rows)].hash) = TipHash(rows)
      /\ TipHash(rows) \in History
  <2> HIDE DEF rows
  <2>1. CASE Len(rows) = 0
    <3>1. rows = <<>>
      BY <2>1, <1>a
    <3> QED BY <2>1, <3>1 DEF TipHash, History
  <2>2. CASE Len(rows) # 0
    <3>1. Len(rows) \in DOMAIN rows /\ rows # <<>>
      BY <2>2, <1>a
    <3>2. rows[Len(rows)] \in Row
      BY <3>1, <1>a
    <3>3. rows[Len(rows)].seq = Len(rows)
      BY <3>1, <1>a DEF Intact, Link
    <3> QED BY <2>2, <3>1, <3>2, <3>3 DEF TipHash, Row
  <2> QED BY <2>1, <2>2
<1> DEFINE b == [job[j] EXCEPT !.pc = "insert", !.seq = Len(rows), !.hash = TipHash(rows)]
<1>c. job[j] \in Work /\ Len(rows) \in Nat
  BY <1>a DEF ChainType
<1>d. b \in Work /\ b.pc = "insert" /\ b.part = p /\ b.seq = Len(rows) /\ b.hash = TipHash(rows)
      /\ b.rows = job[j].rows /\ b.evs = job[j].evs
  <2> HIDE DEF rows
  <2> QED BY <1>b, <1>c DEF Work
<1>e. job' = [job EXCEPT ![j] = b]
  <2>1. job' = [job EXCEPT ![j].pc = "insert",
                        ![j].seq = IF Len(rows) = 0 THEN 0 ELSE rows[Len(rows)].seq,
                        ![j].hash = IF Len(rows) = 0 THEN <<>> ELSE rows[Len(rows)].hash]
    BY DEF ReadTip
  <2> HIDE DEF rows
  <2>2. job' = [job EXCEPT ![j].pc = "insert", ![j].seq = Len(rows), ![j].hash = TipHash(rows)]
    BY <2>1, <1>b
  <2> QED BY <2>2, <1>c DEF ChainType
<1> HIDE DEF b
<1>1. ChainType'
  BY <1>0, <1>d, <1>e DEF ChainType
<1>2. \A k \in Job : job'[k] = IF k = j THEN b ELSE job[k]
  BY <1>e DEF ChainType
<1>3. LockHeld'
  BY <1>0, <1>2, <1>d DEF LockHeld, Holding
<1>4. Shape(b) /\ Continues(b, rows)
  <2>1. job[j].rows = <<>> /\ job[j].evs # <<>>
    BY <1>0 DEF Writing, Shape
  <2>2. rows \o <<>> = rows
    BY <1>a
  <2> HIDE DEF rows
  <2> QED BY <2>1, <2>2, <1>a, <1>d DEF Shape, Continues, Ends
<1>5. Writing'
  BY <1>0, <1>2, <1>4, <1>d DEF Writing
<1> QED BY <1>0, <1>1, <1>3, <1>5 DEF ChainIntact

LEMMA InsertStep == ASSUME ChainInv, NEW j \in Job, Insert(j) PROVE ChainInv'
<1> USE DEF ChainInv
<1> DEFINE p == job[j].part
           old == job[j].rows
           all == chain[p] \o old
           e == Head(job[j].evs)
           link == Link(job[j].hash, job[j].seq + 1, e)
           pc == IF Len(job[j].evs) = 1 THEN "commit" ELSE "insert"
           b == [job[j] EXCEPT !.rows = Append(job[j].rows, link), !.seq = link.seq,
                               !.hash = link.hash, !.evs = Tail(job[j].evs), !.pc = pc]
<1>0. p \in Partition /\ job[j] \in Work /\ job[j].pc = "insert" /\ lock' = lock
      /\ chain' = chain
  BY DEF Insert, ChainType, Work
<1>1. chain[p] \in Seq(Row) /\ old \in Seq(Row) /\ all \in Seq(Row)
  BY <1>0 DEF ChainType, Work
<1>2. Intact(all) /\ job[j].seq = Len(all) /\ job[j].hash = TipHash(all)
  BY <1>0 DEF Writing, Continues, Ends
<1>3. job[j].evs \in Seq(Event) /\ job[j].evs # <<>>
  BY <1>0 DEF Writing, Shape, Work
<1>4. e \in Event /\ Tail(job[j].evs) \in Seq(Event)
      /\ (Len(job[j].evs) = 1 => Tail(job[j].evs) = <<>>)
      /\ (Len(job[j].evs) # 1 => Tail(job[j].evs) # <<>>)
  BY <1>3, HeadTail
<1>5. link = Link(TipHash(all), Len(all) + 1, e)
  <2> HIDE DEF all, e
  <2> QED BY <1>2
<1>6. /\ link \in Row /\ Append(all, link) \in Seq(Row) /\ Intact(Append(all, link))
      /\ link.seq = Len(Append(all, link)) /\ link.hash = TipHash(Append(all, link))
  <2> HIDE DEF all, e, link
  <2> QED BY <1>1, <1>2, <1>4, <1>5, LinkContinues
<1>7. chain[p] \o Append(old, link) = Append(all, link)
      /\ Append(old, link) \in Seq(Row) /\ Append(old, link) # <<>>
  <2> HIDE DEF link, old
  <2> QED BY <1>0, <1>1, <1>6, AppendConcat
<1>8. job' = [job EXCEPT ![j] = b]
  BY DEF Insert
<1>9. /\ b \in Work /\ b.pc = pc /\ b.part = p /\ b.rows = Append(old, link)
      /\ b.seq = link.seq /\ b.hash = link.hash /\ b.evs = Tail(job[j].evs)
  <2>1. link.seq \in Nat /\ link.hash \in History
    BY <1>6 DEF Row
  <2> HIDE DEF link, old
  <2> QED BY <1>0, <1>4, <1>7, <2>1 DEF Work, old
<1> HIDE DEF b, link, old, all
<1>10. ChainType'
  BY <1>0, <1>8, <1>9 DEF ChainType
<1>11. \A k \in Job : job'[k] = IF k = j THEN b ELSE job[k]
  BY <1>8 DEF ChainType
<1>12. LockHeld'
  BY <1>0, <1>9, <1>11 DEF LockHeld, Holding
<1>13. Shape(b)
  BY <1>4, <1>7, <1>9 DEF Shape
<1>14. Continues(b, chain[p])
  BY <1>6, <1>7, <1>9 DEF Continues, Ends
<1>15. Writing'
  BY <1>0, <1>9, <1>11, <1>13, <1>14 DEF Writing
<1> QED BY <1>0, <1>10, <1>12, <1>15 DEF ChainIntact

-----------------------------------------------------------------------------
(* The rest of the state, and the replay.                                  *)

Line == [ev : Event, parses : BOOLEAN]

DataType ==
  /\ world \in Scenario /\ left \in [Budget -> Nat]
  /\ core \in {"up", "down"} /\ lines \in Seq(Line) /\ torn \in BOOLEAN
  /\ raised \subseteq Event /\ told \subseteq Event
  /\ spool \in [world.rows -> SpoolRow]

MsgInv == /\ DOMAIN msg \subseteq Event
          /\ \A m \in DOMAIN msg : /\ msg[m] \in Delivery
                                   /\ msg[m].status = "queued" => msg[m].left > 0

\* What the replay is at, given its work, the file and the chain.
Replayed(b) ==
  /\ b.pc \in {"next", "lock", "tip", "insert", "commit"} =>
       /\ b.line \in 1..Len(lines) + 1
       /\ \A k \in 1..Len(lines) : k < b.line => lines[k].ev \in Ids(chain["core"])
  /\ b.pc \in {"lock", "tip", "insert"} =>
       /\ b.part = "core" /\ b.line \in 1..Len(lines) /\ b.rows = <<>>
       /\ b.evs = <<lines[b.line].ev>>
  /\ b.pc = "commit" =>
       b.part = "core" /\ b.line \in 1..Len(lines) /\ lines[b.line].ev \in Ids(b.rows)

ReplayChained == Replayed(job["replay"])

IInv == ChainInv /\ DataType /\ MsgInv /\ ReplayChained

LEMMA InvImplies == IInv => TypeOK /\ ChainIntact
  BY DEF IInv, ChainInv, ChainType, DataType, MsgInv, TypeOK, Line

\* No row leaves a chain, no line the file.
Extends == \A p \in Partition : \A n \in DOMAIN chain[p] :
             n \in DOMAIN chain'[p] /\ chain'[p][n] = chain[p][n]
LinesKept == \A k \in 1..Len(lines) : k \in 1..Len(lines') /\ lines'[k] = lines[k]

LEMMA ExtendsIds ==
  ASSUME Extends, NEW p \in Partition
  PROVE  Ids(chain[p]) \subseteq Ids(chain'[p])
  BY DEF Extends, Ids

LEMMA ConcatExtends ==
  ASSUME NEW s \in Seq(Row), NEW t \in Seq(Row)
  PROVE  /\ \A n \in DOMAIN s : n \in DOMAIN (s \o t) /\ (s \o t)[n] = s[n]
         /\ Ids(t) \subseteq Ids(s \o t)
<1>1. /\ s \o t \in Seq(Row) /\ Len(s \o t) = Len(s) + Len(t)
      /\ \A i \in 1..Len(s) + Len(t) : (s \o t)[i] = IF i <= Len(s) THEN s[i] ELSE t[i - Len(s)]
  BY ConcatProperties
<1>2. DOMAIN s = 1..Len(s) /\ DOMAIN t = 1..Len(t) /\ DOMAIN (s \o t) = 1..Len(s) + Len(t)
      /\ Len(s) \in Nat /\ Len(t) \in Nat
  BY <1>1
<1> DEFINE u == s \o t
<1> HIDE DEF u
<1>3. \A n \in DOMAIN t : Len(s) + n \in DOMAIN u /\ u[Len(s) + n] = t[n]
  BY <1>1, <1>2 DEF u
<1>4. Ids(t) \subseteq Ids(u)
  BY <1>3 DEF Ids
<1>5. \A n \in DOMAIN s : n \in DOMAIN u /\ u[n] = s[n]
  BY <1>1, <1>2 DEF u
<1> QED BY <1>4, <1>5 DEF u

LEMMA CommittedExtends ==
  ASSUME ChainInv, NEW j \in Job, Committed(j)
  PROVE  Extends /\ Ids(job[j].rows) \subseteq Ids(chain'[job[j].part])
<1>a. job[j].part \in Partition /\ job[j].rows \in Seq(Row)
      /\ \A p \in Partition : chain[p] \in Seq(Row)
  BY DEF ChainInv, ChainType, Work
<1>b. \A p \in Partition : chain'[p] = IF p = job[j].part THEN chain[p] \o job[j].rows
                                                          ELSE chain[p]
  BY DEF Committed, ChainInv, ChainType
<1>1. Extends
  <2> SUFFICES ASSUME NEW p \in Partition
               PROVE  \A n \in DOMAIN chain[p] :
                        n \in DOMAIN chain'[p] /\ chain'[p][n] = chain[p][n]
    BY DEF Extends
  <2>1. CASE p = job[j].part
    <3>1. chain[p] \in Seq(Row) /\ chain'[p] = chain[p] \o job[j].rows
      BY <2>1, <1>a, <1>b
    <3> QED BY <3>1, <1>a, ConcatExtends
  <2>2. CASE p # job[j].part
    BY <2>2, <1>b
  <2> QED BY <2>1, <2>2
<1>2. Ids(job[j].rows) \subseteq Ids(chain'[job[j].part])
  <2> DEFINE p == job[j].part
  <2>1. chain[p] \in Seq(Row) /\ chain'[p] = chain[p] \o job[j].rows
    BY <1>a, <1>b
  <2> QED BY <2>1, <1>a, ConcatExtends
<1> QED BY <1>1, <1>2

LEMMA DiesExtends ==
  ASSUME ChainInv, NEW S \in SUBSET Job, NEW C \in SUBSET Job, Dies(S, C)
  PROVE  Extends
<1> DEFINE Late(p) == \E j \in C : job[j].part = p
           Who(p) == CHOOSE j \in C : job[j].part = p
<1>a. \A p \in Partition : Late(p) => Who(p) \in C
  OBVIOUS
<1>b. \A p \in Partition : chain'[p] = IF Late(p) THEN chain[p] \o job[Who(p)].rows ELSE chain[p]
  BY DEF Dies
<1> HIDE DEF Late, Who
<1> SUFFICES ASSUME NEW p \in Partition
             PROVE  \A n \in DOMAIN chain[p] : n \in DOMAIN chain'[p] /\ chain'[p][n] = chain[p][n]
  BY DEF Extends
<1>1. chain[p] \in Seq(Row)
  BY DEF ChainInv, ChainType
<1>2. CASE Late(p)
  <2>1. job[Who(p)].rows \in Seq(Row)
    BY <1>a, <1>2 DEF ChainInv, ChainType, Work
  <2> QED BY <1>1, <1>2, <1>b, <2>1, ConcatExtends
<1> QED BY <1>1, <1>2, <1>b

LEMMA ReplayFrame ==
  ASSUME ReplayChained, Extends, DataType, lines' \in Seq(Line), LinesKept,
         job'["replay"] = job["replay"]
  PROVE  ReplayChained'
<1>1. Ids(chain["core"]) \subseteq Ids(chain'["core"])
  BY ExtendsIds DEF Partition
<1>2. Len(lines) \in Nat /\ Len(lines') \in Nat /\ Len(lines) <= Len(lines')
  BY DEF LinesKept, DataType
<1> DEFINE b == job["replay"]
           n == Len(lines)
           m == Len(lines')
<1>3. ASSUME b.line \in 1..n + 1, NEW k \in 1..m, k < b.line
      PROVE  k \in 1..n /\ lines'[k] = lines[k]
  <2>1. k \in 1..n
    BY <1>2, <1>3
  <2> QED BY <2>1 DEF LinesKept
<1>4. \A k \in 1..n : k \in 1..m /\ lines'[k] = lines[k]
  BY DEF LinesKept
<1>5. \A k \in 1..n + 1 : k \in 1..m + 1
  BY <1>2
<1> HIDE DEF b, n, m
<1>6. Replayed(b)'
  BY <1>1, <1>3, <1>4, <1>5 DEF ReplayChained, Replayed, b, n, m
<1> QED BY <1>6 DEF ReplayChained, b

-----------------------------------------------------------------------------
(* What a job does next when its transaction ended well, or did not.       *)

LEMMA FailWork ==
  ASSUME ChainInv, NEW j \in Job, job[j].pc = "exists" \/ Working(j), Fail(j)
  PROVE  \E b \in Work : /\ b.pc \in {"idle", "spill"} /\ Shape(b)
                         /\ j = "replay" => b.pc = "idle"
                         /\ job' = [job EXCEPT ![j] = b]
<1> DEFINE old == [n \in DOMAIN job[j].rows |-> job[j].rows[n].id]
           evs == old \o job[j].evs
<1>1. job[j] \in Work /\ Shape(job[j]) /\ job[j].rows \in Seq(Row) /\ job[j].evs \in Seq(Event)
  BY DEF ChainInv, ChainType, Writing, Work
<1>2. job[j].rows # <<>> \/ job[j].evs # <<>>
  BY <1>1 DEF Shape, Working
<1>3. old \in Seq(Event) /\ (job[j].rows # <<>> => old # <<>>)
  BY <1>1, IdsOfRows
<1>4. evs \in Seq(Event) /\ evs # <<>>
  <2> HIDE DEF old
  <2> QED BY <1>1, <1>2, <1>3, ConcatNonEmpty
<1>5. CASE j \in Logger /\ job' = [job EXCEPT ![j] = At("spill", "core", evs, 0)]
  <2>1. /\ At("spill", "core", evs, 0) \in Work
        /\ At("spill", "core", evs, 0).pc = "spill"
        /\ At("spill", "core", evs, 0).evs = evs
    <3> HIDE DEF evs
    <3> QED BY <1>4, AtIsWork DEF Phase, Partition
  <2>2. Shape(At("spill", "core", evs, 0))
    <3> HIDE DEF evs
    <3> QED BY <2>1, <1>4 DEF Shape
  <2>3. j # "replay"
    BY <1>5, JobsAreDistinct
  <2> HIDE DEF evs
  <2> QED BY <1>5, <2>1, <2>2, <2>3
<1>6. CASE job' = [job EXCEPT ![j] = Idle]
  BY <1>6, IdleIsWork
<1> QED BY <1>5, <1>6 DEF Fail, StopReplay

LEMMA SucceedWork ==
  ASSUME IInv, NEW j \in Job, job[j].pc = "commit", Succeed(j)
  PROVE  \E b \in Work : /\ b.pc \in {"idle", "next"} /\ Shape(b)
                         /\ j = "replay" => b.pc = "next" /\ b.line = job[j].line + 1
                         /\ job' = [job EXCEPT ![j] = b]
<1>1. CASE j = "replay"
  <2> DEFINE b == At("next", "core", <<>>, job[j].line + 1)
  <2>1. job' = [job EXCEPT ![j] = b]
    BY <1>1, JobsAreDistinct DEF Succeed
  <2>2. job[j].line + 1 \in Nat
    BY DEF IInv, ChainInv, ChainType, Work
  <2>3. b \in Work /\ b.pc = "next" /\ b.line = job[j].line + 1 /\ Shape(b)
    BY <2>2, NextIsWork
  <2> HIDE DEF b
  <2> QED BY <2>1, <2>3
<1>2. CASE j # "replay"
  <2>1. job' = [job EXCEPT ![j] = Idle]
    BY <1>2 DEF Succeed
  <2> QED BY <1>2, <2>1, IdleIsWork
<1> QED BY <1>1, <1>2

-----------------------------------------------------------------------------
(* The steps.  Each keeps the invariant and the promise of AuditLog.       *)

Promise == /\ Extends
           /\ OnDisk \subseteq OnDisk' \cup Chained'
           /\ told \subseteq told' /\ told' \subseteq told \cup Chained' \cup OnDisk'

LEMMA Distinct == "replay" # "consumer" /\ "replay" \notin Logger /\ "replay" \notin Caller
  BY JobsAreDistinct

LEMMA SameExtends == ASSUME chain' = chain PROVE Extends
  BY DEF Extends

\* A step that leaves the file alone.
LEMMA FileAlone ==
  ASSUME IInv, ChainInv', DataType', MsgInv', Extends, lines' = lines,
         ReplayChained' \/ job'["replay"] = job["replay"]
  PROVE  IInv' /\ OnDisk \subseteq OnDisk'
<1>1. LinesKept /\ lines' \in Seq(Line)
  BY DEF LinesKept, IInv, DataType
<1>2. ReplayChained'
  BY <1>1, ReplayFrame DEF IInv
<1> QED BY <1>2 DEF IInv, OnDisk

\* A job other than the replay begins.
LEMMA Begun ==
  ASSUME IInv, NEW j \in Job, j # "replay", job[j].pc = "idle",
         NEW pc \in {"lock", "exists"}, NEW p \in Partition, NEW s \in Seq(Event), s # <<>>,
         job' = [job EXCEPT ![j] = At(pc, p, s, 0)],
         DataType', MsgInv', chain' = chain, lock' = lock, lines' = lines, told' = told
  PROVE  IInv' /\ Promise
<1> DEFINE b == At(pc, p, s, 0)
<1>1. b \in Work /\ b.pc = pc /\ b.rows = <<>> /\ b.evs = s
  BY AtIsWork DEF Phase
<1> HIDE DEF b
<1>2. Shape(b) /\ b.pc \notin Holding
  BY <1>1 DEF Shape, Holding
<1>3. ChainInv'
  BY <1>1, <1>2, Outside DEF IInv, Holding, b
<1>4. job'["replay"] = job["replay"]
  BY JobNames DEF IInv, ChainInv, ChainType
<1> QED BY <1>3, <1>4, SameExtends, FileAlone DEF Promise

LEMMA LogEventStep ==
  ASSUME IInv, NEW j \in Logger, NEW e \in world.core, LogEvent(j, e)
  PROVE  IInv' /\ Promise
<1>1. e \in Event
  BY ScenarioAssumption DEF IInv, DataType
<1>2. <<e>> \in Seq(Event) /\ <<e>> # <<>>
  BY <1>1
<1>3. DataType' /\ MsgInv'
  BY <1>1 DEF IInv, DataType, MsgInv, LogEvent, file, bus
<1>4. j \in Job /\ j # "replay" /\ "core" \in Partition
  BY JobNames, Distinct DEF Partition
<1>5. job[j].pc = "idle" /\ job' = [job EXCEPT ![j] = At("lock", "core", <<e>>, 0)]
      /\ chain' = chain /\ lock' = lock /\ lines' = lines /\ told' = told
  BY DEF LogEvent, file
<1> QED BY <1>2, <1>3, <1>4, <1>5, Begun

LEMMA RecordBatchStep ==
  ASSUME IInv, NEW j \in Caller, NEW evs \in world.calls, RecordBatch(j, evs)
  PROVE  IInv' /\ Promise
<1>1. evs \in Seq(Event) /\ evs # <<>>
  BY ScenarioAssumption DEF IInv, DataType
<1>2. {evs[n] : n \in DOMAIN evs} \subseteq Event
  BY <1>1
<1>3. DataType' /\ MsgInv'
  BY <1>2 DEF IInv, DataType, MsgInv, RecordBatch, file, bus
<1>4. j \in Job /\ j # "replay" /\ "org" \in Partition
  BY JobNames, Distinct DEF Partition
<1>5. job[j].pc = "idle" /\ job' = [job EXCEPT ![j] = At("lock", "org", evs, 0)]
      /\ chain' = chain /\ lock' = lock /\ lines' = lines /\ told' = told
  BY DEF RecordBatch, file
<1> QED BY <1>1, <1>3, <1>4, <1>5, Begun

LEMMA ConsumeStep ==
  ASSUME IInv, NEW m \in DOMAIN msg, Consume(m)
  PROVE  IInv' /\ Promise
<1>1. m \in Event /\ msg[m] \in Delivery /\ msg[m].status = "queued" /\ msg[m].left > 0
  BY DEF IInv, MsgInv, Consume
<1>2. <<m>> \in Seq(Event) /\ <<m>> # <<>>
  BY <1>1
<1>3. DataType'
  BY DEF IInv, DataType, Consume, file
<1>4. MsgInv'
  <2>1. msg' = [msg EXCEPT ![m] = [status |-> "flight", left |-> msg[m].left - 1]]
    BY DEF Consume
  <2>2. [status |-> "flight", left |-> msg[m].left - 1] \in Delivery
    BY <1>1, MaxDeliverAssumption DEF Delivery
  <2> QED BY <2>1, <2>2 DEF IInv, MsgInv
<1>5. "consumer" \in Job /\ "consumer" # "replay" /\ "platform" \in Partition
  BY JobNames DEF Partition
<1>6. job["consumer"].pc = "idle" /\ job' = [job EXCEPT !["consumer"] = At("exists", "platform", <<m>>, 0)]
      /\ chain' = chain /\ lock' = lock /\ lines' = lines /\ told' = told
  BY DEF Consume, file
<1> QED BY <1>2, <1>3, <1>4, <1>5, <1>6, Begun

LEMMA AckedMsg == ASSUME MsgInv, NEW m, Acked(m) PROVE MsgInv'
<1>1. DOMAIN msg' = DOMAIN msg
  BY DEF Acked
<1>2. ASSUME NEW k \in DOMAIN msg PROVE msg'[k] \in Delivery /\ msg'[k].status \in {msg[k].status, "done"}
                                        /\ msg'[k].left = msg[k].left
  <2>1. msg'[k] = IF k = m THEN [msg[k] EXCEPT !.status = "done"] ELSE msg[k]
    BY <1>2 DEF Acked
  <2> QED BY <2>1, <1>2 DEF MsgInv, Delivery
<1> QED BY <1>1, <1>2 DEF MsgInv

LEMMA NackedMsg == ASSUME MsgInv, NEW S, Nacked(S) PROVE MsgInv'
<1>1. DOMAIN msg' = DOMAIN msg
  BY DEF Nacked
<1>2. ASSUME NEW k \in DOMAIN msg
      PROVE  msg'[k] \in Delivery /\ (msg'[k].status = "queued" => msg'[k].left > 0)
  <2>1. msg[k] \in Delivery /\ (msg[k].status = "queued" => msg[k].left > 0)
    BY <1>2 DEF MsgInv
  <2> QED BY <2>1, <1>2 DEF Nacked, Delivery
<1> QED BY <1>1, <1>2 DEF MsgInv

LEMMA ExistsStep == ASSUME IInv, Exists PROVE IInv' /\ Promise
<1> DEFINE c == job["consumer"]
           m == c.evs[1]
<1>0. "consumer" \in Job /\ "consumer" # "replay" /\ c \in Work /\ c.pc = "exists" /\ Shape(c)
  BY JobNames DEF IInv, ChainInv, ChainType, Writing, Exists
<1>1. DataType' /\ chain' = chain /\ lock' = lock /\ lines' = lines /\ told' = told
  BY DEF IInv, DataType, Exists, file
<1>2. MsgInv' /\ \E b \in Work : b.pc \notin Holding /\ Shape(b)
                                 /\ job' = [job EXCEPT !["consumer"] = b]
  <2>1. CASE m \in Chained
    <3>1. Acked(m) /\ job' = [job EXCEPT !["consumer"] = Idle]
      BY <2>1 DEF Exists
    <3> QED BY <3>1, AckedMsg, IdleIsWork DEF IInv
  <2>2. CASE m \notin Chained
    <3> DEFINE b == [c EXCEPT !.pc = "lock"]
    <3>1. msg' = msg /\ job' = [job EXCEPT !["consumer"] = b]
      BY <2>2, <1>0 DEF Exists, IInv, ChainInv, ChainType
    <3>2. b \in Work /\ b.pc = "lock" /\ b.rows = c.rows /\ b.evs = c.evs
      BY <1>0 DEF Work
    <3> HIDE DEF b
    <3>3. Shape(b) /\ b.pc \notin Holding
      BY <1>0, <3>2 DEF Shape, Holding
    <3>4. MsgInv'
      BY <3>1 DEF IInv, MsgInv
    <3> QED BY <3>1, <3>2, <3>3, <3>4
  <2> QED BY <2>1, <2>2
<1>3. ChainInv'
  BY <1>0, <1>1, <1>2, Outside DEF IInv, Holding
<1>4. job'["replay"] = job["replay"]
  BY <1>0, <1>2, JobNames DEF IInv, ChainInv, ChainType
<1> QED BY <1>1, <1>2, <1>3, <1>4, SameExtends, FileAlone DEF Promise

LEMMA LockPromise == ASSUME IInv, NEW j \in Job, Lock(j) PROVE IInv' /\ Promise
<1>1. ChainInv'
  BY LockStep DEF IInv
<1>2. DataType' /\ MsgInv' /\ chain' = chain /\ lines' = lines /\ told' = told
  BY DEF IInv, DataType, MsgInv, Lock, file, bus
<1>3. job' = [job EXCEPT ![j].pc = "tip"] /\ job[j].pc = "lock"
  BY DEF Lock
<1>4. ReplayChained' \/ job'["replay"] = job["replay"]
  <2>1. CASE j = "replay"
    <3>1. LET b == job["replay"]
              a == job'["replay"]
          IN  a.pc = "tip" /\ a.part = b.part /\ a.evs = b.evs /\ a.rows = b.rows /\ a.line = b.line
      BY <1>3, <2>1 DEF IInv, ChainInv, ChainType, Work
    <3> QED BY <1>2, <1>3, <2>1, <3>1 DEF IInv, ReplayChained, Replayed
  <2>2. CASE j # "replay"
    BY <1>3, <2>2, JobNames DEF IInv, ChainInv, ChainType
  <2> QED BY <2>1, <2>2
<1> QED BY <1>1, <1>2, <1>4, SameExtends, FileAlone DEF Promise

LEMMA ReadTipPromise == ASSUME IInv, NEW j \in Job, ReadTip(j) PROVE IInv' /\ Promise
<1>1. ChainInv'
  BY ReadTipStep DEF IInv
<1>2. DataType' /\ MsgInv' /\ chain' = chain /\ lines' = lines /\ told' = told
  BY DEF IInv, DataType, MsgInv, ReadTip, file, bus
<1>3. job[j].pc = "tip" /\ \A k \in Job : k # j => job'[k] = job[k]
  BY DEF ReadTip, IInv, ChainInv, ChainType
<1>4. LET b == job[j]
          a == job'[j]
      IN  a.pc = "insert" /\ a.part = b.part /\ a.evs = b.evs /\ a.rows = b.rows /\ a.line = b.line
  BY DEF ReadTip, IInv, ChainInv, ChainType, Work
<1>5. ReplayChained' \/ job'["replay"] = job["replay"]
  <2>1. CASE j = "replay"
    BY <1>2, <1>3, <1>4, <2>1 DEF IInv, ReplayChained, Replayed
  <2>2. CASE j # "replay"
    BY <1>3, <2>2, JobNames
  <2> QED BY <2>1, <2>2
<1> QED BY <1>1, <1>2, <1>5, SameExtends, FileAlone DEF Promise

LEMMA InsertPromise == ASSUME IInv, NEW j \in Job, Insert(j) PROVE IInv' /\ Promise
<1>1. ChainInv'
  BY InsertStep DEF IInv
<1>2. DataType' /\ MsgInv' /\ chain' = chain /\ lines' = lines /\ told' = told
  BY DEF IInv, DataType, MsgInv, Insert, file, bus
<1>3. job[j].pc = "insert" /\ \A k \in Job : k # j => job'[k] = job[k]
  BY DEF Insert, IInv, ChainInv, ChainType
<1>4. ReplayChained' \/ job'["replay"] = job["replay"]
  <2>1. CASE j = "replay"
    <3> DEFINE b == job["replay"]
               a == job'["replay"]
               l == Link(b.hash, b.seq + 1, Head(b.evs))
    <3>1. b \in Work /\ "replay" \in Job
      BY JobNames DEF IInv, ChainInv, ChainType
    <3>2. b.pc = "insert" /\ b.part = "core" /\ b.line \in 1..Len(lines) /\ b.rows = <<>>
          /\ b.evs = <<lines[b.line].ev>>
      BY <1>3, <2>1 DEF IInv, ReplayChained, Replayed
    <3>3. Head(b.evs) = lines[b.line].ev /\ Len(b.evs) = 1
      BY <3>2
    <3>4. /\ a.pc = "commit" /\ a.part = b.part /\ a.line = b.line
          /\ a.rows = Append(b.rows, l)
      <4>1. a = [b EXCEPT !.rows = Append(b.rows, l), !.seq = l.seq, !.hash = l.hash,
                   !.evs = Tail(b.evs),
                   !.pc = IF Len(b.evs) = 1 THEN "commit" ELSE "insert"]
        <5> DEFINE c == [b EXCEPT !.rows = Append(b.rows, l), !.seq = l.seq, !.hash = l.hash,
                            !.evs = Tail(b.evs),
                            !.pc = IF Len(b.evs) = 1 THEN "commit" ELSE "insert"]
        <5>1. job' = [job EXCEPT !["replay"] = c]
          BY <2>1 DEF Insert
        <5> HIDE DEF c
        <5>2. job'["replay"] = c
          BY <5>1, <3>1 DEF IInv, ChainInv, ChainType
        <5> QED BY <5>2 DEF c
      <4> DEFINE rows == Append(b.rows, l)
                 rest == Tail(b.evs)
      <4> HIDE DEF l, a, rows, rest
      <4> QED BY <4>1, <3>1, <3>3 DEF Work, rows, rest
    <3>5. a.rows = <<l>> /\ l.id = lines[b.line].ev
      BY <3>2, <3>3, <3>4 DEF Link
    <3>6. lines[b.line].ev \in Ids(a.rows)
      <4> HIDE DEF l, a, b
      <4>1. 1 \in DOMAIN a.rows /\ a.rows[1].id = lines[b.line].ev
        BY <3>5
      <4> QED BY <4>1 DEF Ids
    <3>7. \A k \in 1..Len(lines) : k < b.line => lines[k].ev \in Ids(chain["core"])
      BY <3>2 DEF IInv, ReplayChained, Replayed
    <3> HIDE DEF l
    <3> QED BY <1>2, <3>2, <3>4, <3>6, <3>7 DEF ReplayChained, Replayed
  <2>2. CASE j # "replay"
    BY <1>3, <2>2, JobNames
  <2> QED BY <2>1, <2>2
<1> QED BY <1>1, <1>2, <1>4, SameExtends, FileAlone DEF Promise

\* Transactions end.
LEMMA TransactionEnds ==
  ASSUME IInv, NEW j \in Job, job[j].pc = "commit", Committed(j), Release(j),
         NEW b \in Work, b.pc \in {"idle", "spill", "next"}, Shape(b),
         job' = [job EXCEPT ![j] = b],
         j = "replay" => b.pc = "idle" \/ (b.pc = "next" /\ b.line = job[j].line + 1),
         lines' = lines
  PROVE  ChainInv' /\ Extends /\ ReplayChained' /\ Ids(job[j].rows) \subseteq Chained'
<1>1. ChainInv'
  BY Ended DEF IInv, Holding
<1>2. Extends /\ Ids(job[j].rows) \subseteq Ids(chain'[job[j].part])
  BY CommittedExtends DEF IInv
<1>3. Ids(job[j].rows) \subseteq Chained'
  <2>1. job[j].part \in Partition
    BY DEF IInv, ChainInv, ChainType, Work
  <2> QED BY <1>2, <2>1 DEF Chained
<1>4. ReplayChained'
  <2>1. CASE j # "replay"
    <3>1. job'["replay"] = job["replay"]
      BY <2>1, JobNames DEF IInv, ChainInv, ChainType
    <3>2. LinesKept /\ lines' \in Seq(Line)
      BY DEF LinesKept, IInv, DataType
    <3> QED BY <1>2, <3>1, <3>2, ReplayFrame DEF IInv
  <2>2. CASE j = "replay"
    <3>1. job'["replay"] = b
      BY <2>2, JobNames DEF IInv, ChainInv, ChainType
    <3>2. CASE b.pc = "idle"
      BY <3>1, <3>2 DEF ReplayChained, Replayed
    <3>3. CASE b.pc = "next" /\ b.line = job[j].line + 1
      <4>1. /\ job[j].part = "core" /\ job[j].line \in 1..Len(lines)
            /\ lines[job[j].line].ev \in Ids(job[j].rows)
            /\ \A k \in 1..Len(lines) : k < job[j].line => lines[k].ev \in Ids(chain["core"])
        BY <2>2 DEF IInv, ReplayChained, Replayed
      <4>2. Ids(chain["core"]) \subseteq Ids(chain'["core"])
        BY <1>2, ExtendsIds DEF Partition
      <4>3. b.line \in 1..Len(lines) + 1 /\ Len(lines) \in Nat
        BY <3>3, <4>1 DEF IInv, DataType
      <4>4. ASSUME NEW k \in 1..Len(lines), k < b.line PROVE lines[k].ev \in Ids(chain'["core"])
        <5>1. k < job[j].line \/ k = job[j].line
          BY <3>3, <4>1, <4>3, <4>4
        <5> QED BY <5>1, <1>2, <4>1, <4>2
      <4> QED BY <3>1, <3>3, <4>3, <4>4 DEF ReplayChained, Replayed
    <3> QED BY <2>2, <3>2, <3>3, <3>1 DEF ReplayChained, Replayed
  <2> QED BY <2>1, <2>2
<1> QED BY <1>1, <1>2, <1>3, <1>4

\* What Fail and Succeed do besides.
LEMMA FailData ==
  ASSUME IInv, NEW j, Fail(j)
  PROVE  lines' = lines /\ torn' = torn /\ core' \in {"up", "down"} /\ spool' = spool /\ MsgInv'
<1>1. MsgInv'
  BY NackedMsg DEF Fail, StopReplay, IInv, MsgInv, bus
<1> QED BY <1>1 DEF Fail, StopReplay, file, bus, IInv, DataType

LEMMA SucceedData ==
  ASSUME IInv, NEW j \in Job, job[j].pc = "commit", Succeed(j)
  PROVE  /\ UNCHANGED file /\ spool' = spool /\ MsgInv'
         /\ told \subseteq told' /\ told' \subseteq told \cup Ids(job[j].rows)
         /\ told' \subseteq Event
<1>1. MsgInv'
  BY AckedMsg DEF Succeed, IInv, MsgInv, bus
<1>2. Ids(job[j].rows) \subseteq Event
  <2>1. job[j].rows \in Seq(Row)
    BY DEF IInv, ChainInv, ChainType, Work
  <2>2. \A n \in DOMAIN job[j].rows : job[j].rows[n] \in Row
    BY <2>1, ElementOfSeq, LenProperties
  <2>3. \A x \in Row : x.id \in Event
    BY DEF Row
  <2> QED BY <2>2, <2>3 DEF Ids
<1> QED BY <1>1, <1>2 DEF Succeed, file, bus, IInv, DataType

LEMMA LeftAfter == ASSUME IInv, NEW what \in Budget, Spend(what) PROVE left' \in [Budget -> Nat]
  BY DEF Spend, IInv, DataType

LEMMA CommitStep == ASSUME IInv, NEW j \in Job, Commit(j) PROVE IInv' /\ Promise
<1>0. job[j].pc = "commit" /\ Committed(j) /\ Release(j) /\ Succeed(j)
      /\ UNCHANGED <<world, left, raised>>
  BY DEF Commit
<1>1. /\ UNCHANGED file /\ spool' = spool /\ MsgInv'
      /\ told \subseteq told' /\ told' \subseteq told \cup Ids(job[j].rows)
      /\ told' \subseteq Event
  BY <1>0, SucceedData
<1>2. PICK b \in Work : /\ b.pc \in {"idle", "next"} /\ Shape(b)
                        /\ j = "replay" => b.pc = "next" /\ b.line = job[j].line + 1
                        /\ job' = [job EXCEPT ![j] = b]
  BY <1>0, SucceedWork
<1>3. lines' = lines
  BY <1>1 DEF file
<1>4. ChainInv' /\ Extends /\ ReplayChained' /\ Ids(job[j].rows) \subseteq Chained'
  BY <1>0, <1>2, <1>3, TransactionEnds
<1>5. DataType'
  BY <1>0, <1>1 DEF IInv, DataType, file
<1> QED BY <1>1, <1>3, <1>4, <1>5, FileAlone DEF Promise

LEMMA CommitUnknownStep == ASSUME IInv, NEW j \in Job, CommitUnknown(j) PROVE IInv' /\ Promise
<1>0. job[j].pc = "commit" /\ Committed(j) /\ Release(j) /\ Fail(j) /\ Spend("unknown")
      /\ UNCHANGED <<world, raised, told>>
  BY DEF CommitUnknown
<1>1. lines' = lines /\ torn' = torn /\ core' \in {"up", "down"} /\ spool' = spool /\ MsgInv'
  BY <1>0, FailData
<1>2. PICK b \in Work : /\ b.pc \in {"idle", "spill"} /\ Shape(b)
                        /\ j = "replay" => b.pc = "idle"
                        /\ job' = [job EXCEPT ![j] = b]
  BY <1>0, FailWork DEF IInv, Working
<1>4. ChainInv' /\ Extends /\ ReplayChained'
  BY <1>0, <1>1, <1>2, TransactionEnds
<1>5. DataType'
  BY <1>0, <1>1, LeftAfter DEF IInv, DataType, Budget
<1> QED BY <1>0, <1>1, <1>4, <1>5, FileAlone DEF Promise

LEMMA RolledBack ==
  ASSUME IInv, NEW j \in Job, Release(j), chain' = chain, lines' = lines, told' = told,
         DataType', MsgInv',
         NEW b \in Work, b.pc \in {"idle", "spill"}, Shape(b), j = "replay" => b.pc = "idle",
         job' = [job EXCEPT ![j] = b]
  PROVE  IInv' /\ Promise
<1>1. ChainInv'
  BY GivenUp DEF IInv, Holding
<1>2. ReplayChained' \/ job'["replay"] = job["replay"]
  BY JobNames DEF IInv, ChainInv, ChainType, ReplayChained, Replayed
<1> QED BY <1>1, <1>2, SameExtends, FileAlone DEF Promise

LEMMA StatementFailsStep ==
  ASSUME IInv, NEW j \in Job, StatementFails(j) PROVE IInv' /\ Promise
<1>0. (job[j].pc = "exists" \/ Working(j)) /\ Release(j) /\ Fail(j) /\ Spend("faults")
      /\ UNCHANGED <<world, chain, raised, told>>
  BY DEF StatementFails
<1>1. lines' = lines /\ torn' = torn /\ core' \in {"up", "down"} /\ spool' = spool /\ MsgInv'
  BY <1>0, FailData
<1>2. PICK b \in Work : /\ b.pc \in {"idle", "spill"} /\ Shape(b)
                        /\ j = "replay" => b.pc = "idle"
                        /\ job' = [job EXCEPT ![j] = b]
  BY <1>0, FailWork DEF IInv
<1>5. DataType'
  BY <1>0, <1>1, LeftAfter DEF IInv, DataType, Budget
<1> QED BY <1>0, <1>1, <1>2, <1>5, RolledBack

LEMMA DuplicateStep == ASSUME IInv, Duplicate PROVE IInv' /\ Promise
<1>1. "replay" \in Job /\ job' = [job EXCEPT !["replay"] = Idle] /\ Release("replay")
      /\ chain' = chain /\ lines' = lines /\ told' = told
  BY JobNames DEF Duplicate, StopReplay
<1>2. DataType' /\ MsgInv'
  BY DEF Duplicate, StopReplay, IInv, DataType, MsgInv, bus
<1> QED BY <1>1, <1>2, IdleIsWork, RolledBack

\* A job that is in no transaction changes its work.
LEMMA Aside ==
  ASSUME IInv, NEW j \in Job, job[j].pc \notin Holding,
         NEW b \in Work, b.pc \notin Holding, Shape(b), job' = [job EXCEPT ![j] = b],
         j = "replay" => Replayed(b)',
         chain' = chain, lock' = lock, DataType', MsgInv',
         LinesKept \/ j = "replay"
  PROVE  IInv' /\ Extends
<1>1. ChainInv'
  BY Outside DEF IInv
<1>2. job'["replay"] = IF j = "replay" THEN b ELSE job["replay"]
  BY JobNames DEF IInv, ChainInv, ChainType
<1>3. ReplayChained'
  <2>1. CASE j = "replay"
    BY <1>2, <2>1 DEF ReplayChained
  <2>2. CASE j # "replay"
    <3>1. lines' \in Seq(Line)
      BY DEF DataType
    <3> QED BY <1>2, <2>2, <3>1, SameExtends, ReplayFrame DEF IInv
  <2> QED BY <2>1, <2>2
<1> QED BY <1>1, <1>3, SameExtends DEF IInv

LEMMA SpilledFile ==
  ASSUME IInv, NEW e \in Event, Spilled(e)
  PROVE  lines' \in Seq(Line) /\ LinesKept /\ OnDisk \subseteq OnDisk' /\ e \in OnDisk'
         /\ torn' \in BOOLEAN
<1> DEFINE x == [ev |-> e, parses |-> ~torn]
<1>1. lines' = Append(lines, x) /\ torn' = FALSE
  BY DEF Spilled
<1>2. x \in Line /\ x.ev = e /\ lines \in Seq(Line)
  BY DEF Line, IInv, DataType
<1> HIDE DEF x
<1>3. lines' \in Seq(Line) /\ Len(lines') = Len(lines) + 1 /\ lines'[Len(lines) + 1] = x
      /\ \A k \in 1..Len(lines) : lines'[k] = lines[k]
  BY <1>1, <1>2
<1>4. DOMAIN lines = 1..Len(lines) /\ DOMAIN lines' = 1..Len(lines) + 1 /\ Len(lines) \in Nat
  BY <1>2, <1>3
<1>5. LinesKept
  BY <1>3, <1>4 DEF LinesKept
<1>6. OnDisk \subseteq OnDisk'
  BY <1>3, <1>4 DEF OnDisk
<1>7. Len(lines) + 1 \in DOMAIN lines' /\ lines'[Len(lines) + 1].ev = e
  BY <1>2, <1>3, <1>4
<1>8. e \in OnDisk'
  BY <1>7 DEF OnDisk
<1> QED BY <1>1, <1>3, <1>5, <1>6, <1>8

LEMMA SpillEvent ==
  ASSUME IInv, NEW j \in Logger, job[j].pc = "spill"
  PROVE  j \in Job /\ j # "replay" /\ job[j].pc \notin Holding /\ job[j].evs[1] \in Event
<1>1. j \in Job /\ j # "replay"
  BY JobNames, Distinct
<1>2. job[j].evs \in Seq(Event) /\ job[j].evs # <<>>
  BY <1>1 DEF IInv, ChainInv, ChainType, Work, Writing, Shape
<1> QED BY <1>1, <1>2 DEF Holding

LEMMA SpillStep == ASSUME IInv, NEW j \in Logger, Spill(j) PROVE IInv' /\ Promise
<1> DEFINE e == job[j].evs[1]
<1>1. j \in Job /\ j # "replay" /\ job[j].pc \notin Holding /\ e \in Event
  BY SpillEvent DEF Spill
<1>2. /\ Spilled(e) /\ told' = told \cup {e} /\ job' = [job EXCEPT ![j] = Idle]
      /\ UNCHANGED <<world, left, chain, lock, core, raised, bus>>
  BY DEF Spill
<1> HIDE DEF e
<1>3. lines' \in Seq(Line) /\ LinesKept /\ OnDisk \subseteq OnDisk' /\ e \in OnDisk'
      /\ torn' \in BOOLEAN
  BY <1>1, <1>2, SpilledFile
<1>4. DataType' /\ MsgInv'
  BY <1>1, <1>2, <1>3 DEF IInv, DataType, MsgInv, bus
<1>5. IInv' /\ Extends
  BY <1>1, <1>2, <1>3, <1>4, IdleIsWork, Aside
<1> QED BY <1>2, <1>3, <1>5 DEF Promise

LEMMA SpillFailsStep == ASSUME IInv, NEW j \in Logger, SpillFails(j) PROVE IInv' /\ Promise
<1> DEFINE e == job[j].evs[1]
<1>1. j \in Job /\ j # "replay" /\ job[j].pc \notin Holding /\ e \in Event
  BY SpillEvent DEF SpillFails
<1>2. /\ Spend("tears") /\ job' = [job EXCEPT ![j] = Idle]
      /\ (torn' = TRUE /\ lines' = lines) \/ Spilled(e)
      /\ UNCHANGED <<world, chain, lock, core, raised, told, bus>>
  BY DEF SpillFails
<1> HIDE DEF e
<1>3. lines' \in Seq(Line) /\ LinesKept /\ OnDisk \subseteq OnDisk' /\ torn' \in BOOLEAN
  <2>1. CASE Spilled(e)
    BY <1>1, <2>1, SpilledFile
  <2>2. CASE torn' = TRUE /\ lines' = lines
    BY <2>2 DEF LinesKept, OnDisk, IInv, DataType
  <2> QED BY <1>2, <2>1, <2>2
<1>4. DataType' /\ MsgInv'
  BY <1>1, <1>2, <1>3, LeftAfter DEF IInv, DataType, MsgInv, bus, Budget
<1>5. IInv' /\ Extends
  BY <1>1, <1>2, <1>3, <1>4, IdleIsWork, Aside
<1> QED BY <1>2, <1>3, <1>5 DEF Promise

LEMMA StartStep == ASSUME IInv, Start PROVE IInv' /\ Promise
<1> DEFINE b == At("next", "core", <<>>, 1)
<1>1. "replay" \in Job /\ job["replay"].pc = "idle" /\ job' = [job EXCEPT !["replay"] = b]
      /\ UNCHANGED <<world, left, chain, lock, file, raised, told, bus>>
  BY JobNames DEF Start
<1>2. b \in Work /\ b.pc = "next" /\ b.line = 1 /\ Shape(b)
  BY NextIsWork
<1> HIDE DEF b
<1>3. DataType' /\ MsgInv' /\ lines' = lines /\ OnDisk' = OnDisk
  BY <1>1 DEF IInv, DataType, MsgInv, file, bus, OnDisk
<1>4. Replayed(b)'
  BY <1>2, <1>3 DEF Replayed, IInv, DataType
<1>5. IInv' /\ Extends
  BY <1>1, <1>2, <1>3, <1>4, Aside DEF Holding
<1> QED BY <1>1, <1>3, <1>5 DEF Promise

\* The replay stops where it is; nothing is written.
LEMMA StopReplayStep ==
  ASSUME IInv, job["replay"].pc = "next", StopReplay,
         UNCHANGED <<world, left, chain, lock, raised, told, bus>>
  PROVE  IInv' /\ Promise
<1>1. "replay" \in Job /\ job' = [job EXCEPT !["replay"] = Idle] /\ lines' = lines
      /\ chain' = chain /\ lock' = lock /\ told' = told
  BY JobNames DEF StopReplay
<1>2. DataType' /\ MsgInv' /\ OnDisk' = OnDisk
  BY <1>1 DEF StopReplay, IInv, DataType, MsgInv, bus, OnDisk
<1>3. Replayed(Idle)'
  BY IdleIsWork DEF Replayed, Idle, At
<1>4. IInv' /\ Extends
  BY <1>1, <1>2, <1>3, IdleIsWork, Aside DEF Holding
<1> QED BY <1>1, <1>2, <1>4 DEF Promise

LEMMA ReplayLineStep == ASSUME IInv, ReplayLine PROVE IInv' /\ Promise
<1> DEFINE k == job["replay"].line
           s == <<lines[k].ev>>
           b == At("lock", "core", s, k)
<1>0. job["replay"].pc = "next" /\ k \in DOMAIN lines
      /\ UNCHANGED <<world, left, chain, lock, raised, told, bus>>
  BY DEF ReplayLine
<1>1. CASE ~lines[k].parses
  BY <1>0, <1>1, StopReplayStep DEF ReplayLine
<1>2. CASE lines[k].parses
  <2>1. "replay" \in Job /\ job' = [job EXCEPT !["replay"] = b] /\ UNCHANGED file
    BY <1>2, JobNames DEF ReplayLine
  <2>2. k \in 1..Len(lines) /\ lines[k].ev \in Event /\ k \in Nat
    <3>1. lines \in Seq(Line)
      BY DEF IInv, DataType
    <3>2. k \in 1..Len(lines) /\ lines[k] \in Line
      BY <1>0, <3>1
    <3> QED BY <3>2 DEF Line
  <2>3. s \in Seq(Event) /\ s # <<>> /\ "lock" \in Phase /\ "core" \in Partition
    BY <2>2 DEF Phase, Partition
  <2>4. b \in Work /\ b.pc = "lock" /\ b.part = "core" /\ b.evs = s /\ b.rows = <<>> /\ b.line = k
    <3> HIDE DEF s, k
    <3> QED BY <2>2, <2>3, AtIsWork
  <2>a. PICK c \in Work : c = b
    BY <2>4
  <2> HIDE DEF b
  <2>5. Shape(c)
    BY <2>3, <2>4, <2>a DEF Shape
  <2>6. DataType' /\ MsgInv' /\ lines' = lines /\ OnDisk' = OnDisk
    BY <1>0, <2>1 DEF IInv, DataType, MsgInv, file, bus, OnDisk
  <2>7. \A n \in 1..Len(lines) : n < k => lines[n].ev \in Ids(chain["core"])
    BY <1>0 DEF IInv, ReplayChained, Replayed
  <2>8. Replayed(c)'
    BY <1>0, <2>2, <2>4, <2>6, <2>7, <2>a DEF Replayed, IInv, DataType
  <2>9. IInv' /\ Extends
    BY <1>0, <2>1, <2>4, <2>5, <2>6, <2>8, <2>a, Aside DEF Holding
  <2> QED BY <1>0, <2>6, <2>9 DEF Promise
<1> QED BY <1>1, <1>2

LEMMA TruncateStep == ASSUME IInv, Truncate PROVE IInv' /\ Promise
<1>0. /\ "replay" \in Job /\ job["replay"].pc = "next" /\ job["replay"].line > Len(lines)
      /\ job' = [job EXCEPT !["replay"] = Idle] /\ core' = "up"
      /\ UNCHANGED <<world, chain, lock, raised, told, bus>>
  BY JobNames DEF Truncate
<1>1. lines' \in Seq(Line) /\ torn' \in BOOLEAN /\ left' \in [Budget -> Nat]
  <2>1. <<>> \in Seq(Line) /\ lines \in Seq(Line) /\ torn \in BOOLEAN /\ left \in [Budget -> Nat]
    BY DEF IInv, DataType
  <2>2. /\ lines' = <<>> \/ lines' = lines
        /\ torn' = torn \/ torn' = (torn /\ lines = <<>>)
        /\ left' = left \/ Spend("tears")
    BY DEF Truncate
  <2> QED BY <2>1, <2>2, LeftAfter DEF Budget
<1>2. DataType' /\ MsgInv'
  BY <1>0, <1>1 DEF IInv, DataType, MsgInv, bus
<1>3. Replayed(Idle)'
  BY IdleIsWork DEF Replayed, Idle, At
<1>4. IInv' /\ Extends
  BY <1>0, <1>2, <1>3, IdleIsWork, Aside DEF Holding
<1>5. OnDisk \subseteq Chained'
  <2>1. \A k \in DOMAIN lines : lines[k].ev \in Ids(chain["core"])
    BY <1>0 DEF IInv, ReplayChained, Replayed, DataType
  <2>2. Ids(chain["core"]) \subseteq Chained'
    BY <1>0 DEF Chained, Partition
  <2> QED BY <2>1, <2>2 DEF OnDisk
<1> QED BY <1>0, <1>4, <1>5 DEF Promise

\* A step of the spool or the bus alone.
LEMMA Apart ==
  ASSUME IInv, UNCHANGED <<chain, lock, job, lines, told>>, DataType', MsgInv'
  PROVE  IInv' /\ Promise
<1>1. ChainInv'
  BY DEF IInv, ChainInv, ChainType, LockHeld, Writing, ChainIntact
<1> QED BY <1>1, SameExtends, FileAlone DEF Promise

LEMMA SpoolType ==
  ASSUME IInv, NEW r \in world.rows
  PROVE  spool[r] \in SpoolRow /\ <<r, spool[r].sent + 1>> \in Event
<1>1. r \in Source
  BY ScenarioAssumption DEF IInv, DataType
<1>2. spool[r] \in SpoolRow
  BY DEF IInv, DataType
<1> QED BY <1>1, <1>2 DEF SpoolRow, Event

LEMMA EmitStep == ASSUME IInv, NEW r \in world.rows, Emit(r) PROVE IInv' /\ Promise
<1>1. DataType'
  BY SpoolType DEF IInv, DataType, Emit, file, SpoolRow
<1>2. MsgInv'
  BY DEF IInv, MsgInv, Emit
<1> QED BY <1>1, <1>2, Apart DEF Emit, file

LEMMA PublishStep == ASSUME IInv, NEW r \in world.rows, Publish(r) PROVE IInv' /\ Promise
<1> DEFINE m == <<r, spool[r].sent + 1>>
           new == [status |-> "queued", left |-> MaxDeliver]
<1>1. m \in Event /\ spool[r] \in SpoolRow
  BY SpoolType
<1>2. new \in Delivery /\ new.left > 0
  BY MaxDeliverAssumption DEF Delivery
<1>3. msg' = [k \in DOMAIN msg \cup {m} |-> IF k \in DOMAIN msg THEN msg[k] ELSE new]
  BY DEF Publish
<1>4. MsgInv'
  <2> HIDE DEF m, new
  <2>1. DOMAIN msg' = DOMAIN msg \cup {m} /\ \A k \in DOMAIN msg' : msg'[k] = IF k \in DOMAIN msg THEN msg[k] ELSE new
    BY <1>3
  <2> QED BY <1>1, <1>2, <2>1 DEF IInv, MsgInv
<1>5. DataType'
  <2>1. left' \in [Budget -> Nat]
    BY LeftAfter DEF Publish, IInv, DataType, Budget
  <2>2. /\ [spool[r] EXCEPT !.sent = @ + 1] \in SpoolRow
        /\ [status |-> "mark", sent |-> spool[r].sent + 1] \in SpoolRow
    BY <1>1 DEF SpoolRow
  <2>3. \/ spool' = [spool EXCEPT ![r] = [spool[r] EXCEPT !.sent = @ + 1]]
        \/ spool' = [spool EXCEPT ![r] = [status |-> "mark", sent |-> spool[r].sent + 1]]
    BY DEF Publish, IInv, DataType
  <2>4. spool' \in [world.rows -> SpoolRow]
    BY <2>2, <2>3 DEF IInv, DataType
  <2> QED BY <2>1, <2>4 DEF Publish, IInv, DataType, file
<1> QED BY <1>4, <1>5, Apart DEF Publish, file

LEMMA MarkStep == ASSUME IInv, NEW r \in world.rows, Mark(r) PROVE IInv' /\ Promise
<1>1. left' \in [Budget -> Nat]
  BY LeftAfter DEF Mark, IInv, DataType, Budget
<1>2. spool' \in [world.rows -> SpoolRow]
  <2>1. /\ [spool[r] EXCEPT !.status = "forwarded"] \in SpoolRow
        /\ [spool[r] EXCEPT !.status = "pending"] \in SpoolRow
    BY SpoolType DEF SpoolRow
  <2>2. \/ spool' = [spool EXCEPT ![r] = [spool[r] EXCEPT !.status = "forwarded"]]
        \/ spool' = [spool EXCEPT ![r] = [spool[r] EXCEPT !.status = "pending"]]
    BY DEF Mark, IInv, DataType
  <2> QED BY <2>1, <2>2 DEF IInv, DataType
<1>3. DataType' /\ MsgInv'
  BY <1>1, <1>2 DEF Mark, IInv, DataType, MsgInv, file
<1> QED BY <1>3, Apart DEF Mark, file

LEMMA AckLostStep == ASSUME IInv, NEW m \in DOMAIN msg, AckLost(m) PROVE IInv' /\ Promise
<1>1. DataType'
  BY LeftAfter DEF AckLost, IInv, DataType, Budget, file
<1>2. MsgInv'
  <2>1. msg' = [msg EXCEPT ![m].status = "queued"] /\ msg[m].left > 0
    BY DEF AckLost
  <2> QED BY <2>1 DEF IInv, MsgInv, Delivery
<1> QED BY <1>1, <1>2, Apart DEF AckLost, file

LEMMA DiscoverCrashStep == ASSUME IInv, DiscoverCrash PROVE IInv' /\ Promise
<1>1. spool' \in [world.rows -> SpoolRow]
  <2>1. \A r \in world.rows : (IF spool[r].status = "mark"
           THEN [spool[r] EXCEPT !.status = "pending"] ELSE spool[r]) \in SpoolRow
    BY DEF IInv, DataType, SpoolRow
  <2> QED BY <2>1 DEF DiscoverCrash
<1>2. DataType'
  BY <1>1, LeftAfter DEF DiscoverCrash, IInv, DataType, Budget, Process, file
<1>3. MsgInv'
  BY DEF DiscoverCrash, IInv, MsgInv
<1> QED BY <1>2, <1>3, Apart DEF DiscoverCrash, file

LEMMA CoreCrashStep ==
  ASSUME IInv, NEW C \in SUBSET Job, CoreCrash(C) PROVE IInv' /\ Promise
<1>1. Logger \cup {"replay"} \in SUBSET Job /\ Dies(Logger \cup {"replay"}, C)
  BY JobNames DEF CoreCrash
<1>2. ChainInv' /\ Extends
  BY <1>1, Crashed, DiesExtends DEF IInv
<1>3. DataType' /\ MsgInv'
  BY LeftAfter DEF CoreCrash, IInv, DataType, MsgInv, Budget, Process, bus
<1>4. job'["replay"] = Idle
  BY <1>1, JobNames DEF Dies
<1>5. ReplayChained'
  BY <1>4, IdleIsWork DEF ReplayChained, Replayed
<1> QED BY <1>2, <1>3, <1>5, FileAlone DEF CoreCrash, Promise

LEMMA GatekeeperCrashStep ==
  ASSUME IInv, NEW C \in SUBSET Job, GatekeeperCrash(C) PROVE IInv' /\ Promise
<1>1. Caller \cup {"consumer"} \in SUBSET Job /\ Dies(Caller \cup {"consumer"}, C)
  BY JobNames DEF GatekeeperCrash
<1>2. ChainInv' /\ Extends
  BY <1>1, Crashed, DiesExtends DEF IInv
<1>3. MsgInv'
  BY NackedMsg DEF GatekeeperCrash, IInv
<1>4. DataType'
  BY LeftAfter DEF GatekeeperCrash, IInv, DataType, Budget, Process, file
<1>5. job'["replay"] = job["replay"]
  BY <1>1, JobNames, Distinct DEF Dies
<1> QED BY <1>2, <1>3, <1>4, <1>5, FileAlone DEF GatekeeperCrash, file, Promise

LEMMA InitHolds == Init => IInv
<1> SUFFICES ASSUME Init PROVE IInv
  OBVIOUS
<1>1. <<>> \in Seq(Row) /\ <<>> \in Seq(Line)
  OBVIOUS
<1>2. ChainType
  BY <1>1, IdleIsWork DEF Init, ChainType
<1>3. LockHeld
  BY JobNames, IdleIsWork DEF Init, LockHeld
<1>4. Writing
  BY IdleIsWork DEF Init, Writing, Continues, Holding
<1>5. ChainIntact
  BY DEF Init, ChainIntact, Intact
<1>6. DataType
  BY <1>1, ScenarioAssumption DEF Init, DataType, SpoolRow
<1>7. MsgInv
  BY DEF Init, MsgInv
<1>8. ReplayChained
  BY JobNames, IdleIsWork DEF Init, ReplayChained, Replayed
<1> QED BY <1>2, <1>3, <1>4, <1>5, <1>6, <1>7, <1>8 DEF IInv, ChainInv

LEMMA StepHolds == IInv /\ [Next]_vars => IInv' /\ Promise
<1> SUFFICES ASSUME IInv, [Next]_vars PROVE IInv' /\ Promise
  OBVIOUS
<1>1. CASE UNCHANGED vars
  <2>1. DataType' /\ MsgInv'
    BY <1>1 DEF vars, IInv, DataType, MsgInv
  <2> QED BY <1>1, <2>1, Apart DEF vars
<1>2. ASSUME NEW j \in Job, Transaction(j) PROVE IInv' /\ Promise
  BY <1>2, LockPromise, ReadTipPromise, InsertPromise, CommitStep DEF Transaction
<1>3. CASE Writers
  BY <1>3, LogEventStep, RecordBatchStep, SpillStep DEF Writers
<1>4. CASE Consumer
  BY <1>4, ConsumeStep, ExistsStep DEF Consumer
<1>5. CASE Replay
  BY <1>5, StartStep, ReplayLineStep, DuplicateStep, TruncateStep DEF Replay
<1>6. CASE Forwarder
  BY <1>6, EmitStep, PublishStep, MarkStep DEF Forwarder, Forward
<1>7. CASE Faults
  BY <1>7, CommitUnknownStep, StatementFailsStep, SpillFailsStep, AckLostStep,
     CoreCrashStep, GatekeeperCrashStep, DiscoverCrashStep DEF Faults
<1> QED BY <1>1, <1>2, <1>3, <1>4, <1>5, <1>6, <1>7 DEF Next

LEMMA Invariant == Spec => []IInv
<1>1. Init => IInv
  BY InitHolds
<1>2. IInv /\ [Next]_vars => IInv'
  BY StepHolds
<1> QED BY <1>1, <1>2, PTL DEF Spec

-----------------------------------------------------------------------------
(* Theorems.                                                               *)

(* Every row, job, line and message of the trail is what it should be, and *)
(* no message of audit.events is delivered more than MaxDeliver times.     *)
THEOREM TypeCorrect == Spec => []TypeOK
  BY Invariant, InvImplies, PTL

(* VerifyChain and VerifyRange find every chain valid at every moment: the *)
(* advisory lock orders the writers of a partition, and neither a failing  *)
(* statement, a commit without an answer nor a crash leaves a gap or a     *)
(* link to something else than its predecessor.                            *)
THEOREM ChainsStayIntact == Spec => []ChainIntact
  BY Invariant, InvImplies, PTL

LEMMA EventsOf ==
  ASSUME NEW ch
  PROVE  LET log == [p \in Partition |-> [n \in DOMAIN ch[p] |-> ch[p][n].id]]
         IN  UNION {{log[p][n] : n \in DOMAIN log[p]} : p \in Partition}
               = UNION {Ids(ch[p]) : p \in Partition}
<1> DEFINE log == [p \in Partition |-> [n \in DOMAIN ch[p] |-> ch[p][n].id]]
           these == UNION {{log[p][n] : n \in DOMAIN log[p]} : p \in Partition}
           those == UNION {Ids(ch[p]) : p \in Partition}
<1>1. ASSUME NEW p \in Partition
      PROVE  DOMAIN log[p] = DOMAIN ch[p] /\ \A n \in DOMAIN ch[p] : log[p][n] = ch[p][n].id
  <2>1. log[p] = [n \in DOMAIN ch[p] |-> ch[p][n].id]
    OBVIOUS
  <2> HIDE DEF log
  <2> QED BY <2>1
<1> HIDE DEF log
<1>2. \A e : e \in these <=> \E p \in Partition : \E n \in DOMAIN log[p] : e = log[p][n]
  OBVIOUS
<1>3. \A e : e \in those <=> \E p \in Partition : \E n \in DOMAIN ch[p] : e = ch[p][n].id
  BY DEF Ids
<1> HIDE DEF these, those
<1>4. \A e : e \in these <=> e \in those
  BY <1>1, <1>2, <1>3
<1>5. these = those
  BY <1>4
<1> QED BY <1>5 DEF these, those, log

LEMMA LoggedIsChained == AL!Logged = Chained /\ AL!Logged' = Chained'
  BY EventsOf DEF AL!Logged, Chained

LEMMA PromiseIsStep == Promise => AL!Next
<1> SUFFICES ASSUME Promise PROVE AL!Next
  OBVIOUS
<1> DEFINE log == [p \in Partition |-> [n \in DOMAIN chain[p] |-> chain[p][n].id]]
<1>1. AL!Grow
  <2>1. ASSUME NEW p \in Partition, NEW n \in DOMAIN chain[p]
        PROVE  n \in DOMAIN chain'[p] /\ chain'[p][n].id = chain[p][n].id
    BY DEF Promise, Extends
  <2> QED BY <2>1 DEF AL!Grow
<1>3. AL!Logged' = Chained'
  BY LoggedIsChained
<1>4. AL!Settle /\ AL!Tell
  BY <1>3 DEF AL!Settle, AL!Tell, Promise
<1> QED BY <1>1, <1>4 DEF AL!Next

(* The trail implements AuditLog: chains only grow, a spilled event is     *)
(* given up only once it is chained, and Log and RecordBatch report as     *)
(* durable only what is in a chain or on disk.                             *)
THEOREM AuditImplementsAuditLog == Spec => ImplementsAuditLog
<1>1. Init => AL!Init
  BY DEF Init, AL!Init, OnDisk
<1>2. IInv /\ [Next]_vars => [AL!Next]_AL!vars
  BY StepHolds, PromiseIsStep
<1> QED BY <1>1, <1>2, Invariant, PTL DEF Spec, ImplementsAuditLog, AL!Spec

(* An event that Log, the dispatch path or a caller of Record was told is  *)
(* durable is in a chain or in the spill file for ever after.              *)
THEOREM ToldEventsAreKept == Spec => []AL!ToldIsKept
<1>1. AL!Init => AL!ToldIsKept
  BY DEF AL!Init, AL!ToldIsKept
<1>2. AL!ToldIsKept /\ [AL!Next]_AL!vars => AL!ToldIsKept'
  <2> SUFFICES ASSUME AL!ToldIsKept, [AL!Next]_AL!vars PROVE AL!ToldIsKept'
    OBVIOUS
  <2>1. CASE AL!Next
    <3>1. AL!Logged \subseteq AL!Logged'
      <4> DEFINE log == [p \in Partition |-> [n \in DOMAIN chain[p] |-> chain[p][n].id]]
      <4>1. \A p \in Partition : \A n \in DOMAIN log[p] : n \in DOMAIN log'[p] /\ log'[p][n] = log[p][n]
        BY <2>1 DEF AL!Next, AL!Grow
      <4>2. /\ AL!Logged = UNION {{log[p][n] : n \in DOMAIN log[p]} : p \in Partition}
            /\ AL!Logged' = UNION {{log'[p][n] : n \in DOMAIN log'[p]} : p \in Partition}
        BY DEF AL!Logged
      <4> HIDE DEF log
      <4> QED BY <4>1, <4>2
    <3> QED BY <2>1, <3>1 DEF AL!Next, AL!Settle, AL!Tell, AL!ToldIsKept
  <2>2. CASE UNCHANGED AL!vars
    BY <2>2 DEF AL!vars, AL!ToldIsKept, AL!Logged
  <2> QED BY <2>1, <2>2
<1> QED BY <1>1, <1>2, AuditImplementsAuditLog, PTL DEF ImplementsAuditLog, AL!Spec
-----------------------------------------------------------------------------
(* Chained once.  platform.audit_events is written by Log and the replay,  *)
(* one event at a time, and refuses an id it has; the gatekeeper's         *)
(* platform partition is written by the consumer alone, which has looked   *)
(* (Exists) before it locks: what it found stays true until it commits.    *)

Desk(j) == CASE j = "consumer" -> "platform" [] j \in Caller -> "org" [] OTHER -> "core"

InHand == {"exists", "lock", "tip", "insert", "commit"}

Single(b) == /\ b.pc \in {"exists", "lock", "tip", "insert"} => Len(b.evs) = 1 /\ b.rows = <<>>
             /\ b.pc = "commit" => Len(b.rows) = 1

Alone(j, b) == b.pc \in InHand => b.part = Desk(j) /\ (b.part # "org" => Single(b))

Fresh(b, rows) == b.part # "org" =>
  /\ b.pc = "commit" => b.rows[1].id \notin Ids(rows)
  /\ b.part = "platform" /\ b.pc \in {"lock", "tip", "insert"} => b.evs[1] \notin Ids(rows)

Unique(rows) == \A k, n \in DOMAIN rows : rows[k].id = rows[n].id => k = n

OnceInv == /\ ChainedOnce
           /\ \A j \in Job : Alone(j, job[j]) /\ Fresh(job[j], chain[job[j].part])

LEMMA DeskCases ==
  /\ Desk("consumer") = "platform" /\ Desk("replay") = "core"
  /\ \A j \in Logger : Desk(j) = "core"
  /\ \A j \in Caller : Desk(j) = "org"
  /\ \A j \in Job : Desk(j) = "platform" => j = "consumer"
<1>1. "replay" # "consumer" /\ "replay" \notin Caller
  BY Distinct
<1>2. \A j \in Logger : j # "consumer" /\ j \notin Caller
  BY JobsAreDistinct
<1>3. \A j \in Caller : j # "consumer"
  BY JobsAreDistinct
<1> QED BY <1>1, <1>2, <1>3 DEF Desk

LEMMA UniqueAppend ==
  ASSUME NEW s \in Seq(Row), NEW t \in Seq(Row), Unique(s), Len(t) = 1, t[1].id \notin Ids(s)
  PROVE  Unique(s \o t)
<1>0. /\ s \o t \in Seq(Row) /\ Len(s \o t) = Len(s) + Len(t)
      /\ \A i \in 1..Len(s) + Len(t) : (s \o t)[i] = IF i <= Len(s) THEN s[i] ELSE t[i - Len(s)]
  BY ConcatProperties
<1>1. /\ s \o t \in Seq(Row) /\ Len(s \o t) = Len(s) + 1
      /\ \A i \in 1..Len(s) + 1 : (s \o t)[i] = IF i <= Len(s) THEN s[i] ELSE t[i - Len(s)]
  BY <1>0
<1>2. DOMAIN s = 1..Len(s) /\ DOMAIN (s \o t) = 1..Len(s) + 1 /\ Len(s) \in Nat
  BY <1>1
<1> DEFINE u == s \o t
           n == Len(s)
<1>3. \A i \in 1..n : u[i] = s[i]
  BY <1>1, <1>2
<1>4. u[n + 1] = t[1]
  BY <1>1, <1>2
<1>5. \A i \in 1..n : s[i].id # t[1].id
  BY <1>2 DEF Ids
<1> HIDE DEF u
<1>6. \A i, k \in 1..n : s[i].id = s[k].id => i = k
  BY <1>2 DEF Unique
<1>7. ASSUME NEW i \in 1..n + 1, NEW k \in 1..n + 1, u[i].id = u[k].id PROVE i = k
  <2>1. (i \in 1..n \/ i = n + 1) /\ (k \in 1..n \/ k = n + 1)
    BY <1>2
  <2>2. CASE i \in 1..n /\ k \in 1..n
    BY <2>2, <1>3, <1>6, <1>7
  <2>3. CASE i \in 1..n /\ k = n + 1
    BY <2>3, <1>3, <1>4, <1>5, <1>7
  <2>4. CASE i = n + 1 /\ k \in 1..n
    BY <2>4, <1>3, <1>4, <1>5, <1>7
  <2> QED BY <2>1, <2>2, <2>3, <2>4
<1> QED BY <1>2, <1>7 DEF Unique, u

LEMMA OnceIsUnique == ChainedOnce <=> Unique(chain["core"]) /\ Unique(chain["platform"])
  BY DEF ChainedOnce, Unique

\* The work of j becomes b; nothing is committed.
LEMMA OnceWork ==
  ASSUME IInv, OnceInv, NEW j \in Job, NEW b, job' = [job EXCEPT ![j] = b], chain' = chain,
         Alone(j, b), Fresh(b, chain[b.part])
  PROVE  OnceInv'
<1>1. \A k \in Job : job'[k] = IF k = j THEN b ELSE job[k]
  BY DEF IInv, ChainInv, ChainType
<1>2. ChainedOnce'
  BY DEF OnceInv, ChainedOnce
<1>3. ASSUME NEW k \in Job PROVE Alone(k, job'[k]) /\ Fresh(job'[k], chain'[job'[k].part])
  BY <1>1 DEF OnceInv
<1> QED BY <1>2, <1>3 DEF OnceInv

\* ... to nothing that is about to be chained.
LEMMA OnceLeaves ==
  ASSUME IInv, OnceInv, NEW j \in Job, NEW b, job' = [job EXCEPT ![j] = b], chain' = chain,
         b.pc \notin InHand
  PROVE  OnceInv'
  BY OnceWork DEF Alone, Fresh, InHand

LEMMA OnceFrame ==
  ASSUME OnceInv, job' = job, chain' = chain PROVE OnceInv'
<1>1. ChainedOnce'
  BY DEF OnceInv, ChainedOnce
<1> QED BY <1>1 DEF OnceInv

\* What the rows of a job ready to commit add to its partition.
LEMMA ReadyRows ==
  ASSUME IInv, OnceInv, NEW j \in Job, job[j].pc = "commit"
  PROVE  /\ job[j].part \in Partition /\ job[j].part = Desk(j)
         /\ \A k \in Job : k # j /\ job[k].part = job[j].part => job[k].pc \notin Holding
         /\ job[j].part # "org" => Unique(chain[job[j].part] \o job[j].rows)
<1>1. job[j] \in Work /\ job[j].part \in Partition /\ job[j].rows \in Seq(Row)
      /\ chain[job[j].part] \in Seq(Row)
  BY DEF IInv, ChainInv, ChainType, Work
<1>2. Alone(j, job[j]) /\ Fresh(job[j], chain[job[j].part])
  BY DEF OnceInv
<1>3. ASSUME NEW k \in Job, k # j, job[k].part = job[j].part PROVE job[k].pc \notin Holding
  BY <1>1, <1>3 DEF IInv, ChainInv, LockHeld, Holding
<1>4. ASSUME job[j].part # "org" PROVE Unique(chain[job[j].part] \o job[j].rows)
  <2>1. Len(job[j].rows) = 1 /\ job[j].rows[1].id \notin Ids(chain[job[j].part])
    BY <1>2, <1>4 DEF Alone, Fresh, Single, InHand
  <2>2. Unique(chain[job[j].part])
    BY <1>1, <1>4, OnceIsUnique DEF OnceInv, Partition
  <2> QED BY <1>1, <2>1, <2>2, UniqueAppend
<1> QED BY <1>1, <1>2, <1>3, <1>4 DEF Alone, InHand

\* The chain of j's partition changed by its commit: the rest keeps its promise.
LEMMA OthersFresh ==
  ASSUME IInv, OnceInv, NEW p \in Partition, NEW j \in Job, job[j].pc = "commit",
         job[j].part = p, NEW k \in Job, k # j, job[k].part = p
  PROVE  \A rows : Fresh(job[k], rows)
<1>1. job[k].pc # "commit" /\ p = Desk(j)
  BY ReadyRows DEF Holding
<1>2. ASSUME p = "platform", job[k].pc \in InHand PROVE FALSE
  <2>1. Alone(k, job[k])
    BY DEF OnceInv
  <2> QED BY <1>1, <1>2, <2>1, DeskCases DEF Alone
<1> QED BY <1>1, <1>2 DEF Fresh, InHand

LEMMA OnceEnded ==
  ASSUME IInv, OnceInv, NEW j \in Job, job[j].pc = "commit", Committed(j),
         NEW b, b.pc \notin InHand, job' = [job EXCEPT ![j] = b]
  PROVE  OnceInv'
<1> DEFINE q == job[j].part
<1>1. \A k \in Job : job'[k] = IF k = j THEN b ELSE job[k]
  BY DEF IInv, ChainInv, ChainType
<1>2. \A p \in Partition : chain'[p] = IF p = q THEN chain[p] \o job[j].rows ELSE chain[p]
  BY DEF Committed, IInv, ChainInv, ChainType
<1>3. q \in Partition /\ (q # "org" => Unique(chain[q] \o job[j].rows))
  BY ReadyRows
<1>4. ChainedOnce'
  <2>1. \A p \in {"core", "platform"} : Unique(chain'[p])
    BY <1>2, <1>3, OnceIsUnique DEF OnceInv, Partition
  <2> QED BY <2>1 DEF ChainedOnce, Unique
<1>5. ASSUME NEW k \in Job PROVE Alone(k, job'[k]) /\ Fresh(job'[k], chain'[job'[k].part])
  <2>1. CASE k = j
    BY <2>1, <1>1 DEF Alone, Fresh, InHand
  <2>2. CASE k # j
    <3>1. job'[k] = job[k] /\ job[k].part \in Partition
      BY <2>2, <1>1 DEF IInv, ChainInv, ChainType, Work
    <3>2. Alone(k, job[k]) /\ Fresh(job[k], chain[job[k].part])
      BY DEF OnceInv
    <3>3. CASE job[k].part = q
      BY <2>2, <3>1, <3>2, <3>3, <1>3, OthersFresh
    <3>4. CASE job[k].part # q
      BY <3>1, <3>2, <3>4, <1>2
    <3> QED BY <3>3, <3>4
  <2> QED BY <2>1, <2>2
<1> QED BY <1>4, <1>5 DEF OnceInv

LEMMA OnceDies ==
  ASSUME IInv, OnceInv, NEW S \in SUBSET Job, NEW C \in SUBSET Job, Dies(S, C)
  PROVE  OnceInv'
<1> DEFINE Late(p) == \E j \in C : job[j].part = p
           Who(p) == CHOOSE j \in C : job[j].part = p
<1>a. \A p \in Partition : Late(p) => /\ Who(p) \in Job /\ job[Who(p)].part = p
                                      /\ Who(p) \in S /\ job[Who(p)].pc = "commit"
  BY DEF Dies
<1>b. \A p \in Partition : chain'[p] = IF Late(p) THEN chain[p] \o job[Who(p)].rows ELSE chain[p]
  BY DEF Dies
<1>d. \A k \in Job : job'[k] = IF k \in S THEN Idle ELSE job[k]
  BY DEF Dies
<1> HIDE DEF Late, Who
<1>1. ChainedOnce'
  <2>1. ASSUME NEW p \in {"core", "platform"} PROVE Unique(chain'[p])
    <3>1. p \in Partition /\ p # "org" /\ Unique(chain[p])
      BY OnceIsUnique DEF OnceInv, Partition
    <3>2. CASE Late(p)
      <4>1. Unique(chain[p] \o job[Who(p)].rows)
        BY <3>1, <3>2, <1>a, ReadyRows
      <4> QED BY <4>1, <3>1, <3>2, <1>b
    <3> QED BY <3>1, <3>2, <1>b
  <2> QED BY <2>1 DEF ChainedOnce, Unique
<1>2. ASSUME NEW k \in Job PROVE Alone(k, job'[k]) /\ Fresh(job'[k], chain'[job'[k].part])
  <2>1. CASE k \in S
    BY <2>1, <1>d, IdleIsWork DEF Alone, Fresh, InHand
  <2>2. CASE k \notin S
    <3> DEFINE p == job[k].part
    <3>1. job'[k] = job[k] /\ p \in Partition
      BY <2>2, <1>d DEF IInv, ChainInv, ChainType, Work
    <3>2. Alone(k, job[k]) /\ Fresh(job[k], chain[p])
      BY DEF OnceInv
    <3>3. CASE Late(p)
      BY <2>2, <3>1, <3>2, <3>3, <1>a, OthersFresh
    <3>4. CASE ~Late(p)
      BY <3>1, <3>2, <3>4, <1>b
    <3> QED BY <3>3, <3>4
  <2> QED BY <2>1, <2>2
<1> QED BY <1>1, <1>2 DEF OnceInv

LEMMA OnceLogEvent ==
  ASSUME IInv, OnceInv, NEW j \in Logger, NEW e \in world.core, LogEvent(j, e) PROVE OnceInv'
<1> DEFINE b == At("lock", "core", <<e>>, 0)
<1>1. b.pc = "lock" /\ b.part = "core" /\ Len(b.evs) = 1 /\ b.rows = <<>>
  BY DEF At
<1>2. j \in Job /\ job' = [job EXCEPT ![j] = b] /\ chain' = chain
  BY JobNames DEF LogEvent
<1> HIDE DEF b
<1> QED BY <1>1, <1>2, OnceWork, DeskCases DEF Alone, Single, Fresh

LEMMA OnceRecordBatch ==
  ASSUME IInv, OnceInv, NEW j \in Caller, NEW evs \in world.calls, RecordBatch(j, evs)
  PROVE  OnceInv'
<1> DEFINE b == At("lock", "org", evs, 0)
<1>1. b.pc = "lock" /\ b.part = "org"
  BY DEF At
<1>2. j \in Job /\ job' = [job EXCEPT ![j] = b] /\ chain' = chain
  BY JobNames DEF RecordBatch
<1> HIDE DEF b
<1> QED BY <1>1, <1>2, OnceWork, DeskCases DEF Alone, Fresh

LEMMA OnceConsume ==
  ASSUME IInv, OnceInv, NEW m \in DOMAIN msg, Consume(m) PROVE OnceInv'
<1> DEFINE b == At("exists", "platform", <<m>>, 0)
<1>1. b.pc = "exists" /\ b.part = "platform" /\ Len(b.evs) = 1 /\ b.rows = <<>>
  BY DEF At
<1>2. "consumer" \in Job /\ job' = [job EXCEPT !["consumer"] = b] /\ chain' = chain
  BY JobNames DEF Consume
<1> HIDE DEF b
<1> QED BY <1>1, <1>2, OnceWork, DeskCases DEF Alone, Single, Fresh

LEMMA IdleLeaves == Idle.pc \notin InHand
  BY IdleIsWork DEF InHand

\* What the look found is not chained yet.
LEMMA OnceExists == ASSUME IInv, OnceInv, Exists PROVE OnceInv'
<1> DEFINE c == job["consumer"]
           b == [c EXCEPT !.pc = "lock"]
<1>0. "consumer" \in Job /\ c \in Work /\ c.pc = "exists" /\ chain' = chain
  BY JobNames DEF IInv, ChainInv, ChainType, Exists
<1>1. CASE c.evs[1] \in Chained
  BY <1>0, <1>1, IdleLeaves, OnceLeaves DEF Exists
<1>2. CASE c.evs[1] \notin Chained
  <2>1. job' = [job EXCEPT !["consumer"] = b]
    BY <1>0, <1>2 DEF Exists, IInv, ChainInv, ChainType
  <2>2. b.pc = "lock" /\ b.part = c.part /\ b.rows = c.rows /\ b.evs = c.evs
    BY <1>0 DEF Work
  <2>3. c.part = "platform" /\ Len(c.evs) = 1 /\ c.rows = <<>>
    BY <1>0, DeskCases DEF OnceInv, Alone, Single, InHand
  <2>4. c.evs[1] \notin Ids(chain["platform"])
    BY <1>2 DEF Chained, Partition
  <2> HIDE DEF b, c
  <2> QED BY <1>0, <2>1, <2>2, <2>3, <2>4, DeskCases, OnceWork DEF Alone, Single, Fresh
<1> QED BY <1>1, <1>2

LEMMA OnceLock == ASSUME IInv, OnceInv, NEW j \in Job, Lock(j) PROVE OnceInv'
<1> DEFINE c == job[j]
           b == [c EXCEPT !.pc = "tip"]
<1>1. c \in Work /\ c.pc = "lock" /\ chain' = chain /\ job' = [job EXCEPT ![j] = b]
  BY DEF Lock, IInv, ChainInv, ChainType
<1>2. b.pc = "tip" /\ b.part = c.part /\ b.rows = c.rows /\ b.evs = c.evs
  BY <1>1 DEF Work
<1>3. Alone(j, c) /\ Fresh(c, chain[c.part])
  BY DEF OnceInv
<1> HIDE DEF b, c
<1> QED BY <1>1, <1>2, <1>3, OnceWork DEF Alone, Single, Fresh, InHand

LEMMA OnceReadTip == ASSUME IInv, OnceInv, NEW j \in Job, ReadTip(j) PROVE OnceInv'
<1> DEFINE c == job[j]
           rows == chain[c.part]
           b == [c EXCEPT !.pc = "insert",
                          !.seq = IF Len(rows) = 0 THEN 0 ELSE rows[Len(rows)].seq,
                          !.hash = IF Len(rows) = 0 THEN <<>> ELSE rows[Len(rows)].hash]
<1>1. c \in Work /\ c.pc = "tip" /\ chain' = chain /\ job' = [job EXCEPT ![j] = b]
  BY DEF ReadTip, IInv, ChainInv, ChainType
<1>2. b.pc = "insert" /\ b.part = c.part /\ b.rows = c.rows /\ b.evs = c.evs
  BY <1>1 DEF Work
<1>3. Alone(j, c) /\ Fresh(c, chain[c.part])
  BY DEF OnceInv
<1> HIDE DEF b, c
<1> QED BY <1>1, <1>2, <1>3, OnceWork DEF Alone, Single, Fresh, InHand

\* The unique event_id decides for the rows of "core", the look for those of
\* "platform".
LEMMA OnceInsert == ASSUME IInv, OnceInv, NEW j \in Job, Insert(j) PROVE OnceInv'
<1> DEFINE c == job[j]
           e == Head(c.evs)
           link == Link(c.hash, c.seq + 1, e)
           b == [c EXCEPT !.rows = Append(c.rows, link), !.seq = link.seq, !.hash = link.hash,
                          !.evs = Tail(c.evs),
                          !.pc = IF Len(c.evs) = 1 THEN "commit" ELSE "insert"]
<1>0. c \in Work /\ c.pc = "insert" /\ chain' = chain /\ ~Refused(j)
  BY DEF Insert, IInv, ChainInv, ChainType
<1>1. job' = [job EXCEPT ![j] = b]
  BY DEF Insert
<1>2. /\ b.pc = IF Len(c.evs) = 1 THEN "commit" ELSE "insert"
      /\ b.part = c.part /\ b.rows = Append(c.rows, link)
  <2> DEFINE rows == Append(c.rows, link)
             rest == Tail(c.evs)
             l == link
  <2>1. b = [c EXCEPT !.rows = rows, !.seq = l.seq, !.hash = l.hash, !.evs = rest,
                      !.pc = IF Len(c.evs) = 1 THEN "commit" ELSE "insert"]
    OBVIOUS
  <2> HIDE DEF b, c, rows, rest, l
  <2>2. /\ b.pc = IF Len(c.evs) = 1 THEN "commit" ELSE "insert"
        /\ b.part = c.part /\ b.rows = rows
    BY <2>1, <1>0 DEF Work
  <2> QED BY <2>2 DEF rows
<1>3. Alone(j, c) /\ Fresh(c, chain[c.part])
  BY DEF OnceInv
<1>4. CASE c.part = "org"
  <2> HIDE DEF b, c
  <2> QED BY <1>0, <1>1, <1>2, <1>3, <1>4, OnceWork DEF Alone, Fresh, InHand
<1>5. CASE c.part # "org"
  <2>1. Len(c.evs) = 1 /\ c.rows = <<>> /\ c.part = Desk(j)
    BY <1>0, <1>3, <1>5 DEF Alone, Single, InHand
  <2>2. e = c.evs[1] /\ link.id = e
    BY DEF Link
  <2>3. c.part \in {"core", "platform"}
    BY <1>0, <1>5 DEF Work, Partition
  <2>4. e \notin Ids(chain[c.part])
    <3>1. CASE c.part = "core"
      BY <1>0, <3>1 DEF Refused
    <3>2. CASE c.part = "platform"
      BY <1>0, <1>3, <2>2, <3>2 DEF Fresh
    <3> QED BY <2>3, <3>1, <3>2
  <2>5. b.rows = <<link>> /\ b.pc = "commit"
    BY <1>2, <2>1
  <2>6. Len(b.rows) = 1 /\ b.rows[1].id = e
    <3> HIDE DEF b, link
    <3> QED BY <2>2, <2>5
  <2>7. b.part = c.part
    BY <1>2
  <2> HIDE DEF b, c, e, link
  <2>8. Alone(j, b) /\ Fresh(b, chain[b.part])
    BY <2>1, <2>4, <2>5, <2>6, <2>7 DEF Alone, Fresh, Single
  <2> QED BY <1>0, <1>1, <2>8, OnceWork
<1> QED BY <1>4, <1>5

LEMMA OnceCommit == ASSUME IInv, OnceInv, NEW j \in Job, Commit(j) PROVE OnceInv'
<1>1. job[j].pc = "commit" /\ Committed(j) /\ Succeed(j)
  BY DEF Commit
<1>2. PICK b \in Work : b.pc \in {"idle", "next"} /\ job' = [job EXCEPT ![j] = b]
  BY <1>1, SucceedWork
<1> QED BY <1>1, <1>2, OnceEnded DEF InHand

LEMMA OnceCommitUnknown == ASSUME IInv, OnceInv, NEW j \in Job, CommitUnknown(j) PROVE OnceInv'
<1>1. job[j].pc = "commit" /\ Committed(j) /\ Fail(j)
  BY DEF CommitUnknown
<1>2. PICK b \in Work : b.pc \in {"idle", "spill"} /\ job' = [job EXCEPT ![j] = b]
  BY <1>1, FailWork DEF IInv, Working
<1> QED BY <1>1, <1>2, OnceEnded DEF InHand

LEMMA OnceStatementFails == ASSUME IInv, OnceInv, NEW j \in Job, StatementFails(j) PROVE OnceInv'
<1>1. (job[j].pc = "exists" \/ Working(j)) /\ Fail(j) /\ chain' = chain
  BY DEF StatementFails
<1>2. PICK b \in Work : b.pc \in {"idle", "spill"} /\ job' = [job EXCEPT ![j] = b]
  BY <1>1, FailWork DEF IInv
<1> QED BY <1>1, <1>2, OnceLeaves DEF InHand

LEMMA OnceSpill ==
  ASSUME IInv, OnceInv, NEW j \in Logger, Spill(j) \/ SpillFails(j) PROVE OnceInv'
<1>1. j \in Job /\ job' = [job EXCEPT ![j] = Idle] /\ chain' = chain
  BY JobNames DEF Spill, SpillFails
<1> QED BY <1>1, IdleLeaves, OnceLeaves

LEMMA OnceReplay == ASSUME IInv, OnceInv, Replay PROVE OnceInv'
<1>0. "replay" \in Job /\ chain' = chain
  BY JobNames DEF Replay, Start, ReplayLine, Duplicate, Truncate
<1>1. CASE Start
  <2> DEFINE b == At("next", "core", <<>>, 1)
  <2>1. b.pc = "next" /\ job' = [job EXCEPT !["replay"] = b]
    BY <1>1, NextIsWork DEF Start
  <2> HIDE DEF b
  <2> QED BY <1>0, <2>1, OnceLeaves DEF InHand
<1>2. CASE ReplayLine
  <2> DEFINE k == job["replay"].line
             b == At("lock", "core", <<lines[k].ev>>, k)
  <2>1. CASE lines[k].parses
    <3>1. b.pc = "lock" /\ b.part = "core" /\ Len(b.evs) = 1 /\ b.rows = <<>>
      BY DEF At
    <3>2. job' = [job EXCEPT !["replay"] = b]
      BY <1>2, <2>1 DEF ReplayLine
    <3> HIDE DEF b
    <3> QED BY <1>0, <3>1, <3>2, OnceWork, DeskCases DEF Alone, Single, Fresh
  <2>2. CASE ~lines[k].parses
    <3>1. job' = [job EXCEPT !["replay"] = Idle]
      BY <1>2, <2>2 DEF ReplayLine, StopReplay
    <3> QED BY <1>0, <3>1, IdleLeaves, OnceLeaves
  <2> QED BY <2>1, <2>2
<1>3. CASE Duplicate
  BY <1>0, <1>3, IdleLeaves, OnceLeaves DEF Duplicate, StopReplay
<1>4. CASE Truncate
  BY <1>0, <1>4, IdleLeaves, OnceLeaves DEF Truncate
<1> QED BY <1>1, <1>2, <1>3, <1>4 DEF Replay

LEMMA OnceFaults == ASSUME IInv, OnceInv, Faults PROVE OnceInv'
<1>1. ASSUME NEW m \in DOMAIN msg, AckLost(m) PROVE OnceInv'
  BY <1>1, OnceFrame DEF AckLost
<1>2. CASE DiscoverCrash
  BY <1>2, OnceFrame DEF DiscoverCrash
<1>3. ASSUME NEW C \in SUBSET Job, CoreCrash(C) PROVE OnceInv'
  BY <1>3, JobNames, OnceDies DEF CoreCrash
<1>4. ASSUME NEW C \in SUBSET Job, GatekeeperCrash(C) PROVE OnceInv'
  BY <1>4, JobNames, OnceDies DEF GatekeeperCrash
<1> QED BY <1>1, <1>2, <1>3, <1>4, OnceCommitUnknown, OnceStatementFails, OnceSpill DEF Faults

LEMMA OnceStep == IInv /\ OnceInv /\ [Next]_vars => OnceInv'
<1> SUFFICES ASSUME IInv, OnceInv, [Next]_vars PROVE OnceInv'
  OBVIOUS
<1>1. CASE UNCHANGED vars
  BY <1>1, OnceFrame DEF vars
<1>2. ASSUME NEW j \in Job, Transaction(j) PROVE OnceInv'
  BY <1>2, OnceLock, OnceReadTip, OnceInsert, OnceCommit DEF Transaction
<1>3. CASE Writers
  BY <1>3, OnceLogEvent, OnceRecordBatch, OnceSpill DEF Writers
<1>4. CASE Consumer
  BY <1>4, OnceConsume, OnceExists DEF Consumer
<1>5. CASE Forwarder
  <2>1. PICK r \in world.rows : Emit(r) \/ Publish(r) \/ Mark(r)
    BY <1>5 DEF Forwarder, Forward
  <2> QED BY <2>1, OnceFrame DEF Emit, Publish, Mark
<1> QED BY <1>1, <1>2, <1>3, <1>4, <1>5, OnceReplay, OnceFaults DEF Next

(* Whatever is redelivered, replayed or answered too late, an event that   *)
(* came through the spill file or over the bus is in its chain at most     *)
(* once: the unique event_id stops the replay of a line whose commit had   *)
(* taken effect, and the one handler of the durable consumer looks before  *)
(* it writes to a partition nobody else writes to.                         *)
THEOREM EventsAreChainedOnce == Spec => []ChainedOnce
<1>1. Init => OnceInv
  <2> SUFFICES ASSUME Init PROVE OnceInv
    OBVIOUS
  <2>1. ChainedOnce
    BY DEF Init, ChainedOnce, Partition
  <2> QED BY <2>1, IdleLeaves DEF Init, OnceInv, Alone, Fresh, InHand
<1>2. OnceInv => ChainedOnce
  BY DEF OnceInv
<1> QED BY <1>1, <1>2, OnceStep, Invariant, PTL DEF Spec
================================================================================
