-------------------------- MODULE DataPlatformProofs --------------------------
(***************************************************************************)
(* DataPlatform for any worlds, workers and numbers of findings.           *)
(*                                                                         *)
(* No two open transactions hold the same lock (LocksApart).  So the key   *)
(* of the batch of a transaction that has begun is not in the ledger, and  *)
(* nobody else can put it there (Claims): that is why a batch has one      *)
(* audit row.  And a row that a transaction has buffered is locked, so     *)
(* that the hops it will append start where the row still is when it       *)
(* commits (Buffers): that is why histories are walks.                     *)
(*                                                                         *)
(* What the rows of a transaction add to the stored ones is as many        *)
(* reports as it has written of its batch (Tally); the commit moves both   *)
(* to the other side at once, the batch to a key the ledger has not, so    *)
(* that the sums stay even (Even).  A transaction that got to a finding    *)
(* holds the lock on its asset (Holds), so that two never have rows of one *)
(* fingerprint (HeldOnce): that is why a fingerprint has one finding.      *)
(***************************************************************************)
EXTENDS DataPlatform, FiniteSetTheorems, SequenceTheorems, WellFoundedInduction, TLAPS

LEMMA OneIs == ASSUME NEW k, NEW v PROVE DOMAIN One(k, v) = {k} /\ One(k, v)[k] = v
  BY DEF One

LEMMA OverIs ==
  ASSUME NEW g, NEW f
  PROVE  /\ DOMAIN Over(g, f) = DOMAIN g \cup DOMAIN f
         /\ \A x \in DOMAIN g : Over(g, f)[x] = g[x]
         /\ \A x \in DOMAIN f \ DOMAIN g : Over(g, f)[x] = f[x]
  BY DEF Over

-----------------------------------------------------------------------------
(* The transactions.                                                       *)

WorkFields == {"msg", "batch", "locks", "assets", "findings", "hops", "evs", "stage", "todo"}

IsWork(t) == \/ t = Idle
             \/ /\ DOMAIN t = WorkFields
                /\ t.stage \in {"open", "reject", "rejected", "publish"}

TxShape == DOMAIN tx = Worker /\ \A w \in Worker : IsWork(tx[w])

LocksApart == \A v, w \in Worker : v # w => Locks(v) \cap Locks(w) = {}

\* A transaction holds the key of its batch, which is new to the ledger, or
\* has yet to ask for it.
Claim(t, known) ==
  \/ <<"key", t.batch.key>> \in t.locks /\ t.batch.key \notin known
  \/ t.todo # <<>> /\ Head(t.todo)[1] = "ledger"
Claims == \A w \in Worker : Open(w) => Claim(tx[w], DOMAIN ledger)

TxInv == TxShape /\ LocksApart /\ Claims

LEMMA IdleWork == IsWork(Idle) /\ Idle.stage = "idle"
  BY DEF IsWork, Idle

\* The transaction of w becomes t.
LEMMA TxStep ==
  ASSUME TxInv, NEW w \in Worker, NEW t, IsWork(t), tx' = [tx EXCEPT ![w] = t],
         t.stage = "open" =>
           /\ \A v \in Worker \ {w} : t.locks \cap Locks(v) = {}
           /\ Claim(t, DOMAIN ledger'),
         \A v \in Worker \ {w} : Open(v) /\ Claim(tx[v], DOMAIN ledger)
                                 => Claim(tx[v], DOMAIN ledger')
  PROVE  TxInv'
<1>1. DOMAIN tx' = Worker /\ \A v \in Worker : tx'[v] = IF v = w THEN t ELSE tx[v]
  BY DEF TxInv, TxShape
<1>2. TxShape'
  BY <1>1 DEF TxInv, TxShape
<1>3. Claims'
  BY <1>1 DEF TxInv, Claims, Open
<1>4. ASSUME NEW v \in Worker, NEW u \in Worker, v # u PROVE Locks(v)' \cap Locks(u)' = {}
  <2>1. \A x \in Worker \ {w} : Locks(x)' = Locks(x)
    BY <1>1 DEF Locks, Open
  <2>2. Locks(w)' = IF t.stage = "open" THEN t.locks ELSE {}
    BY <1>1 DEF Locks, Open
  <2>3. CASE v # w /\ u # w
    BY <2>1, <2>3, <1>4 DEF TxInv, LocksApart
  <2>4. CASE v = w
    BY <2>1, <2>2, <2>4, <1>4
  <2>5. CASE u = w
    BY <2>1, <2>2, <2>5, <1>4
  <2> QED BY <2>3, <2>4, <2>5
<1> QED BY <1>2, <1>3, <1>4 DEF TxInv, LocksApart

\* ... and is not open any more, or not yet.
LEMMA TxLeaves ==
  ASSUME TxInv, NEW w \in Worker, NEW t, IsWork(t), t.stage # "open",
         tx' = [tx EXCEPT ![w] = t], ledger' = ledger
  PROVE  TxInv'
  BY TxStep

LEMMA TxFrame == ASSUME TxInv, tx' = tx, ledger' = ledger PROVE TxInv'
  BY DEF TxInv, TxShape, LocksApart, Claims, Locks, Open

\* A statement of an open transaction that has its key.
LEMMA TxAdvances ==
  ASSUME TxInv, NEW w \in Worker, Ready(w), Head(tx[w].todo)[1] # "ledger",
         NEW t, DOMAIN t = WorkFields, t.stage = "open", t.batch = tx[w].batch,
         t.locks = tx[w].locks \/ t.locks = tx[w].locks \cup Needs(w),
         tx' = [tx EXCEPT ![w] = t], ledger' = ledger
  PROVE  TxInv'
<1>1. Open(w) /\ tx[w].todo # <<>> /\ \A v \in Worker \ {w} : Needs(w) \cap Locks(v) = {}
  BY DEF Ready, Waits
<1>2. \A v \in Worker \ {w} : tx[w].locks \cap Locks(v) = {}
  BY <1>1 DEF TxInv, LocksApart, Locks
<1>3. Claim(t, DOMAIN ledger')
  BY <1>1 DEF TxInv, Claims, Claim
<1>4. IsWork(t)
  BY DEF IsWork
<1>5. \A v \in Worker \ {w} : t.locks \cap Locks(v) = {}
  BY <1>1, <1>2
<1> QED BY <1>3, <1>4, <1>5, TxStep

LEMMA StepIs ==
  ASSUME TxInv, NEW w \in Worker, Open(w)
  PROVE  /\ DOMAIN tx[w] = WorkFields
         /\ DOMAIN Step(w) = WorkFields /\ Step(w).stage = "open"
         /\ Step(w).batch = tx[w].batch /\ Step(w).locks = tx[w].locks \cup Needs(w)
         /\ Step(w).findings = tx[w].findings /\ Step(w).hops = tx[w].hops
         /\ Step(w).todo = Tail(tx[w].todo) /\ Step(w).assets = tx[w].assets
<1>1. DOMAIN tx[w] = WorkFields
  BY IdleWork DEF TxInv, TxShape, IsWork, Open
<1> QED BY <1>1 DEF Step, WorkFields, Open
-----------------------------------------------------------------------------
(* The audit outbox.                                                       *)

Kinds == {"ingest.rejected", "ingest.batch", "admin.action", "retention.purge", "evidence.purge"}
AuditEntry(S) == [what : Kinds, about : S, forwarded : BOOLEAN]
IsOutbox == \E S : outbox \in Seq(AuditEntry(S))

\* Rows are added and marked, never changed.
Grows == /\ DOMAIN outbox \subseteq DOMAIN outbox'
         /\ \A n \in DOMAIN outbox : /\ outbox'[n].what = outbox[n].what
                                     /\ outbox'[n].about = outbox[n].about

LEMMA Appended ==
  ASSUME IsOutbox, NEW what \in Kinds, NEW about, AuditOutbox(what, about)
  PROVE  /\ IsOutbox' /\ Grows
         /\ \E last : /\ last \notin DOMAIN outbox
                      /\ DOMAIN outbox' = DOMAIN outbox \cup {last}
                      /\ outbox'[last].what = what /\ outbox'[last].about = about
<1>1. PICK S : outbox \in Seq(AuditEntry(S))
  BY DEF IsOutbox
<1> DEFINE T == AuditEntry(S \cup {about})
           x == AuditRow(what, about)
<1>2. outbox \in Seq(T)
  <2>1. AuditEntry(S) \subseteq T
    BY DEF AuditEntry
  <2> HIDE DEF T
  <2> QED BY <1>1, <2>1, SeqMonotonic
<1>3. x \in T /\ x.what = what /\ x.about = about
  BY DEF AuditRow, AuditEntry
<1>4. outbox' = Append(outbox, x)
  BY DEF AuditOutbox
<1> HIDE DEF T, x
<1>5. /\ outbox' \in Seq(T) /\ Len(outbox') = Len(outbox) + 1 /\ Len(outbox) \in Nat
      /\ outbox'[Len(outbox) + 1] = x /\ \A n \in 1..Len(outbox) : outbox'[n] = outbox[n]
  BY <1>2, <1>3, <1>4, AppendProperties, LenProperties
<1>6. DOMAIN outbox = 1..Len(outbox) /\ DOMAIN outbox' = 1..Len(outbox) + 1
  BY <1>2, <1>5, LenProperties
<1>7. IsOutbox'
  BY <1>5 DEF IsOutbox, T
<1>8. Grows
  BY <1>5, <1>6 DEF Grows
<1>9. Len(outbox) + 1 \notin DOMAIN outbox /\ DOMAIN outbox' = DOMAIN outbox \cup {Len(outbox) + 1}
  BY <1>5, <1>6
<1> QED BY <1>3, <1>5, <1>7, <1>8, <1>9

\* A sequence with one element replaced.
LEMMA Replaced ==
  ASSUME NEW T, NEW s \in Seq(T), NEW i \in DOMAIN s, NEW e \in T, NEW r,
         r = [s EXCEPT ![i] = e]
  PROVE  r \in Seq(T)
<1>1. i \in 1..Len(s)
  BY LenProperties
<1> QED BY <1>1, ExceptSeq

LEMMA Marked ==
  ASSUME IsOutbox, NEW n \in DOMAIN outbox, outbox' = [outbox EXCEPT ![n].forwarded = TRUE]
  PROVE  IsOutbox' /\ Grows /\ DOMAIN outbox' = DOMAIN outbox
<1>1. PICK S : outbox \in Seq(AuditEntry(S))
  BY DEF IsOutbox
<1> DEFINE T == AuditEntry(S)
           x == [outbox[n] EXCEPT !.forwarded = TRUE]
<1>2. outbox[n] \in T
  BY <1>1, ElementOfSeq, LenProperties
<1>3. x \in T /\ x.what = outbox[n].what /\ x.about = outbox[n].about
  BY <1>2 DEF AuditEntry
<1>4. outbox' = [outbox EXCEPT ![n] = x]
  OBVIOUS
<1>a. outbox \in Seq(T)
  BY <1>1
<1> HIDE DEF T, x
<1>b. x \in T
  BY <1>3
<1>5. outbox' \in Seq(T)
  BY <1>a, <1>b, <1>4, Replaced
<1>6. DOMAIN outbox' = DOMAIN outbox /\ \A k \in DOMAIN outbox : outbox'[k] = IF k = n THEN x ELSE outbox[k]
  BY <1>4
<1> QED BY <1>3, <1>5, <1>6 DEF IsOutbox, Grows, T

LEMMA Unmarked == ASSUME IsOutbox, outbox' = outbox PROVE IsOutbox' /\ Grows
  BY DEF IsOutbox, Grows
-----------------------------------------------------------------------------
(* The ledger and its audit rows.                                          *)

Accepted(k) == k \in DOMAIN ledger /\ ledger[k].status = "accepted"
RowOf(n, k) == outbox[n].what = "ingest.batch" /\ outbox[n].about = k

\* An accepted batch has one row; a row is that of an accepted batch.
Recorded ==
  /\ \A k \in DOMAIN ledger : Accepted(k) =>
       \E n \in DOMAIN outbox : RowOf(n, k) /\ \A m \in DOMAIN outbox : RowOf(m, k) => m = n
  /\ \A n \in DOMAIN outbox : outbox[n].what = "ingest.batch" => Accepted(outbox[n].about)

AuditInv == TxInv /\ IsOutbox /\ Recorded

LEMMA SameRows ==
  ASSUME Recorded, Grows, DOMAIN outbox' = DOMAIN outbox, \A k : Accepted(k)' <=> Accepted(k)
  PROVE  Recorded'
<1>1. \A n \in DOMAIN outbox : \A k : RowOf(n, k)' <=> RowOf(n, k)
  BY DEF Grows, RowOf
<1>2. ASSUME NEW k \in DOMAIN ledger', Accepted(k)'
      PROVE  \E n \in DOMAIN outbox' : RowOf(n, k)' /\ \A m \in DOMAIN outbox' : RowOf(m, k)' => m = n
  <2>1. Accepted(k) /\ k \in DOMAIN ledger
    BY <1>2 DEF Accepted
  <2> QED BY <1>1, <2>1 DEF Recorded
<1>3. ASSUME NEW n \in DOMAIN outbox', outbox'[n].what = "ingest.batch"
      PROVE  Accepted(outbox[n].about)'
  <2>1. outbox[n].what = "ingest.batch" /\ outbox'[n].about = outbox[n].about
    BY <1>3 DEF Grows
  <2>2. Accepted(outbox[n].about)
    BY <2>1 DEF Recorded
  <2>3. outbox'[n].about \in DOMAIN ledger' /\ ledger'[outbox'[n].about].status = "accepted"
    BY <2>1, <2>2 DEF Accepted
  <2> QED BY <2>3 DEF Accepted
<1> QED BY <1>2, <1>3 DEF Recorded, RowOf

\* A row of another kind, or one that is marked.
LEMMA OtherRow ==
  ASSUME IsOutbox, Recorded, ledger' = ledger,
         NEW what \in Kinds, NEW about, what # "ingest.batch", AuditOutbox(what, about)
  PROVE  IsOutbox' /\ Grows /\ Recorded'
<1>1. IsOutbox' /\ Grows
  BY Appended
<1>2. PICK last : /\ last \notin DOMAIN outbox /\ DOMAIN outbox' = DOMAIN outbox \cup {last}
                  /\ outbox'[last].what = what
  BY Appended
<1>3. \A n \in DOMAIN outbox' : \A k : RowOf(n, k)' <=> (n \in DOMAIN outbox /\ RowOf(n, k))
  BY <1>1, <1>2 DEF Grows, RowOf
<1>4. \A k : Accepted(k)' <=> Accepted(k)
  BY DEF Accepted
<1>5. ASSUME NEW k \in DOMAIN ledger', Accepted(k)'
      PROVE  \E n \in DOMAIN outbox' : RowOf(n, k)' /\ \A m \in DOMAIN outbox' : RowOf(m, k)' => m = n
  <2>1. PICK n \in DOMAIN outbox : RowOf(n, k) /\ \A m \in DOMAIN outbox : RowOf(m, k) => m = n
    BY <1>4, <1>5 DEF Recorded
  <2> QED BY <1>2, <1>3, <2>1
<1>6. ASSUME NEW n \in DOMAIN outbox', NEW k, RowOf(n, k)' PROVE Accepted(k)'
  <2>1. n \in DOMAIN outbox /\ RowOf(n, k)
    BY <1>3, <1>6
  <2>2. Accepted(k)
    BY <2>1 DEF Recorded, RowOf
  <2> QED BY <2>2, <1>4
<1>7. ASSUME NEW n \in DOMAIN outbox', outbox'[n].what = "ingest.batch"
      PROVE  outbox'[n].about \in DOMAIN ledger' /\ ledger'[outbox'[n].about].status = "accepted"
  <2>0. PICK k : k = outbox'[n].about
    OBVIOUS
  <2>1. RowOf(n, k)'
    BY <1>7, <2>0 DEF RowOf
  <2> QED BY <1>6, <2>0, <2>1 DEF Accepted
<1> QED BY <1>1, <1>5, <1>7 DEF Recorded, RowOf, Accepted

\* A new key of the ledger that is not accepted.
LEMMA KeyRejected ==
  ASSUME Recorded, UNCHANGED outbox, NEW k, NEW b,
         ledger' = Over(ledger, One(k, [status |-> "rejected", batch |-> b]))
  PROVE  Recorded'
<1>0. PICK v : v = [status |-> "rejected", batch |-> b]
  OBVIOUS
<1> DEFINE new == One(k, v)
<1>1. DOMAIN new = {k} /\ new[k] = v /\ v.status = "rejected"
  BY <1>0, OneIs
<1> HIDE DEF new
<1>2. /\ DOMAIN ledger' = DOMAIN ledger \cup {k}
      /\ \A x \in DOMAIN ledger : ledger'[x] = ledger[x]
      /\ k \notin DOMAIN ledger => ledger'[k] = new[k]
  <2>1. ledger' = Over(ledger, new)
    BY <1>0 DEF new
  <2> DEFINE all == Over(ledger, new)
  <2>2. /\ DOMAIN all = DOMAIN ledger \cup DOMAIN new
        /\ \A x \in DOMAIN ledger : all[x] = ledger[x]
        /\ \A x \in DOMAIN new \ DOMAIN ledger : all[x] = new[x]
    BY OverIs
  <2> HIDE DEF all
  <2>3. ledger' = all
    BY <2>1 DEF all
  <2> QED BY <1>1, <2>2, <2>3
<1>3. \A x : Accepted(x)' <=> Accepted(x)
  BY <1>1, <1>2 DEF Accepted
<1>4. Grows
  BY DEF Grows
<1> QED BY <1>3, <1>4, SameRows

\* The commit: a key that is new to the ledger, and its row.
LEMMA KeyAccepted ==
  ASSUME IsOutbox, Recorded, NEW k, k \notin DOMAIN ledger, NEW b,
         ledger' = Over(ledger, One(k, [status |-> "accepted", batch |-> b])),
         AuditOutbox("ingest.batch", k)
  PROVE  IsOutbox' /\ Grows /\ Recorded'
<1>0. PICK v : v = [status |-> "accepted", batch |-> b]
  OBVIOUS
<1> DEFINE new == One(k, v)
<1>1. DOMAIN new = {k} /\ new[k] = v /\ v.status = "accepted"
  BY <1>0, OneIs
<1> HIDE DEF new
<1>2. /\ DOMAIN ledger' = DOMAIN ledger \cup {k}
      /\ \A x \in DOMAIN ledger : ledger'[x] = ledger[x]
      /\ ledger'[k] = new[k]
  <2>1. ledger' = Over(ledger, new)
    BY <1>0 DEF new
  <2> DEFINE all == Over(ledger, new)
  <2>2. /\ DOMAIN all = DOMAIN ledger \cup DOMAIN new
        /\ \A x \in DOMAIN ledger : all[x] = ledger[x]
        /\ \A x \in DOMAIN new \ DOMAIN ledger : all[x] = new[x]
    BY OverIs
  <2> HIDE DEF all
  <2>3. ledger' = all
    BY <2>1 DEF all
  <2> QED BY <1>1, <2>2, <2>3
<1>3. \A x : Accepted(x)' <=> (x = k \/ Accepted(x))
  BY <1>1, <1>2 DEF Accepted
<1>a. PICK what \in Kinds : what = "ingest.batch"
  BY DEF Kinds
<1>b. AuditOutbox(what, k)
  BY <1>a
<1>4. IsOutbox' /\ Grows
  BY <1>b, Appended
<1>5. PICK last : /\ last \notin DOMAIN outbox /\ DOMAIN outbox' = DOMAIN outbox \cup {last}
                  /\ outbox'[last].what = "ingest.batch" /\ outbox'[last].about = k
  BY <1>a, <1>b, Appended, ZenonT(40)
<1>6. \A n \in DOMAIN outbox' : \A x :
        RowOf(n, x)' <=> (n \in DOMAIN outbox /\ RowOf(n, x)) \/ (n = last /\ x = k)
  BY <1>4, <1>5 DEF Grows, RowOf
<1>7. \A n \in DOMAIN outbox : ~RowOf(n, k)
  BY DEF Recorded, RowOf, Accepted
<1>8. ASSUME NEW x \in DOMAIN ledger', Accepted(x)'
      PROVE  \E n \in DOMAIN outbox' : RowOf(n, x)' /\ \A m \in DOMAIN outbox' : RowOf(m, x)' => m = n
  <2>1. CASE x = k
    BY <2>1, <1>5, <1>6, <1>7
  <2>2. CASE x # k
    <3>1. Accepted(x) /\ x \in DOMAIN ledger
      BY <2>2, <1>3, <1>8 DEF Accepted
    <3>2. PICK n \in DOMAIN outbox : RowOf(n, x) /\ \A m \in DOMAIN outbox : RowOf(m, x) => m = n
      BY <3>1 DEF Recorded
    <3> QED BY <2>2, <3>2, <1>5, <1>6
  <2> QED BY <2>1, <2>2
<1>9. ASSUME NEW n \in DOMAIN outbox', NEW x, RowOf(n, x)' PROVE Accepted(x)'
  <2>1. CASE n \in DOMAIN outbox /\ RowOf(n, x)
    <3>1. Accepted(x)
      BY <2>1 DEF Recorded, RowOf
    <3> QED BY <3>1, <1>3
  <2>2. CASE n = last /\ x = k
    BY <2>2, <1>3
  <2> QED BY <2>1, <2>2, <1>6, <1>9
<1>10. ASSUME NEW n \in DOMAIN outbox', outbox'[n].what = "ingest.batch"
       PROVE  outbox'[n].about \in DOMAIN ledger' /\ ledger'[outbox'[n].about].status = "accepted"
  <2>0. PICK x : x = outbox'[n].about
    OBVIOUS
  <2>1. RowOf(n, x)'
    BY <1>10, <2>0 DEF RowOf
  <2> QED BY <1>9, <2>0, <2>1 DEF Accepted
<1> QED BY <1>4, <1>8, <1>10 DEF Recorded, RowOf, Accepted

\* A transaction ends, or waits, without a trace.
LEMMA NoTrace ==
  ASSUME AuditInv, UNCHANGED <<ledger, outbox>>, TxInv' PROVE AuditInv' /\ Grows
<1>1. Grows /\ IsOutbox'
  BY Unmarked DEF AuditInv
<1>2. Recorded'
  BY <1>1, SameRows DEF AuditInv, Accepted
<1> QED BY <1>1, <1>2 DEF AuditInv
-----------------------------------------------------------------------------
(* The steps.                                                              *)

LEMMA ListIs ==
  ASSUME NEW s, IsList(s) PROVE Len(s) \in Nat /\ DOMAIN s = 1..Len(s)
  BY DEF IsList

\* What a list is turned into, element by element.
LEMMA MappedList ==
  ASSUME NEW n \in Nat, NEW f, f = [i \in 1..n |-> f[i]], NEW S, \A i \in 1..n : f[i] \in S
  PROVE  f \in Seq(S)
<1>1. f \in [1..n -> S]
  OBVIOUS
<1> QED BY <1>1, SeqDef

LEMMA FirstOf ==
  ASSUME NEW S, NEW x \in S, NEW A \in Seq(S), NEW B \in Seq(S)
  PROVE  <<x>> \o A \o B # <<>> /\ Head(<<x>> \o A \o B) = x
<1>1. <<x>> \in Seq(S) /\ Len(<<x>>) = 1 /\ <<x>>[1] = x
  OBVIOUS
<1> DEFINE one == <<x>>
<1> HIDE DEF one
<1>2. one \o A \in Seq(S) /\ Len(one \o A) = 1 + Len(A) /\ (one \o A)[1] = x
  BY <1>1, ConcatProperties, LenProperties DEF one
<1> DEFINE two == one \o A
<1> HIDE DEF two
<1>4. /\ two \in Seq(S) /\ Len(two) = 1 + Len(A) /\ two[1] = x
      /\ Len(A) \in Nat /\ Len(B) \in Nat
  BY <1>2, LenProperties DEF two
<1>3. two \o B \in Seq(S) /\ Len(two \o B) = Len(two) + Len(B) /\ (two \o B)[1] = x
  <2>1. /\ two \o B \in Seq(S) /\ Len(two \o B) = Len(two) + Len(B)
        /\ \A i \in 1..Len(two) + Len(B) :
             (two \o B)[i] = IF i <= Len(two) THEN two[i] ELSE B[i - Len(two)]
    BY <1>4, ConcatProperties, ZenonT(40)
  <2>2. 1 \in 1..Len(two) + Len(B) /\ 1 <= Len(two)
    BY <1>4
  <2> DEFINE u == two \o B
  <2> HIDE DEF u
  <2> QED BY <1>4, <2>1, <2>2 DEF u
<1> DEFINE all == two \o B
<1> HIDE DEF all
<1>5. all \in Seq(S) /\ Len(all) > 0 /\ all[1] = x
  BY <1>3, <1>4 DEF all
<1>6. all # <<>> /\ Head(all) = x
  BY <1>5
<1> QED BY <1>6 DEF all, two, one

\* A batch has a list of assets and a list of findings.
LEMMA BatchLists ==
  ASSUME world \in Scenario, NEW m \in Sent,
         NEW b, b = BatchOf(assets, world.tenants, m), b # Dropped
  PROVE  IsList(b.assets) /\ IsList(b.findings)
<1>0. \A x : IsList(<<x>>) /\ IsList(<<>>)
  BY DEF IsList
<1>1. m.via \in {"rest", "detect", "monitor", "discover"}
      /\ (m.via = "rest" => IsList(m.assets) /\ IsList(m.findings))
  BY WorldsAreSound DEF Sent
<1>2. CASE m.via = "rest"
  BY <1>1, <1>2 DEF BatchOf, FromRest
<1>3. CASE m.via = "detect"
  <2>1. b = FromDetect(assets, world.tenants, m)
    BY <1>3 DEF BatchOf
  <2>2. \E x, y : b.assets = <<x>> /\ b.findings = <<y>>
    BY <2>1 DEF FromDetect
  <2> QED BY <2>2, <1>0
<1>4. CASE m.via = "monitor"
  <2>1. b = FromMonitor(world.tenants, m)
    BY <1>4 DEF BatchOf
  <2>2. \E x : b.assets = <<x>> /\ b.findings = <<>>
    BY <2>1 DEF FromMonitor
  <2> QED BY <2>2, <1>0
<1>5. CASE m.via = "discover"
  <2>1. b = FromDiscover(world.tenants, m)
    BY <1>5 DEF BatchOf
  <2>2. \E x : b.assets = <<x>> /\ b.findings = <<>>
    BY <2>1 DEF FromDiscover
  <2> QED BY <2>2, <1>0
<1> QED BY <1>1, <1>2, <1>3, <1>4, <1>5

Begun(w, m, b, good) ==
  [msg |-> m, batch |-> b, locks |-> {}, assets |-> Empty,
   findings |-> Empty, hops |-> Empty, evs |-> {},
   stage |-> IF good THEN "open" ELSE "reject",
   todo |-> <<<<"ledger", 0>>>> \o [i \in DOMAIN b.assets |-> <<"asset", b.assets[i]>>]
                                \o [i \in DOMAIN b.findings |-> <<"finding", b.findings[i]>>]]

LEMMA BegunIs ==
  ASSUME NEW w, NEW m, NEW b, NEW good \in BOOLEAN, IsList(b.assets), IsList(b.findings)
  PROVE  LET t == Begun(w, m, b, good) IN
         /\ IsWork(t) /\ t.locks = {} /\ t.findings = Empty /\ t.hops = Empty
         /\ t.todo # <<>> /\ Head(t.todo)[1] = "ledger"
<1> DEFINE t == Begun(w, m, b, good)
           A == [i \in DOMAIN b.assets |-> <<"asset", b.assets[i]>>]
           B == [i \in DOMAIN b.findings |-> <<"finding", b.findings[i]>>]
           todo == <<<<"ledger", 0>>>> \o A \o B
           S == {<<"ledger", 0>>} \cup {A[i] : i \in DOMAIN A} \cup {B[i] : i \in DOMAIN B}
<1>1. A \in Seq(S)
  <2>1. Len(b.assets) \in Nat /\ DOMAIN b.assets = 1..Len(b.assets)
    BY ListIs
  <2>2. DOMAIN A = 1..Len(b.assets) /\ A = [i \in 1..Len(b.assets) |-> A[i]]
    BY <2>1
  <2>3. \A i \in DOMAIN A : A[i] \in S
    OBVIOUS
  <2> HIDE DEF A, S
  <2> QED BY <2>1, <2>2, <2>3, MappedList
<1>2. B \in Seq(S)
  <2>1. Len(b.findings) \in Nat /\ DOMAIN b.findings = 1..Len(b.findings)
    BY ListIs
  <2>2. DOMAIN B = 1..Len(b.findings) /\ B = [i \in 1..Len(b.findings) |-> B[i]]
    BY <2>1
  <2>3. \A i \in DOMAIN B : B[i] \in S
    OBVIOUS
  <2> HIDE DEF B, S
  <2> QED BY <2>1, <2>2, <2>3, MappedList
<1>3. <<"ledger", 0>> \in S
  OBVIOUS
<1>4. t.todo = todo /\ DOMAIN t = WorkFields /\ t.stage \in {"open", "reject"}
      /\ t.locks = {} /\ t.findings = Empty /\ t.hops = Empty
  BY DEF Begun, WorkFields
<1> HIDE DEF A, B, S, t
<1>5. todo # <<>> /\ Head(todo) = <<"ledger", 0>>
  BY <1>1, <1>2, <1>3, FirstOf
<1> HIDE DEF todo
<1>6. Head(todo)[1] = "ledger"
  BY <1>5
<1>7. IsWork(t)
  BY <1>4 DEF IsWork
<1> QED BY <1>4, <1>5, <1>6, <1>7 DEF t

\* The step of w begins a transaction, or settles the message.
LEMMA DeliverDoes ==
  ASSUME world \in Scenario, NEW w \in Worker, NEW m \in Sent, Deliver(w, m)
  PROVE  \/ tx' = tx
         \/ \E b, good : /\ good \in BOOLEAN /\ IsList(b.assets) /\ IsList(b.findings)
                         /\ tx' = [tx EXCEPT ![w] = Begun(w, m, b, good)]
<1> DEFINE b == BatchOf(assets, world.tenants, m)
<1>1. CASE b # Dropped /\ tx' # tx
  <2>1. IsList(b.assets) /\ IsList(b.findings)
    BY <1>1, BatchLists
  <2>2. PICK good \in Admitted(m.via, b) : tx' = [tx EXCEPT ![w] = Begun(w, m, b, good)]
    BY <1>1 DEF Deliver, Begun
  <2>3. good \in BOOLEAN
    BY DEF Admitted, reverify
  <2> HIDE DEF b
  <2> QED BY <2>1, <2>2, <2>3
<1>2. CASE b = Dropped
  BY <1>2 DEF Deliver
<1> QED BY <1>1, <1>2

LEMMA DeliverAudit ==
  ASSUME world \in Scenario, AuditInv, NEW w \in Worker, NEW m \in Sent, Deliver(w, m)
  PROVE  AuditInv' /\ Grows
<1>1. UNCHANGED <<ledger, outbox>>
  BY DEF Deliver, store
<1>2. CASE tx' = tx
  BY <1>1, <1>2, TxFrame, NoTrace DEF AuditInv
<1>3. ASSUME NEW b, NEW good \in BOOLEAN, IsList(b.assets), IsList(b.findings),
             tx' = [tx EXCEPT ![w] = Begun(w, m, b, good)]
      PROVE  TxInv'
  <2> DEFINE t == Begun(w, m, b, good)
  <2>1. IsWork(t) /\ t.locks = {} /\ t.todo # <<>> /\ Head(t.todo)[1] = "ledger"
    BY <1>3, BegunIs
  <2> HIDE DEF t
  <2>2. Claim(t, DOMAIN ledger')
    BY <2>1 DEF Claim
  <2>3. tx' = [tx EXCEPT ![w] = t]
    BY <1>3 DEF t
  <2> QED BY <1>1, <2>1, <2>2, <2>3, TxStep DEF AuditInv
<1> QED BY <1>1, <1>2, <1>3, DeliverDoes, NoTrace

LEMMA Ends ==
  ASSUME AuditInv, NEW w \in Worker, tx' = [tx EXCEPT ![w] = Idle], ledger' = ledger
  PROVE  TxInv'
<1>1. IsWork(Idle) /\ Idle.stage # "open"
  BY IdleWork
<1> QED BY <1>1, TxLeaves DEF AuditInv

LEMMA KeyAdded ==
  ASSUME NEW k, NEW v, NEW l, l = Over(ledger, One(k, v)) PROVE DOMAIN l = DOMAIN ledger \cup {k}
<1> DEFINE new == One(k, v)
           all == Over(ledger, new)
<1>1. DOMAIN new = {k}
  BY OneIs
<1> HIDE DEF new
<1>2. DOMAIN all = DOMAIN ledger \cup DOMAIN new
  BY OverIs
<1>3. l = all
  BY DEF all, new
<1> HIDE DEF all
<1> QED BY <1>1, <1>2, <1>3

LEMMA RejectAudit ==
  ASSUME AuditInv, NEW w \in Worker, RejectBatch(w) PROVE AuditInv' /\ Grows
<1> DEFINE t == [tx[w] EXCEPT !.stage = "rejected"]
           b == tx[w].batch
<1>1. tx[w].stage = "reject" /\ tx' = [tx EXCEPT ![w] = t] /\ outbox' = outbox
      /\ \A v \in Worker : <<"key", b.key>> \notin Locks(v)
  BY DEF RejectBatch, AuditInv, TxInv, TxShape
<1>2. DOMAIN tx[w] = WorkFields
  BY <1>1, IdleWork DEF AuditInv, TxInv, TxShape, IsWork
<1>3. IsWork(t) /\ t.stage = "rejected"
  BY <1>2 DEF IsWork, WorkFields
<1> HIDE DEF t
<1>4. CASE ledger' = ledger
  BY <1>1, <1>3, <1>4, TxLeaves, NoTrace DEF AuditInv
<1>5. CASE ledger' = Over(ledger, One(b.key, [status |-> "rejected", batch |-> b]))
  <2>1. DOMAIN ledger' = DOMAIN ledger \cup {b.key}
    <3>1. PICK x : x = [status |-> "rejected", batch |-> b]
      OBVIOUS
    <3>2. ledger' = Over(ledger, One(b.key, x))
      BY <1>5, <3>1
    <3> QED BY <3>2, KeyAdded
  <2>2. ASSUME NEW v \in Worker \ {w}, Open(v), Claim(tx[v], DOMAIN ledger)
        PROVE  Claim(tx[v], DOMAIN ledger')
    BY <1>1, <2>1, <2>2 DEF Claim, Locks
  <2>3. TxInv'
    BY <1>1, <1>3, <2>2, TxStep DEF AuditInv
  <2>4. Recorded' /\ IsOutbox' /\ Grows
    BY <1>1, <1>5, KeyRejected, Unmarked DEF AuditInv
  <2> QED BY <2>3, <2>4 DEF AuditInv
<1> QED BY <1>4, <1>5 DEF RejectBatch

\* A row of another kind than a batch's, while the transactions keep order.
LEMMA WithRow ==
  ASSUME AuditInv, TxInv', ledger' = ledger, NEW what \in Kinds, NEW about,
         what # "ingest.batch", AuditOutbox(what, about)
  PROVE  AuditInv' /\ Grows
  BY OtherRow DEF AuditInv

LEMMA AuditRejectedAudit ==
  ASSUME AuditInv, NEW w \in Worker, AuditRejected(w) PROVE AuditInv' /\ Grows
<1>1. tx' = [tx EXCEPT ![w] = Idle] /\ ledger' = ledger
  BY DEF AuditRejected, store
<1>2. TxInv'
  BY <1>1, Ends
<1>3. CASE outbox' = outbox
  BY <1>1, <1>2, <1>3, NoTrace
<1>4. CASE AuditOutbox("ingest.rejected", tx[w].batch.key)
  <2>1. PICK what \in Kinds : what = "ingest.rejected"
    BY DEF Kinds
  <2> QED BY <1>1, <1>2, <1>4, <2>1, WithRow
<1> QED BY <1>3, <1>4 DEF AuditRejected

LEMMA BeginAudit ==
  ASSUME AuditInv, NEW w \in Worker, BeginBatch(w) PROVE AuditInv' /\ Grows
<1> DEFINE b == tx[w].batch
<1>1. Ready(w) /\ Head(tx[w].todo)[1] = "ledger" /\ UNCHANGED <<ledger, outbox>>
  BY DEF BeginBatch, store
<1>2. CASE tx' = [tx EXCEPT ![w] = Idle]
  BY <1>1, <1>2, Ends, NoTrace
<1>3. CASE b.key \notin DOMAIN ledger /\ tx' = [tx EXCEPT ![w] = Step(w)]
  <2>1. Open(w) /\ \A v \in Worker \ {w} : Needs(w) \cap Locks(v) = {}
    BY <1>1 DEF Ready, Waits
  <2>2. DOMAIN Step(w) = WorkFields /\ Step(w).stage = "open" /\ Step(w).batch = b
        /\ Step(w).locks = tx[w].locks \cup Needs(w)
    BY <2>1, StepIs DEF AuditInv
  <2>3. Needs(w) = {<<"key", b.key>>}
    BY <1>1 DEF Needs
  <2>4. \A v \in Worker \ {w} : tx[w].locks \cap Locks(v) = {}
    BY <2>1 DEF AuditInv, TxInv, LocksApart, Locks
  <2>5. Claim(Step(w), DOMAIN ledger') /\ IsWork(Step(w))
    BY <1>1, <1>3, <2>2, <2>3 DEF Claim, IsWork
  <2>6. \A v \in Worker \ {w} : Step(w).locks \cap Locks(v) = {}
    BY <2>1, <2>2, <2>4
  <2>7. TxInv'
    BY <1>1, <1>3, <2>5, <2>6, TxStep DEF AuditInv
  <2> QED BY <1>1, <2>7, NoTrace
<1> QED BY <1>2, <1>3 DEF BeginBatch

\* The transaction of w with a row it has written.
Buffered(w, i, row, hops, evs) ==
  [Step(w) EXCEPT !.findings = Over(One(i, row), Step(w).findings),
                  !.hops = Over(One(i, hops), Step(w).hops),
                  !.evs = Step(w).evs \cup evs]

\* The batch fails, or the newest row of the fingerprint is merged, or there
\* is none and a new one is written.
LEMMA UpsertFindingDoes ==
  ASSUME NEW w \in Worker, UpsertFinding(w)
  PROVE  LET b == tx[w].batch
             f == Head(tx[w].todo)[2]
             old(i) == Finding(w, i)
         IN  \/ tx' = [tx EXCEPT ![w] = Idle]
             \/ \E i, evs :
                  /\ Match(w, b, f) # {} /\ i = Newest(Match(w, b, f))
                  /\ tx' = [tx EXCEPT ![w] =
                        Buffered(w, i, MergeFinding(old(i), f),
                                 Walked(w, i) \o Hops(old(i).state, f.state), evs)]
             \/ \E i \in FreshId : \E evs :
                  /\ Match(w, b, f) = {}
                  /\ tx' = [tx EXCEPT ![w] =
                        Buffered(w, i, NewFinding(b, f),
                                 Walked(w, i) \o (<<"new">> \o Hops("new", f.state)), evs)]
<1> DEFINE b == tx[w].batch
           f == Head(tx[w].todo)[2]
<1>1. CASE <<b.tenant, f.asset>> \notin Known(w)
  BY <1>1 DEF UpsertFinding
<1>2. CASE <<b.tenant, f.asset>> \in Known(w) /\ Match(w, b, f) # {}
  <2> DEFINE i == Newest(Match(w, b, f))
             hops == Hops(Finding(w, i).state, f.state)
  <2>1. PICK evs : evs = {<<i, f.state>> : h \in Range(hops)}
    OBVIOUS
  <2>2. tx' = [tx EXCEPT ![w] = [Step(w) EXCEPT
            !.findings = Over(One(i, MergeFinding(Finding(w, i), f)), Step(w).findings),
            !.hops = Over(One(i, Walked(w, i) \o hops), Step(w).hops),
            !.evs = Step(w).evs \cup evs]]
    BY <1>2, <2>1 DEF UpsertFinding
  <2>3. tx' = [tx EXCEPT ![w] = Buffered(w, i, MergeFinding(Finding(w, i), f),
                                         Walked(w, i) \o hops, evs)]
    BY <2>2 DEF Buffered
  <2>4. \E j, x :
          /\ j = Newest(Match(w, b, f))
          /\ tx' = [tx EXCEPT ![w] =
                Buffered(w, j, MergeFinding(Finding(w, j), f),
                         Walked(w, j) \o Hops(Finding(w, j).state, f.state), x)]
    BY <2>3
  <2> QED BY <1>2, <2>4
<1>3. CASE <<b.tenant, f.asset>> \in Known(w) /\ Match(w, b, f) = {}
  <2>1. PICK i \in FreshId :
          tx' = [tx EXCEPT ![w] = [Step(w) EXCEPT
            !.findings = Over(One(i, NewFinding(b, f)), Step(w).findings),
            !.hops = Over(One(i, Walked(w, i) \o (<<"new">> \o Hops("new", f.state))), Step(w).hops),
            !.evs = Step(w).evs \cup {<<i, "new">>, <<i, f.state>>}]]
    BY <1>3 DEF UpsertFinding
  <2>2. tx' = [tx EXCEPT ![w] =
                 Buffered(w, i, NewFinding(b, f),
                          Walked(w, i) \o (<<"new">> \o Hops("new", f.state)),
                          {<<i, "new">>, <<i, f.state>>})]
    BY <2>1 DEF Buffered
  <2> QED BY <1>3, <2>2
<1> QED BY <1>1, <1>2, <1>3

\* What the statements on assets and findings make of the transaction.
LEMMA StatementAudit ==
  ASSUME AuditInv, NEW w \in Worker, UpsertAsset(w) \/ InsertAsset(w) \/ UpsertFinding(w)
  PROVE  AuditInv' /\ Grows
<1>1. Ready(w) /\ Head(tx[w].todo)[1] # "ledger" /\ UNCHANGED <<ledger, outbox>>
  BY DEF UpsertAsset, InsertAsset, UpsertFinding, store
<1>2. Open(w)
  BY <1>1 DEF Ready
<1>3. /\ DOMAIN tx[w] = WorkFields
      /\ DOMAIN Step(w) = WorkFields /\ Step(w).stage = "open"
      /\ Step(w).batch = tx[w].batch /\ Step(w).locks = tx[w].locks \cup Needs(w)
  BY <1>2, StepIs DEF AuditInv
<1>4. ASSUME NEW a, tx' = [tx EXCEPT ![w] = [Step(w) EXCEPT !.assets = a]] PROVE TxInv'
  <2> DEFINE t == [Step(w) EXCEPT !.assets = a]
  <2>1. DOMAIN t = WorkFields /\ t.stage = "open" /\ t.batch = tx[w].batch
        /\ t.locks = tx[w].locks \cup Needs(w)
    BY <1>3 DEF WorkFields
  <2>2. tx' = [tx EXCEPT ![w] = t]
    BY <1>4
  <2> HIDE DEF t
  <2> QED BY <1>1, <2>1, <2>2, TxAdvances DEF AuditInv
<1>5. ASSUME NEW f, NEW h, NEW e,
             tx' = [tx EXCEPT ![w] = [Step(w) EXCEPT !.findings = f, !.hops = h, !.evs = e]]
      PROVE  TxInv'
  <2> DEFINE t == [Step(w) EXCEPT !.findings = f, !.hops = h, !.evs = e]
  <2>1. DOMAIN t = WorkFields /\ t.stage = "open" /\ t.batch = tx[w].batch
        /\ t.locks = tx[w].locks \cup Needs(w)
    BY <1>3 DEF WorkFields
  <2>2. tx' = [tx EXCEPT ![w] = t]
    BY <1>5
  <2> HIDE DEF t
  <2> QED BY <1>1, <2>1, <2>2, TxAdvances DEF AuditInv
<1>6. ASSUME NEW l, tx' = [tx EXCEPT ![w] = [tx[w] EXCEPT !.todo = l]] PROVE TxInv'
  <2> DEFINE t == [tx[w] EXCEPT !.todo = l]
  <2>1. DOMAIN t = WorkFields /\ t.stage = "open" /\ t.batch = tx[w].batch
        /\ t.locks = tx[w].locks
    BY <1>2, <1>3 DEF WorkFields, Open
  <2>2. tx' = [tx EXCEPT ![w] = t]
    BY <1>6
  <2> HIDE DEF t
  <2> QED BY <1>1, <2>1, <2>2, TxAdvances DEF AuditInv
<1>7. CASE tx' = [tx EXCEPT ![w] = Idle]
  BY <1>1, <1>7, Ends, NoTrace
<1>8. CASE UpsertAsset(w)
  <2>1. \/ \E a : tx' = [tx EXCEPT ![w] = [Step(w) EXCEPT !.assets = a]]
        \/ \E l : tx' = [tx EXCEPT ![w] = [tx[w] EXCEPT !.todo = l]]
    BY <1>8, <1>3 DEF UpsertAsset, AuditInv, TxInv, TxShape
  <2> QED BY <1>1, <1>4, <1>6, <2>1, NoTrace
<1>9. CASE InsertAsset(w)
  <2>1. \/ \E a : tx' = [tx EXCEPT ![w] = [Step(w) EXCEPT !.assets = a]]
        \/ tx' = [tx EXCEPT ![w] = Idle]
    BY <1>9, <1>3 DEF InsertAsset
  <2> QED BY <1>1, <1>4, <1>7, <2>1, NoTrace
<1>10. CASE UpsertFinding(w)
  <2>1. ASSUME NEW i, NEW row, NEW hops, NEW evs,
               tx' = [tx EXCEPT ![w] = Buffered(w, i, row, hops, evs)]
        PROVE  TxInv'
    <3>1. PICK f, h, e : /\ f = Over(One(i, row), Step(w).findings)
                         /\ h = Over(One(i, hops), Step(w).hops)
                         /\ e = Step(w).evs \cup evs
      OBVIOUS
    <3>2. Buffered(w, i, row, hops, evs) = [Step(w) EXCEPT !.findings = f, !.hops = h, !.evs = e]
      BY <3>1 DEF Buffered
    <3> QED BY <1>5, <2>1, <3>2
  <2> QED BY <1>1, <1>7, <1>10, <2>1, UpsertFindingDoes, NoTrace
<1> QED BY <1>8, <1>9, <1>10

LEMMA CommitAudit ==
  ASSUME AuditInv, NEW w \in Worker, Commit(w) PROVE AuditInv' /\ Grows
<1> DEFINE b == tx[w].batch
           t == [tx[w] EXCEPT !.stage = "publish", !.locks = {}]
<1>1. /\ Open(w) /\ tx[w].todo = <<>>
      /\ ledger' = Over(ledger, One(b.key, [status |-> "accepted", batch |-> b]))
      /\ AuditOutbox("ingest.batch", b.key)
  BY DEF Commit
<1>2. tx' = [tx EXCEPT ![w] = t] /\ DOMAIN tx[w] = WorkFields
  BY <1>1, IdleWork DEF Commit, AuditInv, TxInv, TxShape, IsWork, Open
<1>3. IsWork(t) /\ t.stage = "publish"
  BY <1>2 DEF IsWork, WorkFields
<1> HIDE DEF t
<1>4. <<"key", b.key>> \in Locks(w) /\ b.key \notin DOMAIN ledger
  BY <1>1 DEF AuditInv, TxInv, Claims, Claim, Locks
<1>5. DOMAIN ledger' = DOMAIN ledger \cup {b.key}
  <2>1. PICK x : x = [status |-> "accepted", batch |-> b]
    OBVIOUS
  <2>2. ledger' = Over(ledger, One(b.key, x))
    BY <1>1, <2>1
  <2> QED BY <2>2, KeyAdded
<1>6. ASSUME NEW v \in Worker \ {w}, Open(v), Claim(tx[v], DOMAIN ledger)
      PROVE  Claim(tx[v], DOMAIN ledger')
  <2>1. <<"key", b.key>> \notin tx[v].locks
    BY <1>4, <1>6 DEF AuditInv, TxInv, LocksApart, Locks
  <2> QED BY <1>5, <1>6, <2>1 DEF Claim
<1>7. TxInv'
  BY <1>2, <1>3, <1>6, TxStep DEF AuditInv
<1>8. IsOutbox' /\ Grows /\ Recorded'
  BY <1>1, <1>4, KeyAccepted DEF AuditInv
<1> QED BY <1>7, <1>8 DEF AuditInv

LEMMA EndAudit ==
  ASSUME AuditInv, NEW w \in Worker,
         PublishChanges(w) \/ DeadlockVictim(w) \/ StatementFails(w)
  PROVE  AuditInv' /\ Grows
<1>1. tx' = [tx EXCEPT ![w] = Idle] /\ UNCHANGED <<ledger, outbox>>
  BY DEF PublishChanges, DeadlockVictim, StatementFails, store
<1> QED BY <1>1, Ends, NoTrace

LEMMA CrashAudit == ASSUME AuditInv, Crash PROVE AuditInv' /\ Grows
<1>1. tx' = [w \in Worker |-> Idle] /\ UNCHANGED <<ledger, outbox>>
  BY DEF Crash, store
<1>2. DOMAIN tx' = Worker /\ \A w \in Worker : tx'[w] = Idle /\ tx'[w].stage # "open"
  BY <1>1, IdleWork
<1>3. TxInv'
  BY <1>2, IdleWork DEF TxInv, TxShape, LocksApart, Claims, Locks, Open
<1> QED BY <1>1, <1>3, NoTrace

LEMMA OperatorAudit ==
  ASSUME AuditInv, NEW i, Transition(i) \/ Ages(i) PROVE AuditInv' /\ Grows
<1>1. tx' = tx /\ ledger' = ledger
  BY DEF Transition, Ages
<1>2. TxInv'
  BY <1>1, TxFrame DEF AuditInv
<1>3. CASE Ages(i)
  BY <1>1, <1>2, <1>3, NoTrace DEF Ages
<1>4. CASE Transition(i)
  <2>1. PICK to : AuditOutbox("admin.action", <<i, to>>)
    BY <1>4 DEF Transition
  <2>2. PICK what \in Kinds : what = "admin.action"
    BY DEF Kinds
  <2>3. PICK about : about = <<i, to>>
    OBVIOUS
  <2> QED BY <1>1, <1>2, <2>1, <2>2, <2>3, WithRow
<1> QED BY <1>3, <1>4

LEMMA SweepAudit == ASSUME AuditInv, Sweep PROVE AuditInv' /\ Grows
<1>1. tx' = tx /\ ledger' = ledger
  BY DEF Sweep, ListResolved, AuditPurge, DeleteFinding, ListEvidence, DeleteBlob,
         ClearEvidenceRef, AuditEvidence, store
<1>2. TxInv'
  BY <1>1, TxFrame DEF AuditInv
<1>3. CASE outbox' = outbox
  BY <1>1, <1>2, <1>3, NoTrace
<1>4. CASE AuditOutbox("retention.purge", sweep.ids)
  <2>1. PICK what \in Kinds : what = "retention.purge"
    BY DEF Kinds
  <2> QED BY <1>1, <1>2, <1>4, <2>1, WithRow
<1>5. CASE AuditOutbox("evidence.purge", sweep.done)
  <2>1. PICK what \in Kinds : what = "evidence.purge"
    BY DEF Kinds
  <2> QED BY <1>1, <1>2, <1>5, <2>1, WithRow
<1>6. outbox' = outbox \/ AuditOutbox("retention.purge", sweep.ids)
      \/ AuditOutbox("evidence.purge", sweep.done)
  BY DEF Sweep, ListResolved, AuditPurge, DeleteFinding, ListEvidence, DeleteBlob,
         ClearEvidenceRef, AuditEvidence
<1> QED BY <1>3, <1>4, <1>5, <1>6

LEMMA ForwardAudit == ASSUME AuditInv, Forward PROVE AuditInv' /\ Grows
<1>1. tx' = tx /\ ledger' = ledger
  BY DEF Forward, store
<1>2. TxInv'
  BY <1>1, TxFrame DEF AuditInv
<1>3. PICK n \in Pending : \/ outbox' = [outbox EXCEPT ![n].forwarded = TRUE]
                           \/ outbox' = outbox
  BY DEF Forward
<1>4. CASE outbox' = outbox
  BY <1>1, <1>2, <1>4, NoTrace
<1>5. CASE outbox' = [outbox EXCEPT ![n].forwarded = TRUE]
  <2>1. n \in DOMAIN outbox
    BY DEF Pending
  <2>2. IsOutbox' /\ Grows /\ DOMAIN outbox' = DOMAIN outbox
    BY <1>5, <2>1, Marked DEF AuditInv
  <2>3. Recorded'
    BY <1>1, <2>2, SameRows DEF AuditInv, Accepted
  <2> QED BY <1>2, <2>2, <2>3 DEF AuditInv
<1> QED BY <1>3, <1>4, <1>5

LEMMA AuditStep ==
  ASSUME world \in Scenario, AuditInv, [Next]_vars
  PROVE  world' \in Scenario /\ AuditInv' /\ Grows
<1>1. world' = world
  <2>1. ASSUME NEW w \in Worker, \/ \E m \in Sent : Deliver(w, m)
                                 \/ Apply(w) \/ StatementFails(w)
        PROVE  world' = world
    BY <2>1 DEF Deliver, Apply, RejectBatch, AuditRejected, BeginBatch, UpsertAsset, InsertAsset,
                UpsertFinding, Commit, PublishChanges, DeadlockVictim, StatementFails
  <2>2. CASE Sweep
    BY <2>2 DEF Sweep, ListResolved, AuditPurge, DeleteFinding, ListEvidence, DeleteBlob,
                ClearEvidenceRef, AuditEvidence
  <2>3. CASE Crash \/ Forward \/ \E i \in 1 .. MaxFinding : Transition(i) \/ Ages(i)
    BY <2>3 DEF Crash, Forward, Transition, Ages
  <2>4. CASE UNCHANGED vars
    BY <2>4 DEF vars
  <2> QED BY <2>1, <2>2, <2>3, <2>4 DEF Next
<1>2. CASE UNCHANGED vars
  <2>1. UNCHANGED <<ledger, outbox, tx>>
    BY <1>2 DEF vars
  <2> QED BY <1>1, <2>1, TxFrame, NoTrace DEF AuditInv
<1>3. ASSUME NEW w \in Worker, \/ \E m \in Sent : Deliver(w, m)
                               \/ Apply(w) \/ StatementFails(w)
      PROVE  AuditInv' /\ Grows
  BY <1>3, DeliverAudit, RejectAudit, AuditRejectedAudit, BeginAudit, StatementAudit,
     CommitAudit, EndAudit DEF Apply
<1>4. CASE Next
  <2>1. CASE \E w \in Worker : (\E m \in Sent : Deliver(w, m)) \/ Apply(w) \/ StatementFails(w)
    BY <1>1, <1>3, <2>1
  <2>2. CASE \E i \in 1 .. MaxFinding : Transition(i) \/ Ages(i)
    BY <1>1, <2>2, OperatorAudit
  <2> QED BY <1>1, <1>4, <2>1, <2>2, CrashAudit, SweepAudit, ForwardAudit DEF Next
<1> QED BY <1>1, <1>2, <1>4

LEMMA AuditStart == Init => world \in Scenario /\ AuditInv
<1> SUFFICES ASSUME Init PROVE world \in Scenario /\ AuditInv
  OBVIOUS
<1>1. DOMAIN tx = Worker /\ \A w \in Worker : tx[w] = Idle /\ tx[w].stage # "open"
  BY IdleWork DEF Init
<1>2. TxInv
  BY <1>1, IdleWork DEF TxInv, TxShape, LocksApart, Claims, Locks, Open
<1>3. IsOutbox
  <2>1. outbox = <<>>
    BY DEF Init
  <2>2. outbox \in Seq(AuditEntry({}))
    BY <2>1, EmptySeq
  <2> QED BY <2>2 DEF IsOutbox
<1>4. ledger = Empty /\ outbox = <<>>
  BY DEF Init
<1>5. DOMAIN ledger = {} /\ DOMAIN outbox = {}
  BY <1>4, EmptySeq, LenProperties DEF Empty
<1>6. Recorded
  BY <1>5 DEF Recorded
<1> QED BY <1>2, <1>3, <1>6 DEF AuditInv, Init

LEMMA RecordedIsAudited == Recorded => AcceptedIsAudited
<1> SUFFICES ASSUME Recorded, NEW k \in DOMAIN ledger
             PROVE  LET rows == {n \in DOMAIN outbox : outbox[n].what = "ingest.batch"
                                                       /\ outbox[n].about = k}
                    IN  Cardinality(rows) = IF ledger[k].status = "accepted" THEN 1 ELSE 0
  BY DEF AcceptedIsAudited
<1> DEFINE rows == {n \in DOMAIN outbox : outbox[n].what = "ingest.batch" /\ outbox[n].about = k}
<1>1. CASE ledger[k].status = "accepted"
  <2>0. Accepted(k)
    BY <1>1 DEF Accepted
  <2>a. PICK n \in DOMAIN outbox : RowOf(n, k) /\ \A m \in DOMAIN outbox : RowOf(m, k) => m = n
    BY <2>0 DEF Recorded
  <2>1. rows = {n}
    BY <2>a DEF RowOf
  <2>2. Cardinality({n}) = 1
    BY FS_Singleton
  <2> QED BY <1>1, <2>1, <2>2
<1>2. CASE ledger[k].status # "accepted"
  <2>1. rows = {}
    BY <1>2 DEF Recorded, Accepted
  <2>2. Cardinality({}) = 0
    BY FS_EmptySet
  <2> QED BY <1>2, <2>1, <2>2
<1> QED BY <1>1, <1>2

\* engine.go, AuditOutboxTx: an accepted batch has one audit row and a batch
\* that is not accepted has none, however its deliveries, retries, rollbacks
\* and the crashes of the process interleave.
THEOREM AcceptanceIsAudited == Spec => []AcceptedIsAudited
<1>1. Init => world \in Scenario /\ AuditInv
  BY AuditStart
<1>2. world \in Scenario /\ AuditInv /\ [Next]_vars => (world \in Scenario /\ AuditInv)'
  BY AuditStep
<1>3. AuditInv => AcceptedIsAudited
  BY RecordedIsAudited DEF AuditInv
<1> QED BY <1>1, <1>2, <1>3, PTL DEF Spec
-----------------------------------------------------------------------------
(* Walks along the edges.                                                  *)

Walk(h, a, b) == h \in Seq(All) /\ h # <<>> /\ Chain(h) /\ h[1] = a /\ h[Len(h)] = b

\* The hops that follow a, up to b.
Steps(a, s, b) == \/ s = <<>> /\ a = b
                  \/ \E c : Legal(a, c) /\ Walk(s, c, b)

\* A set of numbers has a least element.
LEMMA NatMin ==
  ASSUME NEW T \in SUBSET Nat, T # {} PROVE \E m \in T : \A n \in T : m <= n
<1> DEFINE R == OpToRel(<, Nat)
<1>1. IsWellFoundedOn(R, Nat)
  BY NatLessThanWellFounded
<1>2. \A m, n \in Nat : m < n => <<m, n>> \in R
  BY DEF OpToRel
<1> HIDE DEF R
<1>3. PICK m \in T : \A n \in T : ~(<<n, m>> \in R)
  BY <1>1, WFMin
<1>4. ASSUME NEW n \in T PROVE m <= n
  <2>1. m \in Nat /\ n \in Nat /\ ~(n < m)
    BY <1>2, <1>3
  <2> QED BY <2>1
<1> QED BY <1>4

LEMMA NatMax ==
  ASSUME NEW N \in Nat, NEW S \in SUBSET (1..N), S # {} PROVE \E m \in S : \A n \in S : n <= m
<1> DEFINE T == {N - i : i \in S}
<1>1. T \in SUBSET Nat
  <2>1. \A i \in S : N - i \in Nat
    OBVIOUS
  <2> QED BY <2>1
<1>a. T # {}
  OBVIOUS
<1> HIDE DEF T
<1>2. PICK m \in T : \A n \in T : m <= n
  BY <1>1, <1>a, NatMin
<1>3. PICK i \in S : m = N - i
  BY DEF T
<1>4. \A j \in S : N - j \in T
  BY DEF T
<1>5. ASSUME NEW j \in S PROVE j <= i
  <2>1. m <= N - j /\ i \in 1..N /\ j \in 1..N
    BY <1>2, <1>4
  <2> QED BY <2>1, <1>3
<1> QED BY <1>5

LEMMA LegalIn == ASSUME NEW a \in All, NEW b, Legal(a, b) PROVE b \in All
  BY DEF All, Legal, edges

LEMMA TerminalEnds == ASSUME NEW a, Terminal(a) PROVE a \in All /\ \A b : ~Legal(a, b)
  BY DEF Terminal, All, Legal, edges

LEMMA NewIn == "new" \in All
  BY DEF All, edges

LEMMA Glue ==
  ASSUME NEW h, NEW a, NEW b, Walk(h, a, b), NEW t, NEW c, Steps(b, t, c)
  PROVE  Walk(h \o t, a, c)
<1>1. h \in Seq(All) /\ h # <<>> /\ Chain(h) /\ h[1] = a /\ h[Len(h)] = b
  BY DEF Walk
<1>2. CASE t = <<>> /\ b = c
  BY <1>1, <1>2, ConcatEmptySeq
<1>3. ASSUME NEW d, Legal(b, d), Walk(t, d, c) PROVE Walk(h \o t, a, c)
  <2>1. t \in Seq(All) /\ t # <<>> /\ Chain(t) /\ t[1] = d /\ t[Len(t)] = c
    BY <1>3 DEF Walk
  <2>2. Len(h) \in Nat \ {0} /\ Len(t) \in Nat \ {0}
    BY <1>1, <2>1, EmptySeq, LenProperties
  <2> DEFINE u == h \o t
  <2>3. /\ u \in Seq(All) /\ Len(u) = Len(h) + Len(t)
        /\ \A i \in 1 .. Len(h) + Len(t) : u[i] = IF i <= Len(h) THEN h[i] ELSE t[i - Len(h)]
    BY <1>1, <2>1, ConcatProperties
  <2> HIDE DEF u
  <2>4. ASSUME NEW i \in 1 .. Len(u) - 1 PROVE Legal(u[i], u[i + 1])
    <3>0. i \in 1 .. Len(h) + Len(t) /\ i + 1 \in 1 .. Len(h) + Len(t)
      BY <2>2, <2>3
    <3>1. CASE i < Len(h)
      <4>1. u[i] = h[i] /\ u[i + 1] = h[i + 1] /\ i \in 1 .. Len(h) - 1
        BY <3>0, <3>1, <2>2, <2>3
      <4> QED BY <4>1, <1>1 DEF Chain
    <3>2. CASE i = Len(h)
      <4>1. u[i] = b /\ u[i + 1] = t[i + 1 - Len(h)] /\ i + 1 - Len(h) = 1
        BY <3>0, <3>2, <2>2, <2>3, <1>1
      <4> QED BY <4>1, <2>1, <1>3
    <3>3. CASE i > Len(h)
      <4> DEFINE k == i - Len(h)
      <4>1. u[i] = t[k] /\ u[i + 1] = t[i + 1 - Len(h)] /\ i + 1 - Len(h) = k + 1
            /\ k \in 1 .. Len(t) - 1
        BY <3>0, <3>3, <2>2, <2>3
      <4> HIDE DEF k
      <4> QED BY <4>1, <2>1 DEF Chain
    <3> QED BY <3>0, <3>1, <3>2, <3>3, <2>2
  <2>5. u # <<>> /\ u[1] = a /\ u[Len(u)] = c
    <3>1. Len(u) # 0 /\ 1 \in 1 .. Len(h) + Len(t) /\ 1 <= Len(h)
      BY <2>2, <2>3
    <3>2. u[1] = h[1]
      BY <3>1, <2>3
    <3>3. /\ Len(u) \in 1 .. Len(h) + Len(t) /\ ~(Len(u) <= Len(h))
          /\ Len(u) - Len(h) = Len(t)
      BY <2>2, <2>3
    <3>4. u[Len(u)] = t[Len(t)]
      BY <3>3, <2>3
    <3>5. u # <<>>
      BY <3>1, EmptySeq
    <3> QED BY <3>2, <3>4, <3>5, <1>1, <2>1
  <2>6. Chain(u)
    BY <2>4 DEF Chain
  <2> QED BY <2>3, <2>5, <2>6 DEF Walk, u
<1> QED BY <1>2, <1>3 DEF Steps

LEMMA StepsGlue ==
  ASSUME NEW a, NEW s, NEW b, Steps(a, s, b), NEW t, NEW c, Steps(b, t, c)
  PROVE  Steps(a, s \o t, c)
<1>1. t \in Seq(All)
  BY EmptySeq DEF Steps, Walk
<1>2. CASE s = <<>> /\ a = b
  BY <1>1, <1>2, ConcatEmptySeq
<1>3. ASSUME NEW d, Legal(a, d), Walk(s, d, b) PROVE Steps(a, s \o t, c)
  BY <1>3, Glue DEF Steps
<1> QED BY <1>2, <1>3 DEF Steps

LEMMA StaysPut == \A a : Steps(a, <<>>, a)
  BY DEF Steps

LEMMA TerminalStays ==
  ASSUME NEW a, NEW s, NEW b, Terminal(a), Steps(a, s, b) PROVE s = <<>> /\ a = b
  BY TerminalEnds DEF Steps

LEMMA StateIn ==
  ASSUME NEW a \in All, NEW s, NEW b, Steps(a, s, b) PROVE b \in All
<1>1. ASSUME NEW c, Walk(s, c, b) PROVE b \in All
  <2>1. s \in Seq(All) /\ s # <<>> /\ s[Len(s)] = b
    BY <1>1 DEF Walk
  <2>2. Len(s) \in 1 .. Len(s)
    BY <2>1, EmptySeq, LenProperties
  <2> QED BY <2>1, <2>2, ElementOfSeq
<1> QED BY <1>1 DEF Steps

\* Path takes one to the state that is proposed.
LEMMA PathIs ==
  ASSUME NEW a, NEW b, Reachable(a, b) PROVE Steps(a, Path(a, b), b)
<1> DEFINE S == Between(a, b)
           shortest(p) == p \in S /\ \A q \in S : Len(p) <= Len(q)
           p == CHOOSE p \in S : \A q \in S : Len(p) <= Len(q)
<1>1. \A q \in S : q \in Seq(All) /\ Len(q) \in 1 .. 6 /\ Chain(q) /\ q[1] = a /\ q[Len(q)] = b
  <2> SUFFICES ASSUME NEW q \in S
               PROVE  q \in Seq(All) /\ Len(q) \in 1 .. 6 /\ Chain(q) /\ q[1] = a /\ q[Len(q)] = b
    OBVIOUS
  <2>1. q \in Walks /\ q[1] = a /\ q[Len(q)] = b
    BY DEF Between
  <2>2. PICK n \in 1 .. 6 : q \in [1 .. n -> All] /\ Chain(q)
    BY <2>1 DEF Walks
  <2>3. q \in Seq(All) /\ Len(q) = n
    BY <2>2, SeqDef
  <2> QED BY <2>1, <2>2, <2>3
<1>2. S # {}
  BY DEF Reachable
<1> HIDE DEF S
<1>3. \E x \in S : \A q \in S : Len(x) <= Len(q)
  <2> DEFINE T == {Len(q) : q \in S}
  <2>0. \A q \in S : Len(q) \in Nat
    BY <1>1
  <2>1. T \in SUBSET Nat /\ T # {}
    BY <1>2, <2>0
  <2> HIDE DEF T
  <2>2. PICK m \in T : \A n \in T : m <= n
    BY <2>1, NatMin
  <2>3. PICK x \in S : m = Len(x)
    BY DEF T
  <2>4. \A q \in S : Len(q) \in T
    BY DEF T
  <2> QED BY <2>2, <2>3, <2>4
<1>4. p \in S
  BY <1>3
<1>5. Path(a, b) = Tail(p)
  BY DEF Path, S
<1> HIDE DEF p
<1>6. p \in Seq(All) /\ Len(p) \in 1 .. 6 /\ Chain(p) /\ p[1] = a /\ p[Len(p)] = b
  BY <1>1, <1>4
<1> DEFINE s == Tail(p)
<1>7. s \in Seq(All) /\ Len(s) = Len(p) - 1 /\ \A i \in 1 .. Len(s) : s[i] = p[i + 1]
  <2>1. p # <<>>
    BY <1>6, EmptySeq
  <2> QED BY <1>6, <2>1, HeadTailProperties
<1> HIDE DEF s
<1>8. CASE Len(p) = 1
  <2>1. Len(s) = 0 /\ a = b
    BY <1>6, <1>7, <1>8
  <2>2. s = <<>>
    BY <1>7, <2>1, EmptySeq
  <2> QED BY <1>5, <2>1, <2>2 DEF Steps, s
<1>9. CASE Len(p) > 1
  <2>1. Len(s) \in Nat \ {0} /\ 1 \in 1 .. Len(s) /\ 1 \in 1 .. Len(p) - 1
        /\ Len(s) \in 1 .. Len(s) /\ Len(s) + 1 = Len(p)
    BY <1>6, <1>7, <1>9
  <2>2. s[1] = p[1 + 1] /\ s[Len(s)] = b /\ s # <<>>
    BY <1>6, <1>7, <2>1, EmptySeq
  <2>3. Legal(a, s[1])
    BY <1>6, <2>1, <2>2 DEF Chain
  <2>4. ASSUME NEW i \in 1 .. Len(s) - 1 PROVE Legal(s[i], s[i + 1])
    <3>1. i \in 1 .. Len(s) /\ i + 1 \in 1 .. Len(s) /\ i + 1 \in 1 .. Len(p) - 1
      BY <2>1
    <3>2. s[i] = p[i + 1] /\ s[i + 1] = p[i + 1 + 1]
      BY <1>7, <3>1
    <3> QED BY <1>6, <3>1, <3>2 DEF Chain
  <2>5. Walk(s, s[1], b)
    BY <1>7, <2>2, <2>4 DEF Walk, Chain
  <2> QED BY <1>5, <2>3, <2>5 DEF Steps, s
<1>10. Len(p) = 1 \/ Len(p) > 1
  BY <1>6
<1> QED BY ONLY <1>8, <1>9, <1>10

\* What a merge does to the state of a row, and the hops it records.
LEMMA MergeIs ==
  ASSUME NEW row, "state" \in DOMAIN row, row.state \in All, NEW f
  PROVE  LET new == MergeFinding(row, f) IN
         /\ "state" \in DOMAIN new /\ new.state \in All
         /\ Steps(row.state, Hops(row.state, f.state), new.state)
<1> DEFINE new == MergeFinding(row, f)
<1>1. "state" \in DOMAIN new
      /\ new.state = IF Reachable(row.state, f.state) THEN f.state ELSE row.state
  BY DEF MergeFinding
<1> HIDE DEF new
<1>2. Steps(row.state, Hops(row.state, f.state), new.state)
  BY <1>1, PathIs, StaysPut DEF Hops
<1>3. new.state \in All
  BY <1>2, StateIn
<1> QED BY <1>1, <1>2, <1>3 DEF new

LEMMA NewIs ==
  ASSUME NEW b, NEW f
  PROVE  LET new == NewFinding(b, f) IN
         /\ "state" \in DOMAIN new /\ new.state \in All
         /\ Walk(<<"new">> \o Hops("new", f.state), "new", new.state)
<1> DEFINE row == [tenant |-> b.tenant, fp |-> f.fp, state |-> "new", occ |-> 0,
                   held |-> FALSE, evidence |-> "none"]
           new == MergeFinding(row, f)
<1>1. "state" \in DOMAIN row /\ row.state = "new"
  OBVIOUS
<1>2. NewFinding(b, f) = new
  BY DEF NewFinding
<1> HIDE DEF row
<1>3. /\ "state" \in DOMAIN new /\ new.state \in All
      /\ Steps("new", Hops("new", f.state), new.state)
  BY <1>1, NewIn, MergeIs
<1>4. Walk(<<"new">>, "new", "new")
  BY NewIn DEF Walk, Chain
<1> HIDE DEF new
<1> QED BY <1>2, <1>3, <1>4, Glue
-----------------------------------------------------------------------------
(* The findings and their transitions.                                     *)

Row(r) == "state" \in DOMAIN r /\ r.state \in All

Stored == /\ DOMAIN findings \subseteq 1 .. MaxFinding /\ DOMAIN hist = DOMAIN findings
          /\ \A i \in DOMAIN findings : Row(findings[i])

Certified(i) == \E n \in DOMAIN outbox : outbox[n].what = "retention.purge"
                                         /\ i \in outbox[n].about
Told(i) == \/ Walk(hist[i], "new", findings[i].state)
           \/ hist[i] = <<>> /\ Terminal(findings[i].state) /\ Certified(i)
Histories == \A i \in DOMAIN findings : Told(i)

\* What a transaction will write: the rows it has merged are locked and its
\* hops start where they are, the rows it has made have a history of their own.
Entry(t, i) ==
  /\ i \in 1 .. MaxFinding /\ Row(t.findings[i])
  /\ i \in DOMAIN findings => /\ <<"finding", i>> \in t.locks
                              /\ Steps(findings[i].state, t.hops[i], t.findings[i].state)
  /\ i \notin DOMAIN findings => Walk(t.hops[i], "new", t.findings[i].state)
Work(t) == /\ DOMAIN t.hops = DOMAIN t.findings
           /\ \A i \in DOMAIN t.findings : Entry(t, i)
Buffers == \A w \in Worker : Open(w) => Work(tx[w])

Mine(w) == IF Open(w) THEN DOMAIN tx[w].findings ELSE {}
Apart == \A v, w \in Worker : v # w => Mine(v) \cap Mine(w) = {}

\* The findings of a purge that has begun stay terminal until they go.
Sweeping ==
  /\ "stage" \in DOMAIN sweep
  /\ sweep.stage \in {"audit", "delete"} =>
        /\ "ids" \in DOMAIN sweep /\ sweep.ids \subseteq DOMAIN findings
        /\ \A i \in sweep.ids : Terminal(findings[i].state)
        /\ sweep.stage = "delete" => \A i \in sweep.ids : Certified(i)

HistInv == Stored /\ Histories /\ Buffers /\ Apart /\ Sweeping

LEMMA CertifiedStays == ASSUME Grows, NEW i, Certified(i) PROVE Certified(i)'
<1>1. PICK n \in DOMAIN outbox : outbox[n].what = "retention.purge" /\ i \in outbox[n].about
  BY DEF Certified
<1>2. n \in DOMAIN outbox' /\ outbox'[n].what = "retention.purge" /\ i \in outbox'[n].about
  BY <1>1 DEF Grows
<1> QED BY <1>2 DEF Certified

LEMMA RowsKept ==
  ASSUME Stored, Histories, Grows, UNCHANGED <<findings, hist>> PROVE Stored' /\ Histories'
<1>1. \A i : Certified(i) => Certified(i)'
  BY CertifiedStays
<1> QED BY <1>1 DEF Stored, Histories, Told

LEMMA SweepKept ==
  ASSUME Sweeping, Grows, sweep' = sweep,
         \A i \in DOMAIN findings : /\ i \in DOMAIN findings'
                                    /\ Terminal(findings[i].state) => Terminal(findings'[i].state)
  PROVE  Sweeping'
<1>1. \A i : Certified(i) => Certified(i)'
  BY CertifiedStays
<1> QED BY <1>1 DEF Sweeping

\* The rows that a transaction has in hand are not touched.
LEMMA WorkKept ==
  ASSUME NEW t, Work(t),
         \A i \in DOMAIN t.findings :
            /\ i \in DOMAIN findings' <=> i \in DOMAIN findings
            /\ i \in DOMAIN findings => findings'[i].state = findings[i].state
  PROVE  /\ DOMAIN t.hops = DOMAIN t.findings
         /\ \A i \in DOMAIN t.findings :
              /\ i \in 1 .. MaxFinding /\ Row(t.findings[i])
              /\ i \in DOMAIN findings' =>
                    /\ <<"finding", i>> \in t.locks
                    /\ Steps(findings'[i].state, t.hops[i], t.findings[i].state)
              /\ i \notin DOMAIN findings' => Walk(t.hops[i], "new", t.findings[i].state)
  BY DEF Work, Entry

LEMMA OthersKept ==
  ASSUME Buffers, Apart, tx' = tx,
         \A w \in Worker : \A i \in Mine(w) :
            /\ i \in DOMAIN findings' <=> i \in DOMAIN findings
            /\ i \in DOMAIN findings => findings'[i].state = findings[i].state
  PROVE  Buffers' /\ Apart'
<1>1. ASSUME NEW w \in Worker, Open(w)' PROVE Work(tx[w])'
  <2>1. PICK t : t = tx[w]
    OBVIOUS
  <2>2. Open(w) /\ Work(t) /\ Mine(w) = DOMAIN t.findings /\ tx'[w] = t
    BY <1>1, <2>1 DEF Open, Buffers, Mine
  <2>3. \A i \in DOMAIN t.findings :
            /\ i \in DOMAIN findings' <=> i \in DOMAIN findings
            /\ i \in DOMAIN findings => findings'[i].state = findings[i].state
    BY <2>2
  <2> QED BY <2>2, <2>3, WorkKept DEF Work, Entry
<1>2. Apart'
  BY DEF Apart, Mine, Open
<1> QED BY <1>1, <1>2 DEF Buffers

\* The transaction of w becomes t, and nothing is written.
LEMMA TxOnly ==
  ASSUME TxInv, HistInv, Grows, UNCHANGED <<findings, hist, sweep>>,
         NEW w \in Worker, NEW t, tx' = [tx EXCEPT ![w] = t],
         t.stage = "open" => /\ Work(t)
                             /\ \A v \in Worker \ {w} : DOMAIN t.findings \cap Mine(v) = {}
  PROVE  HistInv'
<1>1. DOMAIN tx' = Worker /\ \A v \in Worker : tx'[v] = IF v = w THEN t ELSE tx[v]
  BY DEF TxInv, TxShape
<1>2. \A x : Work(x) => Work(x)'
  BY DEF Work, Entry
<1>3. ASSUME NEW v \in Worker, Open(v)' PROVE Work(tx[v])'
  <2>1. PICK x : x = tx'[v]
    OBVIOUS
  <2>2. Work(x)
    BY <1>1, <1>3, <2>1 DEF HistInv, Buffers, Open
  <2>3. Work(x)'
    BY <1>2, <2>2
  <2> QED BY <2>1, <2>3 DEF Work, Entry
<1>4. \A v \in Worker \ {w} : Mine(v)' = Mine(v)
  BY <1>1 DEF Mine, Open
<1>5. Mine(w)' = IF t.stage = "open" THEN DOMAIN t.findings ELSE {}
  BY <1>1 DEF Mine, Open
<1>6. ASSUME NEW v \in Worker, NEW u \in Worker, v # u PROVE Mine(v)' \cap Mine(u)' = {}
  <2>1. CASE v # w /\ u # w
    BY <2>1, <1>4, <1>6 DEF HistInv, Apart
  <2>2. CASE v = w
    BY <2>2, <1>4, <1>5, <1>6
  <2>3. CASE u = w
    BY <2>3, <1>4, <1>5, <1>6
  <2> QED BY <2>1, <2>2, <2>3
<1>7. Stored' /\ Histories'
  BY RowsKept DEF HistInv
<1>8. Sweeping'
  BY SweepKept DEF HistInv
<1> QED BY <1>3, <1>6, <1>7, <1>8 DEF HistInv, Buffers, Apart

\* ... and t writes what the transaction wrote, under its locks.
LEMMA TxQuiet ==
  ASSUME TxInv, HistInv, Grows, UNCHANGED <<findings, hist, sweep>>,
         NEW w \in Worker, NEW t, tx' = [tx EXCEPT ![w] = t],
         t.stage = "open" => /\ Open(w) /\ tx[w].locks \subseteq t.locks
                             /\ t.findings = tx[w].findings /\ t.hops = tx[w].hops
  PROVE  HistInv'
<1>1. ASSUME t.stage = "open"
      PROVE  Work(t) /\ \A v \in Worker \ {w} : DOMAIN t.findings \cap Mine(v) = {}
  <2>1. Work(tx[w]) /\ Mine(w) = DOMAIN t.findings
    BY <1>1 DEF HistInv, Buffers, Mine
  <2>2. Work(t)
    BY <1>1, <2>1 DEF Work, Entry
  <2> QED BY <2>1, <2>2 DEF HistInv, Apart
<1> QED BY <1>1, TxOnly

\* The rows of a transaction that goes on.
Goes(w, t) == t.stage = "open" => /\ Open(w) /\ tx[w].locks \subseteq t.locks
                                  /\ t.findings = tx[w].findings /\ t.hops = tx[w].hops

LEMMA IdleGoes == ASSUME NEW w PROVE Goes(w, Idle)
  BY IdleWork DEF Goes

LEMMA DeliverHist ==
  ASSUME world \in Scenario, TxInv, HistInv, Grows, NEW w \in Worker, NEW m \in Sent, Deliver(w, m)
  PROVE  HistInv'
<1>1. UNCHANGED <<findings, hist, sweep>>
  BY DEF Deliver, store
<1>2. CASE tx' = tx
  <2>1. Buffers' /\ Apart'
    BY <1>1, <1>2, OthersKept DEF HistInv
  <2> QED BY <1>1, <2>1, RowsKept, SweepKept DEF HistInv
<1>3. ASSUME NEW b, NEW good \in BOOLEAN, IsList(b.assets), IsList(b.findings),
             tx' = [tx EXCEPT ![w] = Begun(w, m, b, good)]
      PROVE  HistInv'
  <2> DEFINE t == Begun(w, m, b, good)
  <2>1. t.findings = Empty /\ t.hops = Empty
    BY <1>3, BegunIs
  <2>2. DOMAIN Empty = {}
    BY DEF Empty
  <2> HIDE DEF t
  <2>3. Work(t) /\ \A v \in Worker \ {w} : DOMAIN t.findings \cap Mine(v) = {}
    BY <2>1, <2>2 DEF Work
  <2>4. tx' = [tx EXCEPT ![w] = t]
    BY <1>3 DEF t
  <2> QED BY <1>1, <2>3, <2>4, TxOnly
<1> QED BY <1>2, <1>3, DeliverDoes

LEMMA QuietHist ==
  ASSUME TxInv, HistInv, Grows, NEW w \in Worker,
         \/ RejectBatch(w) \/ AuditRejected(w) \/ BeginBatch(w)
         \/ UpsertAsset(w) \/ InsertAsset(w)
         \/ PublishChanges(w) \/ DeadlockVictim(w) \/ StatementFails(w)
  PROVE  HistInv'
<1>1. UNCHANGED <<findings, hist, sweep>>
  BY DEF RejectBatch, AuditRejected, BeginBatch, UpsertAsset, InsertAsset, PublishChanges,
         DeadlockVictim, StatementFails, store
<1>2. ASSUME NEW t, tx' = [tx EXCEPT ![w] = t], Goes(w, t) PROVE HistInv'
  BY <1>1, <1>2, TxQuiet DEF Goes
<1>3. CASE tx' = [tx EXCEPT ![w] = Idle]
  BY <1>2, <1>3, IdleGoes
<1>4. CASE RejectBatch(w)
  <2> DEFINE t == [tx[w] EXCEPT !.stage = "rejected"]
  <2>1. tx[w].stage = "reject" /\ tx' = [tx EXCEPT ![w] = t]
    BY <1>4 DEF RejectBatch, TxInv, TxShape
  <2>2. DOMAIN tx[w] = WorkFields
    BY <2>1, IdleWork DEF TxInv, TxShape, IsWork
  <2>3. t.stage = "rejected"
    BY <2>2 DEF WorkFields
  <2> HIDE DEF t
  <2> QED BY <1>2, <2>1, <2>3 DEF Goes
<1>5. CASE BeginBatch(w) /\ tx' = [tx EXCEPT ![w] = Step(w)]
  <2>1. Open(w)
    BY <1>5 DEF BeginBatch, Ready
  <2>2. Goes(w, Step(w))
    BY <2>1, StepIs DEF Goes
  <2> QED BY <1>2, <1>5, <2>2
<1>6. ASSUME NEW a, Open(w), tx' = [tx EXCEPT ![w] = [Step(w) EXCEPT !.assets = a]] PROVE HistInv'
  <2> DEFINE t == [Step(w) EXCEPT !.assets = a]
  <2>1. t.locks = tx[w].locks \cup Needs(w) /\ t.findings = tx[w].findings
        /\ t.hops = tx[w].hops
    BY <1>6, StepIs DEF WorkFields
  <2>2. tx' = [tx EXCEPT ![w] = t]
    BY <1>6
  <2> HIDE DEF t
  <2> QED BY <1>2, <1>6, <2>1, <2>2 DEF Goes
<1>7. ASSUME NEW l, Open(w), tx' = [tx EXCEPT ![w] = [tx[w] EXCEPT !.todo = l]] PROVE HistInv'
  <2> DEFINE t == [tx[w] EXCEPT !.todo = l]
  <2>1. t.locks = tx[w].locks /\ t.findings = tx[w].findings /\ t.hops = tx[w].hops
    BY <1>7, StepIs DEF WorkFields
  <2>2. tx' = [tx EXCEPT ![w] = t]
    BY <1>7
  <2> HIDE DEF t
  <2> QED BY <1>2, <1>7, <2>1, <2>2 DEF Goes
<1>8. CASE UpsertAsset(w)
  <2>1. \/ \E a : tx' = [tx EXCEPT ![w] = [Step(w) EXCEPT !.assets = a]]
        \/ \E l : tx' = [tx EXCEPT ![w] = [tx[w] EXCEPT !.todo = l]]
    BY <1>8 DEF UpsertAsset, TxInv, TxShape
  <2> QED BY <1>6, <1>7, <1>8, <2>1 DEF UpsertAsset, Ready
<1>9. CASE InsertAsset(w)
  <2>1. \/ \E a : tx' = [tx EXCEPT ![w] = [Step(w) EXCEPT !.assets = a]]
        \/ tx' = [tx EXCEPT ![w] = Idle]
    BY <1>9 DEF InsertAsset
  <2> QED BY <1>3, <1>6, <1>9, <2>1 DEF InsertAsset, Ready
<1>10. CASE BeginBatch(w)
  BY <1>3, <1>5, <1>10 DEF BeginBatch
<1>11. CASE AuditRejected(w) \/ PublishChanges(w) \/ DeadlockVictim(w) \/ StatementFails(w)
  BY <1>3, <1>11 DEF AuditRejected, PublishChanges, DeadlockVictim, StatementFails
<1> QED BY <1>4, <1>8, <1>9, <1>10, <1>11

-----------------------------------------------------------------------------
(* A row is merged or made.                                                *)

\* The rows of a transaction with one more.
LEMMA BufferedIs ==
  ASSUME TxInv, NEW w \in Worker, Open(w), DOMAIN tx[w].hops = DOMAIN tx[w].findings,
         NEW i, NEW row, NEW hops, NEW evs
  PROVE  LET t == Buffered(w, i, row, hops, evs) IN
         /\ t.locks = tx[w].locks \cup Needs(w) /\ t.batch = tx[w].batch
         /\ t.todo = Tail(tx[w].todo) /\ t.assets = tx[w].assets
         /\ DOMAIN t.findings = DOMAIN tx[w].findings \cup {i} /\ DOMAIN t.hops = DOMAIN t.findings
         /\ t.findings[i] = row /\ t.hops[i] = hops
         /\ \A j \in DOMAIN tx[w].findings \ {i} : /\ t.findings[j] = tx[w].findings[j]
                                                   /\ t.hops[j] = tx[w].hops[j]
<1> DEFINE t == Buffered(w, i, row, hops, evs)
<1>1. PICK f, h, e : /\ f = Over(One(i, row), Step(w).findings)
                     /\ h = Over(One(i, hops), Step(w).hops)
                     /\ e = Step(w).evs \cup evs
  OBVIOUS
<1>2. t = [Step(w) EXCEPT !.findings = f, !.hops = h, !.evs = e]
  BY <1>1 DEF Buffered
<1>3. /\ DOMAIN Step(w) = WorkFields /\ Step(w).locks = tx[w].locks \cup Needs(w)
      /\ Step(w).findings = tx[w].findings /\ Step(w).hops = tx[w].hops
      /\ Step(w).todo = Tail(tx[w].todo) /\ Step(w).assets = tx[w].assets
      /\ Step(w).batch = tx[w].batch
  BY StepIs
<1>4. /\ t.locks = tx[w].locks \cup Needs(w) /\ t.findings = f /\ t.hops = h
      /\ t.todo = Tail(tx[w].todo) /\ t.assets = tx[w].assets /\ t.batch = tx[w].batch
  BY <1>2, <1>3 DEF WorkFields
<1> HIDE DEF t
<1>a. PICK g : g = Step(w).findings
  OBVIOUS
<1>b. PICK k : k = Step(w).hops
  OBVIOUS
<1>c. f = Over(One(i, row), g) /\ h = Over(One(i, hops), k)
  BY <1>1, <1>a, <1>b
<1>6. DOMAIN f = DOMAIN g \cup {i} /\ f[i] = row /\ \A j \in DOMAIN g \ {i} : f[j] = g[j]
  BY <1>c DEF One, Over
<1>7. DOMAIN h = DOMAIN k \cup {i} /\ h[i] = hops /\ \A j \in DOMAIN k \ {i} : h[j] = k[j]
  BY <1>c DEF One, Over
<1> QED BY <1>3, <1>4, <1>6, <1>7, <1>a, <1>b DEF t

LEMMA BufferHist ==
  ASSUME TxInv, HistInv, Grows, NEW w \in Worker, Open(w),
         UNCHANGED <<findings, hist, sweep>>,
         NEW i \in 1 .. MaxFinding, NEW row, NEW hops, NEW evs, Row(row),
         tx' = [tx EXCEPT ![w] = Buffered(w, i, row, hops, evs)],
         \A v \in Worker \ {w} : i \notin Mine(v),
         i \in DOMAIN findings => /\ <<"finding", i>> \in tx[w].locks \cup Needs(w)
                                  /\ Steps(findings[i].state, hops, row.state),
         i \notin DOMAIN findings => Walk(hops, "new", row.state)
  PROVE  HistInv'
<1> DEFINE t == Buffered(w, i, row, hops, evs)
<1>1. Work(tx[w])
  BY DEF HistInv, Buffers
<1>2. /\ t.locks = tx[w].locks \cup Needs(w)
      /\ DOMAIN t.findings = DOMAIN tx[w].findings \cup {i} /\ DOMAIN t.hops = DOMAIN t.findings
      /\ t.findings[i] = row /\ t.hops[i] = hops
      /\ \A j \in DOMAIN tx[w].findings \ {i} : /\ t.findings[j] = tx[w].findings[j]
                                                /\ t.hops[j] = tx[w].hops[j]
  BY <1>1, BufferedIs DEF Work
<1>3. tx' = [tx EXCEPT ![w] = t]
  OBVIOUS
<1> HIDE DEF t
<1>4. Entry(t, i)
  BY <1>2 DEF Entry
<1>5. \A j \in DOMAIN tx[w].findings \ {i} : Entry(t, j)
  BY <1>1, <1>2 DEF Work, Entry
<1>6. Work(t)
  BY <1>2, <1>4, <1>5 DEF Work
<1>7. \A v \in Worker \ {w} : DOMAIN t.findings \cap Mine(v) = {}
  BY <1>2 DEF HistInv, Apart, Mine
<1> QED BY <1>3, <1>6, <1>7, TxOnly

\* The row of the fingerprint: committed, or the transaction's own.
LEMMA MatchIs ==
  ASSUME HistInv, NEW w \in Worker, Open(w), NEW b, NEW f, Match(w, b, f) # {}
  PROVE  LET i == Newest(Match(w, b, f)) IN
         /\ i \in 1 .. MaxFinding /\ (i \in DOMAIN findings \/ i \in DOMAIN tx[w].findings)
         /\ i \in Match(w, b, f)
<1> DEFINE S == Match(w, b, f)
<1>1. \A i \in S : i \in DOMAIN findings \/ i \in DOMAIN tx[w].findings
  BY DEF Match, Same, Own
<1>2. S \in SUBSET (1 .. MaxFinding)
  BY <1>1 DEF HistInv, Stored, Buffers, Work, Entry
<1> HIDE DEF S
<1>3. \E m \in S : \A n \in S : n <= m
  BY <1>2, WorldsAreSound, NatMax DEF S
<1>4. Newest(S) \in S
  BY <1>3 DEF Newest
<1> QED BY <1>1, <1>2, <1>4 DEF S

LEMMA FindingHist ==
  ASSUME TxInv, HistInv, Grows, NEW w \in Worker, UpsertFinding(w) PROVE HistInv'
<1> DEFINE b == tx[w].batch
           f == Head(tx[w].todo)[2]
           S == Match(w, b, f)
<1>1. /\ Ready(w) /\ Head(tx[w].todo)[1] = "finding"
      /\ UNCHANGED <<findings, hist, sweep>>
  BY DEF UpsertFinding, store
<1>2. Open(w) /\ \A v \in Worker \ {w} : Needs(w) \cap Locks(v) = {}
  BY <1>1 DEF Ready, Waits
<1>3. Work(tx[w]) /\ Mine(w) = DOMAIN tx[w].findings
  BY <1>2 DEF HistInv, Buffers, Mine
<1>4. CASE tx' = [tx EXCEPT ![w] = Idle]
  BY <1>1, <1>4, IdleGoes, TxQuiet DEF Goes
<1>5. ASSUME NEW i, NEW evs, S # {}, i = Newest(S),
             tx' = [tx EXCEPT ![w] =
                      Buffered(w, i, MergeFinding(Finding(w, i), f),
                               Walked(w, i) \o Hops(Finding(w, i).state, f.state), evs)]
      PROVE  HistInv'
  <2> DEFINE old == Finding(w, i)
             row == MergeFinding(old, f)
             more == Hops(old.state, f.state)
             hops == Walked(w, i) \o more
  <2>1. i \in 1 .. MaxFinding /\ (i \in DOMAIN findings \/ i \in DOMAIN tx[w].findings)
    BY <1>2, <1>5, MatchIs
  <2>2. Needs(w) = {<<"finding", i>>}
    BY <1>1, <1>5 DEF Needs
  <2>3. Row(old)
    BY <1>3, <2>1 DEF Finding, Work, Entry, HistInv, Stored
  <2>4. Row(row) /\ Steps(old.state, more, row.state)
    BY <2>3, MergeIs DEF Row
  <2> HIDE DEF row, more
  <2>5. ASSUME NEW v \in Worker \ {w} PROVE i \notin Mine(v)
    <3>1. CASE i \in DOMAIN tx[w].findings
      BY <3>1, <1>3 DEF HistInv, Apart
    <3>2. CASE i \in DOMAIN findings /\ i \in Mine(v)
      <4>1. Open(v) /\ i \in DOMAIN tx[v].findings
        BY <3>2 DEF Mine
      <4>2. <<"finding", i>> \in Locks(v)
        BY <4>1, <3>2 DEF HistInv, Buffers, Work, Entry, Locks
      <4> QED BY <4>2, <1>2, <2>2
    <3> QED BY <2>1, <3>1, <3>2
  <2>6. ASSUME i \in DOMAIN findings PROVE Steps(findings[i].state, hops, row.state)
    <3>1. Steps(findings[i].state, Walked(w, i), old.state)
      BY <1>3, <2>6, StaysPut DEF Walked, Finding, Work, Entry
    <3> QED BY <3>1, <2>4, StepsGlue
  <2>7. ASSUME i \notin DOMAIN findings PROVE Walk(hops, "new", row.state)
    <3>1. Walk(Walked(w, i), "new", old.state)
      BY <1>3, <2>1, <2>7 DEF Walked, Finding, Work, Entry
    <3> QED BY <3>1, <2>4, Glue
  <2>8. tx' = [tx EXCEPT ![w] = Buffered(w, i, row, hops, evs)]
    BY <1>5 DEF row, more
  <2> HIDE DEF hops
  <2> QED BY <1>1, <1>2, <2>1, <2>2, <2>4, <2>5, <2>6, <2>7, <2>8, BufferHist
<1>6. ASSUME NEW i \in FreshId, NEW evs,
             tx' = [tx EXCEPT ![w] =
                      Buffered(w, i, NewFinding(b, f),
                               Walked(w, i) \o (<<"new">> \o Hops("new", f.state)), evs)]
      PROVE  HistInv'
  <2> DEFINE row == NewFinding(b, f)
             first == <<"new">> \o Hops("new", f.state)
             hops == Walked(w, i) \o first
  <2>1. /\ i \in 1 .. MaxFinding /\ i \notin DOMAIN findings
        /\ \A v \in Worker : i \notin Mine(v)
    BY DEF FreshId, Used, Mine
  <2>2. Row(row) /\ Walk(first, "new", row.state)
    BY NewIs DEF Row
  <2> HIDE DEF row, first
  <2>3. Walked(w, i) = <<>>
    BY <1>3, <2>1 DEF Walked, Work
  <2>4. Walk(hops, "new", row.state)
    BY <2>2, <2>3, ConcatEmptySeq DEF Walk
  <2>5. tx' = [tx EXCEPT ![w] = Buffered(w, i, row, hops, evs)]
    BY <1>6 DEF row, first
  <2> HIDE DEF hops
  <2> QED BY <1>1, <1>2, <2>1, <2>2, <2>4, <2>5, BufferHist
<1> QED BY <1>4, <1>5, <1>6, UpsertFindingDoes
-----------------------------------------------------------------------------
(* The commit, and what the operators and the sweep do.                    *)

LEMMA CommitHist ==
  ASSUME TxInv, HistInv, Grows, NEW w \in Worker, Commit(w) PROVE HistInv'
<1> DEFINE T == tx[w].findings
           t == [tx[w] EXCEPT !.stage = "publish", !.locks = {}]
<1>1. /\ Open(w) /\ sweep' = sweep
      /\ findings' = Over(T, findings)
      /\ hist' = [i \in DOMAIN findings' |->
                    (IF i \in DOMAIN hist THEN hist[i] ELSE <<>>) \o Walked(w, i)]
      /\ tx' = [tx EXCEPT ![w] = t]
  BY DEF Commit, TxInv, TxShape
<1>2. DOMAIN tx[w] = WorkFields /\ t.stage = "publish"
  BY <1>1, StepIs DEF WorkFields
<1>3. /\ DOMAIN findings' = DOMAIN T \cup DOMAIN findings
      /\ \A i \in DOMAIN T : findings'[i] = T[i]
      /\ \A i \in DOMAIN findings \ DOMAIN T : findings'[i] = findings[i]
  BY <1>1 DEF Over
<1>4. /\ Work(tx[w]) /\ Mine(w) = DOMAIN T /\ DOMAIN tx[w].hops = DOMAIN T
      /\ Stored /\ Histories /\ Apart /\ Buffers
  BY <1>1 DEF HistInv, Buffers, Mine, Work
<1>5. \A i \in DOMAIN T : /\ Entry(tx[w], i) /\ Walked(w, i) = tx[w].hops[i]
                          /\ T[i] = tx[w].findings[i]
  BY <1>4 DEF Work, Walked
<1>6. \A v \in Worker : tx'[v] = IF v = w THEN t ELSE tx[v]
  BY <1>1 DEF TxInv, TxShape
<1> HIDE DEF T, t
<1>7. \A i \in DOMAIN findings : Steps(findings[i].state, Walked(w, i), findings'[i].state)
  <2> SUFFICES ASSUME NEW i \in DOMAIN findings
               PROVE  Steps(findings[i].state, Walked(w, i), findings'[i].state)
    OBVIOUS
  <2>1. CASE i \in DOMAIN T
    BY <2>1, <1>3, <1>5 DEF Entry
  <2>2. CASE i \notin DOMAIN T
    BY <2>2, <1>3, <1>4, StaysPut DEF Walked
  <2> QED BY <2>1, <2>2
<1>8. Stored'
  <2>1. DOMAIN findings' \subseteq 1 .. MaxFinding
    BY <1>3, <1>4, <1>5 DEF Stored, Entry
  <2>2. \A i \in DOMAIN findings' : Row(findings'[i])
    BY <1>3, <1>4, <1>5 DEF Stored, Entry
  <2>3. DOMAIN hist' = DOMAIN findings'
    BY <1>1
  <2> QED BY <2>1, <2>2, <2>3 DEF Stored
<1>9. ASSUME NEW i \in DOMAIN findings' PROVE Told(i)'
  <2>1. CASE i \in DOMAIN findings /\ Walk(hist[i], "new", findings[i].state)
    <3>1. hist'[i] = hist[i] \o Walked(w, i)
      BY <2>1, <1>1, <1>4 DEF Stored
    <3> QED BY <2>1, <3>1, <1>7, Glue DEF Told
  <2>2. CASE i \in DOMAIN findings /\ hist[i] = <<>> /\ Terminal(findings[i].state)
             /\ Certified(i)
    <3>1. hist'[i] = <<>> \o Walked(w, i)
      BY <2>2, <1>1, <1>4 DEF Stored
    <3>2. Walked(w, i) = <<>> /\ findings'[i].state = findings[i].state
      BY <2>2, <1>7, TerminalStays
    <3>3. hist'[i] = <<>>
      BY <3>1, <3>2, EmptySeq, ConcatEmptySeq
    <3> QED BY <2>2, <3>2, <3>3, CertifiedStays DEF Told
  <2>3. CASE i \notin DOMAIN findings
    <3>1. i \in DOMAIN T
      BY <2>3, <1>3
    <3>2. Walk(Walked(w, i), "new", findings'[i].state)
      BY <2>3, <3>1, <1>3, <1>5 DEF Entry
    <3>3. hist'[i] = <<>> \o Walked(w, i)
      BY <2>3, <1>1, <1>4 DEF Stored
    <3>4. hist'[i] = Walked(w, i)
      BY <3>2, <3>3, ConcatEmptySeq DEF Walk
    <3> QED BY <3>2, <3>4 DEF Told
  <2> QED BY <2>1, <2>2, <2>3, <1>4 DEF Histories, Told
<1>10. ASSUME NEW v \in Worker, Open(v)' PROVE Work(tx[v])'
  <2>1. PICK x : x = tx[v]
    OBVIOUS
  <2>2. v # w /\ Open(v) /\ tx'[v] = x
    BY <1>2, <1>6, <1>10, <2>1 DEF Open, t
  <2>3. Work(x) /\ Mine(v) = DOMAIN x.findings
    BY <1>4, <2>1, <2>2 DEF Buffers, Mine
  <2>4. \A i \in DOMAIN x.findings : i \notin DOMAIN T
    BY <1>4, <2>2, <2>3 DEF Apart
  <2>5. \A i \in DOMAIN x.findings :
            /\ i \in DOMAIN findings' <=> i \in DOMAIN findings
            /\ i \in DOMAIN findings => findings'[i].state = findings[i].state
    BY <1>3, <2>4
  <2> QED BY <2>2, <2>3, <2>5, WorkKept DEF Work, Entry
<1>11. Apart'
  <2>1. \A v \in Worker : Mine(v)' \subseteq Mine(v)
    BY <1>2, <1>6 DEF Mine, Open, t
  <2>2. \A v, u \in Worker : v # u => Mine(v)' \cap Mine(u)' = {}
    BY <1>4, <2>1 DEF Apart
  <2> QED BY <2>2 DEF Apart
<1>12. Sweeping'
  <2>1. \A i \in DOMAIN findings : /\ i \in DOMAIN findings'
                                   /\ Terminal(findings[i].state) => Terminal(findings'[i].state)
    BY <1>3, <1>7, TerminalStays
  <2> QED BY <1>1, <2>1, SweepKept DEF HistInv
<1> QED BY <1>8, <1>9, <1>10, <1>11, <1>12 DEF HistInv, Histories, Buffers

\* A row that no transaction has locked is in nobody's hands.
LEMMA UnlockedIs ==
  ASSUME HistInv, NEW i \in DOMAIN findings, Unlocked(i)
  PROVE  \A w \in Worker : i \notin Mine(w)
  BY DEF HistInv, Buffers, Work, Entry, Mine, Unlocked, Locks

LEMMA TransitionHist ==
  ASSUME TxInv, HistInv, Grows, NEW i, Transition(i) PROVE HistInv'
<1>1. PICK to : /\ i \in DOMAIN findings /\ Unlocked(i) /\ Legal(findings[i].state, to)
                /\ findings' = [findings EXCEPT ![i].state = to]
                /\ hist' = [hist EXCEPT ![i] = Append(@, to)]
                /\ UNCHANGED <<tx, sweep>>
  BY DEF Transition
<1>2. Stored /\ Histories /\ Row(findings[i]) /\ to \in All
  BY <1>1, LegalIn DEF HistInv, Stored, Row
<1>3. /\ DOMAIN findings' = DOMAIN findings /\ DOMAIN hist' = DOMAIN findings
      /\ findings'[i] = [findings[i] EXCEPT !.state = to]
      /\ hist'[i] = Append(hist[i], to)
      /\ \A j \in DOMAIN findings \ {i} : findings'[j] = findings[j] /\ hist'[j] = hist[j]
  BY <1>1, <1>2 DEF Stored
<1>4. Row(findings'[i]) /\ findings'[i].state = to
  BY <1>2, <1>3 DEF Row
<1>5. Stored'
  BY <1>2, <1>3, <1>4 DEF Stored
<1>6. Walk(hist'[i], "new", to)
  <2>1. Walk(hist[i], "new", findings[i].state)
    BY <1>1, <1>2, TerminalEnds DEF Histories, Told
  <2>2. Walk(<<to>>, to, to)
    BY <1>2 DEF Walk, Chain
  <2>3. Steps(findings[i].state, <<to>>, to)
    BY <1>1, <2>2 DEF Steps
  <2>4. Walk(hist[i] \o <<to>>, "new", to)
    BY <2>1, <2>3, Glue
  <2>5. Append(hist[i], to) = hist[i] \o <<to>>
    BY <2>1, <1>2, AppendIsConcat DEF Walk
  <2> QED BY <1>3, <2>4, <2>5
<1>7. Histories'
  <2>1. \A j : Certified(j) => Certified(j)'
    BY CertifiedStays
  <2>2. ASSUME NEW j \in DOMAIN findings PROVE Told(j)'
    BY <1>2, <1>3, <1>4, <1>6, <2>1 DEF Histories, Told
  <2> QED BY <1>3, <2>2 DEF Histories
<1>8. Buffers' /\ Apart'
  <2>1. \A w \in Worker : i \notin Mine(w)
    BY <1>1, UnlockedIs
  <2>2. \A w \in Worker : \A j \in Mine(w) :
            /\ j \in DOMAIN findings' <=> j \in DOMAIN findings
            /\ j \in DOMAIN findings => findings'[j].state = findings[j].state
    BY <1>3, <2>1
  <2> QED BY <1>1, <2>2, OthersKept DEF HistInv
<1>9. Sweeping'
  <2>1. \A j \in DOMAIN findings : Terminal(findings[j].state) => Terminal(findings'[j].state)
    BY <1>1, <1>3, TerminalEnds
  <2> QED BY <1>1, <1>3, <2>1, SweepKept DEF HistInv
<1> QED BY <1>5, <1>7, <1>8, <1>9 DEF HistInv

\* A step that touches neither the findings nor their transitions nor what the
\* transactions hold.
LEMMA Elsewhere ==
  ASSUME HistInv, Grows, UNCHANGED <<findings, hist, tx>>, Sweeping' PROVE HistInv'
<1>1. Buffers' /\ Apart'
  BY OthersKept DEF HistInv
<1> QED BY <1>1, RowsKept DEF HistInv

LEMMA DeleteHist ==
  ASSUME TxInv, HistInv, Grows, DeleteFinding
  PROVE  /\ HistInv'
         /\ \A i \in DOMAIN findings \ DOMAIN findings' :
              Terminal(findings[i].state) /\ Certified(i)
<1>1. PICK i \in sweep.ids :
          \/ /\ hist[i] # <<>> /\ hist' = [hist EXCEPT ![i] = <<>>]
             /\ UNCHANGED <<findings, sweep>>
          \/ /\ hist[i] = <<>> /\ Unlocked(i)
             /\ LET kept == DOMAIN findings \ {i}
                IN  findings' = [j \in kept |-> findings[j]] /\ hist' = [j \in kept |-> hist[j]]
             /\ sweep' = IF sweep.ids = {i} THEN [stage |-> "evidence"]
                         ELSE [sweep EXCEPT !.ids = @ \ {i}]
  BY DEF DeleteFinding
<1>2. /\ sweep.stage = "delete" /\ tx' = tx /\ Stored /\ Histories
      /\ "ids" \in DOMAIN sweep /\ sweep.ids \subseteq DOMAIN findings
      /\ \A j \in sweep.ids : Terminal(findings[j].state) /\ Certified(j)
  BY DEF DeleteFinding, HistInv, Sweeping
<1>3. \A j : Certified(j) => Certified(j)'
  BY CertifiedStays
<1>4. i \in DOMAIN findings
  BY <1>2
<1>5. CASE hist' = [hist EXCEPT ![i] = <<>>] /\ UNCHANGED <<findings, sweep>>
  <2>1. /\ DOMAIN hist' = DOMAIN findings /\ hist'[i] = <<>>
        /\ \A j \in DOMAIN findings \ {i} : hist'[j] = hist[j]
    BY <1>2, <1>4, <1>5 DEF Stored
  <2>2. Stored'
    BY <1>2, <1>5, <2>1 DEF Stored
  <2>3. \A j \in DOMAIN findings : Told(j)'
    BY <1>2, <1>3, <1>5, <2>1 DEF Histories, Told
  <2>4. Histories'
    BY <1>5, <2>3 DEF Histories
  <2>5. Buffers' /\ Apart'
    BY <1>2, <1>5, OthersKept DEF HistInv
  <2>6. Sweeping'
    BY <1>5, SweepKept DEF HistInv
  <2> QED BY <1>5, <2>2, <2>4, <2>5, <2>6 DEF HistInv
<1>6. CASE /\ Unlocked(i)
           /\ findings' = [j \in DOMAIN findings \ {i} |-> findings[j]]
           /\ hist' = [j \in DOMAIN findings \ {i} |-> hist[j]]
           /\ sweep' = IF sweep.ids = {i} THEN [stage |-> "evidence"]
                       ELSE [sweep EXCEPT !.ids = @ \ {i}]
  <2>1. /\ DOMAIN findings' = DOMAIN findings \ {i} /\ DOMAIN hist' = DOMAIN findings'
        /\ \A j \in DOMAIN findings \ {i} : findings'[j] = findings[j] /\ hist'[j] = hist[j]
    BY <1>6
  <2>2. Stored'
    BY <1>2, <2>1 DEF Stored
  <2>3. \A j \in DOMAIN findings \ {i} : Told(j)'
    BY <1>2, <1>3, <2>1 DEF Histories, Told
  <2>4. Histories'
    BY <2>1, <2>3 DEF Histories
  <2>5. \A w \in Worker : i \notin Mine(w)
    BY <1>4, <1>6, UnlockedIs
  <2>6. Buffers' /\ Apart'
    BY <1>2, <2>1, <2>5, OthersKept DEF HistInv
  <2>7. Sweeping'
    <3>1. CASE sweep.ids = {i}
      <4>1. sweep' = [stage |-> "evidence"]
        BY <1>6, <3>1
      <4>2. "stage" \in DOMAIN sweep' /\ sweep'.stage = "evidence"
        BY <4>1
      <4> QED BY <4>2 DEF Sweeping
    <3>2. CASE sweep.ids # {i}
      <4>1. sweep' = [sweep EXCEPT !.ids = @ \ {i}]
        BY <1>6, <3>2
      <4>2. {"stage", "ids"} \subseteq DOMAIN sweep' /\ sweep'.ids = sweep.ids \ {i}
        BY <4>1, <1>2 DEF HistInv, Sweeping
      <4>3. /\ sweep'.ids \subseteq DOMAIN findings'
            /\ \A j \in sweep'.ids : Terminal(findings'[j].state) /\ Certified(j)'
        BY <4>2, <1>2, <1>3, <2>1
      <4> QED BY <4>2, <4>3 DEF Sweeping
    <3> QED BY <3>1, <3>2
  <2>8. \A j \in DOMAIN findings \ DOMAIN findings' : Terminal(findings[j].state) /\ Certified(j)
    BY <1>2, <2>1
  <2> QED BY <2>2, <2>4, <2>6, <2>7, <2>8 DEF HistInv
<1> QED BY <1>1, <1>5, <1>6

LEMMA ClearHist == ASSUME TxInv, HistInv, Grows, ClearEvidenceRef PROVE HistInv'
<1>1. /\ findings' = [findings EXCEPT ![sweep.id].evidence = "none"]
      /\ UNCHANGED <<hist, tx>> /\ sweep'.stage = "blob"
  BY DEF ClearEvidenceRef
<1>0. "stage" \in DOMAIN sweep'
  BY DEF ClearEvidenceRef
<1>2. /\ DOMAIN findings' = DOMAIN findings
      /\ \A i \in DOMAIN findings : Row(findings'[i]) /\ findings'[i].state = findings[i].state
  BY <1>1 DEF HistInv, Stored, Row
<1>3. Stored'
  BY <1>1, <1>2 DEF HistInv, Stored
<1>4. \A j : Certified(j) => Certified(j)'
  BY CertifiedStays
<1>5. Histories'
  BY <1>1, <1>2, <1>4 DEF HistInv, Histories, Told
<1>6. Buffers' /\ Apart'
  BY <1>1, <1>2, OthersKept DEF HistInv
<1>7. Sweeping'
  BY <1>0, <1>1 DEF Sweeping
<1> QED BY <1>3, <1>5, <1>6, <1>7 DEF HistInv

LEMMA SweepHist ==
  ASSUME IsOutbox, TxInv, HistInv, Grows, Sweep, ~DeleteFinding
  PROVE  HistInv' /\ DOMAIN findings' = DOMAIN findings
<1>1. CASE ListResolved
  <2>1. UNCHANGED <<findings, hist, tx>>
    BY <1>1 DEF ListResolved, store
  <2> DEFINE ids == {i \in DOMAIN findings : Expired(i, 2)}
  <2>2. sweep' = [stage |-> "evidence"] \/ sweep' = [stage |-> "audit", ids |-> ids]
    BY <1>1 DEF ListResolved
  <2>3. ids \subseteq DOMAIN findings /\ \A i \in ids : Terminal(findings[i].state)
    BY DEF Expired
  <2> HIDE DEF ids
  <2>4. Sweeping'
    <3>1. CASE sweep' = [stage |-> "evidence"]
      <4>1. "stage" \in DOMAIN sweep' /\ sweep'.stage = "evidence"
        BY <3>1
      <4> QED BY <4>1 DEF Sweeping
    <3>2. CASE sweep' = [stage |-> "audit", ids |-> ids]
      <4>1. sweep'.stage = "audit" /\ {"stage", "ids"} \subseteq DOMAIN sweep' /\ sweep'.ids = ids
        BY <3>2
      <4> QED BY <4>1, <2>1, <2>3 DEF Sweeping
    <3> QED BY <2>2, <3>1, <3>2
  <2> QED BY <2>1, <2>4, Elsewhere
<1>2. CASE AuditPurge
  <2>1. /\ UNCHANGED <<findings, hist, tx>> /\ sweep.stage = "audit"
        /\ sweep' = [stage |-> "delete", ids |-> sweep.ids]
        /\ AuditOutbox("retention.purge", sweep.ids)
    BY <1>2 DEF AuditPurge, store
  <2>2. PICK what \in Kinds : what = "retention.purge"
    BY DEF Kinds
  <2>3. AuditOutbox(what, sweep.ids)
    BY <2>1, <2>2
  <2>4. \E last : /\ last \in DOMAIN outbox' /\ outbox'[last].what = "retention.purge"
                  /\ outbox'[last].about = sweep.ids
    BY <2>2, <2>3, Appended, ZenonT(40)
  <2>5. \A i \in sweep.ids : Certified(i)'
    BY <2>4 DEF Certified
  <2>6. sweep'.stage = "delete" /\ {"stage", "ids"} \subseteq DOMAIN sweep' /\ sweep'.ids = sweep.ids
    BY <2>1
  <2>7. sweep.ids \subseteq DOMAIN findings /\ \A i \in sweep.ids : Terminal(findings[i].state)
    BY <2>1 DEF HistInv, Sweeping
  <2>8. Sweeping'
    BY <2>1, <2>5, <2>6, <2>7 DEF Sweeping
  <2> QED BY <2>1, <2>8, Elsewhere
<1>3. CASE ListEvidence \/ DeleteBlob \/ AuditEvidence
  <2>1. UNCHANGED <<findings, hist, tx>> /\ sweep.stage \in {"evidence", "blob"}
    BY <1>3 DEF ListEvidence, DeleteBlob, AuditEvidence, store
  <2>2. "stage" \in DOMAIN sweep' /\ sweep'.stage \in {"rest", "blob", "clear"}
    <3>1. CASE ListEvidence
      BY <3>1 DEF ListEvidence, Rest
    <3>2. CASE DeleteBlob
      BY <3>2 DEF DeleteBlob, HistInv, Sweeping
    <3>3. CASE AuditEvidence
      BY <3>3 DEF AuditEvidence, Rest
    <3> QED BY <1>3, <3>1, <3>2, <3>3
  <2>3. Sweeping'
    BY <2>2 DEF Sweeping
  <2> QED BY <2>1, <2>3, Elsewhere
<1>4. CASE ClearEvidenceRef
  <2>1. DOMAIN findings' = DOMAIN findings
    BY <1>4 DEF ClearEvidenceRef
  <2> QED BY <1>4, <2>1, ClearHist
<1> QED BY <1>1, <1>2, <1>3, <1>4 DEF Sweep

LEMMA OtherHist ==
  ASSUME HistInv, Grows, NEW i, Ages(i) \/ Forward PROVE HistInv'
<1>1. UNCHANGED <<findings, hist, tx, sweep>>
  BY DEF Ages, Forward, store
<1>2. Sweeping'
  BY <1>1, SweepKept DEF HistInv
<1> QED BY <1>1, <1>2, Elsewhere

LEMMA CrashHist == ASSUME HistInv, Grows, Crash PROVE HistInv'
<1>1. UNCHANGED <<findings, hist>> /\ tx' = [w \in Worker |-> Idle] /\ sweep' = Rest
  BY DEF Crash, store
<1>2. \A w \in Worker : tx'[w].stage # "open"
  BY <1>1, IdleWork
<1>3. Buffers' /\ Apart'
  BY <1>2 DEF Buffers, Apart, Mine, Open
<1>4. "stage" \in DOMAIN sweep' /\ sweep'.stage = "rest"
  BY <1>1 DEF Rest
<1>5. Sweeping'
  BY <1>4 DEF Sweeping
<1> QED BY <1>1, <1>3, <1>5, RowsKept DEF HistInv

-----------------------------------------------------------------------------
(* The theorems.                                                           *)

LEMMA HistStep ==
  ASSUME world \in Scenario, AuditInv, HistInv, [Next]_vars
  PROVE  /\ HistInv'
         /\ \A i \in DOMAIN findings \ DOMAIN findings' :
              Terminal(findings[i].state) /\ Certified(i)
<1>1. TxInv /\ IsOutbox /\ Grows
  BY AuditStep DEF AuditInv
<1>2. CASE UNCHANGED vars
  <2>1. UNCHANGED <<findings, hist, tx, sweep>>
    BY <1>2 DEF vars
  <2>2. Sweeping'
    BY <1>1, <2>1, SweepKept DEF HistInv
  <2> QED BY <1>1, <2>1, <2>2, Elsewhere
<1>3. CASE Sweep
  <2>1. CASE DeleteFinding
    BY <1>1, <2>1, DeleteHist
  <2>2. CASE ~DeleteFinding
    BY <1>1, <1>3, <2>2, SweepHist
  <2> QED BY <2>1, <2>2
<1>4. ASSUME NEW w \in Worker, \/ \E m \in Sent : Deliver(w, m)
                               \/ Apply(w) \/ StatementFails(w)
      PROVE  HistInv' /\ DOMAIN findings \subseteq DOMAIN findings'
  <2>1. HistInv'
    BY <1>1, <1>4, DeliverHist, QuietHist, FindingHist, CommitHist DEF Apply
  <2>2. CASE findings' = findings
    BY <2>1, <2>2
  <2>3. CASE Commit(w)
    BY <2>1, <2>3 DEF Commit, Over
  <2> QED BY <1>4, <2>2, <2>3
          DEF Apply, Deliver, RejectBatch, AuditRejected, BeginBatch, UpsertAsset, InsertAsset,
              UpsertFinding, PublishChanges, DeadlockVictim, StatementFails, store
<1>5. ASSUME NEW i, Transition(i) \/ Ages(i)
      PROVE  HistInv' /\ DOMAIN findings \subseteq DOMAIN findings'
  <2>1. HistInv'
    BY <1>1, <1>5, TransitionHist, OtherHist
  <2> QED BY <1>5, <2>1 DEF Transition, Ages
<1>6. CASE Crash
  BY <1>1, <1>6, CrashHist DEF Crash, store
<1>7. CASE Forward
  BY <1>1, <1>7, OtherHist DEF Forward, store
<1>8. CASE Next
  <2>1. CASE \E w \in Worker : (\E m \in Sent : Deliver(w, m)) \/ Apply(w) \/ StatementFails(w)
    BY <1>4, <2>1
  <2>2. CASE \E i \in 1 .. MaxFinding : Transition(i) \/ Ages(i)
    BY <1>5, <2>2
  <2> QED BY <1>3, <1>6, <1>7, <1>8, <2>1, <2>2 DEF Next
<1> QED BY <1>2, <1>8

LEMMA HistStart == Init => HistInv
<1> SUFFICES ASSUME Init PROVE HistInv
  OBVIOUS
<1>1. /\ world \in Scenario /\ findings = world.findings
      /\ hist = [i \in DOMAIN findings |-> world.hist[i]]
      /\ sweep = Rest /\ tx = [w \in Worker |-> Idle]
  BY DEF Init
<1>2. /\ DOMAIN findings \subseteq 1 .. MaxFinding
      /\ \A i \in DOMAIN findings : /\ Row(findings[i])
                                    /\ Walk(hist[i], "new", findings[i].state)
  BY <1>1, WorldsAreSound DEF Row, Walk
<1>3. Stored /\ Histories
  BY <1>1, <1>2 DEF Stored, Histories, Told
<1>4. \A w \in Worker : tx[w].stage # "open"
  BY <1>1, IdleWork
<1>5. Buffers /\ Apart
  BY <1>4 DEF Buffers, Apart, Mine, Open
<1>6. "stage" \in DOMAIN sweep /\ sweep.stage = "rest"
  BY <1>1 DEF Rest
<1>7. Sweeping
  BY <1>6 DEF Sweeping
<1> QED BY <1>3, <1>5, <1>7 DEF HistInv

\* findings.go, UpsertFindingTx and retention.go: the transitions of a finding
\* are a walk along the edges from "new" to its state, for any overlap of
\* batches, operators and the sweep; none are left only of one whose deletion
\* has begun.
THEOREM HistoriesAreLegal == Spec => []HistoryIsLegal
<1>1. Init => world \in Scenario /\ AuditInv /\ HistInv
  BY AuditStart, HistStart
<1>2. world \in Scenario /\ AuditInv /\ HistInv /\ [Next]_vars
        => (world \in Scenario /\ AuditInv /\ HistInv)'
  BY AuditStep, HistStep
<1>3. HistInv => HistoryIsLegal
  BY DEF HistInv, Histories, Told, Walk, Certified, HistoryIsLegal
<1> QED BY <1>1, <1>2, <1>3, PTL DEF Spec

\* retention.go, "Audit BEFORE delete": whatever happens between the list and
\* the deletion, a finding that goes is terminal and an audit row names it.
THEOREM PurgesAreCertified == Spec => PurgeIsCertified
<1>1. Init => world \in Scenario /\ AuditInv /\ HistInv
  BY AuditStart, HistStart
<1>2. world \in Scenario /\ AuditInv /\ HistInv /\ [Next]_vars
        => (world \in Scenario /\ AuditInv /\ HistInv)'
  BY AuditStep, HistStep
<1>3. world \in Scenario /\ AuditInv /\ HistInv /\ [Next]_vars
        => [\A i \in DOMAIN findings \ DOMAIN findings' :
              /\ Terminal(findings[i].state)
              /\ \E n \in DOMAIN outbox :
                    outbox[n].what = "retention.purge" /\ i \in outbox[n].about]_vars
  BY HistStep DEF Certified
<1> QED BY <1>1, <1>2, <1>3, PTL DEF Spec, PurgeIsCertified

-----------------------------------------------------------------------------
(* What is counted.  F is the table of findings, t an open transaction.    *)

\* A row that counts reports.
Counts(r) == {"tenant", "fp", "state", "occ"} \subseteq DOMAIN r /\ r.occ \in Nat
Alike(r, s) == r.tenant = s.tenant /\ r.fp = s.fp

\* The statements that are left: the findings of the batch that have not been
\* written, before them its assets, before them the ledger.
Left(t) == Len(t.todo)
AssetsOf(t) == Len(t.batch.assets)
FindingsOf(t) == Len(t.batch.findings)
Sized(t) == /\ Left(t) \in Nat /\ AssetsOf(t) \in Nat /\ FindingsOf(t) \in Nat
            /\ DOMAIN t.todo = 1 .. Left(t)
            /\ DOMAIN t.batch.assets = 1 .. AssetsOf(t)
            /\ DOMAIN t.batch.findings = 1 .. FindingsOf(t)
            /\ Left(t) <= FindingsOf(t) + AssetsOf(t) + 1
Statement(t, n, k) ==
  /\ k < FindingsOf(t) => t.todo[n] = <<"finding", t.batch.findings[FindingsOf(t) - k]>>
  /\ k >= FindingsOf(t) /\ k < FindingsOf(t) + AssetsOf(t) =>
        /\ t.todo[n][1] \in {"asset", "insert"}
        /\ t.todo[n][2] = t.batch.assets[FindingsOf(t) + AssetsOf(t) - k]
  /\ k = FindingsOf(t) + AssetsOf(t) => t.todo[n][1] = "ledger"
Ordered(t) == /\ Sized(t) /\ \E S : t.todo \in Seq(S)
              /\ \A n \in 1 .. Left(t) : Statement(t, n, Left(t) - n)

\* The asset rows a transaction has written are locked.
AssetLock(t, k) == <<"asset", k>> \in t.locks
Holds(t) == /\ \A k \in DOMAIN t.assets : AssetLock(t, k)
            /\ \A n \in 1 .. AssetsOf(t) :
                 n + Left(t) <= FindingsOf(t) + AssetsOf(t) =>
                    AssetLock(t, AssetKey(t.batch, t.batch.assets[n]))

\* The findings it has written, and what they add to the table.
Done(t, fp) == {n \in 1 .. FindingsOf(t) : /\ n + Left(t) <= FindingsOf(t)
                                           /\ t.batch.findings[n].fp = fp}
Base(F, i) == IF i \in DOMAIN F THEN F[i].occ ELSE 0
RowsOf(t, fp) == {i \in DOMAIN t.findings : t.findings[i].fp = fp}
Added(F, t, fp) == UNION {{i} \X (Base(F, i) + 1 .. t.findings[i].occ) : i \in RowsOf(t, fp)}
Kept(F, t, i) == /\ Counts(t.findings[i]) /\ t.findings[i].tenant = t.batch.tenant
                 /\ Done(t, t.findings[i].fp) # {}
                 /\ i \in DOMAIN F => /\ Alike(F[i], t.findings[i])
                                      /\ F[i].occ <= t.findings[i].occ
Tally(F, t) == /\ Ordered(t) /\ Holds(t)
               /\ \A i \in DOMAIN t.findings : Kept(F, t, i)
               /\ \A fp : /\ IsFiniteSet(Added(F, t, fp))
                          /\ Cardinality(Added(F, t, fp)) = Cardinality(Done(t, fp))

LEMMA SizedIs ==
  ASSUME NEW t, Ordered(t), t.todo # <<>>
  PROVE  /\ Left(t) \in Nat \ {0} /\ Head(t.todo) = t.todo[1]
         /\ Left(t) <= FindingsOf(t) + AssetsOf(t) + 1
         /\ FindingsOf(t) \in Nat /\ AssetsOf(t) \in Nat
         /\ Statement(t, 1, Left(t) - 1)
         /\ LET r == Tail(t.todo) IN
            /\ Len(r) = Left(t) - 1 /\ DOMAIN r = 1 .. Left(t) - 1
            /\ \A n \in 1 .. Left(t) - 1 : r[n] = t.todo[n + 1]
            /\ \E S : r \in Seq(S)
<1>1. PICK S : t.todo \in Seq(S)
  BY DEF Ordered
<1>2. Len(t.todo) \in Nat /\ Len(t.todo) # 0
  BY <1>1, LenProperties, EmptySeq
<1> DEFINE r == Tail(t.todo)
<1>3. /\ Head(t.todo) = t.todo[1] /\ r \in Seq(S) /\ Len(r) = Len(t.todo) - 1
      /\ \A n \in 1 .. Len(r) : r[n] = t.todo[n + 1]
  BY <1>1, HeadTailProperties
<1>4. DOMAIN r = 1 .. Len(r)
  BY <1>3, LenProperties
<1> HIDE DEF r
<1>5. 1 \in 1 .. Left(t)
  BY <1>2 DEF Left
<1> QED BY <1>2, <1>3, <1>4, <1>5 DEF Ordered, Sized, Left, r

\* One statement fewer.
LEMMA Advanced ==
  ASSUME NEW t, Ordered(t), t.todo # <<>>, NEW u, u.batch = t.batch, u.todo = Tail(t.todo)
  PROVE  Ordered(u) /\ Left(u) = Left(t) - 1 /\ FindingsOf(u) = FindingsOf(t)
         /\ AssetsOf(u) = AssetsOf(t)
<1>1. /\ Left(t) \in Nat \ {0} /\ Left(u) = Left(t) - 1 /\ DOMAIN u.todo = 1 .. Left(u)
      /\ \A n \in 1 .. Left(u) : u.todo[n] = t.todo[n + 1]
      /\ \E S : u.todo \in Seq(S)
      /\ Left(t) <= FindingsOf(t) + AssetsOf(t) + 1
      /\ FindingsOf(t) \in Nat /\ AssetsOf(t) \in Nat
  BY SizedIs DEF Left
<1>2. FindingsOf(u) = FindingsOf(t) /\ AssetsOf(u) = AssetsOf(t)
  BY DEF FindingsOf, AssetsOf
<1>3. Sized(u)
  <2>1. Left(u) \in Nat /\ Left(u) <= FindingsOf(u) + AssetsOf(u) + 1
    BY <1>1, <1>2
  <2> QED BY <1>1, <1>2, <2>1 DEF Ordered, Sized
<1>4. ASSUME NEW n \in 1 .. Left(u) PROVE Statement(u, n, Left(u) - n)
  <2>1. n + 1 \in 1 .. Left(t) /\ Left(t) - (n + 1) = Left(u) - n
    BY <1>1
  <2>2. Statement(t, n + 1, Left(u) - n)
    BY <2>1 DEF Ordered
  <2>3. u.todo[n] = t.todo[n + 1]
    BY <1>1
  <2> QED BY <1>2, <2>2, <2>3 DEF Statement
<1> QED BY <1>1, <1>2, <1>3, <1>4 DEF Ordered

\* An INSERT takes the place of the statement that found no row.
LEMMA Retried ==
  ASSUME NEW t, Ordered(t), t.todo # <<>>, Head(t.todo)[1] = "asset",
         NEW u, u.batch = t.batch, NEW x, x = <<"insert", Head(t.todo)[2]>>,
         u.todo = <<x>> \o Tail(t.todo)
  PROVE  Ordered(u) /\ Left(u) = Left(t) /\ FindingsOf(u) = FindingsOf(t)
         /\ AssetsOf(u) = AssetsOf(t)
<1> DEFINE r == Tail(t.todo)
<1>1. /\ Left(t) \in Nat \ {0} /\ Len(r) = Left(t) - 1
      /\ \A n \in 1 .. Left(t) - 1 : r[n] = t.todo[n + 1]
      /\ Head(t.todo) = t.todo[1]
  BY SizedIs
<1>2. PICK S : r \in Seq(S)
  BY SizedIs
<1>3. PICK T : T = S \cup {x}
  OBVIOUS
<1>4. r \in Seq(T) /\ <<x>> \in Seq(T) /\ Len(<<x>>) = 1 /\ <<x>>[1] = x
  BY <1>2, <1>3, SeqMonotonic
<1> HIDE DEF r
<1>5. PICK one : one = <<x>>
  OBVIOUS
<1>6. one \in Seq(T) /\ Len(one) = 1 /\ one[1] = x
  BY <1>4, <1>5
<1>7. /\ one \o r \in Seq(T) /\ Len(one \o r) = 1 + Len(r)
      /\ \A n \in 1 .. 1 + Len(r) : (one \o r)[n] = IF n <= 1 THEN one[n] ELSE r[n - 1]
  <2>1. /\ one \o r \in Seq(T) /\ Len(one \o r) = Len(one) + Len(r)
        /\ \A n \in 1 .. Len(one) + Len(r) :
              (one \o r)[n] = IF n <= Len(one) THEN one[n] ELSE r[n - Len(one)]
    BY <1>4, <1>6, ConcatProperties
  <2> QED BY <1>6, <2>1
<1>8. u.todo = one \o r
  BY <1>5 DEF r
<1>9. /\ Left(u) = Left(t) /\ u.todo \in Seq(T) /\ u.todo[1] = x
      /\ \A n \in 1 .. Left(t) : n # 1 => u.todo[n] = t.todo[n]
  <2>1. 1 + Len(r) = Left(t) /\ 1 \in 1 .. 1 + Len(r) /\ 1 <= 1
    BY <1>1
  <2>2. ASSUME NEW n \in 1 .. Left(t), n # 1 PROVE u.todo[n] = t.todo[n]
    <3>1. n \in 1 .. 1 + Len(r) /\ ~(n <= 1) /\ n - 1 \in 1 .. Left(t) - 1 /\ (n - 1) + 1 = n
      BY <1>1, <2>1, <2>2
    <3>2. u.todo[n] = r[n - 1]
      BY <1>7, <1>8, <3>1
    <3> QED BY <1>1, <3>1, <3>2
  <2> QED BY <1>6, <1>7, <1>8, <2>1, <2>2 DEF Left
<1>10. FindingsOf(u) = FindingsOf(t) /\ AssetsOf(u) = AssetsOf(t)
  BY DEF FindingsOf, AssetsOf
<1>11. DOMAIN u.todo = 1 .. Left(u)
  BY <1>9, LenProperties DEF Left
<1>12. Sized(u)
  BY <1>9, <1>10, <1>11 DEF Ordered, Sized
<1>13. ASSUME NEW n \in 1 .. Left(u) PROVE Statement(u, n, Left(u) - n)
  <2>1. Statement(t, n, Left(t) - n)
    BY <1>9 DEF Ordered
  <2>2. CASE n # 1
    BY <2>1, <2>2, <1>9, <1>10 DEF Statement
  <2>3. CASE n = 1
    <3>1. t.todo[1][1] = "asset" /\ u.todo[1][1] = "insert" /\ u.todo[1][2] = t.todo[1][2]
      BY <1>1, <1>9
    <3>2. ~(Left(t) - 1 < FindingsOf(t)) /\ Left(t) - 1 # FindingsOf(t) + AssetsOf(t)
      BY <2>1, <2>3, <3>1 DEF Statement
    <3> QED BY <2>1, <2>3, <3>1, <3>2, <1>9, <1>10 DEF Statement
  <2> QED BY <2>2, <2>3
<1> QED BY <1>9, <1>10, <1>12, <1>13 DEF Ordered

\* What the first statement says of how far the transaction is.
LEMMA FirstIs ==
  ASSUME NEW t, Ordered(t), t.todo # <<>>
  PROVE  LET o == Head(t.todo)
             N == FindingsOf(t)
             A == AssetsOf(t)
         IN  /\ o[1] = "finding" => /\ Left(t) <= N
                                    /\ o[2] = t.batch.findings[N - Left(t) + 1]
             /\ o[1] \in {"asset", "insert"} =>
                   /\ Left(t) > N /\ Left(t) <= N + A
                   /\ o[2] = t.batch.assets[N + A - Left(t) + 1]
             /\ o[1] = "ledger" => Left(t) = N + A + 1
<1> DEFINE k == Left(t) - 1
<1>1. /\ Statement(t, 1, k) /\ Head(t.todo) = t.todo[1]
      /\ Left(t) \in Nat \ {0} /\ FindingsOf(t) \in Nat /\ AssetsOf(t) \in Nat
      /\ k <= FindingsOf(t) + AssetsOf(t)
  <2>1. Left(t) \in Nat \ {0} /\ Left(t) <= FindingsOf(t) + AssetsOf(t) + 1
        /\ FindingsOf(t) \in Nat /\ AssetsOf(t) \in Nat
    BY SizedIs
  <2>2. Statement(t, 1, k) /\ Head(t.todo) = t.todo[1]
    BY SizedIs
  <2> QED BY <2>1, <2>2
<1>2. /\ k \in Nat /\ k = Left(t) - 1
      /\ FindingsOf(t) - k = FindingsOf(t) - Left(t) + 1
      /\ FindingsOf(t) + AssetsOf(t) - k = FindingsOf(t) + AssetsOf(t) - Left(t) + 1
  BY <1>1
<1> HIDE DEF k
<1>n. /\ k \in Nat /\ Left(t) \in Nat /\ FindingsOf(t) \in Nat /\ AssetsOf(t) \in Nat
      /\ k = Left(t) - 1 /\ k <= FindingsOf(t) + AssetsOf(t)
  BY <1>1, <1>2 DEF k
<1>3. CASE k < FindingsOf(t)
  <2>1. t.todo[1] = <<"finding", t.batch.findings[FindingsOf(t) - k]>>
    BY <1>1, <1>3 DEF Statement
  <2>2. t.todo[1][1] = "finding" /\ t.todo[1][2] = t.batch.findings[FindingsOf(t) - k]
    BY <2>1
  <2>3. Left(t) <= FindingsOf(t)
    BY ONLY <1>n, <1>3
  <2> QED BY <1>1, <1>2, <2>2, <2>3
<1>4. CASE k >= FindingsOf(t) /\ k < FindingsOf(t) + AssetsOf(t)
  <2>1. /\ t.todo[1][1] \in {"asset", "insert"}
        /\ t.todo[1][2] = t.batch.assets[FindingsOf(t) + AssetsOf(t) - k]
    BY <1>1, <1>4 DEF Statement
  <2>2. Left(t) > FindingsOf(t) /\ Left(t) <= FindingsOf(t) + AssetsOf(t)
    BY ONLY <1>n, <1>4
  <2> QED BY <1>1, <1>2, <2>1, <2>2
<1>5. CASE k = FindingsOf(t) + AssetsOf(t)
  <2>1. t.todo[1][1] = "ledger"
    BY <1>1, <1>5 DEF Statement
  <2>2. Left(t) = FindingsOf(t) + AssetsOf(t) + 1
    BY ONLY <1>n, <1>5
  <2> QED BY <1>1, <2>1, <2>2
<1>6. \/ k < FindingsOf(t)
      \/ k >= FindingsOf(t) /\ k < FindingsOf(t) + AssetsOf(t)
      \/ k = FindingsOf(t) + AssetsOf(t)
  BY ONLY <1>n
<1> QED BY <1>3, <1>4, <1>5, <1>6

\* The pairs that are counted.
LEMMA CountedIs ==
  ASSUME NEW F, NEW t, NEW fp, NEW i, NEW n
  PROVE  <<i, n>> \in Counted(F, t, fp) <=>
            /\ i \in DOMAIN F /\ F[i].tenant = t /\ F[i].fp = fp
            /\ n \in 1 .. F[i].occ
  BY DEF Counted, Rows

LEMMA AddedIs ==
  ASSUME NEW F, NEW t, NEW fp, NEW i, NEW n
  PROVE  <<i, n>> \in Added(F, t, fp) <=>
            /\ i \in DOMAIN t.findings /\ t.findings[i].fp = fp
            /\ n \in Base(F, i) + 1 .. t.findings[i].occ
  BY DEF Added, RowsOf

LEMMA ArePairs ==
  ASSUME NEW F, NEW t, NEW fp
  PROVE  /\ \A x \in Counted(F, t, fp) : \E i, n : x = <<i, n>>
         /\ \A x \in Added(F, t, fp) : \E i, n : x = <<i, n>>
<1>1. \A x \in Counted(F, t, fp) : \E i, n : x = <<i, n>>
  BY DEF Counted
<1>2. \A x \in Added(F, t, fp) : \E i, n : x = <<i, n>>
  BY DEF Added
<1> QED BY <1>1, <1>2

LEMMA DoneFinite ==
  ASSUME NEW t, NEW fp, FindingsOf(t) \in Nat
  PROVE  IsFiniteSet(Done(t, fp)) /\ Done(t, fp) \subseteq 1 .. FindingsOf(t)
<1>1. PICK one \in Int : one = 1
  OBVIOUS
<1>2. IsFiniteSet(one .. FindingsOf(t))
  BY FS_Interval
<1>3. Done(t, fp) \in SUBSET (one .. FindingsOf(t))
  BY <1>1 DEF Done
<1> QED BY <1>1, <1>2, <1>3, FS_Subset

\* Where a table agrees with F on what t has written, t's work is the same.
Agree(F, G, t) ==
  \A i \in DOMAIN t.findings :
     /\ i \in DOMAIN G <=> i \in DOMAIN F
     /\ i \in DOMAIN F => Alike(G[i], F[i]) /\ G[i].occ = F[i].occ

LEMMA TallyAgrees ==
  ASSUME NEW F, NEW G, NEW t, Agree(F, G, t), Tally(F, t) PROVE Tally(G, t)
<1>1. \A i \in DOMAIN t.findings : Base(G, i) = Base(F, i)
  BY DEF Agree, Base
<1>2. \A fp : Added(G, t, fp) = Added(F, t, fp)
  BY <1>1 DEF Added, RowsOf
<1>3. \A i \in DOMAIN t.findings : Kept(G, t, i)
  BY DEF Tally, Agree, Kept, Alike
<1> QED BY <1>2, <1>3 DEF Tally

\* A statement that writes no finding.
LEMMA TallyWaits ==
  ASSUME NEW F, NEW t, Tally(F, t), NEW u, Ordered(u), Holds(u),
         u.batch = t.batch, u.findings = t.findings, \A fp : Done(u, fp) = Done(t, fp)
  PROVE  Tally(F, u)
<1>1. \A fp : Added(F, u, fp) = Added(F, t, fp)
  BY DEF Added, RowsOf
<1>2. \A i \in DOMAIN u.findings : Kept(F, u, i)
  BY DEF Tally, Kept
<1> QED BY <1>1, <1>2 DEF Tally

LEMMA NothingDone ==
  ASSUME NEW t, Sized(t), Left(t) >= FindingsOf(t), NEW fp PROVE Done(t, fp) = {}
<1> SUFFICES ASSUME NEW n \in Done(t, fp) PROVE FALSE
  OBVIOUS
<1>1. n \in 1 .. FindingsOf(t) /\ n + Left(t) <= FindingsOf(t)
  BY DEF Done
<1>2. Left(t) \in Nat /\ FindingsOf(t) \in Nat
  BY DEF Sized
<1> QED BY <1>1, <1>2

\* The next finding is done.
LEMMA OneDone ==
  ASSUME NEW t, NEW u, NEW fp, NEW k,
         /\ Sized(t) /\ u.batch = t.batch /\ Left(u) = Left(t) - 1 /\ Left(t) # 0
         /\ Left(t) <= FindingsOf(t) /\ k = FindingsOf(t) - Left(t) + 1
  PROVE  /\ k \in 1 .. FindingsOf(t) /\ k \notin Done(t, fp)
         /\ t.batch.findings[k].fp = fp => Done(u, fp) = Done(t, fp) \cup {k}
         /\ t.batch.findings[k].fp # fp => Done(u, fp) = Done(t, fp)
<1>1. /\ Left(t) \in Nat \ {0} /\ FindingsOf(t) \in Nat /\ FindingsOf(u) = FindingsOf(t)
      /\ Left(u) = Left(t) - 1
  BY DEF Sized, FindingsOf
<1>2. k \in 1 .. FindingsOf(t) /\ ~(k + Left(t) <= FindingsOf(t))
  BY <1>1
<1>3. \A n \in 1 .. FindingsOf(t) :
         n + Left(u) <= FindingsOf(u) <=> n + Left(t) <= FindingsOf(t) \/ n = k
  BY <1>1
<1> QED BY <1>1, <1>2, <1>3 DEF Done

\* Row i, which had counted c reports, counts one more.
Writes(F, t, u, i, c, q) ==
  /\ c \in Nat /\ Base(F, i) \in Nat /\ Base(F, i) <= c /\ u.findings[i].occ = c + 1 /\ u.findings[i].fp = q
  /\ i \in DOMAIN t.findings => /\ t.findings[i].occ = c
                                /\ t.findings[i].fp = q
  /\ i \notin DOMAIN t.findings => Base(F, i) = c
  /\ DOMAIN u.findings = DOMAIN t.findings \cup {i}
  /\ \A j \in DOMAIN t.findings \ {i} : u.findings[j] = t.findings[j]

LEMMA OneAdded ==
  ASSUME NEW F, NEW t, NEW i, NEW c, NEW u, NEW q, NEW fp, Writes(F, t, u, i, c, q)
  PROVE  /\ fp # q => Added(F, u, fp) = Added(F, t, fp)
         /\ fp = q => <<i, c + 1>> \notin Added(F, t, fp)
         /\ fp = q =>
               Added(F, u, fp) = Added(F, t, fp) \cup {<<i, c + 1>>}
<1>0. /\ c \in Nat /\ Base(F, i) \in Nat /\ Base(F, i) <= c /\ u.findings[i].occ = c + 1 /\ u.findings[i].fp = q
      /\ i \in DOMAIN t.findings => /\ t.findings[i].occ = c
                                    /\ t.findings[i].fp = q
      /\ i \notin DOMAIN t.findings => Base(F, i) = c
      /\ DOMAIN u.findings = DOMAIN t.findings \cup {i}
      /\ \A j \in DOMAIN t.findings \ {i} : u.findings[j] = t.findings[j]
  BY DEF Writes
<1>1. CASE fp # q
  <2>1. RowsOf(u, fp) = RowsOf(t, fp) /\ \A j \in RowsOf(u, fp) : u.findings[j] = t.findings[j]
    BY <1>0, <1>1 DEF RowsOf
  <2> QED BY <1>1, <2>1 DEF Added
<1>2. CASE fp = q
  <2>1. <<i, c + 1>> \notin Added(F, t, fp)
    <3>1. ASSUME i \in DOMAIN t.findings PROVE c + 1 \notin Base(F, i) + 1 .. t.findings[i].occ
      BY <1>0, <3>1
    <3> QED BY <3>1, AddedIs
  <2>2. ASSUME NEW j, NEW n
        PROVE  <<j, n>> \in Added(F, u, fp) <=> <<j, n>> \in Added(F, t, fp) \/ <<j, n>> = <<i, c + 1>>
    <3>1. CASE j # i
      <4>1. j \in DOMAIN u.findings <=> j \in DOMAIN t.findings
        BY <1>0, <3>1
      <4>2. j \in DOMAIN t.findings => u.findings[j] = t.findings[j]
        BY <1>0, <3>1
      <4>3. <<j, n>> # <<i, c + 1>>
        BY <1>0, <3>1
      <4> QED BY <4>1, <4>2, <4>3, AddedIs
    <3>2. CASE j = i
      <4>1. <<j, n>> \in Added(F, u, fp) <=> n \in Base(F, i) + 1 .. c + 1
        BY <1>0, <1>2, <3>2, AddedIs
      <4>2. <<j, n>> \in Added(F, t, fp) <=> n \in Base(F, i) + 1 .. c
        <5>1. CASE i \in DOMAIN t.findings
          BY <1>0, <5>1, <1>2, <3>2, AddedIs
        <5>2. CASE i \notin DOMAIN t.findings
          <6>1. <<j, n>> \notin Added(F, t, fp)
            BY <1>0, <5>2, <3>2, AddedIs
          <6>2. n \notin Base(F, i) + 1 .. c
            BY <1>0, <5>2
          <6> QED BY <6>1, <6>2
        <5> QED BY <5>1, <5>2
      <4>3. n \in Base(F, i) + 1 .. c + 1 <=> n \in Base(F, i) + 1 .. c \/ n = c + 1
        BY <1>0
      <4>4. <<j, n>> = <<i, c + 1>> <=> n = c + 1
        BY <3>2
      <4> QED BY <4>1, <4>2, <4>3, <4>4
    <3> QED BY <3>1, <3>2
  <2>3. \A x : x \in Added(F, u, fp) <=> x \in Added(F, t, fp) \cup {<<i, c + 1>>}
    <3>1. \A x \in Added(F, u, fp) : x \in Added(F, t, fp) \cup {<<i, c + 1>>}
      <4> SUFFICES ASSUME NEW x \in Added(F, u, fp) PROVE x \in Added(F, t, fp) \cup {<<i, c + 1>>}
        OBVIOUS
      <4>1. PICK j, n : x = <<j, n>>
        BY ArePairs
      <4> QED BY <4>1, <2>2
    <3>2. \A x \in Added(F, t, fp) : x \in Added(F, u, fp)
      <4> SUFFICES ASSUME NEW x \in Added(F, t, fp) PROVE x \in Added(F, u, fp)
        OBVIOUS
      <4>1. PICK j, n : x = <<j, n>>
        BY ArePairs
      <4> QED BY <4>1, <2>2
    <3> QED BY <3>1, <3>2, <2>2
  <2> QED BY <1>2, <2>1, <2>3
<1> QED BY <1>1, <1>2

\* A finding is written: a row that had counted c reports counts one more.
Extends(t, u, i, row) ==
  /\ u.batch = t.batch /\ u.todo = Tail(t.todo) /\ t.locks \subseteq u.locks
  /\ u.assets = t.assets
  /\ DOMAIN u.findings = DOMAIN t.findings \cup {i} /\ u.findings[i] = row
  /\ \A j \in DOMAIN t.findings \ {i} : u.findings[j] = t.findings[j]
Recounts(F, t, i, row, c, f) ==
  /\ c \in Nat
  /\ c = IF i \in DOMAIN t.findings THEN t.findings[i].occ ELSE Base(F, i)
  /\ i \in DOMAIN F => F[i].occ \in Nat /\ Alike(F[i], row)
  /\ Counts(row) /\ row.occ = c + 1 /\ row.tenant = t.batch.tenant /\ row.fp = f.fp
  /\ i \in DOMAIN t.findings => t.findings[i].fp = f.fp

LEMMA TallyWrites ==
  ASSUME NEW F, NEW t, Tally(F, t), t.todo # <<>>, NEW f, Head(t.todo)[1] = "finding",
         f = Head(t.todo)[2], NEW i, NEW c, NEW u, NEW row,
         Extends(t, u, i, row), Recounts(F, t, i, row, c, f)
  PROVE  Tally(F, u)
<1> USE DEF Extends, Recounts
<1>0. PICK k : k = FindingsOf(t) - Left(t) + 1
  OBVIOUS
<1>1. /\ Ordered(u) /\ Left(u) = Left(t) - 1 /\ FindingsOf(u) = FindingsOf(t)
      /\ AssetsOf(u) = AssetsOf(t) /\ Ordered(t) /\ Sized(t) /\ Sized(u)
  BY Advanced DEF Tally, Ordered
<1>2. /\ Left(t) \in Nat \ {0} /\ FindingsOf(t) \in Nat /\ AssetsOf(t) \in Nat
      /\ Left(t) <= FindingsOf(t) /\ f = t.batch.findings[k]
  BY <1>0, <1>1, SizedIs, FirstIs
<1>3. ASSUME NEW fp
      PROVE  /\ k \in 1 .. FindingsOf(t) /\ k \notin Done(t, fp)
             /\ f.fp = fp => Done(u, fp) = Done(t, fp) \cup {k}
             /\ f.fp # fp => Done(u, fp) = Done(t, fp)
  <2>1. Left(t) # 0 /\ k = FindingsOf(t) - Left(t) + 1
    BY <1>0, <1>2
  <2>2. /\ k \in 1 .. FindingsOf(t) /\ k \notin Done(t, fp)
        /\ t.batch.findings[k].fp = fp => Done(u, fp) = Done(t, fp) \cup {k}
        /\ t.batch.findings[k].fp # fp => Done(u, fp) = Done(t, fp)
    <3>1. /\ Sized(t) /\ u.batch = t.batch /\ Left(u) = Left(t) - 1 /\ Left(t) # 0
          /\ Left(t) <= FindingsOf(t) /\ k = FindingsOf(t) - Left(t) + 1
      BY <1>1, <1>2, <2>1
    <3>2. k \in 1 .. FindingsOf(t) /\ k \notin Done(t, fp)
      BY ONLY <3>1, OneDone
    <3>3. t.batch.findings[k].fp = fp => Done(u, fp) = Done(t, fp) \cup {k}
      BY ONLY <3>1, OneDone
    <3>4. t.batch.findings[k].fp # fp => Done(u, fp) = Done(t, fp)
      BY ONLY <3>1, OneDone
    <3> QED BY <3>2, <3>3, <3>4
  <2> QED BY <1>2, <2>2
<1>4. Base(F, i) \in Nat /\ Base(F, i) <= c
  <2>1. CASE i \in DOMAIN t.findings
    BY <2>1 DEF Tally, Kept, Base
  <2>2. CASE i \notin DOMAIN t.findings
    BY <2>2 DEF Base
  <2> QED BY <2>1, <2>2
<1>5. ASSUME NEW fp
      PROVE  /\ fp # f.fp => Added(F, u, fp) = Added(F, t, fp)
             /\ fp = f.fp => /\ <<i, c + 1>> \notin Added(F, t, fp)
                             /\ Added(F, u, fp) = Added(F, t, fp) \cup {<<i, c + 1>>}
  <2>0. PICK q : q = f.fp
    OBVIOUS
  <2>1. Writes(F, t, u, i, c, q)
    BY <1>4, <2>0 DEF Writes
  <2>2. /\ fp # q => Added(F, u, fp) = Added(F, t, fp)
        /\ fp = q => <<i, c + 1>> \notin Added(F, t, fp)
        /\ fp = q => Added(F, u, fp) = Added(F, t, fp) \cup {<<i, c + 1>>}
    BY ONLY <2>1, OneAdded
  <2> QED BY <2>0, <2>2
<1>6. ASSUME NEW fp
      PROVE  /\ IsFiniteSet(Added(F, u, fp))
             /\ Cardinality(Added(F, u, fp)) = Cardinality(Done(u, fp))
  <2>1. /\ IsFiniteSet(Added(F, t, fp)) /\ IsFiniteSet(Done(t, fp))
        /\ Cardinality(Added(F, t, fp)) = Cardinality(Done(t, fp))
    BY <1>2, DoneFinite DEF Tally
  <2>2. CASE fp # f.fp
    BY <2>1, <2>2, <1>3, <1>5
  <2>3. CASE fp = f.fp
    <3>1. /\ IsFiniteSet(Added(F, t, fp) \cup {<<i, c + 1>>})
          /\ Cardinality(Added(F, t, fp) \cup {<<i, c + 1>>}) = Cardinality(Added(F, t, fp)) + 1
      BY <2>1, <2>3, <1>5, FS_AddElement
    <3>2. Cardinality(Done(t, fp) \cup {k}) = Cardinality(Done(t, fp)) + 1
      BY <2>1, <1>3, FS_AddElement
    <3> QED BY <3>1, <3>2, <2>1, <2>3, <1>3, <1>5
  <2> QED BY <2>2, <2>3
<1>7. Holds(u)
  <2>1. \A n \in 1 .. AssetsOf(t) : n + Left(t) <= FindingsOf(t) + AssetsOf(t)
    BY <1>2
  <2>2. \A x \in DOMAIN t.assets : AssetLock(u, x)
    BY DEF Tally, Holds, AssetLock
  <2>3. \A n \in 1 .. AssetsOf(t) : AssetLock(u, AssetKey(t.batch, t.batch.assets[n]))
    BY <2>1 DEF Tally, Holds, AssetLock
  <2> QED BY <1>1, <2>2, <2>3 DEF Holds
<1>8. ASSUME NEW j \in DOMAIN u.findings PROVE Kept(F, u, j)
  <2>1. \A fp : Done(t, fp) # {} => Done(u, fp) # {}
    BY <1>3
  <2>2. CASE j \in DOMAIN t.findings \ {i}
    BY <2>1, <2>2 DEF Tally, Kept
  <2>3. CASE j = i
    <3>1. Done(u, row.fp) # {}
      BY <1>3
    <3>2. i \in DOMAIN F => F[i].occ <= row.occ
      BY <1>4 DEF Base
    <3> QED BY <2>3, <3>1, <3>2 DEF Kept
  <2> QED BY <2>2, <2>3
<1> QED BY <1>1, <1>6, <1>7, <1>8 DEF Tally

\* A statement on an asset is done: its row is locked.
LEMMA TallyAsset ==
  ASSUME NEW F, NEW t, Tally(F, t), t.todo # <<>>, Head(t.todo)[1] \in {"asset", "insert"},
         NEW u, u.batch = t.batch, u.todo = Tail(t.todo), u.findings = t.findings,
         t.locks \subseteq u.locks,
         NEW k, k = AssetKey(t.batch, Head(t.todo)[2]), AssetLock(u, k),
         DOMAIN u.assets = DOMAIN t.assets \cup {k}
  PROVE  Tally(F, u)
<1> DEFINE o == Head(t.todo)
<1>1. /\ Ordered(u) /\ Left(u) = Left(t) - 1 /\ FindingsOf(u) = FindingsOf(t)
      /\ AssetsOf(u) = AssetsOf(t) /\ Ordered(t) /\ Sized(t) /\ Sized(u)
  BY Advanced DEF Tally, Ordered
<1>2. /\ Left(t) \in Nat \ {0} /\ FindingsOf(t) \in Nat /\ AssetsOf(t) \in Nat
      /\ Left(t) > FindingsOf(t)
      /\ o[2] = t.batch.assets[FindingsOf(t) + AssetsOf(t) - Left(t) + 1]
  BY <1>1, SizedIs, FirstIs
<1> HIDE DEF o
<1>3. \A fp : Done(t, fp) = {} /\ Done(u, fp) = {}
  <2>1. Left(t) >= FindingsOf(t) /\ Left(u) >= FindingsOf(u)
    BY <1>1, <1>2
  <2> QED BY <1>1, <2>1, NothingDone
<1>4. ASSUME NEW n \in 1 .. AssetsOf(t), n + Left(u) <= FindingsOf(t) + AssetsOf(t)
      PROVE  AssetLock(u, AssetKey(t.batch, t.batch.assets[n]))
  <2>1. CASE n + Left(t) <= FindingsOf(t) + AssetsOf(t)
    BY <2>1 DEF Tally, Holds, AssetLock
  <2>2. CASE ~(n + Left(t) <= FindingsOf(t) + AssetsOf(t))
    <3>1. n = FindingsOf(t) + AssetsOf(t) - Left(t) + 1
      BY <2>2, <1>1, <1>2, <1>4
    <3> QED BY <3>1, <1>2 DEF o
  <2> QED BY <2>1, <2>2
<1>5. Holds(u)
  <2>1. \A x \in DOMAIN u.assets : AssetLock(u, x)
    BY DEF Tally, Holds, AssetLock
  <2> QED BY <1>1, <1>4, <2>1 DEF Holds
<1> QED BY <1>1, <1>3, <1>5, TallyWaits

\* The key is claimed.
LEMMA TallyClaims ==
  ASSUME NEW F, NEW t, Tally(F, t), t.todo # <<>>, Head(t.todo)[1] = "ledger",
         NEW u, u.batch = t.batch, u.todo = Tail(t.todo), u.findings = t.findings,
         t.locks \subseteq u.locks, u.assets = t.assets
  PROVE  Tally(F, u)
<1>1. /\ Ordered(u) /\ Left(u) = Left(t) - 1 /\ FindingsOf(u) = FindingsOf(t)
      /\ AssetsOf(u) = AssetsOf(t) /\ Ordered(t) /\ Sized(t) /\ Sized(u)
  BY Advanced DEF Tally, Ordered
<1>2. /\ Left(t) \in Nat \ {0} /\ FindingsOf(t) \in Nat /\ AssetsOf(t) \in Nat
      /\ Left(t) = FindingsOf(t) + AssetsOf(t) + 1
  BY <1>1, SizedIs, FirstIs
<1>3. \A fp : Done(t, fp) = {} /\ Done(u, fp) = {}
  <2>1. Left(t) >= FindingsOf(t) /\ Left(u) >= FindingsOf(u)
    BY <1>1, <1>2
  <2> QED BY <1>1, <2>1, NothingDone
<1>4. \A n \in 1 .. AssetsOf(t) : ~(n + Left(u) <= FindingsOf(t) + AssetsOf(t))
  BY <1>1, <1>2
<1>5. Holds(u)
  BY <1>1, <1>4 DEF Tally, Holds, AssetLock
<1> QED BY <1>1, <1>3, <1>5, TallyWaits

\* No row was found: an INSERT is to be tried.
LEMMA TallyRetries ==
  ASSUME NEW F, NEW t, Tally(F, t), t.todo # <<>>, Head(t.todo)[1] = "asset",
         NEW u, u.batch = t.batch, NEW x, x = <<"insert", Head(t.todo)[2]>>,
         u.todo = <<x>> \o Tail(t.todo), u.findings = t.findings, u.locks = t.locks,
         u.assets = t.assets
  PROVE  Tally(F, u)
<1>1. /\ Ordered(u) /\ Left(u) = Left(t) /\ FindingsOf(u) = FindingsOf(t)
      /\ AssetsOf(u) = AssetsOf(t)
  BY Retried DEF Tally
<1>2. \A fp : Done(u, fp) = Done(t, fp)
  BY <1>1 DEF Done
<1>3. Holds(u)
  BY <1>1 DEF Tally, Holds, AssetLock
<1> QED BY <1>1, <1>2, <1>3, TallyWaits

\* A transaction that begins has everything to do.
LEMMA TallyBegins ==
  ASSUME NEW F, NEW w, NEW m, NEW b, NEW good \in BOOLEAN, IsList(b.assets), IsList(b.findings)
  PROVE  Tally(F, Begun(w, m, b, good))
<1> DEFINE t == Begun(w, m, b, good)
           A == [i \in DOMAIN b.assets |-> <<"asset", b.assets[i]>>]
           B == [i \in DOMAIN b.findings |-> <<"finding", b.findings[i]>>]
           S == {<<"ledger", 0>>} \cup {A[i] : i \in DOMAIN A} \cup {B[i] : i \in DOMAIN B}
           NA == Len(b.assets)
           NF == Len(b.findings)
<1>0. NA \in Nat /\ DOMAIN b.assets = 1 .. NA /\ NF \in Nat /\ DOMAIN b.findings = 1 .. NF
  BY ListIs
<1>a. NA = Len(b.assets) /\ NF = Len(b.findings)
  OBVIOUS
<1> HIDE DEF NA, NF
<1>1. A \in Seq(S) /\ Len(A) = NA /\ \A n \in 1 .. NA : A[n] = <<"asset", b.assets[n]>>
  <2>1. DOMAIN A = 1 .. NA /\ A = [i \in 1 .. NA |-> A[i]] /\ \A i \in DOMAIN A : A[i] \in S
    BY <1>0
  <2>2. \A n \in 1 .. NA : A[n] = <<"asset", b.assets[n]>>
    BY <1>0
  <2> HIDE DEF A, S
  <2>3. A \in Seq(S)
    BY <1>0, <2>1, MappedList
  <2> QED BY <1>0, <2>1, <2>2, <2>3, LenProperties
<1>2. B \in Seq(S) /\ Len(B) = NF /\ \A n \in 1 .. NF : B[n] = <<"finding", b.findings[n]>>
  <2>1. DOMAIN B = 1 .. NF /\ B = [i \in 1 .. NF |-> B[i]] /\ \A i \in DOMAIN B : B[i] \in S
    BY <1>0
  <2>2. \A n \in 1 .. NF : B[n] = <<"finding", b.findings[n]>>
    BY <1>0
  <2> HIDE DEF B, S
  <2>3. B \in Seq(S)
    BY <1>0, <2>1, MappedList
  <2> QED BY <1>0, <2>1, <2>2, <2>3, LenProperties
<1>3. PICK one : one = <<<<"ledger", 0>>>>
  OBVIOUS
<1>4. one \in Seq(S) /\ Len(one) = 1 /\ one[1] = <<"ledger", 0>>
  BY <1>3
<1>5. t.todo = one \o A \o B /\ t.batch = b /\ t.findings = Empty /\ t.assets = Empty
  BY <1>3 DEF Begun
<1> HIDE DEF A, B, S, t
<1>6. PICK two : two = one \o A
  OBVIOUS
<1>7. /\ two \in Seq(S) /\ Len(two) = 1 + NA /\ two[1] = one[1]
      /\ \A n \in 1 .. NA : two[n + 1] = A[n]
  <2>1. /\ two \in Seq(S) /\ Len(two) = Len(one) + Len(A)
        /\ \A n \in 1 .. Len(one) + Len(A) :
              two[n] = IF n <= Len(one) THEN one[n] ELSE A[n - Len(one)]
    BY <1>1, <1>4, <1>6, ConcatProperties
  <2>2. \A n \in 1 .. 1 + NA : two[n] = IF n <= 1 THEN one[n] ELSE A[n - 1]
    BY <1>1, <1>4, <2>1
  <2>3. 1 \in 1 .. 1 + NA
    BY <1>0
  <2>4. ASSUME NEW n \in 1 .. NA PROVE two[n + 1] = A[n]
    <3>1. n + 1 \in 1 .. 1 + NA /\ ~(n + 1 <= 1) /\ (n + 1) - 1 = n
      BY <1>0
    <3> QED BY <2>2, <3>1
  <2> QED BY <1>1, <1>4, <2>1, <2>2, <2>3, <2>4
<1>8. /\ t.todo \in Seq(S) /\ Len(t.todo) = 1 + NA + NF /\ t.todo[1] = one[1]
      /\ \A n \in 1 .. NA : t.todo[n + 1] = A[n]
      /\ \A n \in 1 .. NF : t.todo[n + 1 + NA] = B[n]
  <2>0. t.todo = two \o B
    BY <1>5, <1>6
  <2>1. /\ t.todo \in Seq(S) /\ Len(t.todo) = Len(two) + Len(B)
        /\ \A n \in 1 .. Len(two) + Len(B) :
              t.todo[n] = IF n <= Len(two) THEN two[n] ELSE B[n - Len(two)]
    <3>1. B \in Seq(S) /\ two \in Seq(S)
      BY <1>2, <1>7
    <3>2. /\ two \o B \in Seq(S) /\ Len(two \o B) = Len(two) + Len(B)
          /\ \A n \in 1 .. Len(two) + Len(B) :
                (two \o B)[n] = IF n <= Len(two) THEN two[n] ELSE B[n - Len(two)]
      BY ONLY <3>1, ConcatProperties
    <3> QED BY ONLY <3>2, <2>0
  <2>2. \A n \in 1 .. 1 + NA + NF : t.todo[n] = IF n <= 1 + NA THEN two[n] ELSE B[n - (1 + NA)]
    BY <1>2, <1>7, <2>1
  <2>3. t.todo[1] = one[1]
    <3>1. 1 \in 1 .. 1 + NA + NF /\ 1 <= 1 + NA
      BY <1>0
    <3> QED BY <1>7, <2>2, <3>1
  <2>4. ASSUME NEW n \in 1 .. NA PROVE t.todo[n + 1] = A[n]
    <3>1. n + 1 \in 1 .. 1 + NA + NF /\ n + 1 <= 1 + NA
      BY <1>0
    <3> QED BY <1>7, <2>2, <3>1
  <2>5. ASSUME NEW n \in 1 .. NF PROVE t.todo[n + 1 + NA] = B[n]
    <3>1. n + 1 + NA \in 1 .. 1 + NA + NF /\ ~(n + 1 + NA <= 1 + NA) /\ (n + 1 + NA) - (1 + NA) = n
      BY <1>0
    <3> QED BY <2>2, <3>1
  <2> QED BY <1>2, <1>7, <2>1, <2>3, <2>4, <2>5
<1>9. /\ AssetsOf(t) = NA /\ FindingsOf(t) = NF /\ Left(t) = 1 + NA + NF
      /\ DOMAIN t.todo = 1 .. Left(t)
  BY <1>a, <1>5, <1>8, LenProperties DEF AssetsOf, FindingsOf, Left
<1>10. Sized(t)
  BY <1>0, <1>5, <1>9 DEF Sized
<1>11. ASSUME NEW n \in 1 .. Left(t) PROVE Statement(t, n, Left(t) - n)
  <2>1. n \in Nat /\ 1 <= n /\ n <= 1 + NA + NF
    BY <1>0, <1>9
  <2>2. CASE n = 1
    <3>1. Left(t) - n = NF + NA /\ ~(Left(t) - n < NF) /\ ~(Left(t) - n < NF + NA)
      BY <1>0, <1>9, <2>2
    <3>2. t.todo[n][1] = "ledger"
      BY <1>4, <1>8, <2>2
    <3> QED BY <1>9, <3>1, <3>2 DEF Statement
  <2>3. CASE 1 < n /\ n <= 1 + NA
    <3>1. /\ n - 1 \in 1 .. NA /\ (n - 1) + 1 = n /\ ~(Left(t) - n < NF)
          /\ Left(t) - n # NF + NA /\ NF + NA - (Left(t) - n) = n - 1
      BY <1>0, <1>9, <2>1, <2>3
    <3>2. t.todo[n] = <<"asset", b.assets[n - 1]>>
      BY <1>1, <1>8, <3>1
    <3>3. /\ t.todo[n][1] \in {"asset", "insert"}
          /\ t.todo[n][2] = t.batch.assets[FindingsOf(t) + AssetsOf(t) - (Left(t) - n)]
      BY <1>5, <1>9, <3>1, <3>2
    <3> QED BY <1>9, <3>1, <3>3 DEF Statement
  <2>4. CASE 1 + NA < n
    <3>1. /\ n - 1 - NA \in 1 .. NF /\ (n - 1 - NA) + 1 + NA = n
          /\ Left(t) - n < NF /\ NF - (Left(t) - n) = n - 1 - NA
          /\ Left(t) - n # NF + NA
      BY <1>0, <1>9, <2>1, <2>4
    <3>2. t.todo[n] = <<"finding", b.findings[n - 1 - NA]>>
      BY <1>2, <1>8, <3>1
    <3>3. ~(Left(t) - n >= NF)
      BY <1>0, <1>9, <2>1, <3>1
    <3> QED BY <1>5, <1>9, <3>1, <3>2, <3>3 DEF Statement
  <2> QED BY <1>0, <2>1, <2>2, <2>3, <2>4
<1>12. Ordered(t)
  BY <1>8, <1>10, <1>11 DEF Ordered
<1>13. DOMAIN t.findings = {} /\ DOMAIN t.assets = {}
  BY <1>5 DEF Empty
<1>14. Holds(t)
  <2>1. \A n \in 1 .. AssetsOf(t) : ~(n + Left(t) <= FindingsOf(t) + AssetsOf(t))
    BY <1>0, <1>9
  <2> QED BY <1>13, <2>1 DEF Holds
<1>15. ASSUME NEW fp PROVE /\ IsFiniteSet(Added(F, t, fp))
                           /\ Cardinality(Added(F, t, fp)) = Cardinality(Done(t, fp))
  <2>1. Left(t) >= FindingsOf(t)
    BY <1>0, <1>9
  <2>2. Done(t, fp) = {}
    BY <1>10, <2>1, NothingDone
  <2>3. Added(F, t, fp) = {}
    BY <1>13 DEF Added, RowsOf
  <2> QED BY <2>2, <2>3, FS_EmptySet
<1> QED BY <1>12, <1>13, <1>14, <1>15 DEF Tally, t

AllCount(F) == \A i \in DOMAIN F : Counts(F[i])

\* A table counts finitely many reports.
LEMMA CountedFinite ==
  ASSUME NEW F, DOMAIN F \subseteq 1 .. MaxFinding, AllCount(F), NEW t, NEW fp
  PROVE  IsFiniteSet(Counted(F, t, fp))
<1> DEFINE R == Rows(F, t, fp)
           C == {{i} \X (1 .. F[i].occ) : i \in R}
           f == [i \in R |-> {i} \X (1 .. F[i].occ)]
<1>1. PICK one \in Int : one = 1
  OBVIOUS
<1>2. IsFiniteSet(one .. MaxFinding)
  BY FS_Interval, WorldsAreSound
<1>3. R \in SUBSET (one .. MaxFinding)
  BY <1>1 DEF Rows
<1>4. IsFiniteSet(R)
  BY <1>2, <1>3, FS_Subset
<1>5. f \in Surjection(R, C)
  BY DEF Surjection
<1> HIDE DEF f
<1>6. IsFiniteSet(C)
  BY <1>4, <1>5, FS_Surjection
<1>7. ASSUME NEW i \in R PROVE IsFiniteSet({i} \X (1 .. F[i].occ))
  <2>1. F[i].occ \in Nat
    BY DEF Rows, AllCount, Counts
  <2>2. IsFiniteSet(one .. F[i].occ)
    BY <2>1, FS_Interval
  <2>3. IsFiniteSet({i}) /\ IsFiniteSet(1 .. F[i].occ)
    BY <1>1, <2>2, FS_Singleton
  <2> QED BY <2>3, FS_Product
<1>8. \A T \in C : IsFiniteSet(T)
  BY <1>7
<1> QED BY <1>6, <1>8, FS_UNION DEF Counted

\* What a transaction wrote is counted when it commits.
Laid(F, t, G) ==
  /\ DOMAIN G = DOMAIN t.findings \cup DOMAIN F
  /\ \A i \in DOMAIN t.findings : G[i] = t.findings[i] /\ Kept(F, t, i)
  /\ \A i \in DOMAIN F \ DOMAIN t.findings : G[i] = F[i]
LEMMA CommitRows ==
  ASSUME NEW F, AllCount(F), NEW t, Tally(F, t), NEW G, G = Over(t.findings, F)
  PROVE  Laid(F, t, G) /\ AllCount(G)
<1>0. PICK g : g = t.findings
  OBVIOUS
<1>1. /\ DOMAIN G = DOMAIN g \cup DOMAIN F
      /\ \A i \in DOMAIN g : G[i] = g[i]
      /\ \A i \in DOMAIN F \ DOMAIN g : G[i] = F[i]
  BY <1>0 DEF Over
<1>2. \A i \in DOMAIN t.findings : Kept(F, t, i)
  BY DEF Tally
<1> QED BY <1>0, <1>1, <1>2 DEF AllCount, Kept, Laid

LEMMA CommitCounts ==
  ASSUME NEW F, AllCount(F), NEW t, Tally(F, t), NEW G, G = Over(t.findings, F),
         NEW q, q = t.batch.tenant, NEW fp
  PROVE  /\ Counted(G, q, fp) = Counted(F, q, fp) \cup Added(F, t, fp)
         /\ Counted(F, q, fp) \cap Added(F, t, fp) = {}
<1>0. Laid(F, t, G)
  BY CommitRows
<1>1. ASSUME NEW i, NEW n
      PROVE  /\ <<i, n>> \in Counted(G, q, fp) <=>
                   <<i, n>> \in Counted(F, q, fp) \/ <<i, n>> \in Added(F, t, fp)
             /\ ~(<<i, n>> \in Counted(F, q, fp) /\ <<i, n>> \in Added(F, t, fp))
  <2>1. CASE i \notin DOMAIN t.findings
    <3>1. i \in DOMAIN G <=> i \in DOMAIN F
      BY <1>0, <2>1 DEF Laid
    <3>2. i \in DOMAIN F => G[i] = F[i]
      BY <1>0, <2>1 DEF Laid
    <3>3. <<i, n>> \notin Added(F, t, fp)
      BY <2>1, AddedIs
    <3> QED BY <3>1, <3>2, <3>3, CountedIs
  <2>2. CASE i \in DOMAIN t.findings
    <3>1. PICK r : r = t.findings[i]
      OBVIOUS
    <3>2. Kept(F, t, i) /\ i \in DOMAIN G /\ G[i] = r
      BY <1>0, <2>2, <3>1 DEF Laid
    <3>3. r.occ \in Nat /\ r.tenant = q /\ Base(F, i) \in Nat /\ Base(F, i) <= r.occ
      BY <3>1, <3>2 DEF Kept, Counts, Base, AllCount
    <3>4. <<i, n>> \in Counted(G, q, fp) <=> r.fp = fp /\ n \in 1 .. r.occ
      BY <3>2, <3>3, CountedIs
    <3>5. <<i, n>> \in Added(F, t, fp) <=> r.fp = fp /\ n \in Base(F, i) + 1 .. r.occ
      BY <2>2, <3>1, AddedIs
    <3>6. <<i, n>> \in Counted(F, q, fp) <=> r.fp = fp /\ n \in 1 .. Base(F, i)
      <4>1. CASE i \in DOMAIN F
        <5>1. F[i].tenant = q /\ F[i].fp = r.fp /\ Base(F, i) = F[i].occ
          BY <4>1, <3>1, <3>2, <3>3 DEF Kept, Alike, Base
        <5> QED BY <4>1, <5>1, CountedIs
      <4>2. CASE i \notin DOMAIN F
        <5>1. Base(F, i) = 0
          BY <4>2 DEF Base
        <5> QED BY <4>2, <5>1, CountedIs
      <4> QED BY <4>1, <4>2
    <3>7. PICK o \in Nat, base \in Nat : o = r.occ /\ base = Base(F, i) /\ base <= o
      BY <3>3
    <3>8. /\ n \in 1 .. o <=> n \in 1 .. base \/ n \in base + 1 .. o
          /\ ~(n \in 1 .. base /\ n \in base + 1 .. o)
      BY <3>7
    <3> QED BY <3>4, <3>5, <3>6, <3>7, <3>8
  <2> QED BY <2>1, <2>2
<1>2. /\ \A x \in Counted(G, q, fp) : \E i, n : x = <<i, n>>
      /\ \A x \in Counted(F, q, fp) : \E i, n : x = <<i, n>>
      /\ \A x \in Added(F, t, fp) : \E i, n : x = <<i, n>>
  BY ArePairs
<1>3. Counted(F, q, fp) \cap Added(F, t, fp) = {}
  <2> SUFFICES ASSUME NEW x \in Counted(F, q, fp), x \in Added(F, t, fp) PROVE FALSE
    OBVIOUS
  <2>1. PICK i, n : x = <<i, n>>
    BY <1>2
  <2> QED BY <2>1, <1>1
<1>4. Counted(G, q, fp) \subseteq Counted(F, q, fp) \cup Added(F, t, fp)
  <2> SUFFICES ASSUME NEW x \in Counted(G, q, fp)
               PROVE  x \in Counted(F, q, fp) \/ x \in Added(F, t, fp)
    OBVIOUS
  <2>1. PICK i, n : x = <<i, n>>
    BY <1>2
  <2> QED BY <2>1, <1>1
<1>5. Counted(F, q, fp) \subseteq Counted(G, q, fp)
  <2> SUFFICES ASSUME NEW x \in Counted(F, q, fp) PROVE x \in Counted(G, q, fp)
    OBVIOUS
  <2>1. PICK i, n : x = <<i, n>>
    BY <1>2
  <2> QED BY <2>1, <1>1
<1>6. Added(F, t, fp) \subseteq Counted(G, q, fp)
  <2> SUFFICES ASSUME NEW x \in Added(F, t, fp) PROVE x \in Counted(G, q, fp)
    OBVIOUS
  <2>1. PICK i, n : x = <<i, n>>
    BY <1>2
  <2> QED BY <2>1, <1>1
<1> QED BY <1>3, <1>4, <1>5, <1>6

\* The other tenants' findings stay as they are.
LEMMA CommitSpares ==
  ASSUME NEW F, AllCount(F), NEW t, Tally(F, t), NEW G, G = Over(t.findings, F),
         NEW q, q # t.batch.tenant, NEW fp
  PROVE  Counted(G, q, fp) = Counted(F, q, fp)
<1>0. Laid(F, t, G)
  BY CommitRows
<1>1. ASSUME NEW i \in Rows(G, q, fp) PROVE i \in Rows(F, q, fp) /\ G[i] = F[i]
  <2>1. i \in DOMAIN G /\ G[i].tenant = q
    BY DEF Rows
  <2>2. i \notin DOMAIN t.findings
    BY <1>0, <2>1 DEF Laid, Kept
  <2>3. i \in DOMAIN F /\ G[i] = F[i]
    BY <1>0, <2>1, <2>2 DEF Laid
  <2> QED BY <2>3 DEF Rows
<1>2. ASSUME NEW i \in Rows(F, q, fp) PROVE i \in Rows(G, q, fp)
  <2>1. i \in DOMAIN F /\ F[i].tenant = q
    BY DEF Rows
  <2>2. i \notin DOMAIN t.findings
    BY <1>0, <2>1 DEF Laid, Kept, Alike
  <2>3. i \in DOMAIN G /\ G[i] = F[i]
    BY <1>0, <2>1, <2>2 DEF Laid
  <2> QED BY <2>3 DEF Rows
<1>3. Rows(G, q, fp) = Rows(F, q, fp)
  BY <1>1, <1>2
<1> QED BY <1>1, <1>3 DEF Counted

-----------------------------------------------------------------------------
(* What the ledger carries. *)

LEMMA CarriedMore ==
  ASSUME NEW L, NEW k, k \notin DOMAIN L, NEW b, NEW M,
         M = Over(L, One(k, [status |-> "accepted", batch |-> b])), NEW q, q = b.tenant, NEW fp
  PROVE  /\ Carried(M, q, fp) = Carried(L, q, fp) \cup ({k} \X Reported(b, fp))
         /\ Carried(L, q, fp) \cap ({k} \X Reported(b, fp)) = {}
<1>1. PICK e : e = [status |-> "accepted", batch |-> b]
  OBVIOUS
<1>2. e.status = "accepted" /\ e.batch = b
  BY <1>1
<1>3. DOMAIN M = DOMAIN L \cup {k} /\ M[k] = e /\ \A x \in DOMAIN L : M[x] = L[x]
  BY <1>1 DEF Over, One
<1>4. Batches(M, q) = Batches(L, q) \cup {k} /\ k \notin Batches(L, q)
  BY <1>2, <1>3 DEF Batches
<1>5. \A x \in Batches(L, q) : M[x].batch = L[x].batch
  BY <1>3 DEF Batches
<1>6. M[k].batch = b
  BY <1>2, <1>3
<1>7. Carried(M, q, fp) = Carried(L, q, fp) \cup ({k} \X Reported(b, fp))
  BY <1>4, <1>5, <1>6 DEF Carried
<1>8. Carried(L, q, fp) \cap ({k} \X Reported(b, fp)) = {}
  BY <1>4 DEF Carried
<1> QED BY <1>7, <1>8

LEMMA CarriedSpares ==
  ASSUME NEW L, NEW k, NEW e, NEW M, M = Over(L, One(k, e)), NEW q,
         e.status # "accepted" \/ e.batch.tenant # q, NEW fp
  PROVE  Carried(M, q, fp) = Carried(L, q, fp)
<1>1. /\ DOMAIN M = DOMAIN L \cup {k} /\ \A x \in DOMAIN L : M[x] = L[x]
      /\ k \notin DOMAIN L => M[k] = e
  BY DEF Over, One
<1>2. Batches(M, q) = Batches(L, q)
  BY <1>1 DEF Batches
<1>3. \A x \in Batches(L, q) : M[x].batch = L[x].batch
  BY <1>1 DEF Batches
<1> QED BY <1>2, <1>3 DEF Carried

\* The sums agree, for every tenant and fingerprint.
Even(F, W, L) ==
  \A q, fp : /\ IsFiniteSet(Counted(F, q, fp)) /\ IsFiniteSet(Carried(L, q, fp))
             /\ IsFiniteSet(Counted(W, q, fp))
             /\ Cardinality(Counted(F, q, fp)) =
                  Cardinality(Counted(W, q, fp)) + Cardinality(Carried(L, q, fp))

\* Two disjoint sets are counted one after the other.
LEMMA Disjoint ==
  ASSUME NEW A, NEW B, IsFiniteSet(A), IsFiniteSet(B), A \cap B = {}
  PROVE  /\ IsFiniteSet(A \cup B) /\ Cardinality(A \cup B) = Cardinality(A) + Cardinality(B)
         /\ Cardinality(A) \in Nat /\ Cardinality(B) \in Nat
<1>1. Cardinality(A \cap B) = 0
  BY FS_EmptySet
<1>2. /\ IsFiniteSet(A \cup B)
      /\ Cardinality(A \cup B) = Cardinality(A) + Cardinality(B) - Cardinality(A \cap B)
  BY FS_Union
<1>3. Cardinality(A) \in Nat /\ Cardinality(B) \in Nat
  BY FS_CardinalityType
<1> QED BY <1>1, <1>2, <1>3

LEMMA CommitEven ==
  ASSUME NEW F, AllCount(F), NEW t, Tally(F, t), t.todo = <<>>, NEW W, NEW L, Even(F, W, L),
         NEW k, k \notin DOMAIN L, NEW b, b = t.batch, NEW G, G = Over(t.findings, F),
         NEW M, M = Over(L, One(k, [status |-> "accepted", batch |-> b]))
  PROVE  Even(G, W, M)
<1> SUFFICES ASSUME NEW q, NEW fp
             PROVE  /\ IsFiniteSet(Counted(G, q, fp)) /\ IsFiniteSet(Carried(M, q, fp))
                    /\ IsFiniteSet(Counted(W, q, fp))
                    /\ Cardinality(Counted(G, q, fp)) =
                         Cardinality(Counted(W, q, fp)) + Cardinality(Carried(M, q, fp))
  BY DEF Even
<1>1. /\ IsFiniteSet(Counted(F, q, fp)) /\ IsFiniteSet(Carried(L, q, fp))
      /\ IsFiniteSet(Counted(W, q, fp))
      /\ Cardinality(Counted(F, q, fp)) =
           Cardinality(Counted(W, q, fp)) + Cardinality(Carried(L, q, fp))
  BY DEF Even
<1>2. CASE q # b.tenant
  <2>1. Counted(G, q, fp) = Counted(F, q, fp)
    BY <1>2, CommitSpares
  <2>2. PICK e : e = [status |-> "accepted", batch |-> b]
    OBVIOUS
  <2>3. e.batch.tenant # q
    BY <1>2, <2>2
  <2>4. Carried(M, q, fp) = Carried(L, q, fp)
    BY <2>2, <2>3, CarriedSpares
  <2> QED BY <1>1, <2>1, <2>4
<1>3. CASE q = b.tenant
  <2>0. q = t.batch.tenant
    BY <1>3
  <2>1. /\ Counted(G, q, fp) = Counted(F, q, fp) \cup Added(F, t, fp)
        /\ Counted(F, q, fp) \cap Added(F, t, fp) = {}
    <3>1. AllCount(F) /\ Tally(F, t) /\ G = Over(t.findings, F) /\ q = t.batch.tenant
      BY <2>0
    <3>2. Counted(G, q, fp) = Counted(F, q, fp) \cup Added(F, t, fp)
      BY ONLY <3>1, CommitCounts
    <3>3. Counted(F, q, fp) \cap Added(F, t, fp) = {}
      BY ONLY <3>1, CommitCounts
    <3> QED BY <3>2, <3>3
  <2>2. /\ Carried(M, q, fp) = Carried(L, q, fp) \cup ({k} \X Reported(b, fp))
        /\ Carried(L, q, fp) \cap ({k} \X Reported(b, fp)) = {}
    <3>1. k \notin DOMAIN L /\ q = b.tenant
          /\ M = Over(L, One(k, [status |-> "accepted", batch |-> b]))
      BY <1>3
    <3>2. Carried(M, q, fp) = Carried(L, q, fp) \cup ({k} \X Reported(b, fp))
      BY ONLY <3>1, CarriedMore
    <3>3. Carried(L, q, fp) \cap ({k} \X Reported(b, fp)) = {}
      BY ONLY <3>1, CarriedMore
    <3> QED BY <3>2, <3>3
  <2>3. Reported(b, fp) = Done(t, fp) /\ FindingsOf(t) \in Nat
    <3>1. Sized(t) /\ Left(t) = 0
      BY LenProperties DEF Tally, Ordered, Left
    <3>2. FindingsOf(t) \in Nat /\ DOMAIN b.findings = 1 .. FindingsOf(t)
      BY <3>1 DEF Sized
    <3>3. \A n \in 1 .. FindingsOf(t) : n + Left(t) <= FindingsOf(t)
      BY <3>1, <3>2
    <3> QED BY <3>2, <3>3 DEF Done, Reported
  <2>4. IsFiniteSet(Reported(b, fp))
    BY <2>3, DoneFinite
  <2>5. /\ IsFiniteSet({k} \X Reported(b, fp))
        /\ Cardinality({k} \X Reported(b, fp)) = Cardinality(Reported(b, fp))
    <3>1. IsFiniteSet({k}) /\ Cardinality({k}) = 1
      BY FS_Singleton
    <3>2. /\ IsFiniteSet({k} \X Reported(b, fp))
          /\ Cardinality({k} \X Reported(b, fp)) = 1 * Cardinality(Reported(b, fp))
      BY <2>4, <3>1, FS_Product
    <3>3. Cardinality(Reported(b, fp)) \in Nat
      BY <2>4, FS_CardinalityType
    <3> QED BY <3>2, <3>3
  <2>6. /\ IsFiniteSet(Added(F, t, fp))
        /\ Cardinality(Added(F, t, fp)) = Cardinality(Reported(b, fp))
    BY <2>3 DEF Tally
  <2>7. /\ IsFiniteSet(Counted(G, q, fp))
        /\ Cardinality(Counted(G, q, fp)) = Cardinality(Counted(F, q, fp)) + Cardinality(Added(F, t, fp))
    BY <1>1, <2>1, <2>6, Disjoint
  <2>8. /\ IsFiniteSet(Carried(M, q, fp))
        /\ Cardinality(Carried(M, q, fp)) =
             Cardinality(Carried(L, q, fp)) + Cardinality({k} \X Reported(b, fp))
    BY <1>1, <2>2, <2>5, Disjoint
  <2>9. /\ Cardinality(Counted(W, q, fp)) \in Nat /\ Cardinality(Carried(L, q, fp)) \in Nat
        /\ Cardinality(Reported(b, fp)) \in Nat
    BY <1>1, <2>4, FS_CardinalityType
  <2> QED BY <1>1, <2>5, <2>6, <2>7, <2>8, <2>9
<1> QED BY <1>2, <1>3

\* A row that is merged counts one report more; so does a new one.
LEMMA MergeCounts ==
  ASSUME NEW row, Counts(row), NEW f, NEW new, new = MergeFinding(row, f)
  PROVE  Counts(new) /\ Alike(new, row) /\ new.occ = row.occ + 1
<1>1. /\ DOMAIN new = DOMAIN row /\ new.occ = row.occ + 1
      /\ new.tenant = row.tenant /\ new.fp = row.fp
  BY DEF MergeFinding, Counts
<1>2. row.occ \in Nat
  BY DEF Counts
<1>3. new.occ \in Nat
  BY <1>1, <1>2
<1> QED BY <1>1, <1>3 DEF Counts, Alike

LEMMA NewCounts ==
  ASSUME NEW b, NEW f, NEW new, new = NewFinding(b, f)
  PROVE  Counts(new) /\ new.occ = 1 /\ new.tenant = b.tenant /\ new.fp = f.fp
<1>1. PICK row : row = [tenant |-> b.tenant, fp |-> f.fp, state |-> "new", occ |-> 0,
                        held |-> FALSE, evidence |-> "none"]
  OBVIOUS
<1>2. Counts(row) /\ row.occ = 0 /\ row.tenant = b.tenant /\ row.fp = f.fp
  BY <1>1 DEF Counts
<1>3. new = MergeFinding(row, f)
  BY <1>1 DEF NewFinding
<1>4. Counts(new) /\ Alike(new, row) /\ new.occ = row.occ + 1
  BY <1>2, <1>3, MergeCounts
<1>5. new.occ = 1
  BY <1>2, <1>4
<1> QED BY <1>2, <1>4, <1>5 DEF Alike

-----------------------------------------------------------------------------
(* Whose findings a batch reports, and the lock that goes with them.       *)

Names(b) ==
  \A n \in DOMAIN b.findings :
     /\ \E m \in Sent : <<b.findings[n].fp, b.findings[n].asset>> \in Reports(m)
     /\ ByAsset => \E k \in DOMAIN b.assets : b.assets[k].value = b.findings[n].asset

LEMMA BatchNames ==
  ASSUME world \in Scenario, NEW m \in Sent,
         NEW b, b = BatchOf(assets, world.tenants, m), b # Dropped
  PROVE  Names(b)
<1>1. m.via \in {"rest", "detect", "monitor", "discover"}
      /\ (m.via = "rest" => IsList(m.assets) /\ IsList(m.findings))
  BY WorldsAreSound DEF Sent
<1>2. CASE m.via = "rest"
  <2>1. b.assets = m.assets /\ b.findings = m.findings
    BY <1>2 DEF BatchOf, FromRest
  <2> SUFFICES ASSUME NEW n \in DOMAIN m.findings
               PROVE  /\ \E x \in Sent : <<m.findings[n].fp, m.findings[n].asset>> \in Reports(x)
                      /\ ByAsset => \E k \in DOMAIN m.assets :
                                       m.assets[k].value = m.findings[n].asset
    BY <2>1 DEF Names
  <2>2. PICK f : f = m.findings[n] /\ f \in Range(m.findings)
    BY DEF Range
  <2>3. <<f.fp, f.asset>> \in Reports(m)
    BY <1>2, <2>2 DEF Reports
  <2>4. ASSUME ByAsset PROVE \E k \in DOMAIN m.assets : m.assets[k].value = f.asset
    <3>1. PICK a \in Range(m.assets) : a.value = f.asset
      BY <1>2, <2>2, <2>4 DEF ByAsset
    <3> QED BY <3>1 DEF Range
  <2> QED BY <2>2, <2>3, <2>4
<1>3. CASE m.via = "detect"
  <2>1. b = FromDetect(assets, world.tenants, m)
    BY <1>3 DEF BatchOf
  <2>2. PICK x, y : /\ b.assets = <<x>> /\ b.findings = <<y>> /\ x.value = m.asset
                    /\ y.fp = m.fp /\ y.asset = m.asset
    BY <2>1 DEF FromDetect, AssetIn
  <2>3. <<y.fp, y.asset>> \in Reports(m)
    BY <1>3, <2>2 DEF Reports
  <2>4. DOMAIN b.findings = {1} /\ b.findings[1] = y /\ 1 \in DOMAIN b.assets /\ b.assets[1] = x
    BY <2>2
  <2> QED BY <2>2, <2>3, <2>4 DEF Names
<1>4. CASE m.via = "monitor"
  <2>1. b = FromMonitor(world.tenants, m)
    BY <1>4 DEF BatchOf
  <2>2. b.findings = <<>>
    BY <2>1 DEF FromMonitor
  <2> QED BY <2>2 DEF Names
<1>5. CASE m.via = "discover"
  <2>1. b = FromDiscover(world.tenants, m)
    BY <1>5 DEF BatchOf
  <2>2. b.findings = <<>>
    BY <2>1 DEF FromDiscover
  <2> QED BY <2>2 DEF Names
<1> QED BY <1>1, <1>2, <1>3, <1>4, <1>5

LEMMA DeliverNames ==
  ASSUME world \in Scenario, NEW w \in Worker, NEW m \in Sent, Deliver(w, m)
  PROVE  \/ tx' = tx
         \/ \E b, good : /\ good \in BOOLEAN /\ IsList(b.assets) /\ IsList(b.findings) /\ Names(b)
                         /\ tx' = [tx EXCEPT ![w] = Begun(w, m, b, good)]
<1> DEFINE b == BatchOf(assets, world.tenants, m)
<1>1. CASE b # Dropped /\ tx' # tx
  <2>1. IsList(b.assets) /\ IsList(b.findings) /\ Names(b)
    BY <1>1, BatchLists, BatchNames
  <2>2. PICK good \in Admitted(m.via, b) : tx' = [tx EXCEPT ![w] = Begun(w, m, b, good)]
    BY <1>1 DEF Deliver, Begun
  <2>3. good \in BOOLEAN
    BY DEF Admitted, reverify
  <2> HIDE DEF b
  <2> QED BY <2>1, <2>2, <2>3
<1>2. CASE b = Dropped
  BY <1>2 DEF Deliver
<1> QED BY <1>1, <1>2

\* A transaction that has got to a finding holds the lock on its asset.
HoldsAsset(t, fp) ==
  \E a : \E m \in Sent : <<fp, a>> \in Reports(m) /\ AssetLock(t, <<t.batch.tenant, a>>)

LEMMA Held ==
  ASSUME NEW F, NEW t, Tally(F, t), Names(t.batch), ByAsset,
         NEW n \in 1 .. FindingsOf(t), Left(t) <= FindingsOf(t)
  PROVE  HoldsAsset(t, t.batch.findings[n].fp)
<1>1. /\ FindingsOf(t) \in Nat /\ AssetsOf(t) \in Nat /\ Left(t) \in Nat
      /\ DOMAIN t.batch.findings = 1 .. FindingsOf(t) /\ DOMAIN t.batch.assets = 1 .. AssetsOf(t)
  BY DEF Tally, Ordered, Sized
<1>2. PICK f : f = t.batch.findings[n]
  OBVIOUS
<1>3. PICK m \in Sent : <<f.fp, f.asset>> \in Reports(m)
  BY <1>1, <1>2 DEF Names
<1>4. PICK k \in 1 .. AssetsOf(t) : t.batch.assets[k].value = f.asset
  BY <1>1, <1>2 DEF Names
<1>5. k + Left(t) <= FindingsOf(t) + AssetsOf(t)
  BY <1>1
<1>6. AssetLock(t, AssetKey(t.batch, t.batch.assets[k]))
  BY <1>5 DEF Tally, Holds
<1>7. AssetKey(t.batch, t.batch.assets[k]) = <<t.batch.tenant, f.asset>>
  BY <1>4 DEF AssetKey
<1>8. \E a : \E x \in Sent : <<f.fp, a>> \in Reports(x) /\ AssetLock(t, <<t.batch.tenant, a>>)
  BY <1>3, <1>6, <1>7
<1> QED BY <1>2, <1>8 DEF HoldsAsset

LEMMA HeldByRow ==
  ASSUME NEW F, NEW t, Tally(F, t), Names(t.batch), ByAsset, NEW i \in DOMAIN t.findings
  PROVE  HoldsAsset(t, t.findings[i].fp)
<1>1. PICK fp : fp = t.findings[i].fp
  OBVIOUS
<1>2. Kept(F, t, i)
  BY DEF Tally
<1>3. PICK n \in Done(t, fp) : TRUE
  BY <1>1, <1>2 DEF Kept
<1>4. FindingsOf(t) \in Nat /\ Left(t) \in Nat
  BY DEF Tally, Ordered, Sized
<1>5. n \in 1 .. FindingsOf(t) /\ n + Left(t) <= FindingsOf(t) /\ t.batch.findings[n].fp = fp
  BY DEF Done
<1>6. Left(t) <= FindingsOf(t)
  BY <1>4, <1>5
<1>7. HoldsAsset(t, t.batch.findings[n].fp)
  BY <1>5, <1>6, Held
<1> QED BY <1>1, <1>5, <1>7

LEMMA HeldNext ==
  ASSUME NEW F, NEW t, Tally(F, t), Names(t.batch), ByAsset, t.todo # <<>>,
         Head(t.todo)[1] = "finding"
  PROVE  HoldsAsset(t, Head(t.todo)[2].fp)
<1>1. Ordered(t)
  BY DEF Tally
<1>2. /\ Left(t) \in Nat \ {0} /\ FindingsOf(t) \in Nat /\ Left(t) <= FindingsOf(t)
      /\ Head(t.todo)[2] = t.batch.findings[FindingsOf(t) - Left(t) + 1]
  BY <1>1, SizedIs, FirstIs
<1>3. PICK n : n = FindingsOf(t) - Left(t) + 1
  OBVIOUS
<1>4. n \in 1 .. FindingsOf(t)
  BY <1>2, <1>3
<1>5. HoldsAsset(t, t.batch.findings[n].fp)
  BY <1>2, <1>4, Held
<1> QED BY <1>2, <1>3, <1>5

\* Two transactions of one tenant do not hold the same finding's asset.
LEMMA HeldOnce ==
  ASSUME TxInv, ByAsset, NEW v \in Worker, NEW w \in Worker, v # w, Open(v), Open(w),
         NEW fp, HoldsAsset(tx[v], fp), HoldsAsset(tx[w], fp)
  PROVE  tx[v].batch.tenant # tx[w].batch.tenant
<1> SUFFICES ASSUME tx[v].batch.tenant = tx[w].batch.tenant PROVE FALSE
  OBVIOUS
<1>1. PICK q : q = tx[v].batch.tenant
  OBVIOUS
<1>2. PICK a : \E m \in Sent : <<fp, a>> \in Reports(m) /\ <<"asset", <<q, a>>>> \in tx[v].locks
  BY <1>1 DEF HoldsAsset, AssetLock
<1>3. PICK c : \E m \in Sent : <<fp, c>> \in Reports(m) /\ <<"asset", <<q, c>>>> \in tx[w].locks
  BY <1>1 DEF HoldsAsset, AssetLock
<1>4. a = c
  <2>1. <<fp, a>>[1] = <<fp, c>>[1] => <<fp, a>>[2] = <<fp, c>>[2]
    BY <1>2, <1>3 DEF ByAsset
  <2> QED BY <2>1
<1>5. Locks(v) \cap Locks(w) = {}
  BY DEF TxInv, LocksApart
<1> QED BY <1>2, <1>3, <1>4, <1>5 DEF Locks

-----------------------------------------------------------------------------
(* The invariant.                                                          *)

Dedup == ByAsset /\ Unique(world.findings)

\* A transaction has one row of a fingerprint, the one that is stored.
Single(F, t) ==
  /\ Unique(t.findings)
  /\ \A i \in DOMAIN t.findings, j \in DOMAIN F : Alike(t.findings[i], F[j]) => i = j

Job(t) == Tally(findings, t) /\ Names(t.batch) /\ (Dedup => Single(findings, t))
Jobs == \A w \in Worker : Open(w) => Job(tx[w])

CountInv == /\ AllCount(findings) /\ Jobs
            /\ purged = {} => Even(findings, world.findings, ledger)
            /\ Dedup => Unique(findings)

LEMMA WorldKept ==
  ASSUME world' = world PROVE (Dedup' <=> Dedup) /\ \A b : Names(b) => Names(b)'
<1>1. ByAsset' <=> ByAsset
  BY DEF ByAsset, Sent
<1>2. Dedup' <=> Dedup
  BY <1>1 DEF Dedup
<1>3. ASSUME NEW b, Names(b) PROVE Names(b)'
  BY <1>1, <1>3 DEF Names, Sent
<1> QED BY <1>2, <1>3

\* What happens to a transaction alone.
LEMMA TxCount ==
  ASSUME TxInv, CountInv, UNCHANGED <<world, findings, purged>>,
         \A q, fp : Carried(ledger', q, fp) = Carried(ledger, q, fp),
         NEW w \in Worker, NEW t, tx' = [tx EXCEPT ![w] = t], t.stage = "open" => Job(t)
  PROVE  CountInv'
<1>1. \A v \in Worker : tx'[v] = IF v = w THEN t ELSE tx[v]
  BY DEF TxInv, TxShape
<1>2. (Dedup' <=> Dedup) /\ \A b : Names(b) => Names(b)'
  BY WorldKept
<1>3. ASSUME NEW v \in Worker, Open(v)' PROVE Job(tx[v])'
  <2>1. PICK x : x = tx'[v]
    OBVIOUS
  <2>2. Job(x)
    BY <1>1, <1>3, <2>1 DEF Open, CountInv, Jobs
  <2>3. Names(x.batch)'
    BY <1>2, <2>2 DEF Job
  <2> QED BY <1>2, <2>1, <2>2, <2>3 DEF Job
<1>4. purged' = {} => Even(findings', world'.findings, ledger')
  BY DEF CountInv, Even
<1> QED BY <1>2, <1>3, <1>4 DEF CountInv, Jobs

\* What happens to the table alone: rows change, but for what they count.
LEMMA TableCount ==
  ASSUME CountInv, UNCHANGED <<world, ledger, tx>>, DOMAIN findings' \subseteq DOMAIN findings,
         \A i \in DOMAIN findings' : /\ Counts(findings'[i]) /\ Alike(findings'[i], findings[i])
                                     /\ findings'[i].occ = findings[i].occ,
         \A w \in Worker : \A i \in Mine(w) : i \in DOMAIN findings => i \in DOMAIN findings',
         purged' = {} => purged = {} /\ DOMAIN findings' = DOMAIN findings
  PROVE  CountInv'
<1>1. (Dedup' <=> Dedup) /\ \A b : Names(b) => Names(b)'
  BY WorldKept
<1>2. ASSUME NEW v \in Worker, Open(v)' PROVE Job(tx[v])'
  <2>1. PICK x : x = tx[v]
    OBVIOUS
  <2>2. Job(x) /\ Mine(v) = DOMAIN x.findings /\ x = tx'[v]
    BY <1>2, <2>1 DEF Open, CountInv, Jobs, Mine
  <2>3. Agree(findings, findings', x)
    BY <2>2 DEF Agree
  <2>4. Tally(findings', x)
    BY <2>2, <2>3, TallyAgrees DEF Job
  <2>5. Dedup => Single(findings', x)
    BY <2>2 DEF Job, Single, Alike
  <2>6. Names(x.batch)'
    BY <1>1, <2>2 DEF Job
  <2> QED BY <1>1, <2>2, <2>4, <2>5, <2>6 DEF Job
<1>3. ASSUME purged' = {} PROVE Even(findings', world'.findings, ledger')
  <2>1. ASSUME NEW q, NEW fp PROVE Counted(findings', q, fp) = Counted(findings, q, fp)
    <3>1. Rows(findings', q, fp) = Rows(findings, q, fp)
      BY <1>3 DEF Rows, Alike
    <3>2. \A i \in Rows(findings, q, fp) : findings'[i].occ = findings[i].occ
      BY <1>3 DEF Rows
    <3> QED BY <3>1, <3>2 DEF Counted
  <2> QED BY <1>3, <2>1 DEF CountInv, Even
<1>4. Dedup => Unique(findings')
  BY DEF CountInv, Unique, Alike
<1>5. AllCount(findings')
  BY DEF AllCount
<1> QED BY <1>1, <1>2, <1>3, <1>4, <1>5 DEF CountInv, Jobs

\* Nothing that counts happens.
LEMMA QuietCount ==
  ASSUME CountInv, UNCHANGED <<world, ledger, tx, findings, purged>> PROVE CountInv'
<1>1. \A i \in DOMAIN findings : Counts(findings[i]) /\ Alike(findings[i], findings[i])
  BY DEF CountInv, AllCount, Alike
<1> QED BY <1>1, TableCount

LEMMA EndCount ==
  ASSUME TxInv, CountInv, UNCHANGED <<world, findings, purged, ledger>>,
         NEW w \in Worker, tx' = [tx EXCEPT ![w] = Idle]
  PROVE  CountInv'
<1>1. Idle.stage # "open"
  BY IdleWork
<1> QED BY <1>1, TxCount

-----------------------------------------------------------------------------
(* The transactions.                                                       *)

LEMMA DeliverCount ==
  ASSUME world \in Scenario, TxInv, CountInv, NEW w \in Worker, NEW m \in Sent, Deliver(w, m)
  PROVE  CountInv'
<1>1. UNCHANGED <<world, findings, purged, ledger>>
  BY DEF Deliver, store
<1>2. CASE tx' = tx
  BY <1>1, <1>2, QuietCount
<1>3. ASSUME NEW b, NEW good \in BOOLEAN, IsList(b.assets), IsList(b.findings), Names(b),
             tx' = [tx EXCEPT ![w] = Begun(w, m, b, good)]
      PROVE  CountInv'
  <2>1. PICK t : t = Begun(w, m, b, good)
    OBVIOUS
  <2>2. Tally(findings, t)
    BY <1>3, <2>1, TallyBegins
  <2>3. t.findings = Empty /\ DOMAIN Empty = {}
    BY <1>3, <2>1, BegunIs DEF Empty
  <2>4. Single(findings, t)
    BY <2>3 DEF Single, Unique
  <2>5. t.batch = b
    BY <2>1 DEF Begun
  <2>6. Job(t)
    BY <1>3, <2>2, <2>4, <2>5 DEF Job
  <2> QED BY <1>1, <1>3, <2>1, <2>6, TxCount
<1> QED BY <1>2, <1>3, DeliverNames

LEMMA RejectCount ==
  ASSUME TxInv, CountInv, NEW w \in Worker, RejectBatch(w) PROVE CountInv'
<1>1. UNCHANGED <<world, findings, purged>> /\ tx[w].stage = "reject"
  BY DEF RejectBatch
<1>2. PICK t : t = [tx[w] EXCEPT !.stage = "rejected"]
  OBVIOUS
<1>3. tx' = [tx EXCEPT ![w] = t]
  BY <1>2 DEF RejectBatch, TxInv, TxShape
<1>4. t.stage # "open"
  <2>1. DOMAIN tx[w] = WorkFields
    BY <1>1, IdleWork DEF TxInv, TxShape, IsWork
  <2> QED BY <1>2, <2>1 DEF WorkFields
<1>5. ASSUME NEW q, NEW fp PROVE Carried(ledger', q, fp) = Carried(ledger, q, fp)
  <2>1. CASE ledger' = ledger
    BY <2>1
  <2>2. ASSUME NEW b, ledger' = Over(ledger, One(b.key, [status |-> "rejected", batch |-> b]))
        PROVE  Carried(ledger', q, fp) = Carried(ledger, q, fp)
    <3>1. PICK e, k, L : e = [status |-> "rejected", batch |-> b] /\ k = b.key /\ L = ledger'
      OBVIOUS
    <3>2. e.status # "accepted" /\ L = Over(ledger, One(k, e))
      BY <2>2, <3>1
    <3>3. Carried(L, q, fp) = Carried(ledger, q, fp)
      BY <3>2, CarriedSpares
    <3> QED BY <3>1, <3>3
  <2> QED BY <2>1, <2>2 DEF RejectBatch
<1> QED BY <1>1, <1>3, <1>4, <1>5, TxCount

LEMMA BeginCount ==
  ASSUME TxInv, CountInv, NEW w \in Worker, BeginBatch(w) PROVE CountInv'
<1>1. /\ UNCHANGED <<world, findings, purged, ledger>> /\ Open(w)
      /\ tx[w].todo # <<>> /\ Head(tx[w].todo)[1] = "ledger"
  BY DEF BeginBatch, Ready, store
<1>2. CASE tx' = [tx EXCEPT ![w] = Idle]
  BY <1>1, <1>2, EndCount
<1>3. CASE tx' = [tx EXCEPT ![w] = Step(w)]
  <2>1. PICK t, u : t = tx[w] /\ u = Step(w)
    OBVIOUS
  <2>2. Job(t)
    BY <1>1, <2>1 DEF CountInv, Jobs
  <2>3. /\ u.batch = t.batch /\ u.todo = Tail(t.todo) /\ u.findings = t.findings
        /\ t.locks \subseteq u.locks /\ u.assets = t.assets
    BY <1>1, <2>1, StepIs
  <2>4. Tally(findings, u)
    BY <1>1, <2>1, <2>2, <2>3, TallyClaims DEF Job
  <2>5. Job(u)
    BY <2>2, <2>3, <2>4 DEF Job, Single
  <2> QED BY <1>1, <1>3, <2>1, <2>5, TxCount
<1> QED BY <1>2, <1>3 DEF BeginBatch

\* A statement on an asset.
LEMMA AssetDone ==
  ASSUME TxInv, CountInv, UNCHANGED <<world, findings, purged, ledger>>, NEW w \in Worker, Open(w),
         tx[w].todo # <<>>, Head(tx[w].todo)[1] \in {"asset", "insert"},
         NEW k, k = AssetKey(tx[w].batch, Head(tx[w].todo)[2]),
         <<"asset", k>> \in tx[w].locks \cup Needs(w), NEW row,
         tx' = [tx EXCEPT ![w] = [Step(w) EXCEPT !.assets = Over(One(k, row), @)]]
  PROVE  CountInv'
<1>1. PICK t, g, a, u : /\ t = tx[w] /\ g = Step(w).assets /\ a = Over(One(k, row), g)
                        /\ u = [Step(w) EXCEPT !.assets = a]
  OBVIOUS
<1>2. Job(t)
  BY <1>1 DEF CountInv, Jobs
<1>3. /\ u.batch = t.batch /\ u.todo = Tail(t.todo) /\ u.findings = t.findings
      /\ u.locks = t.locks \cup Needs(w) /\ u.assets = a /\ g = t.assets
  BY <1>1, StepIs DEF WorkFields
<1>4. DOMAIN a = DOMAIN g \cup {k}
  BY <1>1 DEF Over, One
<1>5. AssetLock(u, k) /\ t.locks \subseteq u.locks
  BY <1>1, <1>3 DEF AssetLock
<1>6. Tally(findings, u)
  <2>1. /\ Tally(findings, t) /\ t.todo # <<>> /\ Head(t.todo)[1] \in {"asset", "insert"}
        /\ u.batch = t.batch /\ u.todo = Tail(t.todo) /\ u.findings = t.findings
        /\ t.locks \subseteq u.locks /\ k = AssetKey(t.batch, Head(t.todo)[2])
        /\ AssetLock(u, k) /\ DOMAIN u.assets = DOMAIN t.assets \cup {k}
    BY <1>1, <1>2, <1>3, <1>4, <1>5 DEF Job
  <2> QED BY ONLY <2>1, TallyAsset
<1>7. Job(u)
  BY <1>2, <1>3, <1>6 DEF Job, Single
<1>8. tx' = [tx EXCEPT ![w] = u]
  BY <1>1
<1> QED BY <1>7, <1>8, TxCount

LEMMA UpsertAssetCount ==
  ASSUME TxInv, CountInv, NEW w \in Worker, UpsertAsset(w) PROVE CountInv'
<1>1. /\ UNCHANGED <<world, findings, purged, ledger>> /\ Open(w)
      /\ tx[w].todo # <<>> /\ Head(tx[w].todo)[1] = "asset"
  BY DEF UpsertAsset, Ready, store
<1>2. PICK k, row : /\ k = AssetKey(tx[w].batch, Head(tx[w].todo)[2])
                    /\ row = [Asset(w, k) EXCEPT
                                !.status = Merged(@, Proposed(Head(tx[w].todo)[2]))]
  OBVIOUS
<1>3. CASE k \in Known(w)
  <2>1. tx' = [tx EXCEPT ![w] = [Step(w) EXCEPT !.assets = Over(One(k, row), @)]]
    BY <1>2, <1>3 DEF UpsertAsset
  <2>2. <<"asset", k>> \in tx[w].locks \cup Needs(w)
    <3>1. CASE k \in DOMAIN assets
      <4>1. <<"asset", k>> \in Needs(w)
        BY <1>1, <1>2, <3>1 DEF Needs
      <4> QED BY <4>1
    <3>2. CASE k \in DOMAIN tx[w].assets
      BY <1>1, <3>2 DEF CountInv, Jobs, Job, Tally, Holds, AssetLock
    <3> QED BY <1>3, <3>1, <3>2 DEF Known
  <2> QED BY <1>1, <1>2, <2>1, <2>2, AssetDone
<1>4. CASE k \notin Known(w)
  <2>1. PICK t, x, l, u : /\ t = tx[w] /\ x = <<"insert", Head(tx[w].todo)[2]>>
                          /\ l = <<x>> \o Tail(tx[w].todo) /\ u = [t EXCEPT !.todo = l]
    OBVIOUS
  <2>2. tx' = [tx EXCEPT ![w] = u]
    <3>1. tx' = [tx EXCEPT ![w] = [tx[w] EXCEPT !.todo =
                   <<<<"insert", Head(tx[w].todo)[2]>>>> \o Tail(@)]]
      BY <1>2, <1>4 DEF UpsertAsset
    <3> QED BY <2>1, <3>1
  <2>3. Job(t) /\ Tally(findings, t)
    BY <1>1, <2>1 DEF CountInv, Jobs, Job
  <2>4. /\ u.batch = t.batch /\ u.todo = <<x>> \o Tail(t.todo) /\ u.findings = t.findings
        /\ u.locks = t.locks /\ u.assets = t.assets
    BY <1>1, <2>1, StepIs DEF WorkFields
  <2>5. t.todo # <<>> /\ Head(t.todo)[1] = "asset" /\ x = <<"insert", Head(t.todo)[2]>>
    BY <1>1, <2>1
  <2>6. Tally(findings, u)
    BY ONLY <2>3, <2>4, <2>5, TallyRetries
  <2>7. Job(u)
    BY <2>3, <2>4, <2>6 DEF Job, Single
  <2> QED BY <1>1, <2>2, <2>7, TxCount
<1> QED BY <1>3, <1>4

LEMMA InsertAssetCount ==
  ASSUME TxInv, CountInv, NEW w \in Worker, InsertAsset(w) PROVE CountInv'
<1>1. /\ UNCHANGED <<world, findings, purged, ledger>> /\ Open(w)
      /\ tx[w].todo # <<>> /\ Head(tx[w].todo)[1] = "insert"
  BY DEF InsertAsset, Ready, store
<1>2. CASE tx' = [tx EXCEPT ![w] = Idle]
  BY <1>1, <1>2, EndCount
<1>3. CASE tx' # [tx EXCEPT ![w] = Idle]
  <2>1. PICK k, row : /\ k = AssetKey(tx[w].batch, Head(tx[w].todo)[2])
                      /\ row = [type |-> Head(tx[w].todo)[2].type,
                                status |-> Proposed(Head(tx[w].todo)[2])]
    OBVIOUS
  <2>2. tx' = [tx EXCEPT ![w] = [Step(w) EXCEPT !.assets = Over(One(k, row), @)]]
    BY <1>3, <2>1 DEF InsertAsset
  <2>3. <<"asset", k>> \in Needs(w)
    BY <1>1, <2>1 DEF Needs
  <2> QED BY <1>1, <2>1, <2>2, <2>3, AssetDone
<1> QED BY <1>2, <1>3

\* A row of fingerprint q that counts one more than the transaction t saw of it.
Fits(F, t, i, row, q, c) ==
  /\ c \in Nat /\ Counts(row) /\ row.occ = c + 1 /\ row.tenant = t.batch.tenant /\ row.fp = q
  /\ i \in DOMAIN t.findings => c = t.findings[i].occ /\ Alike(t.findings[i], row)
  /\ i \notin DOMAIN t.findings => c = Base(F, i)
  /\ i \in DOMAIN F => Alike(F[i], row)
  /\ Dedup => /\ \A j \in DOMAIN F : Alike(row, F[j]) => i = j
              /\ \A j \in DOMAIN t.findings : Alike(row, t.findings[j]) => i = j

LEMMA RowCount ==
  ASSUME TxInv, HistInv, CountInv, UNCHANGED <<world, findings, purged, ledger>>,
         NEW w \in Worker, Open(w), tx[w].todo # <<>>, Head(tx[w].todo)[1] = "finding",
         NEW i, NEW row, NEW hops, NEW evs,
         tx' = [tx EXCEPT ![w] = Buffered(w, i, row, hops, evs)],
         NEW c, Fits(findings, tx[w], i, row, Head(tx[w].todo)[2].fp, c)
  PROVE  CountInv'
<1>1. PICK t, u : t = tx[w] /\ u = Buffered(w, i, row, hops, evs)
  OBVIOUS
<1>2. Job(t) /\ AllCount(findings)
  BY <1>1 DEF CountInv, Jobs
<1>0. PICK f, q : f = Head(t.todo)[2] /\ q = f.fp
  OBVIOUS
<1>f. Fits(findings, t, i, row, q, c)
  BY <1>0, <1>1
<1>3. /\ u.batch = t.batch /\ u.todo = Tail(t.todo) /\ t.locks \subseteq u.locks
      /\ u.assets = t.assets
      /\ DOMAIN u.findings = DOMAIN t.findings \cup {i} /\ u.findings[i] = row
      /\ \A j \in DOMAIN t.findings \ {i} : u.findings[j] = t.findings[j]
  <2>1. DOMAIN tx[w].hops = DOMAIN tx[w].findings
    BY DEF HistInv, Buffers, Work
  <2> QED BY <1>1, <2>1, BufferedIs
<1>4. Tally(findings, u)
  <2>1. Tally(findings, t) /\ t.todo # <<>> /\ Head(t.todo)[1] = "finding" /\ f = Head(t.todo)[2]
    BY <1>0, <1>1, <1>2 DEF Job
  <2>2. Recounts(findings, t, i, row, c, f)
    BY <1>0, <1>2, <1>f DEF Recounts, AllCount, Counts, Alike, Fits
  <2>3. Extends(t, u, i, row)
    BY <1>3 DEF Extends
  <2> QED BY ONLY <2>1, <2>2, <2>3, TallyWrites
<1>5. ASSUME Dedup PROVE Single(findings, u)
  <2>1. Single(findings, t)
    BY <1>2, <1>5 DEF Job
  <2>2. Unique(u.findings)
    BY <1>3, <1>5, <1>f, <2>1 DEF Single, Unique, Alike, Fits
  <2>3. \A j \in DOMAIN u.findings, k \in DOMAIN findings :
            Alike(u.findings[j], findings[k]) => j = k
    BY <1>3, <1>5, <1>f, <2>1 DEF Single, Fits
  <2> QED BY <2>2, <2>3 DEF Single
<1>6. Job(u)
  BY <1>2, <1>3, <1>4, <1>5 DEF Job
<1> QED BY <1>1, <1>6, TxCount

LEMMA MergeCount ==
  ASSUME TxInv, HistInv, CountInv, UNCHANGED <<world, findings, purged, ledger>>,
         NEW w \in Worker, Open(w), tx[w].todo # <<>>, Head(tx[w].todo)[1] = "finding",
         NEW b, b = tx[w].batch, NEW f, f = Head(tx[w].todo)[2],
         NEW i, i \in Match(w, b, f), NEW hops, NEW evs,
         NEW row, row = MergeFinding(Finding(w, i), f),
         tx' = [tx EXCEPT ![w] = Buffered(w, i, row, hops, evs)]
  PROVE  CountInv'
<1>1. PICK t, old, q : t = tx[w] /\ old = Finding(w, i) /\ row = MergeFinding(old, f) /\ q = f.fp
  OBVIOUS
<1>2. Job(t) /\ AllCount(findings)
  BY <1>1 DEF CountInv, Jobs
<1>3. \/ i \in DOMAIN findings /\ findings[i].tenant = b.tenant /\ findings[i].fp = f.fp
      \/ i \in DOMAIN t.findings /\ t.findings[i].tenant = b.tenant /\ t.findings[i].fp = f.fp
  BY <1>1 DEF Match, Same, Own
<1>4. i \in DOMAIN t.findings => Kept(findings, t, i) /\ old = t.findings[i]
  BY <1>1, <1>2 DEF Job, Tally, Finding
<1>5. i \notin DOMAIN t.findings => i \in DOMAIN findings /\ old = findings[i]
  BY <1>1, <1>3 DEF Finding
<1>6. /\ Counts(old) /\ old.tenant = b.tenant /\ old.fp = f.fp
      /\ i \in DOMAIN findings => Alike(findings[i], old)
  BY <1>2, <1>3, <1>4, <1>5 DEF Kept, Alike, AllCount
<1>7. Counts(row) /\ Alike(row, old) /\ row.occ = old.occ + 1
  BY <1>1, <1>6, MergeCounts
<1>8. PICK c \in Nat : c = old.occ
  BY <1>6 DEF Counts
<1>9. /\ i \in DOMAIN t.findings => c = t.findings[i].occ /\ Alike(t.findings[i], row)
      /\ i \notin DOMAIN t.findings => c = Base(findings, i)
      /\ i \in DOMAIN findings => Alike(findings[i], row)
      /\ row.tenant = t.batch.tenant /\ row.fp = q
      /\ row.occ = c + 1
  BY <1>1, <1>4, <1>5, <1>6, <1>7, <1>8 DEF Alike, Base
<1>10. ASSUME Dedup
       PROVE  /\ \A j \in DOMAIN findings : Alike(row, findings[j]) => i = j
              /\ \A j \in DOMAIN t.findings : Alike(row, t.findings[j]) => i = j
  <2>1. Single(findings, t) /\ Unique(findings)
    BY <1>2, <1>10 DEF Job, CountInv
  <2>2. CASE i \in DOMAIN t.findings
    <3>1. PICK g : g = t.findings[i]
      OBVIOUS
    <3>2. /\ \A j \in DOMAIN findings : Alike(g, findings[j]) => i = j
          /\ \A j \in DOMAIN t.findings : Alike(g, t.findings[j]) => i = j
      BY <2>1, <2>2, <3>1 DEF Single, Unique, Alike
    <3>3. Alike(g, row)
      BY <1>9, <2>2, <3>1
    <3> QED BY ONLY <3>2, <3>3 DEF Alike
  <2>3. CASE i \notin DOMAIN t.findings
    <3>1. PICK g : g = findings[i]
      OBVIOUS
    <3>2. i \in DOMAIN findings /\ Alike(g, row)
      BY <1>5, <1>9, <2>3, <3>1
    <3>3. \A j \in DOMAIN findings : Alike(g, findings[j]) => i = j
      BY <2>1, <3>1, <3>2 DEF Unique, Alike
    <3>4. \A j \in DOMAIN t.findings : Alike(t.findings[j], g) => j = i
      BY <2>1, <3>1, <3>2 DEF Single
    <3> QED BY ONLY <3>2, <3>3, <3>4 DEF Alike
  <2> QED BY <2>2, <2>3
<1>11. Fits(findings, t, i, row, q, c)
  BY <1>7, <1>8, <1>9, <1>10 DEF Fits
<1>12. Fits(findings, tx[w], i, row, Head(tx[w].todo)[2].fp, c)
  BY <1>1, <1>11
<1> QED BY <1>12, RowCount

LEMMA NewCount ==
  ASSUME TxInv, HistInv, CountInv, UNCHANGED <<world, findings, purged, ledger>>,
         NEW w \in Worker, Open(w), tx[w].todo # <<>>, Head(tx[w].todo)[1] = "finding",
         NEW b, b = tx[w].batch, NEW f, f = Head(tx[w].todo)[2],
         Match(w, b, f) = {}, NEW i \in FreshId, NEW hops, NEW evs,
         NEW row, row = NewFinding(b, f),
         tx' = [tx EXCEPT ![w] = Buffered(w, i, row, hops, evs)]
  PROVE  CountInv'
<1>1. PICK t, q : t = tx[w] /\ q = f.fp
  OBVIOUS
<1>2. Counts(row) /\ row.occ = 1 /\ row.tenant = b.tenant /\ row.fp = q
  BY <1>1, NewCounts
<1>3. i \notin DOMAIN findings /\ i \notin DOMAIN t.findings
  BY <1>1 DEF FreshId, Used
<1>4. /\ \A j \in DOMAIN findings : ~Alike(row, findings[j])
      /\ \A j \in DOMAIN t.findings : ~Alike(row, t.findings[j])
  BY <1>1, <1>2 DEF Alike, Match, Same, Own
<1>5. PICK c \in Nat : c = 0
  OBVIOUS
<1>6. Base(findings, i) = c /\ row.occ = c + 1
  BY <1>2, <1>3, <1>5 DEF Base
<1>7. Fits(findings, t, i, row, q, c)
  BY <1>1, <1>2, <1>3, <1>4, <1>5, <1>6 DEF Fits
<1>8. Fits(findings, tx[w], i, row, Head(tx[w].todo)[2].fp, c)
  BY <1>1, <1>7
<1> QED BY <1>8, RowCount

LEMMA FindingCount ==
  ASSUME TxInv, HistInv, CountInv, NEW w \in Worker, UpsertFinding(w) PROVE CountInv'
<1>1. /\ UNCHANGED <<world, findings, purged, ledger>> /\ Open(w)
      /\ tx[w].todo # <<>> /\ Head(tx[w].todo)[1] = "finding"
  BY DEF UpsertFinding, Ready, store
<1>2. PICK b, f : b = tx[w].batch /\ f = Head(tx[w].todo)[2]
  OBVIOUS
<1>3. CASE tx' = [tx EXCEPT ![w] = Idle]
  BY <1>1, <1>3, EndCount
<1>4. ASSUME NEW i, NEW evs, Match(w, b, f) # {}, i = Newest(Match(w, b, f)),
             tx' = [tx EXCEPT ![w] =
                      Buffered(w, i, MergeFinding(Finding(w, i), f),
                               Walked(w, i) \o Hops(Finding(w, i).state, f.state), evs)]
      PROVE  CountInv'
  <2>1. PICK hops, row : /\ hops = Walked(w, i) \o Hops(Finding(w, i).state, f.state)
                         /\ row = MergeFinding(Finding(w, i), f)
    OBVIOUS
  <2>2. tx' = [tx EXCEPT ![w] = Buffered(w, i, row, hops, evs)]
    BY <1>4, <2>1
  <2>3. i \in Match(w, b, f)
    BY <1>1, <1>4, MatchIs
  <2> QED BY <1>1, <1>2, <2>1, <2>2, <2>3, MergeCount
<1>5. ASSUME NEW i \in FreshId, NEW evs, Match(w, b, f) = {},
             tx' = [tx EXCEPT ![w] =
                      Buffered(w, i, NewFinding(b, f),
                               Walked(w, i) \o (<<"new">> \o Hops("new", f.state)), evs)]
      PROVE  CountInv'
  <2>1. PICK hops, row : /\ hops = Walked(w, i) \o (<<"new">> \o Hops("new", f.state))
                         /\ row = NewFinding(b, f)
    OBVIOUS
  <2>2. tx' = [tx EXCEPT ![w] = Buffered(w, i, row, hops, evs)]
    BY <1>5, <2>1
  <2>3. /\ TxInv /\ HistInv /\ CountInv /\ UNCHANGED <<world, findings, purged, ledger>>
        /\ w \in Worker /\ Open(w) /\ tx[w].todo # <<>> /\ Head(tx[w].todo)[1] = "finding"
        /\ b = tx[w].batch /\ f = Head(tx[w].todo)[2]
        /\ Match(w, b, f) = {} /\ i \in FreshId /\ row = NewFinding(b, f)
    BY <1>1, <1>2, <1>5, <2>1
  <2> QED BY ONLY <2>2, <2>3, NewCount
<1> QED BY <1>2, <1>3, <1>4, <1>5, UpsertFindingDoes

\* A table is extended by a transaction of which the others hold nothing.
LEMMA CommitUnique ==
  ASSUME NEW F, Unique(F), NEW t, Single(F, t), NEW G, Laid(F, t, G) PROVE Unique(G)
<1> SUFFICES ASSUME NEW i \in DOMAIN G, NEW j \in DOMAIN G, Alike(G[i], G[j]) PROVE i = j
  BY DEF Unique, Alike
<1>1. CASE i \in DOMAIN t.findings /\ j \in DOMAIN t.findings
  BY <1>1 DEF Laid, Single, Unique, Alike
<1>2. CASE i \in DOMAIN t.findings /\ j \notin DOMAIN t.findings
  <2>1. j \in DOMAIN F /\ G[j] = F[j] /\ G[i] = t.findings[i]
    BY <1>2 DEF Laid
  <2> QED BY <1>2, <2>1 DEF Single
<1>3. CASE i \notin DOMAIN t.findings /\ j \in DOMAIN t.findings
  <2>1. i \in DOMAIN F /\ G[i] = F[i] /\ G[j] = t.findings[j]
    BY <1>3 DEF Laid
  <2>2. Alike(t.findings[j], F[i])
    BY <2>1 DEF Alike
  <2> QED BY <1>3, <2>1, <2>2 DEF Single
<1>4. CASE i \notin DOMAIN t.findings /\ j \notin DOMAIN t.findings
  <2>1. i \in DOMAIN F /\ G[i] = F[i] /\ j \in DOMAIN F /\ G[j] = F[j]
    BY <1>4 DEF Laid
  <2> QED BY <2>1 DEF Unique, Alike
<1> QED BY <1>1, <1>2, <1>3, <1>4

\* What another transaction makes of it.
LEMMA CommitOther ==
  ASSUME TxInv, Apart, NEW v \in Worker, NEW w \in Worker, v # w, Open(v), Open(w),
         NEW t, t = tx[w], Job(t), NEW x, x = tx[v], Job(x), NEW G, Laid(findings, t, G)
  PROVE  Tally(G, x) /\ (Dedup => Single(G, x))
<1>1. ASSUME NEW i \in DOMAIN x.findings
      PROVE  /\ i \notin DOMAIN t.findings
             /\ i \in DOMAIN G <=> i \in DOMAIN findings
             /\ i \in DOMAIN G => G[i] = findings[i]
  <2>1. Mine(v) \cap Mine(w) = {} /\ Mine(v) = DOMAIN x.findings /\ Mine(w) = DOMAIN t.findings
    BY DEF Apart, Mine
  <2> QED BY <2>1 DEF Laid
<1>2. Tally(G, x)
  <2>1. ASSUME NEW i \in DOMAIN x.findings
        PROVE  /\ i \in DOMAIN G <=> i \in DOMAIN findings
               /\ i \in DOMAIN findings => Alike(G[i], findings[i]) /\ G[i].occ = findings[i].occ
    <3>1. i \in DOMAIN findings => G[i] = findings[i]
      BY <1>1
    <3>2. i \in DOMAIN findings => Alike(G[i], findings[i]) /\ G[i].occ = findings[i].occ
      BY <3>1 DEF Alike
    <3>3. i \in DOMAIN G <=> i \in DOMAIN findings
      BY <1>1
    <3> QED BY <3>2, <3>3
  <2>2. Agree(findings, G, x)
    BY <2>1 DEF Agree
  <2> QED BY <2>2, TallyAgrees DEF Job
<1>3. ASSUME Dedup PROVE Single(G, x)
  <2>1. Single(findings, x) /\ Tally(findings, x) /\ Names(x.batch) /\ ByAsset
        /\ Tally(findings, t) /\ Names(t.batch)
    BY <1>3 DEF Job, Dedup
  <2>2. ASSUME NEW i \in DOMAIN x.findings, NEW j \in DOMAIN G, Alike(x.findings[i], G[j])
        PROVE  i = j
    <3>1. CASE j \notin DOMAIN t.findings
      <4>1. j \in DOMAIN findings /\ G[j] = findings[j]
        BY <3>1 DEF Laid
      <4> QED BY <2>1, <2>2, <4>1 DEF Single
    <3>2. CASE j \in DOMAIN t.findings
      <4>1. PICK r, s, fp : r = x.findings[i] /\ s = t.findings[j] /\ fp = r.fp
        OBVIOUS
      <4>2. G[j] = s /\ Kept(findings, t, j) /\ Kept(findings, x, i)
        BY <2>1, <3>2, <4>1 DEF Laid, Tally
      <4>3. s.tenant = t.batch.tenant /\ r.tenant = x.batch.tenant /\ r.tenant = s.tenant /\ s.fp = fp
        BY <2>2, <4>1, <4>2 DEF Kept, Alike
      <4>4. HoldsAsset(x, fp)
        BY <2>1, <4>1, HeldByRow
      <4>5. HoldsAsset(t, fp)
        <5>1. HoldsAsset(t, t.findings[j].fp)
          BY <2>1, <3>2, HeldByRow
        <5> QED BY <4>1, <4>3, <5>1
      <4>6. tx[v].batch.tenant # tx[w].batch.tenant
        BY <2>1, <4>4, <4>5, HeldOnce
      <4> QED BY <4>3, <4>6
    <3> QED BY <3>1, <3>2
  <2> QED BY <2>1, <2>2 DEF Single
<1> QED BY <1>2, <1>3

LEMMA CommitCount ==
  ASSUME TxInv, HistInv, CountInv, NEW w \in Worker, Commit(w) PROVE CountInv'
<1>1. PICK t, b, k, G, M : /\ t = tx[w] /\ b = t.batch /\ k = b.key /\ G = Over(t.findings, findings)
                           /\ M = Over(ledger, One(k, [status |-> "accepted", batch |-> b]))
  OBVIOUS
<1>2. /\ Open(w) /\ t.todo = <<>> /\ findings' = G /\ ledger' = M
      /\ world' = world /\ purged' = purged
  BY <1>1 DEF Commit
<1>3. Job(t) /\ Tally(findings, t) /\ AllCount(findings) /\ k \notin DOMAIN ledger
  <2>1. Claim(t, DOMAIN ledger)
    BY <1>1, <1>2 DEF TxInv, Claims
  <2> QED BY <1>1, <1>2, <2>1 DEF CountInv, Jobs, Job, Claim
<1>4. Laid(findings, t, G) /\ AllCount(G)
  BY <1>1, <1>3, CommitRows
<1>5. \A v \in Worker : Open(v)' => v # w /\ Open(v) /\ tx'[v] = tx[v]
  <2>1. /\ DOMAIN tx = Worker /\ DOMAIN tx[w] = WorkFields
    BY <1>2, IdleWork DEF TxInv, TxShape, IsWork, Open
  <2>2. PICK u : u = [tx[w] EXCEPT !.stage = "publish", !.locks = {}]
    OBVIOUS
  <2>3. tx' = [tx EXCEPT ![w] = u] /\ u.stage = "publish"
    BY <2>1, <2>2 DEF Commit, WorkFields
  <2> QED BY <2>1, <2>3 DEF Open
<1>6. (Dedup' <=> Dedup) /\ \A c : Names(c) => Names(c)'
  BY <1>2, WorldKept
<1>7. ASSUME NEW v \in Worker, Open(v)' PROVE Job(tx[v])'
  <2>1. PICK x : x = tx[v]
    OBVIOUS
  <2>2. v # w /\ Open(v) /\ x = tx'[v] /\ Job(x)
    BY <1>5, <1>7, <2>1 DEF CountInv, Jobs
  <2>3. Tally(G, x) /\ (Dedup => Single(G, x))
    BY <1>1, <1>2, <1>3, <1>4, <2>1, <2>2, CommitOther DEF HistInv
  <2>4. Names(x.batch)'
    BY <1>6, <2>2 DEF Job
  <2> QED BY <1>2, <1>6, <2>2, <2>3, <2>4 DEF Job
<1>8. ASSUME purged' = {} PROVE Even(G, world.findings, M)
  <2>1. Even(findings, world.findings, ledger)
    BY <1>2, <1>8 DEF CountInv
  <2> QED BY <1>1, <1>2, <1>3, <2>1, CommitEven
<1>9. Dedup => Unique(G)
  BY <1>3, <1>4, CommitUnique DEF CountInv, Job
<1> QED BY <1>2, <1>4, <1>6, <1>7, <1>8, <1>9 DEF CountInv, Jobs

\* The operators and the sweep change no row that counts, or take one away.
LEMMA MarkCount ==
  ASSUME CountInv, UNCHANGED <<world, ledger, tx, purged>>, NEW i,
         \/ \E to : findings' = [findings EXCEPT ![i].state = to]
         \/ findings' = [findings EXCEPT ![i].evidence = "none"]
  PROVE  CountInv'
<1>1. DOMAIN findings' = DOMAIN findings
  OBVIOUS
<1>2. ASSUME NEW j \in DOMAIN findings
      PROVE  /\ Counts(findings'[j]) /\ Alike(findings'[j], findings[j])
             /\ findings'[j].occ = findings[j].occ
  <2>1. PICK r, s : r = findings[j] /\ s = findings'[j]
    OBVIOUS
  <2>2. Counts(r)
    BY <2>1 DEF CountInv, AllCount
  <2>3. \/ s = r \/ \E to : s = [r EXCEPT !.state = to]
        \/ s = [r EXCEPT !.evidence = "none"]
    BY <2>1
  <2>4. DOMAIN s = DOMAIN r /\ s.tenant = r.tenant /\ s.fp = r.fp /\ s.occ = r.occ
    BY <2>2, <2>3 DEF Counts
  <2> QED BY <2>1, <2>2, <2>4 DEF Counts, Alike
<1> QED BY <1>1, <1>2, TableCount

LEMMA DeleteCount == ASSUME HistInv, CountInv, DeleteFinding PROVE CountInv'
<1>1. UNCHANGED <<world, ledger, tx>> /\ sweep.stage = "delete"
  BY DEF DeleteFinding
<1>2. CASE UNCHANGED <<findings, purged>>
  BY <1>1, <1>2, QuietCount
<1>3. ASSUME NEW i \in sweep.ids, Unlocked(i), purged' = purged \cup {i},
             findings' = [j \in DOMAIN findings \ {i} |-> findings[j]]
      PROVE  CountInv'
  <2>1. i \in DOMAIN findings
    BY <1>1, <1>3 DEF HistInv, Sweeping
  <2>2. \A w \in Worker : i \notin Mine(w)
    BY <1>3, <2>1, UnlockedIs
  <2>3. DOMAIN findings' = DOMAIN findings \ {i}
        /\ \A j \in DOMAIN findings' : findings'[j] = findings[j]
    BY <1>3
  <2>4. purged' # {}
    BY <1>3
  <2>5. \A j \in DOMAIN findings' : /\ Counts(findings'[j]) /\ Alike(findings'[j], findings[j])
                                    /\ findings'[j].occ = findings[j].occ
    BY <2>3 DEF CountInv, AllCount, Alike
  <2>6. \A w \in Worker : \A j \in Mine(w) : j \in DOMAIN findings => j \in DOMAIN findings'
    BY <2>2, <2>3
  <2> QED BY <1>1, <2>3, <2>4, <2>5, <2>6, TableCount
<1> QED BY <1>2, <1>3 DEF DeleteFinding

LEMMA CrashCount == ASSUME CountInv, Crash PROVE CountInv'
<1>1. UNCHANGED <<world, findings, purged, ledger>> /\ tx' = [w \in Worker |-> Idle]
  BY DEF Crash, store
<1>2. \A w \in Worker : tx'[w].stage # "open"
  BY <1>1, IdleWork
<1>3. Jobs'
  BY <1>2 DEF Jobs, Open
<1>4. Dedup' <=> Dedup
  BY <1>1, WorldKept
<1> QED BY <1>1, <1>3, <1>4 DEF CountInv

LEMMA SweepCount == ASSUME HistInv, CountInv, Sweep PROVE CountInv'
<1>1. CASE ClearEvidenceRef
  <2>1. PICK i : i = sweep.id
    OBVIOUS
  <2>2. UNCHANGED <<world, ledger, tx, purged>>
        /\ findings' = [findings EXCEPT ![i].evidence = "none"]
    BY <1>1, <2>1 DEF ClearEvidenceRef
  <2> QED BY <2>2, MarkCount
<1>2. CASE DeleteFinding
  BY <1>2, DeleteCount
<1>3. CASE ListResolved \/ AuditPurge \/ ListEvidence \/ DeleteBlob \/ AuditEvidence
  <2>1. UNCHANGED <<world, ledger, tx, findings, purged>>
    BY <1>3 DEF ListResolved, AuditPurge, ListEvidence, DeleteBlob, AuditEvidence, store
  <2> QED BY <2>1, QuietCount
<1> QED BY <1>1, <1>2, <1>3 DEF Sweep

LEMMA WorkerCount ==
  ASSUME world \in Scenario, TxInv, HistInv, CountInv, NEW w \in Worker,
         (\E m \in Sent : Deliver(w, m)) \/ Apply(w) \/ StatementFails(w)
  PROVE  CountInv'
<1>1. CASE \E m \in Sent : Deliver(w, m)
  BY <1>1, DeliverCount
<1>2. CASE AuditRejected(w) \/ PublishChanges(w) \/ DeadlockVictim(w) \/ StatementFails(w)
  <2>1. UNCHANGED <<world, findings, purged, ledger>> /\ tx' = [tx EXCEPT ![w] = Idle]
    BY <1>2 DEF AuditRejected, PublishChanges, DeadlockVictim, StatementFails, store
  <2> QED BY <2>1, EndCount
<1> QED BY <1>1, <1>2, RejectCount, BeginCount, UpsertAssetCount, InsertAssetCount,
           FindingCount, CommitCount DEF Apply

LEMMA CountStep ==
  ASSUME world \in Scenario, AuditInv, HistInv, CountInv, [Next]_vars PROVE CountInv'
<1>1. TxInv
  BY DEF AuditInv
<1>2. CASE UNCHANGED vars
  BY <1>2, QuietCount DEF vars
<1>3. ASSUME NEW w \in Worker, (\E m \in Sent : Deliver(w, m)) \/ Apply(w) \/ StatementFails(w)
      PROVE  CountInv'
  BY <1>1, <1>3, WorkerCount
<1>4. ASSUME NEW i, Transition(i) PROVE CountInv'
  <2>1. UNCHANGED <<world, ledger, tx, purged>>
        /\ \E to : findings' = [findings EXCEPT ![i].state = to]
    BY <1>4 DEF Transition
  <2> QED BY <2>1, MarkCount
<1>5. ASSUME NEW i, Ages(i) PROVE CountInv'
  BY <1>5, QuietCount DEF Ages
<1>6. CASE Forward
  BY <1>6, QuietCount DEF Forward, store
<1>7. CASE Next
  <2>1. CASE \E w \in Worker : (\E m \in Sent : Deliver(w, m)) \/ Apply(w) \/ StatementFails(w)
    BY <1>3, <2>1
  <2>2. CASE \E i \in 1 .. MaxFinding : Transition(i) \/ Ages(i)
    BY <1>4, <1>5, <2>2
  <2> QED BY <1>6, <1>7, <2>1, <2>2, CrashCount, SweepCount DEF Next
<1> QED BY <1>2, <1>7

LEMMA CountStart == Init => CountInv
<1> SUFFICES ASSUME Init PROVE CountInv
  OBVIOUS
<1>1. /\ world \in Scenario /\ findings = world.findings /\ ledger = Empty
      /\ tx = [w \in Worker |-> Idle]
  BY DEF Init
<1>2. DOMAIN findings \subseteq 1 .. MaxFinding /\ AllCount(findings)
  BY <1>1, WorldsAreSound DEF AllCount, Counts
<1>3. Jobs
  <2>1. \A w \in Worker : tx[w].stage # "open"
    BY <1>1, IdleWork
  <2> QED BY <2>1 DEF Jobs, Open
<1>4. ASSUME NEW q, NEW fp
      PROVE  /\ IsFiniteSet(Counted(findings, q, fp)) /\ IsFiniteSet(Carried(ledger, q, fp))
             /\ IsFiniteSet(Counted(world.findings, q, fp))
             /\ Cardinality(Counted(findings, q, fp)) =
                  Cardinality(Counted(world.findings, q, fp))
                    + Cardinality(Carried(ledger, q, fp))
  <2>1. Carried(ledger, q, fp) = {}
    BY <1>1 DEF Empty, Carried, Batches
  <2>2. IsFiniteSet(Carried(ledger, q, fp)) /\ Cardinality(Carried(ledger, q, fp)) = 0
    BY <2>1, FS_EmptySet
  <2>3. IsFiniteSet(Counted(findings, q, fp))
    BY <1>2, CountedFinite
  <2>4. Counted(findings, q, fp) = Counted(world.findings, q, fp)
    BY <1>1
  <2>5. Cardinality(Counted(findings, q, fp)) \in Nat
    BY <2>3, FS_CardinalityType
  <2> QED BY <2>2, <2>3, <2>4, <2>5
<1>5. Even(findings, world.findings, ledger)
  BY <1>4 DEF Even
<1>6. Dedup => Unique(findings)
  BY <1>1 DEF Dedup
<1> QED BY <1>2, <1>3, <1>5, <1>6 DEF CountInv

LEMMA CountSays == CountInv => CountedOnce
<1> SUFFICES ASSUME CountInv PROVE CountedOnce
  OBVIOUS
<1>1. AppliedOnce
  <2> SUFFICES ASSUME purged = {}, NEW i \in DOMAIN findings
               PROVE  Cardinality(Counted(findings, findings[i].tenant, findings[i].fp)) =
                        Cardinality(Counted(world.findings, findings[i].tenant, findings[i].fp))
                          + Cardinality(Carried(ledger, findings[i].tenant, findings[i].fp))
    BY DEF AppliedOnce
  <2>1. PICK q, fp : q = findings[i].tenant /\ fp = findings[i].fp
    OBVIOUS
  <2>2. Cardinality(Counted(findings, q, fp)) =
          Cardinality(Counted(world.findings, q, fp)) + Cardinality(Carried(ledger, q, fp))
    BY DEF CountInv, Even
  <2> QED BY <2>1, <2>2
<1>2. OneFindingPerFingerprint
  BY DEF CountInv, Dedup, OneFindingPerFingerprint
<1> QED BY <1>1, <1>2 DEF CountedOnce

\* engine.go, the ledger, and findings.go, "cross-run dedup": for any overlap,
\* redelivery, deadlock, failed statement and crash, what the accepted batches
\* report is what the findings count, each report once; and where a fingerprint
\* names one asset that its batches write, it has one finding.
THEOREM ReportsAreCountedOnce == Spec => []CountedOnce
<1>1. Init => world \in Scenario /\ AuditInv /\ HistInv /\ CountInv
  BY AuditStart, HistStart, CountStart
<1>2. world \in Scenario /\ AuditInv /\ HistInv /\ CountInv /\ [Next]_vars
        => (world \in Scenario /\ AuditInv /\ HistInv /\ CountInv)'
  BY AuditStep, HistStep, CountStep
<1>3. CountInv => CountedOnce
  BY CountSays
<1> QED BY <1>1, <1>2, <1>3, PTL DEF Spec

=============================================================================
