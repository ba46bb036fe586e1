---------------------------- MODULE DataPlatform ----------------------------
(***************************************************************************)
(* The write path of the data platform (services/data-platform): batches   *)
(* that reach ingest.Engine.Apply over REST or from the bus consumers, the *)
(* inventory and the findings they merge into, the operators' transitions, *)
(* the retention sweep, and the audit outbox with its forwarder.           *)
(*                                                                         *)
(* Apply runs in one database transaction.  A transaction takes row locks  *)
(* statement by statement and buffers what it writes until it commits; a   *)
(* statement that needs a lock of another transaction waits.  What a       *)
(* transaction has not committed is invisible to the others, so a SELECT   *)
(* ... FOR UPDATE that finds no row locks nothing.                         *)
(***************************************************************************)
EXTENDS Intake, SequencesExt

CONSTANTS Worker,      \* requests and consumers that run Apply
          MaxFinding,  \* rows dp.findings ever holds (a bound)
          Scenario     \* the worlds a run explores

\* A known finding has walked from "new" to its state and was reported a number
\* of times; the lists of a request are lists.
IsList(s) == Len(s) \in Nat /\ s = [n \in 1 .. Len(s) |-> s[n]]
ASSUME WorldsAreSound ==
    /\ MaxFinding \in Nat
    /\ \A s \in Scenario :
          /\ DOMAIN s.findings \subseteq 1 .. MaxFinding
          /\ \A i \in DOMAIN s.findings :
                /\ {"tenant", "fp", "state", "occ"} \subseteq DOMAIN s.findings[i]
                /\ s.findings[i].state \in All /\ s.findings[i].occ \in Nat
                /\ s.hist[i] \in Seq(All) \ {<<>>} /\ s.hist[i][1] = "new"
                /\ Chain(s.hist[i])
                /\ s.hist[i][Len(s.hist[i])] = s.findings[i].state
          /\ \A m \in s.sent :
                /\ m.via \in {"rest", "detect", "monitor", "discover"}
                /\ m.via = "rest" => IsList(m.assets) /\ IsList(m.findings)

VARIABLES
    world,     \* the messages and requests sent, and what may happen to them
    ledger,    \* dp.ingest_batches: key -> status, batch
    assets,    \* dp.assets: <<tenant, value>> -> type, status
    findings,  \* dp.findings: id -> row
    hist,      \* dp.finding_state_transitions: id -> the states walked
    age,       \* id -> the retention cutoffs a terminal finding has passed
    purged,    \* ids of deleted findings
    blobs,     \* the evidence objects in the store
    outbox,    \* dp.audit_outbox: what, about, forwarded
    chain,     \* audit rows the gatekeeper's log holds
    announced, \* change events published
    inbox,     \* per message: deliveries so far, settled or not
    tx,        \* what each worker is doing
    sweep,     \* the retention engine
    faults

vars == <<world, ledger, assets, findings, hist, age, purged, blobs, outbox, chain,
          announced, inbox, tx, sweep, faults>>
store == <<ledger, assets, findings, hist, age>>

Sent == world.sent
Empty == [x \in {} |-> 0]
One(k, v) == [x \in {k} |-> v]
Over(g, f) == [x \in DOMAIN g \cup DOMAIN f |-> IF x \in DOMAIN g THEN g[x] ELSE f[x]]
Idle == [stage |-> "idle"]
Rest == [stage |-> "rest"]

Init ==
    /\ world \in Scenario
    /\ ledger = Empty /\ assets = world.assets /\ findings = world.findings
    /\ hist = [i \in DOMAIN findings |-> world.hist[i]]
    /\ age = [i \in DOMAIN findings |-> 0]
    /\ purged = {} /\ blobs = world.blobs
    /\ outbox = <<>> /\ chain = {} /\ announced = {}
    /\ inbox = [m \in Sent |-> [tries |-> 0, settled |-> FALSE]]
    /\ tx = [w \in Worker |-> Idle]
    /\ sweep = Rest
    /\ faults = 0

Fault(f) == f \in world.faults /\ faults < world.maxFaults
            /\ faults' = faults + 1

-----------------------------------------------------------------------------
(* Transactions. *)

Busy(w) == tx[w] # Idle
Open(w) == tx[w].stage = "open"
Locks(w) == IF Open(w) THEN tx[w].locks ELSE {}

AssetKey(b, a) == <<b.tenant, a.value>>
Same(b, f) == {i \in DOMAIN findings : /\ findings[i].tenant = b.tenant
                                       /\ findings[i].fp = f.fp}
Newest(S) == CHOOSE i \in S : \A j \in S : j <= i
Own(w, b, f) == {i \in DOMAIN tx[w].findings :
                     /\ tx[w].findings[i].tenant = b.tenant
                     /\ tx[w].findings[i].fp = f.fp}
Match(w, b, f) == Same(b, f) \cup Own(w, b, f)

\* A ledger that is read before it is written.
Needs_LedgerRead(w) ==
    LET b == tx[w].batch
        o == Head(tx[w].todo)
    IN  CASE o[1] = "ledger" -> {}
          [] o[1] = "insert" -> {<<"asset", AssetKey(b, o[2])>>}
          [] o[1] = "asset" -> {<<"asset", k>> : k \in {AssetKey(b, o[2])}
                                                    \cap DOMAIN assets}
          [] o[1] = "finding" -> IF Match(w, b, o[2]) = {} THEN {}
                                 ELSE {<<"finding", Newest(Match(w, b, o[2]))>>}

\* The locks the next statement of an open transaction needs.
Needs(w) ==
    LET b == tx[w].batch
        o == Head(tx[w].todo)
    IN  CASE o[1] = "ledger" -> {<<"key", b.key>>}
          [] o[1] = "insert" -> {<<"asset", AssetKey(b, o[2])>>}
          [] o[1] = "asset" -> {<<"asset", k>> : k \in {AssetKey(b, o[2])}
                                                    \cap DOMAIN assets}
          [] o[1] = "finding" -> IF Match(w, b, o[2]) = {} THEN {}
                                 ELSE {<<"finding", Newest(Match(w, b, o[2]))>>}
Waits(w, v) == Open(w) /\ tx[w].todo # <<>> /\ Needs(w) \cap Locks(v) # {}
Ready(w) == /\ Open(w) /\ tx[w].todo # <<>>
            /\ \A v \in Worker \ {w} : ~Waits(w, v)

Asset(w, k) == IF k \in DOMAIN tx[w].assets THEN tx[w].assets[k] ELSE assets[k]
Known(w) == DOMAIN assets \cup DOMAIN tx[w].assets
Finding(w, i) == IF i \in DOMAIN tx[w].findings THEN tx[w].findings[i]
                                                ELSE findings[i]
Step(w) == [tx[w] EXCEPT !.todo = Tail(@), !.locks = @ \cup Needs(w)]

\* Ids are handed out in order of creation.
Used == DOMAIN findings \cup purged
        \cup UNION {IF Open(w) THEN DOMAIN tx[w].findings ELSE {} :
                    w \in Worker}
FreshId == {i \in 1 .. MaxFinding : i \notin Used /\ \A j \in Used : j < i}

Settle(w) == inbox' = [inbox EXCEPT ![tx[w].msg].settled = TRUE]

-----------------------------------------------------------------------------
(* ingest.Engine.Apply. *)

\* A consumer handles one message at a time; a client may send a request
\* again while the first is still running.  A message that makes no batch is
\* settled at once.
Deliver(w, m) ==
    /\ ~Busy(w) /\ w \in m.by
    /\ ~inbox[m].settled /\ inbox[m].tries < world.tries
    /\ LET b == BatchOf(assets, world.tenants, m)
       IN  \/ /\ b = Dropped
              /\ inbox' = [inbox EXCEPT ![m].settled = TRUE]
              /\ UNCHANGED tx
           \/ /\ b # Dropped
              /\ inbox' = [inbox EXCEPT ![m].tries = @ + 1]
              /\ \E good \in Admitted(m.via, b) :
                    tx' = [tx EXCEPT ![w] =
                      [msg |-> m, batch |-> b, locks |-> {}, assets |-> Empty,
                       findings |-> Empty, hops |-> Empty, evs |-> {},
                       stage |-> IF good THEN "open" ELSE "reject",
                       todo |-> <<<<"ledger", 0>>>>
                                \o [i \in DOMAIN b.assets |->
                                      <<"asset", b.assets[i]>>]
                                \o [i \in DOMAIN b.findings |->
                                      <<"finding", b.findings[i]>>]]]
    /\ UNCHANGED <<world, store, purged, blobs, outbox, chain, announced,
                   sweep, faults>>

\* A rejection that overwrites what the ledger says of its key.
RejectBatch_Upsert(w) ==
    /\ tx[w].stage = "reject"
    /\ LET b == tx[w].batch
       IN  /\ \A v \in Worker : <<"key", b.key>> \notin Locks(v)
           /\ ledger' = Over(One(b.key, [status |-> "rejected", batch |-> b]), ledger)
    /\ tx' = [tx EXCEPT ![w].stage = "rejected"]
    /\ UNCHANGED <<world, assets, findings, hist, age, purged, blobs, outbox,
                   chain, announced, inbox, sweep, faults>>

\* reject: the caller's key goes into the ledger, then the audit row; two
\* statements, each of which may fail alone.
RejectBatch(w) ==
    /\ tx[w].stage = "reject"
    /\ LET b == tx[w].batch
       IN  /\ \A v \in Worker : <<"key", b.key>> \notin Locks(v)
           /\ \/ /\ ledger' = Over(ledger, One(b.key, [status |-> "rejected", batch |-> b]))
                 /\ UNCHANGED faults
              \/ Fault("statement") /\ UNCHANGED ledger
    /\ tx' = [tx EXCEPT ![w].stage = "rejected"]
    /\ UNCHANGED <<world, assets, findings, hist, age, purged, blobs, outbox,
                   chain, announced, inbox, sweep>>

AuditRow(what, about) == [what |-> what, about |-> about, forwarded |-> FALSE]
AuditOutbox(what, about) == outbox' = Append(outbox, AuditRow(what, about))

AuditRejected(w) ==
    /\ tx[w].stage = "rejected"
    /\ \/ AuditOutbox("ingest.rejected", tx[w].batch.key) /\ UNCHANGED faults
       \/ Fault("statement") /\ UNCHANGED outbox
    /\ Settle(w)
    /\ tx' = [tx EXCEPT ![w] = Idle]
    /\ UNCHANGED <<world, store, purged, blobs, chain, announced, sweep>>

\* BeginBatchTx claims the key, or waits for the transaction that did; a key
\* of the ledger is answered from there, to its own tenant only.
BeginBatch(w) ==
    /\ Ready(w) /\ Head(tx[w].todo)[1] = "ledger"
    /\ LET b == tx[w].batch
       IN  \/ /\ b.key \in DOMAIN ledger
              /\ tx' = [tx EXCEPT ![w] = Idle]
              /\ Settle(w)
           \/ /\ b.key \notin DOMAIN ledger
              /\ tx' = [tx EXCEPT ![w] = Step(w)]
              /\ UNCHANGED inbox
    /\ UNCHANGED <<world, store, purged, blobs, outbox, chain, announced,
                   sweep, faults>>

\* A status that is left out is "active".
Proposed(a) == IF a.status = "none" THEN "active" ELSE a.status

\* The merge of a status into the one the asset has.
Merged(old, new) ==
    IF new \in {"expired", "quarantined"} THEN new
    ELSE IF old \in {"expired", "candidate"} /\ new = "active" THEN "active"
    ELSE old

\* UpsertAssetTx: lock and merge the row, or find none.
UpsertAsset(w) ==
    /\ Ready(w) /\ Head(tx[w].todo)[1] = "asset"
    /\ LET b == tx[w].batch
           a == Head(tx[w].todo)[2]
           k == AssetKey(b, a)
           row == [Asset(w, k) EXCEPT !.status = Merged(@, Proposed(a))]
       IN  tx' = [tx EXCEPT ![w] =
             IF k \in Known(w)
             THEN [Step(w) EXCEPT !.assets = Over(One(k, row), @)]
             ELSE [tx[w] EXCEPT !.todo = <<<<"insert", a>>>> \o Tail(@)]]
    /\ UNCHANGED <<world, store, purged, blobs, outbox, chain, announced, inbox,
                   sweep, faults>>

\* The INSERT waits for one of the same value, and fails when that committed.
InsertAsset(w) ==
    /\ Ready(w) /\ Head(tx[w].todo)[1] = "insert"
    /\ LET b == tx[w].batch
           a == Head(tx[w].todo)[2]
           k == AssetKey(b, a)
       IN  \/ /\ k \in DOMAIN assets
              /\ tx' = [tx EXCEPT ![w] = Idle]
           \/ /\ k \notin DOMAIN assets
              /\ tx' = [tx EXCEPT ![w] = [Step(w) EXCEPT !.assets =
                          Over(One(k, [type |-> a.type, status |-> Proposed(a)]), @)]]
    /\ UNCHANGED <<world, store, purged, blobs, outbox, chain, announced, inbox,
                   sweep, faults>>

\* UpsertFindingTx on a row: count it, keep the newest evidence, accumulate
\* the hold, and walk to the proposed state when that can be reached.
Walked(w, i) == IF i \in DOMAIN tx[w].hops THEN tx[w].hops[i] ELSE <<>>
Hops(from, to) == IF Reachable(from, to) THEN Path(from, to) ELSE <<>>
MergeFinding(row, f) ==
    [row EXCEPT !.occ = @ + 1, !.held = @ \/ f.hold,
                !.evidence = IF f.evidence = "none" THEN @ ELSE f.evidence,
                !.state = IF Reachable(@, f.state) THEN f.state ELSE @]
NewFinding(b, f) ==
    MergeFinding([tenant |-> b.tenant, fp |-> f.fp, state |-> "new", occ |-> 0,
                  held |-> FALSE, evidence |-> "none"], f)

\* The asset the finding refers to must be visible, else the batch fails.
UpsertFinding(w) ==
    /\ Ready(w) /\ Head(tx[w].todo)[1] = "finding"
    /\ LET b == tx[w].batch
           f == Head(tx[w].todo)[2]
           match == Match(w, b, f)
           Buffer(i, row, hops, evs) ==
               tx' = [tx EXCEPT ![w] = [Step(w) EXCEPT
                        !.findings = Over(One(i, row), @),
                        !.hops = Over(One(i, Walked(w, i) \o hops), @),
                        !.evs = @ \cup evs]]
       IN  \/ /\ <<b.tenant, f.asset>> \notin Known(w)
              /\ tx' = [tx EXCEPT ![w] = Idle]
           \/ /\ <<b.tenant, f.asset>> \in Known(w)
              /\ match # {}
              /\ LET i == Newest(match)
                     old == Finding(w, i)
                     hops == Hops(old.state, f.state)
                 IN  Buffer(i, MergeFinding(old, f), hops,
                            {<<i, f.state>> : h \in Range(hops)})
           \/ /\ <<b.tenant, f.asset>> \in Known(w)
              /\ match = {}
              /\ \E i \in FreshId :
                    /\ \A j \in FreshId : i <= j
                    /\ Buffer(i, NewFinding(b, f),
                              <<"new">> \o Hops("new", f.state),
                              {<<i, "new">>, <<i, f.state>>})
    /\ UNCHANGED <<world, store, purged, blobs, outbox, chain, announced, inbox,
                   sweep, faults>>

\* Everything the transaction wrote becomes visible, with its ledger row and
\* its audit row.
Commit(w) ==
    /\ Open(w) /\ tx[w].todo = <<>>
    /\ LET b == tx[w].batch
       IN  /\ ledger' = Over(ledger, One(b.key, [status |-> "accepted", batch |-> b]))
           /\ assets' = Over(tx[w].assets, assets)
           /\ findings' = Over(tx[w].findings, findings)
           /\ hist' = [i \in DOMAIN findings' |->
                 (IF i \in DOMAIN hist THEN hist[i] ELSE <<>>) \o Walked(w, i)]
           /\ age' = [i \in DOMAIN findings' |->
                 IF i \in DOMAIN age /\ ~(i \in DOMAIN tx[w].findings
                                         /\ hist[i] = <<>>)
                 THEN age[i] ELSE 0]
           /\ blobs' = blobs \cup ({findings'[i].evidence :
                                    i \in DOMAIN tx[w].findings} \ {"none"})
           /\ AuditOutbox("ingest.batch", b.key)
           /\ tx' = [tx EXCEPT ![w].stage = "publish", ![w].locks = {}]
    /\ UNCHANGED <<world, purged, chain, announced, inbox, sweep, faults>>

\* After the commit: the change events, then the answer.
PublishChanges(w) ==
    /\ tx[w].stage = "publish"
    /\ announced' = announced \cup tx[w].evs
    /\ Settle(w)
    /\ tx' = [tx EXCEPT ![w] = Idle]
    /\ UNCHANGED <<world, store, purged, blobs, outbox, chain, sweep, faults>>

\* A statement fails: the transaction is rolled back and the batch stays
\* unsettled.
StatementFails(w) ==
    /\ Open(w) /\ Fault("statement")
    /\ tx' = [tx EXCEPT ![w] = Idle]
    /\ UNCHANGED <<world, store, purged, blobs, outbox, chain, announced, inbox,
                   sweep>>

\* Two transactions that wait for each other: the database ends one.
DeadlockVictim(w) ==
    /\ \E v \in Worker \ {w} : Waits(w, v) /\ Waits(v, w)
    /\ tx' = [tx EXCEPT ![w] = Idle]
    /\ UNCHANGED <<world, store, purged, blobs, outbox, chain, announced, inbox,
                   sweep, faults>>

\* The process stops: open transactions roll back, committed batches may lose
\* their events, the sweep forgets where it was.
Crash ==
    /\ Fault("crash")
    /\ tx' = [w \in Worker |-> Idle]
    /\ sweep' = Rest
    /\ UNCHANGED <<world, store, purged, blobs, outbox, chain, announced, inbox>>

-----------------------------------------------------------------------------
(* Operators and retention. *)

Unlocked(i) == \A w \in Worker : <<"finding", i>> \notin Locks(w)

\* handleFindingTransition: one hop along an edge, with its audit row; no
\* event is published.
Moves == Cardinality({n \in DOMAIN outbox : outbox[n].what = "admin.action"})
Transition(i) ==
    /\ i \in DOMAIN findings /\ Unlocked(i)
    /\ Moves < world.maxMoves
    /\ \E to \in world.moves :
          /\ Legal(findings[i].state, to)
          /\ findings' = [findings EXCEPT ![i].state = to]
          /\ hist' = [hist EXCEPT ![i] = Append(@, to)]
          /\ AuditOutbox("admin.action", <<i, to>>)
    /\ UNCHANGED <<world, ledger, assets, age, purged, blobs, chain, announced,
                   inbox, tx, sweep, faults>>

\* Time: a terminal finding outlives the retention of its evidence (age 1),
\* then its own (age 2).
Ages(i) ==
    /\ world.retention
    /\ i \in DOMAIN findings /\ Terminal(findings[i].state)
    /\ age[i] < 2
    /\ age' = [age EXCEPT ![i] = @ + 1]
    /\ UNCHANGED <<world, ledger, assets, findings, hist, purged, blobs, outbox, chain,
                   announced, inbox, tx, sweep, faults>>

\* A terminal date that is read from the transitions alone.
Expired_Joined(i, cutoff) ==
    /\ Terminal(findings[i].state) /\ ~findings[i].held
    /\ age[i] >= cutoff /\ hist[i] # <<>>

\* TerminalFindingIDs, ExpiredEvidence: where the transitions are gone, the
\* last update of the row stands in for the terminal date.
Expired(i, cutoff) == /\ Terminal(findings[i].state) /\ ~findings[i].held
                      /\ age[i] >= cutoff

\* purgeResolvedFindings lists; audits; then deletes row by row, the
\* transitions of a finding before the finding.
ListResolved ==
    /\ sweep.stage = "rest" /\ world.retention
    /\ LET ids == {i \in DOMAIN findings : Expired(i, 2)}
       IN  sweep' = IF ids = {} THEN [stage |-> "evidence"]
                    ELSE [stage |-> "audit", ids |-> ids]
    /\ \E i \in DOMAIN findings : Expired(i, 1)
    /\ UNCHANGED <<world, store, purged, blobs, outbox, chain, announced, inbox,
                   tx, faults>>

\* An audit row that is left for the end.
AuditPurge_Later ==
    /\ sweep.stage = "audit"
    /\ sweep' = [stage |-> "delete", ids |-> sweep.ids]
    /\ UNCHANGED <<world, store, purged, blobs, outbox, chain, announced, inbox,
                   tx, faults>>

AuditPurge ==
    /\ sweep.stage = "audit"
    /\ AuditOutbox("retention.purge", sweep.ids)
    /\ sweep' = [stage |-> "delete", ids |-> sweep.ids]
    /\ UNCHANGED <<world, store, purged, blobs, chain, announced, inbox, tx,
                   faults>>

DeleteFinding ==
    /\ sweep.stage = "delete"
    /\ \E i \in sweep.ids :
          \/ /\ hist[i] # <<>>
             /\ hist' = [hist EXCEPT ![i] = <<>>]
             /\ UNCHANGED <<findings, age, purged, sweep>>
          \/ /\ hist[i] = <<>> /\ Unlocked(i)
             /\ LET kept == DOMAIN findings \ {i}
                IN  /\ findings' = [j \in kept |-> findings[j]]
                    /\ hist' = [j \in kept |-> hist[j]]
                    /\ age' = [j \in kept |-> age[j]]
             /\ purged' = purged \cup {i}
             /\ sweep' = IF sweep.ids = {i} THEN [stage |-> "evidence"]
                         ELSE [sweep EXCEPT !.ids = @ \ {i}]
    /\ UNCHANGED <<world, ledger, assets, blobs, outbox, chain, announced, inbox,
                   tx, faults>>

\* purgeEvidence lists; per finding deletes the blob, then the reference;
\* audits what it did last.
ListEvidence ==
    /\ sweep.stage = "evidence"
    /\ LET ids == {i \in DOMAIN findings :
                      Expired(i, 1) /\ findings[i].evidence # "none"}
       IN  sweep' = IF ids = {} THEN Rest
                    ELSE [stage |-> "blob", done |-> {},
                          todo |-> [i \in ids |-> findings[i].evidence]]
    /\ UNCHANGED <<world, store, purged, blobs, outbox, chain, announced, inbox,
                   tx, faults>>

DeleteBlob ==
    /\ sweep.stage = "blob"
    /\ \E i \in DOMAIN sweep.todo :
          /\ \A j \in DOMAIN sweep.todo : i <= j
          /\ LET left == [j \in DOMAIN sweep.todo \ {i} |-> sweep.todo[j]]
             IN  \/ /\ blobs' = blobs \ {sweep.todo[i]}
                    /\ sweep' = [stage |-> "clear", id |-> i, todo |-> left,
                                 done |-> sweep.done]
                    /\ UNCHANGED faults
                 \/ /\ Fault("object")
                    /\ sweep' = [sweep EXCEPT !.todo = left]
                    /\ UNCHANGED blobs
    /\ UNCHANGED <<world, store, purged, outbox, chain, announced, inbox, tx>>

ClearEvidenceRef ==
    /\ sweep.stage = "clear" /\ Unlocked(sweep.id)
    /\ findings' = [findings EXCEPT ![sweep.id].evidence = "none"]
    /\ age' = [age EXCEPT ![sweep.id] = IF hist[sweep.id] = <<>> THEN 0 ELSE @]
    /\ sweep' = [stage |-> "blob", todo |-> sweep.todo,
                 done |-> sweep.done \cup {sweep.id}]
    /\ UNCHANGED <<world, ledger, assets, hist, purged, blobs, outbox, chain,
                   announced, inbox, tx, faults>>

AuditEvidence ==
    /\ sweep.stage = "blob" /\ DOMAIN sweep.todo = {}
    /\ IF sweep.done = {} THEN UNCHANGED outbox
       ELSE AuditOutbox("evidence.purge", sweep.done)
    /\ sweep' = Rest
    /\ UNCHANGED <<world, store, purged, blobs, chain, announced, inbox, tx,
                   faults>>

-----------------------------------------------------------------------------
(* auditfwd: publish the oldest pending row, then mark it; the log ignores *)
(* an event id it has.                                                     *)

Pending == {n \in DOMAIN outbox : ~outbox[n].forwarded}

Forward ==
    /\ \E n \in Pending :
          /\ \A m \in Pending : n <= m
          /\ chain' = chain \cup {n}
          /\ \/ outbox' = [outbox EXCEPT ![n].forwarded = TRUE]
                /\ UNCHANGED faults
             \/ Fault("statement") /\ UNCHANGED outbox
    /\ UNCHANGED <<world, store, purged, blobs, announced, inbox, tx, sweep>>

-----------------------------------------------------------------------------
Apply(w) ==
    \/ RejectBatch(w) \/ AuditRejected(w)
    \/ BeginBatch(w) \/ UpsertAsset(w) \/ InsertAsset(w) \/ UpsertFinding(w)
    \/ Commit(w) \/ PublishChanges(w) \/ DeadlockVictim(w)

Sweep ==
    \/ ListResolved \/ AuditPurge \/ DeleteFinding
    \/ ListEvidence \/ DeleteBlob \/ ClearEvidenceRef \/ AuditEvidence

Next ==
    \/ \E w \in Worker :
          \/ \E m \in Sent : Deliver(w, m)
          \/ Apply(w) \/ StatementFails(w)
    \/ Crash
    \/ \E i \in 1 .. MaxFinding : Transition(i) \/ Ages(i)
    \/ Sweep
    \/ Forward

Spec == Init /\ [][Next]_vars

\* Requests and consumers run on, messages are redelivered, the sweep and the
\* forwarder tick, and time passes.
FairSpec ==
    /\ Spec
    /\ \A w \in Worker : WF_vars(Apply(w))
                         /\ WF_vars(\E m \in Sent : Deliver(w, m))
    /\ WF_vars(Sweep) /\ WF_vars(Forward)
    /\ \A i \in 1 .. MaxFinding : WF_vars(Ages(i))

-----------------------------------------------------------------------------
\* findings.go, UpsertFindingTx: every hop is recorded.  The transitions of a
\* finding are a walk along the edges from "new" to its state, for merges,
\* operators and overlapping transactions; only the deletion of a finding,
\* which takes the transitions first, may leave it without.
HistoryIsLegal ==
    \A i \in DOMAIN findings :
        \/ /\ hist[i] # <<>> /\ hist[i][1] = "new" /\ Chain(hist[i])
           /\ hist[i][Len(hist[i])] = findings[i].state
        \/ hist[i] = <<>> /\ \E n \in DOMAIN outbox :
              outbox[n].what = "retention.purge" /\ i \in outbox[n].about

\* engine.go, the ledger: however often a batch is delivered, retried or
\* rolled back, each of its findings is counted once, in a new row or in one
\* that was there before.
Rows(F, t, fp) == {i \in DOMAIN F : F[i].tenant = t /\ F[i].fp = fp}
Counted(F, t, fp) == UNION {{i} \X (1 .. F[i].occ) : i \in Rows(F, t, fp)}
Reported(b, fp) == {n \in DOMAIN b.findings : b.findings[n].fp = fp}
Batches(L, t) == {k \in DOMAIN L : L[k].status = "accepted" /\ L[k].batch.tenant = t}
Carried(L, t, fp) == UNION {{k} \X Reported(L[k].batch, fp) : k \in Batches(L, t)}
AppliedOnce ==
    purged = {} =>
        \A i \in DOMAIN findings :
            LET t == findings[i].tenant
                fp == findings[i].fp
            IN  Cardinality(Counted(findings, t, fp)) =
                  Cardinality(Counted(world.findings, t, fp))
                    + Cardinality(Carried(ledger, t, fp))

\* findings.go, "cross-run dedup": where a fingerprint names one asset and every
\* batch writes the asset of its findings, as the consumers' do, a fingerprint
\* has one finding: the lock on the asset row, or its unique index, orders the
\* first reports.
Unique(F) == \A i, j \in DOMAIN F : F[i].tenant = F[j].tenant /\ F[i].fp = F[j].fp
                                      => i = j
Reports(m) == CASE m.via = "rest" -> {<<f.fp, f.asset>> : f \in Range(m.findings)}
                [] m.via = "detect" -> {<<m.fp, m.asset>>}
                [] OTHER -> {}
ByAsset ==
    /\ \A m \in Sent : m.via = "rest" =>
          \A f \in Range(m.findings) : \E a \in Range(m.assets) : a.value = f.asset
    /\ \A m, n \in Sent : \A r \in Reports(m), s \in Reports(n) :
          r[1] = s[1] => r[2] = s[2]
OneFindingPerFingerprint == ByAsset /\ Unique(world.findings) => Unique(findings)

\* Together: what the batches of a scan report is counted once, and in one place.
CountedOnce == AppliedOnce /\ OneFindingPerFingerprint

\* engine.go, AuditOutboxTx: an accepted batch has one audit row, and a batch
\* has one only if it is accepted.
AcceptedIsAudited ==
    \A k \in DOMAIN ledger :
        Cardinality({n \in DOMAIN outbox : /\ outbox[n].what = "ingest.batch"
                                           /\ outbox[n].about = k})
          = IF ledger[k].status = "accepted" THEN 1 ELSE 0

\* retention.go, "Audit BEFORE delete": a finding that is gone was terminal,
\* past its retention, and named by an audit row when it went.
PurgeIsCertified ==
    [][\A i \in DOMAIN findings \ DOMAIN findings' :
          /\ Terminal(findings[i].state)
          /\ \E n \in DOMAIN outbox :
                outbox[n].what = "retention.purge" /\ i \in outbox[n].about]_vars

\* What must come to an end does.  Every batch is answered or uses up its
\* deliveries, and no transaction waits for ever: deadlocks and failed inserts
\* included (engine.go).  A terminal finding is deleted in the end unless it is
\* held, also after a sweep that stopped half way (retention.go).  No row of
\* the audit outbox is lost: all of them reach the gatekeeper's log and are
\* marked (auditfwd.go, DrainOnce).
BatchesSettle ==
    <>[](/\ \A m \in Sent :
               inbox[m].settled \/ inbox[m].tries = world.tries
         /\ \A w \in Worker : ~Busy(w))
RetentionEnforced ==
    \A i \in 1 .. MaxFinding :
        (i \in DOMAIN findings /\ Terminal(findings[i].state) /\ world.retention)
        ~> (i \in purged \/ (i \in DOMAIN findings /\ findings[i].held))
AuditForwarded == []<>(chain = DOMAIN outbox /\ Pending = {})

EverythingSettles == BatchesSettle /\ RetentionEnforced /\ AuditForwarded

=============================================================================
