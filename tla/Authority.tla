------------------------------ MODULE Authority ------------------------------
(***************************************************************************)
(* The chain of authority of services/gatekeeper: versions of one RoE and  *)
(* their status (internal/roe), the decisions of the policy pipeline       *)
(* (internal/policy), the Scope Tokens minted, exchanged and refreshed     *)
(* from them (internal/token) and the revocation set that must cut all of  *)
(* it off (internal/revocation).                                           *)
(*                                                                         *)
(* An RPC is a sequence of SQL statements and several run at a time:       *)
(* call[c] is one in progress, with the values it has read.  One action is *)
(* one statement that reads or writes shared rows.  A check that fails     *)
(* ends the RPC without another statement: that, a failing statement and a *)
(* stopped process are all GiveUp, so the other actions carry only the     *)
(* guards under which the RPC goes on.                                     *)
(*                                                                         *)
(* Time is a choice of each read, since the clocks of replicas differ: an  *)
(* active RoE may be found past its window, a revocation with an expiry    *)
(* lapsed or not, a token expired.  The checks of the pipeline that read   *)
(* nothing modelled here (identity, capability, legal artifact, approval,  *)
(* blackout, jurisdiction, rate) may deny at any moment (GiveUp).  Deny    *)
(* rows are not kept: no reader accepts them.                              *)
(***************************************************************************)
EXTENDS Naturals, FiniteSets

CONSTANTS
    Call,           \* RPCs that may be in progress at the same time
    Admin, Client,  \* the calls of operators (roe-service) and of services
    Target,
    Decision,       \* ids of decision rows, each used once
    Token,          \* ids of issued tokens, each used once
    MaxVersion,     \* bound on the versions of the RoE
    ScopeOf,        \* version to its declared (and resolved) targets
    RequestOf,      \* decision id to the request it answers, if not a refresh
    Closing,        \* versions whose window may be found closed
    KillKey,        \* revocation keys people use: RoE, Global or targets
    RoE, Global,    \* the keys of a revocation of this RoE and of everything
    ScopeRef,       \* the "scope:sha256:" pseudo target of a scope-bound token
    None

Version == 1 .. MaxVersion
Status == {"absent", "draft", "active", "suspended", "expired", "revoked"}

ASSUME ConstantsAssumption ==
    /\ MaxVersion \in Nat \ {0}
    /\ ScopeOf \in [Version -> SUBSET Target]
    /\ Admin \subseteq Call /\ Client \subseteq Call
    /\ RequestOf \in [Decision -> [targets : SUBSET Target, watch : BOOLEAN]]
    /\ Closing \subseteq Version
    /\ KillKey \subseteq Target \cup {RoE, Global}

ASSUME SentinelsAssumption ==
    /\ None \notin Decision \cup Token
    /\ RoE \notin Target /\ Global \notin Target /\ ScopeRef \notin Target

VARIABLES
    status,     \* roe_records.status by version
    resolved,   \* versions whose roe_effective_targets rows are written
    rev,        \* revocations by key: see RevState
    decision,   \* authz_decisions, allow rows only
    token,      \* issued_tokens
    call        \* RPCs in progress

vars == <<status, resolved, rev, decision, token, call>>

\* A revocation row never leaves the table (no code sets lifted_at).  "timed"
\* has an expiry in this process's memory and may have lapsed at any read,
\* "standing" has none.
RevState == {"none", "timed", "standing"}
RevKey == Target \cup {RoE, Global}

Pc == {"idle", "insert", "activate", "resolve", "suspend", "revoke", "issue",
       "expire", "revocations", "roe", "targets", "persist", "audit",
       "reload", "expireReload", "exchange", "register"}

\* ver: the version read.  targets, dec: of the request.  from: the token an
\* exchange or a refresh starts from.  bound: about a scope-bound watch token.
\* killed, settled: what held when the RPC began (history, for properties).
CallRecord == [pc : Pc, ver : 0 .. MaxVersion,
               targets : SUBSET (Target \cup {ScopeRef}),
               dec : Decision \cup {None}, from : Token \cup {None},
               bound : BOOLEAN, killed : BOOLEAN, settled : BOOLEAN]

NoCall == [pc |-> "idle", ver |-> 0, targets |-> {}, dec |-> None,
           from |-> None, bound |-> FALSE, killed |-> FALSE, settled |-> FALSE]

\* stage: the row is inserted, its audit event is chained, the ALLOW is with
\* the caller.  watch: for a watch task, whose token is to be scope-bound.
DecisionRow == [ver : Version, targets : SUBSET (Target \cup {ScopeRef}),
                stage : {"row", "audited", "told"}, watch : BOOLEAN,
                killed : BOOLEAN]

TokenRow == [ver : Version, targets : SUBSET (Target \cup {ScopeRef}),
             dec : Decision, from : Token \cup {None}, bound : BOOLEAN,
             revoked : BOOLEAN, settled : BOOLEAN]

ASSUME NoneIsNoRow == None \notin DecisionRow /\ None \notin TokenRow

-----------------------------------------------------------------------------
(* What the statements read. *)

Present(v) == status[v] # "absent"

\* SELECT ... ORDER BY version DESC LIMIT 1
IsLatest(v) ==
    /\ v \in Version /\ Present(v)
    /\ \A w \in Version : Present(w) => w <= v

\* Mutant of InForce: the load does not look at the status.
InForce_AnyStatus(v) == IsLatest(v)

\* The latest record is active: what LoadROE must return for a mint or an
\* ALLOW, unless the record is found past its window.
InForce(v) == IsLatest(v) /\ status[v] = "active"

\* An active record may be past its window: LoadROE goes on to lazyExpire.
MayBeOverdue(v) == status[v] = "active" /\ v \in Closing

\* Step 2 of the pipeline finds a revocation of the request whatever has
\* lapsed; the capability scope behaves like Global.
Revoked(T) == \E k \in {RoE, Global} \cup (T \cap Target) : rev[k] = "standing"

\* Step 4 of the pipeline on the resolved rows of the version.
InScope(T, v) == T # {} /\ v \in resolved /\ T \subseteq ScopeOf[v]

\* A revoked latest version that no call in progress is about to overwrite
\* or to follow with a new version.
Settled ==
    \E v \in Version :
        /\ IsLatest(v) /\ status[v] = "revoked"
        /\ \A c \in Call :
              call[c].pc \in {"insert", "activate", "suspend", "expire", "expireReload"}
                  => call[c].ver # v

Idle(c) == call[c].pc = "idle"
Done(c) == call' = [call EXCEPT ![c] = NoCall]
Goto(c, pc) == call' = [call EXCEPT ![c].pc = pc]
Start(c, r) == Idle(c) /\ call' = [call EXCEPT ![c] = r]

FreshDecision(d) ==
    decision[d] = None /\ \A c \in Call : call[c].dec # d

-----------------------------------------------------------------------------
(* internal/roe: the lifecycle of versions.                                *)

\* One INSERT; version 1.
CreateROE ==
    /\ ~Present(1)
    /\ status' = [status EXCEPT ![1] = "draft"]
    /\ UNCHANGED <<resolved, rev, decision, token, call>>

Updatable(v) == status[v] # "revoked"

\* Reads the latest version; revoked records take no further version.
UpdateROE(c, v) ==
    /\ IsLatest(v) /\ Updatable(v) /\ v < MaxVersion
    /\ Start(c, [NoCall EXCEPT !.pc = "insert", !.ver = v])
    /\ UNCHANGED <<status, resolved, rev, decision, token>>

\* The primary key (roe_id, version) lets one of several updates through.
InsertVersion(c) ==
    /\ call[c].pc = "insert"
    /\ ~Present(call[c].ver + 1)
    /\ status' = [status EXCEPT ![call[c].ver + 1] = "draft"]
    /\ Done(c)
    /\ UNCHANGED <<resolved, rev, decision, token>>

\* Nothing writes pending_approval, the third status activation starts from.
Activatable(v) == status[v] \in {"draft", "suspended"}

\* Any version, by number.
ActivateROE(c, v) ==
    /\ Activatable(v)
    /\ Start(c, [NoCall EXCEPT !.pc = "activate", !.ver = v])
    /\ UNCHANGED <<status, resolved, rev, decision, token>>

SuspendROE(c, v) ==
    /\ IsLatest(v) /\ status[v] = "active"
    /\ Start(c, [NoCall EXCEPT !.pc = "suspend", !.ver = v])
    /\ UNCHANGED <<status, resolved, rev, decision, token>>

RevokeROE(c, v) ==
    /\ IsLatest(v) /\ status[v] # "revoked"
    /\ Start(c, [NoCall EXCEPT !.pc = "revoke", !.ver = v])
    /\ UNCHANGED <<status, resolved, rev, decision, token>>

\* GetROE of any version, and ExpireDue, which is GetROE of the latest one.
GetROE(c, v) ==
    /\ MayBeOverdue(v)
    /\ Start(c, [NoCall EXCEPT !.pc = "expire", !.ver = v])
    /\ UNCHANGED <<status, resolved, rev, decision, token>>

\* The UPDATE names the version and nothing else: what the row holds by now
\* does not matter.
SetStatus(c, st) == status' = [status EXCEPT ![call[c].ver] = st]

SetActive(c) ==
    /\ call[c].pc = "activate"
    /\ SetStatus(c, "active")
    /\ Goto(c, "resolve")
    /\ UNCHANGED <<resolved, rev, decision, token>>

\* A transaction of its own, after the status.
ResolveTargets(c) ==
    /\ call[c].pc = "resolve"
    /\ resolved' = resolved \cup {call[c].ver}
    /\ Done(c)
    /\ UNCHANGED <<status, rev, decision, token>>

SetSuspended(c) ==
    /\ call[c].pc = "suspend"
    /\ SetStatus(c, "suspended")
    /\ Done(c)
    /\ UNCHANGED <<resolved, rev, decision, token>>

SetRevoked(c) ==
    /\ call[c].pc = "revoke"
    /\ SetStatus(c, "revoked")
    /\ Goto(c, "issue")
    /\ UNCHANGED <<resolved, rev, decision, token>>

\* The revocation of the RoE; a failure is logged and ignored (GiveUp).
IssueROERevocation(c) ==
    /\ call[c].pc = "issue"
    /\ rev' = [rev EXCEPT ![RoE] = "standing"]
    /\ Done(c)
    /\ UNCHANGED <<status, resolved, decision, token>>

\* lazyExpire.  The RPC that loaded the record is refused, except a refresh
\* at its second load: that one mints all the same.
SetExpired(c) ==
    /\ call[c].pc \in {"expire", "expireReload"}
    /\ SetStatus(c, "expired")
    /\ IF call[c].pc = "expire" THEN Done(c) ELSE Goto(c, "register")
    /\ UNCHANGED <<resolved, rev, decision, token>>

-----------------------------------------------------------------------------
(* internal/revocation.                                                    *)

\* Issue for a person's key, with or without an expiry.
Revoke(k) ==
    /\ rev' \in {[rev EXCEPT ![k] = "standing"],
                 [rev EXCEPT ![k] = IF @ = "standing" THEN @ ELSE "timed"]}
    /\ rev' # rev
    /\ UNCHANGED <<status, resolved, decision, token, call>>

\* Expiries are in memory only: after a restart every row stands again, and
\* no RPC survives.
AfterRestart(r) == IF r = "none" THEN "none" ELSE "standing"

Restart ==
    /\ rev' = [k \in RevKey |-> AfterRestart(rev[k])]
    /\ call' = [c \in Call |-> NoCall]
    /\ UNCHANGED <<status, resolved, decision, token>>

-----------------------------------------------------------------------------
(* internal/policy: Authorize.                                             *)

\* A new request, under a decision id of its own.
Authorize(c, d) ==
    /\ FreshDecision(d)
    /\ Start(c, [NoCall EXCEPT !.pc = "revocations", !.dec = d,
                  !.targets = RequestOf[d].targets, !.bound = RequestOf[d].watch,
                  !.killed = Revoked(RequestOf[d].targets), !.settled = Settled])
    /\ UNCHANGED <<status, resolved, rev, decision, token>>

\* Mutant of StepRevocation: only the keys of the request's own targets.
StepRevocation_OwnKeys(c) ==
    /\ call[c].pc = "revocations"
    /\ \A k \in call[c].targets \cap Target : rev[k] # "standing"
    /\ Goto(c, "roe")
    /\ UNCHANGED <<status, resolved, rev, decision, token>>

StepRevocation(c) ==
    /\ call[c].pc = "revocations"
    /\ ~Revoked(call[c].targets)
    /\ Goto(c, "roe")
    /\ UNCHANGED <<status, resolved, rev, decision, token>>

\* Step 3: a refresh pins the version of its token.
VersionMatches(c, v) == call[c].from # None => token[call[c].from].ver = v

StepROEActive(c, v) ==
    /\ call[c].pc = "roe"
    /\ InForce(v) /\ VersionMatches(c, v)
    /\ call' = [call EXCEPT ![c].pc = "targets", ![c].ver = v]
    /\ UNCHANGED <<status, resolved, rev, decision, token>>

\* Mutant of StepTargetScope: without resolved rows the declared scope is used.
StepTargetScope_Declared(c) ==
    /\ call[c].pc = "targets"
    /\ call[c].targets \subseteq ScopeOf[call[c].ver]
    /\ Goto(c, "persist")
    /\ UNCHANGED <<status, resolved, rev, decision, token>>

StepTargetScope(c) ==
    /\ call[c].pc = "targets"
    /\ InScope(call[c].targets, call[c].ver)
    /\ Goto(c, "persist")
    /\ UNCHANGED <<status, resolved, rev, decision, token>>

\* The row is committed before the audit event is tried.
PersistDecision(c) ==
    /\ call[c].pc = "persist"
    /\ decision' = [decision EXCEPT ![call[c].dec] =
          [ver |-> call[c].ver, targets |-> call[c].targets,
           stage |-> "row", watch |-> call[c].bound, killed |-> call[c].killed]]
    /\ Goto(c, "audit")
    /\ UNCHANGED <<status, resolved, rev, token>>

\* With the event chained the ALLOW is returned: to the caller, or to the
\* refresh that asked.  A failure leaves the row and answers DENY (GiveUp).
RecordDecisionAudit(c) ==
    /\ call[c].pc = "audit"
    /\ decision' = [decision EXCEPT ![call[c].dec].stage =
                       IF call[c].from = None THEN "told" ELSE "audited"]
    /\ IF call[c].from = None THEN Done(c) ELSE Goto(c, "reload")
    /\ UNCHANGED <<status, resolved, rev, token>>

-----------------------------------------------------------------------------
(* internal/token.                                                         *)

\* LoadROE, when it finds the record overdue.  (A mint that meets an overdue
\* record does what GetROE does.)
LoadOverdue(c, v) ==
    /\ IsLatest(v) /\ MayBeOverdue(v)
    /\ \/ /\ call[c].pc \in {"roe", "exchange"}
          /\ call' = [call EXCEPT ![c] = [NoCall EXCEPT !.pc = "expire", !.ver = v]]
       \/ /\ call[c].pc = "reload"
          /\ call' = [call EXCEPT ![c].pc = "expireReload", ![c].ver = v]
    /\ UNCHANGED <<status, resolved, rev, decision, token>>

\* Mutant of Mintable: the caller is answered before the event is chained.
Mintable_OnRow(d) == decision[d] # None

Mintable(d) == decision[d] # None /\ decision[d].stage = "told"

\* The latest version is loaded, whatever version the decision was made on.
\* The caller mints on an ALLOW it was told, scope-bound for watch tasks and
\* for no other.  A scope-bound token carries the scope of the version, another
\* one the targets of the decision.
MintTargets(d, v) == IF decision[d].watch THEN ScopeOf[v] ELSE decision[d].targets

MintToken(c, d, v) ==
    /\ Mintable(d)
    /\ InForce(v)
    /\ Start(c, [NoCall EXCEPT !.pc = "register", !.ver = v, !.dec = d,
                  !.targets = MintTargets(d, v), !.bound = decision[d].watch,
                  !.settled = Settled])
    /\ UNCHANGED <<status, resolved, rev, decision, token>>

Usable(j) == token[j] # None /\ ~token[j].revoked

\* Mutant of Narrowed: the targets of the decision, not of the manifest.
Narrowed_ByDecision(T, j) == T # {} /\ T \subseteq decision[token[j].dec].targets

\* Every narrowed target must be in the manifest of the parent.
Narrowed(T, j) == T # {} /\ T \subseteq token[j].targets

ExchangeToken(c, j, T) ==
    /\ Usable(j) /\ Narrowed(T, j)
    /\ Start(c, [NoCall EXCEPT !.pc = "exchange", !.targets = T, !.from = j,
                  !.dec = token[j].dec, !.settled = Settled])
    /\ UNCHANGED <<status, resolved, rev, decision, token>>

ExchangeLoadsROE(c, v) ==
    /\ call[c].pc = "exchange"
    /\ InForce(v)
    /\ call' = [call EXCEPT ![c].pc = "register", ![c].ver = v]
    /\ UNCHANGED <<status, resolved, rev, decision, token>>

\* Re-authorises the targets of the manifest; of a scope-bound token only the
\* reference to its manifest.
RefreshTargets(j) == IF token[j].bound THEN {ScopeRef} ELSE token[j].targets

RefreshToken(c, j, d) ==
    /\ Usable(j)
    /\ FreshDecision(d)
    /\ Start(c, [NoCall EXCEPT !.pc = "revocations", !.targets = RefreshTargets(j),
                  !.dec = d, !.from = j, !.bound = token[j].bound,
                  !.killed = Revoked(RefreshTargets(j)), !.settled = Settled])
    /\ UNCHANGED <<status, resolved, rev, decision, token>>

\* The record is loaded once more and its status is not looked at.
RefreshReloadsROE(c, v) ==
    /\ call[c].pc = "reload"
    /\ IsLatest(v)
    /\ call' = [call EXCEPT ![c].pc = "register", ![c].ver = v]
    /\ UNCHANGED <<status, resolved, rev, decision, token>>

\* mint: manifest, signature and the registry row.
Register(c, j) ==
    /\ call[c].pc = "register" /\ token[j] = None
    /\ token' = [token EXCEPT ![j] =
          [ver |-> call[c].ver, targets |-> call[c].targets, dec |-> call[c].dec,
           from |-> call[c].from, bound |-> call[c].bound, revoked |-> FALSE,
           settled |-> call[c].settled]]
    /\ Done(c)
    /\ UNCHANGED <<status, resolved, rev, decision>>

\* UPDATE ... WHERE revoked_at IS NULL; no step of the pipeline looks at the
\* token-scope row that Issue adds.
RevokeToken(j) ==
    /\ Usable(j)
    /\ token' = [token EXCEPT ![j].revoked = TRUE]
    /\ UNCHANGED <<status, resolved, rev, decision, call>>

-----------------------------------------------------------------------------
GiveUp(c) ==
    /\ ~Idle(c)
    /\ Done(c)
    /\ UNCHANGED <<status, resolved, rev, decision, token>>

Init ==
    /\ status = [v \in Version |-> "absent"]
    /\ resolved = {}
    /\ rev = [k \in RevKey |-> "none"]
    /\ decision = [d \in Decision |-> None]
    /\ token = [j \in Token |-> None]
    /\ call = [c \in Call |-> NoCall]

RoeRequest(c) ==
    \E v \in Version : \/ UpdateROE(c, v) \/ ActivateROE(c, v) \/ SuspendROE(c, v)
                       \/ RevokeROE(c, v) \/ GetROE(c, v)

RoeStep(c) ==
    \/ InsertVersion(c) \/ SetActive(c) \/ ResolveTargets(c) \/ SetSuspended(c)
    \/ SetRevoked(c) \/ IssueROERevocation(c) \/ SetExpired(c)

ClientRequest(c) ==
    \/ \E d \in Decision : Authorize(c, d)
    \/ \E d \in Decision, v \in Version : MintToken(c, d, v)
    \/ \E j \in Token, T \in SUBSET Target : ExchangeToken(c, j, T)
    \/ \E j \in Token, d \in Decision : RefreshToken(c, j, d)

PolicyStep(c) ==
    \/ StepRevocation(c) \/ StepTargetScope(c)
    \/ \E v \in Version : StepROEActive(c, v)
    \/ PersistDecision(c) \/ RecordDecisionAudit(c)

TokenStep(c) ==
    \/ \E v \in Version :
          LoadOverdue(c, v) \/ ExchangeLoadsROE(c, v) \/ RefreshReloadsROE(c, v)
    \/ \E j \in Token : Register(c, j)

Next ==
    \/ CreateROE \/ Restart
    \/ \E c \in Admin : RoeRequest(c)
    \/ \E c \in Client : ClientRequest(c)
    \/ \E c \in Call : RoeStep(c) \/ PolicyStep(c) \/ TokenStep(c) \/ GiveUp(c)
    \/ \E k \in KillKey : Revoke(k)
    \/ \E j \in Token : RevokeToken(j)

Spec == Init /\ [][Next]_vars

-----------------------------------------------------------------------------
(* Properties.                                                             *)

\* Types and foreign keys: versions are numbered without a gap whatever
\* updates overlap, a decision cites an inserted version (authz_decisions),
\* a token a decision (issued_tokens.decision_id).
TypeOK ==
    /\ status \in [Version -> Status]
    /\ \A v \in Version : Present(v) => \A w \in 1 .. v : Present(w)
    /\ resolved \subseteq Version
    /\ rev \in [RevKey -> RevState]
    /\ decision \in [Decision -> DecisionRow \cup {None}]
    /\ token \in [Token -> TokenRow \cup {None}]
    /\ call \in [Call -> CallRecord]
    /\ \A d \in Decision : decision[d] # None => Present(decision[d].ver)
    /\ \A j \in Token : token[j] # None => decision[token[j].dec] # None

\* Authorize, steps 3 and 4: an ALLOW names only targets of the version it
\* cites, and that version was activated and resolved, although status, scope
\* rows and decision are read and written by statements of their own.
DecisionsInScope ==
    \A d \in Decision : decision[d] # None =>
        InScope(decision[d].targets, decision[d].ver)

\* What a token, or a call about to register one, may cover.
Narrow(t) ==
    /\ t.bound => decision[t.dec].watch /\ t.targets = ScopeOf[t.ver]
    /\ ~t.bound => \/ t.targets \subseteq decision[t.dec].targets
                   \/ decision[t.dec].watch /\ t.from # None
    /\ t.from # None => token[t.from] # None /\ t.targets \subseteq token[t.from].targets

\* Mint, exchange and refresh only narrow: an exact token covers no more than
\* the decision it cites unless it descends from a scope-bound token, whose
\* whole scope is that of the version it names; a successor covers no more
\* than its predecessor.
TokensNarrow == \A j \in Token : token[j] # None => Narrow(token[j])

\* The audit gate of finish: whatever appends fail and whatever process stops,
\* no token exists whose decision is not in the audit chain.
NoTokenUnaudited ==
    \A j \in Token : token[j] # None => decision[token[j].dec].stage # "row"

\* The kill switch at the decision point: a request, or a refresh, that began
\* under a standing revocation of its RoE, of one of its targets or of
\* everything is never allowed, across restarts that lose expiries.
KillStopsDecisions ==
    \A d \in Decision : decision[d] # None => ~decision[d].killed

\* RevokeROE is final once nothing that read the record before it is still
\* under way: no activation, update, suspension or expiry brings the RoE back.
SettledIsFinal == [][Settled => Settled']_vars

\* A mint, exchange or refresh that begins on such a RoE registers no token.
SettledMintsNothing ==
    \A j \in Token : token[j] # None => ~token[j].settled

=============================================================================
