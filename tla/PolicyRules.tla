----------------------------- MODULE PolicyRules -----------------------------
(***************************************************************************)
(* The rules gatekeeper decides by: who holds which role, which class of   *)
(* risk a capability has, when an RoE forbids work, how fast it may go,    *)
(* which approval covers a request and which token is still good.          *)
(*                                                                         *)
(* Each is a function of the rows it reads and the instant it is asked.    *)
(* Names of capabilities are sequences, as in TargetScope; Absent stands   *)
(* for a field, row or entry that is not there.                            *)
(***************************************************************************)
EXTENDS TargetScope, Integers, FiniteSets

Absent == "absent"

-----------------------------------------------------------------------------
(* Roles.  A binding is a record [org, who, kind, role, by, revoked,       *)
(* until], at most one for an organisation, principal and role.             *)

permissions(role) ==
    CASE role = "platform-admin" -> {"*:*"}
      [] role = "grc-verifier" -> {"legal:verify", "audit:read"}
      [] role = "roe-author" -> {"roe:create", "roe:update"}
      [] role = "offensive-approver" -> {"approval:grant", "audit:read"}
      [] role = "commander-svc" -> {"task:submit", "mission:read"}
      [] role = "module-svc" -> {"task:execute"}
      [] role = "auditor" -> {"audit:read", "roe:read", "rbac:read"}
      [] role = "operator" -> {"revocation:issue", "roe:activate", "mission:read",
                               "audit:read"}
      [] OTHER -> {}

approvalRoles == {"grc-verifier", "offensive-approver"}
writeRoles == approvalRoles \cup {"platform-admin", "roe-author", "commander-svc",
                                  "module-svc", "operator"}

Live(b, now) == ~b.revoked /\ b.until > now

\* RolesOf: in every organisation when none is named.
RolesOf(bindings, org, who, now) ==
    {b.role : b \in {b \in bindings : Live(b, now) /\ b.who = who /\ org \in {Absent, b.org}}}

HasRole(bindings, org, who, role, now) == role \in RolesOf(bindings, org, who, now)

HasPermission(bindings, org, who, permission, now) ==
    \E r \in RolesOf(bindings, org, who, now) : {permission, "*:*"} \cap permissions(r) # {}

\* checkSoD looks at the kind of principal the grant claims, not at the kind
\* that its other bindings have.
checkSoD(active, kind, role) ==
    /\ ~(kind = "service" /\ role \in approvalRoles)
    /\ kind = "human" =>
          /\ ~(role = "offensive-approver" /\ "roe-author" \in active)
          /\ ~(role = "roe-author" /\ "offensive-approver" \in active)
    /\ role = "auditor" => active \cap writeRoles = {}
    /\ role \in writeRoles => "auditor" \notin active

Key(b) == <<b.org, b.who, b.role>>

\* Grant: whoever nobody calls a service is human, a grant lasts 90 days if
\* not told, and a binding that was revoked or has expired is taken up again.
\* The binding the grant makes, and the table it leaves.
Granted(b, now) ==
    [b EXCEPT !.kind = IF @ = Absent THEN "human" ELSE @,
              !.until = IF @ = 0 THEN now + 90 ELSE @, !.revoked = FALSE]
Grant(bindings, b, now) ==
    LET new == Granted(b, now)
    IN  IF /\ Absent \notin {b.org, b.who, b.by}
           /\ permissions(b.role) # {}
           /\ new.kind \in {"human", "service"}
           /\ checkSoD(RolesOf(bindings, b.org, b.who, now), new.kind, b.role)
        THEN {x \in bindings : Key(x) # Key(b)} \cup {new}
        ELSE bindings

Withdraw(bindings, org, who, role) ==
    {IF Key(b) = <<org, who, role>> THEN [b EXCEPT !.revoked = TRUE] ELSE b : b \in bindings}

List(bindings, org, includeRevoked, now) ==
    {b \in bindings : b.org = org /\ (includeRevoked \/ Live(b, now))}

\* stepAuth: a task of a commander comes from the principal of that commander,
\* by its id or by its SPIFFE id; two commanders have one.
commanderPrincipal(commander) ==
    CASE commander = "cai" -> [id |-> "svc-cai", spiffe |-> "platform/cai"]
      [] commander = "hexstrike" -> [id |-> "svc-hexstrike", spiffe |-> "platform/hexstrike"]
      [] OTHER -> Absent

stepAuth(bindings, p, commander, now) ==
    IF p.id = Absent \/ p.kind \notin {"service", "user"} \/ p.spiffe = "malformed"
    THEN "UNAUTHENTICATED"
    ELSE IF commander \notin {Absent, "cai", "hexstrike"} THEN "UNAUTHENTICATED"
    ELSE IF /\ commander # Absent
            /\ p.id # commanderPrincipal(commander).id
            /\ p.spiffe # commanderPrincipal(commander).spiffe
    THEN "UNAUTHENTICATED"
    ELSE IF ~\E q \in {"task:submit", "task:execute"} :
                HasPermission(bindings, Absent, p.id, q, now)
    THEN "FORBIDDEN_ROLE" ELSE "ok"

-----------------------------------------------------------------------------
(* The capability registry: [exact, pattern], functions from names to risk  *)
(* classes; a pattern is kept without its wildcard.                         *)

Default ==
    [exact |-> [c \in {<<"monitor", "watch">>, <<"monitor", "rescan">>,
                       <<"monitor", "baseline", "set">>, <<"monitor", "feed", "sync">>,
                       <<"alert", "deliver">>, <<"intel", "phishing_indicators">>} |->
                   IF c[2] \in {"watch", "rescan"} THEN 1 ELSE 0],
     pattern |-> [c \in {<<"discover", "passive">>, <<"discover", "cloud">>, <<"recon">>,
                         <<"scan", "active">>, <<"detect", "scan">>, <<"vuln", "validate">>,
                         <<"stress">>, <<"ai_redteam">>, <<"redteam">>} |->
                     CASE c[1] = "discover" -> 0
                       [] c[1] \in {"recon", "scan"} -> 1
                       [] c[1] \in {"ai_redteam", "redteam"} -> 3
                       [] OTHER -> 2]]

\* A name is under its own pattern too; the longest pattern wins.
Lookup(reg, name) ==
    LET hits == {p \in DOMAIN reg.pattern : p = name \/ Under(p, name)}
    IN  IF name \in DOMAIN reg.exact THEN reg.exact[name]
        ELSE IF hits = {} THEN -1
        ELSE reg.pattern[CHOOSE p \in hits : \A q \in hits : Len(q) <= Len(p)]

Merged(f, g) == [c \in DOMAIN f \cup DOMAIN g |-> IF c \in DOMAIN g THEN g[c] ELSE f[c]]

\* LoadFile merges entry after entry, in no particular order, and stops at the
\* first class it cannot read: the registries it may leave.
LoadFile(reg, file) ==
    LET good(f) == {c \in DOMAIN f : f[c] \in 0 .. 3}
        whole == good(file.exact) = DOMAIN file.exact /\ good(file.pattern) = DOMAIN file.pattern
        part(f, S) == [c \in S |-> f[c]]
    IN  {[exact |-> Merged(reg.exact, part(file.exact, S)),
          pattern |-> Merged(reg.pattern, part(file.pattern, T))] :
            S \in IF whole THEN {DOMAIN file.exact} ELSE SUBSET good(file.exact),
            T \in IF whole THEN {DOMAIN file.pattern} ELSE SUBSET good(file.pattern)}

-----------------------------------------------------------------------------
(* Blackout windows.  The hour is that of the week in UTC, from 0; a window *)
(* is a record [zone, freq, days, hours]: the offset of its zone, the       *)
(* tokens of BYDAY and of BYHOUR in the order they were written, no tokens  *)
(* for a part that is not there.  Unread stands for what cannot be read.    *)

Unread == -100
Local(hour, w) == (hour + w.zone) % 168

\* A range that ends before it begins runs over midnight.
hourIn(hour, tokens) ==
    \E i \in DOMAIN tokens :
        LET lo == tokens[i][1]  hi == tokens[i][2]
        IN  \/ Unread \in {lo, hi}
            \/ lo <= hi /\ hour \in lo .. hi
            \/ lo > hi /\ (hour >= lo \/ hour <= hi)

\* Of the tokens that are today or cannot be read, the first, or that cannot be read.
dayHit(day, tokens) ==
    LET hits == {i \in DOMAIN tokens : tokens[i] \in {day, Unread}}
    IN  IF hits = {} THEN Absent
        ELSE IF tokens[CHOOSE i \in hits : \A j \in hits : i <= j] = day THEN "today" ELSE "unread"

windowActive(hour, w) ==
    LET day == dayHit(Local(hour, w) \div 24, w.days)
        inHours == w.hours = <<>> \/ hourIn(Local(hour, w) % 24, w.hours)
    IN  CASE w.zone = Unread \/ w.freq \notin {"DAILY", "WEEKLY"} -> TRUE
          [] w.freq = "DAILY" -> inHours
          [] OTHER -> w.days = <<>> \/ day = "unread" \/ (day = "today" /\ inHours)

Active(hour, windows) == \E w \in windows : windowActive(hour, w)

-----------------------------------------------------------------------------
(* Rate caps, a function from capabilities and patterns to requests a       *)
(* second.  A bucket counts in tokens of 1/Tick, time in ticks.             *)

DefaultR1RPS == 100

\* stepRate: the cap and the bucket it is counted in; without an entry the
\* bucket has no name.
RateCap(caps, name, risk) ==
    LET exact == {p \in DOMAIN caps : ~p.any /\ p.id = name}
        hits == {p \in DOMAIN caps : p.any /\ Under(p.id, name)}
        matched == IF exact # {} THEN CHOOSE p \in exact : TRUE
                   ELSE CHOOSE p \in hits : \A q \in hits : Len(q.id) <= Len(p.id)
        declared == IF exact \cup hits = {} THEN 0 ELSE caps[matched]
    IN  [rps |-> IF declared = 0 /\ risk = 1 THEN DefaultR1RPS ELSE declared,
         bucket |-> IF exact \cup hits = {} THEN <<>> ELSE <<matched>>]

\* Allow: what the bucket holds afterwards, and whether a request passes.
Allow(bucket, now, rps, Tick) ==
    LET filled == bucket.tokens + (now - bucket.last) * rps
        tokens == IF filled > rps * Tick THEN rps * Tick ELSE filled
    IN  [allowed |-> tokens >= Tick, last |-> now,
         tokens |-> IF tokens >= Tick THEN tokens - Tick ELSE tokens]

-----------------------------------------------------------------------------
(* Approvals, revocations and tokens.                                       *)

\* FindValidApproval: granted for this version and capability, not expired,
\* and for every target.
FindValidApproval(approvals, request, now) ==
    {a \in approvals : /\ a.roe = request.roe /\ a.version = request.version
                       /\ a.capability = request.capability /\ a.status = "granted"
                       /\ now < a.until /\ request.targets \subseteq a.targets}

\* ActiveRevocations: an expiry is known to the process that wrote the row only.
ActiveRevocations(rows, expiries, now) ==
    {r \in rows : ~r.lifted /\ (r.id \in DOMAIN expiries => now < expiries[r.id])}

\* Scope "" asks for every scope.
IsRevoked(rows, expiries, scope, value, now) ==
    \E r \in ActiveRevocations(rows, expiries, now) : scope \in {"", r.scope} /\ r.value = value

Leeway == 60
MaxSkew == 120
MaxTTL == 900

\* Verify, on a token whose signature is good: the times are seconds.
Verify(c, now, allowExpired) ==
    /\ c.issuer /\ c.audience /\ Absent \notin {c.task, c.jti, c.sub}
    /\ c.iat <= now + MaxSkew
    /\ c.nbf <= now + Leeway
    /\ ~allowExpired => now < c.exp + Leeway
    /\ c.exp - c.iat <= MaxTTL
=============================================================================
