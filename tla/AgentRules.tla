------------------------------ MODULE AgentRules ------------------------------
(***************************************************************************)
(* What decides whether an agent's request leaves: in the Go SDK the keys  *)
(* that tokens are verified with, the guard of a task and its rate caps,   *)
(* and in detect the proxy that the requests of its tools go through.      *)
(* Agent and Detect have the order in which these are asked; here is what  *)
(* they answer and remember.                                               *)
(*                                                                         *)
(* As in PolicyRules, a call is a function of what it finds.  Times are    *)
(* seconds; a rate limiter counts in ticks, as many to a second as its     *)
(* cap, so that a tick is worth a token.                                   *)
(***************************************************************************)
EXTENDS TargetScope, Integers, FiniteSets

Nothing == "none"

-----------------------------------------------------------------------------
(* Rate caps.  A cap of 0 is no cap.                                        *)

NewRateLimiter(caps, tick) ==
    [rps |-> caps.rps, concurrent |-> caps.concurrent, used |-> 0,
     tokens |-> caps.rps, at |-> tick]

maxThrottleDelay(l) == 5 * l.rps

\* Reserve, of the rate package: a bucket that holds the tokens of a second,
\* and goes below zero for those who wait.
Reserve(l, tick) ==
    LET full == l.tokens + (tick - l.at)
    IN  [l EXCEPT !.tokens = (IF full > l.rps THEN l.rps ELSE full) - 1, !.at = tick]
Cancelled(l) == [l EXCEPT !.tokens = @ + 1]

\* Wait, with the tick at which the request may leave.  The context of a
\* request that waits may end; its token returns unless a later one is waiting.
Wait(l, tick, context) ==
    LET after == Reserve(l, tick)
        delay == IF after.tokens < 0 THEN -after.tokens ELSE 0
    IN  CASE l.rps = 0 -> [limiter |-> l, cause |-> Nothing, at |-> tick]
          [] l.rps > 0 /\ delay > maxThrottleDelay(l) ->
                [limiter |-> Cancelled(after), cause |-> "limited", at |-> tick]
          [] l.rps > 0 /\ delay \in 1 .. maxThrottleDelay(l) /\ context # "lives" ->
                [limiter |-> IF context = "last" THEN Cancelled(after) ELSE after,
                 cause |-> "ended", at |-> tick]
          [] OTHER -> [limiter |-> after, cause |-> Nothing, at |-> tick + delay]

\* TryAcquire; Acquire waits until it would succeed.
TryAcquire(l) == l.concurrent = 0 \/ l.used < l.concurrent
Acquire(l) == [l EXCEPT !.used = @ + 1]
Release(l) == [l EXCEPT !.used = IF @ > 0 THEN @ - 1 ELSE 0]

-----------------------------------------------------------------------------
(* The guard: the claims and the manifest it goes by, its limiter, the      *)
(* targets touched in the order of the first touch, the audit records.      *)

Binds(claims, man, task) ==
    claims.task = task /\ claims.scopeBound = (man.form = "scope")
\* NewGuard, for claims that bind; those that do not are refused (GuardBinds of
\* Agent, which asks for the capability too).
LimiterFor(claims, now) == NewRateLimiter(claims.caps, now * claims.caps.rps)
NewGuard(claims, man, now) ==
    [claims |-> claims, man |-> man, limiter |-> LimiterFor(claims, now),
     touched |-> <<>>, audited |-> <<>>]

\* Update: a successor for the same task brings a limiter of its own; whether
\* it permits the capability is not asked again.
Update(g, claims, man, now) ==
    IF Binds(claims, man, g.claims.task)
    THEN [g EXCEPT !.claims = claims, !.man = man, !.limiter = LimiterFor(claims, now)]
    ELSE g

ClockLeeway == 60
ValidAt(claims, now) ==
    CASE now > claims.exp + ClockLeeway -> "expired"
      [] now + ClockLeeway < claims.nbf -> "early"
      [] OTHER -> Nothing

\* EvaluateScope or Contains.
Refusal(man, t) ==
    LET decision == AgentEvaluates(man.scope, t)
        listed == AgentCanonicalizes(t) /\ \E e \in man.targets : Equal(e, t)
    IN  IF man.form = "scope" THEN (IF decision = "in" THEN Nothing ELSE decision)
        ELSE IF listed THEN Nothing ELSE "unlisted"

\* check: the first thing against the target, or what the limiter says; at is
\* the tick at which the request may leave.
check(g, t, revoked, now, context) ==
    LET waited == Wait(g.limiter, now * g.limiter.rps, context)
        refusal == CASE revoked -> "revoked"
                     [] ~revoked /\ ValidAt(g.claims, now) # Nothing -> ValidAt(g.claims, now)
                     [] OTHER -> Refusal(g.man, t)
    IN  IF refusal # Nothing THEN [cause |-> refusal, limiter |-> g.limiter, at |-> now * g.limiter.rps]
        ELSE waited

\* recordTouch and denyAudit come after the check, and the guard may have been
\* updated in between: the record has the token of the guard as it is then.
Audited(g, kind, t) == Append(g.audited, [kind |-> kind, target |-> t, jti |-> g.claims.jti])
recordTouch(g, t) ==
    [g EXCEPT !.touched = IF \E i \in DOMAIN @ : Equal(@[i], t) THEN @ ELSE Append(@, t),
              !.audited = Audited(g, "TARGET_TOUCHED", t)]
denyAudit(g, t, cause) ==
    IF cause \in {"excluded", "out", "unlisted"}
    THEN [g EXCEPT !.audited = Audited(g, "SCOPE_VIOLATION", t)] ELSE g
AuthorizeTarget(g, t, cause) ==
    IF cause = Nothing THEN recordTouch(g, t) ELSE denyAudit(g, t, cause)

\* TargetsTouchedMetric: under a scope the hash of the manifest stands for all.
TargetsTouchedMetric(g) ==
    IF g.claims.scopeBound THEN <<g.man.hash>> ELSE g.touched

-----------------------------------------------------------------------------
(* The keys of gatekeeper, and manifests.                                   *)

JWKSTTL == 300
NewKeyCache == [keys |-> {}, until |-> 0]

\* A key that decodes, and FetchKeys of a reply that is not an error.
Decodes(k) == k.okp /\ k.kid # "" /\ k.size = 32
FetchKeys(reply) == reply.came /\ reply.status = 200 /\ reply.json

\* Refresh replaces all keys or, when one of them does not decode, none.  The
\* time counts from the end of the fetch, which holds no lock.
Readable(reply) == FetchKeys(reply) /\ \A k \in reply.keys : Decodes(k)
Refresh(cache, reply, now) ==
    IF Readable(reply)
    THEN [keys |-> {k.kid : k \in reply.keys}, until |-> now + JWKSTTL] ELSE cache

KeyOf(cache, kid, now) == now <= cache.until /\ kid \in cache.keys

\* PublicKey asks once more for a key it does not have.
PublicKey(cache, kid, asked, reply, now) ==
    LET after == Refresh(cache, reply, now)
    IN  CASE kid = "" -> [cache |-> cache, found |-> FALSE]
          [] kid # "" /\ KeyOf(cache, kid, asked) -> [cache |-> cache, found |-> TRUE]
          [] OTHER -> [cache |-> after,
                       found |-> Readable(reply) /\ KeyOf(after, kid, now)]

\* MapURI: a bucket that the deployment pins wins over the URI's.
MapURI(uri, pinned) ==
    IF uri.scheme \notin {"blob", "s3"} \/ Nothing \in {uri.host, uri.key} THEN Nothing
    ELSE <<CASE pinned # Nothing -> pinned
             [] pinned = Nothing /\ uri.host = "tokens" -> "token-manifests"
             [] OTHER -> uri.host, uri.key>>

-----------------------------------------------------------------------------
(* detect's egress proxy.  An entry of its allowlist is a target of the     *)
(* task or the collector of callbacks; port 0 is a port not written.        *)

NewAllowlist(targets) ==
    LET named == {t \in targets : t.form = "host"}
    IN  [hosts |-> {t.id : t \in named}, suffix |-> {t.id : t \in {t \in named : Len(t.id) >= 2}},
         cidrs |-> {t \in targets : t.form \in {"ip", "net"}},
         hostPorts |-> {<<t.form, t.id, t.at>> : t \in {t \in targets : t.form \in {"host", "ip"} /\ t.at # 0}}]

\* Allows: an entry with a port permits its host on every port.
Allows(a, dst) ==
    \/ dst.at # 0 /\ <<dst.form, dst.id, dst.at>> \in a.hostPorts
    \/ dst.form = "ip" /\ \E c \in a.cidrs : Equal(c, dst) \/ InNet(c, dst)
    \/ dst.form = "host" /\ (dst.id \in a.hosts \/ \E s \in a.suffix : Below(dst.id, s))

WithPort(dst, port) == IF dst.at = 0 THEN [dst EXCEPT !.at = port] ELSE dst

\* serve: what is judged, and what is dialled.  A plain request is always sent
\* as http, and counts as allowed before the connection is there, a CONNECT
\* after it.
Judged(req) ==
    WithPort(req.dst, IF req.connect \/ req.scheme = "https" THEN 443 ELSE 80)
Dialled(req) == IF req.connect THEN Judged(req) ELSE WithPort(req.dst, 80)
serve(a, counts, req) ==
    IF ~Allows(a, Judged(req))
    THEN [dialled |-> {}, answer |-> 403, counts |-> [counts EXCEPT !.denied = @ + 1]]
    ELSE [dialled |-> {Dialled(req)}, answer |-> IF req.reached THEN 200 ELSE 502,
          counts |-> [counts EXCEPT !.allowed = IF req.reached \/ ~req.connect THEN @ + 1 ELSE @]]

-----------------------------------------------------------------------------
(* Messages.                                                                *)

\* Consume and SubscribeCore: an envelope that cannot be read is given up, for
\* the others the handler decides; without a stream nothing is settled.
Settlement(msg, disposition) ==
    CASE ~msg.stream -> Nothing
      [] msg.stream /\ ~msg.readable -> "term"
      [] msg.stream /\ msg.readable -> disposition
=============================================================================
