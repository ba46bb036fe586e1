----------------------------- MODULE MCAgentRules -----------------------------
(***************************************************************************)
(* What AgentRules computes, checked on every input of a small world when  *)
(* TLC starts on a module that extends this one.                           *)
(***************************************************************************)
EXTENDS AgentRules

-----------------------------------------------------------------------------
(* Rate caps: requests that come up to two ticks apart.                     *)

CapsOf(rps, concurrent) == [rps |-> rps, concurrent |-> concurrent]
Requests == [gap : 0 .. 2, context : {"lives", "last", "late"}]
Bursts == [gap : {0, 1}, context : {"lives"}]

\* The ticks at which the requests of a sequence leave, -1 for one that does not.
Waits(rps, rs) ==
    LET come[i \in 0 .. Len(rs)] == IF i = 0 THEN 0 ELSE come[i - 1] + rs[i].gap
        after[i \in 0 .. Len(rs)] ==
            IF i = 0 THEN [limiter |-> NewRateLimiter(CapsOf(rps, 0), 0), at |-> 0, cause |-> Nothing]
            ELSE Wait(after[i - 1].limiter, come[i], rs[i].context)
    IN  [i \in DOMAIN rs |-> [come |-> come[i], cause |-> after[i].cause, at |-> after[i].at]]

\* In any time the requests that leave are at most those the cap allows for it
\* and a second's more; none waits longer than 5 s.
Within(rps, rs) ==
    LET w == Waits(rps, rs)
        left == {i \in DOMAIN rs : w[i].cause = Nothing}
    IN  /\ \A i, j \in left : w[i].at <= w[j].at =>
              Cardinality({k \in left : w[k].at \in w[i].at .. w[j].at}) <= rps + w[j].at - w[i].at
        /\ \A i \in left : w[i].at - w[i].come \in 0 .. 5 * rps
ASSUME CapsHold ==
    /\ \A rps \in 1 .. 2, rs \in [1 .. 3 -> Requests] : Within(rps, rs)
    /\ \A rs \in [1 .. 8 -> Bursts] : Within(1, rs)
    /\ \E rs \in [1 .. 8 -> Bursts] : \E i \in 1 .. 8 : Waits(1, rs)[i].cause = "limited"

-----------------------------------------------------------------------------
(* The guard: a token for the host a, and successors for a and b, for b     *)
(* only, and for everything below a.                                        *)

At(form, id, port) == [form |-> form, id |-> id, url |-> FALSE, port |-> port # 0, path |-> FALSE,
                       at |-> port]
ToHost(id) == At("host", id, 0)
HostA == ToHost(<<"a", "d">>)
HostB == ToHost(<<"b", "d">>)
HostAA == ToHost(<<"x", "a", "d">>)
NoScope == [domains |-> {}, cidrs |-> {}, excludes |-> {}]
Exactly(hash, targets) == [form |-> "exact", hash |-> hash, targets |-> targets, scope |-> NoScope]
BelowA == [form |-> "scope", hash |-> "below", targets |-> {},
           scope |-> [NoScope EXCEPT !.domains = {At("below", <<"a", "d">>, 0)}, !.excludes = {HostB}]]
Claims(jti, task, scoped, exp) ==
    [jti |-> jti, task |-> task, scopeBound |-> scoped, nbf |-> 0, exp |-> exp, caps |-> CapsOf(2, 1)]
First == NewGuard(Claims("j1", "t", FALSE, 900), Exactly("h1", {HostA}), 0)
Successors == {<<Claims("j2", "t", FALSE, 1500), Exactly("h2", {HostA, HostB})>>,
               <<Claims("j3", "t", FALSE, 1500), Exactly("h3", {HostB})>>,
               <<Claims("j4", "t", TRUE, 1500), BelowA>>,
               <<Claims("j5", "other", FALSE, 1500), Exactly("h3", {HostB})>>,
               <<Claims("j6", "t", TRUE, 1500), Exactly("h3", {HostB})>>}
Guards == {First} \cup {Update(First, s[1], s[2], 600) : s \in Successors}

\* A successor for another task or with a manifest of another form changes
\* nothing.  What a guard lets through is in its manifest and is touched and
\* recorded; what it refuses is not touched, and recorded when the target is
\* why.
ASSUME RefusedIsNotTouched ==
    /\ {g.claims.jti : g \in Guards} = {"j1", "j2", "j3", "j4"}
    /\ \A g \in Guards, t \in {HostA, HostB, HostAA}, revoked \in BOOLEAN, now \in {600, 960, 961, 1560, 1561} :
          LET checked == check(g, t, revoked, now, "lives")
              after == AuthorizeTarget(g, t, checked.cause)
          IN  /\ checked.cause = Nothing =>
                    /\ ~revoked /\ now <= g.claims.exp + 60
                    /\ Refusal(g.man, t) = Nothing /\ after.touched = <<t>>
                    /\ Len(after.audited) = 1
              /\ checked.cause # Nothing =>
                    /\ after.touched = <<>>
                    /\ Len(after.audited) =
                          IF ~revoked /\ now <= g.claims.exp + 60 THEN 1 ELSE 0

\* An update between the check and the record: the record names a token whose
\* manifest does not have the target, and under a scope the result names the
\* hash of the last manifest only.
ASSUME RecordsNameTheLastToken ==
    \A g \in Guards \ {First} :
        LET late == AuthorizeTarget([g EXCEPT !.touched = First.touched], HostA,
                                    check(First, HostA, FALSE, 600, "lives").cause)
        IN  /\ late.audited[1].jti = g.claims.jti /\ late.touched = <<HostA>>
            /\ (g.claims.jti \in {"j3", "j4"}) = (Refusal(g.man, HostA) # Nothing)
            /\ TargetsTouchedMetric(late) =
                  IF g.claims.jti = "j4" THEN <<"below">> ELSE <<HostA>>

\* The revocations and the time are looked at before the wait for the limiter:
\* a request leaves up to 5 s after it was found right, and no later.
ASSUME ChecksAgeInTheWait ==
    LET waiting(n) == [First EXCEPT !.limiter.tokens = -n]
        late(n) == check(waiting(n), HostA, FALSE, 0, "lives")
    IN  /\ \A n \in 0 .. 12 : late(n).cause = Nothing => late(n).at <= 5 * 2
        /\ late(9).cause = Nothing /\ late(9).at = 5 * 2 /\ late(10).cause = "limited"

\* Slots: who holds one took it of the guard's limiter at that time, and gives
\* it back to the guard's limiter at its own.  A world is the guard, the holders,
\* and the slots in use when a limiter was replaced.
CapClaims(cap) == [Claims("j1", "t", FALSE, 900) EXCEPT !.caps = CapsOf(0, cap)]
SlotSteps(w, cap) ==
    LET taken == [w EXCEPT !.guard.limiter = Acquire(@), !.held = @ + 1]
        freed == [w EXCEPT !.guard.limiter = Release(@), !.held = @ - 1]
        updated == [guard |-> Update(w.guard, CapClaims(cap), First.man, 0), held |-> w.held,
                    lost |-> w.lost + w.guard.limiter.used, updates |-> w.updates + 1]
    IN  (IF TryAcquire(w.guard.limiter) THEN {taken} ELSE {})
        \cup (IF w.held > 0 THEN {freed} ELSE {})
        \cup (IF w.updates < 2 THEN {updated} ELSE {})
SlotWorlds(cap) ==
    LET reached[n \in 0 .. 9] ==
            IF n = 0 THEN {[guard |-> NewGuard(CapClaims(cap), First.man, 0), held |-> 0,
                            lost |-> 0, updates |-> 0]}
            ELSE reached[n - 1] \cup UNION {SlotSteps(w, cap) : w \in reached[n - 1]}
    IN  reached[9]

\* Under one limiter the cap holds and every slot comes back; each limiter that
\* replaces one in use lets the holders of the old come on top.
ASSUME UpdatesForgetSlots ==
    \A cap \in 1 .. 2 :
        /\ \A w \in SlotWorlds(cap) :
              /\ w.updates = 0 => w.held <= cap /\ w.held = w.guard.limiter.used
              /\ w.held <= w.guard.limiter.used + w.lost /\ w.held <= cap * (1 + w.updates)
        /\ \E w \in SlotWorlds(cap) : w.held = 3 * cap

-----------------------------------------------------------------------------
(* Keys.  k2 is withdrawn at 100: a reply that was read before has it.      *)

Jwk(kid) == [kid |-> kid, okp |-> TRUE, size |-> 32]
Reply(keys) == [came |-> TRUE, status |-> 200, json |-> TRUE, keys |-> keys]
ReadAt(time) == Reply({Jwk("k1")} \cup IF time < 100 THEN {Jwk("k2")} ELSE {})
Fetches == {f \in [read : {50, 99, 100, 120}, done : {60, 105, 109, 130}] :
               f.done - f.read \in 0 .. 10}
Refreshed(fs) ==
    LET after[i \in 0 .. Len(fs)] ==
            IF i = 0 THEN NewKeyCache ELSE Refresh(after[i - 1], ReadAt(fs[i].read), fs[i].done)
    IN  after[Len(fs)]

\* Fetches take up to 10 s and end in any order: a withdrawn key is good for
\* the lifetime of the cache and 10 s more, and comes back when a fetch that
\* was slower than its successor ends.
ASSUME WithdrawnKeysExpire ==
    /\ \A fs \in [1 .. 2 -> Fetches] : fs[1].done <= fs[2].done =>
          \A now \in {120, 360, 400, 409, 410, 411, 430} :
              KeyOf(Refreshed(fs), "k2", now) => now < 100 + 10 + JWKSTTL
    /\ \E fs \in [1 .. 2 -> Fetches] :
          /\ fs[1].done <= fs[2].done /\ fs[1].read >= 100
          /\ KeyOf(Refreshed(fs), "k2", 400)

\* A key is found in a reply that decodes as a whole, or where it was; a reply
\* with one key that does not decode makes none of the others known.
ASSUME KeysAreAllOrNone ==
    \A good \in BOOLEAN, kid \in {"", "k1", "k2", "k3"}, asked \in {0, 200, 400} :
        LET cache == Refresh(NewKeyCache, Reply({Jwk("k1")}), 50)
            reply == Reply({Jwk("k2"), [Jwk("k3") EXCEPT !.size = IF good THEN 32 ELSE 31]})
            after == PublicKey(cache, kid, asked, reply, asked + 1)
        IN  /\ after.found = (\/ kid = "k1" /\ asked <= 350
                              \/ good /\ kid \in {"k2", "k3"})
            /\ after.cache.keys \in {{"k1"}, {"k2", "k3"}}

\* A pinned bucket is the only one read from.
ASSUME PinnedBucket ==
    \A uri \in [scheme : {"blob", "s3", "http"}, host : {"tokens", "x", Nothing}, key : {"k", Nothing}] :
        LET at == MapURI(uri, "pin")
        IN  /\ (at = Nothing) = (MapURI(uri, Nothing) = Nothing)
            /\ at # Nothing => at[1] = "pin" /\ at[2] = MapURI(uri, Nothing)[2]

-----------------------------------------------------------------------------
(* The proxy.                                                               *)

Places == {At(f.form, f.id, p) :
              f \in {HostA, HostAA, HostB, ToHost(<<"d">>), At("ip", 1, 0), At("ip", 2, 0)}, p \in {0, 80, 8443}}
Entries == Places \cup {At("net", {1, 2}, 0), At("below", <<"a", "d">>, 0)}
Reqs == [dst : Places, connect : BOOLEAN, scheme : {"http", "https"}, reached : BOOLEAN]
Same(e, t) == e.form = t.form /\ e.id = t.id

\* Every target that is a host or an address can be reached; what can be reached
\* is such a target, is below one of two labels or more, or is in a block, and
\* no port makes a difference.  What is dialled was allowed with the port that
\* is dialled, also where another was judged; nothing else is.
ASSUME OnlyAllowedIsDialled ==
    \A targets \in {T \in SUBSET Entries : Cardinality(T) <= 2} :
        LET a == NewAllowlist(targets)
        IN  /\ \A t \in Places :
                  Allows(a, t) = \E e \in targets :
                      \/ Same(e, t) \/ InNet(e, t)
                      \/ e.form = "host" /\ Len(e.id) >= 2 /\ HostBelow(e, t)
            /\ \A req \in Reqs :
                  LET done == serve(a, [allowed |-> 0, denied |-> 0], req)
                  IN  /\ \A d \in done.dialled : Allows(a, d) /\ Same(d, req.dst)
                      /\ (done.answer = 403) = (done.dialled = {}) /\ (done.answer = 403) = (done.counts.denied = 1)
                      /\ done.answer = 200 => done.counts.allowed = 1

\* The allowlist has no exclusions: what the scope of a task excludes below one
\* of its targets is refused by the guard and passes the proxy.
ASSUME ProxyIsWiderThanTheScope ==
    LET scope == [NoScope EXCEPT !.domains = {HostA, At("below", <<"a", "d">>, 0)}, !.excludes = {HostAA}]
    IN  /\ AgentEvaluates(scope, HostA) = "in" /\ AgentEvaluates(scope, HostAA) = "excluded"
        /\ Allows(NewAllowlist({HostA}), HostAA)

\* What a handler does not see is settled without it, and only that.
ASSUME UnreadableIsGivenUp ==
    \A stream, readable \in BOOLEAN, d \in {"ack", "nak", "term"} :
        (Settlement([stream |-> stream, readable |-> readable], d) = d)
            <=> stream /\ (readable \/ d = "term")
=============================================================================
