---------------------------- MODULE MCPolicyRules ----------------------------
(***************************************************************************)
(* What PolicyRules computes, checked on every input of a small world when *)
(* TLC starts on a module that extends this one.                           *)
(***************************************************************************)
EXTENDS PolicyRules

-----------------------------------------------------------------------------
(* Roles: one principal of one organisation, three grants and a withdrawal. *)

SomeRoles == {"roe-author", "offensive-approver", "auditor", "operator"}
Binding(kind, role, until) ==
    [org |-> "org", who |-> "w", kind |-> kind, role |-> role, by |-> "admin",
     revoked |-> FALSE, until |-> until]
GrantsTo(kind) == {Binding(kind, r, u) : r \in SomeRoles, u \in {2, 5}}

Separate(bindings, now) ==
    LET held == RolesOf(bindings, "org", "w", now)
    IN  /\ ~({"roe-author", "offensive-approver"} \subseteq held)
        /\ "auditor" \in held => held \cap writeRoles = {}

\* Duties stay separate for a human however grants, expiries and withdrawals
\* follow each other.
ASSUME DutiesStaySeparate ==
    \A a, b, c \in GrantsTo("human"), withdrawn \in SomeRoles :
        LET first == Grant({}, a, 1)
            second == Grant(first, b, 2)
            third == Grant(Withdraw(second, "org", "w", withdrawn), c, 3)
        IN  \A now \in 1 .. 5 : /\ now >= 2 => Separate(second, now)
                                /\ now >= 3 => Separate(third, now)

\* But not for one that a second grant calls a service: an approver may become
\* an author that way, though an author never an approver.
ASSUME KindIsTakenOnTrust ==
    LET approver == Grant({}, Binding("human", "offensive-approver", 5), 1)
        both == Grant(approver, Binding("service", "roe-author", 5), 1)
        author == Grant({}, Binding("service", "roe-author", 5), 1)
    IN  /\ ~Separate(both, 1)
        /\ \A k \in {"human", "service"} :
              Grant(author, Binding(k, "offensive-approver", 5), 1) = author

\* Only platform-admin's wildcard and the roles of the two kinds of service let
\* a principal ask for an authorisation, whatever the organisation.
ASSUME WhoMayAsk ==
    \A role \in SomeRoles \cup {"commander-svc", "platform-admin"}, now \in {1, 6},
       commander \in {Absent, "cai", "strix"}, id \in {"w", "svc-cai"} :
        LET db == Grant({}, [Binding("human", role, 5) EXCEPT !.who = id], 1)
        IN  (stepAuth(db, [id |-> id, kind |-> "user", spiffe |-> Absent], commander, now) = "ok")
            = (/\ HasRole(db, "org", id, role, now) /\ role \notin SomeRoles
               /\ commander = Absent \/ (commander = "cai" /\ id = "svc-cai"))

\* A withdrawn or expired grant is listed only when asked for.
ASSUME WithdrawnGrantsAreHidden ==
    \A now \in {1, 6}, r \in SomeRoles :
        LET db == Withdraw(Grant({}, Binding("human", "operator", 5), 1), "org", "w", r)
        IN  /\ List(db, "org", TRUE, now) = db
            /\ (List(db, "org", FALSE, now) = db) = (r # "operator" /\ now = 1)

-----------------------------------------------------------------------------
(* The registry.                                                            *)

Names3 == {<<"recon">>, <<"recon", "dns">>, <<"recon", "dns", "axfr">>, <<"stress">>,
           <<"stress", "http">>, <<"monitor", "watch">>, <<"other">>}
Files == {[exact |-> e, pattern |-> p] :
             e \in [{<<"recon", "dns">>, <<"monitor", "watch">>} -> {0, 3, 9}],
             p \in [{<<"recon", "dns">>, <<"stress">>} -> {2, 9}]}

\* A file of overrides, read to its end or not, leaves every name with the class
\* it had or one the file gives it, and never makes a name unknown.
ASSUME OverridesOnly ==
    \A f \in Files, n \in Names3 : \A reg \in LoadFile(Default, f) :
        /\ Lookup(reg, n) \in {Lookup(Default, n)} \cup {f.exact[c] : c \in DOMAIN f.exact}
                              \cup {f.pattern[c] : c \in DOMAIN f.pattern}
        /\ (Lookup(reg, n) = -1) = (n = <<"other">>)

\* A name alone is under its own pattern here, but not under an RoE's.
ASSUME BareNameIsClassed ==
    /\ Lookup(Default, <<"stress">>) = 2
    /\ ~MatchCapabilityPattern([any |-> TRUE, id |-> <<"stress">>], <<"stress">>)

-----------------------------------------------------------------------------
(* Blackout windows.                                                        *)

Hours == {<<>>, << <<22, 2>> >>, << <<9, 17>>, <<3, 3>> >>}
Days == {<<>>, <<0>>, <<6, 0>>}
Windows == [zone : {0, 5, -4}, freq : {"DAILY", "WEEKLY"}, days : Days, hours : Hours]
Mar(tokens, bad) == [i \in DOMAIN tokens |-> IF i = Len(tokens) THEN bad ELSE tokens[i]]
Marred(w) == {[w EXCEPT !.zone = Unread], [w EXCEPT !.freq = "MONTHLY"],
              [w EXCEPT !.days = Mar(@, Unread)], [w EXCEPT !.hours = Mar(@, <<Unread, 0>>)],
              [w EXCEPT !.days = Append(@, Unread)], [w EXCEPT !.hours = Append(@, <<0, Unread>>)]}

\* What cannot be read of a window only makes it longer.
ASSUME MisreadWindowsForbid ==
    \A w \in Windows, hour \in 0 .. 167 : \A m \in Marred(w) :
        windowActive(hour, w) => windowActive(hour, m)

\* A range over midnight belongs to the day it is in, not to the day it began.
ASSUME MidnightSplits ==
    LET w == [zone |-> 0, freq |-> "WEEKLY", days |-> <<1>>, hours |-> << <<22, 2>> >>]
    IN  {h \in 0 .. 167 : Active(h, {w})} = {24, 25, 26, 46, 47}

-----------------------------------------------------------------------------
(* Rate caps.                                                               *)

Caps == {[p \in {[any |-> TRUE, id |-> <<"recon">>], [any |-> TRUE, id |-> <<"recon", "dns">>],
                 [any |-> FALSE, id |-> <<"monitor", "watch">>]} |->
              IF p.any THEN x ELSE y] : x, y \in {0, 5}}

\* Capabilities of class R1 always have a cap; those nobody declared one for
\* share a bucket.
ASSUME R1IsAlwaysCapped ==
    \A caps \in Caps, n, k \in Names3 :
        /\ RateCap(caps, n, 1).rps > 0
        /\ RateCap(caps, n, 2).rps \in {0, 5}
        /\ n # k /\ RateCap(caps, n, 1).bucket = RateCap(caps, k, 1).bucket =>
               \/ RateCap(caps, n, 1).bucket = <<>>
               \/ n[1] = "recon" /\ k[1] = "recon"

\* However requests are spaced, a bucket passes no more than its burst and what
\* it earned since.
Gaps == [1 .. 5 -> {0, 1, 3}]
ASSUME BurstIsBounded ==
    \A g \in Gaps, rps \in 1 .. 2 :
        LET b[i \in 0 .. 5] ==
              IF i = 0 THEN [tokens |-> 2 * rps, last |-> 0, passed |-> 0]
              ELSE LET a == Allow(b[i - 1], b[i - 1].last + g[i], rps, 2)
                   IN  [tokens |-> a.tokens, last |-> a.last,
                        passed |-> b[i - 1].passed + (IF a.allowed THEN 1 ELSE 0)]
        IN  \A i \in 0 .. 5 : /\ b[i].tokens \in 0 .. 2 * rps
                              /\ 2 * b[i].passed <= 2 * rps + b[i].last * rps

-----------------------------------------------------------------------------
(* Approvals, revocations and tokens.                                       *)

\* An approval covers the requests for some of its targets, until it expires.
ASSUME ApprovalsCoverSubsets ==
    \A has, wants \in SUBSET {"x", "y"}, now \in 1 .. 3 :
        LET a == [roe |-> "r", version |-> 1, capability |-> "c", status |-> "granted",
                  until |-> 3, targets |-> has]
            q == [roe |-> "r", version |-> 1, capability |-> "c", targets |-> wants]
        IN  (FindValidApproval({a}, q, now) # {}) = (now < 3 /\ wants \subseteq has)

\* A revocation that expires is for ever to a process that did not write it.
ASSUME ExpiryIsLocal ==
    LET r == [id |-> 1, scope |-> "target", value |-> "x", lifted |-> FALSE]
        writer == [i \in {1} |-> 3]
        other == [i \in {} |-> 3]
    IN  \A now \in 1 .. 4 : /\ IsRevoked({r}, other, "", "x", now)
                            /\ IsRevoked({r}, writer, "target", "x", now) = (now < 3)
                            /\ ~IsRevoked({r}, other, "roe", "x", now)
=============================================================================
