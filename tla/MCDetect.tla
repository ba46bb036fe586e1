------------------------------- MODULE MCDetect -------------------------------
(***************************************************************************)
(* Scenarios of Detect for TLC: each gives the assignments, the targets    *)
(* and what the scanners say of them, and what may fail.                   *)
(***************************************************************************)
EXTENDS Detect

Web(n) == [n |-> n, url |-> TRUE, host |-> <<"a">>,
           at |-> [scheme |-> "https", host |-> "a", port |-> 0, path |-> <<>>]]
Net(n) == [n |-> n, url |-> FALSE, host |-> <<"b", "a">>,
           at |-> [scheme |-> "", host |-> "b.a", port |-> 0, path |-> <<>>]]
Nowhere == [scheme |-> "", host |-> "", port |-> 0, path |-> <<>>]

Hit(words, tags, severity) ==
    [check |-> [id |-> "check", words |-> words], tags |-> tags, severity |-> severity,
     cve |-> "", at |-> Nowhere, says |-> {}, up |-> TRUE, open |-> TRUE]
Xss == Hit({"xss"}, {"xss"}, "high")
Sqli == [Hit({"sqli"}, {"sqli"}, "critical") EXCEPT !.check.id = "sqli-1"]
Ssrf == Hit({}, {"ssrf"}, "high")
Rce == Hit({}, {"rce", "oob"}, "critical")
Xxe == Hit({"xxe"}, {"cve"}, "high")
Lfi == Hit({"lfi"}, {"lfi"}, "high")
Login == Hit({"default-login"}, {"default-login"}, "high")
Weak == Hit({"tls-"}, {"ssl"}, "medium")
Header == Hit({"header"}, {"misconfig"}, "medium")
Version == [Hit({"cve-"}, {"cve"}, "critical") EXCEPT !.cve = "CVE-2021-41773"]
Open == Hit({"redirect"}, {"redirect"}, "medium")
Panel == Hit({}, {"exposure"}, "low")
Odd == Hit({}, {"cve", "other"}, "critical")
Dos == Hit({"dos-"}, {"cve"}, "critical")
\* The same weakness at a path that differs in an id only.
Again(hit, n) == [hit EXCEPT !.at = [scheme |-> "https", host |-> "a", port |-> 443,
                                     path |-> <<[kind |-> "num", text |-> n]>>]]
Script(words, says) == [Hit(words, {"vuln"}, "medium") EXCEPT !.says = says]
Ssl == Script({"ssl-", "vuln"}, {"WEAK"})
Fixed == [Script({"http-vuln", "vuln"}, {"NOT VULNERABLE"}) EXCEPT !.check.id = "http-vuln-x"]

Exact(targets) == [form |-> "exact", fetched |-> TRUE, hash |-> "h",
                   targets |-> {t.host : t \in targets}]
Token(t, capability, targets) ==
    [present |-> TRUE, signed |-> TRUE, issuer |-> TRUE, complete |-> TRUE, risk |-> 2,
     ttl |-> 900, early |-> FALSE, scopeBound |-> FALSE, watch |-> FALSE, approved |-> FALSE,
     manifest |-> Exact(targets), hash |-> "h", count |-> 0, task |-> t,
     capabilities |-> <<capability>>, roe |-> "roe", maxRPS |-> 20]
Assign(t, capability, targets, given) ==
    [token |-> Token(t, capability, targets), capability |-> capability, risk |-> 2,
     deadline |-> FALSE, mission |-> "m", targets |-> targets,
     given |-> given @@ [present |-> TRUE, wellTyped |-> TRUE]]
Plain == [present |-> TRUE]
WebTask(t, targets) == Assign(t, "detect.scan.web", targets, Plain)
NetTask(t, targets) == Assign(t, "detect.scan.network", targets, Plain)

Calm ==
    [assignment |-> ("t1" :> WebTask("t1", {Web(1)})), tasks |-> {"t1"},
     faults |-> {}, maxFaults |-> 0, maxSent |-> 1, revocations |-> {}, kills |-> {},
     killActive |-> FALSE, lively |-> FALSE, oob |-> TRUE, evs |-> TRUE, evidence |-> TRUE,
     fallback |-> TRUE, intel |-> [kev |-> TRUE, epss |-> 90],
     place |-> [exposure |-> "internet", criticality |-> "critical"],
     flawed |-> {}, suppressed |-> {}, hits |-> <<<<Sqli>>, <<Xss>>>>, slots |-> 2]

Classes == {"reflected_xss", "sqli", "ssrf", "blind_xxe", "blind_rce", "path_traversal",
            "default_creds", "tls_misconfig", "security_header", "version_cve",
            "open_redirect", "exposure", "unknown"}
HitsOf == {Xss, Sqli, Ssrf, Rce, Xxe, Lfi, Login, Weak, Header, Version, Open, Panel, Odd}

(* one hit of each class, on a target that has the flaw and on one that has *)
(* not; the sandbox is asked for every one                                  *)
Judged ==
    {[Calm EXCEPT !.hits = <<<<hit>>>>,
        !.flawed = IF flawed THEN {1} \X Classes ELSE {},
        !.oob = oob, !.evidence = oob \/ flawed,
        !.assignment = ("t1" :> Assign("t1", "detect.scan.web", {Web(1)}, [profile |-> "deep", verify |-> verify, safe |-> FALSE]))] :
       hit \in HitsOf, flawed \in BOOLEAN, oob \in BOOLEAN, verify \in BOOLEAN}

(* what the plan and the scanners leave out: DoS checks, excluded checks,   *)
(* the budget, targets of the other kind, a suppressed and a repeated hit   *)
Check(id, words) == [id |-> id, words |-> words]
Planned2 == Assign("t1", "detect.scan.api", {Web(1), Net(2)},
                   [checks |-> {Check("check", {}), Check("sqli-1", {}), Check("dos-1", {"dos-"})},
                    exclude |-> {"other"}, maxRequests |-> 2])
Chosen == [Calm EXCEPT !.assignment = ("t1" :> Planned2), !.suppressed = {<<"check", "reflected_xss">>},
             !.faults = {"suppression"}, !.maxFaults = 1,
             !.hits = <<<<Dos, Xss, Again(Sqli, "1"), Again(Sqli, "2")>>, <<>>>>]
Repeated == [Calm EXCEPT !.hits = <<<<Again(Sqli, "1"), Again(Sqli, "2")>>>>,
               !.flawed = {<<1, "sqli">>}]
Budgeted == [Calm EXCEPT !.assignment = ("t1" :> Assign("t1", "detect.scan.web", {Web(1)},
                                                        [maxRequests |-> 1])),
               !.hits = <<<<Sqli, Xss>>>>]

(* two network jobs, one slot; a process dies *)
Network == [Calm EXCEPT !.assignment = ("t1" :> NetTask("t1", {Net(1), Net(2)})),
              !.hits = <<<<Ssl, Fixed>>, <<Fixed>>>>, !.slots = 1, !.flawed = {<<1, "tls_misconfig">>},
              !.faults = {"scanner"}, !.maxFaults = 1]

(* a script of a category that the wrapper refuses *)
Intrusive == [Calm EXCEPT !.assignment = ("t1" :> Assign("t1", "detect.scan.network", {Net(1)},
                                            [checks |-> {Check("intrusive", {})}])),
                !.hits = <<<<Ssl>>>>]

(* two tasks meet the same weakness at the same time *)
Pair(first, second) == ("t1" :> first) @@ ("t2" :> second)
Both == [Calm EXCEPT !.assignment = Pair(WebTask("t1", {Web(1)}), WebTask("t2", {Web(1)})),
           !.tasks = {"t1", "t2"}, !.hits = <<<<Lfi>>>>]

Revocation(scope, key, temporary) == [scope |-> scope, key |-> key, temporary |-> temporary]
(* a scan and a revalidation of what it finds; an enrichment *)
Found == Fingerprint("m", NucleiRaw([target |-> Web(1)], Header))
Followed == [Calm EXCEPT
    !.assignment = Pair(WebTask("t1", {Web(1)}),
                        Assign("t2", Revalidate, {Web(1)},
                               [fingerprints |-> <<Found, <<"other">>>>])),
    !.tasks = {"t1", "t2"}, !.hits = <<<<Header>>>>, !.flawed = {<<1, "security_header">>}]
Elsewhere == [Followed EXCEPT
    !.assignment = Pair(WebTask("t1", {Web(1)}),
                        [Assign("t2", Revalidate, {Net(2)}, [fingerprints |-> <<Found>>])
                           EXCEPT !.targets = {}]),
    !.revocations = {Revocation("capability", Revalidate, FALSE)}]
EnrichTask(targets) == [Assign("t1", Enrich, targets, Plain) EXCEPT !.risk = 1, !.token.risk = 1]
Enriched == [Calm EXCEPT !.assignment = ("t1" :> EnrichTask({Web(1), Web(2)})),
               !.revocations = {[scope |-> "target", host |-> <<"a">>, temporary |-> FALSE]}]

TwoJobs(a) == ("t1" :> [WebTask("t1", {Web(1), Web(2)}) EXCEPT !.deadline = a])
(* two of the calls of a scan fail *)
Failing == [Calm EXCEPT !.faults = {"denied", "dispatch", "lookup", "publish", "alert", "sink",
                                    "raw", "done", "report"},
              !.maxFaults = 2, !.hits = <<<<Version>>, <<Panel>>>>,
              !.assignment = TwoJobs(FALSE), !.flawed = {<<1, "version_cve">>}]
(* a settled message comes again *)
Duplicated == [Calm EXCEPT !.assignment = TwoJobs(FALSE), !.hits = <<<<Header>>, <<Weak>>>>,
                 !.faults = {"ack"}, !.maxFaults = 1]
(* the process stops and the task is dispatched again *)
Restarted == [Calm EXCEPT !.faults = {"crash", "redispatch"}, !.maxFaults = 1, !.maxSent = 2,
                !.hits = <<<<Panel>>>>]

(* revocations, broadcasts and heartbeats against one task or two *)
Revoking == [Calm EXCEPT
    !.hits = <<<<>>>>,
    !.revocations = {Revocation("roe", "roe", TRUE), Revocation("capability", "detect.scan.web", FALSE)}]
Stopped == [Calm EXCEPT
    !.hits = <<<<Panel>>>>, !.revocations = {Revocation("global", "", FALSE)}, !.killActive = TRUE,
    !.kills = {[typed |-> TRUE, scope |-> "target", mission |-> ""]}]
Neighbours == [Calm EXCEPT
    !.assignment = Pair([WebTask("t1", {Web(1)}) EXCEPT !.token.roe = "roe2", !.mission = "n"],
                        NetTask("t2", {Net(2)})),
    !.tasks = {"t1", "t2"}, !.hits = <<<<Panel>>, <<>>>>,
    !.kills = {[typed |-> FALSE, scope |-> None, mission |-> "n"]}]
Twice == [Calm EXCEPT !.faults = {"redispatch"}, !.maxSent = 2, !.hits = <<<<>>>>,
            !.revocations = {Revocation("roe", "roe", FALSE)}]

(* assignments that are refused, and a token that is not renewed *)
BadToken(field, value) ==
    [Calm EXCEPT !.assignment["t1"].token = [[f \in {field} |-> value] EXCEPT ![field] = value] @@ @]
Refused == {BadToken("present", FALSE), BadToken("signed", FALSE), BadToken("ttl", 1000),
            BadToken("risk", 3), BadToken("count", 2), BadToken("hash", "g"), BadToken("task", "t2"),
            BadToken("capabilities", <<"detect.enrich">>), BadToken("manifest", Exact({Net(2)})),
            [Calm EXCEPT !.assignment["t1"].risk = 0],
            [Calm EXCEPT !.assignment["t1"].risk = 3],
            [Calm EXCEPT !.assignment["t1"].capability = "detect.other"],
            [Calm EXCEPT !.assignment["t1"].targets = {}],
            [Calm EXCEPT !.assignment["t1"].targets = {Net(1)}],
            [Calm EXCEPT !.assignment["t1"].given = @ @@ [profile |-> "none"]],
            [Calm EXCEPT !.fallback = FALSE,
               !.assignment = ("t1" :> Assign("t1", Revalidate, {Web(1)}, [fingerprints |-> <<Found>>]))],
            [Calm EXCEPT !.assignment = ("t1" :> Assign("t1", Revalidate, {Web(1)}, Plain))]}
\* A scope-bound token on its own words: everything below a, but not b.a.
Bound(targets) ==
    [EnrichTask(targets) EXCEPT !.token.scopeBound = TRUE, !.token.watch = TRUE,
       !.token.manifest = [form |-> "scope", fetched |-> TRUE, hash |-> "h",
                           includes |-> {[host |-> <<"a">>, any |-> TRUE]},
                           excludes |-> {[host |-> <<"b", "a">>, any |-> FALSE]}]]
Scoped == {[Calm EXCEPT !.assignment = ("t1" :> Bound({target}))] :
             target \in {Web(1), Net(2), [Net(2) EXCEPT !.host = <<"c", "a">>]}}
Expiring == [Calm EXCEPT !.assignment = ("t1" :> EnrichTask({Web(1)})), !.faults = {"expiry"}]

(* what must end: a lost report under a deadline, gatekeeper away, and a    *)
(* scan that nothing disturbs                                               *)
Timed(fails, max) ==
    [Calm EXCEPT !.assignment = TwoJobs(TRUE), !.faults = fails, !.maxFaults = max,
       !.hits = <<<<Panel>>, <<>>>>, !.lively = TRUE]
Lively == {Timed({"done", "report"}, 1), Timed({"unreachable"}, 0),
           [Timed({}, 0) EXCEPT !.assignment = TwoJobs(FALSE)],
           [Neighbours EXCEPT !.lively = TRUE, !.hits = <<<<>>, <<>>>>],
           [Followed EXCEPT !.lively = TRUE, !.hits = <<<<>>>>]}

MCScenario == Judged \cup Refused \cup Scoped \cup Lively \cup
    {Chosen, Repeated, Budgeted, Network, Intrusive, Both, Followed, Elsewhere, Enriched, Failing, Duplicated,
     Restarted, Revoking, Stopped, Neighbours, Twice, Expiring}
===============================================================================
