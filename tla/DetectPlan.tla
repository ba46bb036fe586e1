------------------------------ MODULE DetectPlan ------------------------------
(***************************************************************************)
(* What the detect service computes from its inputs alone: the task        *)
(* parameters, the plan of a scan, what a scanner is launched with, which  *)
(* of its findings become candidates, their class and their fingerprint.   *)
(*                                                                         *)
(* A check is a record [id, words]: words are the substrings of the id     *)
(* that the code looks for ("dos-", "xss", ...).  A set of exclusions is   *)
(* the set of the ids and tags its entries match, globs expanded.  A hit   *)
(* is one record of a scanner's output, a raw is the candidate made of it. *)
(***************************************************************************)
EXTENDS Integers, Sequences, FiniteSets, SequencesExt

Meets(S, T) == S \cap T # {}

-----------------------------------------------------------------------------
(* Denial-of-service content. *)

IsDoSCheckID(check) ==
    Meets(check.words, {"dos", "dos-", "dos_", "-dos", "denial", "flood",
                        "slowloris", "stress"})

IsDoSTags(tags) ==
    Meets(tags, {"dos", "intrusive", "exploit-dos", "denial-of-service"})

\* exclude_check_ids with its globs; the DoS entries go whatever it says.
GlobExcluded(check, exclude) == check.id \in exclude
FilterChecks(checks, exclude) ==
    {c \in checks : ~IsDoSCheckID(c) /\ ~GlobExcluded(c, exclude)}

RejectDoS(checks) == \E c \in checks : IsDoSCheckID(c)

-----------------------------------------------------------------------------
(* Parameters and plan. *)

ScanWeb == {"detect.scan.web", "detect.scan.api"}
ScanNetwork == "detect.scan.network"
Scans == ScanWeb \cup {ScanNetwork}
Revalidate == "detect.revalidate"
Enrich == "detect.enrich"

\* ManifestCapabilities: the risk class of each capability (all R2, enrich R1).
Capabilities == Scans \cup {Revalidate, Enrich}
RiskOf(capability) == IF capability = Enrich THEN 1 ELSE 2

ProfileTags ==
    LET quick == {"cve", "exposure", "misconfig"}
        standard == quick \cup {"xss", "sqli", "ssrf", "lfi", "redirect",
                                "default-login", "ssl"}
    IN  [quick |-> quick, standard |-> standard,
         deep |-> standard \cup {"rce", "xxe", "takeover"}]

ProfilePacing == [quick |-> 150, standard |-> 100, deep |-> 50]

DefaultParams ==
    [profile |-> "standard", checks |-> {}, exclude |-> {}, verify |-> FALSE,
     maxRequests |-> 0, ports |-> "", safe |-> TRUE, fingerprints |-> <<>>]

\* given is [present, wellTyped] and the fields that were sent.
ParseParams(capability, given) ==
    LET parsed == [f \in DOMAIN DefaultParams |->
                     IF f \in DOMAIN given THEN given[f] ELSE DefaultParams[f]]
    IN  IF ~given.present THEN [ok |-> TRUE, params |-> DefaultParams]
        ELSE [ok |-> /\ given.wellTyped
                     /\ capability = Revalidate => parsed.fingerprints # <<>>,
              params |-> parsed]

\* classifyTarget: a target is [n, url, host], n its place in the sorted list.
WebJob(target, params) ==
    [adapter |-> "nuclei", target |-> target, ports |-> "",
     checks |-> FilterChecks(params.checks, params.exclude),
     tags |-> IF params.checks # {} THEN {}
              ELSE ProfileTags[params.profile] \ params.exclude]

NSE(category) == [id |-> category, words |-> {category}]
NetworkJob(target, params) ==
    [adapter |-> "nmap", target |-> target,
     ports |-> IF params.ports = "" THEN "top-1000" ELSE params.ports,
     tags |-> {},
     checks |->
        IF params.checks # {} THEN FilterChecks(params.checks, params.exclude)
        ELSE {NSE("vuln"), NSE("banner")} \cup
             (IF params.profile = "quick" THEN {} ELSE {NSE("ssl-")})]

\* Plan: URL targets make web jobs and the others network jobs, the rest is
\* skipped; the request budget is shared evenly, 0 is no limit; SortJobs.
Planned(capability, target) ==
    target.url <=> capability \in ScanWeb
Nth(targets, i) == CHOOSE t \in targets : Cardinality({u \in targets : u.n < t.n}) = i - 1
InOrder(targets) == [i \in 1 .. Cardinality(targets) |-> Nth(targets, i)]
JobOf(target, params, maxRPS, count) ==
    LET pacing == ProfilePacing[params.profile]
    IN  (IF target.url THEN WebJob(target, params) ELSE NetworkJob(target, params)) @@
        [rps |-> IF maxRPS \in 1 .. pacing THEN maxRPS ELSE pacing,
         budget |-> IF params.maxRequests = 0 THEN 0
                    ELSE Max({params.maxRequests \div count, 1}),
         safe |-> params.safe]
ScanPlan(capability, targets, params, maxRPS) ==
    LET kept == InOrder({t \in targets : Planned(capability, t)})
    IN  IF params.profile \notin DOMAIN ProfileTags \/ kept = <<>>
        THEN [ok |-> FALSE, jobs |-> <<>>]
        ELSE [ok |-> TRUE,
              jobs |-> [i \in DOMAIN kept |-> JobOf(kept[i], params, maxRPS, Len(kept))]]

-----------------------------------------------------------------------------
(* The scanners. *)

\* ValidateJob of either wrapper refuses a job that still carries DoS checks.
NucleiRefuses(job) == RejectDoS(job.checks)
NmapRefuses(job) ==
    RejectDoS(job.checks) \/ \E c \in job.checks : c.id \in {"dos", "intrusive"}

\* What the launch flags select.  A job with neither checks nor tags passes no
\* selection at all.
NucleiSelects(job, hit) ==
    /\ IF job.checks # {} THEN hit.check.id \in {c.id : c \in job.checks}
                          ELSE job.tags # {} => Meets(hit.tags, job.tags)
    /\ job.safe => ~Meets(hit.tags, {"dos", "fuzzing"})
NmapSelects(job, hit) ==
    LET scripts == IF job.checks = {} THEN {NSE("vuln"), NSE("banner")}
                                      ELSE job.checks
        kept == FilterChecks(scripts, {})
    IN  Meets({c.id : c \in kept}, {hit.check.id} \cup hit.check.words \cup hit.tags)

\* nseVerdict: the output is searched for the word, so a script that says
\* NOT VULNERABLE is a hit too; ssl scripts also report weak offers.
NSEVulnerable(hit) ==
    \/ Meets(hit.says, {"VULNERABLE", "NOT VULNERABLE"})
    \/ "ssl-" \in hit.check.words /\ Meets(hit.says, {"WEAK", "BROKEN", "DEPRECATED"})
NSESeverity(hit) ==
    IF hit.severity = "medium" /\ "ssl-" \in hit.check.words THEN "low"
    ELSE hit.severity

\* parse: the records of the output that become candidates.
NucleiReports(job, hit) ==
    NucleiSelects(job, hit) /\ ~IsDoSCheckID(hit.check) /\ ~IsDoSTags(hit.tags)
NmapReports(job, hit) ==
    /\ NmapSelects(job, hit) /\ hit.up /\ hit.open
    /\ ~IsDoSCheckID(hit.check) /\ NSEVulnerable(hit)

\* classifyNuclei, classifyNSE: the first line that applies.
ClassifyNuclei(hit) ==
    LET has(tags) == Meets(hit.tags, tags)
        id(words) == Meets(hit.check.words, words)
    IN CASE has({"xss"}) \/ id({"xss"}) -> "reflected_xss"
         [] has({"sqli"}) \/ id({"sqli", "sql-injection"}) -> "sqli"
         [] has({"ssrf"}) \/ id({"ssrf"}) -> "ssrf"
         [] has({"xxe"}) \/ id({"xxe"}) -> "blind_xxe"
         [] has({"rce"}) /\ has({"oob", "blind"}) -> "blind_rce"
         [] has({"lfi"}) \/ id({"lfi", "traversal"}) -> "path_traversal"
         [] has({"redirect"}) \/ id({"redirect"}) -> "open_redirect"
         [] has({"default-login", "default-creds"})
              \/ id({"default-login", "default-cred"}) -> "default_creds"
         [] has({"ssl", "tls"}) \/ id({"ssl-", "tls-"}) -> "tls_misconfig"
         [] has({"header", "headers", "misconfig"})
              \/ id({"header"}) -> "security_header"
         [] has({"cve"}) \/ id({"cve-"}) -> "version_cve"
         [] has({"exposure", "exposures", "panel", "debug"}) -> "exposure"
         [] OTHER -> "unknown"
ClassifyNSE(hit) ==
    LET id(words) == Meets(hit.check.words, words)
    IN CASE id({"ssl-", "tls-", "heartbleed", "poodle"}) -> "tls_misconfig"
         [] id({"smb-vuln", "ms17-010", "http-vuln"}) -> "version_cve"
         [] id({"anon"}) -> "default_creds"
         [] id({"http-headers", "http-security-headers"}) -> "security_header"
         [] OTHER -> "version_cve"

NucleiRaw(job, hit) ==
    [target |-> job.target, adapter |-> "nuclei", check |-> hit.check.id,
     class |-> ClassifyNuclei(hit), severity |-> hit.severity,
     cve |-> hit.cve, at |-> hit.at]
NmapRaw(job, hit) ==
    [target |-> job.target, adapter |-> "nmap-nse", check |-> hit.check.id,
     class |-> ClassifyNSE(hit), severity |-> NSESeverity(hit),
     cve |-> hit.cve, at |-> hit.at]

\* A run of a scanner over the output of its process: the candidates up to
\* the budget (BudgetLimiter.TakeRequest), and whether the budget ran out.
ScannerOutput(job, hits) ==
    LET web == job.adapter = "nuclei"
        Reports(h) == IF web THEN NucleiReports(job, h) ELSE NmapReports(job, h)
        Raw(h) == IF web THEN NucleiRaw(job, h) ELSE NmapRaw(job, h)
        kept == SelectSeq(hits, Reports)
        n == IF job.budget = 0 THEN Len(kept) ELSE Min({Len(kept), job.budget})
    IN  [raws |-> [i \in 1 .. n |-> Raw(kept[i])], exhausted |-> n < Len(kept)]

-----------------------------------------------------------------------------
(* Identity of a candidate. *)

VulnIdentity(raw) ==
    IF raw.cve # "" THEN <<"cve", raw.cve>> ELSE <<raw.adapter, raw.check>>

\* A path is a sequence of segments [kind, text]; ids, hex strings and tokens
\* collapse, a trailing slash (an empty last segment) goes.
NormalizePath(path) ==
    LET Segment(s) == CASE s.kind = "num" -> "{id}"
                        [] s.kind = "hex" -> "{hex}"
                        [] s.kind = "tok" -> "{tok}"
                        [] OTHER -> s.text
        segments == [i \in DOMAIN path |-> Segment(path[i])]
    IN  IF segments # <<>> /\ Last(segments) = "" THEN Front(segments)
                                                  ELSE segments

\* splitTarget: matched-at when there is one, else the target; default ports.
SplitTarget(raw) ==
    LET place == IF raw.at.host = "" THEN raw.target.at ELSE raw.at
        port == CASE place.port # 0 -> place.port
                  [] place.scheme = "https" -> 443
                  [] place.scheme = "http" -> 80
                  [] OTHER -> 0
    IN  [place EXCEPT !.port = port]

Fingerprint(mission, raw) ==
    LET place == SplitTarget(raw)
    IN  <<mission, place.host, place.scheme, place.port,
          NormalizePath(place.path), VulnIdentity(raw)>>
===============================================================================
