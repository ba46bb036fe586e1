---------------------------- MODULE MonitorRules ----------------------------
(***************************************************************************)
(* The rule engine of the monitor (services/monitor/internal/rules): the   *)
(* exposure ruleset v1 and the baseline rules, over the current snapshot   *)
(* of each probe type.                                                     *)
(*                                                                         *)
(* in is a record [dns, tls, http, tcp]: each field is the data of the     *)
(* current snapshot, or NoData.  A page title is the set of signatures it  *)
(* matches, a technology a record of its name and whether its version is   *)
(* end-of-life, a URL its scheme.                                          *)
(*                                                                         *)
(* EXP-009 and EXP-010 read the previous technologies and the new-asset    *)
(* mark, which InputFromSnapshots never fills: they cannot hit.            *)
(***************************************************************************)
EXTENDS Naturals, FiniteSets

CONSTANT NoData

InputFromSnapshots(doc) ==
    [pt \in {"dns", "tls", "http", "tcp_port"} |->
        IF pt \in DOMAIN doc THEN doc[pt] ELSE NoData]

Rule(id, sev, hit) == [id |-> id, sev |-> sev, hit |-> hit]

DNSRules(d, apex) == {
    Rule("EXP-001", 4, d.dangling = "takeable"),
    Rule("EXP-019", 2, d.dangling = "dangling"),
    Rule("EXP-020", 0,
         "NS" \in DOMAIN d.records /\ Cardinality(d.records["NS"]) = 1),
    Rule("EXP-021", 1,
         /\ apex /\ ~d.spf
         /\ \E rt \in {"MX", "A"} \cap DOMAIN d.records : d.records[rt] # {})}

LongLived(t) == t.days > 398

TLSRules(t) == {
    Rule("EXP-003", 3, t.days <= 0 \/ ~t.hostMatch),
    Rule("EXP-005", 2, t.version \in {"1.0", "1.1"}),
    Rule("EXP-015", 2, t.selfSigned),
    Rule("EXP-016", 0, LongLived(t)),
    Rule("EXP-017", 2, t.weakCipher),
    Rule("EXP-018", 1, t.days \in 1 .. 7),
    Rule("EXP-022", 0, t.wildcard)}

Success(h) == h.status \in 200 .. 299
SuccessOrRedirect(h) == h.status \in 200 .. 399

TitleRules(h) ==
    LET ok == Success(h)
    IN {Rule("EXP-002", 3, ok /\ h.title \cap {"admin", "login"} # {}),
        Rule("EXP-012", 2, ok /\ "listing" \in h.title),
        Rule("EXP-013", 2, ok /\ "default" \in h.title),
        Rule("EXP-014", 2, h.status # 0 /\ "debug" \in h.title)}

ServiceRules(h) == {
    Rule("EXP-008", 2, \E t \in h.tech : t.eol),
    Rule("EXP-023", 2, Success(h) /\ h.scheme = "http"),
    Rule("EXP-025", 3,
         SuccessOrRedirect(h) /\ \E t \in h.tech : t.name = "phpmyadmin")}

HeaderRules(h, requiresHSTS) ==
    LET hdr == DOMAIN h.headers
        protective == {"content-security-policy", "x-frame-options",
                       "x-content-type-options"}
    IN {Rule("EXP-006", 2, /\ Success(h) /\ "login" \in h.title
                           /\ ~protective \subseteq hdr),
        Rule("EXP-007", 2, /\ requiresHSTS /\ h.scheme = "https" /\ h.status > 0
                           /\ "strict-transport-security" \notin hdr),
        Rule("EXP-011", 1, "server" \in hdr /\ h.headers["server"] = "versioned"),
        Rule("EXP-024", 2, "cors" \in hdr /\ h.headers["cors"] = "any+credentials")}

HTTPRules(h, requiresHSTS) ==
    TitleRules(h) \cup ServiceRules(h) \cup HeaderRules(h, requiresHSTS)

SensitivePorts == {22, 3389, 5900, 3306, 5432, 27017, 6379}

TCPRules(t) == {
    Rule("EXP-004", 3,
         \E p \in SensitivePorts \cap DOMAIN t.ports : t.ports[p] = "open")}

\* The rules that hit, each skipped when its probe type has no snapshot.
EvaluateExposure(in, apex, requiresHSTS) ==
    {r \in UNION {
            IF in["dns"] = NoData THEN {} ELSE DNSRules(in["dns"], apex),
            IF in["tls"] = NoData THEN {} ELSE TLSRules(in["tls"]),
            IF in["http"] = NoData THEN {} ELSE HTTPRules(in["http"], requiresHSTS),
            IF in["tcp_port"] = NoData THEN {} ELSE TCPRules(in["tcp_port"])} :
        r.hit}

(***************************************************************************)
(* A baseline captured from the current snapshots, and whether a later     *)
(* input violates a baseline rule.                                         *)
(***************************************************************************)
CapturedHeaders == {"strict-transport-security", "content-security-policy",
                    "x-frame-options", "x-content-type-options"}

Names(tech) == {t.name : t \in tech}

\* The page baseline rules look at; a rule without one is compliant.
Answered(in) == in["http"] # NoData /\ in["http"].status > 0

CaptureBaseline(in) ==
    IF Answered(in)
    THEN [id |-> "captured", type |-> "captured",
          headers |-> CapturedHeaders \cap DOMAIN in["http"].headers,
          tech |-> Names(in["http"].tech),
          https |-> in["http"].scheme = "https"]
    ELSE [id |-> "captured", type |-> "captured", headers |-> {}, tech |-> {}, https |-> FALSE]

EvaluateBaseline(r, in) ==
    LET h == in["http"]
    IN  \/ /\ r.type = "http_header" /\ Answered(in)
           /\ r.present # (r.header \in DOMAIN h.headers)
        \/ /\ r.type = "http_redirect" /\ Answered(in)
           /\ r.toHttps /\ h.scheme = "http" /\ SuccessOrRedirect(h)
        \/ /\ r.type = "tech_allowlist" /\ h # NoData
           /\ ~Names(h.tech) \subseteq r.allowed
        \/ /\ r.type = "port_set" /\ in["tcp_port"] # NoData
           /\ \E p \in DOMAIN in["tcp_port"].ports \ r.allowed :
                 in["tcp_port"].ports[p] = "open"
        \/ /\ r.type = "captured" /\ Answered(in)
           /\ \/ ~r.headers \subseteq DOMAIN h.headers
              \/ ~Names(h.tech) \subseteq r.tech
              \/ r.https /\ h.scheme = "http"
=============================================================================
