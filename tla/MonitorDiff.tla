---------------------------- MODULE MonitorDiff ----------------------------
(***************************************************************************)
(* The typed diff of the monitor (services/monitor/internal/diff): what    *)
(* changes between two normalized snapshots of one probe type, and which   *)
(* of them have to be seen twice before they are reported.                 *)
(*                                                                         *)
(* A document is a record of the fields the diff reads; wording, evidence  *)
(* and follow-ups are left out.  A change keeps what the pipeline and the  *)
(* alert mapping tell apart: its type, the key its fingerprint is made of, *)
(* its severity rank, and whether it is silent.                            *)
(***************************************************************************)
EXTENDS Naturals, Sequences, SequencesExt, FiniteSetsExt

SevInfo == 0
SevLow == 1
SevMedium == 2
SevHigh == 3
SevCritical == 4

Change(type, key, sev) ==
    [type |-> type, key |-> key, sev |-> sev, silent |-> FALSE]

\* A change, or none, as a sequence: the diff appends in source order.
When(cond, change) == IF cond THEN <<change>> ELSE <<>>

\* The items of a list of lists, in order: the n-th of them is at the place
\* that n places are up to.
Places(lists) == UNION {{i} \X DOMAIN lists[i] : i \in DOMAIN lists}
UpTo(p, P) == {q \in P : q[1] < p[1] \/ (q[1] = p[1] /\ q[2] <= p[2])}
NthPlace(P, n) == CHOOSE p \in P : Cardinality(UpTo(p, P)) = n
Flatten(lists) ==
    LET P == Places(lists)
    IN  [n \in 1 .. Cardinality(P) |->
            lists[NthPlace(P, n)[1]][NthPlace(P, n)[2]]]

(***************************************************************************)
(* DNS: one change per record type whose set differs, NS always high, then *)
(* the dangling CNAME, which is reported on every changed observation.     *)
(***************************************************************************)
RecordTypes == <<"A", "AAAA", "CNAME", "MX", "NS", "TXT">>

RecordChange(rt, before, after) ==
    CASE rt = "NS" -> Change("dns.ns_changed", rt, SevHigh)
      [] rt # "NS" /\ before = {} -> Change("dns.new_records", rt, SevInfo)
      [] OTHER -> Change("dns.records_changed", rt,
                         IF after = {} THEN SevMedium ELSE SevLow)

Records(doc, rt) == IF rt \in DOMAIN doc.records THEN doc.records[rt] ELSE {}

DNS(prev, curr) ==
    LET Differs(rt) == Records(prev, rt) # Records(curr, rt)
        OfType(rt) == RecordChange(rt, Records(prev, rt), Records(curr, rt))
    IN  Flatten([i \in DOMAIN RecordTypes |->
                    When(Differs(RecordTypes[i]), OfType(RecordTypes[i]))])
        \o When(curr.dangling # "no",
                Change("dns.dangling_cname", "cname",
                       IF curr.dangling = "takeable" THEN SevCritical
                                                     ELSE SevMedium))

(***************************************************************************)
(* TLS: the leaf was replaced, it crossed an expiry boundary, a weaker     *)
(* version was negotiated, the host no longer matches.                     *)
(***************************************************************************)
TLSVersionRank == [v \in {"1.3", "1.2", "1.1", "1.0", ""} |->
    CASE v = "1.3" -> 4 [] v = "1.2" -> 3 [] v = "1.1" -> 2
      [] v = "1.0" -> 1 [] OTHER -> 0]

LeafSeverity(p, c) ==
    CASE (c.selfSigned /\ ~p.selfSigned) \/ c.issuer # p.issuer -> SevHigh
      [] c.notBefore > p.notAfter -> SevLow
      [] OTHER -> SevInfo

TLS(p, c) ==
    LET weaker == TLSVersionRank[c.version] < TLSVersionRank[p.version]
        expired == c.days <= 0 /\ p.days > 0
        expiring == ~expired /\ c.days <= 14 /\ p.days > 14
    IN  When(p.leaf # c.leaf,
             Change("tls.cert_changed", "leaf", LeafSeverity(p, c)))
        \o When(expired, Change("tls.cert_expired", "expired", SevHigh))
        \o When(expiring, Change("tls.cert_expiring", "expiring",
                                 IF c.days <= 7 THEN SevHigh ELSE SevMedium))
        \o When(weaker, Change("tls.protocol_downgrade", "version",
                               IF TLSVersionRank[c.version] <= 2
                               THEN SevHigh ELSE SevMedium))
        \o When(p.hostMatch /\ ~c.hostMatch,
                Change("tls.hostname_mismatch", "hostname", SevHigh))

(***************************************************************************)
(* HTTP: status class, title, body (a hamming distance of the simhashes    *)
(* and a size change in percent), headers, technologies, redirect target.  *)
(***************************************************************************)
StatusClass(status) ==
    CASE status \in 200 .. 299 -> "2xx"
      [] status \in 300 .. 399 -> "3xx"
      [] status \in 400 .. 499 -> "4xx"
      [] status >= 500 -> "5xx"
      [] status \in 1 .. 199 -> "1xx"
      [] OTHER -> "none"

SecurityHeaders == {"server", "strict-transport-security",
    "content-security-policy", "x-frame-options", "x-content-type-options",
    "referrer-policy", "permissions-policy", "cross-origin-opener-policy"}

Gap(a, b) == IF a < b THEN b - a ELSE a - b

\* The simhash is a number here, and the distance of two is their gap.
ContentChange(p, c, critical) ==
    LET dist == Gap(p.sim, c.sim)
        swollen == p.size > 0 /\ 100 * Gap(p.size, c.size) > 40 * p.size
        loud == dist > 12 \/ swollen
        sev == IF dist > 24 /\ critical THEN SevHigh ELSE SevMedium
    IN  [Change("http.content_changed", "content",
                IF loud THEN sev ELSE SevInfo) EXCEPT !.silent = ~loud]

HeadersDiffer(p, c) ==
    \/ DOMAIN p.headers # DOMAIN c.headers
    \/ \E k \in DOMAIN p.headers \cap SecurityHeaders :
          p.headers[k] # c.headers[k]

HTTP(p, c, critical) ==
    LET pc == StatusClass(p.status)
        cc == StatusClass(c.status)
        sev == CASE c.parked /\ ~p.parked -> SevMedium
                 [] cc = "5xx" /\ pc = "2xx" -> SevHigh
                 [] cc = "4xx" /\ pc = "2xx" -> SevMedium
                 [] OTHER -> SevLow
    IN  When(pc # cc \/ p.parked # c.parked,
             Change("http.status_changed", "status",
                    IF c.parked /\ ~p.parked THEN SevMedium ELSE sev))
        \o When(p.title # c.title /\ pc = "2xx" /\ cc = "2xx",
                Change("http.title_changed", "title", SevLow))
        \o When(p.sim # c.sim, ContentChange(p, c, critical))
        \o When(HeadersDiffer(p, c),
                Change("http.headers_changed", "headers", SevLow))
        \o When(c.tech \ p.tech # {},
                Change("http.tech_added", c.tech \ p.tech, SevLow))
        \o When(p.tech \ c.tech # {},
                Change("http.tech_removed", p.tech \ c.tech, SevInfo))
        \o When(p.redirect # c.redirect,
                Change("http.redirect_target_changed", "redirect", SevMedium))

(***************************************************************************)
(* TCP: a port both documents list opened or closed.                       *)
(***************************************************************************)
AdminPorts == {22, 3389, 5900}
DBPorts == {3306, 5432, 27017, 6379}

PortChange(port, state) ==
    IF state = "open"
    THEN Change("port.opened", port,
                IF port \in AdminPorts \cup DBPorts THEN SevHigh ELSE SevMedium)
    ELSE Change("port.closed", port, SevLow)

TCP(prev, curr) ==
    LET Flipped(port) == /\ port \in DOMAIN prev.ports
                         /\ prev.ports[port] # curr.ports[port]
                         /\ "open" \in {prev.ports[port], curr.ports[port]}
        flipped == SetToSeq({p \in DOMAIN curr.ports : Flipped(p)})
    IN  [i \in DOMAIN flipped |->
            PortChange(flipped[i], curr.ports[flipped[i]])]

\* The diff of two documents of one probe type; the second one is "ok".
Snapshots(prev, curr, critical) ==
    CASE curr.probe = "dns" -> DNS(prev, curr)
      [] curr.probe = "tls" -> TLS(prev, curr)
      [] curr.probe = "http" -> HTTP(prev, curr, critical)
      [] curr.probe = "tcp_port" -> TCP(prev, curr)

\* The change types reported only when two probes in a row agree.
NeedsConfirm == {"http.status_changed", "http.redirect_target_changed",
    "tls.protocol_downgrade", "tls.hostname_mismatch",
    "port.opened", "port.closed"}
=============================================================================
