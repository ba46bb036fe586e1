--------------------------- MODULE MCDataPlatform ---------------------------
(***************************************************************************)
(* Small instances of DataPlatform.  A scenario is a set of messages and   *)
(* requests and what may happen to them; a run explores one scenario after *)
(* the other.                                                              *)
(***************************************************************************)
EXTENDS DataPlatform, TLC

Host(status) == AssetIn("subdomain", "host", status)
FindingIn(fp, module, state) ==
    [fp |-> fp, asset |-> "host", module |-> module, state |-> state,
     hold |-> FALSE, evidence |-> "none"]

Detected(event, fp, status) ==
    [via |-> "detect", by |-> {"detect"}, event |-> event, asset |-> "host",
     kind |-> "subdomain", fp |-> fp, status |-> status, evidence |-> "none"]
Candidate(event, match) ==
    [via |-> "monitor", by |-> {"monitor"}, event |-> event, asset |-> "host",
     kind |-> "subdomain", match |-> match]
Changed(event, tenant, change) ==
    [via |-> "discover", by |-> {"discover"}, event |-> event, tenant |-> tenant,
     asset |-> "host", kind |-> "subdomain", change |-> change]
Request(key, by, hosts, reports) ==
    [via |-> "rest", by |-> by, key |-> key, tenant |-> "t1", claimed |-> "none",
     risk |-> "none", token |-> {}, assets |-> hosts, findings |-> reports]

HostRow == <<"t1", "host">> :> [type |-> "subdomain", status |-> "active"]
Closed(fp) ==
    [tenant |-> "t1", fp |-> fp, state |-> "accepted_risk", occ |-> 1,
     held |-> FALSE, evidence |-> "none"]
ClosedHist == <<"new", "triaged", "validating", "accepted_risk">>

Calm == [sent |-> {}, tenants |-> {"t1"}, assets |-> Empty, findings |-> <<>>,
         hist |-> <<>>, blobs |-> {}, tries |-> 2, moves |-> {}, maxMoves |-> 2,
         retention |-> FALSE, faults |-> {}, maxFaults |-> 0]

\* First reports of one fingerprint about an asset nobody has seen, over the
\* bus and over REST, with statements that fail and crashes.
FirstReports == [Calm EXCEPT
    !.sent = {Detected("e1", "fp", "CONFIRMED"),
              Request("k2", {"rest1", "rest2"}, <<Host("active")>>,
                      <<FindingIn("fp", "phish-catcher", "verified_closed")>>)},
    !.tries = 3, !.faults = {"statement", "crash"}, !.maxFaults = 1]

\* Reports about known findings next to operators who move them.
Operated == [Calm EXCEPT
    !.assets = HostRow,
    !.sent = {Detected("e1", "fp", "REGRESSED"),
              Request("k2", {"rest1"}, <<Host("candidate")>>,
                      <<FindingIn("fp", "phish-catcher", "accepted_risk"),
                        FindingIn("fp", "phish-catcher", "confirmed_open")>>)},
    !.moves = {"remediation_claimed", "reopened", "confirmed_open",
               "false_positive"}]

\* Rows locked in opposite orders, and an asset that expires.
Crossed == [Calm EXCEPT
    !.assets = HostRow,
    !.findings = <<Closed("a"), Closed("b")>>,
    !.hist = <<ClosedHist, ClosedHist>>,
    !.sent = {Request("k1", {"rest1"}, <<>>,
                      <<FindingIn("a", "phish-catcher", "new"),
                        FindingIn("b", "phish-catcher", "none")>>),
              Request("k2", {"rest2"}, <<>>,
                      <<FindingIn("b", "phish-catcher", "new"),
                        FindingIn("a", "phish-catcher", "new")>>),
              Changed("e3", "t1", "expired")}]

\* A rejected key, the corrected batch under the same key, and another
\* tenant's batch under it.
Keys == [Calm EXCEPT
    !.sent = {[Request("k1", {"rest1"}, <<Host("active")>>, <<>>)
                   EXCEPT !.claimed = "t2"],
              Request("k1", {"rest2"}, <<Host("active")>>, <<>>),
              [Request("k1", {"rest1"}, <<Host("active")>>, <<>>)
                   EXCEPT !.tenant = "t2"]},
    !.faults = {"statement"}, !.maxFaults = 1]

\* A token that cannot be verified for a while, one that is missing, and a
\* candidate outside the scope.
Tokens == [Calm EXCEPT
    !.sent = {[Request("k1", {"rest1", "rest2"}, <<Host("candidate")>>,
                       <<FindingIn("fp", "detect", "new")>>)
                   EXCEPT !.token = {"host"}],
              Request("k2", {"rest2"}, <<>>,
                      <<FindingIn("fp", "ddos-sim", "new")>>),
              Candidate("e3", "out")},
    !.faults = {"statement"}, !.maxFaults = 1]

\* Two tenants: events that name nobody are dropped, others find the owner or
\* carry him; two discover events without an id share their key.
Strays == [Calm EXCEPT
    !.tenants = {"t1", "t2"},
    !.sent = {Detected("e1", "fp", "OPEN"), Candidate("e2", "in"),
              Candidate("e3", "excluded"),
              Changed("none", "t1", "new"), Changed("none", "t1", "attribute_changed")}]

\* The sweep over a terminal finding, reported again while it is purged.
Retained == [Calm EXCEPT
    !.assets = HostRow,
    !.findings = <<[Closed("old") EXCEPT !.evidence = "blob1"]>>,
    !.hist = <<ClosedHist>>, !.blobs = {"blob1"},
    !.sent = {Request("k1", {"rest1"}, <<Host("active")>>,
                      <<[FindingIn("old", "phish-catcher", "confirmed_open") EXCEPT
                             !.evidence = "blob2", !.hold = TRUE]>>)},
    !.retention = TRUE,
    !.faults = {"statement", "crash", "object"}, !.maxFaults = 2]

Scenarios == {FirstReports, Operated, Crossed, Keys, Tokens, Strays, Retained}
=============================================================================
