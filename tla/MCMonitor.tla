----------------------------- MODULE MCMonitor -----------------------------
(***************************************************************************)
(* Small instances of Monitor.  A scenario bounds one corner of the        *)
(* service; a run explores the scenarios of its configuration one after    *)
(* the other.                                                              *)
(***************************************************************************)
EXTENDS Monitor, TLC

Resolves == [probe |-> "dns", outcome |-> "ok", records |-> ("A" :> {"a1"}),
             dangling |-> "no", spf |-> TRUE]
Dangles == [Resolves EXCEPT !.records = ("CNAME" :> {"gone"}),
                            !.dangling = "takeable"]
Vanished == [probe |-> "dns", outcome |-> "nxdomain"]

Page(status, title) ==
    [probe |-> "http", outcome |-> "ok", status |-> status, title |-> title,
     scheme |-> "https", sim |-> 0, size |-> 100,
     headers |-> ("strict-transport-security" :> "on"), tech |-> {},
     parked |-> FALSE, redirect |-> "none"]
Home == Page(200, {})
Broken == Page(500, {})
Listing == Page(200, {"listing"})
Bare == [Home EXCEPT !.headers = <<>>]
Timeout == [probe |-> "http", outcome |-> "timeout"]

Calm == [workers |-> {"w1", "w2"}, jobs |-> 2, tokens |-> 1,
         probes |-> <<>>, observation |-> {}, raw |-> {"none"},
         baseline |-> {}, cap |-> 9, days |-> 1, rescans |-> 0,
         faults |-> {}, maxFaults |-> 0, operator |-> {}, listed |-> TRUE, lively |-> FALSE,
         row |-> [state |-> "active", failing |-> "no", due |-> TRUE]]

\* Overlapping scans of a page that changes.
Overlap == [Calm EXCEPT
    !.probes = <<"http">>, !.observation = {Home, Broken},
    !.raw = {"none", "kept"}, !.rescans = 1]

\* Overlapping scans, a statement that fails, a crash, a slow worker.
Faulty == [Calm EXCEPT
    !.probes = <<"http">>, !.observation = {Home, Broken},
    !.faults = {"crash", "slow", "store", "budget"}, !.maxFaults = 2]

\* An asset that vanishes and comes back.
Vanishing == [Calm EXCEPT
    !.probes = <<"dns">>, !.observation = {Resolves, Vanished},
    !.workers = {"w1"}, !.jobs = 4, !.days = 2]

\* Tokens that come and go, and a scope that loses the asset.
Leaving == [Calm EXCEPT
    !.probes = <<"dns">>, !.observation = {Resolves, Vanished},
    !.row = [state |-> "paused", failing |-> "long", due |-> TRUE],
    !.jobs = 1, !.tokens = 2, !.days = 0,
    !.operator = {"narrow", "deny", "expire"}]

\* A name the feed reports, an emission cap of one, a suppression.
Capped == [Calm EXCEPT
    !.probes = <<"dns">>, !.observation = {Resolves, Dangles},
    !.cap = 1, !.days = 0, !.jobs = 1, !.rescans = 1, !.listed = FALSE,
    !.row.state = "absent",
    !.operator = {"mute", "feed"}]

\* One worker and a cap of one: the changes of one scan compete for the cap.
Metered == [Calm EXCEPT
    !.probes = <<"dns">>, !.observation = {Resolves, Dangles},
    !.workers = {"w1"}, !.cap = 1, !.days = 1, !.jobs = 0, !.rescans = 2]

\* A status that changes, persists or flaps.
Flapping == [Calm EXCEPT
    !.probes = <<"http">>, !.observation = {Home, Broken},
    !.workers = {"w1"}, !.days = 2, !.jobs = 3]

\* A header the baseline requires, gone and back.
Drifting == [Calm EXCEPT
    !.probes = <<"http">>, !.observation = {Home, Bare, Timeout},
    !.baseline = {[type |-> "http_header", id |-> "hsts", present |-> TRUE,
                   header |-> "strict-transport-security"]}]

\* A passive watch next to rescans, and a baseline that is captured anew.
Passive == [Calm EXCEPT
    !.probes = <<"http">>, !.observation = {Home, Bare},
    !.jobs = 0, !.rescans = 2, !.workers = {"w1"},
    !.operator = {"passive", "baseline"}]

\* A certificate that is replaced and expires, a port that opens and closes.
Cert(leaf, days) ==
    [probe |-> "tls", outcome |-> "ok", leaf |-> leaf, days |-> days,
     issuer |-> "ca", notBefore |-> 0, notAfter |-> 9, selfSigned |-> FALSE,
     version |-> IF days > 0 THEN "1.3" ELSE "1.0", hostMatch |-> days > 0,
     weakCipher |-> FALSE, wildcard |-> FALSE]
Ports(state) ==
    [probe |-> "tcp_port", outcome |-> "ok", ports |-> (22 :> state)]
Ageing == [Calm EXCEPT
    !.probes = <<"tls", "tcp_port">>, !.workers = {"w1"}, !.jobs = 3,
    !.observation = {Cert("old", 90), Cert("old", 0), Cert("new", 5),
                     Ports("open"), Ports("closed")}]

\* The worlds that also ask about liveness: nothing fails in them.
Converging == [Leaving EXCEPT !.lively = TRUE]
Draining == [Vanishing EXCEPT !.days = 1, !.jobs = 3, !.lively = TRUE]

Scenarios ==
    {Overlap, Faulty, Vanishing, Converging, Draining, Capped, Metered,
     Flapping, Drifting, Passive, Ageing}
=============================================================================
