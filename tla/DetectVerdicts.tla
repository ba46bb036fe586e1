---------------------------- MODULE DetectVerdicts ----------------------------
(***************************************************************************)
(* How the detect service judges a candidate: the validators of the AVE,   *)
(* the proof-of-concept packs of the EVS, the risk score and the alert     *)
(* gate.  Each verdict is a function of the replies to the requests that   *)
(* the code sends, in their order; a reply is a record whose field ok says *)
(* that the exchange succeeded, and reads no other field when it did not.  *)
(***************************************************************************)
EXTENDS Integers, Sequences, FiniteSets, SequencesExt

CONFIRMED == "CONFIRMED"
NOT_REPRODUCIBLE == "NOT_REPRODUCIBLE"
INCONCLUSIVE == "INCONCLUSIVE"
NOT_VALIDATABLE == "NOT_VALIDATABLE"

Answers(replies) == {i \in DOMAIN replies : replies[i].ok}

-----------------------------------------------------------------------------
(* The validators. *)

\* Two fetches; each answers with the set of missing headers.
HeadersVerdict(first, second) ==
    CASE ~(first.ok /\ second.ok) -> INCONCLUSIVE
      [] first.missing = {} -> NOT_REPRODUCIBLE
      [] first.missing # second.missing -> INCONCLUSIVE
      [] OTHER -> CONFIRMED

\* The root page and an OPTIONS request.  A curated check looks for the
\* product in the banner, any other takes the scanner's own evidence.
BannerPatterns == {"cve-2024-3400", "cve-2014-0160", "cve-2017-0143",
                   "cve-2023-0669", "cve-2021-41773"}
VersionVerdict(check, root, options, evidence) ==
    LET banner == IF check \in BannerPatterns THEN root.product ELSE evidence
        behaviour == options.ok /\ options.features
    IN CASE ~root.ok -> INCONCLUSIVE
         [] banner /\ behaviour -> CONFIRMED
         [] banner \/ behaviour -> INCONCLUSIVE
         [] OTHER -> NOT_REPRODUCIBLE

\* Four injections of a canary URL, then the interactions of its token are
\* polled until the window ends or the task is cancelled.
SSRFVerdict(oob, canary, injections, callback, cancelled) ==
    CASE ~oob \/ ~canary -> NOT_VALIDATABLE
      [] Answers(injections) = {} -> INCONCLUSIVE
      [] callback -> CONFIRMED
      [] cancelled -> INCONCLUSIVE
      [] OTHER -> NOT_REPRODUCIBLE

\* Error leg, boolean leg, time leg.  Replies: sigs, the SQL error signatures
\* in the body; like, its similarity to the baseline in percent; status;
\* slow, twice the injected sleep above the baseline.  healed is the reply to
\* the doubled quote, one per signature.
ErrorLeg(base, quote, healed) ==
    /\ quote.ok
    /\ \E s \in quote.sigs \ base.sigs : healed.ok /\ s \notin healed.sigs
BooleanLeg(base, true, false) ==
    /\ true.ok /\ false.ok
    /\ true.like > 98 /\ true.status = base.status
    /\ false.like < 90 \/ false.status # base.status
TimeVerdict_TwoOfThree(trials) ==
    LET delayed == {i \in Answers(trials) : trials[i].slow}
    IN CASE Cardinality(delayed) >= 2 -> CONFIRMED
         [] OTHER -> NOT_REPRODUCIBLE
TimeVerdict(trials) ==
    LET delayed == {i \in Answers(trials) : trials[i].slow}
    IN CASE Answers(trials) # DOMAIN trials \/ delayed = {} -> NOT_REPRODUCIBLE
         [] delayed = DOMAIN trials -> CONFIRMED
         [] OTHER -> INCONCLUSIVE
SqliVerdict(base, quote, healed, true, false, trials) ==
    CASE ~base.ok -> INCONCLUSIVE
      [] ErrorLeg(base, quote, healed) -> CONFIRMED
      [] BooleanLeg(base, true, false) -> CONFIRMED
      [] OTHER -> TimeVerdict(trials)

\* The robots file by its own route, then up to six probes; a probe is counted
\* before it is sent, so a target that never answers is NOT_REPRODUCIBLE.
\* Odd probes ask for robots, even ones for the hostname; only the first has
\* a reference.  signed: the content looks like the file asked for; shown: the
\* scanner's own evidence does already.
TraversalHit(i, probe, reference, shown) ==
    \/ probe.signed /\ ~shown
    \/ i % 2 = 1 /\ reference.ok /\ probe.body = reference.body
TraversalVerdict(reference, probes, shown) ==
    CASE \E i \in Answers(probes) : TraversalHit(i, probes[i], reference, shown)
           -> CONFIRMED
      [] probes = <<>> -> INCONCLUSIVE
      [] OTHER -> NOT_REPRODUCIBLE

\* ProbeVersions: the weakest version of those it tries that is accepted, a
\* weak cipher, and when only TLS 1.3 is left, whether anything is there.
TlsVerdict(accepted, weakCipher, up) ==
    CASE accepted = {} /\ ~up -> INCONCLUSIVE
      [] accepted \cap {10, 11} # {} -> CONFIRMED
      [] weakCipher -> CONFIRMED
      [] OTHER -> NOT_REPRODUCIBLE

\* Four probes; how each page reflects the canary.
XssVerdict(probes) ==
    LET reflected == {probes[i].reflects : i \in Answers(probes)}
    IN CASE "executable" \in reflected -> CONFIRMED
         [] reflected = {} -> INCONCLUSIVE
         [] "ambiguous" \in reflected -> INCONCLUSIVE
         [] OTHER -> NOT_REPRODUCIBLE

\* NewEngine: the classes that have a validator.
Validatable == {"security_header", "version_cve", "ssrf", "blind_xxe",
                "blind_rce", "sqli", "path_traversal", "tls_misconfig",
                "reflected_xss"}

-----------------------------------------------------------------------------
(* Proof-of-concept packs. *)

\* The built-in packs, all signed and non_destructive: LoadPack and
\* CheckSafety let them run whatever safe_mode says.
Packs == <<[id |-> "ssrf-canary", oob |-> TRUE,
            classes |-> {"ssrf", "blind_xxe", "blind_rce"}],
           [id |-> "rce-echo", oob |-> FALSE,
            classes |-> {"rce", "version_cve"}],
           [id |-> "auth-bypass-default-creds", oob |-> FALSE,
            classes |-> {"default_creds"}]>>
CheckSafety(pack) == TRUE
PackFor(class) == {i \in DOMAIN Packs : class \in Packs[i].classes}
ForClass(class) == Packs[Min(PackFor(class))]

ShouldVerify(severity, verdict, verify) ==
    \/ verify
    \/ /\ severity \in {"high", "critical"}
       /\ verdict \in {INCONCLUSIVE, NOT_VALIDATABLE}

\* RunProgram: a step that fails ends the program unconfirmed and without an
\* error; the conditions are on the replies of the steps.
RunProgram(pack, steps, callback) ==
    CASE Answers(steps) # DOMAIN steps -> FALSE
      [] pack.oob -> callback /\ steps[1].status = 200
      [] OTHER -> steps[1].echo

\* Verify: the verdict of the sandbox, or "keep" when there is nothing to say
\* (no pack, pool exhausted, runner error); it replaces the validator's.
EvsVerdict(class, free, oob, runs, steps, callback) ==
    CASE PackFor(class) = {} \/ ~free -> "keep"
      [] ForClass(class).oob /\ ~oob -> NOT_VALIDATABLE
      [] ~runs -> "keep"
      [] RunProgram(ForClass(class), steps, callback) -> CONFIRMED
      [] OTHER -> NOT_REPRODUCIBLE

-----------------------------------------------------------------------------
(* Severity, risk and the alert gate.  Scores are computed on integers, the *)
(* factors scaled by 10 or 100.                                             *)

SeverityRank == [critical |-> 5, high |-> 4, medium |-> 3, low |-> 2,
                 informational |-> 1]
CapSeverity(severity, verdict, class) ==
    CASE class = "security_header" -> "informational"
      [] verdict = NOT_VALIDATABLE /\ SeverityRank[severity] > SeverityRank["medium"]
           -> "medium"
      [] OTHER -> severity
CvssForSeverity == [critical |-> 95, high |-> 75, medium |-> 50, low |-> 20,
                    informational |-> 0]

\* intel is [kev, epss], epss in percent; place is [exposure, criticality].
ScoreFactors(severity, intel, place, verified, verdict) ==
    LET exploit == CASE intel.kev -> 150
                     [] intel.epss >= 50 -> 130
                     [] intel.epss >= 10 -> 115
                     [] OTHER -> 100
        exposure == CASE place.exposure = "internet" -> 120
                      [] place.exposure = "isolated" -> 80
                      [] OTHER -> 100
        asset == CASE place.criticality = "critical" -> 130
                   [] place.criticality = "high" -> 115
                   [] place.criticality = "low" -> 85
                   [] OTHER -> 100
        trust == CASE verdict = CONFIRMED -> 10
                   [] verdict = NOT_VALIDATABLE -> 8
                   [] verdict = INCONCLUSIVE -> 6
                   [] OTHER -> 0
        weighted == Min({10000, Min({10000, CvssForSeverity[severity] * exploit})
                                + (IF verified THEN 1000 ELSE 0)})
        product == ((weighted * exposure) \div 10) * ((trust * asset) \div 10)
    IN  Min({100, (product + 50000) \div 100000})

TierFor(score) == CASE score >= 90 -> 1
                    [] score >= 70 -> 2
                    [] score >= 40 -> 3
                    [] score >= 15 -> 4
                    [] OTHER -> 5
TierAtOrAbove(tier, threshold) == tier <= threshold

\* Only confirmed findings at or above the threshold tier.
ShouldAlert(verdict, score, threshold) ==
    verdict = CONFIRMED /\ TierAtOrAbove(TierFor(score), threshold)

\* StateString: the lifecycle state proposed for a verdict.
StateString(verdict) ==
    CASE verdict = CONFIRMED -> "confirmed_open"
      [] verdict = NOT_REPRODUCIBLE -> "false_positive"
      [] verdict = NOT_VALIDATABLE -> "triaged"
      [] OTHER -> "validating"

===============================================================================
