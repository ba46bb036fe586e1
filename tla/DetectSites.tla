------------------------------ MODULE DetectSites ------------------------------
(***************************************************************************)
(* The targets of the detect service, as far as its validators and its     *)
(* sandbox see them: what a flawed target answers, what any other may      *)
(* answer, and the verdicts that the service can reach on either.          *)
(***************************************************************************)
EXTENDS DetectVerdicts

(* What a target answers.  A flawed target shows the flaw; any other shows  *)
(* it in no reply, but replies may be lost, may be slow (at most two of     *)
(* three) and one page may be an odd one.                                   *)

Lost(r) == [r EXCEPT !.ok = FALSE]
OrLost(R) == R \cup {Lost(r) : r \in R}

HeaderReplies(flawed) ==
    LET page(m) == [ok |-> TRUE, missing |-> m]
        usual == page(IF flawed THEN {"csp"} ELSE {})
    IN  {<<a, b>> : a, b \in OrLost({usual})}
        \cup {<<page({"hsts"}), usual>>, <<usual, page({"hsts"})>>}
VersionReplies(flawed) ==
    LET shows(r) == r[1].product /\ r[2].features
    IN  {r \in OrLost({[ok |-> TRUE, product |-> p] : p \in BOOLEAN})
               \X OrLost({[ok |-> TRUE, features |-> f] : f \in BOOLEAN}) : shows(r) = flawed}
SqlPages(flawed) ==
    LET page(sigs, like) == [ok |-> TRUE, sigs |-> sigs, like |-> like, status |-> 200]
    IN  {<<page({}, 100)>>} \X OrLost({page(IF flawed THEN {"sql"} ELSE {}, 50)})
        \X OrLost({page({}, 100)})
        \X OrLost({page({}, 100)}) \X OrLost({page({}, IF flawed THEN 20 ELSE 100)})
SqlTrials(flawed) ==
    {tr \in [1 .. 3 -> {[ok |-> TRUE, slow |-> TRUE], [ok |-> TRUE, slow |-> FALSE],
                        [ok |-> FALSE, slow |-> FALSE]}] :
        flawed \/ \E i \in 1 .. 3 : ~tr[i].slow}
\* Each probe of a sequence is answered or lost, all answers alike.
Probes(n, answer) == {[i \in 1 .. n |-> IF i \in S THEN answer ELSE Lost(answer)] :
                        S \in SUBSET (1 .. n)}

\* A sign of the flaw, which only a flawed target shows and not every time; an
\* injection that is answered; the robots file; a file that a probe fetches; the
\* reply to a proof of concept.
Signs(flawed) == {FALSE, flawed}
Answered == [ok |-> TRUE]
Robots == [ok |-> TRUE, body |-> "robots"]
Fetched(signed, body) == [ok |-> TRUE, signed |-> signed, body |-> body]
Proof(ok, sign) == <<[ok |-> ok, status |-> 200, echo |-> sign]>>

\* The verdicts that the validator of a class can reach; shown: the scanner's
\* own output shows the content already.
ReachableVerdicts(class, flawed, oob) ==
    CASE class = "security_header" ->
           {HeadersVerdict(r[1], r[2]) : r \in HeaderReplies(flawed)}
      [] class = "version_cve" ->
           {VersionVerdict("cve-2021-41773", r[1], r[2], TRUE) : r \in VersionReplies(flawed)}
      [] class \in {"ssrf", "blind_xxe", "blind_rce"} ->
           {SSRFVerdict(oob, canary, injections, callback, cancelled) :
              canary, cancelled \in BOOLEAN, injections \in Probes(4, Answered),
              callback \in Signs(flawed)}
      [] class = "sqli" ->
           {SqliVerdict(p[1][1], p[2], p[3], p[4], p[5], tr) :
              p \in SqlPages(flawed), tr \in SqlTrials(flawed)}
             \cup {INCONCLUSIVE}
      [] class = "path_traversal" ->
           {TraversalVerdict(reference, probes, shown) :
              reference \in OrLost({Robots}), shown \in BOOLEAN,
              probes \in Probes(6, Fetched(flawed, IF flawed THEN "robots" ELSE "other"))}
      [] class = "tls_misconfig" ->
           {TlsVerdict(IF up THEN {12, 13} \cup (IF flawed THEN {10} ELSE {}) ELSE {},
                       FALSE, up) : up \in BOOLEAN}
      [] class = "reflected_xss" ->
           {XssVerdict(probes) :
              probes \in UNION {Probes(4, [ok |-> TRUE, reflects |-> how]) :
                                  how \in IF flawed THEN {"executable"}
                                                    ELSE {"encoded", "ambiguous"}}}
\* Engine.Validate: a class without a validator is NOT_VALIDATABLE.
VerdictsTable ==
    [class \in Validatable |-> [flawed \in BOOLEAN |-> [oob \in BOOLEAN |->
        ReachableVerdicts(class, flawed, oob)]]]
Validate(class, flawed, oob) ==
    IF class \in Validatable THEN VerdictsTable[class][flawed][oob] ELSE {NOT_VALIDATABLE}

\* The sandbox: a free place or none, steps that fail, an echo or a callback.
EvsResults(class, flawed, oob) ==
    {EvsVerdict(class, free, oob, runs, Proof(ok, sign), sign) :
       free, runs, ok \in BOOLEAN, sign \in Signs(flawed)}
===============================================================================
