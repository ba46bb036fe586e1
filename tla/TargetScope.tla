----------------------------- MODULE TargetScope -----------------------------
(***************************************************************************)
(* May this target be touched?  Three components answer the same question  *)
(* about the same RoE scope, each with code of its own: platform-core when *)
(* a plan is submitted (pkg/scope), gatekeeper when a task is authorised   *)
(* (scopecanon), and the agent before each request (the SDK's scope).      *)
(*                                                                         *)
(* Scope entries and targets are records: "host" names one host, "below"   *)
(* is the wildcard *.name, "ip" an address, "net" the addresses of a CIDR  *)
(* block.  A host is the sequence of its labels, an address a number.  A   *)
(* target also says how it was written: as a URL, with a port, with a      *)
(* path.  Entries are canonical already; user names in front of a host are *)
(* left out.                                                               *)
(***************************************************************************)
EXTENDS Naturals, Sequences

\* A suffix of labels: the host lies strictly below the name.
Below(host, name) ==
    /\ Len(host) > Len(name)
    /\ SubSeq(host, Len(host) - Len(name) + 1, Len(host)) = name

Equal(a, b) == a.form = b.form /\ a.id = b.id
InNet(e, t) == e.form = "net" /\ t.form = "ip" /\ t.id \in e.id
HostBelow(e, t) == t.form = "host" /\ Below(t.id, e.id)

\* Names of capabilities are sequences too; a pattern with any is "name.*".
Under(prefix, name) == Len(name) > Len(prefix) /\ SubSeq(name, 1, Len(prefix)) = prefix
MatchCapabilityPattern(p, name) == IF p.any THEN Under(p.id, name) ELSE p.id = name

-----------------------------------------------------------------------------
(* platform-core: pkg/scope.                                                *)

\* Canonicalize cuts everything from the first slash on, the length of a CIDR
\* block with it: what is left of the block is its first address.
Canonicalize(t) ==
    IF t.form = "net"
    THEN [form |-> "ip", id |-> CHOOSE a \in t.id : \A b \in t.id : a <= b]
    ELSE [form |-> t.form, id |-> t.id]

hostMatches(e, t) == IF e.form = "below" THEN HostBelow(e, t) ELSE Equal(e, t)

\* An excluded name excludes what lies below it, with or without the wildcard.
hostOrSubMatches(e, t) ==
    /\ e.form \in {"host", "below"} /\ t.form = "host"
    /\ t.id = e.id \/ Below(t.id, e.id)

Check(s, target) ==
    LET t == Canonicalize(target)
    IN  IF t.form = "blank" THEN "out"
        ELSE IF \E e \in s.excludes : InNet(e, t) \/ Equal(e, t) \/ hostOrSubMatches(e, t)
        THEN "excluded"
        ELSE IF \/ \E e \in s.domains : hostMatches(e, t)
                \/ \E e \in s.cidrs : InNet(e, t)
        THEN "in" ELSE "out"

CheckAll(s, targets) == \A t \in targets : Check(s, t) = "in"

-----------------------------------------------------------------------------
(* gatekeeper: scopecanon, on the targets roe-service resolved.             *)

\* A path is cut from a URL, or with the port in front of it, and nowhere else.
Canonical(t) == t.form # "blank" /\ (t.path => t.url \/ t.port)

matchCanonical(e, t) ==
    CASE e.form = "net" -> InNet(e, t)
      [] e.form = "below" -> HostBelow(e, t) \/ (t.form = "host" /\ t.id = e.id)
      [] OTHER -> Equal(e, t)

Evaluate(includes, excludes, t) ==
    IF ~Canonical(t) THEN "out"
    ELSE IF \E e \in excludes : matchCanonical(e, t) THEN "excluded"
    ELSE IF \E e \in includes : matchCanonical(e, t) THEN "in" ELSE "out"

\* The stored rows of a version, split in two.
EffectiveTargets(rows) ==
    [includes |-> {r.target : r \in {r \in rows : ~r.excluded}},
     excludes |-> {r.target : r \in {r \in rows : r.excluded}}]

-----------------------------------------------------------------------------
(* The SDK: scope.Canonicalize and scope.Evaluate.                          *)

\* A slash outside a URL is an illegal character.
AgentCanonicalizes(t) == t.form # "blank" /\ (t.path => t.url)

\* A block is in a block that contains it.
AgentMatches(e, t) ==
    CASE e.form = "below" -> HostBelow(e, t)
      [] e.form = "net" -> InNet(e, t) \/ (t.form = "net" /\ t.id \subseteq e.id)
      [] OTHER -> Equal(e, t)

AgentEvaluates(s, t) ==
    IF ~AgentCanonicalizes(t) THEN "out"
    ELSE IF \E e \in s.excludes : AgentMatches(e, t) THEN "excluded"
    ELSE IF \E e \in s.domains \cup s.cidrs : AgentMatches(e, t) THEN "in" ELSE "out"
=============================================================================
