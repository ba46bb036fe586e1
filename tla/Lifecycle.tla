------------------------------ MODULE Lifecycle ------------------------------
(***************************************************************************)
(* The lifecycle of a finding (services/data-platform/internal/lifecycle): *)
(* the states a finding can be in, the edges between them, and the hops by *)
(* which an ingest reaches the state it proposes.                          *)
(***************************************************************************)
EXTENDS Naturals, Sequences

edges == [new                 |-> {"triaged"},
          triaged             |-> {"validating", "false_positive"},
          validating          |-> {"confirmed_open", "accepted_risk"},
          confirmed_open      |-> {"remediation_claimed"},
          remediation_claimed |-> {"verified_closed", "reopened"},
          reopened            |-> {"confirmed_open"},
          verified_closed     |-> {},
          false_positive      |-> {},
          accepted_risk       |-> {}]
All == DOMAIN edges

Legal(from, to) == to \in edges[from]
Terminal(s) == s \in {"verified_closed", "false_positive", "accepted_risk"}

\* A walk along the edges; a history starts in "new" and is one.
Chain(p) == \A i \in 1 .. Len(p) - 1 : Legal(p[i], p[i + 1])

\* The walks of up to five hops; no two states are further apart.
Walks == UNION {{p \in [1 .. n -> All] : Chain(p)} : n \in 1 .. 6}
Between(from, to) == {p \in Walks : p[1] = from /\ p[Len(p)] = to}

Reachable(from, to) == Between(from, to) # {}

\* A proposed state that is written as it comes.
Path_Direct(from, to) == IF from = to THEN <<>> ELSE <<to>>

\* Path: the hops of the shortest walk, without its first state.
Path(from, to) ==
    Tail(CHOOSE p \in Between(from, to) :
             \A q \in Between(from, to) : Len(p) <= Len(q))

\* consumers.go: what a detect report proposes.
mapFindingStatus(s) ==
    CASE s = "CONFIRMED" -> "confirmed_open"
      [] s = "REMEDIATING" -> "remediation_claimed"
      [] s = "RESOLVED" -> "verified_closed"
      [] s = "REGRESSED" -> "reopened"
      [] s = "SUPPRESSED" -> "accepted_risk"
      [] OTHER -> "new"
=============================================================================
