----------------------------- MODULE MCDiscover -----------------------------
(***************************************************************************)
(* Scenarios of Discover for TLC: each gives the order, what its sources   *)
(* answer and how often the environment may act.                           *)
(***************************************************************************)
EXTENDS Discover, TLC

Asset(type, value) == [type |-> type, value |-> value]
Host(type, value)  == [asset |-> Asset(type, value), ends |-> {}, wildcard |-> FALSE]

Nothing == [faults |-> 0, crashes |-> 0, windows |-> 0, expiries |-> 0,
            cancels |-> 0, revokes |-> 0]

World == [name |-> "", allowed |-> TRUE, risk |-> "R0", seeds |-> {"x"}, scope |-> {"x", "y"},
          sources |-> {"ct"}, broken |-> {}, maxTasks |-> 1, workers |-> {"w1"}, budget |-> TRUE,
          finds |-> <<>>, left |-> Nothing]

XY == <<Host("domain", "x"), Host("subdomain", "y")>>

(* the seed and a subdomain are found and expanded until max_tasks; one    *)
(* call fails somewhere                                                    *)
Recursion == [World EXCEPT !.name = "Recursion", !.maxTasks = 3,
  !.finds = (<<"x", "ct">> :> XY) @@ (<<"y", "ct">> :> <<Host("domain", "y")>>),
  !.left = [Nothing EXCEPT !.faults = 1]]

(* two sources, one without credentials; a name outside the scope, a       *)
(* wildcard and an edge to an address outside the scope                    *)
Sources == [World EXCEPT !.name = "Sources", !.sources = {"ct", "dns"}, !.broken = {"dns"},
  !.budget = FALSE, !.maxTasks = 4,
  !.finds = (<<"x", "ct">> :> <<Host("subdomain", "z"),
                               [Host("domain", "x") EXCEPT !.wildcard = TRUE],
                               [Host("subdomain", "y") EXCEPT !.ends = {Asset("ip", "a"), Asset("ip", "z")}]>>),
  !.scope = {"x", "y", "a"}]

(* the order is cancelled and revoked while it is submitted and runs *)
Stopped == [World EXCEPT !.name = "Stopped",
  !.finds = (<<"x", "ct">> :> <<Host("domain", "x")>>),
  !.left = [Nothing EXCEPT !.cancels = 1, !.revokes = 1, !.faults = 1]]

(* a process stops, and what is published again may be stored twice *)
Crashing == [World EXCEPT !.name = "Crashing", !.maxTasks = 2,
  !.finds = (<<"x", "ct">> :> <<Host("domain", "x")>>),
  !.left = [Nothing EXCEPT !.crashes = 1, !.windows = 1]]

(* a task is delivered to a second worker while the first one runs it *)
Overrun == [World EXCEPT !.name = "Overrun", !.workers = {"w1", "w2"},
  !.finds = (<<"x", "ct">> :> <<Host("domain", "x")>>),
  !.left = [Nothing EXCEPT !.windows = 1, !.expiries = 1]]

(* the data platform is away until its retries are over *)
PlatformAway == [World EXCEPT !.name = "PlatformAway",
  !.finds = (<<"x", "ct">> :> <<Host("domain", "x")>>),
  !.left = [Nothing EXCEPT !.faults = 3]]

(* orders that run nothing: denied, out of scope, or of a class that needs *)
(* tokens                                                                  *)
Denied  == [World EXCEPT !.name = "Denied", !.allowed = FALSE]
Outside == [World EXCEPT !.name = "Outside", !.scope = {"y"}]
Classed == [World EXCEPT !.name = "Classed", !.risk = "R1"]

MCScenario == {Recursion, Sources, Stopped, Crashing, Overrun, PlatformAway, Denied, Outside, Classed}
=============================================================================
