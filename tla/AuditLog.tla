------------------------------- MODULE AuditLog -------------------------------
(***************************************************************************)
(* What the audit trail promises: per partition a log that only grows, and *)
(* an event somebody was told is durable is in a log or still owed to one  *)
(* (kept on disk until it is).                                             *)
(***************************************************************************)
CONSTANT Partition  \* one log each

VARIABLES
  log,    \* partition -> the events in it, in order
  owed,   \* events kept for a log that could not be written
  told    \* events whose writer was told they are durable

vars == <<log, owed, told>>

Logged == UNION {{log[p][n] : n \in DOMAIN log[p]} : p \in Partition}

Init ==
  /\ log = [p \in Partition |-> <<>>]
  /\ owed = {}
  /\ told = {}

(* events are only added, at the end of a log *)
Grow == \A p \in Partition : \A n \in DOMAIN log[p] :
          n \in DOMAIN log'[p] /\ log'[p][n] = log[p][n]

(* what is owed is given up only once it has reached a log *)
Settle == owed \subseteq owed' \cup Logged'

(* a writer is only ever told of what is durable by then *)
Tell == told \subseteq told' /\ told' \subseteq told \cup Logged' \cup owed'

Next == Grow /\ Settle /\ Tell

Spec == Init /\ [][Next]_vars

(* an event somebody was told is durable is never lost *)
ToldIsKept == told \subseteq Logged \cup owed
===============================================================================
