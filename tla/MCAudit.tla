-------------------------------- MODULE MCAudit --------------------------------
(***************************************************************************)
(* Four environments for Audit.                                            *)
(*   Spilling    two calls of Log at a time, the database failing, commits *)
(*               without an answer, torn lines, restarts                   *)
(*   Recording   two batches of one organisation at a time                 *)
(*   Forwarding  a row of discover through audit.events                    *)
(*   Queued      two of them                                               *)
(***************************************************************************)
EXTENDS Audit

MCSource == {"core", "org", "row1", "row2"}

None == [what \in Budget |-> 0]

Spilling == [core |-> {<<"core", 1>>, <<"core", 2>>}, calls |-> {}, rows |-> {}, left |->
  [None EXCEPT !["faults"] = 2, !["unknown"] = 1, !["tears"] = 1, !["platform-core"] = 2]]

Recording == [core |-> {}, rows |-> {},
  calls |-> {<<<<"org", 1>>, <<"org", 2>>>>, <<<<"org", 3>>>>}, left |->
  [None EXCEPT !["faults"] = 1, !["unknown"] = 1, !["gatekeeper"] = 1]]

Forwarding == [core |-> {}, rows |-> {"row1"}, calls |-> {}, left |->
  [None EXCEPT !["faults"] = 1, !["unknown"] = 1, !["losses"] = 1,
               !["gatekeeper"] = 1, !["discover"] = 1]]

Queued == [core |-> {}, rows |-> {"row1", "row2"}, calls |-> {}, left |->
  [None EXCEPT !["faults"] = 1, !["losses"] = 1, !["discover"] = 1]]

MCScenario == {Spilling, Recording, Forwarding, Queued}
================================================================================
