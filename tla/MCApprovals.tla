----------------------------- MODULE MCApprovals -----------------------------
(***************************************************************************)
(* Small instances of Approvals for TLC.  Everybody but the author plays   *)
(* the same part, and so do the sessions.  The rules of PolicyRules and    *)
(* AgentRules are checked here too, before the first state.                *)
(***************************************************************************)
EXTENDS MCAgentRules, MCPolicyRules, Approvals, TLC

Symmetry == Permutations(Person \ {Author}) \cup Permutations(Session)
=============================================================================
