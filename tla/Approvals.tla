----------------------------- MODULE Approvals -----------------------------
(***************************************************************************)
(* The approval-service of services/gatekeeper: four-eyes approvals.       *)
(*                                                                         *)
(* A decision (RecordApprovalDecision) is a sequence of database           *)
(* statements: the row, the votes, the role, the INSERT of the vote and    *)
(* the UPDATE of the status, which carries no condition on the status it   *)
(* replaces.  Sessions are calls in progress, on any replica; a call may   *)
(* stop between two statements.  GetApproval and ListApprovals also write: *)
(* they expire a pending approval whose 72 hours have passed.              *)
(***************************************************************************)
EXTENDS FiniteSets

CONSTANTS
    Approval,       \* ids that RequestApproval may create, all on one RoE version
    Person,
    Author,         \* created_by of that RoE version
    Session,        \* calls in progress at a time
    NoApproval, NoPerson

ASSUME ApprovalsAssumption ==
    /\ Author \in Person
    /\ NoApproval \notin Approval /\ NoPerson \notin Person

VARIABLES
    approvalStatus,  \* approvals.status, "none" before the INSERT
    requester,   \* approvals.requester
    late,        \* approvals whose expires_at has passed
    votes,       \* approval_votes: [approval, approver, decision]
    approvers,   \* principals that hold offensive-approver now
    session      \* per session: what the call has read so far

approvalVars == <<approvalStatus, requester, late, votes, approvers, session>>

Decisions == {"approve", "reject"}
Votes == [approval : Approval, approver : Person, decision : Decisions]

Vote(a, p, d) == [approval |-> a, approver |-> p, decision |-> d]
IdleSession == [pc |-> "idle", approval |-> NoApproval, approver |-> NoPerson,
                decision |-> "approve", seen |-> {}]

ApprovalsInit ==
    /\ approvalStatus = [a \in Approval |-> "none"]
    /\ requester = [a \in Approval |-> NoPerson]
    /\ late = {} /\ votes = {}
    /\ approvers \in SUBSET Person
    /\ session = [s \in Session |-> IdleSession]

\* Session s goes on at pc; Return ends its call.
Step(s, pc, seen) ==
    session' = [session EXCEPT ![s] = [pc |-> pc, approval |-> session[s].approval,
                                       approver |-> session[s].approver,
                                       decision |-> session[s].decision, seen |-> seen]]
Return(s) == session' = [session EXCEPT ![s] = IdleSession]

RequestApproval(a, p) ==
    /\ approvalStatus[a] = "none"
    /\ approvalStatus' = [approvalStatus EXCEPT ![a] = "pending"]
    /\ requester' = [requester EXCEPT ![a] = p]
    /\ UNCHANGED <<late, votes, approvers, session>>

\* RecordApprovalDecision's first query; anything but a pending row is refused
\* (after the second query, which changes nothing).
LoadApproval(s, a, p, d) ==
    /\ session[s].pc = "idle" /\ approvalStatus[a] = "pending"
    /\ session' = [session EXCEPT ![s] = [pc |-> "votes", approval |-> a, approver |-> p,
                                          decision |-> d, seen |-> {}]]
    /\ UNCHANGED <<approvalStatus, requester, late, votes, approvers>>

VotesOn(a) == {v \in votes : v.approval = a}

LoadVotes(s) ==
    /\ session[s].pc = "votes"
    /\ Step(s, "check", VotesOn(session[s].approval))
    /\ UNCHANGED <<approvalStatus, requester, late, votes, approvers>>

\* Past expires_at: the call expires the row instead of deciding it.
ExpireOnDecision(s) ==
    /\ session[s].pc = "check" /\ session[s].approval \in late
    /\ approvalStatus' = [approvalStatus EXCEPT ![session[s].approval] = "expired"]
    /\ Return(s)
    /\ UNCHANGED <<requester, late, votes, approvers>>

\* Segregation of duties, then RBAC.
Eligible(a, p) == p # requester[a] /\ p # Author /\ p \in approvers

CheckApprover(s) ==
    /\ session[s].pc = "check" /\ session[s].approval \notin late
    /\ IF Eligible(session[s].approval, session[s].approver)
       THEN Step(s, "insert", session[s].seen)
       ELSE Return(s)
    /\ UNCHANGED <<approvalStatus, requester, late, votes, approvers>>

HasVoted(a, p) == \E v \in VotesOn(a) : v.approver = p

\* The primary key (approval_id, approver) refuses a second vote.
InsertVote(s) ==
    LET c == session[s] IN
    /\ c.pc = "insert"
    /\ IF HasVoted(c.approval, c.approver)
       THEN Return(s) /\ UNCHANGED votes
       ELSE /\ votes' = votes \cup {Vote(c.approval, c.approver, c.decision)}
            /\ Step(s, "tally", c.seen)
    /\ UNCHANGED <<approvalStatus, requester, late, approvers>>

Approves(V) == {v \in V : v.decision = "approve"}

\* Wrong variant: counts the rejections too.
Enough_AnyVote(c) == c.seen # {}

\* countApproves >= 2 of the captured votes and the own one, which is not yet
\* among them.
Enough(c) == Approves(c.seen) # {}

\* A reject closes the approval, a second approve grants it; the first approve
\* leaves the row alone.
Tally(s) ==
    LET c == session[s] IN
    /\ c.pc = "tally"
    /\ approvalStatus' =
          IF c.decision = "reject" THEN [approvalStatus EXCEPT ![c.approval] = "rejected"]
          ELSE IF Enough(c) THEN [approvalStatus EXCEPT ![c.approval] = "granted"]
          ELSE approvalStatus
    /\ Return(s)
    /\ UNCHANGED <<requester, late, votes, approvers>>

\* GetApproval, ListApprovals: reads a pending row that is past its expiry.
ReadApproval(s, a) ==
    /\ session[s].pc = "idle" /\ approvalStatus[a] = "pending" /\ a \in late
    /\ session' = [session EXCEPT ![s] = [pc |-> "expire", approval |-> a, approver |-> NoPerson,
                                          decision |-> "approve", seen |-> {}]]
    /\ UNCHANGED <<approvalStatus, requester, late, votes, approvers>>

LazyExpire(s) ==
    /\ session[s].pc = "expire"
    /\ approvalStatus' = [approvalStatus EXCEPT ![session[s].approval] = "expired"]
    /\ Return(s)
    /\ UNCHANGED <<requester, late, votes, approvers>>

\* The call stops between two statements.
CallLost(s) ==
    /\ session[s].pc # "idle"
    /\ Return(s)
    /\ UNCHANGED <<approvalStatus, requester, late, votes, approvers>>

\* 72 hours have passed.
TTLPasses(a) ==
    /\ approvalStatus[a] # "none" /\ a \notin late
    /\ late' = late \cup {a}
    /\ UNCHANGED <<approvalStatus, requester, votes, approvers, session>>

\* rbac-service grants the role, or a grant is revoked or runs out.
RoleChanges(p) ==
    /\ approvers' = IF p \in approvers THEN approvers \ {p} ELSE approvers \cup {p}
    /\ UNCHANGED <<approvalStatus, requester, late, votes, session>>

ApprovalsNext ==
    \/ \E a \in Approval, p \in Person : RequestApproval(a, p)
    \/ \E s \in Session, a \in Approval :
         \/ \E p \in Person, d \in Decisions : LoadApproval(s, a, p, d)
         \/ ReadApproval(s, a)
    \/ \E s \in Session :
         \/ LoadVotes(s) \/ ExpireOnDecision(s) \/ CheckApprover(s) \/ InsertVote(s)
         \/ Tally(s) \/ LazyExpire(s) \/ CallLost(s)
    \/ \E a \in Approval : TTLPasses(a)
    \/ \E p \in Person : RoleChanges(p)

ApprovalsSpec == ApprovalsInit /\ [][ApprovalsNext]_approvalVars
-----------------------------------------------------------------------------
(* Properties.                                                              *)

Statuses == {"none", "pending", "granted", "rejected", "expired"}
Calls == [pc : {"idle", "votes", "check", "insert", "tally", "expire"},
          approval : Approval \cup {NoApproval}, approver : Person \cup {NoPerson},
          decision : Decisions, seen : SUBSET Votes]

\* Every row and every call has the shape the schema and the handlers give it;
\* nobody has two votes on an approval.
ApprovalsTypeOK ==
    /\ approvalStatus \in [Approval -> Statuses]
    /\ requester \in [Approval -> Person \cup {NoPerson}]
    /\ late \subseteq Approval /\ votes \subseteq Votes /\ approvers \subseteq Person
    /\ session \in [Session -> Calls]
    /\ \A v, w \in votes :
         v.approval = w.approval /\ v.approver = w.approver => v.decision = w.decision

ApprovedBy(a, p) == Vote(a, p, "approve") \in votes

\* A granted approval rests on the approve votes of two distinct people, neither
\* of them its requester or the RoE author, whatever calls overlapped, stopped
\* half way or were repeated (package approval: "Two DISTINCT human approvers").
FourEyes ==
    \A a \in Approval : approvalStatus[a] = "granted" =>
        \E p, q \in Person \ {Author, requester[a]} :
            p # q /\ ApprovedBy(a, p) /\ ApprovedBy(a, q)
=============================================================================
