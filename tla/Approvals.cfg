\* One approval, its RoE author and three other people, two calls at a time.
SPECIFICATION ApprovalsSpec
CONSTANTS
    Approval = {p1}
    Person = {u1, u2, u3, u4}
    Author = u1
    Session = {s1, s2}
    NoApproval = NoApproval  NoPerson = NoPerson
SYMMETRY Symmetry
INVARIANTS FourEyes
CHECK_DEADLOCK FALSE
