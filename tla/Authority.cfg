\* Two RPCs at a time on a RoE of two versions; two decisions, one of them on a
\* monitor capability; two tokens; revocations of the RoE.
SPECIFICATION Spec
CONSTANTS
    c1 = c1  c2 = c2  x = x  d1 = d1  d2 = d2  j1 = j1  j2 = j2
    Call = {c1, c2}
    Admin = {c1, c2}
    Client = {c2}
    Target = {x}
    Decision = {d1, d2}
    Token = {j1, j2}
    MaxVersion = 2
    ScopeOf <- Shrinking
    RequestOf <- Requests
    Closing = {2}
    KillKey = {RoE}
    RoE = RoE  Global = Global  ScopeRef = ScopeRef  None = None
SYMMETRY Symmetry
INVARIANTS DecisionsInScope TokensNarrow NoTokenUnaudited KillStopsDecisions SettledMintsNothing
CHECK_DEADLOCK FALSE
