SPECIFICATION Spec
CONSTANTS
    Calls <- CallIDs
    RunIDs <- Runs
    None = None
    c1 = c1  c2 = c2  c3 = c3
    r1 = r1  r2 = r2
    Resolvers = {s1, s2}
    RunOf <- Shared
INVARIANTS
    ApprovalInvariant
    ResolveReaches
PROPERTY WaitEnds
