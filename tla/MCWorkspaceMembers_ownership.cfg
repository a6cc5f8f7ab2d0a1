SPECIFICATION Spec
CONSTANTS
    a1 = a1
    a2 = a2
    w1 = w1
    w2 = w2
    c1 = c1
    c2 = c2
    r1 = r1
    t1 = t1
    t2 = t2
    ADVISOR = ADVISOR
    CONTRIBUTOR = CONTRIBUTOR
    None = None
    Accounts <- MCPair
    Founder = a1
    Joined = {a2}
    MemberIds <- MCMemberIds
    Roles = {CONTRIBUTOR}
    Challenges = {}
    Recoveries = {r1}
    Transfers <- MCTransfers
    Workers <- MCWorkers
    Kinds <- MCOwnershipKinds
    MaxVersion = 2
SYMMETRY MCOwnershipSymmetry
CHECK_DEADLOCK FALSE
INVARIANTS
    OwnerIsTheOneAdmin
    AuthorityHoldsAtCommit
    TransfersComeFromTheOwner
    RecoveryNeverTakesTheOwner
    LiveSessionsAreCurrent
