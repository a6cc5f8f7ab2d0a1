SPECIFICATION Spec
CONSTANTS
    alice = alice
    s1 = s1
    s2 = s2
    s3 = s3
    w1 = w1
    w2 = w2
    None = None
    Accounts <- MCAccounts
    Sessions <- MCSessions3
    Workers <- MCWorkers
    MaxEpoch = 1
    Kinds = {"LOGIN", "REFRESH", "USE"}
INVARIANT ReuseRevokesTheFamily
