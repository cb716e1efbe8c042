SPECIFICATION Spec
CONSTANTS
    u1 = u1
    u2 = u2
    a1 = a1
    a2 = a2
    s1 = s1
    s2 = s2
    r1 = r1
    r2 = r2
    Nil = Nil
    Users = {u1}
    Addrs = {a1, a2}
    Safes = {s1, s2}
    Reqs = {r1, r2}
    Executor <- MCExecutor
    Signers <- MCSigners
    Outgoing <- SomeOutgoing
    PageSize = 2
    MaxTxs = 4
    MaxAborts = 1
    MaxRequests = 3
INVARIANT TypeOK
INVARIANT NoneSkipped
INVARIANT RewardedAgainOnlyIfUndone
INVARIANT RowsKept
