SPECIFICATION Spec
CONSTANTS
    u1 = u1
    u2 = u2
    a1 = a1
    a2 = a2
    s1 = s1
    s2 = s2
    c1 = c1
    c2 = c2
    r1 = r1
    r2 = r2
    Nil = Nil
    Users = {u1, u2}
    Chats = {c1}
    Addrs = {a1, a2}
    Safes = {s1, s2}
    Reqs = {r1, r2}
    Wallets <- MCWallets
    Owners <- MCOwners
    Admins <- NoAdmins
    LinkRequests <- NoRequests
    ForeignKeys = TRUE
    MaxMsgs = 2
    MaxSigners = 2
INVARIANT AddressUnique
