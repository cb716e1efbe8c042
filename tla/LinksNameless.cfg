SPECIFICATION Spec
CONSTANTS
    u1 = u1
    u2 = u2
    a1 = a1
    a2 = a2
    s1 = s1
    s2 = s2
    c1 = c1
    Nil = Nil
    Users = {u1, u2}
    Chats = {c1}
    Addrs = {a1, a2}
    Safes = {s1, s2}
    Owners <- MCOwners
    Wallets <- MCWallets
    Names <- Nameless
    NoName = ""
    Lower <- MCLower
INVARIANT PaysRequester
