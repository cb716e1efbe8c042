SPECIFICATION Spec
CONSTANTS
    pay = pay
    bill = bill
    policy = policy
    creation = creation
    no1 = no1
    no2 = no2
    Nil = Nil
    Txs = {pay, policy, creation, no1, no2}
    Kind <- MCKind
    Rejections <- MCRejections
    Required <- MCRequired
    ann = ann
    bob = bob
    cid = cid
    Owners = {ann, bob, cid}
    Named <- MCNamed
    Early <- MCEarly
    MaxLate = 2
    Word = 16
\* A page of the queue ends.
CHECK_DEADLOCK FALSE
INVARIANT TypeOK
INVARIANT RepliesInFull
INVARIANT NothingInvented
INVARIANT AskedUntilSigned
INVARIANT AskedWithinNeed
