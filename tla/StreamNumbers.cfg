SPECIFICATION Spec
CONSTANTS
    usdc = usdc
    gusd = gusd
    Tokens = {usdc, gusd}
    Up <- MCUp
    Down <- MCDown
    Fine = 4
    PayScale = 10
    SecondsPerDay = 1
    Amounts <- MCAmounts
    Periods <- MCPeriods
    Bound64 = 128
    Bound216 = 512
    Word = 1024
    Supply <- MCSupply
    MaxLinks = 2
    MaxBatches = 2
INVARIANT TypeOK
INVARIANT FundedForATenth
INVARIANT PaysTenfold
INVARIANT NoAllowanceLeft
INVARIANT UnfitIsRefused
CHECK_DEADLOCK FALSE
