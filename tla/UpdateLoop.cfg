SPECIFICATION Spec
CONSTANTS
    Commands <- MCCommands
    Unsendable <- MCUnsendable
    Limit = 2
    Buffer = 2
    MaxUpdates = 5
    MaxDeaths = 2
INVARIANT TypeOK
INVARIANT SettledInOrder
INVARIANT NothingVanishes
INVARIANT LossIsBounded
PROPERTY DeliverySpec
PROPERTY AllSettled
