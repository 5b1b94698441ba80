SPECIFICATION MCSpec
CONSTANTS
    Groups = {1, 2, 3, 14, 15}
    Contents = {"a", "b"}
    ChipKey = 15
    SignerDays = 1
    CrlDays = 1
    LastDay = 2
    MaxSigners = 2
    MaxPassports = 2
    MaxChallenges = 2
    Characters = {99, 0, 1, 9, 10, 11}
    StatusLife = 3
    Day = 2
    MaxRequests = 2
    ListLife = 2
CONSTRAINT Explored
INVARIANTS
    TravelDocumentsHold
    MobileDocumentsHold
    VerifiableCredentialsHold
CHECK_DEADLOCK FALSE
