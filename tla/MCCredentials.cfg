CONSTANTS
    None = None
    LastMoment = 4
    Grace = 2
    ChallengeLife = 3
    AttestationAge = 2
    StatusAge = 2
    MaxCounter = 2
    Types = {"p256", "p384", "p521", "rsa", "ed25519", "x25519"}
    MaxExtensions = 1
    MaxJson = 2
    MaxMessage = 13
    MaxOutput = 7
    MaxBlocks = 3
    MaxDepth = 2
    MaxSize = 2
    MaxRecipients = 2
    MaxWrapperDepth = 2
    MaxWraps = 3
SPECIFICATION MCSpec
CHECK_DEADLOCK FALSE
INVARIANTS KeysAreKept OffersHold
