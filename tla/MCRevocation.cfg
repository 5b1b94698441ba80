SPECIFICATION MCSpec
CONSTANTS
    Certs <- MCCerts
    Anchors <- MCAnchors
    Intermediates <- MCIntermediates
    Chains <- MCChains
    Configs <- MCConfigs
    Keys <- MCKeys
    Owned <- MCOwned
    Delegates <- MCDelegates
    Asked <- MCAsked
    Foreign <- MCForeign
    CrlValidity = 1
    CrlSkew = 1
    CrlMaxAge = 1
    LastMoment = 4
    MaxCrls = 2
    k1 = k1
    k2 = k2
    Checks <- MCChecks
    Responders <- MCResponders
    Embedded <- MCEmbedded
    Skew = 1
    MaxAge = 1
    DefaultTtl = 1
    Validity = 1
    MaxTime = 5
    MaxResponses = 2
    Jurisdictions = {"US-CA", "DE", "de"}
    Upper <- MCUpper
    Subjects = {"CN=A DE", "CN=A DE 2", "CN=US-CA"}
    Matching <- MCMatching
    Kinds = {"iaca", "csca", "eudi"}
    Feeds <- MCFeeds
    MaxAnchors = 2
    EntryIds = {"e1", "e2"}
    Lives = {2, 9}
    PageSize = 1
    MaxPages = 3
    Interval = 1
    Addresses <- MCAddresses
    MaxSequence = 3
    SyncEnd = 3
    Sizes = {3, 9}
    Width = {0, 1, 2, 4, 8}
    Written = {0, 1, 3, 200}
    MaxWrites = 3
SYMMETRY Symmetry
INVARIANTS
    OnlyIssuedAccepted
    RevocationSurfaces
    RegistryFaithful
    StatusesIndependent
CHECK_DEADLOCK FALSE
