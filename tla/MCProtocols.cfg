CONSTANTS
    None = None
    Verifiers = {v1, v2}
    Nonces = {n1, n2}
    Algs <- MCAlgs
    HolderKid <- MCHolderKid
    Headers <- MCHeaders
    MaxProofs = 1
    MaxAge = 1
    Future = 1
    Lifetime = 1
    MaxTime = 2
    Inputs <- MCInputs
    Params <- MCParams
    Carried <- MCCarried
    DeclaredKeys <- MCDeclared
    Namespaces = {"ns", ""}
    Leeway = 1
    TokenLife = 1
    NonceMaxAge = 1
    MaxPosts = 1
    Horizon = 3
    Issuers = {i1, i2}
    Holders = {h1, h2}
    Audiences = {a1, a2}
    Challenges = {r1}
    ClaimNames = {"a", "b", "iss"}
    Selections <- MCSelections
    Window = 1
    MaxCredentials = 1
    MaxShown = 2
    GovernanceDocuments <- MCGovernanceDocuments
    ApiKeys = {"k1", "k2", "k3"}
    GovernedRequests <- MCGovernedRequests
    Steps = {"a", "b", "c"}
    Outcomes = {"success", "failure"}
    Graphs <- MCGraphs
    MaxSteps = 3
    MaxTransitions = 3
    Runs = 2
    Half = 3
    Chunk = 2
    Capacity = 8
    Reads <- MCReads
    Byte = 8
    Block = 4
    MaxBacData = 47
    Les = {0, 1, 7, 8, 9, 63}
SYMMETRY Perms
SPECIFICATION MCSpec
CHECK_DEADLOCK FALSE
INVARIANTS
    BindingsHold
    GrantsHold
    QueriesAgree
    BoundToTransaction
    SdJwtsHold
    ResumedIsAuthorised
    NoStepTwice
    ReadIsFaithful
    WireFormsHold
