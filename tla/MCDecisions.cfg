SPECIFICATION MCSpec
CONSTANTS
    None = None
    YearLength = 4
    MaxTime = 12
    MaxCredentials = 2
    MaxRequirements = 3
    MaxRequestedClaims = 2
    MaxClaims = 3
    ServiceRequests <- MCServiceRequests
    LegacyRequests <- MCLegacyRequests
    Facts <- MCFacts
    Cases <- MCCases
    Conditions <- MCConditions
    MaxFacts = 3
    Unsupported = Unsupported
    Definitions <- MCDefinitions
    Credentials <- MCCredentials
    Proofs <- MCProofs
    Submissions <- MCSubmissions
    Payloads <- MCPayloads
    Values <- MCValues
INVARIANTS
    DecisionsJustified
    ApprovalBacked
    AnswersFit
CHECK_DEADLOCK FALSE
