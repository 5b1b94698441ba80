\* Three workers, three jobs: the safety properties and the refinement.
CONSTANTS
    Routes <- MCRoutes
    Batches <- MCBatches
    Identities = {"frozen", "broken"}
    ValidIdentities = {"frozen"}
    Authorized = 3
    Ceiling = 64
SPECIFICATION ScopesSpec
INVARIANTS
    SignedAtMostOnce
    ScheduleIndependent
PROPERTIES
    ImplementsContract
    Terminates
