SPECIFICATION StoriesSpec
CONSTANTS
    d1 = d1
    d2 = d2
    a1 = a1
    m1 = m1
    s1 = s1
    s2 = s2
    r1 = r1
    r2 = r2
    Domains = {d1, d2}
    Anchors = {a1}
    Methods = {m1}
    Signers = {s1, s2, r1, r2}
    NoSigner = NoSigner
    Versions <- Four
    Digests <- Four
    Packages <- ContestPackages
    MaxSequence = 3
    Skew = 1
    MaxTime = 4
    MaxInflight = 2
INVARIANTS
    PoliciesStayValid
    StaysUsable
    GovernedSetExact
PROPERTIES
    RowsAdvance
    SignerLineage
CHECK_DEADLOCK FALSE
