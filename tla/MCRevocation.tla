------------------------------ MODULE MCRevocation ------------------------------
(* Instances of the certificate modules for TLC: chains with their CRLs, the  *)
(* caching OCSP client and the anchor registries, one of them per behaviour.  *)
(* The public key infrastructure has a root, an issuing authority that may    *)
(* certify no further authority and did, a second one, both perhaps           *)
(* configured as intermediates, and certificates made by holders of other     *)
(* keys.                                                                      *)
EXTENDS CertificateChains, TLC

VARIABLES
    topic,
    now, revokedAt, sent, phase, answer, cache,     \* OcspClient
    kind, list, index, token, outcome,              \* TrustAnchors
    hour, history, state, pages, failure,           \* TrustSync
    bytes, size, bits, written, writes              \* StatusLists

ocspVars == <<now, revokedAt, sent, phase, answer, cache>>
registryVars == <<kind, list, index, token, outcome>>
syncVars == <<hour, history, state, pages, failure>>
statusVars == <<bytes, size, bits, written, writes>>
allVars == <<topic, vars, ocspVars, registryVars, syncVars, statusVars>>

CONSTANTS k1, k2, Checks, Responders, Embedded, Skew, MaxAge, DefaultTtl, Validity, MaxTime, MaxResponses
Ocsp == INSTANCE OcspClient

\* Times are numbers, and whoever makes responses up has not got the key of a
\* certificate the issuer made for signing them.
ASSUME ResponderAssumption ==
    /\ {Skew, MaxAge, DefaultTtl, Validity} \subseteq Nat
    /\ \A c \in Embedded : c.byIssuer /\ c.ocspSigning /\ c.digitalSignature => c.key # "other"

CONSTANTS Jurisdictions, Upper, Subjects, Matching, Kinds, Feeds, MaxAnchors
Registry == INSTANCE TrustAnchors

\* The feeds' entries have the form their parsers give them.
ASSUME FeedAssumption ==
    /\ Kinds \subseteq {"iaca", "csca", "eudi"}
    /\ Feeds \subseteq Seq(Registry!Entry)
    /\ Registry!NoJurisdiction \notin Jurisdictions
    /\ Upper \in [Jurisdictions -> Jurisdictions] /\ \A j \in Jurisdictions : Upper[Upper[j]] = Upper[j]

CONSTANTS EntryIds, Lives, PageSize, MaxPages, Interval, Addresses, MaxSequence, SyncEnd
Sync == INSTANCE TrustSync

\* A registry has finitely many entries, their certificates live for so many
\* hours, and a page holds at least one of them.
ASSUME SyncAssumption == IsFiniteSet(EntryIds) /\ Lives \subseteq Nat /\ PageSize \in Nat \ {0}

CONSTANTS Sizes, Width, Written, MaxWrites
Statuses == INSTANCE StatusLists

ASSUME StatusAssumption == Sizes \cup Written \subseteq Nat

-----------------------------------------------------------------------------
Root == [id |-> "root", subject |-> "R", issuer |-> "R", key |-> "kR", signed |-> "kR", sound |-> TRUE,
         from |-> 0, until |-> 9, constraints |-> "ca", pathLen |-> 1,
         usage |-> {"keyCertSign", "cRLSign"}, hasUsage |-> TRUE, ocspSigning |-> FALSE,
         extensions |-> "plain"]
Issuing == [Root EXCEPT !.id = "issuing", !.subject = "I", !.key = "kI", !.pathLen = 0]
Second == [Issuing EXCEPT !.id = "second", !.subject = "M", !.key = "kM", !.pathLen = NoPathLen,
           !.usage = {"keyCertSign"}]
Leaf == [Root EXCEPT !.id = "leaf", !.subject = "L", !.issuer = "I", !.key = "kL", !.signed = "kI",
         !.constraints = "end", !.usage = {"digitalSignature"}]
OldLeaf == [Leaf EXCEPT !.id = "old", !.until = 2, !.hasUsage = FALSE, !.issuer = "M", !.signed = "kM",
            !.constraints = "none"]
\* signed with the key of the leaf, and an authority the issuing one made
ByLeaf == [Leaf EXCEPT !.id = "byLeaf", !.subject = "S", !.issuer = "L", !.signed = "kL", !.key = "kX"]
SubAuthority == [Issuing EXCEPT !.id = "sub", !.subject = "J", !.issuer = "I", !.key = "kX", !.signed = "kI",
                 !.pathLen = NoPathLen]
BySub == [Leaf EXCEPT !.id = "bySub", !.subject = "S", !.issuer = "J", !.signed = "kX", !.key = "kX"]
\* the root's and the issuing authority's names on somebody else's keys
FalseRoot == [Root EXCEPT !.id = "falseRoot", !.key = "kX", !.signed = "kX", !.pathLen = NoPathLen]
FalseIssuing == [Issuing EXCEPT !.id = "falseIssuing", !.key = "kX", !.signed = "kX"]
ByFalse == [Leaf EXCEPT !.id = "byFalse", !.subject = "S", !.signed = "kX", !.key = "kX"]
Constrained == [Leaf EXCEPT !.id = "constrained", !.constraints = "none", !.extensions = "unenforced"]

\* the OCSP responder of the issuing authority
Responder == [Leaf EXCEPT !.id = "responder", !.subject = "O", !.key = "kO", !.ocspSigning = TRUE,
              !.constraints = "none"]

MCKeys == {"kR", "kI", "kM", "kL", "kO", "kX"}
MCForeign == {"kX"}
MCOwned == {"kR", "kI", "kM"}
MCCerts == {Root, Issuing, Second, Leaf, OldLeaf, ByLeaf, SubAuthority, BySub,
            FalseRoot, FalseIssuing, ByFalse, Constrained, Responder}
MCDelegates == {Responder}
MCAsked == {Leaf}
MCAnchors == {Root}
MCIntermediates == {Second, Issuing}
MCChains == {<<>>, <<Root>>, <<Leaf>>, <<OldLeaf>>, <<Leaf, Issuing>>, <<Leaf, Issuing, Root>>, <<Leaf, Root>>,
             <<ByLeaf, Leaf>>, <<ByLeaf, Leaf, Issuing>>, <<BySub, SubAuthority>>, <<BySub, SubAuthority, Issuing>>,
             <<BySub, SubAuthority, Issuing, Root>>, <<ByFalse, FalseIssuing>>,
             <<ByFalse, FalseIssuing, FalseRoot>>, <<FalseRoot>>, <<Constrained, Issuing>>}
Default == [crl |-> FALSE, ocsp |-> FALSE, hard |-> FALSE, moment |-> Never, required |-> {"digitalSignature"}]
HardCrl == [Default EXCEPT !.crl = TRUE, !.hard = TRUE]
MCConfigs == {Default, HardCrl, [HardCrl EXCEPT !.hard = FALSE, !.moment = 1],
              [Default EXCEPT !.ocsp = TRUE, !.hard = TRUE]}

Delegation == [key |-> "delegate", byIssuer |-> TRUE, ocspSigning |-> TRUE,
               digitalSignature |-> TRUE, until |-> 4]
ServerCertificate == [Delegation EXCEPT !.key = "other", !.ocspSigning = FALSE]
SelfMade == [Delegation EXCEPT !.key = "other", !.byIssuer = FALSE]
MCEmbedded == {Delegation, ServerCertificate, SelfMade}
MCResponders == {<<"issuer", FALSE>>, <<"delegate", TRUE>>}
MCChecks == {k1, k2}
Symmetry == Permutations(MCChecks)

\* A subject names its jurisdiction; one subject's text is part of another's.
MCMatching == [s \in {"CN=A DE", "CN=A DE 2", "CN=US-CA", "DE", "de", "US-CA"} |->
                 IF s \in {"DE", "CN=A DE"} THEN {"CN=A DE", "CN=A DE 2"}
                 ELSE IF s = "US-CA" THEN {"CN=US-CA"} ELSE {s} \cap Subjects]
MCUpper == [j \in Jurisdictions |-> IF j = "de" THEN "DE" ELSE j]
German(s) == [jurisdiction |-> "DE", subject |-> "CN=A DE 2", state |-> s]
Californian(s) == [jurisdiction |-> "US-CA", subject |-> "CN=US-CA", state |-> s]
FeedStates == {"usable", "inactive", "badCertificate", "badBase64", "unfetched"}
MCFeeds == {<<>>} \cup {<<German(s), Californian("usable")>> : s \in FeedStates}
           \cup {<<German("usable"), Californian(s)>> : s \in FeedStates}
           \cup {<<[German("usable") EXCEPT !.subject = "CN=A DE", !.jurisdiction = j], German("usable")>> :
                    j \in {"DE", "de"}}

MCAddresses == {[global |-> TRUE, private |-> FALSE, allowlisted |-> FALSE],
                [global |-> FALSE, private |-> TRUE, allowlisted |-> FALSE]}

-----------------------------------------------------------------------------
MCInit ==
    /\ topic \in {"chains", "ocsp", "registry", "sync", "status"}
    /\ Init /\ Ocsp!Init /\ Registry!Init /\ Sync!Init /\ Statuses!Init
    /\ topic # "chains" => config = Default
    /\ topic # "registry" => kind = "csca"
    /\ topic # "status" => size = 3 /\ bits = 0
MCNext ==
    \/ topic = "chains" /\ Next /\ UNCHANGED <<topic, ocspVars, registryVars, syncVars, statusVars>>
    \/ topic = "ocsp" /\ Ocsp!Next /\ UNCHANGED <<topic, vars, registryVars, syncVars, statusVars>>
    \/ topic = "registry" /\ Registry!Next /\ UNCHANGED <<topic, vars, ocspVars, syncVars, statusVars>>
    \/ topic = "sync" /\ Sync!Next /\ UNCHANGED <<topic, vars, ocspVars, registryVars, statusVars>>
    \/ topic = "status" /\ Statuses!Next /\ UNCHANGED <<topic, vars, ocspVars, registryVars, syncVars>>
MCSpec == MCInit /\ [][MCNext]_allVars

\* A revocation surfaces in bounded time, by CRL and by OCSP, in chains and in
\* the caching client.
RevocationSurfaces == RevokedSurfacesInChains /\ Ocsp!RevocationSurfaces

\* An mDL or passport registry finds under a code, in upper case, the anchors
\* that were filed under it, any registry finds what was synchronised, and one
\* that is synchronised page by page holds every entry as its publisher had it
\* at some moment of the synchronisation (trust_anchor/, pkd/, trust_sync.rs).
RegistryFaithful == Registry!RegistryFaithful /\ Sync!MirrorFaithful

\* Every status of a packed list reads as it was last written, whatever was
\* written to its neighbours, also after the list was encoded and decoded
\* (marty-status).
StatusesIndependent == Statuses!StatusesIndependent
=============================================================================
