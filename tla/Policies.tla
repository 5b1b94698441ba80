------------------------------- MODULE Policies -------------------------------
(***************************************************************************)
(* Presentation policies (marty-verification/src/policy): the service      *)
(* policy kernel that turns verified facts into a decision, and the legacy *)
(* evaluator that projects its own policies onto that kernel.              *)
(*                                                                         *)
(* Times are days.  A JSON value is what the conversions of the kernel     *)
(* yield of it: its kind, its text (None for null), the number it parses   *)
(* to and the date its first ten characters spell.                         *)
(***************************************************************************)
EXTENDS Integers, FiniteSetsExt, SequencesExt

CONSTANTS
    None,
    YearLength,         \* days in a calendar year
    MaxTime,            \* i64::MAX, as a day
    MaxCredentials,     \* MAX_CREDENTIALS
    MaxRequirements,    \* MAX_REQUIREMENTS
    MaxRequestedClaims, \* MAX_CLAIMS_PER_REQUIREMENT
    MaxClaims,          \* MAX_CLAIMS_PER_CREDENTIAL
    ServiceRequests,    \* requests to the service kernel
    LegacyRequests      \* [policy, input] asked of the legacy evaluator

ASSUME PolicyAssumption ==
    YearLength \in Nat \ {0} /\ {MaxTime, MaxCredentials, MaxRequirements, MaxRequestedClaims, MaxClaims} \subseteq Nat

\* Lists are finite, ages, days and levels are numbers, ids are ordered, and
\* a requirement has one.
OptionalInt == Int \cup {None}
RequirementTyped(requirement) ==
    /\ requirement.id # None
    /\ requirement.max_age \in OptionalInt
    /\ IsFiniteSet(DOMAIN requirement.claims)
    /\ \A k \in DOMAIN requirement.claims : IsFiniteSet(DOMAIN requirement.claims[k].constraints)
ASSUME RequestAssumption ==
    \A q \in ServiceRequests :
          /\ q.day \in Int /\ q.external \in {"absent", "unevaluated", "denied", "allowed"}
          /\ q.proved \in OptionalInt /\ q.policy.holder.max_age \in OptionalInt
          /\ \A c \in q.credentials : /\ c.id \in Nat /\ c.not_revoked \in {"yes", "no", "unknown"}
                                      /\ c.issued \in OptionalInt /\ c.checked \in OptionalInt
                                      /\ c.level \in OptionalInt
          /\ q.policy.freshness # None => q.policy.freshness.max_age \in OptionalInt
                                          /\ q.policy.freshness.grace \in OptionalInt
          /\ q.policy.issuer # None => /\ IsFiniteSet(q.policy.issuer.compliance)
                                       /\ IsFiniteSet(q.policy.issuer.accreditations)
                                       /\ q.policy.issuer.level \in OptionalInt
          /\ \A k \in DOMAIN q.policy.requirements : RequirementTyped(q.policy.requirements[k])
          /\ \A i \in DOMAIN q.policy.alternatives :
                LET members == q.policy.alternatives[i].requirements IN
                /\ q.policy.alternatives[i].min \in Nat /\ IsFiniteSet(DOMAIN members)
                /\ \A k \in DOMAIN members : RequirementTyped(members[k])

When(condition, element) == IF condition THEN {element} ELSE {}

Violation(code, requirement, detail) ==
    [code |-> code, requirement |-> requirement.id, detail |-> detail]
GlobalViolation(code) == [code |-> code, requirement |-> None, detail |-> None]

-----------------------------------------------------------------------------
(* Claims and their constraints.                                           *)

Text(value) == IF value = None THEN None ELSE value.text
Number(value) == IF value = None THEN None ELSE value.number
Born(value) == IF value = None THEN None ELSE value.born

\* Whole calendar years between two days.
AgeOn(day, born) ==
    (day \div YearLength) - (born \div YearLength)
        - (IF day % YearLength < born % YearLength THEN 1 ELSE 0)

\* Numbers are compared by the signs that a comparison allows.
Sign(a, b) == IF a < b THEN -1 ELSE IF a = b THEN 0 ELSE 1
compare_text(actual, expected, equal) ==
    Text(actual) # None /\ Text(expected) # None /\ (Text(actual) = Text(expected)) = equal
compare_number(actual, expected, signs) ==
    /\ Number(actual) # None /\ Number(expected) # None
    /\ Sign(Number(actual), Number(expected)) \in signs

\* c.value is the expected value, c.items the texts of its members, and
\* c.language the texts the anchored pattern matches.
evaluate_constraint(c, actual, day) ==
    CASE c.type = "Presence" -> actual # None /\ actual.kind # "null"
      [] c.type = "Equals" -> compare_text(actual, c.value, TRUE)
      [] c.type = "NotEquals" -> compare_text(actual, c.value, FALSE)
      [] c.type = "GreaterThan" -> compare_number(actual, c.value, {1})
      [] c.type = "LessThan" -> compare_number(actual, c.value, {-1})
      [] c.type = "GreaterOrEqual" -> compare_number(actual, c.value, {0, 1})
      [] c.type = "LessOrEqual" -> compare_number(actual, c.value, {-1, 0})
      [] c.type = "InSet" -> Text(actual) # None /\ Text(actual) \in c.items
      [] c.type = "NotInSet" -> Text(actual) # None /\ Text(actual) \notin c.items
      [] c.type = "Regex" -> Text(actual) # None /\ Text(actual) \in c.language
      [] c.type = "AgeOver" ->
            /\ Born(actual) # None /\ Number(c.value) # None
            /\ Born(actual) <= day
            /\ AgeOn(day, Born(actual)) >= Number(c.value)

\* credential.claims.get: a credential's claims are a function.
Presented(credential, name) ==
    IF name \in DOMAIN credential.claims THEN credential.claims[name] ELSE None

ClaimErrors(requirement, credential, day) ==
    UNION {LET asked == requirement.claims[k]
               value == Presented(credential, asked.name) IN
           {Violation("ClaimConstraintFailed", requirement, <<k, j>>) :
               j \in {i \in DOMAIN asked.constraints :
                         ~evaluate_constraint(asked.constraints[i], value, day)}}
           \cup When(asked.required /\ value = None, Violation("ClaimMissing", requirement, <<k, 0>>))
           : k \in DOMAIN requirement.claims}

-----------------------------------------------------------------------------
(* One credential against one requirement.                                 *)

\* canonical_credential_format, of a name already trimmed, in lower case and
\* with dashes for underscores
canonical_credential_format(format) ==
    CASE format = "" -> "UNKNOWN"
      [] format \in {"w3c-vcdm-di", "w3c-vcdm-v2-di", "data-integrity", "json-ld", "ldp-vc"} -> "W3C_VCDM_V2_DI"
      [] format \in {"sd-jwt", "sd-jwt-vc", "dc+sd-jwt", "vc+sd-jwt", "spruce-vc+sd-jwt", "ietf-sd-jwt",
                     "w3c-vcdm-v2-sd-jwt"} -> "SD_JWT_VC"
      [] format \in {"w3c-vc", "w3c-vcdm-v2-jwt-vc", "jwt-vc", "vc-jwt", "jwt-vc-json"} -> "VC_JWT"
      [] format \in {"mdoc", "mso-mdoc"} -> "MDOC"
      [] format \in {"openbadge-v3", "open-badge-v3", "openbadge3"} -> "OPENBADGE_V3"
      [] format \in {"openbadge-v2", "open-badge-v2", "openbadge2"} -> "OPENBADGE_V2"
      [] OTHER -> format

apply_issuer_constraints(requirement, policy, credential) ==
    IF policy.issuer = None THEN {}
    ELSE When(/\ policy.issuer.level # None
              /\ credential.level = None \/ credential.level < policy.issuer.level,
              Violation("IssuerTrustLevelInsufficient", requirement, None))
         \cup {Violation("IssuerComplianceStatusMissing", requirement, <<s>>) :
                  s \in policy.issuer.compliance \ credential.compliance}
         \cup {Violation("IssuerAccreditationMissing", requirement, <<a>>) :
                  a \in policy.issuer.accreditations \ credential.accreditations}

\* Mutant of MaxAge: the requirement's limit replaces the policy's.
MaxAgeOfRequirement(requirement, policy) ==
    IF requirement.max_age # None THEN requirement.max_age
    ELSE IF policy.freshness = None THEN None ELSE policy.freshness.max_age

\* The stricter of the two limits, where both are given.
MaxAge(requirement, policy) ==
    LET ages == {requirement.max_age, IF policy.freshness = None THEN None
                                      ELSE policy.freshness.max_age} \ {None} IN
    IF ages = {} THEN None ELSE Min(ages)

IssuanceErrors(requirement, policy, credential, day) ==
    LET limit == MaxAge(requirement, policy)
        issued == credential.issued IN
    CASE issued = None ->
            When(limit # None \/ requirement.fresh,
                 Violation("CredentialTimestampMissing", requirement, None))
      [] issued # None /\ issued > day ->
            {Violation("CredentialTimestampFuture", requirement, None)}
      [] OTHER -> When(limit # None /\ day - issued > limit,
                       Violation("CredentialStale", requirement, None))

RevocationErrors(requirement, policy, credential, day) ==
    LET checked == credential.checked
        grace == policy.freshness.grace IN
    CASE credential.not_revoked = "no" ->
            {Violation("CredentialRevoked", requirement, None)}
      [] credential.not_revoked # "no" /\ (policy.freshness = None \/ ~policy.freshness.not_revoked) -> {}
      [] OTHER ->
            IF checked = None THEN {Violation("RevocationCheckRequired", requirement, None)}
            ELSE IF checked > day \/ (grace # None /\ day - checked > grace)
                 THEN {Violation("RevocationEvidenceStale", requirement, None)}
                 ELSE When(credential.not_revoked = "unknown",
                           Violation("RevocationStatusUnknown", requirement, None))

apply_freshness(requirement, policy, credential, day) ==
    IssuanceErrors(requirement, policy, credential, day)
        \cup RevocationErrors(requirement, policy, credential, day)

\* The errors of evaluate_candidate; without any the candidate satisfies.
CandidateErrors(requirement, policy, credential, day) ==
    When(~credential.signed, Violation("SignatureInvalid", requirement, None))
    \cup When(/\ requirement.format # None
              /\ canonical_credential_format(requirement.format)
                    # canonical_credential_format(credential.format),
              Violation("CredentialFormatMismatch", requirement, None))
    \cup When((requirement.trust \/ policy.trust) /\ ~credential.trusted,
              Violation("TrustProfileNotVerified", requirement, None))
    \cup When(policy.issuers # {} /\ credential.issuer \notin policy.issuers,
              Violation("IssuerNotAllowed", requirement, None))
    \cup apply_issuer_constraints(requirement, policy, credential)
    \cup apply_freshness(requirement, policy, credential, day)
    \cup ClaimErrors(requirement, credential, day)

\* What the credential shows of the requested claims.
ShownClaims(requirement, credential) ==
    {[name |-> requirement.claims[k].name, value |-> Presented(credential, requirement.claims[k].name)]
        : k \in {j \in DOMAIN requirement.claims :
                    Presented(credential, requirement.claims[j].name) # None}}

evaluate_candidate(requirement, policy, credential, day) ==
    LET errors == CandidateErrors(requirement, policy, credential, day) IN
    [requirement |-> requirement.id, credential |-> credential.id, satisfied |-> errors = {},
     shown |-> ShownClaims(requirement, credential), errors |-> errors]

\* left sorts before right: satisfied first, then fewest errors, then id; the
\* first of the sorted results is the requirement's.
BetterCandidate(left, right) ==
    IF left.satisfied # right.satisfied THEN left.satisfied
    ELSE IF Cardinality(left.errors) # Cardinality(right.errors)
         THEN Cardinality(left.errors) < Cardinality(right.errors)
         ELSE left.credential < right.credential

evaluate_requirement(requirement, policy, credentials, day) ==
    LET results == {evaluate_candidate(requirement, policy, c, day) :
                       c \in {d \in credentials : requirement.template = None
                                                    \/ requirement.template \in d.templates}} IN
    IF results = {}
    THEN [requirement |-> requirement.id, credential |-> None, satisfied |-> FALSE,
          shown |-> {}, errors |-> {Violation("CredentialMissing", requirement, None)}]
    ELSE CHOOSE best \in results : \A other \in results : ~BetterCandidate(other, best)

-----------------------------------------------------------------------------
(* The whole policy.                                                       *)

Requirements(policy) ==
    Range(policy.requirements)
        \cup UNION {Range(policy.alternatives[i].requirements) : i \in DOMAIN policy.alternatives}

RequirementCount(policy) ==
    Len(policy.requirements)
        + Cardinality(UNION {{i} \X DOMAIN policy.alternatives[i].requirements : i \in DOMAIN policy.alternatives})

\* A constraint is on the claim it is listed under.
ConstraintValid(c, name) ==
    c.name = name /\ (c.type # "Presence" => c.value # None) /\ (c.type = "Regex" => c.value.kind = "text")
RequirementValid(r) ==
    /\ Cardinality(DOMAIN r.claims) <= MaxRequestedClaims
    /\ \A k \in DOMAIN r.claims : \A j \in DOMAIN r.claims[k].constraints :
          ConstraintValid(r.claims[k].constraints[j], r.claims[k].name)
ClaimsWithinLimit(credentials) == \A c \in credentials : Cardinality(DOMAIN c.claims) <= MaxClaims

\* validate_request; names and values are within their length limits.
validate_request(q) ==
    /\ q.day <= MaxTime
    /\ Cardinality(q.credentials) <= MaxCredentials
    /\ q.count # None => q.count <= MaxCredentials
    /\ RequirementCount(q.policy) <= MaxRequirements
    /\ \/ q.policy.proof
       \/ q.policy.alternatives # <<>>
       \/ \E i \in DOMAIN q.policy.requirements : q.policy.requirements[i].required
    /\ ClaimsWithinLimit(q.credentials)
    /\ \A r \in Requirements(q.policy) : RequirementValid(r)
    /\ \A i \in DOMAIN q.policy.alternatives :
          q.policy.alternatives[i].min \in 1 .. Len(q.policy.alternatives[i].requirements)

\* The results of the direct requirements, and of those of each alternative,
\* in the order of the requirements.
Results(requirements, q) ==
    [k \in DOMAIN requirements |-> evaluate_requirement(requirements[k], q.policy, q.credentials, q.day)]
Evaluated(q) ==
    [direct |-> Results(q.policy.requirements, q),
     alternatives |-> [i \in DOMAIN q.policy.alternatives |->
                          Results(q.policy.alternatives[i].requirements, q)]]
Satisfied(results) == {k \in DOMAIN results : results[k].satisfied}
\* The alternatives that are met, of results e.
MetAlternatives(policy, e) ==
    {i \in DOMAIN policy.alternatives :
        Cardinality(Satisfied(e.alternatives[i])) >= policy.alternatives[i].min}

\* collect_verified_claims: what the satisfied results contribute, an
\* alternative only once it is met.
Contributed(policy, e) ==
    (UNION {e.direct[k].shown : k \in Satisfied(e.direct)})
    \cup UNION {UNION {e.alternatives[i][k].shown : k \in Satisfied(e.alternatives[i])}
                 : i \in MetAlternatives(policy, e)}

ConflictErrors(claims) ==
    When(\E a, b \in claims : a.name = b.name /\ a.value # b.value,
         GlobalViolation("ConflictingVerifiedClaim"))

HolderErrors(q) ==
    LET holder == q.policy.holder IN
    CASE ~holder.required -> {}
      [] holder.required /\ ~q.bound -> {GlobalViolation("HolderBindingRequired")}
      [] OTHER ->
            When(holder.methods # {} /\ q.method \notin holder.methods,
                 GlobalViolation("HolderBindingMethodNotAllowed"))
            \cup When(holder.profiles # {} /\ q.profile \notin holder.profiles,
                      GlobalViolation("ProofProfileNotAllowed"))
            \cup When(holder.challenge /\ ~q.challenge, GlobalViolation("ChallengeBindingRequired"))
            \cup When(holder.audience /\ ~q.audience, GlobalViolation("AudienceBindingRequired"))
            \cup When(holder.replay /\ ~q.replay, GlobalViolation("ReplayDetectionRequired"))

ProofTimeErrors(q) ==
    LET limit == q.policy.holder.max_age IN
    IF q.proved # None /\ q.proved > q.day THEN {GlobalViolation("ProofTimestampFuture")}
    ELSE IF ~q.policy.holder.required \/ limit = None THEN {}
    ELSE IF q.proved = None THEN {GlobalViolation("ProofTimestampMissing")}
    ELSE When(q.day - q.proved > limit, GlobalViolation("ProofStale"))

ExternalErrors(q) ==
    CASE q.external = "absent" -> {}
      [] q.external = "unevaluated" -> {GlobalViolation("ExternalAuthorizationNotEvaluated")}
      [] q.external = "denied" -> {GlobalViolation("ExternalAuthorizationDenied")}
      [] q.external = "allowed" -> {}

CountErrors(q) ==
    When(q.policy.single /\ (IF q.count = None THEN Cardinality(q.credentials) ELSE q.count) # 1,
         GlobalViolation("SinglePresentationRequired"))

AlternativeErrors(policy, e) ==
    UNION {(UNION {r.errors : r \in Range(e.alternatives[i])})
              \cup {Violation("AlternativeRequirementFailed", policy.alternatives[i], None)}
           : i \in DOMAIN policy.alternatives \ MetAlternatives(policy, e)}

ServiceErrors(q, e) ==
    (UNION {r.errors : r \in Range(e.direct)})
    \cup ConflictErrors(Contributed(q.policy, e))
    \cup When(q.policy.proof /\ ~q.presented, GlobalViolation("PresentationProofRequired"))
    \cup AlternativeErrors(q.policy, e) \cup HolderErrors(q) \cup ProofTimeErrors(q)
    \cup ExternalErrors(q) \cup CountErrors(q)

\* The credential obligations that are met, and those that are not.
MetObligations(policy, e) ==
    {<<"requirement", k>> : k \in {j \in Satisfied(e.direct) : policy.requirements[j].required}}
        \cup {<<"alternative", i>> : i \in MetAlternatives(policy, e)}
Obligations(policy) ==
    {<<"requirement", k>> : k \in {j \in DOMAIN policy.requirements : policy.requirements[j].required}}
        \cup {<<"alternative", i>> : i \in DOMAIN policy.alternatives}

\* An error that is not about a requirement denies.
Decision(met, obligations, errors) ==
    IF \E v \in errors : v.requirement = None THEN "Deny"
    ELSE IF met = obligations THEN "Allow"
    ELSE IF met # {} THEN "ManualReview" ELSE "Deny"

Answer(decision, errors, claims) ==
    [decision |-> decision, errors |-> errors, claims |-> IF decision = "Allow" THEN claims ELSE {}]
Judged(q, e, errors) ==
    Answer(Decision(MetObligations(q.policy, e), Obligations(q.policy), errors), errors, Contributed(q.policy, e))
Judge(q, e) == Judged(q, e, ServiceErrors(q, e))

evaluate_service_policy(q) ==
    IF ~validate_request(q) THEN [decision |-> "Invalid", errors |-> {}, claims |-> {}]
    ELSE Judge(q, Evaluated(q))

-----------------------------------------------------------------------------
(* The legacy policy evaluator (compat.rs) and its helpers: claim          *)
(* constraints, freshness, issuers, minimum disclosure and ranking.  Each  *)
(* projects its question onto the service kernel and maps the kernel's     *)
(* answer back.                                                            *)

NoClaims == [n \in {} |-> None]

\* neutral_policy and neutral_input: nothing is asked, nothing is shown.
neutral_policy ==
    [types |-> <<>>, required |-> <<>>, holder |-> "none", trust |-> FALSE, issuers |-> {},
     max_age |-> None, proof_age |-> 300, live |-> FALSE, single |-> FALSE, derived |-> NoClaims]
neutral_input ==
    [types |-> {}, claims |-> NoClaims, issuer |-> "legacy", trusted |-> TRUE, issued |-> None,
     proved |-> None, day |-> 0, bound |-> FALSE, checked |-> FALSE, not_revoked |-> "unknown",
     count |-> 1]

\* The required claims are a list, and an input has all its parts.
ASSUME LegacyAssumption ==
    \A q \in LegacyRequests : /\ q.policy.required \in Seq(Range(q.policy.required))
                              /\ DOMAIN q.input = DOMAIN neutral_input /\ IsFiniteSet(DOMAIN q.input.claims)

-----------------------------------------------------------------------------
(* LegacyProjection::new.                                                  *)

\* The derived claim stands in for the asked one when it is there, the policy
\* accepts a predicate and no value is asked for.
selected_claim_name(policy, available, claim) ==
    IF /\ claim.predicate /\ claim.value = None
       /\ claim.name \in DOMAIN policy.derived
       /\ policy.derived[claim.name] \in available
    THEN policy.derived[claim.name]
    ELSE claim.name

empty_requirement(id, type) ==
    [id |-> id, template |-> type, required |-> TRUE, format |-> None, claims |-> <<>>,
     trust |-> FALSE, max_age |-> None, fresh |-> FALSE]

claim_requirement(id, claim, policy, input) ==
    LET name == selected_claim_name(policy, DOMAIN input.claims, claim) IN
    [empty_requirement(id, claim.type) EXCEPT !.claims =
        <<[name |-> name, required |-> TRUE,
           constraints |-> <<[name |-> name, type |-> IF claim.value = None THEN "Presence" ELSE "Equals",
                              value |-> claim.value, items |-> {}, language |-> {}]>>]>>]

projected_requirements(policy, input) ==
    <<empty_requirement(<<"global", 0>>, "any")>>
    \o [k \in DOMAIN policy.required |->
           claim_requirement(<<"claim", k>>, policy.required[k], policy, input)]

projected_policy(policy, requirements) ==
    LET bound_policy == policy.holder # "none" IN
    [requirements |-> requirements,
     alternatives |->
        IF policy.types = <<>> THEN <<>>
        ELSE <<[id |-> <<"types", 0>>, min |-> 1,
                requirements |-> [k \in DOMAIN policy.types |->
                    empty_requirement(<<"accepted", k>>, policy.types[k])]]>>,
     trust |-> policy.trust,
     holder |-> [required |-> bound_policy,
                 methods |-> IF bound_policy THEN {policy.holder} ELSE {},
                 profiles |-> {}, challenge |-> FALSE, audience |-> FALSE, replay |-> FALSE,
                 max_age |-> IF bound_policy THEN policy.proof_age ELSE None],
     freshness |-> [max_age |-> policy.max_age, not_revoked |-> policy.live, grace |-> None],
     issuer |-> None, issuers |-> policy.issuers, single |-> policy.single, proof |-> FALSE]

projected_credential(input) ==
    [id |-> 1, templates |-> input.types \cup {"any"}, format |-> "legacy", claims |-> input.claims,
     issuer |-> input.issuer, signed |-> TRUE, trusted |-> input.trusted, level |-> None,
     compliance |-> {}, accreditations |-> {}, issued |-> input.issued,
     checked |-> IF input.checked THEN input.day ELSE None,
     not_revoked |-> input.not_revoked]

Projection(policy, input) ==
    [policy |-> projected_policy(policy, projected_requirements(policy, input)),
     credentials |-> {projected_credential(input)},
     day |-> input.day, presented |-> FALSE, bound |-> input.bound,
     method |-> IF input.bound /\ policy.holder # "none" THEN policy.holder ELSE None, profile |-> None,
     challenge |-> FALSE, audience |-> FALSE, replay |-> FALSE, proved |-> input.proved,
     external |-> "absent", count |-> input.count]

-----------------------------------------------------------------------------
(* PolicyEvaluator::evaluate: the kernel's answer, mapped back.            *)

ClaimCodes == {"CredentialMissing", "ClaimMissing", "ClaimConstraintFailed"}

\* map_error: the legacy code and the component of a violation.  A missing
\* credential of the requirement that carries the global facts is dropped.
LegacyError(code, component) == [code |-> code, component |-> component]
map_error(v) ==
    CASE \/ v.code = "AlternativeRequirementFailed"
         \/ v.code = "CredentialMissing" /\ v.requirement[1] = "accepted" ->
            {LegacyError("CredentialTypeNotAccepted", "CredentialType")}
      [] v.code \in ClaimCodes /\ v.requirement[1] = "claim" ->
            {LegacyError("ClaimRequirementNotSatisfied", "Claims")}
      [] v.code \in ClaimCodes /\ v.requirement[1] = "global" -> {}
      [] v.code = "IssuerNotAllowed" -> {LegacyError("IssuerNotAllowed", "Issuer")}
      [] v.code = "TrustProfileNotVerified" -> {LegacyError("IssuerNotTrusted", "Issuer")}
      [] v.code \in {"PresentationProofRequired", "HolderBindingRequired",
                     "HolderBindingMethodNotAllowed", "ProofProfileNotAllowed",
                     "ChallengeBindingRequired", "AudienceBindingRequired",
                     "ReplayDetectionRequired"} ->
            {LegacyError("HolderBindingRequired", "HolderBinding")}
      [] v.code \in {"CredentialTimestampMissing", "CredentialStale", "CredentialTimestampFuture"} ->
            {LegacyError(v.code, "CredentialFreshness")}
      [] v.code \in {"ProofTimestampMissing", "ProofStale", "ProofTimestampFuture"} ->
            {LegacyError(v.code, "ProofFreshness")}
      [] v.code \in {"RevocationCheckRequired", "RevocationEvidenceStale"} ->
            {LegacyError("RevocationCheckRequired", "Revocation")}
      [] v.code \in {"RevocationStatusUnknown", "CredentialRevoked"} ->
            {LegacyError(v.code, "Revocation")}
      [] v.code = "SinglePresentationRequired" -> {LegacyError(v.code, "PresentationCount")}
      [] OTHER -> {LegacyError("InvalidPolicy", "Claims")}

\* Which components a policy asks about; Claims always applies.
Applicable(policy, input) ==
    {"Claims"}
    \cup When(policy.types # <<>>, "CredentialType")
    \cup When(policy.trust \/ policy.issuers # {}, "Issuer")
    \cup (IF policy.holder # "none" THEN {"HolderBinding", "ProofFreshness"} ELSE {})
    \cup When(policy.max_age # None \/ (input.issued # None /\ input.issued > input.day),
              "CredentialFreshness")
    \cup When(policy.live \/ input.not_revoked # "unknown", "Revocation")
    \cup When(policy.single, "PresentationCount")

Components == {"CredentialType", "Claims", "Issuer", "HolderBinding", "CredentialFreshness",
               "ProofFreshness", "Revocation", "PresentationCount"}

component_statuses(policy, input, errors) ==
    [c \in Components |->
        IF \E e \in errors : e.component = c THEN "Failed"
        ELSE IF c \in Applicable(policy, input) THEN "Passed" ELSE "NotApplicable"]

\* MinimumDisclosureResolver::resolve
resolve(policy, available) ==
    {selected_claim_name(policy, available, policy.required[k]) : k \in DOMAIN policy.required}
        \cap available

\* The indices of the required claims the kernel did not find satisfied.
missing_claims(violations) ==
    {v.requirement[2] : v \in {u \in violations : u.code \in ClaimCodes /\ u.requirement[1] = "claim"}}

\* The kernel's answer in the legacy evaluator's terms
LegacyAnswer(policy, input, canonical, errors) ==
    [satisfied |-> canonical.decision = "Allow",
     errors |-> errors,
     statuses |-> component_statuses(policy, input, errors),
     missing |-> missing_claims(canonical.errors),
     disclosure |-> IF canonical.decision = "Allow" THEN resolve(policy, DOMAIN input.claims) ELSE {}]
FromCanonical(policy, input, canonical) ==
    LegacyAnswer(policy, input, canonical,
                 IF canonical.decision = "Invalid" THEN {LegacyError("InvalidPolicy", "Claims")}
                 ELSE UNION {map_error(v) : v \in canonical.errors})
evaluate(policy, input) ==
    FromCanonical(policy, input, evaluate_service_policy(Projection(policy, input)))

-----------------------------------------------------------------------------
(* The helpers that ask one question each.                                 *)

\* ClaimConstraintEvaluator::evaluate_for_credential_types
evaluate_for_credential_types(policy, claims, types) ==
    LET asked == [neutral_policy EXCEPT !.required = policy.required, !.derived = policy.derived]
        input == [neutral_input EXCEPT !.claims = claims, !.types = types]
        alone(k) == evaluate([asked EXCEPT !.required = <<policy.required[k]>>], input).satisfied IN
    [satisfied |-> evaluate(asked, input).satisfied,
     met |-> {k \in DOMAIN policy.required : alone(k)}]

\* FreshnessChecker: map_freshness_result
FreshnessOf(result, future, stale) ==
    IF \E e \in result.errors : e.code = future THEN "InvalidFuture"
    ELSE IF \E e \in result.errors : e.code = stale THEN "Stale"
    ELSE IF result.satisfied THEN "Fresh" ELSE "InvalidFuture"
check_credential_age(policy, issued, day) ==
    FreshnessOf(evaluate([neutral_policy EXCEPT !.max_age = policy.max_age],
                         [neutral_input EXCEPT !.issued = issued, !.day = day]),
                "CredentialTimestampFuture", "CredentialStale")
check_proof_age(policy, proved, day) ==
    FreshnessOf(evaluate([neutral_policy EXCEPT !.holder = "device_key", !.proof_age = policy.proof_age],
                         [neutral_input EXCEPT !.proved = proved, !.day = day, !.bound = TRUE]),
                "ProofTimestampFuture", "ProofStale")

\* IssuerConstraintChecker::check_issuer
check_issuer(policy, issuer, trusted) ==
    LET result == evaluate([neutral_policy EXCEPT !.trust = policy.trust, !.issuers = policy.issuers],
                           [neutral_input EXCEPT !.issuer = issuer, !.trusted = trusted]) IN
    IF \E e \in result.errors : e.code = "IssuerNotAllowed" THEN "NotAllowed"
    ELSE IF result.satisfied THEN "Trusted" ELSE "NotTrusted"

\* CredentialRanker::rank: the comparison that sorts a before b.  The custom
\* score weighs freshness within a year, trust and the number of claims; a
\* credential from the future counts as a year old there, and only there.
Score(c, weights, day) ==
    LET age == IF c.issued > day THEN YearLength ELSE Min({day - c.issued, YearLength}) IN
    weights.freshness * (YearLength - age) + YearLength * (weights.trust * c.level + weights.claims * c.claims)
Lexicographic(pairs, tie) ==
    LET decided == {k \in DOMAIN pairs : pairs[k][1] # pairs[k][2]} IN
    IF decided = {} THEN tie ELSE pairs[Min(decided)][1] < pairs[Min(decided)][2]
RanksBefore(strategy, weights, a, b, day) ==
    LET newest == <<-a.issued, -b.issued>>
        issuer == <<a.issuer, b.issuer>> IN
    Lexicographic(CASE strategy = "FreshestFirst" -> <<newest, issuer>>
                    [] strategy = "HighestTrustFirst" -> <<<<-a.level, -b.level>>, newest, issuer>>
                    [] strategy = "MinimumClaimsFirst" -> <<<<a.claims, b.claims>>, newest, issuer>>
                    [] strategy = "Custom" ->
                          <<<<-Score(a, weights, day), -Score(b, weights, day)>>, issuer>>,
                  a.id < b.id)

-----------------------------------------------------------------------------
(* One request at a time is put to an evaluator.                           *)

VARIABLES
    asked,          \* [to |-> "service" or "legacy", request]
    answer          \* its result, None before

vars == <<asked, answer>>

Init ==
    /\ \/ \E q \in ServiceRequests : asked = [to |-> "service", request |-> q]
       \/ \E q \in LegacyRequests : asked = [to |-> "legacy", request |-> q]
    /\ answer = None

AskService ==
    /\ answer = None /\ asked.to = "service"
    /\ answer' = evaluate_service_policy(asked.request)
    /\ UNCHANGED asked

AskLegacy ==
    /\ answer = None /\ asked.to = "legacy"
    /\ answer' = evaluate(asked.request.policy, asked.request.input)
    /\ UNCHANGED asked

Next == AskService \/ AskLegacy

\* A credential that may stand for a requirement, said without the kernel's
\* errors: every limit, list and constraint that applies is respected.
Fits(r, q, c) ==
    LET limits == {r.max_age} \cup (IF q.policy.freshness = None THEN {} ELSE {q.policy.freshness.max_age})
        issuer == q.policy.issuer
        grace == q.policy.freshness.grace IN
    /\ c.signed /\ c.not_revoked # "no"
    /\ r.template # None => r.template \in c.templates
    /\ r.format # None => canonical_credential_format(r.format) = canonical_credential_format(c.format)
    /\ r.trust \/ q.policy.trust => c.trusted
    /\ q.policy.issuers = {} \/ c.issuer \in q.policy.issuers
    /\ issuer # None => /\ issuer.level # None => c.level # None /\ c.level >= issuer.level
                        /\ issuer.compliance \subseteq c.compliance
                        /\ issuer.accreditations \subseteq c.accreditations
    /\ c.issued # None => c.issued <= q.day
    /\ r.fresh => c.issued # None
    /\ \A limit \in limits \ {None} : c.issued # None /\ c.issued >= q.day - limit
    /\ q.policy.freshness # None /\ q.policy.freshness.not_revoked =>
          /\ c.not_revoked = "yes" /\ c.checked # None /\ c.checked <= q.day
          /\ grace # None => c.checked >= q.day - grace
    /\ \A k \in DOMAIN r.claims :
          /\ r.claims[k].required => Presented(c, r.claims[k].name) # None
          /\ \A j \in DOMAIN r.claims[k].constraints :
                evaluate_constraint(r.claims[k].constraints[j], Presented(c, r.claims[k].name), q.day)

\* What a policy asks of a presentation as a whole.
WholeFits(q) ==
    LET holder == q.policy.holder IN
    /\ holder.required =>
          /\ q.bound
          /\ holder.methods = {} \/ q.method \in holder.methods
          /\ holder.profiles = {} \/ q.profile \in holder.profiles
          /\ holder.challenge => q.challenge
          /\ holder.audience => q.audience
          /\ holder.replay => q.replay
          /\ holder.max_age # None => q.proved # None /\ q.proved >= q.day - holder.max_age
    /\ q.proved # None => q.proved <= q.day
    /\ q.policy.proof => q.presented
    /\ q.policy.single => (IF q.count = None THEN Cardinality(q.credentials) ELSE q.count) = 1
    /\ q.external \in {"absent", "allowed"}

\* All a policy asks: each required requirement and enough requirements of
\* each alternative have a credential that fits.
Met(r, q) == \E c \in q.credentials : Fits(r, q, c)
Owed(q) ==
    /\ \A i \in DOMAIN q.policy.requirements :
          q.policy.requirements[i].required => Met(q.policy.requirements[i], q)
    /\ \A i \in DOMAIN q.policy.alternatives :
          Cardinality({k \in DOMAIN q.policy.alternatives[i].requirements :
                          Met(q.policy.alternatives[i].requirements[k], q)})
              >= q.policy.alternatives[i].min
    /\ WholeFits(q)

\* The credentials that fit something say the same of every claim they share.
Agree(q) ==
    \A r, s \in Requirements(q.policy) : \A c, d \in q.credentials :
        Fits(r, q, c) /\ Fits(s, q, d) =>
            \A n \in DOMAIN c.claims \cap DOMAIN d.claims : c.claims[n] = d.claims[n]

\* What a decision on a request has to be worth
Justified(q, a) ==
    /\ a.decision # "Allow" => a.claims = {}
    /\ a.decision = "Allow" =>
          /\ Owed(q)
          /\ \A x, y \in a.claims : x.name = y.name => x = y
          /\ \A x \in a.claims : \E r \in Requirements(q.policy) : \E c \in q.credentials :
                Fits(r, q, c) /\ x.name \in DOMAIN c.claims /\ c.claims[x.name] = x.value
    /\ validate_request(q) /\ Owed(q) /\ Agree(q) => a.decision = "Allow"

\* The service kernel allows only what the presentation justifies: each
\* required requirement and enough requirements of each alternative have a
\* credential that respects every limit, list and claim constraint, and the
\* holder, the proof and the authorisation besides are as asked; what is
\* released is one value per claim, shown by a credential that fits. And it
\* refuses nothing it need not: a well-formed request that has all of this
\* and no two credentials that disagree is allowed, whichever credentials it
\* holds besides (policy/service.rs, evaluate_service_policy).
AllowIsJustified == answer # None /\ asked.to = "service" => Justified(asked.request, answer)

\* The minimum of an answer is accepted again, and is its own minimum; without
\* a decision in favour there is an error and nothing to disclose.
Sufficient(q, a) ==
    LET shown == [n \in a.disclosure |-> q.input.claims[n]] IN
    /\ a.satisfied =>
          \E again \in {evaluate(q.policy, [q.input EXCEPT !.claims = shown])} :
             again.satisfied /\ again.disclosure = a.disclosure
    /\ ~a.satisfied => a.disclosure = {} /\ a.errors # {}

\* A holder who discloses only the minimum the legacy evaluator computed is
\* still accepted, with the same minimum (policy/disclosure.rs, resolve).
DisclosureSuffices == answer # None /\ asked.to = "legacy" => Sufficient(asked.request, answer)
===============================================================================
