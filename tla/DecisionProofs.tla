----------------------------- MODULE DecisionProofs -----------------------------
(***************************************************************************)
(* For any policies, requests, facts and presentation definitions: what    *)
(* the policy kernel allows its credentials justify, what an application   *)
(* is approved on the facts in force back, and a presentation that passes  *)
(* answers what was asked.                                                 *)
(***************************************************************************)
EXTENDS MCDecisions, FiniteSetTheorems, NaturalsInduction, WellFoundedInduction, SequenceTheorems, TLAPS

\* A set of naturals that is not empty has a least element.
LEMMA Least ==
    ASSUME NEW S, S \subseteq Nat, S # {}
    PROVE  \E x \in S : \A y \in S : x <= y
<1> DEFINE Below == {ss \in Nat \X Nat : ss[1] < ss[2]}
<1>1. OpToRel(<, Nat) = Below
  BY Zenon DEF OpToRel
<1>2. PICK x \in S : \A y \in S : <<y, x>> \notin Below
  <2> HIDE DEF Below
  <2> QED BY <1>1, WFMin, NatLessThanWellFounded, Zenon
<1>3. ASSUME NEW y \in S PROVE x <= y
  <2>1. x \in Nat /\ y \in Nat
    OBVIOUS
  <2>2. ~(y < x)
    BY <1>2, <2>1
  <2> QED
    BY <2>1, <2>2
<1> QED
  BY <1>3

\* The values of a function on a finite set are finitely many.
LEMMA FiniteImage ==
    ASSUME NEW S, IsFiniteSet(S), NEW f
    PROVE  IsFiniteSet({f[x] : x \in S})
<1> DEFINE T == {f[x] : x \in S}
           g == [x \in S |-> f[x]]
<1>1. g \in Surjection(S, T)
  BY DEF Surjection
<1> HIDE DEF g, T
<1>2. IsFiniteSet(T)
  BY <1>1, FS_Surjection
<1> QED
  BY <1>2 DEF T

-----------------------------------------------------------------------------
(* Policies: the best candidate, and what its lack of errors says.         *)

\* Results that can be ranked have a best one, whatever their ids.
LEMMA BestExists ==
    ASSUME NEW R, R # {},
           \A x \in R : x.satisfied \in BOOLEAN /\ Cardinality(x.errors) \in Nat /\ x.credential \in Nat
    PROVE  \E best \in R : \A other \in R : ~BetterCandidate(other, best)
<1>1. PICK T \in SUBSET R :
        /\ T # {}
        /\ \A x \in R, y \in T : (x.satisfied => y.satisfied) /\ (x \notin T => ~x.satisfied /\ y.satisfied)
  <2>1. CASE \E x \in R : x.satisfied
    <3>1. {x \in R : x.satisfied} # {}
      BY <2>1
    <3> QED
      BY <3>1
  <2>2. CASE ~\E x \in R : x.satisfied
    BY <2>2
  <2> QED
    BY <2>1, <2>2
<1> DEFINE Sizes == {Cardinality(x.errors) : x \in T}
<1>2. PICK n \in Sizes : \A m \in Sizes : n <= m
  <2>1. Sizes # {} /\ Sizes \subseteq Nat
    BY <1>1
  <2> HIDE DEF Sizes
  <2> QED
    BY <2>1, Least
<1> DEFINE U == {x \in T : Cardinality(x.errors) = n}
           Ids == {x.credential : x \in U}
<1>3. PICK i \in Ids : \A j \in Ids : i <= j
  <2>1. Ids # {} /\ Ids \subseteq Nat
    BY <1>1, <1>2
  <2> HIDE DEF Ids
  <2> QED
    BY <2>1, Least
<1>4. PICK best \in U : best.credential = i
  BY <1>3
<1>5. ASSUME NEW other \in R PROVE ~BetterCandidate(other, best)
  <2>1. best \in T /\ best \in R /\ Cardinality(best.errors) = n /\ n \in Nat
    BY <1>1, <1>4
  <2>2. CASE other \notin T
    BY <1>1, <2>1, <2>2 DEF BetterCandidate
  <2>3. CASE other \in T
    <3>1. /\ other.satisfied = best.satisfied
          /\ n <= Cardinality(other.errors)
      BY <1>1, <1>2, <2>1, <2>3
    <3>2. Cardinality(other.errors) = n => best.credential <= other.credential
      BY <1>3, <1>4, <2>3
    <3> QED
      BY <2>1, <3>1, <3>2 DEF BetterCandidate
  <2> QED
    BY <2>2, <2>3
<1> QED
  BY <1>1, <1>4, <1>5

\* The claims of a requirement fail in finitely many ways.
LEMMA ClaimErrorsFinite ==
    ASSUME NEW r, RequirementTyped(r), NEW c, NEW day
    PROVE  IsFiniteSet(ClaimErrors(r, c, day))
<1> DEFINE Failed(k) == {i \in DOMAIN r.claims[k].constraints :
                            ~evaluate_constraint(r.claims[k].constraints[i], Presented(c, r.claims[k].name), day)}
           Broken(k) == {Violation("ClaimConstraintFailed", r, <<k, j>>) : j \in Failed(k)}
           Absent(k) == When(r.claims[k].required /\ Presented(c, r.claims[k].name) = None,
                             Violation("ClaimMissing", r, <<k, 0>>))
           f == [k \in DOMAIN r.claims |-> Broken(k) \cup Absent(k)]
<1>1. ASSUME NEW k \in DOMAIN r.claims PROVE IsFiniteSet(f[k])
  <2> DEFINE g == [j \in Failed(k) |-> Violation("ClaimConstraintFailed", r, <<k, j>>)]
  <2>1. IsFiniteSet(Failed(k))
    BY FS_Subset DEF RequirementTyped
  <2>2. IsFiniteSet({g[j] : j \in Failed(k)})
    <3> HIDE DEF g, Failed
    <3> QED BY <2>1, FiniteImage
  <2>3. {g[j] : j \in Failed(k)} = Broken(k)
    <3> HIDE DEF Failed
    <3> QED OBVIOUS
  <2>4. IsFiniteSet(Absent(k))
    BY FS_EmptySet, FS_Singleton DEF When
  <2>5. IsFiniteSet(Broken(k) \cup Absent(k))
    <3> HIDE DEF Broken, Absent, g, Failed
    <3> QED BY <2>2, <2>3, <2>4, FS_Union
  <2>6. f[k] = Broken(k) \cup Absent(k)
    <3> HIDE DEF Broken, Absent
    <3> QED OBVIOUS
  <2> QED
    <3> HIDE DEF f, Broken, Absent
    <3> QED BY <2>5, <2>6
<1>2. IsFiniteSet({f[k] : k \in DOMAIN r.claims})
  <2> HIDE DEF f
  <2> QED BY FiniteImage DEF RequirementTyped
<1>3. IsFiniteSet(UNION {f[k] : k \in DOMAIN r.claims})
  <2> HIDE DEF f
  <2> QED BY <1>1, <1>2, FS_UNION
<1>4. ClaimErrors(r, c, day) = UNION {f[k] : k \in DOMAIN r.claims}
  BY Zenon DEF ClaimErrors
<1> QED
  BY <1>3, <1>4

\* A credential fails a requirement in finitely many ways.
LEMMA CandidateErrorsFinite ==
    ASSUME NEW r, RequirementTyped(r), NEW p, NEW c, NEW day,
           p.issuer # None => IsFiniteSet(p.issuer.compliance) /\ IsFiniteSet(p.issuer.accreditations)
    PROVE  IsFiniteSet(CandidateErrors(r, p, c, day))
<1>1. \A S, T : IsFiniteSet(S) /\ IsFiniteSet(T) => IsFiniteSet(S \cup T)
  BY FS_Union
<1>2. ASSUME NEW x, NEW d PROVE IsFiniteSet(When(x, d))
  BY FS_EmptySet, FS_Singleton DEF When
<1>3. IsFiniteSet(apply_issuer_constraints(r, p, c))
  <2>1. CASE p.issuer = None
    BY <2>1, FS_EmptySet DEF apply_issuer_constraints
  <2>2. CASE p.issuer # None
    <3> DEFINE S == p.issuer.compliance \ c.compliance
               f == [s \in S |-> Violation("IssuerComplianceStatusMissing", r, <<s>>)]
               T == p.issuer.accreditations \ c.accreditations
               g == [a \in T |-> Violation("IssuerAccreditationMissing", r, <<a>>)]
               W == When(/\ p.issuer.level # None
                         /\ c.level = None \/ c.level < p.issuer.level,
                         Violation("IssuerTrustLevelInsufficient", r, None))
    <3>1. IsFiniteSet(S) /\ IsFiniteSet(T)
      BY <2>2, FS_Subset
    <3>2. IsFiniteSet({f[s] : s \in S}) /\ IsFiniteSet({g[a] : a \in T})
      <4> HIDE DEF f, g, S, T
      <4> QED BY <3>1, FiniteImage
    <3>3. IsFiniteSet(W)
      BY FS_EmptySet, FS_Singleton DEF When
    <3>4. IsFiniteSet(W \cup {f[s] : s \in S} \cup {g[a] : a \in T})
      <4> HIDE DEF f, g, S, T, W
      <4> QED BY <1>1, <3>2, <3>3
    <3>5. /\ {f[s] : s \in S} = {Violation("IssuerComplianceStatusMissing", r, <<s>>) : s \in S}
          /\ {g[a] : a \in T} = {Violation("IssuerAccreditationMissing", r, <<a>>) : a \in T}
      <4> HIDE DEF S, T
      <4> QED OBVIOUS
    <3>6. apply_issuer_constraints(r, p, c) = W \cup {f[s] : s \in S} \cup {g[a] : a \in T}
      <4>1. apply_issuer_constraints(r, p, c)
               = W \cup {Violation("IssuerComplianceStatusMissing", r, <<s>>) : s \in S}
                   \cup {Violation("IssuerAccreditationMissing", r, <<a>>) : a \in T}
        BY <2>2, Zenon DEF apply_issuer_constraints
      <4> HIDE DEF f, g, S, T, W
      <4> QED BY <3>5, <4>1
    <3> QED
      <4> HIDE DEF f, g, S, T, W
      <4> QED BY <3>4, <3>6
  <2> QED
    BY <2>1, <2>2
<1>4. IsFiniteSet(apply_freshness(r, p, c, day))
  <2>1. IsFiniteSet(IssuanceErrors(r, p, c, day))
    BY <1>2, FS_Singleton DEF IssuanceErrors
  <2>2. IsFiniteSet(RevocationErrors(r, p, c, day))
    BY <1>2, FS_EmptySet, FS_Singleton DEF RevocationErrors
  <2> QED
    BY <2>1, <2>2, FS_Union DEF apply_freshness
<1>5. IsFiniteSet(ClaimErrors(r, c, day))
  BY ClaimErrorsFinite
<1> QED
  BY <1>1, <1>2, <1>3, <1>4, <1>5 DEF CandidateErrors

\* The errors of a candidate name its requirement.
LEMMA CandidateErrorNames ==
    ASSUME NEW r, NEW p, NEW c, NEW day, NEW v \in CandidateErrors(r, p, c, day)
    PROVE  v.requirement = r.id
<1>1. CASE v \in ClaimErrors(r, c, day)
  BY <1>1 DEF ClaimErrors, When, Violation
<1>2. CASE v \in apply_freshness(r, p, c, day)
  BY <1>2 DEF apply_freshness, IssuanceErrors, RevocationErrors, When, Violation
<1>3. CASE v \in apply_issuer_constraints(r, p, c)
  BY <1>3 DEF apply_issuer_constraints, When, Violation
<1>4. CASE /\ v \notin ClaimErrors(r, c, day) /\ v \notin apply_freshness(r, p, c, day)
           /\ v \notin apply_issuer_constraints(r, p, c)
  <2>1. \E code \in {"SignatureInvalid", "CredentialFormatMismatch", "TrustProfileNotVerified", "IssuerNotAllowed"} :
           v = Violation(code, r, None)
    BY <1>4 DEF CandidateErrors, When
  <2> QED
    BY <2>1 DEF Violation
<1> QED
  BY <1>1, <1>2, <1>3, <1>4

\* The claims of a requirement leave no error when each is as it is asked for.
LEMMA NoClaimErrors ==
    ASSUME NEW r, NEW c, NEW day
    PROVE  ClaimErrors(r, c, day) = {} <=>
              \A k \in DOMAIN r.claims :
                 /\ r.claims[k].required => Presented(c, r.claims[k].name) # None
                 /\ \A j \in DOMAIN r.claims[k].constraints :
                       evaluate_constraint(r.claims[k].constraints[j], Presented(c, r.claims[k].name), day)
<1> DEFINE Failed(k) == {i \in DOMAIN r.claims[k].constraints :
                            ~evaluate_constraint(r.claims[k].constraints[i], Presented(c, r.claims[k].name), day)}
           Broken(k) == {Violation("ClaimConstraintFailed", r, <<k, j>>) : j \in Failed(k)}
           Absent(k) == When(r.claims[k].required /\ Presented(c, r.claims[k].name) = None,
                             Violation("ClaimMissing", r, <<k, 0>>))
<1>1. ClaimErrors(r, c, day) = UNION {Broken(k) \cup Absent(k) : k \in DOMAIN r.claims}
  BY Zenon DEF ClaimErrors
<1>2. ASSUME NEW k \in DOMAIN r.claims
      PROVE  Broken(k) = {} <=> \A j \in DOMAIN r.claims[k].constraints :
                evaluate_constraint(r.claims[k].constraints[j], Presented(c, r.claims[k].name), day)
  <2>1. Broken(k) = {} <=> Failed(k) = {}
    <3> HIDE DEF Failed
    <3> QED OBVIOUS
  <2>2. Failed(k) = {} <=> \A j \in DOMAIN r.claims[k].constraints :
                evaluate_constraint(r.claims[k].constraints[j], Presented(c, r.claims[k].name), day)
    OBVIOUS
  <2> HIDE DEF Failed, Broken
  <2> QED
    BY <2>1, <2>2
<1>3. ASSUME NEW k \in DOMAIN r.claims
      PROVE  Absent(k) = {} <=> (r.claims[k].required => Presented(c, r.claims[k].name) # None)
  BY DEF When
<1>4. ClaimErrors(r, c, day) = {} <=> \A k \in DOMAIN r.claims : Broken(k) = {} /\ Absent(k) = {}
  <2> HIDE DEF Broken, Absent
  <2> QED BY <1>1
<1> QED
  <2> HIDE DEF Broken, Absent
  <2> QED BY <1>2, <1>3, <1>4

\* A candidate without errors has every required claim.
LEMMA RequiredPresent ==
    ASSUME NEW r, NEW p, NEW c, NEW day, CandidateErrors(r, p, c, day) = {},
           NEW k \in DOMAIN r.claims, r.claims[k].required
    PROVE  r.claims[k].name \in DOMAIN c.claims
<1>1. ClaimErrors(r, c, day) = {}
  BY DEF CandidateErrors
<1>2. Presented(c, r.claims[k].name) # None
  BY <1>1, NoClaimErrors
<1> QED
  BY <1>2 DEF Presented

\* The age limit that applies is the stricter of those given.
LEMMA AgeLimit ==
    ASSUME NEW q \in ServiceRequests, NEW r, RequirementTyped(r),
           NEW limits, limits = {r.max_age} \cup (IF q.policy.freshness = None THEN {} ELSE {q.policy.freshness.max_age})
    PROVE  /\ limits \ {None} = {} => MaxAge(r, q.policy) = None
           /\ limits \ {None} # {} => /\ MaxAge(r, q.policy) \in limits \ {None} /\ limits \ {None} \subseteq Int
                                      /\ \A limit \in limits \ {None} : MaxAge(r, q.policy) <= limit
<1> DEFINE ages == {r.max_age, IF q.policy.freshness = None THEN None
                               ELSE q.policy.freshness.max_age} \ {None}
<1>1. /\ r.max_age \in Int \cup {None}
      /\ q.policy.freshness # None => q.policy.freshness.max_age \in Int \cup {None}
  BY RequestAssumption DEF RequirementTyped, OptionalInt
<1>2. ages = limits \ {None} /\ ages \subseteq Int
  BY <1>1
<1>3. MaxAge(r, q.policy) = IF ages = {} THEN None ELSE Min(ages)
  BY Zenon DEF MaxAge
<1>4. ASSUME ages # {} PROVE Min(ages) \in ages /\ \A y \in ages : Min(ages) <= y
  <2>1. PICK m : ages \subseteq {r.max_age, m}
    OBVIOUS
  <2>2. \A x, y \in ages : x <= y \/ y <= x
    BY <1>2
  <2>3. \E x \in ages : \A y \in ages : x <= y
    <3>0. \A x \in ages : x <= x
      BY <1>2
    <3> QED
      BY <1>4, <2>1, <2>2, <3>0
  <2> HIDE DEF ages
  <2> QED
    BY <2>3 DEF Min
<1> HIDE DEF ages
<1> QED
  BY <1>2, <1>3, <1>4

\* The issuer constraints leave no error when each is respected.
LEMMA NoIssuerErrors ==
    ASSUME NEW q \in ServiceRequests, NEW r, NEW c \in q.credentials
    PROVE  apply_issuer_constraints(r, q.policy, c) = {} <=>
              (q.policy.issuer # None =>
                 /\ q.policy.issuer.level # None => c.level # None /\ c.level >= q.policy.issuer.level
                 /\ q.policy.issuer.compliance \subseteq c.compliance
                 /\ q.policy.issuer.accreditations \subseteq c.accreditations)
<1>1. CASE q.policy.issuer = None
  BY <1>1 DEF apply_issuer_constraints
<1>2. CASE q.policy.issuer # None
  <2> DEFINE issuer == q.policy.issuer
             L == When(/\ issuer.level # None
                       /\ c.level = None \/ c.level < issuer.level,
                       Violation("IssuerTrustLevelInsufficient", r, None))
             C == {Violation("IssuerComplianceStatusMissing", r, <<s>>) : s \in issuer.compliance \ c.compliance}
             A == {Violation("IssuerAccreditationMissing", r, <<a>>) : a \in issuer.accreditations \ c.accreditations}
  <2>1. apply_issuer_constraints(r, q.policy, c) = L \cup C \cup A
    BY <1>2, Zenon DEF apply_issuer_constraints
  <2>2. c.level \in Int \cup {None} /\ issuer.level \in Int \cup {None}
    BY <1>2, RequestAssumption DEF OptionalInt
  <2>3. L = {} <=> (issuer.level # None => c.level # None /\ c.level >= issuer.level)
    <3>1. L = {} <=> ~(/\ issuer.level # None
                       /\ c.level = None \/ c.level < issuer.level)
      BY DEF When
    <3> HIDE DEF L, issuer
    <3> QED
      BY <2>2, <3>1
  <2>4. C = {} <=> issuer.compliance \subseteq c.compliance
    OBVIOUS
  <2>5. A = {} <=> issuer.accreditations \subseteq c.accreditations
    OBVIOUS
  <2>6. apply_issuer_constraints(r, q.policy, c) = {} <=> L = {} /\ C = {} /\ A = {}
    <3> HIDE DEF L, C, A
    <3> QED BY <2>1
  <2> QED
    <3> HIDE DEF L, C, A
    <3> QED BY <1>2, <2>3, <2>4, <2>5, <2>6
<1> QED
  BY <1>1, <1>2

\* Issue and revocation leave no error when the times and the status are as asked.
LEMMA NoFreshnessErrors ==
    ASSUME NEW q \in ServiceRequests, NEW r, RequirementTyped(r), NEW c \in q.credentials,
           NEW limits, limits = {r.max_age} \cup (IF q.policy.freshness = None THEN {} ELSE {q.policy.freshness.max_age})
    PROVE  apply_freshness(r, q.policy, c, q.day) = {} <=>
              /\ c.not_revoked # "no"
              /\ c.issued # None => c.issued <= q.day
              /\ r.fresh => c.issued # None
              /\ \A limit \in limits \ {None} : c.issued # None /\ c.issued >= q.day - limit
              /\ q.policy.freshness # None /\ q.policy.freshness.not_revoked =>
                    /\ c.not_revoked = "yes" /\ c.checked # None /\ c.checked <= q.day
                    /\ q.policy.freshness.grace # None => c.checked >= q.day - q.policy.freshness.grace
<1> DEFINE limit == MaxAge(r, q.policy)
           given == limits \ {None}
<1>1. /\ q.day \in Int /\ c.issued \in Int \cup {None} /\ c.checked \in Int \cup {None}
      /\ c.not_revoked \in {"yes", "no", "unknown"}
      /\ q.policy.freshness # None => q.policy.freshness.grace \in Int \cup {None}
  BY RequestAssumption DEF OptionalInt
<1>2. /\ given = {} => limit = None
      /\ given # {} => limit \in given /\ given \subseteq Int /\ \A l \in given : limit <= l
  BY AgeLimit
<1>3. IssuanceErrors(r, q.policy, c, q.day) = {} <=>
         /\ c.issued # None => c.issued <= q.day
         /\ r.fresh => c.issued # None
         /\ limit # None => c.issued # None /\ ~(q.day - c.issued > limit)
  <2> HIDE DEF limit
  <2>1. CASE c.issued = None
    BY <2>1 DEF IssuanceErrors, When, limit
  <2>2. CASE c.issued # None /\ c.issued > q.day
    BY <1>1, <2>2 DEF IssuanceErrors
  <2>3. CASE c.issued # None /\ ~(c.issued > q.day)
    BY <1>1, <2>3 DEF IssuanceErrors, When, limit
  <2> QED
    BY <2>1, <2>2, <2>3
<1>4. (limit # None => c.issued # None /\ ~(q.day - c.issued > limit))
         <=> \A l \in given : c.issued # None /\ c.issued >= q.day - l
  <2>1. None \notin given
    OBVIOUS
  <2> HIDE DEF limit, given
  <2>2. CASE given = {}
    BY <1>2, <2>2
  <2>3. CASE given # {}
    <3>1. limit \in Int /\ limit # None /\ limit \in given
      BY <1>2, <2>1, <2>3
    <3>2. ASSUME c.issued # None, ~(q.day - c.issued > limit), NEW l \in given
          PROVE  c.issued >= q.day - l
      BY <1>1, <1>2, <3>1, <3>2
    <3>3. ASSUME c.issued # None, c.issued >= q.day - limit PROVE ~(q.day - c.issued > limit)
      BY <1>1, <3>1, <3>3
    <3> QED
      BY <3>1, <3>2, <3>3
  <2> QED
    BY <2>2, <2>3
<1>5. RevocationErrors(r, q.policy, c, q.day) = {} <=>
         /\ c.not_revoked # "no"
         /\ q.policy.freshness # None /\ q.policy.freshness.not_revoked =>
               /\ c.not_revoked = "yes" /\ c.checked # None /\ c.checked <= q.day
               /\ q.policy.freshness.grace # None => c.checked >= q.day - q.policy.freshness.grace
  <2>1. CASE c.not_revoked = "no"
    BY <2>1 DEF RevocationErrors
  <2>2. CASE c.not_revoked # "no" /\ (q.policy.freshness = None \/ ~q.policy.freshness.not_revoked)
    BY <2>2 DEF RevocationErrors
  <2>3. CASE c.not_revoked # "no" /\ q.policy.freshness # None /\ q.policy.freshness.not_revoked
    <3> DEFINE late == c.checked > q.day \/ (q.policy.freshness.grace # None /\ q.day - c.checked > q.policy.freshness.grace)
    <3>1. RevocationErrors(r, q.policy, c, q.day) = {} <=> c.checked # None /\ ~late /\ c.not_revoked # "unknown"
      BY <2>3 DEF RevocationErrors, When
    <3>2. c.checked # None =>
             (~late <=> c.checked <= q.day /\ (q.policy.freshness.grace # None => c.checked >= q.day - q.policy.freshness.grace))
      BY <1>1, <2>3
    <3> HIDE DEF late
    <3> QED
      BY <1>1, <2>3, <3>1, <3>2
  <2> QED
    BY <2>1, <2>2, <2>3
<1>6. apply_freshness(r, q.policy, c, q.day) = {} <=>
         IssuanceErrors(r, q.policy, c, q.day) = {} /\ RevocationErrors(r, q.policy, c, q.day) = {}
  BY DEF apply_freshness
<1> QED
  <2> HIDE DEF limit
  <2> QED BY <1>3, <1>4, <1>5, <1>6

\* A candidate has no errors exactly when it fits.
LEMMA NoErrorsFit ==
    ASSUME NEW q \in ServiceRequests, NEW r, RequirementTyped(r), NEW c \in q.credentials
    PROVE  Fits(r, q, c) <=> /\ CandidateErrors(r, q.policy, c, q.day) = {}
                             /\ r.template = None \/ r.template \in c.templates
<1> DEFINE limits == {r.max_age} \cup (IF q.policy.freshness = None THEN {} ELSE {q.policy.freshness.max_age})
           Issuer == q.policy.issuer # None =>
                        /\ q.policy.issuer.level # None => c.level # None /\ c.level >= q.policy.issuer.level
                        /\ q.policy.issuer.compliance \subseteq c.compliance
                        /\ q.policy.issuer.accreditations \subseteq c.accreditations
           Fresh == /\ c.not_revoked # "no"
                    /\ c.issued # None => c.issued <= q.day
                    /\ r.fresh => c.issued # None
                    /\ \A limit \in limits \ {None} : c.issued # None /\ c.issued >= q.day - limit
                    /\ q.policy.freshness # None /\ q.policy.freshness.not_revoked =>
                          /\ c.not_revoked = "yes" /\ c.checked # None /\ c.checked <= q.day
                          /\ q.policy.freshness.grace # None => c.checked >= q.day - q.policy.freshness.grace
           Claims == \A k \in DOMAIN r.claims :
                        /\ r.claims[k].required => Presented(c, r.claims[k].name) # None
                        /\ \A j \in DOMAIN r.claims[k].constraints :
                              evaluate_constraint(r.claims[k].constraints[j], Presented(c, r.claims[k].name), q.day)
           Format == r.format # None => canonical_credential_format(r.format) = canonical_credential_format(c.format)
<1>1. CandidateErrors(r, q.policy, c, q.day) = {} <=>
         /\ c.signed /\ Format
         /\ r.trust \/ q.policy.trust => c.trusted
         /\ q.policy.issuers = {} \/ c.issuer \in q.policy.issuers
         /\ apply_issuer_constraints(r, q.policy, c) = {}
         /\ apply_freshness(r, q.policy, c, q.day) = {}
         /\ ClaimErrors(r, c, q.day) = {}
  BY DEF CandidateErrors, When
<1>2. /\ apply_issuer_constraints(r, q.policy, c) = {} <=> Issuer
      /\ ClaimErrors(r, c, q.day) = {} <=> Claims
  BY NoIssuerErrors, NoClaimErrors, Zenon
<1>3. apply_freshness(r, q.policy, c, q.day) = {} <=> Fresh
  <2>1. limits = {r.max_age} \cup (IF q.policy.freshness = None THEN {} ELSE {q.policy.freshness.max_age})
    OBVIOUS
  <2> HIDE DEF limits
  <2> QED
    BY <2>1, NoFreshnessErrors
<1>4. Fits(r, q, c) <=> /\ c.signed /\ Format
                        /\ r.template # None => r.template \in c.templates
                        /\ r.trust \/ q.policy.trust => c.trusted
                        /\ q.policy.issuers = {} \/ c.issuer \in q.policy.issuers
                        /\ Issuer /\ Fresh /\ Claims
  BY Zenon DEF Fits
<1> HIDE DEF limits, Issuer, Fresh, Claims, Format
<1> QED
  BY <1>1, <1>2, <1>3, <1>4

\* A requirement is satisfied exactly when some credential fits, and what
\* satisfies it shows its own claims.
LEMMA SatisfiedFits ==
    ASSUME NEW q \in ServiceRequests, NEW r, RequirementTyped(r)
    PROVE  /\ Met(r, q) => evaluate_requirement(r, q.policy, q.credentials, q.day).satisfied
           /\ evaluate_requirement(r, q.policy, q.credentials, q.day).satisfied =>
                 \E c \in q.credentials :
                    /\ Fits(r, q, c)
                    /\ evaluate_requirement(r, q.policy, q.credentials, q.day).shown = ShownClaims(r, c)
           /\ \A v \in evaluate_requirement(r, q.policy, q.credentials, q.day).errors : v.requirement = r.id
<1> DEFINE Able == {d \in q.credentials : r.template = None \/ r.template \in d.templates}
           results == {evaluate_candidate(r, q.policy, c, q.day) : c \in Able}
           result == evaluate_requirement(r, q.policy, q.credentials, q.day)
           missing == [requirement |-> r.id, credential |-> None, satisfied |-> FALSE,
                       shown |-> {}, errors |-> {Violation("CredentialMissing", r, None)}]
<1>1. result = IF results = {} THEN missing
               ELSE CHOOSE best \in results : \A other \in results : ~BetterCandidate(other, best)
  BY Zenon DEF evaluate_requirement
<1>2. ASSUME NEW c \in Able
      PROVE  LET x == evaluate_candidate(r, q.policy, c, q.day) IN
             /\ x.satisfied = (CandidateErrors(r, q.policy, c, q.day) = {}) /\ x.satisfied \in BOOLEAN
             /\ Cardinality(x.errors) \in Nat /\ x.credential \in Nat
             /\ x.shown = ShownClaims(r, c) /\ x.errors = CandidateErrors(r, q.policy, c, q.day)
  <2>1. c.id \in Nat
    BY RequestAssumption
  <2>2. IsFiniteSet(CandidateErrors(r, q.policy, c, q.day))
    BY CandidateErrorsFinite, RequestAssumption
  <2> QED
    BY <2>1, <2>2, FS_CardinalityType DEF evaluate_candidate
<1>3. results # {} => result \in results /\ \A other \in results : ~BetterCandidate(other, result)
  <2>1. \A x \in results : x.satisfied \in BOOLEAN /\ Cardinality(x.errors) \in Nat /\ x.credential \in Nat
    BY <1>2
  <2> HIDE DEF results, result
  <2>2. results # {} => \E best \in results : \A other \in results : ~BetterCandidate(other, best)
    BY <2>1, BestExists
  <2> QED
    BY <1>1, <2>2
<1>4. ~missing.satisfied /\ missing.errors = {Violation("CredentialMissing", r, None)}
  OBVIOUS
<1>5. ASSUME Met(r, q) PROVE result.satisfied
  <2>1. PICK c \in q.credentials : Fits(r, q, c)
    BY <1>5 DEF Met
  <2>2. c \in Able /\ CandidateErrors(r, q.policy, c, q.day) = {}
    BY <2>1, NoErrorsFit
  <2> DEFINE x == evaluate_candidate(r, q.policy, c, q.day)
  <2>3. x \in results /\ x.satisfied
    BY <1>2, <2>2
  <2>4. \A y \in results : y.satisfied \in BOOLEAN
    BY <1>2
  <2> HIDE DEF result, results, x
  <2>5. result \in results /\ ~BetterCandidate(x, result) /\ result.satisfied \in BOOLEAN /\ x.satisfied \in BOOLEAN
    BY <1>3, <2>3, <2>4
  <2> QED
    BY <2>3, <2>5 DEF BetterCandidate
<1>6. ASSUME result.satisfied
      PROVE  \E c \in q.credentials : Fits(r, q, c) /\ result.shown = ShownClaims(r, c)
  <2>1. results # {}
    <3> HIDE DEF result, results, missing
    <3> QED BY <1>1, <1>4, <1>6
  <2>2. PICK c \in Able : result = evaluate_candidate(r, q.policy, c, q.day)
    BY <1>3, <2>1
  <2>3. CandidateErrors(r, q.policy, c, q.day) = {} /\ result.shown = ShownClaims(r, c)
    BY <1>2, <1>6, <2>2
  <2> HIDE DEF result
  <2> QED
    BY <2>3, NoErrorsFit
<1>7. ASSUME NEW v \in result.errors PROVE v.requirement = r.id
  <2>1. CASE results = {}
    <3>1. v = Violation("CredentialMissing", r, None)
      <4> HIDE DEF result, results, missing
      <4> QED BY <1>1, <1>4, <1>7, <2>1
    <3> QED
      BY <3>1 DEF Violation
  <2>2. CASE results # {}
    <3>1. PICK c \in Able : result = evaluate_candidate(r, q.policy, c, q.day)
      BY <1>3, <2>2
    <3>2. v \in CandidateErrors(r, q.policy, c, q.day)
      BY <1>2, <1>7, <3>1
    <3> QED
      BY <3>2, CandidateErrorNames
  <2> QED
    BY <2>1, <2>2
<1> QED
  BY <1>5, <1>6, <1>7, Zenon

\* The errors that are about a presentation as a whole.
WholeErrors(q) ==
    When(q.policy.proof /\ ~q.presented, GlobalViolation("PresentationProofRequired"))
        \cup HolderErrors(q) \cup ProofTimeErrors(q) \cup ExternalErrors(q) \cup CountErrors(q)

\* They are there exactly when something asked of the whole is missing.
LEMMA NoWholeErrors ==
    ASSUME NEW q \in ServiceRequests
    PROVE  /\ WholeErrors(q) = {} <=> WholeFits(q)
           /\ \A v \in WholeErrors(q) : v.requirement = None
<1> DEFINE holder == q.policy.holder
           count == IF q.count = None THEN Cardinality(q.credentials) ELSE q.count
           Bound == /\ q.bound
                    /\ holder.methods = {} \/ q.method \in holder.methods
                    /\ holder.profiles = {} \/ q.profile \in holder.profiles
                    /\ holder.challenge => q.challenge
                    /\ holder.audience => q.audience
                    /\ holder.replay => q.replay
           Recent == holder.max_age # None => q.proved # None /\ q.proved >= q.day - holder.max_age
           P == When(q.policy.proof /\ ~q.presented, GlobalViolation("PresentationProofRequired"))
<1>1. /\ q.day \in Int /\ q.proved \in Int \cup {None} /\ holder.max_age \in Int \cup {None}
      /\ q.external \in {"absent", "unevaluated", "denied", "allowed"}
  BY RequestAssumption DEF OptionalInt
<1>2. P = {} <=> (q.policy.proof => q.presented)
  BY DEF When
<1>3. HolderErrors(q) = {} <=> (holder.required => Bound)
  <2>1. CASE ~holder.required
    BY <2>1 DEF HolderErrors
  <2>2. CASE holder.required /\ ~q.bound
    BY <2>2 DEF HolderErrors
  <2>3. CASE holder.required /\ q.bound
    BY <2>3 DEF HolderErrors, When
  <2> QED
    BY <2>1, <2>2, <2>3
<1>4. ProofTimeErrors(q) = {} <=> (q.proved # None => q.proved <= q.day) /\ (holder.required => Recent)
  <2>1. CASE q.proved = None
    BY <2>1 DEF ProofTimeErrors, When
  <2>2. CASE q.proved # None /\ q.proved > q.day
    BY <1>1, <2>2 DEF ProofTimeErrors
  <2>3. CASE q.proved # None /\ ~(q.proved > q.day)
    <3>1. CASE ~holder.required \/ holder.max_age = None
      BY <1>1, <2>3, <3>1 DEF ProofTimeErrors
    <3>2. CASE holder.required /\ holder.max_age # None
      <4>1. ProofTimeErrors(q) = {} <=> ~(q.day - q.proved > holder.max_age)
        BY <2>3, <3>2 DEF ProofTimeErrors, When
      <4>2. ~(q.day - q.proved > holder.max_age) <=> q.proved >= q.day - holder.max_age
        BY <1>1, <2>3, <3>2
      <4> QED
        BY <1>1, <2>3, <3>2, <4>1, <4>2
    <3> QED
      BY <3>1, <3>2
  <2> QED
    BY <2>1, <2>2, <2>3
<1>5. ExternalErrors(q) = {} <=> q.external \in {"absent", "allowed"}
  BY <1>1 DEF ExternalErrors
<1>6. CountErrors(q) = {} <=> (q.policy.single => count = 1)
  <2>1. CountErrors(q) = When(q.policy.single /\ count # 1, GlobalViolation("SinglePresentationRequired"))
    BY Zenon DEF CountErrors
  <2> HIDE DEF count
  <2> QED
    BY <2>1 DEF When
<1>7. WholeErrors(q) = P \cup HolderErrors(q) \cup ProofTimeErrors(q) \cup ExternalErrors(q) \cup CountErrors(q)
  BY Zenon DEF WholeErrors
<1>8. WholeFits(q) <=> /\ holder.required => Bound /\ Recent
                       /\ q.proved # None => q.proved <= q.day
                       /\ q.policy.proof => q.presented
                       /\ q.policy.single => count = 1
                       /\ q.external \in {"absent", "allowed"}
  BY Zenon DEF WholeFits
<1>9. ASSUME NEW v \in WholeErrors(q) PROVE v.requirement = None
  <2>1. \E code : v = GlobalViolation(code)
    <3>1. CASE v \in P
      BY <3>1 DEF When
    <3>2. CASE v \in HolderErrors(q)
      BY <3>2 DEF HolderErrors, When
    <3>3. CASE v \in ProofTimeErrors(q)
      BY <3>3 DEF ProofTimeErrors, When
    <3>4. CASE v \in ExternalErrors(q)
      BY <1>1, <3>4 DEF ExternalErrors
    <3>5. CASE v \in CountErrors(q)
      BY <3>5 DEF CountErrors, When
    <3> HIDE DEF P
    <3> QED
      BY <1>7, <3>1, <3>2, <3>3, <3>4, <3>5
  <2> QED
    BY <2>1 DEF GlobalViolation
<1>10. WholeErrors(q) = {} <=> /\ P = {} /\ HolderErrors(q) = {} /\ ProofTimeErrors(q) = {}
                               /\ ExternalErrors(q) = {} /\ CountErrors(q) = {}
  <2> HIDE DEF P
  <2> QED BY <1>7
<1> HIDE DEF holder, count, Bound, Recent, P
<1> QED
  BY <1>2, <1>3, <1>4, <1>5, <1>6, <1>8, <1>9, <1>10

\* Where the errors and the claims of an answer come from.
LEMMA AnswerParts ==
    ASSUME NEW q, NEW e
    PROVE  /\ ServiceErrors(q, e) = (UNION {r.errors : r \in Range(e.direct)}) \cup AlternativeErrors(q.policy, e)
                                        \cup ConflictErrors(Contributed(q.policy, e)) \cup WholeErrors(q)
           /\ \A x \in Contributed(q.policy, e) :
                 \/ \E k \in Satisfied(e.direct) : x \in e.direct[k].shown
                 \/ \E i \in MetAlternatives(q.policy, e) :
                       \E k \in Satisfied(e.alternatives[i]) : x \in e.alternatives[i][k].shown
<1>1. ServiceErrors(q, e) = (UNION {r.errors : r \in Range(e.direct)}) \cup AlternativeErrors(q.policy, e)
                                \cup ConflictErrors(Contributed(q.policy, e)) \cup WholeErrors(q)
  <2> DEFINE A == UNION {r.errors : r \in Range(e.direct)}
             B == When(q.policy.proof /\ ~q.presented, GlobalViolation("PresentationProofRequired"))
  <2>1. ServiceErrors(q, e) = A \cup ConflictErrors(Contributed(q.policy, e)) \cup B \cup AlternativeErrors(q.policy, e)
           \cup HolderErrors(q) \cup ProofTimeErrors(q) \cup ExternalErrors(q) \cup CountErrors(q)
    BY Zenon DEF ServiceErrors
  <2>2. WholeErrors(q) = B \cup HolderErrors(q) \cup ProofTimeErrors(q) \cup ExternalErrors(q) \cup CountErrors(q)
    BY Zenon DEF WholeErrors
  <2> HIDE DEF A, B
  <2>3. ServiceErrors(q, e) = A \cup AlternativeErrors(q.policy, e) \cup ConflictErrors(Contributed(q.policy, e)) \cup WholeErrors(q)
    BY <2>1, <2>2
  <2> QED
    BY <2>3, Zenon DEF A
<1>2. \A x \in Contributed(q.policy, e) :
                 \/ \E k \in Satisfied(e.direct) : x \in e.direct[k].shown
                 \/ \E i \in MetAlternatives(q.policy, e) :
                       \E k \in Satisfied(e.alternatives[i]) : x \in e.alternatives[i][k].shown
  <2> DEFINE Direct == {e.direct[k].shown : k \in Satisfied(e.direct)}
             Alternate(i) == {e.alternatives[i][k].shown : k \in Satisfied(e.alternatives[i])}
  <2>1. Contributed(q.policy, e) = (UNION Direct) \cup UNION {UNION Alternate(i) : i \in MetAlternatives(q.policy, e)}
    BY Zenon DEF Contributed
  <2>2. ASSUME NEW x \in UNION Direct PROVE \E k \in Satisfied(e.direct) : x \in e.direct[k].shown
    OBVIOUS
  <2>3. ASSUME NEW i, NEW x \in UNION Alternate(i)
        PROVE  \E k \in Satisfied(e.alternatives[i]) : x \in e.alternatives[i][k].shown
    OBVIOUS
  <2> HIDE DEF Direct, Alternate
  <2>4. ASSUME NEW x \in Contributed(q.policy, e)
        PROVE  x \in UNION Direct \/ \E i \in MetAlternatives(q.policy, e) : x \in UNION Alternate(i)
    BY <2>1
  <2> QED
    BY <2>2, <2>3, <2>4
<1> QED
  BY <1>1, <1>2, Zenon

\* What the service kernel answers is justified.
LEMMA ServiceJustified ==
    ASSUME NEW q \in ServiceRequests
    PROVE  Justified(q, evaluate_service_policy(q))
<1> DEFINE a == evaluate_service_policy(q)
           e == Evaluated(q)
           Shows(r, x) == \E c \in q.credentials :
                             Fits(r, q, c) /\ x.name \in DOMAIN c.claims /\ c.claims[x.name] = x.value
           AllMet == /\ \A i \in DOMAIN q.policy.requirements :
                           q.policy.requirements[i].required => Met(q.policy.requirements[i], q)
                     /\ \A i \in DOMAIN q.policy.alternatives :
                           Cardinality({k \in DOMAIN q.policy.alternatives[i].requirements :
                                           Met(q.policy.alternatives[i].requirements[k], q)})
                               >= q.policy.alternatives[i].min
           Good == Decision(MetObligations(q.policy, e), Obligations(q.policy), ServiceErrors(q, e)) = "Allow"
<1>1. CASE ~validate_request(q)
  <2>1. a = [decision |-> "Invalid", errors |-> {}, claims |-> {}]
    BY <1>1 DEF evaluate_service_policy
  <2>2. a.decision # "Allow" /\ a.claims = {}
    BY <2>1
  <2> QED
    BY <1>1, <2>2, Zenon DEF Justified
<1>2. CASE validate_request(q)
  <2>1. a = Answer(Decision(MetObligations(q.policy, e), Obligations(q.policy), ServiceErrors(q, e)), ServiceErrors(q, e), Contributed(q.policy, e))
    BY <1>2 DEF evaluate_service_policy, Judge, Judged
  <2>2. /\ a.decision = "Allow" <=> Good
        /\ a.decision # "Allow" => a.claims = {}
        /\ a.decision = "Allow" => a.claims = Contributed(q.policy, e)
    BY <2>1 DEF Answer
  <2>3. Good <=> /\ \A v \in ServiceErrors(q, e) : v.requirement # None
                 /\ MetObligations(q.policy, e) = Obligations(q.policy)
    BY DEF Decision
  <2>4. /\ \A k \in DOMAIN q.policy.requirements :
              e.direct[k] = evaluate_requirement(q.policy.requirements[k], q.policy, q.credentials, q.day)
        /\ DOMAIN e.direct = DOMAIN q.policy.requirements
        /\ \A i \in DOMAIN q.policy.alternatives :
              /\ DOMAIN e.alternatives[i] = DOMAIN q.policy.alternatives[i].requirements
              /\ \A k \in DOMAIN q.policy.alternatives[i].requirements :
                    e.alternatives[i][k]
                        = evaluate_requirement(q.policy.alternatives[i].requirements[k], q.policy, q.credentials, q.day)
    BY DEF Evaluated, Results
  <2>5. /\ \A k \in DOMAIN q.policy.requirements : RequirementTyped(q.policy.requirements[k])
        /\ \A i \in DOMAIN q.policy.alternatives :
              /\ q.policy.alternatives[i].min \in Nat
              /\ IsFiniteSet(DOMAIN q.policy.alternatives[i].requirements)
              /\ \A k \in DOMAIN q.policy.alternatives[i].requirements :
                    RequirementTyped(q.policy.alternatives[i].requirements[k])
    BY RequestAssumption
  <2>6. ASSUME NEW r, RequirementTyped(r)
        PROVE  evaluate_requirement(r, q.policy, q.credentials, q.day).satisfied <=> Met(r, q)
    BY <2>6, SatisfiedFits DEF Met
  <2>7. ASSUME NEW r, RequirementTyped(r),
               evaluate_requirement(r, q.policy, q.credentials, q.day).satisfied,
               NEW x \in evaluate_requirement(r, q.policy, q.credentials, q.day).shown
        PROVE  Shows(r, x) /\ x = [name |-> x.name, value |-> x.value]
    <3>1. PICK c \in q.credentials :
             /\ Fits(r, q, c)
             /\ evaluate_requirement(r, q.policy, q.credentials, q.day).shown = ShownClaims(r, c)
      BY <2>7, SatisfiedFits
    <3>2. \A y \in ShownClaims(r, c) : /\ y.name \in DOMAIN c.claims /\ c.claims[y.name] = y.value
                                       /\ y = [name |-> y.name, value |-> y.value]
      BY DEF ShownClaims, Presented
    <3> QED
      BY <2>7, <3>1, <3>2
  <2> HIDE DEF a, e, Good
  <2>8. \A k \in DOMAIN q.policy.requirements : k \in Satisfied(e.direct) <=> Met(q.policy.requirements[k], q)
    BY <2>4, <2>5, <2>6 DEF Satisfied
  <2>9. ASSUME NEW i \in DOMAIN q.policy.alternatives
        PROVE  Satisfied(e.alternatives[i])
                  = {k \in DOMAIN q.policy.alternatives[i].requirements : Met(q.policy.alternatives[i].requirements[k], q)}
    BY <2>4, <2>5, <2>6 DEF Satisfied
  <2>10. MetObligations(q.policy, e) = Obligations(q.policy)
            <=> /\ \A k \in DOMAIN q.policy.requirements : q.policy.requirements[k].required => k \in Satisfied(e.direct)
                /\ \A i \in DOMAIN q.policy.alternatives : i \in MetAlternatives(q.policy, e)
    <3> DEFINE D == {j \in Satisfied(e.direct) : q.policy.requirements[j].required}
               O == {j \in DOMAIN q.policy.requirements : q.policy.requirements[j].required}
               M == MetAlternatives(q.policy, e)
               A == DOMAIN q.policy.alternatives
    <3>1. /\ MetObligations(q.policy, e) = {<<"requirement", k>> : k \in D} \cup {<<"alternative", i>> : i \in M}
          /\ Obligations(q.policy) = {<<"requirement", k>> : k \in O} \cup {<<"alternative", i>> : i \in A}
      BY Zenon DEF MetObligations, Obligations
    <3>2. D \subseteq O /\ M \subseteq A
      BY <2>4 DEF Satisfied, MetAlternatives
    <3>3. (\A k \in DOMAIN q.policy.requirements : q.policy.requirements[k].required => k \in Satisfied(e.direct)) <=> O \subseteq D
      OBVIOUS
    <3> HIDE DEF D, O, M, A
    <3>4. MetObligations(q.policy, e) = Obligations(q.policy) => O \subseteq D /\ A \subseteq M
      <4> SUFFICES ASSUME MetObligations(q.policy, e) = Obligations(q.policy) PROVE O \subseteq D /\ A \subseteq M
        OBVIOUS
      <4>1. ASSUME NEW k \in O PROVE k \in D
        <5>1. <<"requirement", k>> \in {<<"requirement", j>> : j \in D} \cup {<<"alternative", i>> : i \in M}
          BY <3>1
        <5> QED BY <5>1
      <4>2. ASSUME NEW i \in A PROVE i \in M
        <5>1. <<"alternative", i>> \in {<<"requirement", j>> : j \in D} \cup {<<"alternative", j>> : j \in M}
          BY <3>1
        <5> QED BY <5>1
      <4> QED
        BY <4>1, <4>2
    <3>5. O \subseteq D /\ A \subseteq M => MetObligations(q.policy, e) = Obligations(q.policy)
      <4> SUFFICES ASSUME O \subseteq D /\ A \subseteq M PROVE MetObligations(q.policy, e) = Obligations(q.policy)
        OBVIOUS
      <4>1. O = D /\ A = M
        BY <3>2
      <4> QED
        BY <3>1, <4>1
    <3> QED
      BY <3>3, <3>4, <3>5 DEF A, M
  <2>11. MetObligations(q.policy, e) = Obligations(q.policy) <=> AllMet
    <3>1. \A i \in DOMAIN q.policy.alternatives : i \in MetAlternatives(q.policy, e) <=>
             Cardinality({k \in DOMAIN q.policy.alternatives[i].requirements :
                             Met(q.policy.alternatives[i].requirements[k], q)}) >= q.policy.alternatives[i].min
      <4> SUFFICES ASSUME NEW i \in DOMAIN q.policy.alternatives
                   PROVE  i \in MetAlternatives(q.policy, e) <=>
                             Cardinality({k \in DOMAIN q.policy.alternatives[i].requirements :
                                 Met(q.policy.alternatives[i].requirements[k], q)}) >= q.policy.alternatives[i].min
        OBVIOUS
      <4>1. i \in MetAlternatives(q.policy, e) <=> Cardinality(Satisfied(e.alternatives[i])) >= q.policy.alternatives[i].min
        BY DEF MetAlternatives
      <4> QED
        BY <2>9, <4>1, Zenon
    <3> QED
      BY <2>8, <2>10, <3>1, Zenon
  <2>12. ASSUME NEW x \in Contributed(q.policy, e)
         PROVE  /\ x = [name |-> x.name, value |-> x.value]
                /\ \E r \in Requirements(q.policy) : Shows(r, x)
    <3>1. PICK r \in Requirements(q.policy) :
             /\ RequirementTyped(r)
             /\ evaluate_requirement(r, q.policy, q.credentials, q.day).satisfied
             /\ x \in evaluate_requirement(r, q.policy, q.credentials, q.day).shown
      <4>2. CASE \E k \in Satisfied(e.direct) : x \in e.direct[k].shown
        <5>1. PICK k \in Satisfied(e.direct) : x \in e.direct[k].shown
          BY <4>2
        <5>2. /\ k \in DOMAIN q.policy.requirements /\ e.direct[k].satisfied
              /\ q.policy.requirements[k] \in Requirements(q.policy)
          BY <2>4, <5>1 DEF Satisfied, Requirements, Range
        <5> QED
          BY <2>4, <2>5, <5>1, <5>2
      <4>3. CASE \E i \in MetAlternatives(q.policy, e) :
                    \E k \in Satisfied(e.alternatives[i]) : x \in e.alternatives[i][k].shown
        <5>1. PICK i \in MetAlternatives(q.policy, e) :
                    \E k \in Satisfied(e.alternatives[i]) : x \in e.alternatives[i][k].shown
          BY <4>3
        <5>2. PICK k \in Satisfied(e.alternatives[i]) : x \in e.alternatives[i][k].shown
          BY <5>1
        <5>3. i \in DOMAIN q.policy.alternatives
          BY DEF MetAlternatives
        <5>4. k \in DOMAIN q.policy.alternatives[i].requirements /\ e.alternatives[i][k].satisfied
          BY <2>4, <5>3 DEF Satisfied
        <5>5. q.policy.alternatives[i].requirements[k] \in Requirements(q.policy)
          BY <5>3, <5>4 DEF Requirements, Range
        <5> QED
          BY <2>4, <2>5, <5>2, <5>3, <5>4, <5>5
      <4> QED
        BY <4>2, <4>3, AnswerParts
    <3> QED
      BY <2>7, <3>1
  <2>13. ASSUME Good PROVE Owed(q)
    <3>1. \A v \in WholeErrors(q) : v.requirement # None
      BY <2>3, <2>13, AnswerParts
    <3>2. WholeFits(q)
      BY <3>1, NoWholeErrors
    <3> QED
      BY <2>3, <2>11, <2>13, <3>2, Zenon DEF Owed
  <2>14. ASSUME Good, NEW x \in Contributed(q.policy, e), NEW y \in Contributed(q.policy, e), x.name = y.name PROVE x = y
    <3>1. ~\E b, d \in Contributed(q.policy, e) : b.name = d.name /\ b.value # d.value
      <4>1. \A v \in ConflictErrors(Contributed(q.policy, e)) : v \in ServiceErrors(q, e)
        BY AnswerParts
      <4> QED
        BY <2>3, <2>14, <4>1 DEF ConflictErrors, When, GlobalViolation
    <3>2. x.value = y.value
      BY <2>14, <3>1
    <3> QED
      BY <2>12, <2>14, <3>2
  <2>15. ASSUME Owed(q), Agree(q) PROVE Good
    <3>1. MetObligations(q.policy, e) = Obligations(q.policy)
      BY <2>11, <2>15, Zenon DEF Owed
    <3>2. WholeErrors(q) = {}
      BY <2>15, NoWholeErrors DEF Owed
    <3>3. ConflictErrors(Contributed(q.policy, e)) = {}
      <4>1. ASSUME NEW x \in Contributed(q.policy, e), NEW y \in Contributed(q.policy, e), x.name = y.name
            PROVE  x.value = y.value
        <5>1. PICK r \in Requirements(q.policy) : Shows(r, x)
          BY <2>12
        <5>2. PICK s \in Requirements(q.policy) : Shows(s, y)
          BY <2>12
        <5>3. PICK c \in q.credentials : Fits(r, q, c) /\ x.name \in DOMAIN c.claims /\ c.claims[x.name] = x.value
          BY <5>1
        <5>4. PICK d \in q.credentials : Fits(s, q, d) /\ y.name \in DOMAIN d.claims /\ d.claims[y.name] = y.value
          BY <5>2
        <5>5. \A n \in DOMAIN c.claims \cap DOMAIN d.claims : c.claims[n] = d.claims[n]
          BY <2>15, <5>3, <5>4, Zenon DEF Agree
        <5> QED
          BY <4>1, <5>3, <5>4, <5>5
      <4> QED
        BY <4>1 DEF ConflictErrors, When
    <3>4. AlternativeErrors(q.policy, e) = {}
      <4>1. DOMAIN q.policy.alternatives \ MetAlternatives(q.policy, e) = {}
        BY <2>10, <3>1
      <4> QED
        BY <4>1 DEF AlternativeErrors
    <3>5. ASSUME NEW v \in UNION {r.errors : r \in Range(e.direct)} PROVE v.requirement # None
      <4>1. PICK k \in DOMAIN q.policy.requirements : v \in e.direct[k].errors
        BY <2>4, <3>5 DEF Range
      <4>2. v.requirement = q.policy.requirements[k].id
        BY <2>4, <2>5, <4>1, SatisfiedFits
      <4> QED
        BY <2>5, <4>2 DEF RequirementTyped
    <3>6. \A v \in ServiceErrors(q, e) : v.requirement # None
      BY <3>2, <3>3, <3>4, <3>5, AnswerParts
    <3> QED
      BY <2>3, <3>1, <3>6
  <2>16. ASSUME a.decision = "Allow"
         PROVE  /\ Owed(q)
                /\ \A x, y \in a.claims : x.name = y.name => x = y
                /\ \A x \in a.claims : \E r \in Requirements(q.policy) : Shows(r, x)
    BY <2>2, <2>12, <2>13, <2>14, <2>16, Zenon
  <2> QED
    BY <2>2, <2>15, <2>16, Zenon DEF Justified, a
<1> QED
  BY <1>1, <1>2

-----------------------------------------------------------------------------
(* The legacy evaluator: what its minimum leaves out the kernel never read. *)

\* The result for a candidate.
LEMMA CandidateResult ==
    ASSUME NEW r, NEW p, NEW c, NEW day
    PROVE  /\ evaluate_candidate(r, p, c, day).satisfied <=> CandidateErrors(r, p, c, day) = {}
           /\ evaluate_candidate(r, p, c, day).errors = CandidateErrors(r, p, c, day)
BY DEF evaluate_candidate

\* With one credential there is nothing to choose.
LEMMA OneCandidate ==
    ASSUME NEW r, NEW p, NEW c, c.id = 1, NEW day
    PROVE  evaluate_requirement(r, p, {c}, day) =
              IF r.template = None \/ r.template \in c.templates THEN evaluate_candidate(r, p, c, day)
              ELSE [requirement |-> r.id, credential |-> None, satisfied |-> FALSE,
                    shown |-> {}, errors |-> {Violation("CredentialMissing", r, None)}]
<1> DEFINE Able == {d \in {c} : r.template = None \/ r.template \in d.templates}
           results == {evaluate_candidate(r, p, d, day) : d \in Able}
           x == evaluate_candidate(r, p, c, day)
           missing == [requirement |-> r.id, credential |-> None, satisfied |-> FALSE,
                       shown |-> {}, errors |-> {Violation("CredentialMissing", r, None)}]
<1>1. evaluate_requirement(r, p, {c}, day) =
         IF results = {} THEN missing
         ELSE CHOOSE best \in results : \A other \in results : ~BetterCandidate(other, best)
  BY Zenon DEF evaluate_requirement
<1>2. CASE r.template = None \/ r.template \in c.templates
  <2>1. Able = {c}
    BY <1>2
  <2>2. results = {x}
    <3> HIDE DEF Able
    <3> QED BY <2>1
  <2>3. ~BetterCandidate(x, x)
    <3>1. x.credential = 1
      BY DEF evaluate_candidate
    <3> HIDE DEF x
    <3> QED BY <3>1 DEF BetterCandidate
  <2> HIDE DEF results, x, missing
  <2>4. (CHOOSE best \in results : \A other \in results : ~BetterCandidate(other, best)) = x
    BY <2>2, <2>3
  <2> QED
    BY <1>1, <1>2, <2>2, <2>4 DEF x
<1>3. CASE ~(r.template = None \/ r.template \in c.templates)
  <2>1. results = {}
    BY <1>3
  <2> HIDE DEF results
  <2> QED
    BY <1>1, <1>3, <2>1
<1> QED
  BY <1>2, <1>3

\* The requirements of a projected policy.
LEMMA ProjectedRequirements ==
    ASSUME NEW p, p.required \in Seq(Range(p.required)), NEW i
    PROVE  /\ \A n \in DOMAIN projected_requirements(p, i) :
                 \/ projected_requirements(p, i)[n] = empty_requirement(<<"global", 0>>, "any")
                 \/ \E k \in DOMAIN p.required :
                       projected_requirements(p, i)[n] = claim_requirement(<<"claim", k>>, p.required[k], p, i)
           /\ \A k \in DOMAIN p.required :
                 /\ k + 1 \in DOMAIN projected_requirements(p, i)
                 /\ projected_requirements(p, i)[k + 1] = claim_requirement(<<"claim", k>>, p.required[k], p, i)
<1> DEFINE F == [k \in DOMAIN p.required |-> claim_requirement(<<"claim", k>>, p.required[k], p, i)]
           G == empty_requirement(<<"global", 0>>, "any")
           reqs == projected_requirements(p, i)
<1>1. reqs = <<G>> \o F
  BY Zenon DEF projected_requirements
<1>2. /\ DOMAIN p.required = 1 .. Len(p.required) /\ Len(p.required) \in Nat
  OBVIOUS
<1>3. /\ F \in Seq(Range(F)) /\ Len(F) = Len(p.required) /\ DOMAIN F = DOMAIN p.required
      /\ \A k \in DOMAIN p.required : F[k] = claim_requirement(<<"claim", k>>, p.required[k], p, i)
  <2>1. /\ DOMAIN F = DOMAIN p.required
        /\ \A k \in DOMAIN p.required : F[k] = claim_requirement(<<"claim", k>>, p.required[k], p, i)
        /\ F \in [DOMAIN p.required -> {F[k] : k \in DOMAIN p.required}]
    OBVIOUS
  <2> HIDE DEF F
  <2>2. F \in [1 .. Len(p.required) -> Range(F)]
    BY <1>2, <2>1 DEF Range
  <2>3. F \in Seq(Range(F)) /\ Len(F) = Len(p.required)
    BY <1>2, <2>2
  <2> QED
    BY <2>1, <2>3
<1> HIDE DEF F, G, reqs
<1>4. /\ <<G>> \in Seq({G}) /\ Len(<<G>>) = 1 /\ <<G>>[1] = G
  OBVIOUS
<1>5. /\ DOMAIN reqs = 1 .. 1 + Len(F)
      /\ \A n \in DOMAIN reqs : reqs[n] = IF n <= 1 THEN <<G>>[n] ELSE F[n - 1]
  <2>1. <<G>> \in Seq({G} \cup Range(F)) /\ F \in Seq({G} \cup Range(F))
    BY <1>2, <1>3, <1>4 DEF Range
  <2> QED
    BY <1>1, <1>4, <2>1
<1>6. ASSUME NEW n \in DOMAIN reqs
      PROVE  reqs[n] = G \/ \E k \in DOMAIN p.required : reqs[n] = F[k]
  BY <1>2, <1>3, <1>4, <1>5
<1>7. ASSUME NEW k \in DOMAIN p.required PROVE k + 1 \in DOMAIN reqs /\ reqs[k + 1] = F[k]
  BY <1>2, <1>3, <1>5
<1> QED
  BY <1>3, <1>6, <1>7 DEF G, reqs

\* Credentials that differ only in claims the requirement does not name are
\* judged alike.
LEMMA UnreadClaims ==
    ASSUME NEW r, NEW p, p.issuer = None, NEW c, NEW d, NEW day,
           /\ c.id = d.id /\ c.signed = d.signed /\ c.format = d.format /\ c.trusted = d.trusted
           /\ c.issuer = d.issuer /\ c.issued = d.issued /\ c.checked = d.checked
           /\ c.not_revoked = d.not_revoked,
           \A k \in DOMAIN r.claims : Presented(c, r.claims[k].name) = Presented(d, r.claims[k].name)
    PROVE  evaluate_candidate(r, p, c, day) = evaluate_candidate(r, p, d, day)
<1>1. ClaimErrors(r, c, day) = ClaimErrors(r, d, day)
  <2> DEFINE Part(k, value) ==
                {Violation("ClaimConstraintFailed", r, <<k, j>>) :
                    j \in {i \in DOMAIN r.claims[k].constraints :
                              ~evaluate_constraint(r.claims[k].constraints[i], value, day)}}
                \cup When(r.claims[k].required /\ value = None, Violation("ClaimMissing", r, <<k, 0>>))
  <2>1. /\ ClaimErrors(r, c, day) = UNION {Part(k, Presented(c, r.claims[k].name)) : k \in DOMAIN r.claims}
        /\ ClaimErrors(r, d, day) = UNION {Part(k, Presented(d, r.claims[k].name)) : k \in DOMAIN r.claims}
    BY Zenon DEF ClaimErrors
  <2> HIDE DEF Part
  <2> QED
    BY <2>1
<1>2. apply_issuer_constraints(r, p, c) = apply_issuer_constraints(r, p, d)
  BY DEF apply_issuer_constraints
<1>3. apply_freshness(r, p, c, day) = apply_freshness(r, p, d, day)
  BY Zenon DEF apply_freshness, IssuanceErrors, RevocationErrors
<1>4. CandidateErrors(r, p, c, day) = CandidateErrors(r, p, d, day)
  BY <1>1, <1>2, <1>3, Zenon DEF CandidateErrors
<1>5. ShownClaims(r, c) = ShownClaims(r, d)
  BY DEF ShownClaims
<1> QED
  BY <1>4, <1>5, Zenon DEF evaluate_candidate

\* The kernel's answer rests on the results and on nothing else of the credentials.
LEMMA SameResultsSameAnswer ==
    ASSUME NEW q, NEW t, Evaluated(q) = Evaluated(t),
           q.policy = t.policy, Cardinality(q.credentials) = Cardinality(t.credentials),
           ClaimsWithinLimit(q.credentials) <=> ClaimsWithinLimit(t.credentials),
           /\ q.day = t.day /\ q.presented = t.presented /\ q.bound = t.bound /\ q.method = t.method
           /\ q.profile = t.profile /\ q.challenge = t.challenge /\ q.audience = t.audience
           /\ q.replay = t.replay /\ q.proved = t.proved /\ q.external = t.external /\ q.count = t.count
    PROVE  evaluate_service_policy(q) = evaluate_service_policy(t)
<1>1. validate_request(q) <=> validate_request(t)
  BY Zenon DEF validate_request
<1>2. HolderErrors(q) = HolderErrors(t) /\ ProofTimeErrors(q) = ProofTimeErrors(t)
      /\ ExternalErrors(q) = ExternalErrors(t) /\ CountErrors(q) = CountErrors(t)
  BY Zenon DEF HolderErrors, ProofTimeErrors, ExternalErrors, CountErrors
<1>3. ServiceErrors(q, Evaluated(q)) = ServiceErrors(t, Evaluated(t))
  BY <1>2, Zenon DEF ServiceErrors
<1>4. Judge(q, Evaluated(q)) = Judge(t, Evaluated(t))
  BY <1>3, Zenon DEF Judge, Judged
<1> QED
  BY <1>1, <1>4, Zenon DEF evaluate_service_policy

\* What was selected is selected again from the selection.
LEMMA SelectedAgain ==
    ASSUME NEW p, NEW available, NEW some \in SUBSET available, NEW claim,
           selected_claim_name(p, available, claim) \in some
    PROVE  selected_claim_name(p, some, claim) = selected_claim_name(p, available, claim)
BY DEF selected_claim_name

\* What the legacy evaluator allows shows every selected claim.
LEMMA SelectedPresent ==
    ASSUME NEW p, p.required \in Seq(Range(p.required)), NEW i,
           evaluate_service_policy(Projection(p, i)).decision = "Allow",
           NEW k \in DOMAIN p.required
    PROVE  selected_claim_name(p, DOMAIN i.claims, p.required[k]) \in DOMAIN i.claims
<1> DEFINE S == Projection(p, i)
           e == Evaluated(S)
           c == projected_credential(i)
           r == claim_requirement(<<"claim", k>>, p.required[k], p, i)
<1>1. /\ S.policy.requirements = projected_requirements(p, i)
      /\ S.credentials = {c} /\ c.id = 1 /\ c.claims = i.claims
  BY DEF Projection, projected_policy, projected_credential
<1>2. MetObligations(S.policy, e) = Obligations(S.policy)
  <2> HIDE DEF S, e
  <2> QED BY DEF S, e, evaluate_service_policy, Judge, Judged, Answer, Decision
<1>3. k + 1 \in DOMAIN S.policy.requirements /\ S.policy.requirements[k + 1] = r
  <2> HIDE DEF S, c, e, r
  <2> QED BY <1>1, ProjectedRequirements DEF r
<1>4. /\ r.required = TRUE /\ DOMAIN r.claims = {1} /\ r.claims[1].required = TRUE
      /\ r.claims[1].name = selected_claim_name(p, DOMAIN i.claims, p.required[k])
  BY DEF claim_requirement, empty_requirement
<1>5. evaluate_requirement(r, S.policy, {c}, S.day).satisfied
  <2> HIDE DEF S, c, r
  <2>1. <<"requirement", k + 1>> \in MetObligations(S.policy, e)
    BY <1>2, <1>3, <1>4 DEF Obligations
  <2>2. k + 1 \in Satisfied(e.direct)
    BY <2>1 DEF MetObligations
  <2>3. e.direct[k + 1] = evaluate_requirement(r, S.policy, {c}, S.day)
    BY <1>1, <1>3 DEF Evaluated, Results
  <2> QED
    BY <2>2, <2>3 DEF Satisfied
<1>6. CandidateErrors(r, S.policy, c, S.day) = {}
  <2> HIDE DEF S, c, r
  <2>1. evaluate_requirement(r, S.policy, {c}, S.day) = evaluate_candidate(r, S.policy, c, S.day)
    <3> DEFINE missing == [requirement |-> r.id, credential |-> None, satisfied |-> FALSE,
                           shown |-> {}, errors |-> {Violation("CredentialMissing", r, None)}]
    <3>1. ~missing.satisfied
      OBVIOUS
    <3>2. \/ evaluate_requirement(r, S.policy, {c}, S.day) = evaluate_candidate(r, S.policy, c, S.day)
          \/ evaluate_requirement(r, S.policy, {c}, S.day) = missing
      <4> HIDE DEF missing
      <4> QED BY <1>1, OneCandidate DEF missing
    <3> HIDE DEF missing
    <3> QED BY <1>5, <3>1, <3>2
  <2> QED
    BY <1>5, <2>1, CandidateResult
<1> HIDE DEF S, c, r
<1>7. r.claims[1].name \in DOMAIN c.claims
  BY <1>4, <1>6, RequiredPresent
<1> QED
  BY <1>1, <1>4, <1>7

\* Disclosing no more than the minimum changes nothing the kernel reads.
LEMMA MinimumAccepted ==
    ASSUME NEW q \in LegacyRequests,
           evaluate_service_policy(Projection(q.policy, q.input)).decision = "Allow",
           NEW shown, shown = [n \in resolve(q.policy, DOMAIN q.input.claims) |-> q.input.claims[n]]
    PROVE  LET input == [q.input EXCEPT !.claims = shown] IN
           /\ evaluate_service_policy(Projection(q.policy, input)) = evaluate_service_policy(Projection(q.policy, q.input))
           /\ resolve(q.policy, DOMAIN input.claims) = resolve(q.policy, DOMAIN q.input.claims)
<1> DEFINE p == q.policy
           i == q.input
           j == [q.input EXCEPT !.claims = shown]
           D == DOMAIN i.claims
           M == resolve(p, D)
           Pick(k) == selected_claim_name(p, D, p.required[k])
<1>1. p.required \in Seq(Range(p.required)) /\ DOMAIN i = DOMAIN neutral_input
  BY LegacyAssumption
<1>2. \A k \in DOMAIN p.required : Pick(k) \in D
  BY <1>1, SelectedPresent
<1>3. M \subseteq D /\ M = {Pick(k) : k \in DOMAIN p.required}
  BY <1>2 DEF resolve
<1>4. /\ j.claims = shown /\ DOMAIN j.claims = M /\ \A n \in M : j.claims[n] = i.claims[n]
      /\ j.types = i.types /\ j.issuer = i.issuer /\ j.trusted = i.trusted /\ j.issued = i.issued
      /\ j.proved = i.proved /\ j.day = i.day /\ j.bound = i.bound /\ j.checked = i.checked
      /\ j.not_revoked = i.not_revoked /\ j.count = i.count
  BY <1>1 DEF neutral_input
<1> HIDE DEF p, i, j, D, M
<1>5. \A k \in DOMAIN p.required : selected_claim_name(p, M, p.required[k]) = Pick(k)
  <2> SUFFICES ASSUME NEW k \in DOMAIN p.required
               PROVE  selected_claim_name(p, M, p.required[k]) = selected_claim_name(p, D, p.required[k])
    OBVIOUS
  <2>1. M \in SUBSET D /\ selected_claim_name(p, D, p.required[k]) \in M
    BY <1>3
  <2> QED
    BY <2>1, SelectedAgain
<1>6. resolve(p, M) = M
  BY <1>3, <1>5 DEF resolve
<1>7. projected_requirements(p, j) = projected_requirements(p, i)
  <2>1. ASSUME NEW k \in DOMAIN p.required
        PROVE  claim_requirement(<<"claim", k>>, p.required[k], p, j) = claim_requirement(<<"claim", k>>, p.required[k], p, i)
    BY <1>4, <1>5, Zenon DEF claim_requirement, D
  <2>2. [k \in DOMAIN p.required |-> claim_requirement(<<"claim", k>>, p.required[k], p, j)]
           = [k \in DOMAIN p.required |-> claim_requirement(<<"claim", k>>, p.required[k], p, i)]
    BY <2>1
  <2> QED
    BY <2>2, Zenon DEF projected_requirements
<1> DEFINE S == Projection(p, i)
           T == Projection(p, j)
           c == projected_credential(i)
           d == projected_credential(j)
<1>8. /\ S.policy = T.policy /\ S.day = T.day /\ S.presented = T.presented /\ S.bound = T.bound /\ S.method = T.method
      /\ S.profile = T.profile /\ S.challenge = T.challenge /\ S.audience = T.audience
      /\ S.replay = T.replay /\ S.proved = T.proved /\ S.external = T.external /\ S.count = T.count
      /\ S.credentials = {c} /\ T.credentials = {d} /\ S.policy.issuer = None
      /\ S.policy = projected_policy(p, projected_requirements(p, i))
  BY <1>4, <1>7 DEF Projection, projected_policy
<1>9. /\ c.id = 1 /\ d.id = 1 /\ c.signed = d.signed /\ c.format = d.format /\ c.trusted = d.trusted
      /\ c.issuer = d.issuer /\ c.issued = d.issued /\ c.checked = d.checked
      /\ c.not_revoked = d.not_revoked /\ c.templates = d.templates
      /\ c.claims = i.claims /\ d.claims = j.claims
  BY <1>4 DEF projected_credential
<1>10. ASSUME NEW r, \A k \in DOMAIN r.claims : r.claims[k].name \in M
       PROVE  evaluate_requirement(r, S.policy, {c}, S.day) = evaluate_requirement(r, S.policy, {d}, S.day)
  <2> HIDE DEF S, T, c, d
  <2>1. \A k \in DOMAIN r.claims : Presented(c, r.claims[k].name) = Presented(d, r.claims[k].name)
    BY <1>3, <1>4, <1>9, <1>10 DEF Presented, D
  <2>2. evaluate_candidate(r, S.policy, c, S.day) = evaluate_candidate(r, S.policy, d, S.day)
    BY <1>8, <1>9, <2>1, UnreadClaims
  <2> DEFINE missing == [requirement |-> r.id, credential |-> None, satisfied |-> FALSE,
                         shown |-> {}, errors |-> {Violation("CredentialMissing", r, None)}]
  <2>3. \A x \in {c, d} : evaluate_requirement(r, S.policy, {x}, S.day) =
           IF r.template = None \/ r.template \in x.templates THEN evaluate_candidate(r, S.policy, x, S.day) ELSE missing
    <3> HIDE DEF missing
    <3> QED BY <1>9, OneCandidate DEF missing
  <2> HIDE DEF missing
  <2> QED
    BY <1>9, <2>2, <2>3
<1>11. \A n \in DOMAIN S.policy.requirements : \A k \in DOMAIN S.policy.requirements[n].claims :
          S.policy.requirements[n].claims[k].name \in M
  <2> SUFFICES ASSUME NEW n \in DOMAIN S.policy.requirements,
                      NEW k \in DOMAIN S.policy.requirements[n].claims
               PROVE  S.policy.requirements[n].claims[k].name \in M
    OBVIOUS
  <2>1. S.policy.requirements = projected_requirements(p, i)
    BY <1>8 DEF projected_policy
  <2>2. \/ S.policy.requirements[n] = empty_requirement(<<"global", 0>>, "any")
        \/ \E m \in DOMAIN p.required : S.policy.requirements[n] = claim_requirement(<<"claim", m>>, p.required[m], p, i)
    <3> HIDE DEF S
    <3> QED BY <1>1, <2>1, ProjectedRequirements
  <2> HIDE DEF S
  <2>3. DOMAIN empty_requirement(<<"global", 0>>, "any").claims = {}
    BY DEF empty_requirement
  <2>4. ASSUME NEW m \in DOMAIN p.required
        PROVE  LET r == claim_requirement(<<"claim", m>>, p.required[m], p, i) IN
               DOMAIN r.claims = {1} /\ r.claims[1].name = Pick(m)
    BY DEF claim_requirement, empty_requirement, D
  <2> QED
    BY <1>3, <2>2, <2>3, <2>4
<1>12. \A n \in DOMAIN S.policy.alternatives : \A k \in DOMAIN S.policy.alternatives[n].requirements :
          S.policy.alternatives[n].requirements[k].claims = <<>>
  BY <1>8 DEF projected_policy, empty_requirement
<1>13. Evaluated(S) = Evaluated(T)
  <2> HIDE DEF S, T, c, d
  <2>1. Results(S.policy.requirements, S) = Results(T.policy.requirements, T)
    BY <1>8, <1>10, <1>11 DEF Results
  <2>2. ASSUME NEW n \in DOMAIN S.policy.alternatives
        PROVE  Results(S.policy.alternatives[n].requirements, S) = Results(T.policy.alternatives[n].requirements, T)
    <3>1. \A k \in DOMAIN S.policy.alternatives[n].requirements :
             DOMAIN S.policy.alternatives[n].requirements[k].claims = {}
      BY <1>12
    <3> QED
      BY <1>8, <1>10, <3>1 DEF Results
  <2>3. [n \in DOMAIN S.policy.alternatives |-> Results(S.policy.alternatives[n].requirements, S)]
           = [n \in DOMAIN T.policy.alternatives |-> Results(T.policy.alternatives[n].requirements, T)]
    BY <1>8, <2>2
  <2> QED
    BY <2>1, <2>3, Zenon DEF Evaluated
<1>14. evaluate_service_policy(S) = evaluate_service_policy(T)
  <2> HIDE DEF S, T, c, d
  <2>1. Cardinality(S.credentials) = Cardinality(T.credentials)
    BY <1>8, FS_Singleton
  <2>2. ClaimsWithinLimit(S.credentials)
    <3>1. evaluate_service_policy(S).decision = "Allow"
      BY DEF S, p, i
    <3> QED
      BY <3>1 DEF evaluate_service_policy, validate_request
  <2>3. ClaimsWithinLimit(T.credentials)
    <3>1. IsFiniteSet(D) /\ Cardinality(D) <= MaxClaims
      BY <1>8, <1>9, <2>2, LegacyAssumption DEF ClaimsWithinLimit, D, i
    <3>2. IsFiniteSet(M) /\ Cardinality(M) <= Cardinality(D) /\ Cardinality(M) \in Nat /\ Cardinality(D) \in Nat
      BY <1>3, <3>1, FS_Subset, FS_CardinalityType
    <3>3. Cardinality(M) <= MaxClaims
      BY <3>1, <3>2, PolicyAssumption
    <3> QED
      BY <1>4, <1>8, <1>9, <3>3 DEF ClaimsWithinLimit
  <2> QED
    BY <1>8, <1>13, <2>1, <2>2, <2>3, SameResultsSameAnswer
<1> QED
  BY <1>4, <1>6, <1>14, Zenon DEF p, i, j, M, D

\* An error names its requirement, and it is about claims only if some are asked for.
LEMMA ErrorNamesRequirement ==
    ASSUME NEW r, NEW p, p.issuer = None, NEW c, c.id = 1, NEW day,
           NEW v \in evaluate_requirement(r, p, {c}, day).errors
    PROVE  /\ v.requirement = r.id
           /\ v.code \in ClaimCodes /\ DOMAIN r.claims = {} => r.template # None /\ r.template \notin c.templates
<1>1. CASE r.template = None \/ r.template \in c.templates
  <2>1. v \in CandidateErrors(r, p, c, day)
    <3>1. evaluate_requirement(r, p, {c}, day) = evaluate_candidate(r, p, c, day)
      BY <1>1, OneCandidate
    <3> QED
      BY <3>1, CandidateResult
  <2>2. apply_issuer_constraints(r, p, c) = {}
    BY DEF apply_issuer_constraints
  <2>3. CASE v \in ClaimErrors(r, c, day)
    <3>1. DOMAIN r.claims # {}
      BY <2>3 DEF ClaimErrors
    <3>2. v.requirement = r.id
      BY <2>3 DEF ClaimErrors, When, Violation
    <3> QED
      BY <3>1, <3>2
  <2>4. CASE v \in apply_freshness(r, p, c, day)
    BY <2>4 DEF apply_freshness, IssuanceErrors, RevocationErrors, When, Violation, ClaimCodes
  <2>5. CASE v \notin ClaimErrors(r, c, day) /\ v \notin apply_freshness(r, p, c, day)
    <3>1. \E code \in {"SignatureInvalid", "CredentialFormatMismatch", "TrustProfileNotVerified", "IssuerNotAllowed"} :
             v = Violation(code, r, None)
      BY <2>1, <2>2, <2>5 DEF CandidateErrors, When
    <3> QED
      BY <3>1 DEF Violation, ClaimCodes
  <2> QED
    BY <2>3, <2>4, <2>5
<1>2. CASE ~(r.template = None \/ r.template \in c.templates)
  <2> DEFINE missing == [requirement |-> r.id, credential |-> None, satisfied |-> FALSE,
                         shown |-> {}, errors |-> {Violation("CredentialMissing", r, None)}]
  <2>1. evaluate_requirement(r, p, {c}, day) = missing
    <3> HIDE DEF missing
    <3> QED BY <1>2, OneCandidate DEF missing
  <2>2. missing.errors = {Violation("CredentialMissing", r, None)}
    OBVIOUS
  <2> HIDE DEF missing
  <2> QED
    BY <1>2, <2>1, <2>2 DEF Violation
<1> QED
  BY <1>1, <1>2

\* Only a claim error of the global requirement is dropped.
LEMMA ErrorsAreMapped ==
    ASSUME NEW v, ~(v.code \in ClaimCodes /\ v.requirement[1] = "global")
    PROVE  map_error(v) # {}
BY DEF map_error

\* An obligation that is not met leaves an error.
LEMMA UnmetLeavesError ==
    ASSUME NEW q, NEW c, c.id = 1, q.credentials = {c},
           MetObligations(q.policy, Evaluated(q)) # Obligations(q.policy)
    PROVE  ServiceErrors(q, Evaluated(q)) # {}
<1> DEFINE e == Evaluated(q)
<1>1. /\ DOMAIN e.direct = DOMAIN q.policy.requirements
      /\ \A k \in DOMAIN q.policy.requirements :
            e.direct[k] = evaluate_requirement(q.policy.requirements[k], q.policy, {c}, q.day)
  BY DEF Evaluated, Results
<1> HIDE DEF e
<1>2. \/ \E k \in DOMAIN q.policy.requirements : k \notin Satisfied(e.direct)
      \/ \E i \in DOMAIN q.policy.alternatives : i \notin MetAlternatives(q.policy, e)
  <2> SUFFICES ASSUME \A k \in DOMAIN q.policy.requirements : k \in Satisfied(e.direct),
                      \A i \in DOMAIN q.policy.alternatives : i \in MetAlternatives(q.policy, e)
               PROVE  FALSE
    OBVIOUS
  <2>1. Satisfied(e.direct) = DOMAIN q.policy.requirements /\ MetAlternatives(q.policy, e) = DOMAIN q.policy.alternatives
    BY <1>1 DEF Satisfied, MetAlternatives
  <2>2. MetObligations(q.policy, e) = Obligations(q.policy)
    BY <2>1, Zenon DEF MetObligations, Obligations
  <2> QED
    BY <2>2 DEF e
<1>3. ASSUME NEW k \in DOMAIN q.policy.requirements, k \notin Satisfied(e.direct)
      PROVE  ServiceErrors(q, e) # {}
  <2>1. ~e.direct[k].satisfied
    BY <1>1, <1>3 DEF Satisfied
  <2>2. e.direct[k].errors # {}
    <3> DEFINE r == q.policy.requirements[k]
    <3>0. e.direct[k] = evaluate_requirement(r, q.policy, {c}, q.day)
      BY <1>1
    <3> HIDE DEF r
    <3>1. CASE r.template = None \/ r.template \in c.templates
      <4>1. e.direct[k] = evaluate_candidate(r, q.policy, c, q.day)
        BY <3>0, <3>1, OneCandidate
      <4> QED
        BY <2>1, <4>1, CandidateResult
    <3>2. CASE ~(r.template = None \/ r.template \in c.templates)
      <4> DEFINE missing == [requirement |-> r.id, credential |-> None, satisfied |-> FALSE,
                             shown |-> {}, errors |-> {Violation("CredentialMissing", r, None)}]
      <4>1. e.direct[k] = missing
        <5> HIDE DEF missing
        <5> QED BY <3>0, <3>2, OneCandidate DEF missing
      <4>2. missing.errors # {}
        OBVIOUS
      <4> QED
        BY <4>1, <4>2
    <3> QED
      BY <3>1, <3>2
  <2>3. e.direct[k] \in Range(e.direct)
    BY <1>1 DEF Range
  <2>4. UNION {r.errors : r \in Range(e.direct)} # {}
    BY <2>2, <2>3
  <2> QED
    BY <2>4 DEF ServiceErrors
<1>4. ASSUME NEW i \in DOMAIN q.policy.alternatives, i \notin MetAlternatives(q.policy, e)
      PROVE  ServiceErrors(q, e) # {}
  <2>1. AlternativeErrors(q.policy, e) # {}
    BY <1>4 DEF AlternativeErrors
  <2> QED
    BY <2>1 DEF ServiceErrors
<1> QED
  BY <1>2, <1>3, <1>4 DEF e

\* What the legacy evaluator refuses it gives a reason for.
LEMMA RefusalHasReason ==
    ASSUME NEW q \in LegacyRequests,
           evaluate_service_policy(Projection(q.policy, q.input)).decision \notin {"Allow", "Invalid"}
    PROVE  UNION {map_error(v) : v \in evaluate_service_policy(Projection(q.policy, q.input)).errors} # {}
<1> DEFINE S == Projection(q.policy, q.input)
           c == projected_credential(q.input)
           e == Evaluated(S)
<1>1. /\ S.credentials = {c} /\ c.id = 1 /\ "any" \in c.templates /\ S.policy.issuer = None
      /\ S.policy.requirements = projected_requirements(q.policy, q.input) /\ S.external = "absent"
      /\ \A i \in DOMAIN S.policy.alternatives : \A k \in DOMAIN S.policy.alternatives[i].requirements :
            S.policy.alternatives[i].requirements[k].id = <<"accepted", k>>
  <2>1. /\ c.id = 1 /\ "any" \in c.templates
    BY DEF projected_credential
  <2>2. /\ S.credentials = {c} /\ S.external = "absent"
        /\ S.policy = projected_policy(q.policy, projected_requirements(q.policy, q.input))
    BY DEF Projection
  <2> DEFINE P == projected_policy(q.policy, projected_requirements(q.policy, q.input))
  <2>3. P.issuer = None /\ P.requirements = projected_requirements(q.policy, q.input)
    BY DEF projected_policy
  <2>4. \A i \in DOMAIN P.alternatives : \A k \in DOMAIN P.alternatives[i].requirements :
            P.alternatives[i].requirements[k].id = <<"accepted", k>>
    BY DEF projected_policy, empty_requirement
  <2> HIDE DEF P, S, c
  <2> QED
    BY <2>1, <2>2, <2>3, <2>4 DEF P
<1>2. /\ \A k \in DOMAIN S.policy.requirements :
            e.direct[k] = evaluate_requirement(S.policy.requirements[k], S.policy, {c}, S.day)
      /\ DOMAIN e.direct = DOMAIN S.policy.requirements
      /\ \A i \in DOMAIN S.policy.alternatives :
            /\ DOMAIN e.alternatives[i] = DOMAIN S.policy.alternatives[i].requirements
            /\ \A k \in DOMAIN S.policy.alternatives[i].requirements :
                  e.alternatives[i][k] = evaluate_requirement(S.policy.alternatives[i].requirements[k], S.policy, {c}, S.day)
  <2> HIDE DEF S, c
  <2> QED BY <1>1 DEF Evaluated, Results
<1> HIDE DEF S, c, e
<1>3. \A n \in DOMAIN S.policy.requirements :
         \/ S.policy.requirements[n] = empty_requirement(<<"global", 0>>, "any")
         \/ \E k \in DOMAIN q.policy.required :
               S.policy.requirements[n] = claim_requirement(<<"claim", k>>, q.policy.required[k], q.policy, q.input)
  <2>1. q.policy.required \in Seq(Range(q.policy.required))
    BY LegacyAssumption
  <2> DEFINE p == q.policy
  <2>2. S.policy.requirements = projected_requirements(p, q.input) /\ p.required \in Seq(Range(p.required))
    BY <1>1, <2>1
  <2> HIDE DEF p
  <2>3. \A n \in DOMAIN projected_requirements(p, q.input) :
           \/ projected_requirements(p, q.input)[n] = empty_requirement(<<"global", 0>>, "any")
           \/ \E k \in DOMAIN p.required :
                 projected_requirements(p, q.input)[n] = claim_requirement(<<"claim", k>>, p.required[k], p, q.input)
    BY <2>2, ProjectedRequirements
  <2> QED
    BY <2>2, <2>3, Zenon DEF p
<1>4. /\ evaluate_service_policy(S).errors = ServiceErrors(S, e)
      /\ ServiceErrors(S, e) # {}
  <2>1. validate_request(S)
    BY DEF evaluate_service_policy, S
  <2>2. evaluate_service_policy(S)
           = Answer(Decision(MetObligations(S.policy, e), Obligations(S.policy), ServiceErrors(S, e)),
                    ServiceErrors(S, e), Contributed(S.policy, e))
    BY <2>1, Zenon DEF evaluate_service_policy, Judge, Judged, e
  <2>3. /\ evaluate_service_policy(S).errors = ServiceErrors(S, e)
        /\ Decision(MetObligations(S.policy, e), Obligations(S.policy), ServiceErrors(S, e)) # "Allow"
    BY <2>2 DEF Answer, S
  <2>4. \/ ServiceErrors(S, e) # {}
        \/ MetObligations(S.policy, e) # Obligations(S.policy)
    BY <2>3 DEF Decision
  <2> QED
    BY <1>1, <2>3, <2>4, UnmetLeavesError DEF e
<1>5. ASSUME NEW v \in ServiceErrors(S, e) PROVE ~(v.code \in ClaimCodes /\ v.requirement[1] = "global")
  <2>1. CASE v \in UNION {r.errors : r \in Range(e.direct)}
    <3>1. PICK n \in DOMAIN S.policy.requirements : v \in e.direct[n].errors
      BY <1>2, <2>1 DEF Range
    <3>2. v \in evaluate_requirement(S.policy.requirements[n], S.policy, {c}, S.day).errors
      BY <1>2, <3>1
    <3>3. /\ v.requirement = S.policy.requirements[n].id
          /\ v.code \in ClaimCodes /\ DOMAIN S.policy.requirements[n].claims = {} =>
                S.policy.requirements[n].template # None /\ S.policy.requirements[n].template \notin c.templates
      <4> DEFINE r == S.policy.requirements[n]
                 p == S.policy
                 day == S.day
      <4>1. v \in evaluate_requirement(r, p, {c}, day).errors /\ p.issuer = None
        BY <1>1, <3>2
      <4> HIDE DEF r, p, day
      <4>2. /\ v.requirement = r.id
            /\ v.code \in ClaimCodes /\ DOMAIN r.claims = {} => r.template # None /\ r.template \notin c.templates
        BY <1>1, <4>1, ErrorNamesRequirement
      <4> QED
        BY <4>2 DEF r
    <3>4. CASE S.policy.requirements[n] = empty_requirement(<<"global", 0>>, "any")
      <4>1. /\ DOMAIN S.policy.requirements[n].claims = {}
            /\ S.policy.requirements[n].template = "any"
        BY <3>4 DEF empty_requirement
      <4> QED
        BY <1>1, <3>3, <4>1
    <3>5. CASE \E k \in DOMAIN q.policy.required :
                  S.policy.requirements[n] = claim_requirement(<<"claim", k>>, q.policy.required[k], q.policy, q.input)
      <4>1. S.policy.requirements[n].id[1] = "claim"
        BY <3>5 DEF claim_requirement, empty_requirement
      <4> QED
        BY <3>3, <4>1
    <3> QED
      BY <1>3, <3>4, <3>5
  <2>2. CASE v \in AlternativeErrors(S.policy, e)
    <3>1. PICK i \in DOMAIN S.policy.alternatives :
             \/ v \in UNION {r.errors : r \in Range(e.alternatives[i])}
             \/ v = Violation("AlternativeRequirementFailed", S.policy.alternatives[i], None)
      BY <2>2 DEF AlternativeErrors
    <3>2. CASE v \in UNION {r.errors : r \in Range(e.alternatives[i])}
      <4>1. PICK k \in DOMAIN S.policy.alternatives[i].requirements : v \in e.alternatives[i][k].errors
        BY <1>2, <3>2 DEF Range
      <4>2. v \in evaluate_requirement(S.policy.alternatives[i].requirements[k], S.policy, {c}, S.day).errors
        BY <1>2, <4>1
      <4>3. v.requirement = <<"accepted", k>>
        <5> DEFINE r == S.policy.alternatives[i].requirements[k]
                   p == S.policy
                   day == S.day
        <5>1. v \in evaluate_requirement(r, p, {c}, day).errors /\ p.issuer = None /\ r.id = <<"accepted", k>>
          BY <1>1, <4>2
        <5> HIDE DEF r, p, day
        <5> QED
          BY <1>1, <5>1, ErrorNamesRequirement
      <4> QED
        BY <4>3
    <3>3. CASE v = Violation("AlternativeRequirementFailed", S.policy.alternatives[i], None)
      BY <3>3 DEF Violation, ClaimCodes
    <3> QED
      BY <3>1, <3>2, <3>3
  <2>3. CASE v \in HolderErrors(S)
    BY <2>3 DEF HolderErrors, When, GlobalViolation, ClaimCodes
  <2>4. CASE v \in ProofTimeErrors(S)
    BY <2>4 DEF ProofTimeErrors, When, GlobalViolation, ClaimCodes
  <2>5. CASE v \in ExternalErrors(S)
    BY <1>1, <2>5 DEF ExternalErrors
  <2>6. CASE v \in CountErrors(S) \cup ConflictErrors(Contributed(S.policy, e))
    BY <2>6 DEF CountErrors, ConflictErrors, When, GlobalViolation, ClaimCodes
  <2>7. CASE v \in When(S.policy.proof /\ ~S.presented, GlobalViolation("PresentationProofRequired"))
    BY <2>7 DEF When, GlobalViolation, ClaimCodes
  <2> QED
    BY <2>1, <2>2, <2>3, <2>4, <2>5, <2>6, <2>7, Zenon DEF ServiceErrors
<1>6. PICK v : v \in ServiceErrors(S, e) /\ map_error(v) # {}
  BY <1>4, <1>5, ErrorsAreMapped
<1> QED
  BY <1>4, <1>6 DEF S

\* The minimum of what the legacy evaluator allows is enough.
LEMMA LegacySufficient ==
    ASSUME NEW q \in LegacyRequests
    PROVE  Sufficient(q, evaluate(q.policy, q.input))
<1> DEFINE a == evaluate(q.policy, q.input)
           canonical == evaluate_service_policy(Projection(q.policy, q.input))
           shown == [n \in a.disclosure |-> q.input.claims[n]]
           input == [q.input EXCEPT !.claims = shown]
           again == evaluate(q.policy, input)
<1>1. /\ a.satisfied <=> canonical.decision = "Allow"
      /\ canonical.decision = "Allow" => a.disclosure = resolve(q.policy, DOMAIN q.input.claims)
      /\ canonical.decision # "Allow" => a.disclosure = {}
      /\ a.errors = IF canonical.decision = "Invalid" THEN {LegacyError("InvalidPolicy", "Claims")}
                    ELSE UNION {map_error(v) : v \in canonical.errors}
  <2> HIDE DEF canonical
  <2> QED BY DEF evaluate, FromCanonical, LegacyAnswer, canonical
<1>2. ASSUME canonical.decision = "Allow" PROVE again.satisfied /\ again.disclosure = a.disclosure
  <2>1. /\ evaluate_service_policy(Projection(q.policy, input)) = canonical
        /\ resolve(q.policy, DOMAIN input.claims) = a.disclosure
    BY <1>1, <1>2, MinimumAccepted, Zenon
  <2>2. /\ again.satisfied <=> evaluate_service_policy(Projection(q.policy, input)).decision = "Allow"
        /\ evaluate_service_policy(Projection(q.policy, input)).decision = "Allow"
              => again.disclosure = resolve(q.policy, DOMAIN input.claims)
    <3> HIDE DEF input
    <3> QED BY DEF evaluate, FromCanonical, LegacyAnswer
  <2> HIDE DEF again, input, canonical, a
  <2> QED
    BY <1>2, <2>1, <2>2
<1>3. ASSUME canonical.decision # "Allow" PROVE a.errors # {}
  <2>1. CASE canonical.decision = "Invalid"
    BY <1>1, <2>1
  <2>2. CASE canonical.decision # "Invalid"
    BY <1>1, <1>3, <2>2, RefusalHasReason
  <2> QED
    BY <2>1, <2>2
<1> HIDE DEF a, canonical
<1> QED
  BY <1>1, <1>2, <1>3, Zenon DEF Sufficient, a

mcvars == <<topic, vars, evidence, exchange>>

\* An evaluator's answer is to the request it was asked.
AnswerIsToRequest ==
    topic = "policy" =>
        \/ \E q \in ServiceRequests : /\ asked = [to |-> "service", request |-> q]
                                      /\ answer \in {None, evaluate_service_policy(q)}
        \/ \E q \in LegacyRequests : /\ asked = [to |-> "legacy", request |-> q]
                                     /\ answer \in {None, evaluate(q.policy, q.input)}

\* What a policy allows the credentials justify, and the least disclosure the
\* evaluator computes is enough for it, for any policies and requests
\* (policy/service.rs, evaluate_service_policy; policy/disclosure.rs, resolve).
THEOREM PoliciesDecideJustly == MCSpec => []DecisionsJustified
<1>1. MCInit => AnswerIsToRequest
  BY DEF MCInit, Init, AnswerIsToRequest
<1>2. AnswerIsToRequest /\ [MCNext]_mcvars => AnswerIsToRequest'
  <2> SUFFICES ASSUME AnswerIsToRequest, [MCNext]_mcvars, topic' = "policy"
               PROVE  AnswerIsToRequest'
    BY DEF AnswerIsToRequest
  <2>1. topic = "policy"
    BY DEF MCNext, mcvars
  <2>2. CASE UNCHANGED mcvars
    BY <2>1, <2>2 DEF AnswerIsToRequest, mcvars, vars
  <2>3. CASE Next
    <3>1. CASE AskService
      <4>1. PICK q \in ServiceRequests : asked = [to |-> "service", request |-> q]
        BY <2>1, <3>1 DEF AnswerIsToRequest, AskService
      <4>2. asked' = asked /\ answer' = evaluate_service_policy(q)
        BY <3>1, <4>1 DEF AskService
      <4> QED
        BY <4>1, <4>2, Zenon DEF AnswerIsToRequest
    <3>2. CASE AskLegacy
      <4>1. PICK q \in LegacyRequests : asked = [to |-> "legacy", request |-> q]
        BY <2>1, <3>2 DEF AnswerIsToRequest, AskLegacy
      <4>2. asked' = asked /\ answer' = evaluate(q.policy, q.input)
        BY <3>2, <4>1 DEF AskLegacy
      <4> QED
        BY <4>1, <4>2, Zenon DEF AnswerIsToRequest
    <3> QED
      BY <2>3, <3>1, <3>2 DEF Next
  <2> QED
    BY <2>1, <2>2, <2>3 DEF MCNext
<1>3. AnswerIsToRequest => DecisionsJustified
  <2> SUFFICES ASSUME AnswerIsToRequest, topic = "policy", answer # None
               PROVE  /\ asked.to = "service" => Justified(asked.request, answer)
                      /\ asked.to = "legacy" => Sufficient(asked.request, answer)
    BY Zenon DEF DecisionsJustified, AllowIsJustified, DisclosureSuffices
  <2>1. ASSUME NEW q \in ServiceRequests, asked = [to |-> "service", request |-> q],
               answer = evaluate_service_policy(q)
        PROVE  asked.to = "service" /\ Justified(asked.request, answer)
    <3>1. asked.to = "service" /\ asked.request = q
      BY <2>1
    <3> QED
      BY <2>1, <3>1, ServiceJustified, Zenon
  <2>2. ASSUME NEW q \in LegacyRequests, asked = [to |-> "legacy", request |-> q],
               answer = evaluate(q.policy, q.input)
        PROVE  asked.to = "legacy" /\ Sufficient(asked.request, answer)
    <3>1. asked.to = "legacy" /\ asked.request = q
      BY <2>2
    <3> QED
      BY <2>2, <3>1, LegacySufficient, Zenon
  <2>3. "service" # "legacy"
    OBVIOUS
  <2> QED
    BY <2>1, <2>2, <2>3, Zenon DEF AnswerIsToRequest
<1> QED
  BY <1>1, <1>2, <1>3, PTL DEF MCSpec, mcvars

-----------------------------------------------------------------------------
(* Evidence: the heads are the facts nothing later has replaced.           *)

\* Induction up to n.
LEMMA UpTo ==
    ASSUME NEW n \in Nat, NEW S, 0 \in S, \A k \in Nat : k < n /\ k \in S => k + 1 \in S
    PROVE  \A k \in 0 .. n : k \in S
<1> SUFFICES ASSUME NEW m \in 0 .. n, m \notin S PROVE FALSE
  OBVIOUS
<1> DEFINE Bad == {k \in 0 .. n : k \notin S}
<1>1. Bad \subseteq Nat /\ Bad # {}
  OBVIOUS
<1>2. PICK b \in Bad : \A y \in Bad : b <= y
  <2> HIDE DEF Bad
  <2> QED BY <1>1, Least
<1>3. b \in Nat /\ b # 0 /\ b <= n /\ b \notin S
  OBVIOUS
<1>4. b - 1 \in Nat /\ b - 1 \in S
  BY <1>2, <1>3
<1> QED
  BY <1>3, <1>4

\* The times of a fact are in order, and so are those of its observation.
Timed(a) == \A k \in 1 .. 4 : a[k] \in Nat
LEMMA LaterIsAnOrder ==
    ASSUME NEW a, NEW b, NEW c, Timed(a), Timed(b), Timed(c)
    PROVE  /\ ~E!Later(a, a)
           /\ E!Later(a, b) /\ E!Later(b, c) => E!Later(a, c)
           /\ ~E!Later(a, b) /\ ~E!Later(b, a) => \A k \in 1 .. 4 : a[k] = b[k]
           /\ ~E!Later(a, b) => a[1] <= b[1]
<1>1. ~E!Later(a, a)
  BY DEF E!Later, Timed
<1>2. ASSUME E!Later(a, b), E!Later(b, c) PROVE E!Later(a, c)
  <2>1. PICK k \in 1 .. 4 : a[k] > b[k] /\ \A j \in 1 .. k - 1 : a[j] = b[j]
    BY <1>2 DEF E!Later
  <2>2. PICK l \in 1 .. 4 : b[l] > c[l] /\ \A j \in 1 .. l - 1 : b[j] = c[j]
    BY <1>2 DEF E!Later
  <2>3. CASE k <= l
    <3>1. a[k] > c[k] /\ \A j \in 1 .. k - 1 : a[j] = c[j]
      BY <2>1, <2>2, <2>3 DEF Timed
    <3> QED
      BY <3>1 DEF E!Later
  <2>4. CASE l < k
    <3>1. a[l] > c[l] /\ \A j \in 1 .. l - 1 : a[j] = c[j]
      BY <2>1, <2>2, <2>4 DEF Timed
    <3> QED
      BY <3>1 DEF E!Later
  <2> QED
    BY <2>3, <2>4
<1>3. ASSUME ~E!Later(a, b) PROVE a[1] <= b[1]
  BY <1>3 DEF E!Later, Timed
<1>4. ASSUME ~E!Later(a, b), ~E!Later(b, a) PROVE \A k \in 1 .. 4 : a[k] = b[k]
  <2>1. a[1] = b[1]
    BY <1>4 DEF E!Later, Timed
  <2>2. a[2] = b[2]
    BY <1>4, <2>1 DEF E!Later, Timed
  <2>3. a[3] = b[3]
    BY <1>4, <2>1, <2>2 DEF E!Later, Timed
  <2>4. a[4] = b[4]
    BY <1>4, <2>1, <2>2, <2>3 DEF E!Later, Timed
  <2> QED
    BY <2>1, <2>2, <2>3, <2>4
<1> QED
  BY <1>1, <1>2, <1>3, <1>4

\* The pass over the facts has one result at each step.
LEMMA HeadsStep ==
    ASSUME NEW facts, Len(facts) \in Nat
    PROVE  \E h : /\ h = [k \in 0 .. Len(facts) |-> IF k = 0 THEN {} ELSE E!Kept(h[k - 1], facts[k])]
                  /\ E!current_heads(facts) = h[Len(facts)]
<1> DEFINE Def(h, n) == h = [k \in 0 .. n |-> IF k = 0 THEN {} ELSE E!Kept(h[k - 1], facts[k])]
           S == {n \in Nat : \E h : Def(h, n)}
<1>1. 0 \in S
  <2> DEFINE h == [k \in 0 .. 0 |-> {}]
  <2>1. Def(h, 0)
    OBVIOUS
  <2> QED
    BY <2>1
<1>2. ASSUME NEW n \in Nat, n \in S PROVE n + 1 \in S
  <2>1. PICK h : Def(h, n)
    BY <1>2
  <2> DEFINE g == [k \in 0 .. n + 1 |-> IF k = n + 1 THEN E!Kept(h[n], facts[n + 1]) ELSE h[k]]
             r == [k \in 0 .. n + 1 |-> IF k = 0 THEN {} ELSE E!Kept(g[k - 1], facts[k])]
  <2>2. ASSUME NEW k \in 0 .. n + 1 PROVE g[k] = r[k]
    <3>1. CASE k = n + 1
      <4>1. n + 1 # 0 /\ k - 1 = n /\ g[n] = h[n]
        BY <3>1
      <4> QED
        BY <3>1, <4>1
    <3>2. CASE k = 0
      <4>1. h[0] = {}
        BY <2>1
      <4> QED
        BY <3>2, <4>1
    <3>3. CASE k \in 1 .. n
      <4>1. h[k] = E!Kept(h[k - 1], facts[k])
        <5>1. k \in 0 .. n /\ k # 0
          BY <3>3
        <5>2. \A j \in 0 .. n : h[j] = IF j = 0 THEN {} ELSE E!Kept(h[j - 1], facts[j])
          BY <2>1, Zenon
        <5> QED
          BY <5>1, <5>2
      <4>2. g[k] = h[k] /\ g[k - 1] = h[k - 1]
        BY <3>3
      <4>3. r[k] = E!Kept(g[k - 1], facts[k])
        BY <3>3
      <4> QED
        BY <4>1, <4>2, <4>3
    <3> QED
      BY <3>1, <3>2, <3>3
  <2>3. g = r
    BY <2>2
  <2>4. Def(g, n + 1)
    BY <2>3
  <2> QED
    <3> HIDE DEF Def
    <3> QED BY <2>4
<1>3. \E h : Def(h, Len(facts))
  <2>1. Len(facts) \in S
    <3> HIDE DEF S
    <3>1. \A k \in Nat : k < Len(facts) /\ k \in S => k + 1 \in S
      BY <1>2
    <3>2. \A k \in 0 .. Len(facts) : k \in S
      BY <1>1, <3>1, UpTo
    <3> QED BY <3>2
  <2> QED
    BY <2>1
<1>4. E!current_heads(facts) = (CHOOSE h : Def(h, Len(facts)))[Len(facts)]
  BY Zenon DEF E!current_heads
<1> QED
  <2> DEFINE h == CHOOSE x : Def(x, Len(facts))
  <2>1. Def(h, Len(facts))
    <3> HIDE DEF Def
    <3> QED BY <1>3
  <2>2. E!current_heads(facts) = h[Len(facts)]
    BY <1>4
  <2> HIDE DEF h
  <2> QED
    BY <2>1, <2>2

\* A fact's place in the order of its key, and among the heads.
Observation(f) == <<f.observed, f.created, f.id, 0>>
LEMMA FactsTimed ==
    ASSUME NEW f \in Facts
    PROVE  Timed(E!fact_order(f)) /\ Timed(Observation(f))
BY FactAssumption DEF E!EvidenceTyped, E!fact_order, Timed, Observation

\* The heads of the facts P: one for each key, and no fact of P is later.
InForce(H, P) ==
    /\ H \subseteq P
    /\ \A f \in H, g \in P : E!LogicalKey(g) = E!LogicalKey(f) => ~E!Later(E!fact_order(g), E!fact_order(f))
    /\ \A g \in P : \E f \in H : E!LogicalKey(f) = E!LogicalKey(g)
    /\ \A f, g \in H : E!LogicalKey(f) = E!LogicalKey(g) => f = g

LEMMA KeptInForce ==
    ASSUME NEW P, P \subseteq Facts, NEW H, InForce(H, P), NEW x \in Facts
    PROVE  InForce(E!Kept(H, x), P \cup {x})
<1> DEFINE old == {h \in H : E!LogicalKey(h) = E!LogicalKey(x)}
           K == E!Kept(H, x)
<1>1. K = IF \A h \in old : E!Later(E!fact_order(x), E!fact_order(h)) THEN (H \ old) \cup {x} ELSE H
  BY Zenon DEF E!Kept
<1>2. \A f \in P \cup {x} : Timed(E!fact_order(f))
  BY FactsTimed
<1>3. H \subseteq P /\ \A f, g \in H : E!LogicalKey(f) = E!LogicalKey(g) => f = g
  BY DEF InForce
<1>4. ~E!Later(E!fact_order(x), E!fact_order(x))
  BY <1>2, LaterIsAnOrder
<1>5. CASE \A h \in old : E!Later(E!fact_order(x), E!fact_order(h))
  <2>1. K = (H \ old) \cup {x}
    BY <1>1, <1>5
  <2> HIDE DEF K
  <2>2. K \subseteq P \cup {x}
    BY <1>3, <2>1
  <2>3. ASSUME NEW f \in K, NEW g \in P \cup {x}, E!LogicalKey(g) = E!LogicalKey(f)
        PROVE  ~E!Later(E!fact_order(g), E!fact_order(f))
    <3>1. CASE f # x
      <4>1. f \in H /\ g \in P
        BY <2>1, <2>3, <3>1
      <4> QED
        BY <2>3, <4>1 DEF InForce
    <3>2. CASE f = x /\ g = x
      BY <1>4, <3>2
    <3>3. CASE f = x /\ g # x
      <4>1. PICK h \in H : E!LogicalKey(h) = E!LogicalKey(g)
        BY <3>3 DEF InForce
      <4>2. ~E!Later(E!fact_order(g), E!fact_order(h))
        BY <3>3, <4>1 DEF InForce
      <4>3. E!Later(E!fact_order(x), E!fact_order(h))
        BY <1>5, <2>3, <3>3, <4>1
      <4>4. g \in P \cup {x} /\ h \in P \cup {x} /\ x \in P \cup {x}
        BY <1>3
      <4> QED
        BY <1>2, <3>3, <4>2, <4>3, <4>4, LaterIsAnOrder
    <3> QED
      BY <3>1, <3>2, <3>3
  <2>4. ASSUME NEW g \in P \cup {x} PROVE \E f \in K : E!LogicalKey(f) = E!LogicalKey(g)
    <3>1. CASE E!LogicalKey(g) = E!LogicalKey(x)
      BY <2>1, <3>1
    <3>2. CASE E!LogicalKey(g) # E!LogicalKey(x)
      <4>1. PICK h \in H : E!LogicalKey(h) = E!LogicalKey(g)
        BY <3>2 DEF InForce
      <4> QED
        BY <2>1, <3>2, <4>1
    <3> QED
      BY <3>1, <3>2
  <2>5. ASSUME NEW f \in K, NEW g \in K, E!LogicalKey(f) = E!LogicalKey(g) PROVE f = g
    BY <1>3, <2>1, <2>5
  <2> QED
    BY <2>2, <2>3, <2>4, <2>5 DEF InForce, K
<1>6. CASE \E h \in old : ~E!Later(E!fact_order(x), E!fact_order(h))
  <2>1. K = H
    BY <1>1, <1>6
  <2>2. PICK h \in H : E!LogicalKey(h) = E!LogicalKey(x) /\ ~E!Later(E!fact_order(x), E!fact_order(h))
    BY <1>6
  <2> HIDE DEF K
  <2>3. ASSUME NEW f \in H, NEW g \in P \cup {x}, E!LogicalKey(g) = E!LogicalKey(f)
        PROVE  ~E!Later(E!fact_order(g), E!fact_order(f))
    <3>1. CASE g = x
      BY <1>3, <2>2, <2>3, <3>1
    <3>2. CASE g \in P
      BY <2>3, <3>2 DEF InForce
    <3> QED
      BY <3>1, <3>2
  <2>4. \A g \in P \cup {x} : \E f \in H : E!LogicalKey(f) = E!LogicalKey(g)
    BY <2>2 DEF InForce
  <2> QED
    BY <1>3, <2>1, <2>3, <2>4 DEF InForce, K
<1> QED
  BY <1>5, <1>6

\* The heads are in force, whatever the order the facts arrived in.
LEMMA HeadsInForce ==
    ASSUME NEW facts \in Seq(Facts)
    PROVE  InForce(E!current_heads(facts), E!Range(facts))
<1> DEFINE n == Len(facts)
           Seen(k) == {facts[j] : j \in 1 .. k}
<1>1. n \in Nat /\ DOMAIN facts = 1 .. n /\ \A j \in 1 .. n : facts[j] \in Facts
  OBVIOUS
<1> HIDE DEF n
<1>2. PICK h : /\ h = [k \in 0 .. n |-> IF k = 0 THEN {} ELSE E!Kept(h[k - 1], facts[k])]
               /\ E!current_heads(facts) = h[n]
  BY <1>1, HeadsStep DEF n
<1>3. \A k \in 0 .. n : h[k] = IF k = 0 THEN {} ELSE E!Kept(h[k - 1], facts[k])
  BY <1>2, Zenon
<1> DEFINE S == {k \in Nat : k <= n => InForce(h[k], Seen(k))}
<1>4. 0 \in S
  <2>1. h[0] = {} /\ Seen(0) = {}
    BY <1>1, <1>3
  <2>2. InForce({}, {})
    BY DEF InForce
  <2> QED
    BY <2>1, <2>2
<1>5. ASSUME NEW k \in Nat, k < n, k \in S PROVE k + 1 \in S
  <2>1. InForce(h[k], Seen(k))
    BY <1>1, <1>5
  <2>2. Seen(k + 1) = Seen(k) \cup {facts[k + 1]}
    <3>1. 1 .. k + 1 = (1 .. k) \cup {k + 1}
      OBVIOUS
    <3> QED
      BY <3>1
  <2>3. Seen(k) \subseteq Facts /\ facts[k + 1] \in Facts
    BY <1>1, <1>5
  <2>4. h[k + 1] = E!Kept(h[k], facts[k + 1])
    <3>1. k + 1 \in 0 .. n /\ k + 1 # 0 /\ k + 1 - 1 = k
      BY <1>1, <1>5
    <3> QED
      BY <1>3, <3>1
  <2> HIDE DEF Seen
  <2>5. InForce(h[k + 1], Seen(k + 1))
    BY <2>1, <2>2, <2>3, <2>4, KeptInForce
  <2> QED
    BY <2>5
<1>6. n \in S
  <2> HIDE DEF S
  <2>1. \A k \in Nat : k < n /\ k \in S => k + 1 \in S
    BY <1>5
  <2>2. \A k \in 0 .. n : k \in S
    BY <1>1, <1>4, <2>1, UpTo
  <2> QED
    BY <1>1, <2>2
<1>7. Seen(n) = E!Range(facts)
  BY <1>1 DEF E!Range
<1> QED
  <2> HIDE DEF Seen
  <2> QED BY <1>1, <1>2, <1>6, <1>7

\* Among facts there is a last one by observation.
LEMMA LatestExists ==
    ASSUME NEW facts \in Seq(Facts), NEW T, T \subseteq E!Range(facts), T # {}
    PROVE  /\ E!LatestHead(T) \in T
           /\ \A g \in T : ~E!Later(Observation(g), Observation(E!LatestHead(T)))
<1> DEFINE n == Len(facts)
           Seen(k) == {facts[j] : j \in 1 .. k}
           Best(U, f) == f \in U /\ \A g \in U : ~E!Later(Observation(g), Observation(f))
           S == {k \in Nat : k <= n => \A U : U # {} /\ U \subseteq Seen(k) => \E f : Best(U, f)}
<1>1. n \in Nat /\ DOMAIN facts = 1 .. n /\ \A j \in 1 .. n : facts[j] \in Facts
  OBVIOUS
<1>2. \A f \in Facts : Timed(Observation(f))
  BY FactsTimed
<1> HIDE DEF n
<1>3. 0 \in S
  <2>1. Seen(0) = {}
    BY <1>1
  <2> HIDE DEF Seen, Best
  <2> QED
    BY <1>1, <2>1
<1>4. ASSUME NEW k \in Nat, k < n, k \in S PROVE k + 1 \in S
  <2> DEFINE x == facts[k + 1]
  <2>1. Seen(k + 1) = Seen(k) \cup {x} /\ Seen(k) \subseteq Facts /\ x \in Facts
    <3>1. 1 .. k + 1 = (1 .. k) \cup {k + 1}
      OBVIOUS
    <3> QED
      BY <1>1, <1>4, <3>1
  <2>2. \A U : U # {} /\ U \subseteq Seen(k) => \E f : Best(U, f)
    <3> HIDE DEF Seen, Best
    <3> QED BY <1>1, <1>4
  <2> HIDE DEF Seen, x
  <2>3. ASSUME NEW U, U # {}, U \subseteq Seen(k + 1) PROVE \E f : Best(U, f)
    <3>1. CASE x \notin U
      BY <2>1, <2>2, <2>3, <3>1
    <3>2. CASE U = {x}
      <4>1. ~E!Later(Observation(x), Observation(x))
        BY <1>2, <2>1, LaterIsAnOrder
      <4> QED
        BY <3>2, <4>1
    <3>3. CASE x \in U /\ U # {x}
      <4> DEFINE V == U \ {x}
      <4>1. V # {} /\ V \subseteq Seen(k)
        BY <2>1, <2>3, <3>3
      <4>2. PICK f : Best(V, f)
        <5> HIDE DEF V, Best
        <5> QED BY <2>2, <4>1
      <4>3. CASE E!Later(Observation(x), Observation(f))
        <5>1. ASSUME NEW g \in U PROVE ~E!Later(Observation(g), Observation(x))
          <6>1. Timed(Observation(g)) /\ Timed(Observation(x)) /\ Timed(Observation(f))
            BY <1>2, <2>1, <2>3, <4>2
          <6>2. CASE g = x
            BY <6>1, <6>2, LaterIsAnOrder
          <6>3. CASE g # x
            <7>1. ~E!Later(Observation(g), Observation(f))
              BY <4>2, <6>3
            <7> QED
              BY <4>3, <6>1, <7>1, LaterIsAnOrder
          <6> QED
            BY <6>2, <6>3
        <5> QED
          BY <3>3, <5>1
      <4>4. CASE ~E!Later(Observation(x), Observation(f))
        <5>1. Best(U, f)
          BY <4>2, <4>4
        <5> QED
          BY <5>1
      <4> QED
        BY <4>3, <4>4
    <3> QED
      BY <3>1, <3>2, <3>3
  <2> QED
    <3> HIDE DEF Best
    <3> QED BY <2>3
<1>5. n \in S
  <2> HIDE DEF S
  <2>1. \A k \in Nat : k < n /\ k \in S => k + 1 \in S
    BY <1>4
  <2>2. \A k \in 0 .. n : k \in S
    BY <1>1, <1>3, <2>1, UpTo
  <2> QED
    BY <1>1, <2>2
<1>6. Seen(n) = E!Range(facts)
  BY <1>1 DEF E!Range
<1>7. \E f : Best(T, f)
  <2> HIDE DEF Seen, Best
  <2> QED BY <1>1, <1>5, <1>6
<1>8. \E f \in T : \A g \in T : ~E!Later(Observation(g), Observation(f))
  BY <1>7
<1>9. E!LatestHead(T) = CHOOSE f \in T : \A g \in T : ~E!Later(Observation(g), Observation(f))
  BY Zenon DEF E!LatestHead, Observation
<1> QED
  BY <1>8, <1>9

\* Under the bundled policy an application is allowed only on requirements
\* that facts in force satisfy.
LEMMA AllowedIsBacked ==
    ASSUME NEW a, NEW facts \in Seq(Facts), E!PolicySetId(a) = None, E!evaluate(a, facts).allowed
    PROVE  LET wanted == IF a.requirements = {} THEN {E!DefaultRequirement}
                         ELSE {r \in a.requirements : r.required} IN
           /\ wanted # {}
           /\ \A r \in wanted : E!Backed(r, facts)
           /\ \A f \in E!Range(facts) : ~E!Superseded(f, facts) /\ ~E!fact_verified(f) =>
                 \E g \in E!Range(facts) : ~E!Superseded(g, facts) /\ E!fact_verified(g) /\ g.observed >= f.observed
<1> DEFINE H == E!current_heads(facts)
           wanted == IF a.requirements = {} THEN {E!DefaultRequirement}
                     ELSE {r \in a.requirements : r.required}
           satisfied == {r \in wanted : \E f \in H : E!fact_satisfies_requirement(f, r)}
           summary == E!summarize_requirements(a.requirements, H)
           context == E!build_context(a, H)
<1>1. InForce(H, E!Range(facts))
  BY HeadsInForce
<1>2. /\ summary.all <=> wanted # {} /\ satisfied = wanted
  <2> HIDE DEF H
  <2> QED BY DEF E!summarize_requirements
<1>3. /\ context.status = IF H = {} THEN "UNVERIFIED" ELSE E!LatestHead(H).status
      /\ context.all <=> summary.all
  <2> HIDE DEF H, summary
  <2> QED BY DEF E!build_context, E!ContextOf, summary
<1>4. context.status = "VERIFIED" /\ context.all
  <2>1. E!is_authorized({"bundled"}, context)
    <3> HIDE DEF H
    <3> QED BY DEF E!evaluate, E!Judged, H
  <2> HIDE DEF context
  <2> QED
    BY <2>1 DEF E!is_authorized, E!BundledPermits
<1> HIDE DEF H, summary, context
<1>5. \A f \in H : f \in E!Range(facts) /\ ~E!Superseded(f, facts)
  BY <1>1 DEF InForce, E!Superseded
<1>6. wanted # {} /\ \A r \in wanted : E!Backed(r, facts)
  <2>1. wanted # {} /\ satisfied = wanted
    BY <1>2, <1>3, <1>4
  <2> HIDE DEF wanted
  <2> QED
    BY <1>5, <2>1 DEF E!Backed
<1>7. ASSUME NEW f \in E!Range(facts), ~E!Superseded(f, facts)
      PROVE  \E g \in E!Range(facts) : ~E!Superseded(g, facts) /\ E!fact_verified(g) /\ g.observed >= f.observed
  <2> DEFINE g == E!LatestHead(H)
  <2>1. H # {} /\ g.status = "VERIFIED"
    BY <1>3, <1>4
  <2>2. H \subseteq E!Range(facts)
    BY <1>5
  <2>3. g \in H /\ \A x \in H : ~E!Later(Observation(x), Observation(g))
    BY <2>1, <2>2, LatestExists
  <2> HIDE DEF g
  <2>4. PICK x \in H : E!LogicalKey(x) = E!LogicalKey(f)
    BY <1>1 DEF InForce
  <2>5. E!Range(facts) \subseteq Facts
    BY DEF E!Range
  <2>6. f \in Facts /\ x \in Facts /\ g \in Facts
    BY <2>2, <2>3, <2>5
  <2>7. f.observed = x.observed
    <3>1. /\ ~E!Later(E!fact_order(f), E!fact_order(x))
          /\ ~E!Later(E!fact_order(x), E!fact_order(f))
      BY <1>1, <1>7, <2>2, <2>4 DEF InForce, E!Superseded
    <3>2. E!fact_order(f)[2] = E!fact_order(x)[2]
      BY <2>6, <3>1, FactsTimed, LaterIsAnOrder
    <3> QED
      BY <3>2 DEF E!fact_order
  <2>8. x.observed <= g.observed
    <3>1. Observation(x)[1] <= Observation(g)[1]
      BY <2>3, <2>6, FactsTimed, LaterIsAnOrder
    <3> QED
      BY <3>1 DEF Observation
  <2>9. f.observed \in Nat /\ g.observed \in Nat
    BY <2>6, FactAssumption DEF E!EvidenceTyped
  <2> QED
    BY <1>5, <2>1, <2>3, <2>7, <2>8, <2>9 DEF E!fact_verified
<1> QED
  BY <1>6, <1>7

\* The last plan was made on facts that arrived, and one that approves on
\* freshly read facts had them allowed.
PlanRestsOnFacts ==
    topic = "evidence" =>
        /\ log \in Seq(Facts) /\ last.log \in Seq(Facts)
        /\ E!Approves(last.action) /\ last.fresh => E!evaluate(case, last.log).allowed

\* An approval made on freshly read facts is backed by the facts in force, for
\* any requirements and any facts in any order of arrival
\* (evidence_policy.rs, current_heads; evidence_reconciliation.rs,
\* reconciliation_plan).
THEOREM ApprovalsAreBacked == MCSpec => []ApprovalBacked
<1>1. MCInit => PlanRestsOnFacts
  <2> SUFFICES ASSUME MCInit, topic = "evidence" PROVE PlanRestsOnFacts
    BY DEF PlanRestsOnFacts
  <2>1. log = <<>> /\ last = [action |-> "none", fresh |-> FALSE, log |-> <<>>]
    BY DEF MCInit, E!Init
  <2>2. last.log = <<>> /\ ~last.fresh
    BY <2>1
  <2>3. <<>> \in Seq(Facts)
    OBVIOUS
  <2> QED
    BY <2>1, <2>2, <2>3, Zenon DEF PlanRestsOnFacts
<1>2. PlanRestsOnFacts /\ [MCNext]_mcvars => PlanRestsOnFacts'
  <2> SUFFICES ASSUME PlanRestsOnFacts, [MCNext]_mcvars, topic' = "evidence"
               PROVE  PlanRestsOnFacts'
    BY DEF PlanRestsOnFacts
  <2>1. topic = "evidence"
    BY DEF MCNext, mcvars
  <2>2. CASE UNCHANGED mcvars
    BY <2>1, <2>2, Zenon DEF PlanRestsOnFacts, mcvars, evidence
  <2>3. CASE E!FactArrives
    <3>1. /\ log' \in Seq(Facts) /\ case' = case /\ last' = last
      BY <2>1, <2>3 DEF E!FactArrives, PlanRestsOnFacts
    <3> QED
      BY <2>1, <3>1, Zenon DEF PlanRestsOnFacts
  <2>4. CASE E!Reconcile(TRUE, E!evaluate(case, log))
    <3> DEFINE decided == E!evaluate(case, log)
    <3>1. PICK action : /\ last' = [action |-> action, fresh |-> TRUE, log |-> log]
                        /\ E!Approves(action) => decided.allowed
      <4> HIDE DEF decided
      <4>1. PICK issue, dry \in BOOLEAN :
               last' = [action |-> E!reconciliation_plan(decided, TRUE, transaction, issue, dry), fresh |-> TRUE, log |-> log]
        BY <2>4 DEF E!Reconcile, decided
      <4>2. E!Approves(E!reconciliation_plan(decided, TRUE, transaction, issue, dry)) => decided.allowed
        BY DEF E!Approves, E!reconciliation_plan
      <4> QED
        BY <4>1, <4>2
    <3>2. last'.action = action /\ last'.log = log
      BY <3>1
    <3>3. log' = log /\ case' = case
      BY <2>4 DEF E!Reconcile
    <3> QED
      BY <2>1, <3>1, <3>2, <3>3, Zenon DEF PlanRestsOnFacts
  <2>5. CASE E!Recover
    <3>1. PICK action : last' = [action |-> action, fresh |-> FALSE, log |-> log]
      BY <2>5 DEF E!Recover, E!Reconcile
    <3>2. ~last'.fresh /\ last'.log = log
      BY <3>1
    <3>3. log' = log
      BY <2>5 DEF E!Recover, E!Reconcile
    <3> QED
      BY <2>1, <3>2, <3>3, Zenon DEF PlanRestsOnFacts
  <2>6. CASE E!TransactionExpires
    BY <2>1, <2>6, Zenon DEF PlanRestsOnFacts, E!TransactionExpires
  <2> QED
    BY <2>1, <2>2, <2>3, <2>4, <2>5, <2>6 DEF MCNext, E!Next
<1>3. PlanRestsOnFacts => ApprovalBacked
  <2> SUFFICES ASSUME PlanRestsOnFacts, topic = "evidence",
                      E!Approves(last.action), last.fresh, E!PolicySetId(case) = None
               PROVE  E!ApprovalBacked
    BY Zenon DEF ApprovalBacked, E!ApprovalBacked
  <2>1. last.log \in Seq(Facts) /\ E!evaluate(case, last.log).allowed
    BY Zenon DEF PlanRestsOnFacts
  <2> QED
    BY <2>1, AllowedIsBacked, Zenon DEF E!ApprovalBacked
<1> QED
  BY <1>1, <1>2, <1>3, PTL DEF MCSpec, mcvars

-----------------------------------------------------------------------------
(* Presentation Exchange: paths, and where they lead.                      *)

\* The paths of a chain are joined one by one.
LEMMA FlattenStep ==
    ASSUME NEW paths, Len(paths) \in Nat \ {0}
    PROVE  \E h : /\ h = [i \in 1 .. Len(paths) |-> IF i = 1 THEN paths[i] ELSE h[i - 1] \o paths[i]]
                  /\ Pe!FlattenSeq(paths) = h[Len(paths)]
<1> DEFINE Def(h, n) == h = [i \in 1 .. n |-> IF i = 1 THEN paths[i] ELSE h[i - 1] \o paths[i]]
           S == {n \in Nat : \E h : Def(h, n)}
<1>1. 0 \in S
  <2> DEFINE h == [i \in 1 .. 0 |-> <<>>]
  <2>1. Def(h, 0)
    OBVIOUS
  <2> QED
    BY <2>1
<1>2. ASSUME NEW n \in Nat, n \in S PROVE n + 1 \in S
  <2>1. PICK h : Def(h, n)
    BY <1>2
  <2> DEFINE g == [i \in 1 .. n + 1 |-> IF i = n + 1 THEN (IF n = 0 THEN paths[i] ELSE h[n] \o paths[i]) ELSE h[i]]
             r == [i \in 1 .. n + 1 |-> IF i = 1 THEN paths[i] ELSE g[i - 1] \o paths[i]]
  <2>2. ASSUME NEW i \in 1 .. n + 1 PROVE g[i] = r[i]
    <3>1. CASE i = n + 1 /\ n = 0
      BY <3>1
    <3>2. CASE i = n + 1 /\ n # 0
      <4>1. i # 1 /\ i - 1 = n /\ n \in 1 .. n + 1 /\ g[n] = h[n]
        BY <3>2
      <4>2. g[i] = h[n] \o paths[i] /\ r[i] = g[i - 1] \o paths[i]
        BY <3>2, <4>1
      <4> QED
        BY <4>1, <4>2
    <3>3. CASE i \in 1 .. n
      <4>1. \A j \in 1 .. n : h[j] = IF j = 1 THEN paths[j] ELSE h[j - 1] \o paths[j]
        BY <2>1, Zenon
      <4>2. h[i] = IF i = 1 THEN paths[i] ELSE h[i - 1] \o paths[i]
        BY <3>3, <4>1
      <4>3. g[i] = h[i] /\ (i # 1 => g[i - 1] = h[i - 1])
        BY <3>3
      <4>4. r[i] = IF i = 1 THEN paths[i] ELSE g[i - 1] \o paths[i]
        BY <3>3
      <4> HIDE DEF g, r
      <4> QED
        BY <4>2, <4>3, <4>4
    <3> QED
      BY <3>1, <3>2, <3>3
  <2>3. g = r
    BY <2>2
  <2>4. Def(g, n + 1)
    BY <2>3
  <2> QED
    <3> HIDE DEF Def
    <3> QED BY <2>4
<1>3. \E h : Def(h, Len(paths))
  <2>1. Len(paths) \in S
    <3> HIDE DEF S
    <3>1. \A k \in Nat : k < Len(paths) /\ k \in S => k + 1 \in S
      BY <1>2
    <3>2. \A k \in 0 .. Len(paths) : k \in S
      BY <1>1, <3>1, UpTo
    <3> QED BY <3>2
  <2> QED
    BY <2>1
<1>4. Pe!FlattenSeq(paths) = (CHOOSE h : Def(h, Len(paths)))[Len(paths)]
  <2>1. Len(paths) # 0
    OBVIOUS
  <2> QED
    BY <2>1, Zenon DEF Pe!FlattenSeq
<1> QED
  <2> DEFINE h == CHOOSE x : Def(x, Len(paths))
  <2>1. Def(h, Len(paths))
    <3> HIDE DEF Def
    <3> QED BY <1>3
  <2>2. Pe!FlattenSeq(paths) = h[Len(paths)]
    BY <1>4
  <2> HIDE DEF h
  <2> QED
    BY <2>1, <2>2

\* Joined paths are a path, and one path is itself.
LEMMA FlattenTyped ==
    ASSUME NEW A, NEW paths \in Seq(Seq(A))
    PROVE  /\ Pe!FlattenSeq(paths) \in Seq(A)
           /\ Len(paths) = 1 => Pe!FlattenSeq(paths) = paths[1]
<1> DEFINE n == Len(paths)
<1>1. n \in Nat /\ DOMAIN paths = 1 .. n /\ \A i \in 1 .. n : paths[i] \in Seq(A)
  OBVIOUS
<1> HIDE DEF n
<1>2. CASE n = 0
  <2>1. paths = <<>>
    BY <1>2 DEF n
  <2>2. Pe!FlattenSeq(paths) = paths
    BY <1>2 DEF Pe!FlattenSeq, n
  <2>3. <<>> \in Seq(A) /\ ~(n = 1)
    BY <1>2
  <2> QED
    BY <2>1, <2>2, <2>3, Zenon DEF n
<1>3. CASE n # 0
  <2>1. PICK h : /\ h = [i \in 1 .. n |-> IF i = 1 THEN paths[i] ELSE h[i - 1] \o paths[i]]
                 /\ Pe!FlattenSeq(paths) = h[n]
    BY <1>1, <1>3, FlattenStep DEF n
  <2>2. \A i \in 1 .. n : h[i] = IF i = 1 THEN paths[i] ELSE h[i - 1] \o paths[i]
    BY <2>1, Zenon
  <2> DEFINE S == {k \in Nat : 1 <= k /\ k <= n => h[k] \in Seq(A)}
  <2>3. 0 \in S
    OBVIOUS
  <2>4. ASSUME NEW k \in Nat, k < n, k \in S PROVE k + 1 \in S
    <3>1. k + 1 \in 1 .. n /\ paths[k + 1] \in Seq(A) /\ k + 1 - 1 = k
      BY <1>1, <2>4
    <3>2. CASE k = 0
      BY <2>2, <3>1, <3>2
    <3>3. CASE k # 0
      <4>1. h[k] \in Seq(A)
        BY <1>1, <2>4, <3>3
      <4>2. h[k + 1] = h[k] \o paths[k + 1]
        <5> DEFINE m == k + 1
        <5>1. m # 1 /\ m \in 1 .. n /\ m - 1 = k
          BY <3>1, <3>3
        <5> HIDE DEF m
        <5>2. h[m] = h[m - 1] \o paths[m]
          BY <2>2, <5>1, Zenon
        <5>3. h[m] = h[k] \o paths[m]
          BY <5>1, <5>2, Zenon
        <5> QED
          BY <5>3 DEF m
      <4>3. h[k + 1] \in Seq(A)
        BY <3>1, <4>1, <4>2
      <4> QED
        BY <4>3
    <3> QED
      BY <3>2, <3>3
  <2>5. n \in S
    <3> HIDE DEF S
    <3>1. \A k \in Nat : k < n /\ k \in S => k + 1 \in S
      BY <2>4
    <3>2. \A k \in 0 .. n : k \in S
      BY <1>1, <2>3, <3>1, UpTo
    <3> QED
      BY <1>1, <3>2
  <2>6. h[n] \in Seq(A)
    BY <1>1, <1>3, <2>5
  <2>7. n = 1 => h[n] = paths[1]
    BY <2>2
  <2> QED
    BY <2>1, <2>6, <2>7 DEF n
<1> QED
  BY <1>2, <1>3

\* A prefix, element by element.
LEMMA PrefixElements ==
    ASSUME NEW A, NEW s \in Seq(A), NEW t \in Seq(A)
    PROVE  Pe!IsPrefix(s, t) <=> Len(s) <= Len(t) /\ \A i \in 1 .. Len(s) : s[i] = t[i]
<1>1. Len(s) \in Nat /\ Len(t) \in Nat /\ (\A i \in 1 .. Len(s) : s[i] \in A) /\ \A i \in 1 .. Len(t) : t[i] \in A
  OBVIOUS
<1>2. SUFFICES ASSUME Len(s) <= Len(t)
               PROVE  SubSeq(s, 1, Len(s)) = SubSeq(t, 1, Len(s)) <=> \A i \in 1 .. Len(s) : s[i] = t[i]
  BY DEF Pe!IsPrefix
<1> DEFINE u == SubSeq(s, 1, Len(s))
           v == SubSeq(t, 1, Len(s))
<1>3. /\ u \in Seq(A) /\ Len(u) = Len(s) /\ \A i \in 1 .. Len(s) : u[i] = s[i]
  BY <1>1, SubSeqProperties
<1>4. /\ v \in Seq(A) /\ Len(v) = Len(s) /\ \A i \in 1 .. Len(s) : v[i] = t[i]
  <2>1. \A i \in 1 .. Len(s) : t[i] \in A
    BY <1>1, <1>2
  <2> QED
    BY <1>1, <2>1, SubSeqProperties
<1> HIDE DEF u, v
<1>5. ASSUME \A i \in 1 .. Len(s) : s[i] = t[i] PROVE u = v
  <2>1. \A i \in 1 .. Len(u) : u[i] = v[i]
    BY <1>3, <1>4, <1>5
  <2> QED
    BY <1>3, <1>4, <2>1, SeqEqual
<1>6. ASSUME u = v PROVE \A i \in 1 .. Len(s) : s[i] = t[i]
  BY <1>3, <1>4, <1>6
<1> QED
  BY <1>5, <1>6 DEF u, v

\* What follows a path, and what a further path finds there.
LEMMA PrefixJoin ==
    ASSUME NEW A, NEW c \in Seq(A), NEW p \in Seq(A), NEW l \in Seq(A),
           Pe!IsPrefix(c, l), Pe!IsPrefix(p, SubSeq(l, Len(c) + 1, Len(l)))
    PROVE  Pe!IsPrefix(c \o p, l)
<1> DEFINE r == SubSeq(l, Len(c) + 1, Len(l))
<1>1. Len(c) \in Nat /\ Len(p) \in Nat /\ Len(l) \in Nat /\ \A i \in 1 .. Len(l) : l[i] \in A
  OBVIOUS
<1>2. Len(c) <= Len(l) /\ \A i \in 1 .. Len(c) : c[i] = l[i]
  BY PrefixElements
<1>3. /\ r \in Seq(A) /\ Len(r) = Len(l) - Len(c)
      /\ \A i \in 1 .. Len(l) - Len(c) : r[i] = l[Len(c) + i]
  <2>1. \A i \in Len(c) + 1 .. Len(l) : l[i] \in A
    BY <1>1
  <2>2. /\ r \in Seq(A) /\ Len(r) = IF Len(c) + 1 <= Len(l) THEN Len(l) - (Len(c) + 1) + 1 ELSE 0
        /\ \A i \in 1 .. Len(l) - (Len(c) + 1) + 1 : r[i] = l[Len(c) + 1 + i - 1]
    BY <1>1, <2>1, SubSeqProperties
  <2> HIDE DEF r
  <2> QED
    BY <1>1, <1>2, <2>2
<1> HIDE DEF r
<1>4. Len(p) <= Len(r) /\ \A i \in 1 .. Len(p) : p[i] = r[i]
  <2>1. Pe!IsPrefix(p, r)
    BY DEF r
  <2> QED
    BY <1>3, <2>1, PrefixElements
<1>5. /\ c \o p \in Seq(A) /\ Len(c \o p) = Len(c) + Len(p)
      /\ \A i \in 1 .. Len(c) + Len(p) : (c \o p)[i] = IF i <= Len(c) THEN c[i] ELSE p[i - Len(c)]
  BY ConcatProperties
<1>6. ASSUME NEW i \in 1 .. Len(c) + Len(p) PROVE (c \o p)[i] = l[i]
  <2>1. CASE i <= Len(c)
    BY <1>1, <1>2, <1>5, <2>1
  <2>2. CASE ~(i <= Len(c))
    <3>1. i - Len(c) \in 1 .. Len(p) /\ Len(c) + (i - Len(c)) = i
      BY <1>1, <2>2
    <3>2. p[i - Len(c)] = l[i]
      BY <1>1, <1>3, <1>4, <3>1
    <3> QED
      BY <1>5, <2>2, <3>2
  <2> QED
    BY <2>1, <2>2
<1>7. Len(c \o p) <= Len(l) /\ \A i \in 1 .. Len(c \o p) : (c \o p)[i] = l[i]
  BY <1>1, <1>2, <1>3, <1>4, <1>5, <1>6
<1> DEFINE j == c \o p
<1>8. j \in Seq(A) /\ Len(j) <= Len(l) /\ \A i \in 1 .. Len(j) : j[i] = l[i]
  BY <1>5, <1>7
<1> HIDE DEF j
<1>9. Pe!IsPrefix(j, l)
  BY <1>8, PrefixElements
<1> QED
  BY <1>9 DEF j

\* A list, of whatever it is made.
LEMMA ListIs ==
    ASSUME NEW A, NEW c \in Seq(A)
    PROVE  Pe!IsList(c)
<1> DEFINE n == Len(c)
<1>1. n \in Nat /\ DOMAIN c = 1 .. n /\ c = [i \in 1 .. n |-> c[i]]
  OBVIOUS
<1>2. \A i \in 1 .. n : c[i] \in Pe!ToSet(c)
  BY <1>1 DEF Pe!ToSet
<1> HIDE DEF n
<1>3. [i \in 1 .. n |-> c[i]] \in Seq(Pe!ToSet(c))
  <2> DEFINE T == Pe!ToSet(c)
  <2> HIDE DEF T
  <2>1. \A i \in 1 .. n : c[i] \in T
    BY <1>2 DEF T
  <2>2. [i \in 1 .. n |-> c[i]] \in Seq(T)
    BY <1>1, <2>1, IsASeq
  <2> QED BY <2>2 DEF T
<1> QED
  BY <1>1, <1>3, Zenon DEF Pe!IsList

\* What a field matched is one of its paths, and it leads somewhere.
LEMMA MatchedPath ==
    ASSUME NEW doc, NEW f, NEW p \in Pe!Matched(doc, f)
    PROVE  p \in Pe!ToSet(f.paths) /\ Pe!At(doc, p) # {}
BY DEF Pe!Matched, Pe!ToSet

\* A descriptor of a presentation that passed has one mapping, which was judged.
LEMMA MappingOf ==
    ASSUME NEW d, NEW s, NEW doc, Pe!StructureValid(d, s), Pe!ConstraintsMet(d, s, doc),
           NEW e \in Pe!ToSet(d.descriptors)
    PROVE  \E j \in DOMAIN s.map :
              Pe!EntriesOf(s, e.id) = {j} /\ Pe!ChainValid(s.map[j], e.id) /\ Pe!DescriptorMet(e, s.map[j], doc)
<1>1. PICK k \in DOMAIN d.descriptors : e = d.descriptors[k]
  BY DEF Pe!ToSet
<1>2. PICK j \in Pe!EntriesOf(s, e.id) : Pe!ChainValid(s.map[j], e.id)
  BY <1>1, Zenon DEF Pe!StructureValid
<1>3. j \in DOMAIN s.map /\ s.map[j][1].id = e.id
  BY DEF Pe!EntriesOf
<1>4. Pe!EntriesOf(s, e.id) = {j}
  <2>1. Pe!EntriesOf(s, s.map[j][1].id) = {j}
    BY <1>3, Zenon DEF Pe!StructureValid
  <2> QED
    BY <1>3, <2>1, Zenon
<1>5. Pe!DescriptorMet(e, s.map[CHOOSE i \in Pe!EntriesOf(s, e.id) : TRUE], doc)
  BY <1>1, Zenon DEF Pe!ConstraintsMet
<1>6. (CHOOSE i \in Pe!EntriesOf(s, e.id) : TRUE) = j
  <2> DEFINE S == Pe!EntriesOf(s, e.id)
  <2>1. S = {j}
    BY <1>4
  <2> HIDE DEF S
  <2>2. (CHOOSE i \in S : TRUE) \in S
    BY <2>1
  <2>3. (CHOOSE i \in S : TRUE) = j
    BY <2>1, <2>2
  <2> QED
    BY <2>3 DEF S
<1>7. Pe!DescriptorMet(e, s.map[j], doc)
  BY <1>5, <1>6, Zenon
<1> QED
  BY <1>2, <1>3, <1>4, <1>7, Zenon

\* The paths of a chain that was found valid are joined to one path.
LEMMA ChainJoined ==
    ASSUME NEW chain, NEW id, Pe!ChainTyped(chain), Pe!ChainValid(chain, id)
    PROVE  \E A : Pe!FlattenSeq([k \in DOMAIN chain |-> chain[k].path]) \in Seq(A)
<1> DEFINE n == Len(chain)
           paths == [k \in DOMAIN chain |-> chain[k].path]
           A == UNION {Pe!ToSet(chain[k].path) : k \in DOMAIN chain}
<1>1. n \in Nat /\ DOMAIN chain = 1 .. n
  BY DEF Pe!ChainTyped, Pe!IsList
<1>2. ASSUME NEW k \in 1 .. n PROVE chain[k].path \in Seq(A)
  <2>1. chain[k].path \in Seq(Pe!ToSet(chain[k].path))
    BY <1>1 DEF Pe!ChainTyped, Pe!ChainValid, Pe!Supported, Pe!IsList
  <2>2. Pe!ToSet(chain[k].path) \subseteq A
    BY <1>1
  <2> HIDE DEF A
  <2> DEFINE S == Pe!ToSet(chain[k].path)
             c == chain[k].path
  <2>3. c \in Seq(S) /\ S \subseteq A
    BY <2>1, <2>2
  <2> HIDE DEF S, c
  <2>4. c \in Seq(A)
    BY <2>3, SeqMonotonic
  <2> QED
    BY <2>4 DEF c
<1> HIDE DEF A
<1>3. paths \in Seq(Seq(A))
  <2>1. paths = [k \in 1 .. n |-> chain[k].path]
    BY <1>1
  <2> HIDE DEF n, paths
  <2> DEFINE B == Seq(A)
             pth == [k \in 1 .. n |-> chain[k].path]
  <2>2. \A k \in 1 .. n : chain[k].path \in B
    BY <1>2
  <2> HIDE DEF B
  <2>3. pth \in Seq(B)
    BY <1>1, <2>2, IsASeq
  <2> QED
    BY <2>1, <2>3 DEF B
<1> HIDE DEF paths, n
<1>4. Pe!FlattenSeq(paths) \in Seq(A)
  BY <1>3, FlattenTyped
<1> QED
  BY <1>4 DEF paths

\* A field of a mapped document that is not optional is found in the payload,
\* behind the path its mapping gives.
LEMMA FieldFound ==
    ASSUME NEW e, NEW chain, NEW doc, Pe!ChainTyped(chain), Pe!ChainValid(chain, e.id), Pe!LeavesTyped(doc),
           \A f \in Pe!ToSet(e.fields) : \A p \in Pe!ToSet(f.paths) : p # Unsupported => Pe!IsList(p),
           Pe!DescriptorMet(e, chain, doc),
           NEW f \in Pe!ToSet(e.fields), ~f.optional
    PROVE  \E p \in Pe!ToSet(f.paths), l \in doc :
              Pe!IsPrefix(Pe!FlattenSeq([j \in DOMAIN chain |-> chain[j].path]) \o p, l.path)
<1> DEFINE c == Pe!FlattenSeq([j \in DOMAIN chain |-> chain[j].path])
           there == Pe!Located(doc, chain)
<1>1. PICK C : c \in Seq(C)
  BY ChainJoined
<1>2. there = Pe!At(doc, c)
  BY Zenon DEF Pe!Located
<1>3. Pe!FieldMet(there, f)
  <2>1. PICK k \in DOMAIN e.fields : f = e.fields[k]
    BY DEF Pe!ToSet
  <2> QED
    BY <2>1, Zenon DEF Pe!DescriptorMet
<1> HIDE DEF c, there
<1>4. PICK p : p \in Pe!Matched(there, f)
  BY <1>3 DEF Pe!FieldMet
<1>5. p \in Pe!ToSet(f.paths) /\ Pe!At(there, p) # {}
  BY <1>4, MatchedPath, Zenon
<1>6. Pe!IsList(p)
  <2>1. p # Unsupported
    BY <1>3, <1>5 DEF Pe!FieldMet, Pe!Supported, Pe!ToSet
  <2> QED
    BY <1>5, <2>1
<1>7. PICK m \in there : Pe!IsPrefix(p, m.path)
  BY <1>5 DEF Pe!At
<1>8. PICK l \in doc : Pe!IsPrefix(c, l.path) /\ m.path = SubSeq(l.path, Len(c) + 1, Len(l.path))
  BY <1>2, <1>7 DEF Pe!At
<1>9. Pe!IsPrefix(c \o p, l.path)
  <2> DEFINE w == l.path
             A == C \cup Pe!ToSet(p) \cup Pe!ToSet(w)
  <2>1. /\ Pe!IsPrefix(c, w) /\ Pe!IsPrefix(p, SubSeq(w, Len(c) + 1, Len(w)))
        /\ p \in Seq(Pe!ToSet(p)) /\ w \in Seq(Pe!ToSet(w))
    BY <1>6, <1>7, <1>8, Zenon DEF Pe!LeavesTyped, Pe!IsList
  <2>2. C \subseteq A /\ Pe!ToSet(p) \subseteq A /\ Pe!ToSet(w) \subseteq A
    OBVIOUS
  <2> HIDE DEF w, A
  <2>3. c \in Seq(A) /\ p \in Seq(A) /\ w \in Seq(A)
    BY <1>1, <2>1, <2>2, SeqMonotonic, Zenon
  <2>4. Pe!IsPrefix(c \o p, w)
    BY <2>1, <2>3, PrefixJoin, Zenon
  <2> QED
    BY <2>4 DEF w
<1> QED
  BY <1>5, <1>9, Zenon DEF c

\* The cardinality of the instance is the cardinality.
LEMMA SameCardinality ==
    ASSUME NEW S
    PROVE  Pe!Cardinality(S) = Cardinality(S)
BY Zenon DEF Pe!Cardinality, Cardinality

\* The positions of two listed credentials differ.
LEMMA Positions ==
    ASSUME NEW n \in Nat, NEW K \in SUBSET (1 .. n), NEW j \in K, NEW k \in K,
           Pe!Position(K, j) = Pe!Position(K, k)
    PROVE  j = k
<1> DEFINE Before(x) == {i \in K : i < x}
<1>1. \A x \in K : IsFiniteSet(Before(x))
  <2>1. IsFiniteSet(1 .. n)
    BY FS_Interval
  <2>2. \A x \in K : Before(x) \in SUBSET (1 .. n)
    OBVIOUS
  <2> HIDE DEF Before
  <2> QED
    BY <2>1, <2>2, FS_Subset, Zenon
<1>2. ASSUME NEW x \in K, NEW y \in K, x < y, Pe!Position(K, x) = Pe!Position(K, y) PROVE FALSE
  <2>1. Before(x) \subseteq Before(y) /\ x \in Before(y) /\ x \notin Before(x)
    <3>1. x \in Nat /\ y \in Nat /\ \A i \in K : i \in Nat
      OBVIOUS
    <3>2. x < y /\ ~(x < x) /\ \A i \in K : i < x => i < y
      BY <1>2, <3>1
    <3> QED
      BY <3>2, Zenon
  <2>2. Cardinality(Before(y)) = Cardinality(Before(x))
    BY <1>2, SameCardinality, Zenon DEF Pe!Position
  <2>3. IsFiniteSet(Before(y))
    BY <1>1
  <2> DEFINE S == Before(x)
             T == Before(y)
  <2>4. S \in SUBSET T /\ IsFiniteSet(T) /\ Cardinality(T) = Cardinality(S) /\ x \in T /\ x \notin S
    BY <2>1, <2>2, <2>3
  <2> HIDE DEF S, T
  <2>5. T = S
    BY <2>4, FS_Subset
  <2> QED
    BY <2>4, <2>5
<1>3. j \in Nat /\ k \in Nat
  OBVIOUS
<1> QED
  BY <1>2, <1>3

\* A path that goes through another one: what is behind it.
LEMMA BehindPath ==
    ASSUME NEW A, NEW c \in Seq(A), NEW p \in Seq(A)
    PROVE  /\ c \o p \in Seq(A)
           /\ Pe!IsPrefix(c, c \o p)
           /\ SubSeq(c \o p, Len(c) + 1, Len(c \o p)) = p
<1> DEFINE j == c \o p
<1>1. /\ j \in Seq(A) /\ Len(j) = Len(c) + Len(p)
      /\ \A i \in 1 .. Len(c) + Len(p) : j[i] = IF i <= Len(c) THEN c[i] ELSE p[i - Len(c)]
  BY ConcatProperties
<1>2. Len(c) \in Nat /\ Len(p) \in Nat
  OBVIOUS
<1> HIDE DEF j
<1>3. Pe!IsPrefix(c, j)
  <2>1. Len(c) <= Len(j) /\ \A i \in 1 .. Len(c) : c[i] = j[i]
    BY <1>1, <1>2
  <2> QED
    BY <1>1, <2>1, PrefixElements
<1>4. SubSeq(j, Len(c) + 1, Len(j)) = p
  <2> DEFINE r == SubSeq(j, Len(c) + 1, Len(j))
  <2>1. /\ r \in Seq(A) /\ Len(r) = IF Len(c) + 1 <= Len(j) THEN Len(j) - (Len(c) + 1) + 1 ELSE 0
        /\ \A i \in 1 .. Len(j) - (Len(c) + 1) + 1 : r[i] = j[Len(c) + 1 + i - 1]
    <3>1. \A i \in Len(c) + 1 .. Len(j) : j[i] \in A
      BY <1>1, <1>2
    <3> QED
      BY <1>1, <1>2, <3>1, SubSeqProperties
  <2> HIDE DEF r
  <2>2. Len(r) = Len(p)
    BY <1>1, <1>2, <2>1
  <2>3. ASSUME NEW i \in 1 .. Len(r) PROVE r[i] = p[i]
    <3>1. r[i] = j[Len(c) + i]
      BY <1>1, <1>2, <2>1, <2>2
    <3>2. Len(c) + i \in 1 .. Len(c) + Len(p) /\ ~(Len(c) + i <= Len(c)) /\ Len(c) + i - Len(c) = i
      BY <1>2, <2>2
    <3> QED
      BY <1>1, <3>1, <3>2
  <2>4. r = p
    BY <2>1, <2>2, <2>3, SeqEqual
  <2> QED
    BY <2>4 DEF r
<1> QED
  BY <1>1, <1>3, <1>4 DEF j

\* Behind the index of a listed credential there is that credential.
LEMMA ListedAt ==
    ASSUME definition \in Definitions, NEW held \in Credentials, NEW K \in SUBSET DOMAIN definition.descriptors,
           \A k \in K : definition.descriptors[k].id \in DOMAIN held, NEW k \in K
    PROVE  Pe!At(Pe!Listed(K, held), <<"vc", Pe!Position(K, k)>>) = held[definition.descriptors[k].id].leaves
<1> DEFINE n == Len(definition.descriptors)
           c(x) == <<"vc", Pe!Position(K, x)>>
           leaves(x) == held[definition.descriptors[x].id].leaves
           doc == Pe!Listed(K, held)
<1>1. n \in Nat /\ K \in SUBSET (1 .. n)
  BY ExchangeAssumption DEF Pe!ExchangeTyped, Pe!IsList
<1>2. \A x \in K : Pe!LeavesTyped(leaves(x))
  BY ExchangeAssumption, Zenon DEF Pe!ExchangeTyped
<1> HIDE DEF n
<1>3. ASSUME NEW x \in K, NEW m \in leaves(x)
      PROVE  /\ Pe!IsPrefix(c(k), c(x) \o m.path) <=> x = k
             /\ SubSeq(c(x) \o m.path, Len(c(x)) + 1, Len(c(x) \o m.path)) = m.path
             /\ m = [path |-> m.path, value |-> m.value]
  <2> DEFINE p == m.path
             a == c(k)
             b == c(x)
             A == {"vc", Pe!Position(K, k), Pe!Position(K, x)} \cup Pe!ToSet(p)
  <2>1. p \in Seq(Pe!ToSet(p)) /\ m = [path |-> m.path, value |-> m.value]
    BY <1>2, <1>3, Zenon DEF Pe!LeavesTyped, Pe!IsList
  <2>2. a \in Seq(A) /\ b \in Seq(A) /\ Pe!ToSet(p) \subseteq A /\ Len(a) = 2 /\ Len(b) = 2
    OBVIOUS
  <2>3. a[2] = Pe!Position(K, k) /\ b[2] = Pe!Position(K, x)
    OBVIOUS
  <2>4. x = k => a = b
    OBVIOUS
  <2> HIDE DEF A, a, b, p
  <2>5. p \in Seq(A)
    BY <2>1, <2>2, SeqMonotonic, Zenon
  <2>6. /\ b \o p \in Seq(A)
        /\ Pe!IsPrefix(b, b \o p)
        /\ SubSeq(b \o p, Len(b) + 1, Len(b \o p)) = p
    BY <2>2, <2>5, BehindPath, Zenon
  <2>7. ASSUME Pe!IsPrefix(a, b \o p) PROVE x = k
    <3> DEFINE j == b \o p
    <3>1. j[2] = b[2]
      <4>1. \A i \in 1 .. Len(b) + Len(p) : j[i] = IF i <= Len(b) THEN b[i] ELSE p[i - Len(b)]
        BY <2>2, <2>5, ConcatProperties
      <4>2. Len(p) \in Nat
        BY <2>5
      <4> HIDE DEF j
      <4>3. 2 \in 1 .. Len(b) + Len(p) /\ 2 <= Len(b)
        BY <2>2, <4>2
      <4> QED
        BY <4>1, <4>3
    <3>2. j \in Seq(A) /\ Pe!IsPrefix(a, j)
      BY <2>6, <2>7
    <3> HIDE DEF j
    <3>3. a[2] = j[2]
      <4>1. \A i \in 1 .. Len(a) : a[i] = j[i]
        <5>1. a \in Seq(A) /\ j \in Seq(A)
          BY <2>2, <3>2
        <5>2. Pe!IsPrefix(a, j) <=> Len(a) <= Len(j) /\ \A i \in 1 .. Len(a) : a[i] = j[i]
          BY <5>1, PrefixElements
        <5> QED
          BY <3>2, <5>2
      <4>2. 2 \in 1 .. Len(a)
        BY <2>2
      <4> QED
        BY <4>1, <4>2
    <3>4. Pe!Position(K, k) = Pe!Position(K, x)
      BY <2>3, <3>1, <3>3
    <3> QED
      BY <1>1, <3>4, Positions, Zenon
  <2> QED
    BY <2>1, <2>4, <2>6, <2>7 DEF a, b, p
<1>4. \A l : l \in doc <=> \E x \in K : \E m \in leaves(x) : l = [path |-> c(x) \o m.path, value |-> m.value]
  <2>1. doc = UNION {Pe!Under(c(x), held[definition.descriptors[x].id]) : x \in K}
    BY Zenon DEF Pe!Listed
  <2>2. \A x \in K : Pe!Under(c(x), held[definition.descriptors[x].id])
                        = {[path |-> c(x) \o m.path, value |-> m.value] : m \in leaves(x)}
    BY Zenon DEF Pe!Under
  <2> HIDE DEF doc, c, leaves
  <2> DEFINE U(x) == Pe!Under(c(x), held[definition.descriptors[x].id])
  <2>3. \A l : l \in doc <=> \E x \in K : l \in U(x)
    BY <2>1
  <2>4. \A x \in K : \A l : l \in U(x) <=> \E m \in leaves(x) : l = [path |-> c(x) \o m.path, value |-> m.value]
    BY <2>2
  <2> HIDE DEF U
  <2> SUFFICES ASSUME NEW l
               PROVE  l \in doc <=> \E x \in K : \E m \in leaves(x) : l = [path |-> c(x) \o m.path, value |-> m.value]
    OBVIOUS
  <2> DEFINE Is(x) == \E m \in leaves(x) : l = [path |-> c(x) \o m.path, value |-> m.value]
  <2>5. \A x \in K : l \in U(x) <=> Is(x)
    BY <2>4
  <2>6. l \in doc <=> \E x \in K : Is(x)
    <3> HIDE DEF Is
    <3> QED BY <2>3, <2>5
  <2> QED
    BY <2>6
<1>5. \A t : t \in Pe!At(doc, c(k)) <=> \E l \in doc : /\ Pe!IsPrefix(c(k), l.path)
                                                       /\ t = [path |-> SubSeq(l.path, Len(c(k)) + 1, Len(l.path)), value |-> l.value]
  BY DEF Pe!At
<1> HIDE DEF doc, c, leaves
<1>6. ASSUME NEW t \in Pe!At(doc, c(k)) PROVE t \in leaves(k)
  <2>1. PICK l \in doc : /\ Pe!IsPrefix(c(k), l.path)
                         /\ t = [path |-> SubSeq(l.path, Len(c(k)) + 1, Len(l.path)), value |-> l.value]
    BY <1>5
  <2>2. PICK x \in K : \E m \in leaves(x) : l = [path |-> c(x) \o m.path, value |-> m.value]
    BY <1>4
  <2>3. PICK m \in leaves(x) : l = [path |-> c(x) \o m.path, value |-> m.value]
    BY <2>2
  <2>4. l.path = c(x) \o m.path /\ l.value = m.value
    BY <2>3
  <2>5. x = k
    BY <1>3, <2>1, <2>4
  <2>6. t = [path |-> m.path, value |-> m.value]
    BY <1>3, <2>1, <2>4, <2>5
  <2> QED
    BY <1>3, <2>5, <2>6
<1>7. ASSUME NEW m \in leaves(k) PROVE m \in Pe!At(doc, c(k))
  <2> DEFINE l == [path |-> c(k) \o m.path, value |-> m.value]
  <2>1. l \in doc
    BY <1>4
  <2>2. l.path = c(k) \o m.path /\ l.value = m.value
    OBVIOUS
  <2>3. Pe!IsPrefix(c(k), l.path) /\ m = [path |-> SubSeq(l.path, Len(c(k)) + 1, Len(l.path)), value |-> l.value]
    <3> HIDE DEF l
    <3> QED BY <1>3, <2>2
  <2> HIDE DEF l
  <2> QED
    BY <1>5, <2>1, <2>3
<1> QED
  <2>1. Pe!At(doc, c(k)) = leaves(k)
    BY <1>6, <1>7
  <2> QED
    BY <2>1 DEF doc, c, leaves

\* A chain of one mapping leads where that mapping points.
LEMMA OneStep ==
    ASSUME NEW doc, NEW id, NEW format, NEW A, NEW path \in Seq(A)
    PROVE  Pe!Located(doc, Pe!Entry(id, format, path)) = Pe!At(doc, path)
<1> DEFINE chain == Pe!Entry(id, format, path)
           paths == [k \in DOMAIN chain |-> chain[k].path]
<1>1. paths = <<path>> /\ paths \in Seq(Seq(A)) /\ Len(paths) = 1 /\ paths[1] = path
  BY DEF Pe!Entry
<1>2. Pe!FlattenSeq(paths) = path
  <2> HIDE DEF paths
  <2> QED BY <1>1, FlattenTyped, Zenon
<1>3. Pe!Located(doc, chain) = Pe!At(doc, Pe!FlattenSeq(paths))
  BY Zenon DEF Pe!Located
<1> QED
  BY <1>2, <1>3, Zenon

LEMMA EntryTyped ==
    ASSUME NEW id, NEW format, NEW A, NEW path \in Seq(A)
    PROVE  Pe!ChainTyped(Pe!Entry(id, format, path))
<1> DEFINE chain == Pe!Entry(id, format, path)
           r == [id |-> id, format |-> format, path |-> path]
<1>1. chain = <<r>>
  BY DEF Pe!Entry
<1>2. chain \in Seq({r}) /\ DOMAIN chain = {1} /\ chain[1] = r /\ r.path = path
  BY <1>1
<1> HIDE DEF chain, r
<1>3. Pe!IsList(chain)
  BY <1>2, ListIs
<1>4. Pe!IsList(path)
  BY ListIs
<1>5. \A k \in DOMAIN chain : Pe!IsList(chain[k].path)
  BY <1>2, <1>4
<1> QED
  BY <1>3, <1>5, Zenon DEF Pe!ChainTyped, chain

LEMMA ListedTyped ==
    ASSUME NEW held \in Credentials, NEW K, \A k \in K : definition.descriptors[k].id \in DOMAIN held
    PROVE  Pe!LeavesTyped(Pe!Listed(K, held))
<1> SUFFICES ASSUME NEW l \in Pe!Listed(K, held) PROVE Pe!IsList(l.path) /\ l = [path |-> l.path, value |-> l.value]
  BY DEF Pe!LeavesTyped
<1>1. PICK k \in K : l \in Pe!Under(<<"vc", Pe!Position(K, k)>>, held[definition.descriptors[k].id])
  BY DEF Pe!Listed
<1> DEFINE c == <<"vc", Pe!Position(K, k)>>
<1>2. PICK m \in held[definition.descriptors[k].id].leaves : l = [path |-> c \o m.path, value |-> m.value]
  BY <1>1 DEF Pe!Under
<1>3. Pe!IsList(m.path)
  BY ExchangeAssumption, <1>2, Zenon DEF Pe!ExchangeTyped, Pe!LeavesTyped
<1> DEFINE p == m.path
           A == {"vc", Pe!Position(K, k)} \cup Pe!ToSet(p)
           j == c \o p
<1>4. c \in Seq(A) /\ Pe!ToSet(p) \subseteq A /\ p \in Seq(Pe!ToSet(p))
  BY <1>3 DEF Pe!IsList
<1>5. l.path = j /\ l.value = m.value /\ l = [path |-> j, value |-> m.value]
  BY <1>2
<1> HIDE DEF A, c, p
<1>6. p \in Seq(A)
  BY <1>4, SeqMonotonic, Zenon
<1>7. j \in Seq(A)
  BY <1>4, <1>6
<1> HIDE DEF j
<1>8. Pe!IsList(j)
  BY <1>7, ListIs
<1> QED
  BY <1>5, <1>8

\* What a wallet sent is a submission and a payload, and what passed the
\* verifier judged on the definition it had asked with.
AnswerIsJudged ==
    topic = "exchange" =>
        /\ definition \in Definitions
        /\ stage # "asked" => /\ \A chain \in Pe!ToSet(submission.map) : Pe!ChainTyped(chain)
                              /\ payload # None => Pe!LeavesTyped(payload)
        /\ verdict.constraints = "passed" => /\ stage = "judged"
                                             /\ Pe!StructureValid(definition, submission)
                                             /\ Pe!ConstraintsMet(definition, submission, payload)

LEMMA AnswerIsJudgedInit == MCInit => AnswerIsJudged
<1> SUFFICES ASSUME MCInit, topic = "exchange" PROVE AnswerIsJudged
  BY DEF AnswerIsJudged
<1>1. stage = "asked" /\ definition \in Definitions /\ verdict = Pe!NotChecked
  BY DEF MCInit, Pe!Init
<1>2. verdict.constraints # "passed"
  BY <1>1 DEF Pe!NotChecked
<1> QED
  BY <1>1, <1>2, Zenon DEF AnswerIsJudged

LEMMA AnswerIsJudgedNext == AnswerIsJudged /\ [MCNext]_mcvars => AnswerIsJudged'
<1> SUFFICES ASSUME AnswerIsJudged, [MCNext]_mcvars, topic' = "exchange" PROVE AnswerIsJudged'
  BY DEF AnswerIsJudged
<1>1. topic = "exchange" /\ definition \in Definitions
  BY DEF MCNext, mcvars, AnswerIsJudged
<1>2. CASE UNCHANGED mcvars
  <2>1. stage' = stage /\ definition' = definition /\ submission' = submission /\ payload' = payload /\ verdict' = verdict
    BY <1>2 DEF mcvars, exchange
  <2> QED
    BY <1>1, <2>1, Zenon DEF AnswerIsJudged
<1>3. ASSUME stage = "asked", stage' = "answered", definition' = definition, verdict' = verdict,
             \A chain \in Pe!ToSet(submission'.map) : Pe!ChainTyped(chain),
             payload' # None => Pe!LeavesTyped(payload')
      PROVE  AnswerIsJudged'
  <2>1. verdict'.constraints # "passed"
    BY <1>1, <1>3 DEF AnswerIsJudged
  <2> QED
    BY <1>1, <1>3, <2>1, Zenon DEF AnswerIsJudged
<1>4. ASSUME NEW held \in Credentials, Pe!Build(held) PROVE AnswerIsJudged'
  <2> DEFINE D == DOMAIN definition.descriptors
             entry(k) == Pe!Entry(definition.descriptors[k].id, Pe!FormatOf(held, definition.descriptors[k].id), <<>>)
             K == {k \in D : definition.descriptors[k].id \in DOMAIN held}
  <2>1. submission' = Pe!SubmissionFor([k \in D |-> entry(k)]) /\ payload' = Pe!Listed(K, held)
    BY <1>4, Zenon DEF Pe!Build
  <2>2. submission'.map = [k \in D |-> entry(k)]
    BY <2>1 DEF Pe!SubmissionFor
  <2>3. \A k \in D : Pe!ChainTyped(entry(k))
    <3>1. <<>> \in Seq({})
      OBVIOUS
    <3> QED
      BY <3>1, EntryTyped, Zenon
  <2>4. \A chain \in Pe!ToSet(submission'.map) : Pe!ChainTyped(chain)
    <3> HIDE DEF entry, D
    <3> QED BY <2>2, <2>3 DEF Pe!ToSet
  <2>5. Pe!LeavesTyped(payload')
    <3>1. \A k \in K : definition.descriptors[k].id \in DOMAIN held
      OBVIOUS
    <3> HIDE DEF K
    <3> QED BY <2>1, <3>1, ListedTyped, Zenon
  <2> QED
    BY <1>3, <1>4, <2>4, <2>5, Zenon DEF Pe!Build
<1>5. ASSUME NEW held \in Credentials, NEW proven \in Proofs, Pe!BuildZk(held, proven) PROVE AnswerIsJudged'
  <2> DEFINE D == {j \in DOMAIN definition.descriptors : Pe!HasZk(definition.descriptors[j])} \cup Pe!Carried(held)
  <2>1. submission' = Pe!SubmissionFor([k \in D |-> Pe!ZkEntry(k, held)]) /\ payload' = Pe!Listed(Pe!Carried(held), held)
    BY <1>5, Zenon DEF Pe!BuildZk, Pe!ZkSubmission, Pe!ZkPayload
  <2> HIDE DEF D
  <2>2. submission'.map = [k \in D |-> Pe!ZkEntry(k, held)]
    BY <2>1 DEF Pe!SubmissionFor
  <2>3. ASSUME NEW k \in D PROVE Pe!ChainTyped(Pe!ZkEntry(k, held))
    <3> DEFINE d == definition.descriptors[k]
               n == Pe!Position(Pe!Carried(held), k)
    <3>1. <<"zk_proofs", d.id>> \in Seq({"zk_proofs", d.id}) /\ <<"vc", n>> \in Seq({"vc", n})
      OBVIOUS
    <3> HIDE DEF n
    <3>2. Pe!ZkEntry(k, held) = IF Pe!HasZk(d) THEN Pe!Entry(d.id, "zk_mdoc", <<"zk_proofs", d.id>>)
                                ELSE Pe!Entry(d.id, Pe!FormatOf(held, d.id), <<"vc", n>>)
      BY Zenon DEF Pe!ZkEntry, n
    <3> HIDE DEF d
    <3>3. Pe!ChainTyped(Pe!Entry(d.id, "zk_mdoc", <<"zk_proofs", d.id>>))
      BY <3>1, EntryTyped, Zenon
    <3>4. Pe!ChainTyped(Pe!Entry(d.id, Pe!FormatOf(held, d.id), <<"vc", n>>))
      BY <3>1, EntryTyped, Zenon
    <3> QED
      BY <3>2, <3>3, <3>4, Zenon
  <2>4. \A chain \in Pe!ToSet(submission'.map) : Pe!ChainTyped(chain)
    BY <2>2, <2>3 DEF Pe!ToSet
  <2>5. Pe!LeavesTyped(payload')
    <3>1. \A k \in Pe!Carried(held) : definition.descriptors[k].id \in DOMAIN held
      BY DEF Pe!Carried
    <3> QED BY <2>1, <3>1, ListedTyped, Zenon
  <2> QED
    BY <1>3, <1>5, <2>4, <2>5, Zenon DEF Pe!BuildZk
<1>6. ASSUME NEW s \in Submissions, NEW p \in Payloads \cup {None}, Pe!Answer(s, p) PROVE AnswerIsJudged'
  <2>1. submission' = s /\ payload' = p
    BY <1>6 DEF Pe!Answer
  <2>2. \A chain \in Pe!ToSet(submission'.map) : Pe!ChainTyped(chain)
    BY <2>1, ExchangeAssumption, Zenon DEF Pe!ExchangeTyped
  <2>3. payload' # None => Pe!LeavesTyped(payload')
    BY <2>1, ExchangeAssumption, Zenon DEF Pe!ExchangeTyped
  <2> QED
    BY <1>3, <1>6, <2>2, <2>3, Zenon DEF Pe!Answer
<1>7. ASSUME Pe!Judge PROVE AnswerIsJudged'
  <2>1. /\ stage # "asked" /\ stage' = "judged"
        /\ definition' = definition /\ submission' = submission /\ payload' = payload
    BY <1>7 DEF Pe!Judge
  <2>2. verdict'.constraints = "passed" =>
          Pe!StructureValid(definition, submission) /\ Pe!ConstraintsMet(definition, submission, payload)
    BY <1>7 DEF Pe!Judge
  <2> QED
    BY <1>1, <2>1, <2>2, Zenon DEF AnswerIsJudged
<1> QED
  BY <1>1, <1>2, <1>4, <1>5, <1>6, <1>7 DEF MCNext, Pe!Next

\* For every set of definitions, holdings, submissions and payloads: a
\* presentation that verify_presentation passes has one mapping for each
\* descriptor, which leads to every field it must, and to nothing unasked
\* where disclosure is limited; and build_zk_presentation maps a descriptor to
\* its own credential.
THEOREM AnswersFitDefinitions == MCSpec => []AnswersFit
<1>1. AnswerIsJudged => AnswersFit
  <2> SUFFICES ASSUME AnswerIsJudged, topic = "exchange"
               PROVE  Pe!AnswersEveryDescriptor /\ Pe!NothingUnasked /\ Pe!PointsAtItsCredential
    BY DEF AnswersFit
  <2>1. definition \in Definitions
    BY DEF AnswerIsJudged
  <2>2. ASSUME Pe!Valid
        PROVE  /\ Pe!StructureValid(definition, submission)
               /\ Pe!ConstraintsMet(definition, submission, payload)
               /\ \A chain \in Pe!ToSet(submission.map) : Pe!ChainTyped(chain)
               /\ Pe!LeavesTyped(payload)
    <3>1. stage # "asked" /\ verdict.constraints = "passed"
      BY <2>2 DEF Pe!Valid
    <3>2. payload # None
      BY <3>1 DEF AnswerIsJudged, Pe!ConstraintsMet
    <3> QED
      BY <3>1, <3>2, Zenon DEF AnswerIsJudged
  <2>3. Pe!AnswersEveryDescriptor
    <3> SUFFICES ASSUME Pe!Valid, NEW e \in Pe!ToSet(definition.descriptors)
                 PROVE  /\ Pe!Cardinality({k \in DOMAIN submission.map : submission.map[k][1].id = e.id}) = 1
                        /\ \E k \in DOMAIN submission.map :
                            /\ submission.map[k][1].id = e.id
                            /\ \A f \in Pe!ToSet(e.fields) : f.optional \/
                                \E p \in Pe!ToSet(f.paths), l \in payload :
                                    Pe!IsPrefix(Pe!FlattenSeq([j \in DOMAIN submission.map[k] |-> submission.map[k][j].path]) \o p, l.path)
      BY Zenon DEF Pe!AnswersEveryDescriptor
    <3>1. PICK j \in DOMAIN submission.map : /\ Pe!EntriesOf(submission, e.id) = {j}
                                             /\ Pe!ChainValid(submission.map[j], e.id)
                                             /\ Pe!DescriptorMet(e, submission.map[j], payload)
      BY <2>2, MappingOf, Zenon
    <3>2. {k \in DOMAIN submission.map : submission.map[k][1].id = e.id} = {j}
      BY <3>1, Zenon DEF Pe!EntriesOf
    <3>3. Pe!Cardinality({j}) = 1
      <4>1. Cardinality({j}) = 1
        BY FS_Singleton, Zenon
      <4> QED
        BY <4>1, SameCardinality, Zenon
    <3>4. submission.map[j][1].id = e.id
      BY <3>2
    <3>5. ASSUME NEW f \in Pe!ToSet(e.fields), ~f.optional
          PROVE  \E p \in Pe!ToSet(f.paths), l \in payload :
                     Pe!IsPrefix(Pe!FlattenSeq([i \in DOMAIN submission.map[j] |-> submission.map[j][i].path]) \o p, l.path)
      <4>1. Pe!ChainTyped(submission.map[j])
        BY <2>2, <3>1 DEF Pe!ToSet
      <4>2. \A g \in Pe!ToSet(e.fields) : \A p \in Pe!ToSet(g.paths) : p # Unsupported => Pe!IsList(p)
        BY <2>1, ExchangeAssumption, Zenon DEF Pe!ExchangeTyped
      <4> DEFINE chain == submission.map[j]
      <4>3. Pe!ChainTyped(chain) /\ Pe!ChainValid(chain, e.id) /\ Pe!DescriptorMet(e, chain, payload)
        BY <3>1, <4>1
      <4> HIDE DEF chain
      <4>4. \E p \in Pe!ToSet(f.paths), l \in payload :
                Pe!IsPrefix(Pe!FlattenSeq([i \in DOMAIN chain |-> chain[i].path]) \o p, l.path)
        BY <2>2, <3>5, <4>2, <4>3, FieldFound, Zenon
      <4> QED
        BY <4>4 DEF chain
    <3> QED
      BY <3>2, <3>3, <3>4, <3>5, Zenon
  <2>4. Pe!NothingUnasked
    <3> SUFFICES ASSUME Pe!Valid, NEW e \in Pe!ToSet(definition.descriptors), NEW chain \in Pe!ToSet(submission.map),
                        e.limit = "required", chain[1].id = e.id, NEW l \in Pe!Located(payload, chain)
                 PROVE  \E f \in Pe!ToSet(e.fields) : \E p \in Pe!ToSet(f.paths) : Pe!IsPrefix(p, l.path)
      BY Zenon DEF Pe!NothingUnasked
    <3>1. PICK j \in DOMAIN submission.map : /\ Pe!EntriesOf(submission, e.id) = {j}
                                             /\ Pe!DescriptorMet(e, submission.map[j], payload)
      BY <2>2, MappingOf, Zenon
    <3>2. PICK i \in DOMAIN submission.map : chain = submission.map[i]
      BY DEF Pe!ToSet
    <3>3. i = j
      BY <3>1, <3>2 DEF Pe!EntriesOf
    <3>4. Pe!OnlySelected(Pe!Located(payload, chain), e.fields)
      BY <3>1, <3>2, <3>3, Zenon DEF Pe!DescriptorMet
    <3>5. PICK k \in DOMAIN e.fields : \E p \in Pe!Matched(Pe!Located(payload, chain), e.fields[k]) : Pe!IsPrefix(p, l.path)
      BY <3>4, Zenon DEF Pe!OnlySelected
    <3>6. PICK p \in Pe!Matched(Pe!Located(payload, chain), e.fields[k]) : Pe!IsPrefix(p, l.path)
      BY <3>5
    <3>7. p \in Pe!ToSet(e.fields[k].paths)
      BY MatchedPath, Zenon
    <3>8. e.fields[k] \in Pe!ToSet(e.fields)
      BY DEF Pe!ToSet
    <3> QED
      BY <3>6, <3>7, <3>8, Zenon
  <2>5. Pe!PointsAtItsCredential
    <3> SUFFICES ASSUME NEW held \in Credentials, NEW chain \in Pe!ToSet(Pe!ZkSubmission(held).map),
                        chain[1].format # "zk_mdoc"
                 PROVE  Pe!Located(Pe!ZkPayload(held), chain) = held[chain[1].id].leaves
      BY Zenon DEF Pe!PointsAtItsCredential
    <3> DEFINE D == {j \in DOMAIN definition.descriptors : Pe!HasZk(definition.descriptors[j])} \cup Pe!Carried(held)
               map == [k \in D |-> Pe!ZkEntry(k, held)]
               K == Pe!Carried(held)
    <3>1. Pe!ZkSubmission(held).map = map
      BY DEF Pe!ZkSubmission, Pe!SubmissionFor
    <3>2. PICK k \in D : chain = Pe!ZkEntry(k, held)
      <4> HIDE DEF D
      <4> QED BY <3>1 DEF Pe!ToSet
    <3> HIDE DEF map
    <3> DEFINE d == definition.descriptors[k]
               n == Pe!Position(K, k)
    <3>3. ~Pe!HasZk(d)
      <4>1. SUFFICES ASSUME Pe!HasZk(d) PROVE FALSE
        OBVIOUS
      <4>2. chain = Pe!Entry(d.id, "zk_mdoc", <<"zk_proofs", d.id>>)
        BY <3>2, <4>1, Zenon DEF Pe!ZkEntry
      <4>3. chain[1].format = "zk_mdoc"
        BY <4>2 DEF Pe!Entry
      <4> QED
        BY <4>3
    <3>4. chain = Pe!Entry(d.id, Pe!FormatOf(held, d.id), <<"vc", n>>)
      BY <3>2, <3>3, Zenon DEF Pe!ZkEntry
    <3>5. chain[1].id = d.id
      BY <3>4 DEF Pe!Entry
    <3>6. /\ k \in K /\ K \in SUBSET DOMAIN definition.descriptors
          /\ \A x \in K : definition.descriptors[x].id \in DOMAIN held
      BY <3>3 DEF Pe!Carried
    <3>7. Pe!At(Pe!Listed(K, held), <<"vc", n>>) = held[d.id].leaves
      <4> HIDE DEF K
      <4> QED BY <2>1, <3>6, ListedAt, Zenon
    <3>8. Pe!Located(Pe!ZkPayload(held), chain) = Pe!At(Pe!ZkPayload(held), <<"vc", n>>)
      <4>1. <<"vc", n>> \in Seq({"vc", n})
        OBVIOUS
      <4> HIDE DEF d, n, K
      <4> QED BY <3>4, <4>1, OneStep, Zenon
    <3> QED
      BY <3>5, <3>7, <3>8, Zenon DEF Pe!ZkPayload
  <2> QED
    BY <2>3, <2>4, <2>5
<1> QED
  BY <1>1, AnswerIsJudgedInit, AnswerIsJudgedNext, PTL DEF MCSpec, mcvars

=============================================================================
