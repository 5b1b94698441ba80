--------------------------- MODULE RevocationProofs ---------------------------
(***************************************************************************)
(* Proofs that only certificates an authority issued are accepted, for any *)
(* chains; that revocations surface, in chains and through the caching     *)
(* OCSP client, for any certificates, lists, checks, clock and validity    *)
(* times; that the statuses of a packed list stay apart, for any size; and *)
(* that registries of anchors are faithful to their feeds and publishers.  *)
(***************************************************************************)
EXTENDS MCRevocation, FiniteSetTheorems, NaturalsInduction, WellFoundedInduction, SequenceTheorems, TLAPS

-----------------------------------------------------------------------------
(* Chains: what the evidence in a validator says of a revoked certificate. *)

\* The clock and what is configured; only an end-entity certificate of an
\* authority is revoked, and not before its time.
ChainsTyped ==
    /\ clock \in Nat \ {0}
    /\ revocations \in [Certs -> Nat]
    /\ \A c \in Certs : revocations[c] # Never => c \in Revocable /\ revocations[c] <= clock
    /\ anchors \subseteq Anchors /\ intermediates \subseteq Intermediates
    /\ config \in Configs

\* An authority's list names what was revoked before it was made.
ListTells(l) ==
    /\ l.this \in Nat \ {0} /\ l.this <= clock
    /\ l.next = l.this + CrlValidity
    /\ \A c \in Certs : c.issuer = l.issuer /\ revocations[c] # Never
                          => c \in l.serials \/ l.this <= revocations[c]
ListsTell == \A l \in crls : l.delta \/ l.signed \in Foreign \/ ListTells(l)

\* An authority's answer, or its responder's, says "good" only of what was not
\* revoked before it was made.
AnswerTells(r) ==
    /\ r.this \in Nat \ {0} /\ r.this <= clock /\ r.serial \in Certs
    /\ r.next = Never \/ r.next = r.this + CrlValidity
    /\ r.status = "good" /\ revocations[r.serial] # Never => r.this <= revocations[r.serial]
AnswersTell == \A r \in responses : r.signed \in Foreign \/ AnswerTells(r)

\* Responses come with certificates there are.
AnswersCarry == \A r \in responses : r.certs \subseteq Certs

ChainInv == ChainsTyped /\ ListsTell /\ AnswersTell /\ AnswersCarry

\* Numbers: the longest time a list is accepted bounds each kind of evidence.
LEMMA LongestListBounds ==
    /\ CrlValidity \in Nat /\ CrlSkew \in Nat /\ CrlMaxAge \in Nat /\ LongestList \in Nat
    /\ CrlValidity + CrlSkew <= LongestList /\ CrlMaxAge + CrlSkew <= LongestList
  BY CertificateAssumption DEF LongestList

\* A list that authenticates under an issuer of a revocable certificate is an
\* authority's own, so it is old or names the certificate.
LEMMA ListIsOld ==
    ASSUME ChainInv, NEW l \in crls, NEW c \in Certs, NEW i,
           revocations[c] # Never, i.subject = c.issuer, SignatureVerifies(c, i),
           AuthenticateCrl(l, i), c \notin l.serials
    PROVE  clock <= revocations[c] + LongestList
  <1>1. c.signed \in Owned /\ c.signed \notin Foreign
    BY CertificateAssumption DEF ChainInv, ChainsTyped, Revocable
  <1>2. ListTells(l)
    BY <1>1 DEF ChainInv, ListsTell, SignatureVerifies, AuthenticateCrl
  <1>3. l.this <= revocations[c] /\ l.this \in Nat \ {0} /\ l.next = l.this + CrlValidity
    BY <1>2 DEF ListTells, AuthenticateCrl
  <1>4. CrlIsFresh(l)
    BY DEF AuthenticateCrl
  <1>5. clock <= l.next + CrlSkew
    BY <1>3, <1>4, LongestListBounds DEF CrlIsFresh, Never
  <1>6. clock \in Nat /\ revocations[c] \in Nat
    BY DEF ChainInv, ChainsTyped
  <1> QED
    BY ONLY <1>3, <1>5, <1>6, LongestListBounds

\* So "good" from check_revocation is bounded in time.
LEMMA GoodByList ==
    ASSUME ChainInv, NEW c \in Certs, NEW chain, revocations[c] # Never,
           CheckRevocation(c, chain) = "good"
    PROVE  clock <= revocations[c] + LongestList
  <1> DEFINE evidence == {l \in crls : \E i \in IssuersOf(c, chain) :
                             SignatureVerifies(c, i) /\ AuthenticateCrl(l, i)}
  <1>1. evidence # {} /\ \A l \in evidence : c \notin l.serials
    BY DEF CheckRevocation
  <1>2. PICK l \in crls : \E i \in IssuersOf(c, chain) : SignatureVerifies(c, i) /\ AuthenticateCrl(l, i)
    BY <1>1
  <1>3. c \notin l.serials
    BY <1>1, <1>2
  <1>4. PICK i \in IssuersOf(c, chain) : SignatureVerifies(c, i) /\ AuthenticateCrl(l, i)
    BY <1>2
  <1>5. i.subject = c.issuer
    BY <1>4 DEF IssuersOf
  <1> QED
    BY <1>2, <1>3, <1>4, <1>5, ListIsOld

\* A response that validates for a certificate of an authority is signed with
\* the authority's key or one it made for that, never with a foreign one.
LEMMA ResponderIsNotForeign ==
    ASSUME NEW r, r.certs \subseteq Certs, NEW i, i.key \in Owned, ResponderAuthorized(r, i)
    PROVE  r.signed \notin Foreign
  <1> DEFINE named == {d \in r.certs : r.id \in {ByName(d), ByKey(d)}}
  <1>1. CASE r.id \in {ByName(i), ByKey(i)}
    BY <1>1, CertificateAssumption DEF ResponderAuthorized
  <1>2. CASE r.id \notin {ByName(i), ByKey(i)}
    <2>1. /\ Cardinality(named) = 1
          /\ \A d \in named : SignatureVerifies(d, i) /\ d.ocspSigning /\ r.signed = d.key
      BY <1>2 DEF ResponderAuthorized
    <2>2. named # {}
      BY <2>1, FS_EmptySet
    <2>3. PICK d \in named : TRUE
      BY <2>2
    <2>4. d \in Certs /\ d.signed \in Owned /\ d.ocspSigning /\ r.signed = d.key
      BY <2>1, <2>3 DEF SignatureVerifies
    <2> QED
      BY <2>4, DelegateAssumption
  <1> QED
    BY <1>1, <1>2

\* ... and from check_ocsp_status.
LEMMA GoodByAnswer ==
    ASSUME ChainInv, NEW c \in Certs, NEW chain, revocations[c] # Never,
           CheckOcspStatus(c, chain) = "good"
    PROVE  clock <= revocations[c] + LongestList
  <1>1. PICK r \in responses : r.status = "good" /\ \E i \in IssuersOf(c, chain) : ResponseValid(r, c, i)
    BY DEF CheckOcspStatus
  <1>2. PICK i \in IssuersOf(c, chain) : ResponseValid(r, c, i)
    BY <1>1
  <1>3. r.serial = c /\ i.key = c.signed /\ ResponderAuthorized(r, i) /\ OcspIsFresh(r)
    BY <1>2 DEF ResponseValid, SignatureVerifies
  <1>4. c.signed \in Owned
    BY DEF ChainInv, ChainsTyped, Revocable
  <1>5. r.certs \subseteq Certs
    BY DEF ChainInv, AnswersCarry
  <1>6. AnswerTells(r)
    BY <1>3, <1>4, <1>5, ResponderIsNotForeign DEF ChainInv, AnswersTell
  <1>7. /\ r.this \in Nat \ {0} /\ r.this <= revocations[c]
        /\ r.next = Never \/ r.next = r.this + CrlValidity
    BY <1>1, <1>3, <1>6 DEF AnswerTells
  <1>8. clock \in Nat /\ revocations[c] \in Nat
    BY DEF ChainInv, ChainsTyped
  <1>9. clock <= r.this + LongestList
    <2>1. CASE r.next = Never
      BY <2>1, <1>3, <1>7, <1>8, LongestListBounds DEF OcspIsFresh
    <2>2. CASE r.next # Never
      BY <2>2, <1>3, <1>7, <1>8, LongestListBounds DEF OcspIsFresh
    <2> QED
      BY <2>1, <2>2
  <1> QED
    BY ONLY <1>7, <1>8, <1>9, LongestListBounds

\* A chain that validates under hard_fail holds no certificate whose
\* revocation is older than any evidence can be.
LEMMA ValidateSurfaces ==
    ASSUME ChainInv, NEW chain \in Chains, Validate(chain)
    PROVE  RevokedSurfacesInChains'
  <1>1. /\ verdict' = ValidateChain(chain)
        /\ clock' = clock /\ revocations' = revocations /\ config' = config
    BY DEF Validate, validator
  <1> DEFINE trouble == chain # <<>> /\ RevocationTrouble(chain)
  <1>2. /\ verdict'.chain = chain
        /\ verdict'.valid => chain # <<>> /\ ~(trouble /\ config.hard)
    BY <1>1 DEF ValidateChain
  <1> SUFFICES ASSUME verdict'.valid, config.hard, config.crl \/ config.ocsp,
                      NEW i \in DOMAIN chain, revocations[chain[i]] # Never
               PROVE  clock <= revocations[chain[i]] + LongestList
    <2>1. LongestList' = LongestList
      BY DEF LongestList
    <2> QED
      BY <1>1, <1>2, <2>1 DEF RevokedSurfacesInChains
  <1>3. ~RevocationTrouble(chain)
    BY <1>2
  <1>4. chain[i] \in Certs
    <2>1. chain \in Seq(Certs)
      BY CertificateAssumption
    <2> QED
      BY ONLY <2>1
  <1>5. chain[i] \notin anchors
    BY <1>4, AnchorAssumption DEF ChainInv, ChainsTyped
  <1>6. chain[i] \in {chain[j] : j \in DOMAIN chain} \ anchors
    BY <1>5
  <1>7. CASE config.crl
    <2>1. CheckRevocation(chain[i], chain) = "good"
      BY <1>3, <1>6, <1>7 DEF RevocationTrouble
    <2> QED
      BY <2>1, <1>4, GoodByList
  <1>8. CASE config.ocsp
    <2>1. CheckOcspStatus(chain[i], chain) = "good"
      BY <1>3, <1>6, <1>8 DEF RevocationTrouble
    <2> QED
      BY <2>1, <1>4, GoodByAnswer
  <1> QED
    BY <1>7, <1>8

\* A validator starts with nothing, and nothing is revoked.
LEMMA ChainInit == Init => ChainInv /\ RevokedSurfacesInChains
  <1> SUFFICES ASSUME Init PROVE ChainInv /\ RevokedSurfacesInChains
    OBVIOUS
  <1>1. ChainsTyped
    BY DEF Init, ChainsTyped, Never
  <1>2. ListsTell /\ AnswersTell /\ AnswersCarry
    BY DEF Init, ListsTell, AnswersTell, AnswersCarry
  <1>3. RevokedSurfacesInChains
    BY DEF Init, RevokedSurfacesInChains, NoVerdict
  <1> QED
    BY <1>1, <1>2, <1>3 DEF ChainInv

\* A list an authority builds now tells of everything revoked so far.
LEMMA BuiltListTells ==
    ASSUME ChainsTyped, NEW a
    PROVE  ListTells(BuildCrl(a))
  <1> DEFINE l == BuildCrl(a)
  <1>1. /\ l.this = clock /\ l.next = clock + CrlValidity /\ l.issuer = a.subject
        /\ l.serials = {c \in Certs : c.issuer = a.subject /\ revocations[c] # Never}
    BY DEF BuildCrl
  <1>2. clock \in Nat \ {0}
    BY DEF ChainsTyped
  <1>3. ListTells(l)
    <2> HIDE DEF l
    <2> QED
      BY <1>1, <1>2 DEF ListTells
  <1> QED
    BY <1>3

\* A made-up list is a delta or carries a foreign key's signature.
LEMMA MadeUpIsMarked ==
    ASSUME NEW a, NEW l \in MadeUpCrls(a)
    PROVE  l.delta \/ l.signed \in Foreign
  <1>1. CASE l \in {[BuildCrl(a) EXCEPT !.signed = k, !.serials = {}, !.next = Never] : k \in Foreign}
    BY <1>1 DEF BuildCrl
  <1>2. CASE l = [BuildCrl(a) EXCEPT !.delta = TRUE, !.serials = {}]
    BY <1>2 DEF BuildCrl
  <1> QED
    BY <1>1, <1>2 DEF MadeUpCrls

\* Evidence stays true while nothing but the evidence changes.
LEMMA AddListInv ==
    ASSUME ChainInv, NEW l, AddCrl(l), l.delta \/ l.signed \in Foreign \/ ListTells(l)
    PROVE  ChainInv'
  <1>1. /\ crls' = crls \cup {l}
        /\ UNCHANGED <<clock, revocations, anchors, intermediates, responses, config>>
    BY DEF AddCrl
  <1> QED
    BY <1>1 DEF ChainInv, ChainsTyped, ListsTell, ListTells, AnswersTell, AnswerTells, AnswersCarry

\* A genuine answer of this moment is true now.
LEMMA GenuineTells ==
    ASSUME ChainsTyped, NEW c \in Certs, NEW a, NEW r \in Answers(c, a)
    PROVE  AnswerTells(r) /\ r.certs \subseteq Certs
  <1>1. ASSUME NEW q \in Told(c) PROVE q = "good" => revocations[c] = Never
    BY DEF Told
  <1>2. /\ r.serial = c /\ r.this = clock /\ r.status \in Told(c)
        /\ r.next = Never \/ r.next = clock + CrlValidity
        /\ r.certs \subseteq Delegates
    <2>1. ASSUME NEW q \in Told(c), r = OcspAnswer(c, a, q)
          PROVE  /\ r.serial = c /\ r.this = clock /\ r.status = q
                 /\ r.next = clock + CrlValidity /\ r.certs = {}
      BY <2>1 DEF OcspAnswer
    <2>2. ASSUME NEW q \in Told(c), NEW d \in Delegates, r = OcspDelegated(c, a, q, d)
          PROVE  /\ r.serial = c /\ r.this = clock /\ r.status = q
                 /\ r.next = Never /\ r.certs = {d}
      BY <2>2 DEF OcspDelegated, OcspAnswer
    <2>3. \/ \E q \in Told(c) : r = OcspAnswer(c, a, q)
          \/ \E q \in Told(c), d \in Delegates : r = OcspDelegated(c, a, q, d)
      BY DEF Answers
    <2>4. CASE \E q \in Told(c) : r = OcspAnswer(c, a, q)
      BY <2>1, <2>4
    <2>5. CASE \E q \in Told(c), d \in Delegates : r = OcspDelegated(c, a, q, d)
      BY <2>2, <2>5
    <2> QED
      BY <2>3, <2>4, <2>5, Zenon
  <1>3. clock \in Nat \ {0}
    BY DEF ChainsTyped
  <1>4. AnswerTells(r)
    BY <1>1, <1>2, <1>3 DEF AnswerTells
  <1> QED
    BY <1>2, <1>4, CertificateAssumption

\* A made-up answer carries a foreign key's signature.
LEMMA MadeUpAnswerIsMarked ==
    ASSUME NEW c, NEW a, NEW r \in MadeUpAnswers(c, a)
    PROVE  r.signed \in Foreign /\ r.certs \subseteq Certs
  <1>1. CASE r \in {[OcspAnswer(c, a, "good") EXCEPT !.signed = k, !.next = Never] : k \in Foreign}
    BY <1>1 DEF OcspAnswer
  <1>2. CASE r \in {[OcspAnswer(c, a, "good") EXCEPT !.signed = d.key, !.id = ByKey(d), !.certs = {d}] :
                       d \in {e \in Certs : e.key \in Foreign /\ e.issuer = a.subject}}
    <2>1. PICK d \in Certs :
             /\ d.key \in Foreign
             /\ r = [OcspAnswer(c, a, "good") EXCEPT !.signed = d.key, !.id = ByKey(d), !.certs = {d}]
      BY <1>2, Zenon
    <2> QED
      BY <2>1 DEF OcspAnswer
  <1> QED
    BY <1>1, <1>2 DEF MadeUpAnswers

\* ... and while a response is added.
LEMMA AddAnswerInv ==
    ASSUME ChainInv, NEW r, AddOcspResponse(r), r.signed \in Foreign \/ AnswerTells(r), r.certs \subseteq Certs
    PROVE  ChainInv'
  <1>1. /\ responses' = responses \cup {r}
        /\ UNCHANGED <<clock, revocations, anchors, intermediates, crls, config>>
    BY DEF AddOcspResponse
  <1>2. AnswersTell' /\ AnswersCarry'
    BY <1>1 DEF ChainInv, AnswersTell, AnswerTells, AnswersCarry
  <1> QED
    BY <1>1, <1>2 DEF ChainInv, ChainsTyped, ListsTell, ListTells

\* A revocation now is no earlier than any evidence there is.
LEMMA RevokeInv ==
    ASSUME ChainInv, NEW c \in Revocable, Revoke(c)
    PROVE  ChainInv'
  <1>1. /\ revocations' = [revocations EXCEPT ![c] = clock] /\ revocations[c] = Never
        /\ UNCHANGED <<clock, anchors, intermediates, crls, responses, config>>
    BY DEF Revoke, validator
  <1>2. c \in Certs /\ revocations \in [Certs -> Nat] /\ clock \in Nat \ {0}
    BY DEF Revocable, ChainInv, ChainsTyped
  <1>3. \A d \in Certs : revocations'[d] = revocations[d] \/ (d = c /\ revocations'[d] = clock)
    BY <1>1, <1>2
  <1>4. ChainsTyped'
    BY <1>1, <1>2, <1>3 DEF ChainInv, ChainsTyped
  <1>5. ListsTell'
    BY <1>1, <1>2, <1>3 DEF ChainInv, ListsTell, ListTells
  <1>6. AnswersTell' /\ AnswersCarry'
    BY <1>1, <1>2, <1>3 DEF ChainInv, AnswersTell, AnswerTells, AnswersCarry
  <1> QED
    BY <1>4, <1>5, <1>6 DEF ChainInv

\* Every step of the validator and its environment keeps the evidence true and
\* the verdict in time.
LEMMA ChainStep == ChainInv /\ RevokedSurfacesInChains /\ [Next]_vars => ChainInv' /\ RevokedSurfacesInChains'
  <1> SUFFICES ASSUME ChainInv, RevokedSurfacesInChains, [Next]_vars
               PROVE  ChainInv' /\ RevokedSurfacesInChains'
    OBVIOUS
  <1> USE DEF ChainInv
  <1>1. ASSUME NEW chain \in Chains, Validate(chain) PROVE ChainInv' /\ RevokedSurfacesInChains'
    <2>1. UNCHANGED <<clock, revocations, anchors, intermediates, crls, responses, config>>
      BY <1>1 DEF Validate, validator
    <2>2. ChainInv'
      BY <2>1 DEF ChainsTyped, ListsTell, ListTells, AnswersTell, AnswerTells, AnswersCarry
    <2> QED
      BY <2>2, <1>1, ValidateSurfaces
  <1>2. ASSUME verdict' = NoVerdict PROVE RevokedSurfacesInChains'
    BY <1>2 DEF RevokedSurfacesInChains, NoVerdict
  <1>3. ASSUME UNCHANGED <<clock, revocations, crls, responses, config>>, anchors' \subseteq Anchors,
               intermediates' \subseteq Intermediates
        PROVE  ChainInv'
    BY <1>3 DEF ChainsTyped, ListsTell, ListTells, AnswersTell, AnswerTells, AnswersCarry
  <1>4. ASSUME NEW c \in Anchors, AddTrustAnchor(c) PROVE ChainInv' /\ UNCHANGED verdict
    BY <1>3, <1>4 DEF AddTrustAnchor, ChainsTyped
  <1>5. ASSUME NEW c \in Intermediates, AddIntermediate(c) PROVE ChainInv' /\ UNCHANGED verdict
    BY <1>3, <1>5 DEF AddIntermediate, ChainsTyped
  <1>6. ASSUME NEW a \in Authorities, AddCrl(BuildCrl(a)) PROVE ChainInv' /\ UNCHANGED verdict
    BY <1>6, AddListInv, BuiltListTells DEF AddCrl
  <1>7. ASSUME NEW a \in Authorities, NEW l \in MadeUpCrls(a), AddCrl(l) PROVE ChainInv' /\ UNCHANGED verdict
    BY <1>7, AddListInv, MadeUpIsMarked DEF AddCrl
  <1>8. ASSUME NEW c \in Asked, NEW a, NEW said \in Answers(c, a) \cup MadeUpAnswers(c, a),
               AddOcspResponse(said)
        PROVE  ChainInv' /\ UNCHANGED verdict
    <2>1. c \in Certs
      BY CertificateAssumption
    <2>2. (said.signed \in Foreign \/ AnswerTells(said)) /\ said.certs \subseteq Certs
      BY <2>1, <1>8, GenuineTells, MadeUpAnswerIsMarked
    <2>3. ChainInv'
      BY <1>8, <2>2, AddAnswerInv
    <2> QED
      BY <1>8, <2>3 DEF AddOcspResponse
  <1>9. ASSUME NEW c \in Revocable, Revoke(c) PROVE ChainInv' /\ UNCHANGED verdict
    BY <1>9, RevokeInv DEF Revoke
  <1>10. ASSUME Advance PROVE ChainInv' /\ UNCHANGED verdict
    <2>1. clock' = clock + 1 /\ UNCHANGED <<revocations, anchors, intermediates, crls, responses, config>>
      BY <1>10 DEF Advance, validator
    <2>2. ChainsTyped'
      BY <2>1 DEF ChainsTyped
    <2>3. ListsTell'
      BY <2>1 DEF ListsTell, ListTells, ChainsTyped
    <2>4. AnswersTell' /\ AnswersCarry'
      BY <2>1 DEF AnswersTell, AnswerTells, AnswersCarry, ChainsTyped
    <2> QED
      BY <2>2, <2>3, <2>4, <1>10 DEF Advance
  <1>11. CASE Return
    BY <1>2, <1>3, <1>11 DEF Return, validator, ChainsTyped
  <1>12. CASE UNCHANGED vars
    BY <1>3, <1>12 DEF vars, ChainsTyped, RevokedSurfacesInChains
  <1>13. CASE Next
    <2>1. CASE verdict = NoVerdict /\ ChainInv' /\ UNCHANGED verdict
      BY <2>1, <1>2
    <2> QED
      BY <1>1, <1>4, <1>5, <1>6, <1>7, <1>8, <1>9, <1>10, <1>11, <1>13, <2>1 DEF Next
  <1> QED
    BY <1>12, <1>13

-----------------------------------------------------------------------------
(* Chains: who can have issued what validates.                             *)

\* The certificate behind the signature of one in a chain: the next one, or
\* above the last a configured one.
Behind(c, a) == a \in Certs /\ a.key = c.signed /\ a.subject = c.issuer /\ a.constraints = "ca"

\* verify_trust_anchor: a configured authority signed the last certificate.
LEMMA TopIsAnchored ==
    ASSUME anchors \subseteq Anchors, intermediates \subseteq Intermediates,
           NEW chain \in Seq(Certs), Len(chain) > 0, VerifyTrustAnchor(chain)
    PROVE  \/ \E a \in anchors \cup intermediates :
                 Behind(chain[Len(chain)], a) /\ SignatureVerifies(chain[Len(chain)], a)
           \/ chain[Len(chain)].key \in Owned /\ \E a \in Anchors : Behind(chain[Len(chain)], a)
<1> DEFINE last == chain[Len(chain)]
<1>1. last \in Certs
  OBVIOUS
<1>2. CASE last.issuer = last.subject /\ last \in anchors
  BY <1>1, <1>2, AuthorityAssumption DEF Behind
<1>3. ASSUME NEW a \in anchors \cup intermediates, a.subject = last.issuer, SignatureVerifies(last, a)
      PROVE  Behind(last, a)
  BY <1>3, AuthorityAssumption, CertificateAssumption DEF Behind, SignatureVerifies
<1> QED
  BY <1>1, <1>2, <1>3 DEF VerifyTrustAnchor

\* verify_chain_signatures and check_chain_constraints: the next certificate
\* in a chain is the authority behind the one before it.
LEMMA NextIsBehind ==
    ASSUME NEW chain \in Seq(Certs), VerifyChainSignatures(chain), CheckChainConstraints(chain),
           NEW i \in 1 .. Len(chain) - 1, NEW j, j = i + 1
    PROVE  Behind(chain[i], chain[j])
<1>1. j \in 2 .. Len(chain) /\ j \in 1 .. Len(chain)
  OBVIOUS
<1>2. chain[j] \in Certs
  BY <1>1
<1>3. chain[j].constraints = "ca"
  BY <1>1 DEF CheckChainConstraints
<1>4. chain[i].issuer = chain[j].subject /\ chain[i].signed = chain[j].key
  BY DEF VerifyChainSignatures, SignatureVerifies
<1> QED
  BY <1>2, <1>3, <1>4 DEF Behind

\* check_chain_constraints: an authority of path length zero has no authority
\* but itself below it.
LEMMA NoneBelowZero ==
    ASSUME NEW chain \in Seq(Certs), CheckChainConstraints(chain),
           NEW i \in 2 .. Len(chain) - 1, chain[i].subject # chain[i].issuer
    PROVE  chain[i + 1].pathLen # 0
<1> DEFINE S == {j \in 2 .. (i + 1) - 1 : chain[j].subject # chain[j].issuer}
<1>1. i \in S /\ i + 1 \in 2 .. Len(chain) /\ S \subseteq 2 .. i
  OBVIOUS
<1>2. IsFiniteSet(S)
  <2>1. 2 \in Int /\ i \in Int
    OBVIOUS
  <2>2. IsFiniteSet(2 .. i)
    BY <2>1, FS_Interval, Zenon
  <2> QED
    BY <1>1, <2>2, FS_Subset, Zenon
<1>3. Cardinality(S) \in Nat /\ Cardinality(S) # 0
  BY <1>1, <1>2, FS_CardinalityType, FS_EmptySet
<1>4. Cardinality(S) <= chain[i + 1].pathLen
  BY <1>1 DEF CheckChainConstraints
<1> QED
  BY <1>3, <1>4

\* A chain that validates was signed by owned keys from end to end: were there
\* another, the one nearest the anchor would be signed by an authority whose
\* key is not owned.
LEMMA OwnedThroughout ==
    ASSUME NEW chain \in Seq(Certs), Len(chain) > 0,
           VerifyChainSignatures(chain), CheckChainConstraints(chain),
           \E a \in Anchors \cup Intermediates : Behind(chain[Len(chain)], a),
           Len(chain) > 1 => chain[Len(chain)].key \in Owned
    PROVE  \A i \in 1 .. Len(chain) : chain[i].signed \in Owned
<1> DEFINE n == Len(chain)
           S == {k \in Nat : k < n /\ chain[n - k].signed \notin Owned}
           Below == {ss \in Nat \X Nat : ss[1] < ss[2]}
<1>1. n \in Nat /\ \A i \in 1 .. n : chain[i] \in Certs
  OBVIOUS
<1>2. PICK top \in Anchors \cup Intermediates : Behind(chain[n], top)
  OBVIOUS
<1>3. chain[n].signed \in Owned
  BY <1>2, AuthorityAssumption DEF Behind
<1>4. ASSUME NEW i \in 1 .. n - 1, chain[i + 1].signed \in Owned PROVE chain[i].signed \in Owned
  <2>1. /\ i \in 1 .. n /\ i + 1 \in 2 .. n /\ chain[i + 1] \in Certs
        /\ chain[i + 1].constraints = "ca" /\ chain[i].signed = chain[i + 1].key
    <3>1. i \in 1 .. n /\ i + 1 \in 2 .. n
      BY <1>1
    <3> HIDE DEF n
    <3> QED BY <3>1, NextIsBehind DEF Behind, n
  <2> SUFFICES ASSUME chain[i + 1].key \notin Owned PROVE FALSE
    BY <2>1
  <2>2. /\ chain[i + 1].subject # chain[i + 1].issuer
        /\ \A a \in Certs : Behind(chain[i + 1], a) => a.pathLen = 0
    BY <2>1, <1>4, AuthorityAssumption DEF Behind
  <2>3. CASE i + 1 = n
    <3>1. Len(chain) > 1 /\ chain[i + 1] = chain[Len(chain)]
      BY <2>1, <2>3
    <3> QED
      BY <3>1
  <2>4. CASE i + 1 # n
    <3>1. i + 1 \in 2 .. n - 1 /\ i + 2 \in 2 .. n /\ i + 1 \in 1 .. n - 1 /\ (i + 1) + 1 = i + 2
      BY <2>1, <2>4
    <3>2. Behind(chain[i + 1], chain[i + 2])
      BY <3>1, NextIsBehind
    <3>3. chain[i + 2].pathLen # 0
      BY <3>1, <2>2, NoneBelowZero
    <3> QED
      BY <3>2, <3>3, <2>2 DEF Behind
  <2> QED
    BY <2>3, <2>4
<1>5. S = {}
  <2> SUFFICES ASSUME S # {} PROVE FALSE
    OBVIOUS
  <2>1. OpToRel(<, Nat) = Below
    BY Zenon DEF OpToRel
  <2>2. S \subseteq Nat
    OBVIOUS
  <2>3. \E x \in S : \A y \in S : <<y, x>> \notin Below
    <3> HIDE DEF S, Below
    <3> QED BY <2>1, <2>2, WFMin, NatLessThanWellFounded, Zenon
  <2>4. PICK k \in S : \A y \in S : <<y, k>> \notin Below
    BY <2>3
  <2>5. k \in Nat /\ k < n /\ chain[n - k].signed \notin Owned /\ k # 0
    BY <1>3
  <2>6. k - 1 \in Nat /\ <<k - 1, k>> \in Below /\ n - k \in 1 .. n - 1 /\ (n - k) + 1 = n - (k - 1)
    BY <2>5, <1>1
  <2>7. k - 1 \notin S
    BY <2>4, <2>6
  <2>8. chain[(n - k) + 1].signed \in Owned
    BY <2>5, <2>6, <2>7
  <2> QED
    BY <2>5, <2>6, <2>8, <1>4
<1>6. ASSUME NEW i \in 1 .. n PROVE chain[i].signed \in Owned
  <2>1. n - i \in Nat /\ n - i < n /\ n - (n - i) = i
    BY <1>1
  <2> QED
    BY <1>5, <2>1
<1> QED
  BY <1>6

\* What validates at all begins with a certificate an authority issued, unless
\* the path length of a configured one was passed over.
LEMMA ValidIsIssued ==
    ASSUME anchors \subseteq Anchors, intermediates \subseteq Intermediates,
           NEW chain \in Chains, ValidateChain(chain).valid
    PROVE  chain[1] \in Issued \/ PathLengthUncounted(chain)
<1> SUFFICES ASSUME ~PathLengthUncounted(chain) PROVE chain[1] \in Issued
  OBVIOUS
<1>1. /\ chain # <<>> /\ VerifyChainSignatures(chain)
      /\ CheckChainConstraints(chain) /\ VerifyTrustAnchor(chain)
  BY DEF ValidateChain
<1>2. chain \in Seq(Certs)
  BY CertificateAssumption
<1>3. Len(chain) \in Nat /\ Len(chain) > 0 /\ 1 \in DOMAIN chain /\ chain[1] \in Certs
  BY <1>1, <1>2
<1> DEFINE last == chain[Len(chain)]
<1>4. PICK top \in Anchors \cup Intermediates :
         /\ Behind(last, top)
         /\ last.key \in Owned \/ (top \in anchors \cup intermediates /\ SignatureVerifies(last, top))
  BY <1>1, <1>2, <1>3, TopIsAnchored
<1>8. Len(chain) > 1 => last.key \in Owned
  <2> SUFFICES ASSUME Len(chain) > 1, last.key \notin Owned PROVE FALSE
    OBVIOUS
  <2>1. last \in Certs /\ last.constraints = "ca"
    <3>1. Len(chain) \in 2 .. Len(chain) /\ Len(chain) \in DOMAIN chain
      BY <1>2, <1>3
    <3>2. \A i \in 2 .. Len(chain) : chain[i].constraints = "ca"
      BY <1>1 DEF CheckChainConstraints
    <3>3. \A i \in DOMAIN chain : chain[i] \in Certs
      BY <1>2
    <3> QED
      BY <3>1, <3>2, <3>3, Zenon
  <2>2. last.signed \in Owned /\ top \in Certs
    BY <1>4, AuthorityAssumption, CertificateAssumption DEF Behind
  <2>3. top.pathLen = 0
    BY <1>4, <2>1, <2>2, AuthorityAssumption DEF Behind
  <2> QED
    BY <1>4, <2>3 DEF Behind, PathLengthUncounted
<1>5. chain[1].signed \in Owned
  BY <1>1, <1>2, <1>3, <1>4, <1>8, OwnedThroughout
<1>6. chain[1].sound
  BY <1>1, <1>3 DEF CheckChainConstraints
<1>7. \E a \in Certs : Behind(chain[1], a)
  <2>1. CASE Len(chain) = 1
    BY <2>1, <1>4 DEF Behind
  <2>2. CASE Len(chain) # 1
    <3>0. Len(chain) \in Nat /\ Len(chain) > 0
      BY <1>3
    <3>1. 1 \in 1 .. Len(chain) - 1 /\ 2 = 1 + 1
      <4>1. \A n \in Nat : n > 0 /\ n # 1 => 1 \in 1 .. n - 1
        OBVIOUS
      <4>2. 2 = 1 + 1
        OBVIOUS
      <4> QED
        BY ONLY <2>2, <3>0, <4>1, <4>2, Zenon
    <3>2. Behind(chain[1], chain[2])
      BY <3>1, <1>1, <1>2, NextIsBehind
    <3> QED
      BY <3>2 DEF Behind
  <2> QED
    BY <2>1, <2>2
<1> QED
  BY <1>3, <1>5, <1>6, <1>7 DEF Issued, Behind

\* validate_chain accepts only what an authority issued, for any certificates,
\* genuine or forged, any chains of any length and any configuration: no
\* end-entity certificate, namesake of an authority or authority beyond the
\* path length of an issuer in the chain stands in for one; only the path length
\* of a configured authority that is not sent along is passed over (chain.rs).
THEOREM OnlyIssuedCorrect == Spec => []OnlyIssuedAccepted
<1> DEFINE Configured == anchors \subseteq Anchors /\ intermediates \subseteq Intermediates
           Inv == Configured /\ OnlyIssuedAccepted
           settled == <<anchors, intermediates>>
<1>1. Init => Inv
  BY DEF Init, NoVerdict, OnlyIssuedAccepted
<1>2. Inv /\ [Next]_vars => Inv'
  <2> SUFFICES ASSUME Inv, [Next]_vars PROVE Inv'
    OBVIOUS
  <2>1. Configured'
    BY DEF Next, vars, validator, AddTrustAnchor, AddIntermediate, AddCrl, AddOcspResponse, Revoke, Advance, Validate, Return
  <2>2. \/ UNCHANGED <<verdict, settled>> \/ verdict' = NoVerdict
        \/ verdict = NoVerdict /\ UNCHANGED verdict
        \/ UNCHANGED settled /\ \E chain \in Chains : verdict' = ValidateChain(chain)
    BY DEF Next, vars, validator, AddTrustAnchor, AddIntermediate, AddCrl, AddOcspResponse, Revoke, Advance, Validate,
           Return
  <2>3. OnlyIssuedAccepted'
    <3>1. CASE UNCHANGED <<verdict, settled>>
      BY <3>1 DEF OnlyIssuedAccepted, PathLengthUncounted, SignatureVerifies
    <3>3. CASE verdict' = NoVerdict
      BY <3>3 DEF OnlyIssuedAccepted, NoVerdict
    <3>2. ASSUME NEW chain \in Chains, UNCHANGED settled, verdict' = ValidateChain(chain)
          PROVE  OnlyIssuedAccepted'
      <4>1. verdict'.chain = chain
        BY <3>2 DEF ValidateChain
      <4>2. verdict'.valid => chain[1] \in Issued \/ PathLengthUncounted(chain)
        BY <3>2, ValidIsIssued
      <4>3. PathLengthUncounted(chain) => PathLengthUncounted(verdict.chain)'
        BY <3>2, <4>1 DEF PathLengthUncounted, SignatureVerifies
      <4> QED
        BY <4>1, <4>2, <4>3 DEF OnlyIssuedAccepted
    <3> QED
      BY <2>2, <3>1, <3>2, <3>3
  <2> QED
    BY <2>1, <2>3
<1>3. Inv => OnlyIssuedAccepted
  OBVIOUS
<1> QED
  BY <1>1, <1>2, <1>3, PTL DEF Spec

-----------------------------------------------------------------------------
(* The caching client: how old what it holds can be.                       *)

\* A response of the issuer or its delegate says "good" only of what was not
\* revoked when it was made, and is valid for its own time.
Honest(r) ==
    /\ r.this \in Nat /\ r.this <= now
    /\ r.next \in {Ocsp!NoTime, r.this + Validity}
    /\ r.status = "good" /\ revokedAt # Ocsp!NoTime => r.this <= revokedAt

\* What is kept of one is not used later than a response can be accepted, and
\* then a cache lifetime.
Held(e) ==
    /\ e = [result |-> e.result, expires |-> e.expires, inserted |-> e.inserted]
    /\ Honest(e.result)
    /\ e.expires \in Nat /\ e.expires <= e.result.this + Ocsp!LongestLife
InTime(e) == e.inserted \in Nat /\ e.inserted <= e.result.this + Ocsp!LongestLife

OcspInv ==
    /\ now \in Nat \ {0} /\ revokedAt \in Nat /\ revokedAt <= now
    /\ phase = [k \in Checks |-> phase[k]] /\ answer = [k \in Checks |-> answer[k]]
    /\ \A r \in sent : Honest(r)
    /\ cache = Ocsp!NoEntry \/ Held(cache)
    /\ \A k \in Checks : answer[k] = Ocsp!NoEntry \/ (Held(answer[k]) /\ InTime(answer[k]))
    /\ \A k \in Checks : phase[k] = "storing" => answer[k] # Ocsp!NoEntry

\* Numbers: each way a response gets old is within LongestLife.
LEMMA LongestLifeBounds ==
    /\ Skew \in Nat /\ MaxAge \in Nat /\ DefaultTtl \in Nat /\ Validity \in Nat
    /\ Ocsp!LongestLife \in Nat
    /\ Validity + Skew + DefaultTtl <= Ocsp!LongestLife
    /\ MaxAge + Skew + DefaultTtl <= Ocsp!LongestLife
  BY ResponderAssumption DEF Ocsp!LongestLife

\* Nothing made up validates.
LEMMA ForgedIsInvalid ==
    ASSUME NEW r \in Ocsp!Forged
    PROVE  ~Ocsp!Valid(r)
  <1>1. r.by = "other" /\ r.certs \subseteq Embedded
    BY DEF Ocsp!Forged
  <1>2. "other" \notin Ocsp!AuthorizedKeys(r)
    BY <1>1, ResponderAssumption DEF Ocsp!AuthorizedKeys
  <1> QED
    BY <1>1, <1>2 DEF Ocsp!Valid

\* What validates can be kept: for its validity, or a cache lifetime from now.
LEMMA ReceivedIsHeld ==
    ASSUME OcspInv, NEW r \in sent \cup Ocsp!Forged, Ocsp!Valid(r)
    PROVE  /\ Honest(r)
           /\ Ocsp!Expiry(r) \in Nat /\ Ocsp!Expiry(r) <= r.this + Ocsp!LongestLife
           /\ now <= r.this + Ocsp!LongestLife
  <1>1. Honest(r)
    BY ForgedIsInvalid DEF OcspInv
  <1>2. /\ r.this \in Nat /\ now \in Nat /\ r.this <= now
        /\ r.next = 0 \/ r.next = r.this + Validity
    BY <1>1 DEF Honest, OcspInv, Ocsp!NoTime
  <1>3. IF r.next # 0 THEN now <= r.next + Skew ELSE now <= r.this + MaxAge + Skew
    BY DEF Ocsp!Valid, Ocsp!FreshResponse, Ocsp!NoTime
  <1>4. now + DefaultTtl <= r.this + Ocsp!LongestLife
    BY ONLY <1>2, <1>3, LongestLifeBounds
  <1>5. Ocsp!Expiry(r) \in Nat /\ Ocsp!Expiry(r) <= r.this + Ocsp!LongestLife
    BY ONLY <1>2, <1>4, LongestLifeBounds DEF Ocsp!Expiry
  <1> QED
    BY ONLY <1>1, <1>2, <1>4, <1>5, LongestLifeBounds

\* What was true of evidence stays true while time passes.
LEMMA HonestLater ==
    ASSUME OcspInv, now' \in Nat, now' >= now, revokedAt' \in Nat,
           revokedAt' = revokedAt \/ (revokedAt = Ocsp!NoTime /\ revokedAt' >= now)
    PROVE  \A r : Honest(r) => Honest(r)'
  <1> SUFFICES ASSUME NEW r, Honest(r) PROVE Honest(r)'
    OBVIOUS
  <1>1. r.this \in Nat /\ r.this <= now /\ now \in Nat
    BY DEF Honest, OcspInv
  <1>2. r.this <= now'
    BY ONLY <1>1, now' \in Nat, now' >= now
  <1>3. ASSUME r.status = "good", revokedAt' # Ocsp!NoTime PROVE r.this <= revokedAt'
    BY <1>1, <1>3 DEF Honest, OcspInv
  <1> QED
    BY <1>1, <1>2, <1>3 DEF Honest, Ocsp!NoTime

\* A call that ends or gets an answer keeps the invariant if what it has now
\* is as good as the invariant demands.
LEMMA AnswerInv ==
    ASSUME OcspInv, NEW k \in Checks, NEW e, NEW p,
           phase' = [phase EXCEPT ![k] = p], answer' = [answer EXCEPT ![k] = e],
           e = Ocsp!NoEntry \/ (Held(e) /\ InTime(e)), p = "storing" => e # Ocsp!NoEntry,
           UNCHANGED <<now, revokedAt, sent>>, cache' = Ocsp!NoEntry \/ Held(cache')
    PROVE  OcspInv'
  <1>2. \A j \in Checks : /\ answer'[j] = IF j = k THEN e ELSE answer[j]
                          /\ phase'[j] = IF j = k THEN p ELSE phase[j]
    BY DEF OcspInv
  <1>3. /\ phase' = [j \in Checks |-> phase'[j]] /\ answer' = [j \in Checks |-> answer'[j]]
    BY DEF OcspInv
  <1> QED
    BY <1>2, <1>3 DEF OcspInv, Held, InTime, Honest

\* A client starts with an empty cache.
LEMMA OcspInit == Ocsp!Init => OcspInv
  BY DEF Ocsp!Init, OcspInv, Ocsp!NoTime

\* Calls, responders, time and revocation keep what is held in time.
LEMMA OcspStep == OcspInv /\ [Ocsp!Next]_ocspVars => OcspInv'
  <1> SUFFICES ASSUME OcspInv, [Ocsp!Next]_ocspVars PROVE OcspInv'
    OBVIOUS
  <1>1. ASSUME NEW k \in Checks, Ocsp!Hit(k) PROVE OcspInv'
    <2> DEFINE e == [cache EXCEPT !.inserted = now]
    <2>1. /\ cache # Ocsp!NoEntry /\ cache.expires > now
          /\ phase' = [phase EXCEPT ![k] = "done"] /\ answer' = [answer EXCEPT ![k] = e]
          /\ UNCHANGED <<now, revokedAt, sent, cache>>
      BY <1>1 DEF Ocsp!Hit, Ocsp!Live, Ocsp!Finish
    <2>2. Held(cache) /\ now \in Nat
      BY <2>1 DEF OcspInv
    <2>3. /\ e = [result |-> cache.result, expires |-> cache.expires, inserted |-> now]
      BY <2>2 DEF Held
    <2>4. Honest(cache.result) /\ cache.result.this \in Nat
      BY <2>2 DEF Held, Honest
    <2>5. e.result = cache.result /\ e.expires = cache.expires /\ e.inserted = now
      BY <2>3
    <2>6. now <= cache.result.this + Ocsp!LongestLife
      BY <2>1, <2>2, <2>4, LongestLifeBounds DEF Held
    <2> HIDE DEF e
    <2>7. Held(e) /\ InTime(e)
      BY <2>2, <2>3, <2>5, <2>6 DEF Held, InTime
    <2>8. cache' = Ocsp!NoEntry \/ Held(cache')
      BY <2>1, <2>2
    <2> QED
      BY <2>1, <2>7, <2>8, AnswerInv
  <1>2. ASSUME NEW k \in Checks, Ocsp!Miss(k) PROVE OcspInv'
    BY <1>2 DEF Ocsp!Miss, OcspInv, Held, InTime, Honest
  <1>3. ASSUME NEW k \in Checks, Ocsp!Fail(k) PROVE OcspInv'
    <2>1. /\ phase' = [phase EXCEPT ![k] = "done"] /\ answer' = [answer EXCEPT ![k] = Ocsp!NoEntry]
          /\ UNCHANGED <<now, revokedAt, sent, cache>>
      BY <1>3 DEF Ocsp!Fail, Ocsp!Finish
    <2> QED
      BY <2>1, AnswerInv DEF OcspInv
  <1>4. ASSUME NEW k \in Checks, Ocsp!Store(k) PROVE OcspInv'
    <2>1. /\ phase[k] = "storing" /\ cache' = [answer[k] EXCEPT !.inserted = now]
          /\ phase' = [phase EXCEPT ![k] = "done"] /\ answer' = [answer EXCEPT ![k] = answer[k]]
          /\ UNCHANGED <<now, revokedAt, sent>>
      BY <1>4 DEF Ocsp!Store, Ocsp!Finish
    <2>2. Held(answer[k]) /\ InTime(answer[k])
      BY <2>1 DEF OcspInv
    <2>3. cache' = [result |-> answer[k].result, expires |-> answer[k].expires, inserted |-> now]
      BY <2>1, <2>2 DEF Held
    <2>4. cache'.result = answer[k].result /\ cache'.expires = answer[k].expires
      BY <2>3
    <2>5. Held(cache')
      BY <2>2, <2>3, <2>4 DEF Held
    <2> QED
      BY <2>1, <2>2, <2>5, AnswerInv
  <1>5. ASSUME NEW k \in Checks, Ocsp!Again(k) PROVE OcspInv'
    <2>1. /\ phase' = [phase EXCEPT ![k] = "idle"] /\ answer' = [answer EXCEPT ![k] = Ocsp!NoEntry]
          /\ UNCHANGED <<now, revokedAt, sent, cache>>
      BY <1>5 DEF Ocsp!Again
    <2> QED
      BY <2>1, AnswerInv DEF OcspInv
  <1>6. ASSUME NEW k \in Checks, NEW r \in sent \cup Ocsp!Forged, Ocsp!Receive(k, r) \/ Ocsp!CheckUncached(k, r)
        PROVE  OcspInv'
    <2>1. PICK t \in {Ocsp!Expiry(r), 0}, p \in {"storing", "done"} :
             /\ phase' = [phase EXCEPT ![k] = p]
             /\ answer' = [answer EXCEPT ![k] = [result |-> r, expires |-> t, inserted |-> now]]
             /\ UNCHANGED <<now, revokedAt, sent, cache>>
      BY <1>6 DEF Ocsp!Receive, Ocsp!CheckUncached, Ocsp!Finish, Ocsp!NoTime
    <2>2. Ocsp!Valid(r)
      BY <1>6 DEF Ocsp!Receive, Ocsp!CheckUncached
    <2>3. /\ Honest(r) /\ now <= r.this + Ocsp!LongestLife /\ r.this \in Nat /\ now \in Nat
          /\ t \in Nat /\ t <= r.this + Ocsp!LongestLife
      BY <2>2, ReceivedIsHeld, LongestLifeBounds DEF Honest, OcspInv
    <2> DEFINE e == [result |-> r, expires |-> t, inserted |-> now]
    <2>4. e.result = r /\ e.expires = t /\ e.inserted = now
      OBVIOUS
    <2>5. Held(e) /\ InTime(e)
      BY ONLY <2>3, <2>4 DEF Held, InTime
    <2>6. e # Ocsp!NoEntry
      BY <2>3, <2>4 DEF Ocsp!NoEntry, Ocsp!NoTime, OcspInv
    <2> HIDE DEF e
    <2> QED
      BY <2>1, <2>5, <2>6, AnswerInv DEF OcspInv, e
  <1>7. CASE Ocsp!ClearCache
    BY <1>7 DEF Ocsp!ClearCache, OcspInv, Held, InTime, Honest
  <1>8. ASSUME NEW key, NEW dated, Ocsp!Respond(key, dated) PROVE OcspInv'
    <2> DEFINE r == [Ocsp!Built EXCEPT !.id = key, !.by = key, !.certs = {c \in Embedded : c.key = key},
                                       !.next = IF dated THEN @ ELSE Ocsp!NoTime]
    <2>1. sent' = sent \cup {r} /\ UNCHANGED <<now, revokedAt, phase, answer, cache>>
      BY <1>8 DEF Ocsp!Respond
    <2>2. /\ r.this = now /\ r.next \in {Ocsp!NoTime, now + Validity}
          /\ r.status = "good" => revokedAt = Ocsp!NoTime
      BY DEF Ocsp!Built, Ocsp!Status
    <2> HIDE DEF r
    <2>3. Honest(r)
      BY <2>2 DEF Honest, OcspInv
    <2> QED
      BY <2>1, <2>3 DEF OcspInv, Held, InTime, Honest
  <1>9. CASE Ocsp!Revoke \/ Ocsp!Tick
    <2>1. /\ now' \in Nat \ {0} /\ now' >= now /\ revokedAt' \in Nat /\ revokedAt' <= now'
          /\ revokedAt' = revokedAt \/ (revokedAt = Ocsp!NoTime /\ revokedAt' >= now)
          /\ UNCHANGED <<sent, phase, answer, cache>>
      BY <1>9 DEF Ocsp!Revoke, Ocsp!Tick, OcspInv
    <2>2. \A r : Honest(r) => Honest(r)'
      BY <2>1, HonestLater
    <2>3. \A e : Held(e) => Held(e)'
      BY <2>2 DEF Held
    <2> QED
      BY <2>1, <2>2, <2>3 DEF OcspInv, InTime
  <1>10. CASE UNCHANGED ocspVars
    BY <1>10 DEF ocspVars, OcspInv, Held, InTime, Honest
  <1> QED
    BY <1>1, <1>2, <1>3, <1>4, <1>5, <1>6, <1>7, <1>8, <1>9, <1>10 DEF Ocsp!Next

\* What a call returns of a revoked certificate is "good" only for so long.
LEMMA OcspSurfaces == OcspInv => Ocsp!RevocationSurfaces
  <1> SUFFICES ASSUME OcspInv, NEW k \in Ocsp!Returned,
                      answer[k].result.status = "good", revokedAt # Ocsp!NoTime
               PROVE  answer[k].inserted <= revokedAt + Ocsp!LongestLife
    BY DEF Ocsp!RevocationSurfaces
  <1>1. k \in Checks /\ answer[k] # Ocsp!NoEntry
    BY DEF Ocsp!Returned
  <1>2. Held(answer[k]) /\ InTime(answer[k])
    BY <1>1 DEF OcspInv
  <1> DEFINE made == answer[k].result.this
  <1>3. made \in Nat /\ made <= revokedAt /\ revokedAt \in Nat
    BY <1>2 DEF Held, Honest, OcspInv
  <1>4. answer[k].inserted \in Nat /\ answer[k].inserted <= made + Ocsp!LongestLife
    BY <1>2 DEF InTime
  <1> HIDE DEF made
  <1> QED
    BY ONLY <1>3, <1>4, LongestLifeBounds

-----------------------------------------------------------------------------
\* A revocation surfaces in bounded time: a chain that validates under
\* hard_fail holds no certificate revoked longer ago than a list or an answer
\* is accepted (chain.rs, crl.rs), and the caching client calls none good for
\* longer than a response is valid plus the skew and the cache's lifetime,
\* although old responses come again and slow calls overwrite the cache
\* (ocsp.rs).
THEOREM RevocationSurfacesCorrect == MCSpec => []RevocationSurfaces
  <1> DEFINE Inv == ChainInv /\ RevokedSurfacesInChains /\ OcspInv
  <1>1. MCInit => Inv
    BY ChainInit, OcspInit DEF MCInit
  <1>2. Inv /\ [MCNext]_allVars => Inv'
    <2> SUFFICES ASSUME Inv, [MCNext]_allVars PROVE Inv'
      OBVIOUS
    <2>1. [Next]_vars /\ [Ocsp!Next]_ocspVars
      BY DEF MCNext, allVars
    <2> QED
      BY <2>1, ChainStep, OcspStep
  <1>3. Inv => RevocationSurfaces
    BY OcspSurfaces DEF RevocationSurfaces
  <1> QED
    BY <1>1, <1>2, <1>3, PTL DEF MCSpec

-----------------------------------------------------------------------------
(* Status lists.                                                          *)

\* A status of M values, at place P of a byte: what it is, and the byte with
\* another status there.
Read(b, M, P) == (b \div P) % M
Wrote(b, M, P, v) == b - Read(b, M, P) * P + v * P
Places(M) == IF M = 2 THEN {1, 2, 4, 8, 16, 32, 64, 128} ELSE IF M = 4 THEN {1, 4, 16, 64}
             ELSE IF M = 16 THEN {1, 16} ELSE {1}

\* Writing one status of a byte leaves the byte's others as they are.
LEMMA OnlyItsPlace ==
    ASSUME NEW M, NEW P, NEW b, NEW v,
           M \in {2, 4, 16, 256}, P \in Places(M), b \in 0 .. 255, v \in 0 .. M - 1
    PROVE  /\ Wrote(b, M, P, v) \in 0 .. 255
           /\ \A Q \in Places(M) : Read(Wrote(b, M, P, v), M, Q) = IF Q = P THEN v ELSE Read(b, M, Q)
  <1>1. CASE M = 2
    <2>1. CASE P = 1
      BY <1>1, <2>1, SMTT(200) DEF Places, Read, Wrote
    <2>2. CASE P = 2
      BY <1>1, <2>2, SMTT(200) DEF Places, Read, Wrote
    <2>3. CASE P = 4
      BY <1>1, <2>3, SMTT(200) DEF Places, Read, Wrote
    <2>4. CASE P = 8
      BY <1>1, <2>4, SMTT(200) DEF Places, Read, Wrote
    <2>5. CASE P = 16
      BY <1>1, <2>5, SMTT(200) DEF Places, Read, Wrote
    <2>6. CASE P = 32
      BY <1>1, <2>6, SMTT(200) DEF Places, Read, Wrote
    <2>7. CASE P = 64
      BY <1>1, <2>7, SMTT(200) DEF Places, Read, Wrote
    <2>8. CASE P = 128
      BY <1>1, <2>8, SMTT(200) DEF Places, Read, Wrote
    <2> QED
      BY <1>1, <2>1, <2>2, <2>3, <2>4, <2>5, <2>6, <2>7, <2>8 DEF Places
  <1>2. CASE M = 4
    <2>1. CASE P = 1
      BY <1>2, <2>1, SMTT(60) DEF Places, Read, Wrote
    <2>2. CASE P = 4
      BY <1>2, <2>2, SMTT(60) DEF Places, Read, Wrote
    <2>3. CASE P = 16
      BY <1>2, <2>3, SMTT(60) DEF Places, Read, Wrote
    <2>4. CASE P = 64
      BY <1>2, <2>4, SMTT(60) DEF Places, Read, Wrote
    <2> QED
      BY <1>2, <2>1, <2>2, <2>3, <2>4 DEF Places
  <1>3. CASE M = 16
    <2>1. CASE P = 1
      BY <1>3, <2>1, SMTT(60) DEF Places, Read, Wrote
    <2>2. CASE P = 16
      BY <1>3, <2>2, SMTT(60) DEF Places, Read, Wrote
    <2> QED
      BY <1>3, <2>1, <2>2 DEF Places
  <1>4. CASE M = 256
    <2>1. CASE P = 1
      BY <1>4, <2>1 DEF Places, Read, Wrote
    <2> QED
      BY <1>4, <2>1 DEF Places
  <1> QED
    BY <1>1, <1>2, <1>3, <1>4

\* How many values a status has, and its place in its byte.
Values == Statuses!Mask + 1
Place(i) == 2 ^ Statuses!Shift(i)
Room(n) == Statuses!ByteLen(n, bits) * IF bits = 0 THEN 8 ELSE 8 \div bits

\* Everything the bytes have room for reads as it was written, and as nothing
\* beyond the list's end, where a longer list may begin.
StatusInv ==
    /\ bits \in {0, 1, 2, 4, 8} /\ size \in Nat
    /\ bytes \in [1 .. Statuses!ByteLen(size, bits) -> 0 .. 255]
    /\ written \in [0 .. size - 1 -> Nat]
    /\ \A i \in 0 .. Room(size) - 1 :
          Statuses!Get(i) = IF i < size THEN written[i] ELSE 0

\* The places of a byte.
Power(k) == IF k = 0 THEN 1 ELSE IF k = 1 THEN 2 ELSE IF k = 2 THEN 4 ELSE IF k = 3 THEN 8
            ELSE IF k = 4 THEN 16 ELSE IF k = 5 THEN 32 ELSE IF k = 6 THEN 64 ELSE 128

\* A shift of at most seven places is a power of two from that table.
LEMMA Powers == ASSUME NEW k \in 0 .. 7 PROVE 2 ^ k = Power(k)
  <1>0. CASE k = 0
    BY <1>0 DEF Power
  <1>1. CASE k = 1
    BY <1>1 DEF Power
  <1>2. CASE k = 2
    BY <1>2 DEF Power
  <1>3. CASE k = 3
    BY <1>3 DEF Power
  <1>4. CASE k = 4
    BY <1>4 DEF Power
  <1>5. CASE k = 5
    BY <1>5 DEF Power
  <1>6. CASE k = 6
    BY <1>6 DEF Power
  <1>7. CASE k = 7
    BY <1>7 DEF Power
  <1> QED
    BY <1>0, <1>1, <1>2, <1>3, <1>4, <1>5, <1>6, <1>7

\* Statuses have places of their own in their byte.
LEMMA OwnPlaces ==
    ASSUME bits \in {0, 1, 2, 4, 8}, NEW i \in Nat
    PROVE  /\ Values \in {2, 4, 16, 256} /\ Place(i) \in Places(Values)
           /\ \A j \in Nat : Statuses!ByteIndex(j) = Statuses!ByteIndex(i) /\ Place(j) = Place(i) => j = i
  <1>1. Values = IF bits \in {0, 1} THEN 2 ELSE IF bits = 2 THEN 4 ELSE IF bits = 4 THEN 16 ELSE 256
    <2>0. CASE bits = 0
      BY <2>0 DEF Values, Statuses!Mask
    <2>1. CASE bits = 1
      BY <2>1 DEF Values, Statuses!Mask
    <2>2. CASE bits = 2
      BY <2>2 DEF Values, Statuses!Mask
    <2>3. CASE bits = 4
      BY <2>3 DEF Values, Statuses!Mask
    <2>4. CASE bits = 8
      BY <2>4 DEF Values, Statuses!Mask
    <2> QED
      BY <2>0, <2>1, <2>2, <2>3, <2>4
  <1>2. \A j \in Nat : /\ Statuses!Shift(j) \in 0 .. 7
                       /\ bits = 2 => Statuses!Shift(j) \in {0, 2, 4, 6}
                       /\ bits = 4 => Statuses!Shift(j) \in {0, 4}
                       /\ bits = 8 => Statuses!Shift(j) = 0
    BY DEF Statuses!Shift
  <1>3. ASSUME NEW j \in Nat, Statuses!ByteIndex(j) = Statuses!ByteIndex(i), Statuses!Shift(j) = Statuses!Shift(i)
        PROVE  j = i
    <2>1. CASE bits = 0
      BY <1>3, <2>1 DEF Statuses!Shift, Statuses!ByteIndex
    <2>2. CASE bits = 1
      BY <1>3, <2>2 DEF Statuses!Shift, Statuses!ByteIndex
    <2>3. CASE bits = 2
      BY <1>3, <2>3 DEF Statuses!Shift, Statuses!ByteIndex
    <2>4. CASE bits = 4
      BY <1>3, <2>4 DEF Statuses!Shift, Statuses!ByteIndex
    <2>5. CASE bits = 8
      BY <1>3, <2>5 DEF Statuses!Shift, Statuses!ByteIndex
    <2> QED
      BY <2>1, <2>2, <2>3, <2>4, <2>5
  <1>4. \A j \in Nat : Place(j) = Power(Statuses!Shift(j))
    BY <1>2, Powers DEF Place
  <1>5. \A k, l \in 0 .. 7 : Power(k) = Power(l) => k = l
    BY DEF Power
  <1>6. \A j \in Nat : Place(j) = Place(i) => Statuses!Shift(j) = Statuses!Shift(i)
    BY <1>2, <1>4, <1>5
  <1>7. Place(i) \in Places(Values)
    BY <1>1, <1>2, <1>4 DEF Power, Places
  <1>8. Values \in {2, 4, 16, 256}
    BY <1>1
  <1> QED
    BY <1>3, <1>6, <1>7, <1>8

\* A list has bytes enough, and each status a byte.
LEMMA RoomEnough ==
    ASSUME bits \in {0, 1, 2, 4, 8}, NEW n \in Nat
    PROVE  /\ Statuses!ByteLen(n, bits) \in Nat /\ Room(n) \in Nat /\ n <= Room(n)
           /\ \A i \in Nat : /\ Statuses!ByteIndex(i) \in Nat
                             /\ i < Room(n) => Statuses!ByteIndex(i) + 1 \in 1 .. Statuses!ByteLen(n, bits)
  <1>1. CASE bits = 0
    BY <1>1 DEF Room, Statuses!ByteLen, Statuses!ByteIndex
  <1>2. CASE bits = 1
    BY <1>2 DEF Room, Statuses!ByteLen, Statuses!ByteIndex
  <1>3. CASE bits = 2
    BY <1>3 DEF Room, Statuses!ByteLen, Statuses!ByteIndex
  <1>4. CASE bits = 4
    BY <1>4 DEF Room, Statuses!ByteLen, Statuses!ByteIndex
  <1>5. CASE bits = 8
    BY <1>5 DEF Room, Statuses!ByteLen, Statuses!ByteIndex
  <1> QED
    BY <1>1, <1>2, <1>3, <1>4, <1>5

\* A status is written.
LEMMA SetInv ==
    ASSUME StatusInv, NEW i \in 0 .. size - 1, NEW s \in Written, Statuses!Set(i, s)
    PROVE  StatusInv'
  <1> DEFINE n == Statuses!ByteLen(size, bits)
             at == Statuses!ByteIndex(i) + 1
             byte == Wrote(bytes[at], Values, Place(i), s)
  <1>1. /\ bits \in {0, 1, 2, 4, 8} /\ size \in Nat /\ i \in Nat /\ s \in Nat
        /\ bytes \in [1 .. n -> 0 .. 255] /\ written \in [0 .. size - 1 -> Nat]
    BY StatusAssumption DEF StatusInv
  <1>2. /\ bits' = bits /\ size' = size /\ s <= Statuses!Mask
        /\ written' = [written EXCEPT ![i] = s]
        /\ bytes' = [bytes EXCEPT ![at] = bytes[at] - Statuses!Get(i) * Place(i) + s * Place(i)]
    BY DEF Statuses!Set, Place
  <1>3. \A j : Statuses!Get(j) = Read(bytes[Statuses!ByteIndex(j) + 1], Values, Place(j))
    BY DEF Statuses!Get, Read, Values, Place
  <1>4. \A j : Statuses!Get(j)' = Read(bytes'[Statuses!ByteIndex(j) + 1], Values, Place(j))
    BY <1>2 DEF Statuses!Get, Read, Values, Place, Statuses!Mask, Statuses!Shift, Statuses!ByteIndex
  <1>5. at \in 1 .. n /\ bytes[at] \in 0 .. 255
    <2>1. Room(size) \in Nat /\ size <= Room(size)
      BY <1>1, RoomEnough
    <2>2. i < Room(size)
      BY <2>1, <1>1
    <2>3. at \in 1 .. n
      BY <2>2, <1>1, RoomEnough
    <2> HIDE DEF at, n
    <2> QED
      BY <2>3, <1>1
  <1>6. bytes' = [bytes EXCEPT ![at] = byte]
    BY <1>2, <1>3 DEF Wrote
  <1>7. Values \in {2, 4, 16, 256} /\ Place(i) \in Places(Values) /\ s \in 0 .. Values - 1
    <2>1. Values \in {2, 4, 16, 256} /\ Place(i) \in Places(Values)
      BY <1>1, OwnPlaces
    <2>2. Statuses!Mask = Values - 1
      <3>1. Statuses!Mask \in Int
        BY <1>1 DEF Statuses!Mask
      <3> QED
        BY <3>1 DEF Values
    <2> QED
      BY <2>1, <2>2, <1>1, <1>2
  <1> HIDE DEF n, at
  <1>8. /\ byte \in 0 .. 255
        /\ \A Q \in Places(Values) : Read(byte, Values, Q) = IF Q = Place(i) THEN s ELSE Read(bytes[at], Values, Q)
    BY <1>5, <1>7, OnlyItsPlace
  <1> HIDE DEF byte
  <1>9. /\ bytes' \in [1 .. n -> 0 .. 255] /\ bytes'[at] = byte
        /\ \A k \in 1 .. n : k # at => bytes'[k] = bytes[k]
    BY <1>1, <1>5, <1>6, <1>8
  <1>10. ASSUME NEW j \in 0 .. Room(size) - 1
         PROVE  Statuses!Get(j)' = IF j = i THEN s ELSE Statuses!Get(j)
    <2>1. /\ n \in Nat /\ j \in Nat /\ Statuses!ByteIndex(j) \in Nat
          /\ Statuses!ByteIndex(j) + 1 \in 1 .. n
      <3>1. Room(size) \in Nat
        BY <1>1, RoomEnough
      <3>2. j \in Nat /\ j < Room(size)
        BY <3>1
      <3> QED
        BY <3>2, <1>1, RoomEnough DEF n
    <2>2. CASE Statuses!ByteIndex(j) + 1 # at
      <3>1. j # i
        BY <2>2 DEF at
      <3> QED
        BY <2>1, <2>2, <3>1, <1>3, <1>4, <1>9
    <2>3. CASE Statuses!ByteIndex(j) + 1 = at
      <3>1. Place(j) \in Places(Values) /\ (Place(j) = Place(i) => j = i)
        <4>1. Statuses!ByteIndex(i) \in Nat
          BY <1>1, RoomEnough
        <4>2. Statuses!ByteIndex(j) = Statuses!ByteIndex(i)
          BY <4>1, <2>1, <2>3 DEF at
        <4> QED
          BY <4>2, <1>1, <2>1, OwnPlaces
      <3> QED
        BY <3>1, <2>3, <1>3, <1>4, <1>8, <1>9
    <2> QED
      BY <2>2, <2>3
  <1>11. /\ Statuses!ByteLen(size, bits)' = n /\ Room(size)' = Room(size)
    BY <1>2 DEF n, Room, Statuses!ByteLen
  <1>12. written' \in [0 .. size - 1 -> Nat]
    BY <1>1, <1>2
  <1>13. ASSUME NEW j \in 0 .. Room(size) - 1
         PROVE  Statuses!Get(j)' = IF j < size THEN written'[j] ELSE 0
    <2>1. Statuses!Get(j) = IF j < size THEN written[j] ELSE 0
      BY <1>13 DEF StatusInv, n
    <2> QED
      BY <2>1, <1>1, <1>2, <1>10
  <1> QED
    BY <1>1, <1>2, <1>9, <1>11, <1>12, <1>13 DEF StatusInv

\* A list is read back, perhaps as a longer one of as many bytes.
LEMMA ReloadInv ==
    ASSUME StatusInv, NEW n \in Sizes, n >= size, Statuses!Reload(n)
    PROVE  StatusInv'
  <1>1. /\ bits \in {0, 1, 2, 4, 8} /\ size \in Nat /\ n \in Nat /\ n >= size
        /\ bytes \in [1 .. Statuses!ByteLen(size, bits) -> 0 .. 255] /\ written \in [0 .. size - 1 -> Nat]
    BY StatusAssumption DEF StatusInv
  <1>2. /\ Statuses!ByteLen(n, bits) = Len(bytes)
        /\ size' = n /\ bytes' = bytes /\ bits' = bits
        /\ written' = [i \in 0 .. n - 1 |-> IF i < size THEN written[i] ELSE 0]
    BY DEF Statuses!Reload
  <1>3. Len(bytes) = Statuses!ByteLen(size, bits)
    <2>1. Statuses!ByteLen(size, bits) \in Nat
      BY <1>1, RoomEnough
    <2> QED
      BY <1>1, <2>1
  <1>4. Statuses!ByteLen(size, bits)' = Statuses!ByteLen(size, bits) /\ Room(size)' = Room(size)
    BY <1>2, <1>3 DEF Room, Statuses!ByteLen
  <1>5. \A i : Statuses!Get(i)' = Statuses!Get(i)
    BY <1>2 DEF Statuses!Get, Statuses!Mask, Statuses!Shift, Statuses!ByteIndex
  <1>6. written' \in [0 .. n - 1 -> Nat]
    BY <1>1, <1>2
  <1>7. ASSUME NEW i \in 0 .. Room(size) - 1
        PROVE  Statuses!Get(i) = IF i < n THEN written'[i] ELSE 0
    <2>1. Statuses!Get(i) = IF i < size THEN written[i] ELSE 0
      BY <1>7 DEF StatusInv
    <2>2. i \in Nat
      OBVIOUS
    <2> QED
      BY <2>1, <2>2, <1>1, <1>2
  <1> QED
    BY <1>1, <1>2, <1>4, <1>5, <1>6, <1>7 DEF StatusInv

\* A new list is all zero.
LEMMA StatusInit == Statuses!Init => StatusInv
  <1> SUFFICES ASSUME Statuses!Init PROVE StatusInv
    OBVIOUS
  <1>1. /\ bits \in {0, 1, 2, 4, 8} /\ size \in Nat
        /\ bytes = [k \in 1 .. Statuses!ByteLen(size, bits) |-> 0]
        /\ written = [i \in 0 .. size - 1 |-> 0]
    BY StatusAssumption DEF Statuses!Init
  <1>2. ASSUME NEW i \in 0 .. Room(size) - 1
        PROVE  Statuses!Get(i) = IF i < size THEN written[i] ELSE 0
    <2>1. Room(size) \in Nat
      BY <1>1, RoomEnough
    <2>2. i \in Nat /\ i < Room(size)
      BY <2>1
    <2>3. bytes[Statuses!ByteIndex(i) + 1] = 0
      <3>1. Statuses!ByteIndex(i) + 1 \in 1 .. Statuses!ByteLen(size, bits)
        BY <1>1, <2>2, RoomEnough
      <3> QED
        BY <1>1, <3>1
    <2>4. \A M \in {2, 4, 16, 256} : \A P \in Places(M) : Read(0, M, P) = 0
      BY DEF Read, Places
    <2>5. Statuses!Get(i) = Read(0, Values, Place(i))
      BY <2>3 DEF Statuses!Get, Read, Values, Place
    <2>6. Statuses!Get(i) = 0
      BY <1>1, <2>2, <2>4, <2>5, OwnPlaces
    <2> QED
      BY <1>1, <2>2, <2>6
  <1> QED
    BY <1>1, <1>2 DEF StatusInv

\* Writing a status changes no other, at any width and in lists of any size,
\* also after a list was encoded and read back, longer in as many bytes
\* (marty-status, TokenStatusList, BitstringStatusList).
THEOREM StatusesCorrect == Statuses!Spec => []StatusesIndependent
  <1>1. StatusInv /\ [Statuses!Next]_Statuses!vars => StatusInv'
    <2> SUFFICES ASSUME StatusInv, [Statuses!Next]_Statuses!vars PROVE StatusInv'
      OBVIOUS
    <2>1. CASE UNCHANGED <<bytes, size, bits, written>>
      BY <2>1 DEF StatusInv, Room, Statuses!ByteLen, Statuses!Get, Statuses!Mask, Statuses!Shift, Statuses!ByteIndex
    <2> QED
      BY <2>1, SetInv, ReloadInv DEF Statuses!Next, Statuses!vars
  <1>2. StatusInv => StatusesIndependent
    <2> SUFFICES ASSUME StatusInv, NEW i \in 0 .. size - 1 PROVE Statuses!Get(i) = written[i]
      BY DEF StatusesIndependent, Statuses!StatusesIndependent
    <2>1. i \in 0 .. Room(size) - 1 /\ i < size
      <3>1. /\ size \in Nat /\ size <= Room(size)
            /\ Room(size) \in Nat
        BY RoomEnough DEF StatusInv
      <3> QED
        BY <3>1
    <2> QED
      BY <2>1 DEF StatusInv
  <1> QED
    BY <1>1, <1>2, StatusInit, PTL DEF Statuses!Spec

-----------------------------------------------------------------------------
(* Synchronisation: what is stored was the registry's while it was read.   *)

\* What certificates of entries, entries and pages can be.
Listed == [until : Nat, profile : BOOLEAN]
Change == [id : EntryIds, op : {"ADD", "REMOVE"}, cert : Listed]
PageForm == [token : [since : Int, upto : Int, first : Int, sent : SUBSET EntryIds], sequence : Nat,
             entries : Seq(Change), more : BOOLEAN]

SyncTyped ==
    /\ hour \in Nat
    /\ history \in Seq([EntryIds -> Listed]) /\ history # <<>>
    /\ state.token \in [since : Int, upto : Int, first : Int, sent : SUBSET EntryIds]

\* An entry is as the registry had it at some sequence between two.
Had(i, cert, a, b) == \E p \in a .. b : cert = history[p + 1][i]

\* What is stored was the registry's, at sequences the token tells.
StoredFaithful ==
    state.token # Sync!NoToken =>
        /\ state.sequence \in 0 .. Len(history) - 1
        /\ state.token.since \in 0 .. state.sequence
        /\ state.token.upto = state.sequence
        /\ \A i \in EntryIds : Had(i, state.entries[i], state.token.since, state.sequence)
StoredToken == state.token.first = -1 /\ state.token.sent = {}

\* A page has the entries of the registry at its sequence.
Tells(f) ==
    /\ f.sequence \in 0 .. Len(history) - 1
    /\ \A n \in 1 .. Len(f.entries) : f.entries[n].cert = history[f.sequence + 1][f.entries[n].id]
Names(f, i) == \E n \in 1 .. Len(f.entries) : f.entries[n].id = i

\* The pages so far: their token goes on from the one stored, their sequences
\* rise from the first's, and all that the token says was sent is in them.
PagesTell ==
    /\ pages \in Seq(PageForm)
    /\ \A k \in 1 .. Len(pages) : Tells(pages[k])
    /\ pages # <<>> =>
        LET f == pages[Len(pages)] IN
        /\ f.token.since = state.token.since /\ f.token.upto = state.token.upto /\ f.more
        /\ f.token.first \in Nat
        /\ \A k \in 1 .. Len(pages) : f.token.first <= pages[k].sequence /\ pages[k].sequence <= f.sequence
        /\ \A i \in f.token.sent : \E k \in 1 .. Len(pages) : Names(pages[k], i)

SyncInv == SyncTyped /\ StoredFaithful /\ StoredToken /\ PagesTell

\* The image of a finite set is finite.
LEMMA FiniteImage ==
    ASSUME NEW S, IsFiniteSet(S), NEW f
    PROVE  IsFiniteSet({f[x] : x \in S})
<1> DEFINE T == {f[x] : x \in S}
           g == [x \in S |-> f[x]]
<1>1. g \in Surjection(S, T)
  BY DEF Surjection
<1> HIDE DEF g, T
<1>2. IsFiniteSet(T)
  BY <1>1, FS_Surjection
<1> QED
  BY <1>2 DEF T

\* A finite set as a sequence has all its elements.
LEMMA SeqOfSet ==
    ASSUME NEW S, IsFiniteSet(S)
    PROVE  /\ Sync!SetToSeq(S) \in Seq(S)
           /\ \A x \in S : \E m \in 1 .. Len(Sync!SetToSeq(S)) : Sync!SetToSeq(S)[m] = x
<1> DEFINE n == Cardinality(S)
           q == Sync!SetToSeq(S)
<1>1. n \in Nat /\ ExistsBijection(1 .. n, S)
  BY FS_CardinalityType
<1>2. PICK g \in Bijection(1 .. n, S) : TRUE
  BY <1>1 DEF ExistsBijection
<1>3. g \in [1 .. n -> S] /\ Sync!IsInjective(g)
  BY <1>2 DEF Bijection, Injection, IsInjective, Sync!IsInjective
<1>4. n = Sync!Cardinality(S)
  BY Zenon DEF Sync!Cardinality, Cardinality
<1>5. q \in [1 .. n -> S] /\ Sync!IsInjective(q)
  <2>1. q = CHOOSE f \in [1 .. n -> S] : Sync!IsInjective(f)
    BY <1>4, Zenon DEF Sync!SetToSeq
  <2> HIDE DEF q, n
  <2> QED BY <1>3, <2>1
<1> HIDE DEF q, n
<1>6. q \in Surjection(1 .. n, S)
  <2>1. q \in Injection(1 .. n, S)
    BY <1>5 DEF Injection, IsInjective, Sync!IsInjective
  <2>2. Cardinality(1 .. n) = n
    BY <1>1, FS_Interval
  <2>3. Cardinality(1 .. n) = Cardinality(S)
    BY <2>2 DEF n
  <2> QED
    BY <2>1, <2>3, FS_Injection
<1>7. q \in Seq(S) /\ Len(q) = n
  BY <1>1, <1>5
<1>8. \A x \in S : \E m \in 1 .. n : q[m] = x
  BY <1>6 DEF Surjection
<1> QED
  BY <1>7, <1>8 DEF q

\* A set of naturals that is not empty has a least element.
LEMMA Least ==
    ASSUME NEW S, S \subseteq Nat, S # {}
    PROVE  \E x \in S : \A y \in S : x <= y
<1> DEFINE Below == {ss \in Nat \X Nat : ss[1] < ss[2]}
<1>1. OpToRel(<, Nat) = Below
  BY Zenon DEF OpToRel
<1>2. PICK x \in S : \A y \in S : <<y, x>> \notin Below
  <2> HIDE DEF Below
  <2> QED BY <1>1, WFMin, NatLessThanWellFounded, Zenon
<1>3. ASSUME NEW y \in S PROVE x <= y
  <2>1. x \in Nat /\ y \in Nat
    OBVIOUS
  <2>2. ~(y < x)
    BY <1>2, <2>1
  <2> QED
    BY <2>1, <2>2
<1> QED
  BY <1>3

\* There are finitely many changes.
LEMMA ChangesFinite ==
    ASSUME NEW held, NEW to
    PROVE  IsFiniteSet(Sync!Changes(held, to))
<1> DEFINE J == {j \in EntryIds : \E h \in held : to[j] # h[j]}
           f == [i \in J |-> [id |-> i, op |-> IF to[i] = Sync!Absent THEN "REMOVE" ELSE "ADD", cert |-> to[i]]]
<1>1. IsFiniteSet(J)
  BY SyncAssumption, FS_Subset
<1>2. Sync!Changes(held, to) = {f[i] : i \in J}
  BY DEF Sync!Changes
<1> HIDE DEF f, J
<1>3. IsFiniteSet({f[i] : i \in J})
  BY <1>1, FiniteImage
<1> QED
  BY <1>2, <1>3

\* A change makes an entry what it is to be, and whatever may differ has one.
LEMMA ChangeIs ==
    ASSUME NEW held, NEW to \in [EntryIds -> Listed]
    PROVE  /\ \A c \in Sync!Changes(held, to) : c \in Change /\ c.cert = to[c.id]
           /\ \A i \in EntryIds : (\E h \in held : to[i] # h[i]) => \E c \in Sync!Changes(held, to) : c.id = i
<1>1. ASSUME NEW c \in Sync!Changes(held, to)
      PROVE  c \in Change /\ c.cert = to[c.id]
  <2>1. PICK i \in EntryIds :
            c = [id |-> i, op |-> IF to[i] = Sync!Absent THEN "REMOVE" ELSE "ADD", cert |-> to[i]]
    BY DEF Sync!Changes
  <2>2. c.id = i /\ c.cert = to[i] /\ to[i] \in Listed
    BY <2>1
  <2>3. c \in Change
    BY <2>1, <2>2 DEF Change
  <2> QED
    BY <2>2, <2>3
<1>2. ASSUME NEW i \in EntryIds, \E h \in held : to[i] # h[i]
      PROVE  \E c \in Sync!Changes(held, to) : c.id = i
  <2> DEFINE c == [id |-> i, op |-> IF to[i] = Sync!Absent THEN "REMOVE" ELSE "ADD", cert |-> to[i]]
  <2>1. c \in Sync!Changes(held, to)
    BY <1>2 DEF Sync!Changes
  <2>2. c.id = i
    OBVIOUS
  <2> QED
    BY <2>1, <2>2
<1> QED
  BY <1>1, <1>2

\* The page for the client's token tells what the registry had, and with the
\* last one everything that may differ has been sent.
LEMMA PageIs ==
    ASSUME SyncInv, NEW q \in 0 .. Len(history) - 1, NEW t, t = Sync!CurrentToken, NEW f, f = Sync!Page(t, q),
           NEW first, first = IF t.first = -1 THEN q ELSE t.first
    PROVE  /\ f \in PageForm /\ Tells(f) /\ f.sequence = q
           /\ f.more => /\ f.token.since = t.since /\ f.token.upto = t.upto /\ f.token.first = first
                        /\ \A i \in f.token.sent : i \in t.sent \/ Names(f, i)
           /\ ~f.more => /\ f.token = Sync!Token(first, q, -1, {})
                         /\ \A i \in EntryIds : (\E h \in Sync!Held(t) : history[q + 1][i] # h[i])
                                                => i \in t.sent \/ Names(f, i)
<1> DEFINE to == history[q + 1]
           changes == Sync!Changes(Sync!Held(t), to)
           L == {c \in changes : c.id \notin t.sent}
           left == Sync!SetToSeq(L)
<1>1. t \in [since : Int, upto : Int, first : Int, sent : SUBSET EntryIds]
  <2>1. CASE pages = <<>>
    BY <2>1 DEF Sync!CurrentToken, SyncInv, SyncTyped
  <2>2. CASE pages # <<>>
    <3>1. pages[Len(pages)] \in PageForm
      BY <2>2 DEF SyncInv, PagesTell
    <3> QED
      BY <2>2, <3>1 DEF Sync!CurrentToken, PageForm
  <2> QED
    BY <2>1, <2>2
<1>2. to \in [EntryIds -> Listed] /\ q \in Nat /\ first \in Int
  BY <1>1 DEF SyncInv, SyncTyped
<1>3. IsFiniteSet(L)
  <2>1. IsFiniteSet(changes)
    BY ChangesFinite
  <2> QED
    BY <2>1, FS_Subset
<1>4. /\ \A c \in changes : c \in Change /\ c.cert = to[c.id]
      /\ \A i \in EntryIds : (\E h \in Sync!Held(t) : to[i] # h[i]) => \E c \in changes : c.id = i
  <2> HIDE DEF to
  <2> QED BY <1>2, ChangeIs
<1>5. /\ left \in Seq(L)
      /\ \A x \in L : \E m \in 1 .. Len(left) : left[m] = x
  <2> HIDE DEF L
  <2> QED BY <1>3, SeqOfSet
<1>6. /\ f = IF Len(left) <= PageSize
             THEN [token |-> Sync!Token(first, q, -1, {}), sequence |-> q, entries |-> left, more |-> FALSE]
             ELSE [token |-> Sync!Token(t.since, t.upto, first, t.sent \cup {left[k].id : k \in 1 .. PageSize}),
                   sequence |-> q, entries |-> SubSeq(left, 1, PageSize), more |-> TRUE]
  BY Zenon DEF Sync!Page
<1> HIDE DEF left
<1>7. left \in Seq(Change) /\ \A m \in 1 .. Len(left) : left[m] \in Change /\ left[m].cert = to[left[m].id]
  <2>1. \A m \in 1 .. Len(left) : left[m] \in L
    BY <1>5
  <2>2. \A m \in 1 .. Len(left) : left[m] \in Change /\ left[m].cert = to[left[m].id]
    BY <2>1, <1>4
  <2>3. Len(left) \in Nat /\ left \in [1 .. Len(left) -> L]
    BY <1>5
  <2> HIDE DEF L
  <2>4. left \in [1 .. Len(left) -> Change]
    BY <2>2, <2>3
  <2> QED
    BY <2>2, <2>3, <2>4
<1>8. CASE Len(left) <= PageSize
  <2>1. /\ f.token = Sync!Token(first, q, -1, {}) /\ f.sequence = q /\ f.entries = left /\ ~f.more
        /\ f = [token |-> Sync!Token(first, q, -1, {}), sequence |-> q, entries |-> left, more |-> FALSE]
    BY <1>6, <1>8
  <2>2. f \in PageForm
    BY <1>2, <1>7, <2>1 DEF PageForm, Sync!Token
  <2>3. Tells(f)
    BY <1>7, <2>1 DEF Tells
  <2>4. ASSUME NEW i \in EntryIds, \E h \in Sync!Held(t) : to[i] # h[i], i \notin t.sent
        PROVE  Names(f, i)
    <3>1. PICK c \in changes : c.id = i
      BY <1>4, <2>4
    <3>2. c \in L
      BY <2>4, <3>1
    <3> QED
      BY <1>5, <2>1, <3>1, <3>2 DEF Names
  <2> QED
    BY <2>1, <2>2, <2>3, <2>4
<1>9. CASE ~(Len(left) <= PageSize)
  <2> DEFINE s == SubSeq(left, 1, PageSize)
  <2>1. /\ f.token = Sync!Token(t.since, t.upto, first, t.sent \cup {left[k].id : k \in 1 .. PageSize})
        /\ f.sequence = q /\ f.entries = s /\ f.more
        /\ f = [token |-> Sync!Token(t.since, t.upto, first, t.sent \cup {left[k].id : k \in 1 .. PageSize}),
                sequence |-> q, entries |-> s, more |-> TRUE]
    <3>1. f = [token |-> Sync!Token(t.since, t.upto, first, t.sent \cup {left[k].id : k \in 1 .. PageSize}),
               sequence |-> q, entries |-> s, more |-> TRUE]
      BY <1>6, <1>9, Zenon
    <3> HIDE DEF s
    <3> QED
      BY <3>1
  <2>2. PageSize \in Nat /\ Len(left) \in Nat /\ PageSize < Len(left)
    BY <1>7, <1>9, SyncAssumption
  <2>3. s \in Seq(Change) /\ Len(s) = PageSize /\ \A m \in 1 .. PageSize : s[m] = left[m] /\ m \in 1 .. Len(left)
    BY <1>7, <2>2
  <2> HIDE DEF s
  <2>4. {left[k].id : k \in 1 .. PageSize} \subseteq EntryIds
    BY <1>7, <2>3 DEF Change
  <2>5. f \in PageForm
    BY <1>1, <1>2, <2>1, <2>3, <2>4 DEF PageForm, Sync!Token
  <2>6. Tells(f)
    BY <1>7, <2>1, <2>3 DEF Tells
  <2>7. f.token.since = t.since /\ f.token.upto = t.upto /\ f.token.first = first
        /\ f.token.sent = t.sent \cup {left[k].id : k \in 1 .. PageSize}
    BY <2>1 DEF Sync!Token
  <2>8. ASSUME NEW i \in f.token.sent, i \notin t.sent PROVE Names(f, i)
    <3>1. PICK k \in 1 .. PageSize : i = left[k].id
      BY <2>7, <2>8
    <3> QED
      BY <2>1, <2>3, <3>1 DEF Names
  <2> QED
    BY <2>1, <2>5, <2>6, <2>7, <2>8
<1> QED
  BY <1>8, <1>9

\* What is read without failure does not go back in sequence.
LEMMA NoRollback ==
    ASSUME pages \in Seq(PageForm), NEW f \in PageForm, pages # <<>>,
           Sync!EvaluatePages(Append(pages, f)).failure = "none"
    PROVE  pages[Len(pages)].sequence <= f.sequence
<1> DEFINE all == Append(pages, f)
           initial == state.token = Sync!NoToken
           failing == {k \in DOMAIN all : Sync!FailureOf(all, k, initial) # "none"}
           n == Len(pages) + 1
<1>1. /\ all \in Seq(PageForm) /\ Len(all) = n /\ all[n] = f /\ n \in DOMAIN all /\ n \in Nat /\ n > 1
      /\ all[n - 1] = pages[Len(pages)] /\ DOMAIN all \subseteq Nat /\ pages[Len(pages)] \in PageForm
  OBVIOUS
<1>2. all[n].sequence \in Nat /\ all[n - 1].sequence \in Nat
  <2>1. \A g \in PageForm : g.sequence \in Nat
    BY DEF PageForm
  <2> HIDE DEF all, n
  <2> QED
    BY <1>1, <2>1
<1> HIDE DEF all
<1>3. failing = {}
  <2> SUFFICES ASSUME failing # {} PROVE FALSE
    OBVIOUS
  <2>1. \E x \in failing : \A y \in failing : x <= y
    <3>1. failing \subseteq Nat
      BY <1>1
    <3> HIDE DEF failing
    <3> QED BY <3>1, Least
  <2>2. Sync!Min(failing) \in failing
    <3> HIDE DEF failing
    <3> QED BY <2>1 DEF Sync!Min
  <2>3. Sync!FailureOf(all, Sync!Min(failing), initial) # "none"
    BY <2>2
  <2>4. Sync!EvaluatePages(all).failure = Sync!FailureOf(all, Sync!Min(failing), initial)
    BY DEF Sync!EvaluatePages
  <2> QED
    BY <2>3, <2>4 DEF all
<1>4. Sync!FailureOf(all, n, initial) = "none"
  BY <1>1, <1>3
<1>5. Sync!PageFailure(all, n, initial) = "none"
  BY <1>4, Zenon DEF Sync!FailureOf
<1>6. ~(all[n].sequence < (IF n = 1 THEN state.sequence ELSE all[n - 1].sequence))
  BY <1>5 DEF Sync!PageFailure
<1> QED
  BY <1>1, <1>2, <1>6

LEMMA SyncInit ==
    Sync!Init => SyncInv
<1> SUFFICES ASSUME Sync!Init PROVE SyncInv
  OBVIOUS
<1>1. SyncTyped
  <2>1. Sync!NoEntries \in [EntryIds -> Listed]
    BY DEF Sync!NoEntries, Sync!Absent, Listed
  <2>2. state.token = [since |-> -1, upto |-> -1, first |-> -1, sent |-> {}]
    BY DEF Sync!Init, Sync!NoToken, Sync!Token
  <2> QED
    BY <2>1, <2>2 DEF Sync!Init, SyncTyped
<1>2. StoredFaithful /\ StoredToken
  BY DEF Sync!Init, StoredFaithful, StoredToken, Sync!NoToken, Sync!Token
<1>3. PagesTell
  BY DEF Sync!Init, PagesTell
<1> QED
  BY <1>1, <1>2, <1>3 DEF SyncInv

\* What was the registry's stays so while it publishes.
LEMMA HistoryGrows ==
    ASSUME SyncInv, NEW e \in [EntryIds -> Listed], history' = Append(history, e),
           UNCHANGED <<hour, state, pages>>
    PROVE  SyncInv'
<1>1. SyncTyped'
  BY DEF SyncInv, SyncTyped
<1>2. /\ Len(history') = Len(history) + 1 /\ Len(history) \in Nat
      /\ \A q \in 0 .. Len(history) - 1 : history'[q + 1] = history[q + 1]
  BY DEF SyncInv, SyncTyped
<1>3. StoredFaithful' /\ StoredToken'
  <2> SUFFICES ASSUME state.token # Sync!NoToken PROVE StoredFaithful'
    BY DEF SyncInv, StoredToken, StoredFaithful
  <2>1. /\ state.sequence \in 0 .. Len(history) - 1 /\ state.token.since \in 0 .. state.sequence
        /\ state.token.upto = state.sequence
        /\ \A i \in EntryIds : Had(i, state.entries[i], state.token.since, state.sequence)
    BY DEF SyncInv, StoredFaithful
  <2>2. ASSUME NEW i \in EntryIds
        PROVE  \E p \in state.token.since .. state.sequence : state.entries[i] = history'[p + 1][i]
    <3>1. PICK p \in state.token.since .. state.sequence : state.entries[i] = history[p + 1][i]
      BY <2>1 DEF Had
    <3>2. p \in 0 .. Len(history) - 1
      BY <1>2, <2>1
    <3> QED
      BY <1>2, <3>1, <3>2
  <2> QED
    BY <1>2, <2>1, <2>2 DEF StoredFaithful, Had
<1>4. PagesTell'
  <2>1. ASSUME NEW k \in 1 .. Len(pages) PROVE Tells(pages[k])'
    BY <1>2 DEF SyncInv, PagesTell, Tells
  <2> QED
    BY <2>1 DEF SyncInv, PagesTell, Names
<1> QED
  BY <1>1, <1>3, <1>4 DEF SyncInv

\* The pages so far are given up, and nothing is stored.
LEMMA PagesDropped ==
    ASSUME SyncInv, pages' = <<>>, UNCHANGED <<hour, history, state>>
    PROVE  SyncInv'
<1>1. SyncTyped' /\ StoredFaithful' /\ StoredToken' /\ PagesTell'
  BY DEF SyncInv, SyncTyped, StoredFaithful, StoredToken, PagesTell, Had
<1> QED
  BY <1>1 DEF SyncInv

\* A page that is not older than the one before it is kept.
LEMMA PagesKept ==
    ASSUME SyncInv, NEW f \in PageForm, Tells(f), f.more,
           pages' = Append(pages, f), UNCHANGED <<hour, history, state>>,
           f.token.since = state.token.since, f.token.upto = state.token.upto,
           f.token.first \in Nat, f.token.first <= f.sequence,
           pages # <<>> => /\ pages[Len(pages)].sequence <= f.sequence
                           /\ f.token.first = pages[Len(pages)].token.first,
           \A i \in f.token.sent : (pages # <<>> /\ i \in pages[Len(pages)].token.sent) \/ Names(f, i)
    PROVE  SyncInv'
<1>1. SyncTyped' /\ StoredFaithful' /\ StoredToken'
  BY DEF SyncInv, SyncTyped, StoredFaithful, StoredToken, Had
<1>2. pages \in Seq(PageForm) /\ \A k \in 1 .. Len(pages) : Tells(pages[k]) /\ pages[k] \in PageForm
  BY DEF SyncInv, PagesTell
<1>3. /\ pages' \in Seq(PageForm) /\ Len(pages') = Len(pages) + 1 /\ pages'[Len(pages')] = f
      /\ Len(pages) \in Nat /\ \A k \in 1 .. Len(pages) : pages'[k] = pages[k]
      /\ pages' # <<>> /\ \A k \in 1 .. Len(pages') : k \in 1 .. Len(pages) \/ k = Len(pages')
  BY <1>2
<1>4. ASSUME NEW k \in 1 .. Len(pages') PROVE Tells(pages[k])'
  BY <1>2, <1>3 DEF Tells
<1>5. ASSUME NEW k \in 1 .. Len(pages')
      PROVE  f.token.first <= pages'[k].sequence /\ pages'[k].sequence <= f.sequence
  <2>0. f.sequence \in Nat
    BY DEF PageForm
  <2>1. CASE k = Len(pages')
    BY <1>3, <2>0, <2>1
  <2>2. CASE k \in 1 .. Len(pages)
    <3>1. pages # <<>> /\ pages'[k] = pages[k] /\ pages[k].sequence \in Nat /\ pages[Len(pages)].sequence \in Nat
      <4>1. \A g \in PageForm : g.sequence \in Nat
        BY DEF PageForm
      <4>2. pages # <<>> /\ Len(pages) \in 1 .. Len(pages)
        BY <1>2, <1>3, <2>2
      <4> QED
        BY <1>2, <1>3, <2>2, <4>1, <4>2
    <3>2. f.token.first <= pages[k].sequence /\ pages[k].sequence <= pages[Len(pages)].sequence
      BY <2>2, <3>1 DEF SyncInv, PagesTell
    <3> QED
      BY <2>0, <3>1, <3>2
  <2> QED
    BY <1>3, <2>1, <2>2
<1>6. ASSUME NEW i \in f.token.sent
      PROVE  \E k \in 1 .. Len(pages') : Names(pages'[k], i)
  <2>1. CASE Names(f, i)
    BY <1>3, <2>1
  <2>2. CASE pages # <<>> /\ i \in pages[Len(pages)].token.sent
    <3>1. PICK k \in 1 .. Len(pages) : Names(pages[k], i)
      BY <2>2 DEF SyncInv, PagesTell
    <3>2. k \in 1 .. Len(pages') /\ pages'[k] = pages[k]
      BY <1>3
    <3> QED
      BY <3>1, <3>2
  <2> QED
    BY <1>6, <2>1, <2>2
<1>7. PagesTell'
  BY <1>3, <1>4, <1>5, <1>6 DEF PagesTell, Names
<1> QED
  BY <1>1, <1>7 DEF SyncInv

\* What a client starts from is in the states its token tells.
LEMMA StartHeld ==
    ASSUME SyncInv, NEW i \in EntryIds, NEW t, t.since = state.token.since, t.upto = state.token.upto
    PROVE  \E h \in Sync!Held(t) : h[i] = Sync!Start(state.token = Sync!NoToken)[i]
<1>1. CASE state.token = Sync!NoToken
  <2>1. t.since = -1
    BY <1>1 DEF Sync!NoToken, Sync!Token
  <2> QED
    BY <1>1, <2>1 DEF Sync!Held, Sync!Start
<1>2. CASE state.token # Sync!NoToken
  <2>1. /\ t.since \in 0 .. state.sequence /\ state.sequence \in Nat /\ t.upto = state.sequence
        /\ Had(i, state.entries[i], t.since, t.upto)
    BY <1>2 DEF SyncInv, StoredFaithful
  <2>2. PICK p \in t.since .. t.upto : state.entries[i] = history[p + 1][i]
    BY <2>1 DEF Had
  <2>3. t.since # -1 /\ history[p + 1] \in Sync!Held(t)
    BY <2>1 DEF Sync!Held
  <2> QED
    BY <1>2, <2>2, <2>3 DEF Sync!Start
<1> QED
  BY <1>1, <1>2

\* The last page: what is stored then was the registry's between the first page
\* and this one.
LEMMA PagesStored ==
    ASSUME SyncInv, NEW q \in 0 .. Len(history) - 1, NEW f \in PageForm, Tells(f), f.sequence = q,
           NEW t, t = Sync!CurrentToken, NEW first, first = IF t.first = -1 THEN q ELSE t.first,
           pages # <<>> => pages[Len(pages)].sequence <= q,
           f.token = Sync!Token(first, q, -1, {}),
           \A i \in EntryIds : (\E h \in Sync!Held(t) : history[q + 1][i] # h[i]) => i \in t.sent \/ Names(f, i),
           pages' = <<>>, UNCHANGED <<hour, history>>,
           state' = [token |-> f.token, sequence |-> Sync!EvaluatePages(Append(pages, f)).sequence,
                     entries |-> Sync!EvaluatePages(Append(pages, f)).entries, at |-> hour]
    PROVE  SyncInv'
<1> DEFINE all == Append(pages, f)
           initial == state.token = Sync!NoToken
           named(i) == {x \in Sync!Places(all) : Sync!EntryAt(all, x).id = i}
<1>1. pages \in Seq(PageForm) /\ q \in Nat
  BY DEF SyncInv, PagesTell
<1>2. /\ all \in Seq(PageForm) /\ Len(all) = Len(pages) + 1 /\ all[Len(all)] = f
      /\ Len(pages) \in Nat /\ \A k \in 1 .. Len(pages) : all[k] = pages[k]
      /\ DOMAIN all = 1 .. Len(all) /\ \A k \in 1 .. Len(all) : k \in 1 .. Len(pages) \/ k = Len(all)
      /\ \A k \in 1 .. Len(all) : all[k] \in PageForm
  BY <1>1
<1> HIDE DEF all
<1>3. /\ t.since = state.token.since /\ t.upto = state.token.upto /\ first \in 0 .. q
      /\ \A k \in 1 .. Len(all) : Tells(all[k]) /\ all[k].sequence \in first .. q
      /\ \A i \in t.sent : \E k \in 1 .. Len(all) : Names(all[k], i)
  <2>1. CASE pages = <<>>
    <3>1. t = state.token /\ first = q /\ Len(all) = 1
      BY <1>2, <2>1 DEF Sync!CurrentToken, SyncInv, StoredToken
    <3>2. t.sent = {}
      BY <3>1 DEF SyncInv, StoredToken
    <3>3. \A k \in 1 .. Len(all) : all[k] = f
      <4>1. \A k \in 1 .. 1 : k = 1
        OBVIOUS
      <4> QED
        BY <1>2, <3>1, <4>1
    <3> QED
      BY <1>1, <3>1, <3>2, <3>3
  <2>2. CASE pages # <<>>
    <3> DEFINE g == pages[Len(pages)]
    <3>1. /\ t = g.token /\ Len(pages) \in 1 .. Len(pages) /\ g \in PageForm
          /\ g.token.since = state.token.since /\ g.token.upto = state.token.upto /\ g.token.first \in Nat
          /\ \A k \in 1 .. Len(pages) : /\ g.token.first <= pages[k].sequence /\ pages[k].sequence <= g.sequence
                                        /\ Tells(pages[k]) /\ pages[k] \in PageForm
          /\ \A i \in g.token.sent : \E k \in 1 .. Len(pages) : Names(pages[k], i)
      BY <1>1, <1>2, <2>2 DEF Sync!CurrentToken, SyncInv, PagesTell
    <3>2. g.sequence <= q /\ g.sequence \in Nat /\ first = g.token.first
      BY <2>2, <3>1 DEF PageForm
    <3>3. first \in 0 .. q
      BY <3>1, <3>2
    <3>4. ASSUME NEW k \in 1 .. Len(all) PROVE Tells(all[k]) /\ all[k].sequence \in first .. q
      <4>1. CASE k = Len(all)
        BY <1>1, <1>2, <3>3, <4>1
      <4>2. CASE k \in 1 .. Len(pages)
        <5>1. all[k] = pages[k] /\ pages[k].sequence \in Nat
          BY <1>2, <3>1, <4>2 DEF PageForm
        <5> QED
          BY <3>1, <3>2, <4>2, <5>1
      <4> QED
        BY <1>2, <4>1, <4>2
    <3>5. ASSUME NEW i \in t.sent PROVE \E k \in 1 .. Len(all) : Names(all[k], i)
      <4>1. PICK k \in 1 .. Len(pages) : Names(pages[k], i)
        BY <3>1
      <4>2. k \in 1 .. Len(all) /\ all[k] = pages[k]
        BY <1>2
      <4> QED
        BY <4>1, <4>2
    <3> QED
      BY <3>1, <3>3, <3>4, <3>5
  <2> QED
    BY <2>1, <2>2
<1>4. ASSUME NEW i \in EntryIds, NEW k \in 1 .. Len(all), Names(all[k], i) PROVE named(i) # {}
  <2>1. PICK n \in 1 .. Len(all[k].entries) : all[k].entries[n].id = i
    BY <1>4 DEF Names
  <2>2. n \in DOMAIN all[k].entries
    <3>1. all[k].entries \in Seq(Change)
      BY <1>2 DEF PageForm
    <3> QED
      BY <3>1
  <2>3. <<k, n>> \in Sync!Places(all)
    BY <1>2, <2>2 DEF Sync!Places
  <2>4. Sync!EntryAt(all, <<k, n>>) = all[k].entries[n]
    BY DEF Sync!EntryAt
  <2> QED
    BY <2>1, <2>3, <2>4
<1>5. ASSUME NEW i \in EntryIds
      PROVE  Had(i, IF named(i) = {} THEN Sync!Start(initial)[i]
                    ELSE Sync!EntryAt(all, CHOOSE x \in named(i) : TRUE).cert, first, q)
  <2>1. CASE named(i) = {}
    <3>1. i \notin t.sent /\ ~Names(f, i)
      <4>1. \A k \in 1 .. Len(all) : ~Names(all[k], i)
        BY <1>4, <2>1
      <4>2. Len(all) \in 1 .. Len(all)
        BY <1>2
      <4> QED
        BY <1>2, <1>3, <4>1, <4>2
    <3>2. PICK h \in Sync!Held(t) : h[i] = Sync!Start(initial)[i]
      BY <1>3, StartHeld
    <3>3. Sync!Start(initial)[i] = history[q + 1][i]
      BY <3>1, <3>2
    <3>4. q \in first .. q
      BY <1>1, <1>3
    <3> QED
      BY <2>1, <3>3, <3>4 DEF Had
  <2>2. CASE named(i) # {}
    <3> DEFINE x == CHOOSE y \in named(i) : TRUE
    <3>1. x \in named(i)
      BY <2>2
    <3>2. PICK k \in DOMAIN all : x \in {k} \X DOMAIN all[k].entries
      BY <3>1 DEF Sync!Places
    <3>3. x[1] = k /\ x[2] \in DOMAIN all[k].entries /\ k \in 1 .. Len(all)
      BY <1>2, <3>2
    <3>4. x[2] \in 1 .. Len(all[k].entries)
      <4>1. all[k].entries \in Seq(Change)
        BY <1>2, <3>3 DEF PageForm
      <4> QED
        BY <3>3, <4>1
    <3>5. Sync!EntryAt(all, x) = all[k].entries[x[2]] /\ Sync!EntryAt(all, x).id = i
      BY <3>1, <3>3 DEF Sync!EntryAt
    <3> HIDE DEF x
    <3>6. Sync!EntryAt(all, x).cert = history[all[k].sequence + 1][i] /\ all[k].sequence \in first .. q
      BY <1>3, <3>3, <3>4, <3>5 DEF Tells
    <3>7. Had(i, Sync!EntryAt(all, x).cert, first, q)
      BY <3>6 DEF Had
    <3> QED
      BY <2>2, <3>7 DEF x
  <2> QED
    BY <2>1, <2>2
<1>6. Sync!ApplyEntries(all, initial) =
        [i \in EntryIds |-> IF named(i) = {} THEN Sync!Start(initial)[i]
                            ELSE Sync!EntryAt(all, CHOOSE x \in named(i) : TRUE).cert]
  BY Zenon DEF Sync!ApplyEntries
<1>7. /\ Sync!EvaluatePages(all).entries = Sync!ApplyEntries(all, initial)
      /\ Sync!EvaluatePages(all).sequence = all[Len(all)].sequence
  BY DEF Sync!EvaluatePages
<1>8. state'.sequence = q /\ state'.entries = Sync!ApplyEntries(all, initial) /\ state'.token = f.token
  BY <1>2, <1>7 DEF all
<1>9. /\ f.token.since = first /\ f.token.upto = q /\ f.token.first = -1 /\ f.token.sent = {}
      /\ f.token \in [since : Int, upto : Int, first : Int, sent : SUBSET EntryIds]
  BY <1>3, <1>1 DEF Sync!Token
<1>10. \A i \in EntryIds : Had(i, state'.entries[i], first, q)
  <2> HIDE DEF named, initial
  <2> QED BY <1>5, <1>6, <1>8
<1>11. StoredFaithful' /\ StoredToken'
  <2>1. \A i \in EntryIds : Had(i, state.entries[i], state.token.since, state.sequence)'
    BY <1>8, <1>9, <1>10 DEF Had
  <2> QED
    BY <1>1, <1>3, <1>8, <1>9, <2>1 DEF StoredFaithful, StoredToken
<1>12. SyncTyped' /\ PagesTell'
  BY <1>8, <1>9 DEF SyncInv, SyncTyped, PagesTell
<1> QED
  BY <1>11, <1>12 DEF SyncInv

LEMMA SyncStep ==
    SyncInv /\ [Sync!Next]_(Sync!vars) => SyncInv'
<1> SUFFICES ASSUME SyncInv, [Sync!Next]_(Sync!vars) PROVE SyncInv'
  OBVIOUS
<1>1. ASSUME NEW q \in 0 .. MaxSequence, Sync!Request(q) PROVE SyncInv'
  <2> DEFINE t == Sync!CurrentToken
             f == Sync!Page(t, q)
             first == IF t.first = -1 THEN q ELSE t.first
             result == Sync!EvaluatePages(Append(pages, f))
  <2>1. q \in Sync!Max({0, t.since, t.first}) .. Len(history) - 1 /\ Sync!Arrive(f)
    BY <1>1 DEF Sync!Request
  <2>2. /\ pages = <<>> => t = state.token /\ t.first = -1 /\ t.sent = {}
        /\ pages # <<>> => /\ t = pages[Len(pages)].token /\ t.first \in Nat
                           /\ t.since = state.token.since /\ t.upto = state.token.upto
                           /\ pages[Len(pages)].sequence \in Nat /\ t.first <= pages[Len(pages)].sequence
    <3>1. CASE pages = <<>>
      BY <3>1 DEF Sync!CurrentToken, SyncInv, StoredToken
    <3>2. CASE pages # <<>>
      <4>1. Len(pages) \in 1 .. Len(pages) /\ pages[Len(pages)] \in PageForm
        BY <3>2 DEF SyncInv, PagesTell
      <4> QED
        BY <3>2, <4>1 DEF Sync!CurrentToken, SyncInv, PagesTell, PageForm
    <3> QED
      BY <3>1, <3>2
  <2>3. q \in 0 .. Len(history) - 1
    BY <2>1
  <2>4. /\ f \in PageForm /\ Tells(f) /\ f.sequence = q
        /\ f.more => /\ f.token.since = t.since /\ f.token.upto = t.upto /\ f.token.first = first
                     /\ \A i \in f.token.sent : i \in t.sent \/ Names(f, i)
        /\ ~f.more => /\ f.token = Sync!Token(first, q, -1, {})
                      /\ \A i \in EntryIds : (\E h \in Sync!Held(t) : history[q + 1][i] # h[i])
                                             => i \in t.sent \/ Names(f, i)
    BY <2>3, PageIs
  <2>5. /\ UNCHANGED <<hour, history>>
        /\ pages' = IF result.failure = "none" /\ f.more THEN Append(pages, f) ELSE <<>>
        /\ state' = IF result.failure = "none" /\ ~f.more
                    THEN [token |-> f.token, sequence |-> result.sequence, entries |-> result.entries, at |-> hour]
                    ELSE state
    BY <2>1 DEF Sync!Arrive
  <2>6. result.failure = "none" /\ pages # <<>> => pages[Len(pages)].sequence <= q
    <3>1. pages \in Seq(PageForm)
      BY DEF SyncInv, PagesTell
    <3> HIDE DEF f
    <3> QED BY <2>4, <3>1, NoRollback
  <2> HIDE DEF f, t
  <2>7. CASE result.failure # "none"
    BY <2>5, <2>7, PagesDropped
  <2>8. CASE result.failure = "none" /\ f.more
    <3>1. pages' = Append(pages, f) /\ UNCHANGED <<hour, history, state>>
      BY <2>5, <2>8
    <3>2. /\ f.token.since = state.token.since /\ f.token.upto = state.token.upto
          /\ f.token.first \in Nat /\ f.token.first <= f.sequence
          /\ pages # <<>> => /\ pages[Len(pages)].sequence <= f.sequence
                             /\ f.token.first = pages[Len(pages)].token.first
      BY <2>2, <2>3, <2>4, <2>6, <2>8
    <3>3. \A i \in f.token.sent : (pages # <<>> /\ i \in pages[Len(pages)].token.sent) \/ Names(f, i)
      BY <2>2, <2>4, <2>8
    <3> QED
      BY <2>4, <2>8, <3>1, <3>2, <3>3, PagesKept
  <2>9. CASE result.failure = "none" /\ ~f.more
    <3>1. pages' = <<>> /\ UNCHANGED <<hour, history>>
      BY <2>5, <2>9
    <3>2. state' = [token |-> f.token, sequence |-> Sync!EvaluatePages(Append(pages, f)).sequence,
                    entries |-> Sync!EvaluatePages(Append(pages, f)).entries, at |-> hour]
      BY <2>5, <2>9
    <3>3. t = Sync!CurrentToken
      BY DEF t
    <3> QED
      BY <2>3, <2>4, <2>6, <2>9, <3>1, <3>2, <3>3, PagesStored
  <2> QED
    BY <2>7, <2>8, <2>9
<1>2. ASSUME Sync!RequestRepeated PROVE SyncInv'
  <2> DEFINE f == pages[Len(pages)]
             result == Sync!EvaluatePages(Append(pages, f))
  <2>1. /\ pages # <<>> /\ f \in PageForm /\ Tells(f) /\ f.more /\ f.sequence \in Nat
        /\ f.token.since = state.token.since /\ f.token.upto = state.token.upto
        /\ f.token.first \in Nat /\ f.token.first <= f.sequence
    <3>1. pages # <<>> /\ pages \in Seq(PageForm)
      BY <1>2 DEF Sync!RequestRepeated, SyncInv, PagesTell
    <3>2. Len(pages) \in 1 .. Len(pages) /\ f \in PageForm
      BY <3>1
    <3> QED
      BY <3>1, <3>2 DEF SyncInv, PagesTell, PageForm
  <2>2. /\ UNCHANGED <<hour, history, state>>
        /\ pages' = IF result.failure = "none" THEN Append(pages, f) ELSE <<>>
    BY <1>2, <2>1 DEF Sync!RequestRepeated, Sync!Arrive
  <2> HIDE DEF result
  <2>3. CASE result.failure # "none"
    BY <2>2, <2>3, PagesDropped
  <2>4. CASE result.failure = "none"
    <3>1. pages' = Append(pages, f)
      BY <2>2, <2>4
    <3> QED
      BY <2>1, <2>2, <3>1, PagesKept
  <2> QED
    BY <2>3, <2>4
<1>3. ASSUME Sync!Interrupt PROVE SyncInv'
  BY <1>3, PagesDropped DEF Sync!Interrupt
<1>4. ASSUME Sync!Pass PROVE SyncInv'
  <2>1. SyncTyped'
    BY <1>4 DEF Sync!Pass, SyncInv, SyncTyped
  <2>2. StoredFaithful' /\ StoredToken' /\ PagesTell'
    BY <1>4 DEF Sync!Pass, SyncInv, StoredFaithful, StoredToken, PagesTell, Had, Tells, Names
  <2> QED
    BY <2>1, <2>2 DEF SyncInv
<1>5. ASSUME NEW i \in EntryIds, NEW c \in Listed, Sync!Publish(i, c) PROVE SyncInv'
  <2> DEFINE e == [history[Len(history)] EXCEPT ![i] = c]
  <2>1. history[Len(history)] \in [EntryIds -> Listed]
    BY DEF SyncInv, SyncTyped
  <2>2. e \in [EntryIds -> Listed]
    BY <2>1
  <2>3. history' = Append(history, e) /\ UNCHANGED <<hour, state, pages>>
    BY <1>5 DEF Sync!Publish
  <2> HIDE DEF e
  <2> QED
    BY <2>2, <2>3, HistoryGrows
<1>6. ASSUME NEW i \in EntryIds, NEW l \in Lives, Sync!Publish(i, [until |-> hour + l, profile |-> TRUE])
      PROVE  SyncInv'
  <2>1. [until |-> hour + l, profile |-> TRUE] \in Listed
    BY SyncAssumption DEF SyncInv, SyncTyped, Listed
  <2> QED
    BY <1>5, <1>6, <2>1
<1>7. ASSUME NEW i \in EntryIds, Sync!Publish(i, Sync!Absent) PROVE SyncInv'
  <2>1. Sync!Absent \in Listed
    BY DEF Sync!Absent, Listed
  <2> QED
    BY <1>5, <1>7, <2>1
<1>8. ASSUME UNCHANGED Sync!vars PROVE SyncInv'
  BY <1>8 DEF Sync!vars, SyncInv, SyncTyped, StoredFaithful, StoredToken, PagesTell, Had, Tells, Names
<1> QED
  BY <1>1, <1>2, <1>3, <1>4, <1>6, <1>7, <1>8 DEF Sync!Next
-----------------------------------------------------------------------------
(* Registries of anchors: sequences of positions.                          *)

\* Induction up to n.
LEMMA UpTo ==
    ASSUME NEW n \in Nat, NEW S, 0 \in S, \A k \in Nat : k < n /\ k \in S => k + 1 \in S
    PROVE  \A k \in 0 .. n : k \in S
<1> SUFFICES ASSUME NEW m \in 0 .. n, m \notin S PROVE FALSE
  OBVIOUS
<1> DEFINE Bad == {k \in 0 .. n : k \notin S}
<1>1. Bad \subseteq Nat /\ Bad # {}
  OBVIOUS
<1>2. PICK b \in Bad : \A y \in Bad : b <= y
  <2> HIDE DEF Bad
  <2> QED BY <1>1, Least
<1>3. b \in Nat /\ b # 0 /\ b <= n /\ b \notin S
  OBVIOUS
<1>4. b - 1 \in Nat /\ b - 1 \in S
  BY <1>2, <1>3
<1> QED
  BY <1>3, <1>4


\* The recursive definition of InOrder has a solution.
Solves(h, P, n) ==
    h = [m \in 0 .. n |-> IF m = 0 THEN <<>> ELSE IF m \in P THEN Append(h[m - 1], m) ELSE h[m - 1]]
LEMMA InOrderDefined ==
    ASSUME NEW P, NEW n \in Nat
    PROVE  \E h : Solves(h, P, n) /\ Registry!InOrder(P, n) = h[n]
<1> DEFINE Next1(x, m) == IF m \in P THEN Append(x, m) ELSE x
           Def(h, l) == h = [m \in 0 .. l |-> IF m = 0 THEN <<>>
                                              ELSE IF m \in P THEN Append(h[m - 1], m) ELSE h[m - 1]]
           S == {l \in Nat : \E h : Def(h, l)}
<1>1. 0 \in S
  <2> DEFINE h == [m \in 0 .. 0 |-> <<>>]
  <2>1. Def(h, 0)
    OBVIOUS
  <2> QED
    BY <2>1
<1>2. ASSUME NEW l \in Nat, l \in S PROVE l + 1 \in S
  <2>1. PICK h : Def(h, l)
    BY <1>2
  <2> DEFINE g == [m \in 0 .. l + 1 |-> IF m = l + 1 THEN Next1(h[l], m) ELSE h[m]]
             r == [m \in 0 .. l + 1 |-> IF m = 0 THEN <<>>
                                        ELSE IF m \in P THEN Append(g[m - 1], m) ELSE g[m - 1]]
  <2>2. ASSUME NEW m \in 0 .. l + 1 PROVE g[m] = r[m]
    <3>1. CASE m = l + 1
      <4>1. l + 1 # 0 /\ m - 1 = l /\ g[l] = h[l]
        BY <3>1
      <4> QED
        BY <3>1, <4>1
    <3>2. CASE m = 0
      <4>1. h[0] = <<>>
        BY <2>1
      <4> QED
        BY <3>2, <4>1
    <3>3. CASE m \in 1 .. l
      <4>1. h[m] = Next1(h[m - 1], m)
        <5>1. m \in 0 .. l /\ m # 0
          BY <3>3
        <5>2. \A j \in 0 .. l : h[j] = IF j = 0 THEN <<>>
                                       ELSE IF j \in P THEN Append(h[j - 1], j) ELSE h[j - 1]
          BY <2>1, Zenon
        <5> QED
          BY <5>1, <5>2
      <4>2. g[m] = h[m] /\ g[m - 1] = h[m - 1]
        BY <3>3
      <4>3. r[m] = Next1(g[m - 1], m)
        BY <3>3
      <4> QED
        BY <4>1, <4>2, <4>3
    <3> QED
      BY <3>1, <3>2, <3>3
  <2>3. g = r
    BY <2>2
  <2>4. Def(g, l + 1)
    BY <2>3
  <2> QED
    <3> HIDE DEF Def
    <3> QED BY <2>4
<1>3. \E h : Def(h, n)
  <2>1. n \in S
    <3> HIDE DEF S
    <3>1. \A k \in Nat : k < n /\ k \in S => k + 1 \in S
      BY <1>2
    <3>2. \A k \in 0 .. n : k \in S
      BY <1>1, <3>1, UpTo
    <3> QED BY <3>2
  <2> QED
    BY <2>1
<1>4. Registry!InOrder(P, n) = (CHOOSE h : Def(h, n))[n]
  BY Zenon DEF Registry!InOrder
<1> QED
  <2> DEFINE h == CHOOSE x : Def(x, n)
  <2>1. Def(h, n)
    <3> HIDE DEF Def
    <3> QED BY <1>3
  <2>2. Registry!InOrder(P, n) = h[n]
    BY <1>4
  <2> HIDE DEF h
  <2>3. Solves(h, P, n)
    BY <2>1 DEF Solves
  <2> QED
    BY <2>2, <2>3

\* Two solutions for sets and bounds that agree agree.
LEMMA InOrderAgrees ==
    ASSUME NEW P, NEW Q, NEW n \in Nat, NEW l \in Nat, NEW b \in Nat, b <= n, b <= l,
           \A m \in 1 .. b : m \in P <=> m \in Q,
           NEW h, Solves(h, P, n), NEW g, Solves(g, Q, l)
    PROVE  h[b] = g[b]
<1>1. \A m \in 0 .. n : h[m] = IF m = 0 THEN <<>> ELSE IF m \in P THEN Append(h[m - 1], m) ELSE h[m - 1]
  BY Zenon DEF Solves
<1>2. \A m \in 0 .. l : g[m] = IF m = 0 THEN <<>> ELSE IF m \in Q THEN Append(g[m - 1], m) ELSE g[m - 1]
  BY Zenon DEF Solves
<1> DEFINE S == {m \in Nat : h[m] = g[m]}
<1>3. 0 \in S
  BY <1>1, <1>2
<1>4. ASSUME NEW k \in Nat, k < b, k \in S PROVE k + 1 \in S
  <2>1. k + 1 \in 0 .. n /\ k + 1 \in 0 .. l /\ k + 1 # 0 /\ k + 1 \in 1 .. b /\ (k + 1) - 1 = k
    BY <1>4
  <2>2. h[k + 1] = IF k + 1 \in P THEN Append(h[k], k + 1) ELSE h[k]
    BY <1>1, <2>1
  <2>3. g[k + 1] = IF k + 1 \in Q THEN Append(g[k], k + 1) ELSE g[k]
    BY <1>2, <2>1
  <2>4. h[k] = g[k]
    BY <1>4
  <2> QED
    BY <2>1, <2>2, <2>3, <2>4
<1>5. \A k \in 0 .. b : k \in S
  <2> HIDE DEF S
  <2> QED BY <1>3, <1>4, UpTo
<1>6. b \in S
  BY <1>5
<1> QED
  BY <1>6

LEMMA InOrderSame ==
    ASSUME NEW P, NEW Q, NEW n \in Nat, \A m \in 1 .. n : m \in P <=> m \in Q
    PROVE  Registry!InOrder(P, n) = Registry!InOrder(Q, n)
<1>1. PICK h : /\ Solves(h, P, n)
               /\ Registry!InOrder(P, n) = h[n]
  BY InOrderDefined
<1>2. PICK g : /\ Solves(g, Q, n)
               /\ Registry!InOrder(Q, n) = g[n]
  BY InOrderDefined
<1>3. h[n] = g[n]
  BY <1>1, <1>2, InOrderAgrees
<1> QED
  BY <1>1, <1>2, <1>3

\* One number more.
LEMMA InOrderStep ==
    ASSUME NEW P, NEW n \in Nat
    PROVE  /\ Registry!InOrder(P, 0) = <<>>
           /\ Registry!InOrder(P, n + 1) = IF n + 1 \in P THEN Append(Registry!InOrder(P, n), n + 1)
                                           ELSE Registry!InOrder(P, n)
<1>1. PICK h : /\ Solves(h, P, n)
               /\ Registry!InOrder(P, n) = h[n]
  BY InOrderDefined
<1>2. n + 1 \in Nat /\ 0 \in Nat
  OBVIOUS
<1> DEFINE l == n + 1
<1>3. l \in Nat
  OBVIOUS
<1> HIDE DEF l
<1>4. PICK g : /\ Solves(g, P, l)
               /\ Registry!InOrder(P, l) = g[l]
  BY <1>3, InOrderDefined
<1>5. PICK f : /\ Solves(f, P, 0)
               /\ Registry!InOrder(P, 0) = f[0]
  BY <1>2, InOrderDefined
<1>6. h[n] = g[n]
  <2>1. n <= n /\ n <= l
    BY DEF l
  <2> QED
    BY <1>1, <1>3, <1>4, <2>1, InOrderAgrees
<1>7. f[0] = <<>>
  BY <1>5 DEF Solves
<1>8. g[l] = IF l \in P THEN Append(g[n], l) ELSE g[n]
  <2>1. \A m \in 0 .. l : g[m] = IF m = 0 THEN <<>> ELSE IF m \in P THEN Append(g[m - 1], m) ELSE g[m - 1]
    BY <1>4, Zenon DEF Solves
  <2>2. l \in 0 .. l /\ l # 0 /\ l - 1 = n
    BY DEF l
  <2> QED
    BY <2>1, <2>2
<1> QED
  BY <1>1, <1>4, <1>5, <1>6, <1>7, <1>8 DEF l
\* The positions are those asked for, in order; where none is left out they are
\* all.
Ordered(e, P, n) ==
    /\ e \in Seq(Nat \ {0}) /\ Len(e) <= n
    /\ \A k \in 1 .. Len(e) : e[k] \in P /\ e[k] <= n
    /\ \A k, l \in 1 .. Len(e) : k < l => e[k] < e[l]
    /\ \A p \in 1 .. n : p \in P => \E k \in 1 .. Len(e) : e[k] = p
    /\ Len(e) = n => \A k \in 1 .. n : e[k] = k
    /\ (\A p \in 1 .. n : p \in P) => Len(e) = n

LEMMA OrderedStep ==
    ASSUME NEW P, NEW n \in Nat, NEW e, Ordered(e, P, n)
    PROVE  Ordered(IF n + 1 \in P THEN Append(e, n + 1) ELSE e, P, n + 1)
<1>0. e \in Seq(Nat \ {0}) /\ Len(e) \in Nat /\ Len(e) <= n
  BY DEF Ordered
<1>1. CASE n + 1 \in P
  <2> DEFINE d == Append(e, n + 1)
  <2>1. /\ d \in Seq(Nat \ {0}) /\ Len(d) = Len(e) + 1 /\ d[Len(e) + 1] = n + 1
        /\ \A k \in 1 .. Len(e) : d[k] = e[k]
    BY <1>0
  <2> HIDE DEF d
  <2>2. \A k \in 1 .. Len(d) : d[k] \in P /\ d[k] <= n + 1
    BY <1>0, <1>1, <2>1 DEF Ordered
  <2>3. ASSUME NEW k \in 1 .. Len(d), NEW l \in 1 .. Len(d), k < l PROVE d[k] < d[l]
    <3>1. k \in 1 .. Len(e) /\ d[k] = e[k] /\ e[k] \in Nat /\ e[k] <= n
      BY <1>0, <2>1, <2>3 DEF Ordered
    <3>2. CASE l = Len(e) + 1
      BY <2>1, <3>1, <3>2
    <3>3. CASE l \in 1 .. Len(e)
      BY <2>1, <2>3, <3>1, <3>3 DEF Ordered
    <3> QED
      BY <1>0, <2>1, <3>2, <3>3
  <2>4. ASSUME NEW p \in 1 .. n + 1, p \in P PROVE \E k \in 1 .. Len(d) : d[k] = p
    <3>1. CASE p = n + 1
      BY <1>0, <2>1, <3>1
    <3>2. CASE p \in 1 .. n
      <4>1. PICK k \in 1 .. Len(e) : e[k] = p
        BY <2>4, <3>2 DEF Ordered
      <4>2. k \in 1 .. Len(d) /\ d[k] = p
        BY <1>0, <2>1, <4>1
      <4> QED
        BY <4>2
    <3> QED
      BY <3>1, <3>2
  <2>5. ASSUME Len(d) = n + 1, NEW k \in 1 .. n + 1 PROVE d[k] = k
    <3>1. Len(e) = n
      BY <1>0, <2>1, <2>5
    <3> QED
      BY <2>1, <3>1 DEF Ordered
  <2>6. ASSUME \A p \in 1 .. n + 1 : p \in P PROVE Len(d) = n + 1
    BY <1>0, <2>1, <2>6 DEF Ordered
  <2>7. Ordered(d, P, n + 1)
    BY <1>0, <2>1, <2>2, <2>3, <2>4, <2>5, <2>6 DEF Ordered
  <2> QED
    BY <1>1, <2>7 DEF d
<1>2. CASE n + 1 \notin P
  <2>1. \A p \in 1 .. n + 1 : p \in P => p \in 1 .. n
    BY <1>2
  <2>2. ~(\A p \in 1 .. n + 1 : p \in P) /\ Len(e) # n + 1
    BY <1>0, <1>2
  <2>3. \A k \in 1 .. Len(e) : e[k] \in P /\ e[k] <= n + 1
    BY <1>0 DEF Ordered
  <2>4. Ordered(e, P, n + 1)
    BY <1>0, <2>1, <2>2, <2>3 DEF Ordered
  <2> QED
    BY <1>2, <2>4
<1> QED
  BY <1>1, <1>2

LEMMA InOrderIs ==
    ASSUME NEW P, NEW n \in Nat
    PROVE  Ordered(Registry!InOrder(P, n), P, n)
<1> DEFINE S == {m \in Nat : Ordered(Registry!InOrder(P, m), P, m)}
<1>1. 0 \in S
  <2>1. Registry!InOrder(P, 0) = <<>>
    BY InOrderStep
  <2>2. Ordered(<<>>, P, 0)
    BY DEF Ordered
  <2> QED
    BY <2>1, <2>2
<1>2. ASSUME NEW m \in Nat, m \in S PROVE m + 1 \in S
  <2>1. Ordered(Registry!InOrder(P, m), P, m)
    BY <1>2
  <2>2. Registry!InOrder(P, m + 1) = IF m + 1 \in P THEN Append(Registry!InOrder(P, m), m + 1)
                                     ELSE Registry!InOrder(P, m)
    BY InOrderStep
  <2>3. Ordered(Registry!InOrder(P, m + 1), P, m + 1)
    BY <2>1, <2>2, OrderedStep
  <2> QED
    BY <2>3
<1>3. n \in S
  <2> HIDE DEF S
  <2>1. \A k \in 0 .. n : k \in S
    BY <1>1, <1>2, UpTo
  <2> QED
    BY <2>1
<1> QED
  BY <1>3

-----------------------------------------------------------------------------
(* The registry as a value: its index is the one its list has.             *)

RegistryType == [list : Seq(Registry!Anchor), index : [Jurisdictions -> Seq(Nat \ {0})]]
Indexed(r) == r \in RegistryType /\ (kind # "eudi" => r.index = Registry!Rebuilt(r.list))

LEMMA RebuiltTyped ==
    ASSUME NEW l \in Seq(Registry!Anchor)
    PROVE  Registry!Rebuilt(l) \in [Jurisdictions -> Seq(Nat \ {0})]
<1> SUFFICES ASSUME NEW j \in Jurisdictions
             PROVE  LET all == Registry!InOrder(Registry!Of(l, j), Len(l))
                    IN (IF kind = "iaca" /\ all # <<>> THEN <<Registry!Last(all)>> ELSE all) \in Seq(Nat \ {0})
  BY DEF Registry!Rebuilt
<1> DEFINE all == Registry!InOrder(Registry!Of(l, j), Len(l))
<1>1. Len(l) \in Nat
  OBVIOUS
<1>2. all \in Seq(Nat \ {0})
  BY <1>1, InOrderIs DEF Ordered
<1> HIDE DEF all
<1>3. all # <<>> => Registry!Last(all) \in Nat \ {0}
  BY <1>2 DEF Registry!Last
<1>4. (IF kind = "iaca" /\ all # <<>> THEN <<Registry!Last(all)>> ELSE all) \in Seq(Nat \ {0})
  <2>1. \A x \in Nat \ {0} : <<x>> \in Seq(Nat \ {0})
    OBVIOUS
  <2> QED
    BY <1>2, <1>3, <2>1
<1> QED
  BY <1>4 DEF all

\* With a further anchor the positions of its jurisdiction are one more.
LEMMA OfPushed ==
    ASSUME NEW l \in Seq(Registry!Anchor), NEW a \in Registry!Anchor, NEW j
    PROVE  Registry!InOrder(Registry!Of(Append(l, a), j), Len(Append(l, a))) =
             IF a.jurisdiction = j THEN Append(Registry!InOrder(Registry!Of(l, j), Len(l)), Len(l) + 1)
             ELSE Registry!InOrder(Registry!Of(l, j), Len(l))
<1> DEFINE n == Len(l)
           d == Append(l, a)
           P == Registry!Of(l, j)
           Q == Registry!Of(d, j)
<1>1. n \in Nat /\ Len(d) = n + 1 /\ d[n + 1] = a /\ \A k \in 1 .. n : d[k] = l[k]
  OBVIOUS
<1>2. \A m \in 1 .. n : m \in Q <=> m \in P
  <2> HIDE DEF d
  <2> QED BY <1>1 DEF Registry!Of
<1>3. n + 1 \in Q <=> a.jurisdiction = j
  <2> HIDE DEF d
  <2> QED BY <1>1 DEF Registry!Of
<1> HIDE DEF n, d, P, Q
<1>4. Registry!InOrder(Q, n) = Registry!InOrder(P, n)
  BY <1>1, <1>2, InOrderSame
<1>5. Registry!InOrder(Q, n + 1) = IF n + 1 \in Q THEN Append(Registry!InOrder(Q, n), n + 1)
                                   ELSE Registry!InOrder(Q, n)
  BY <1>1, InOrderStep
<1>6. Registry!InOrder(Q, Len(d)) = IF a.jurisdiction = j THEN Append(Registry!InOrder(P, n), n + 1)
                                    ELSE Registry!InOrder(P, n)
  BY <1>1, <1>3, <1>4, <1>5
<1> QED
  BY <1>6 DEF n, d, P, Q

LEMMA PushedIndexed ==
    ASSUME NEW r, Indexed(r), NEW a \in Registry!Anchor
    PROVE  Indexed(Registry!Pushed(r, a))
<1> DEFINE l == r.list
           n == Len(l)
           p == Registry!Pushed(r, a)
           x == IF a.jurisdiction = Registry!NoJurisdiction THEN r.index
                ELSE [r.index EXCEPT ![a.jurisdiction] =
                         IF kind = "iaca" THEN <<Len(r.list) + 1>> ELSE Append(@, Len(r.list) + 1)]
<1>1. l \in Seq(Registry!Anchor) /\ n \in Nat /\ r.index \in [Jurisdictions -> Seq(Nat \ {0})]
  BY DEF Indexed, RegistryType
<1>2. p = [list |-> Append(l, a), index |-> x]
  BY Zenon DEF Registry!Pushed
<1>3. a.jurisdiction = Registry!NoJurisdiction \/ a.jurisdiction \in Jurisdictions
  BY DEF Registry!Anchor
<1>4. x \in [Jurisdictions -> Seq(Nat \ {0})]
  <2>1. CASE a.jurisdiction = Registry!NoJurisdiction
    BY <1>1, <2>1
  <2>2. CASE a.jurisdiction # Registry!NoJurisdiction
    <3>1. a.jurisdiction \in Jurisdictions /\ r.index[a.jurisdiction] \in Seq(Nat \ {0})
      BY <1>1, <1>3, <2>2
    <3>2. /\ <<Len(r.list) + 1>> \in Seq(Nat \ {0})
          /\ Append(r.index[a.jurisdiction], Len(r.list) + 1) \in Seq(Nat \ {0})
      BY <1>1, <3>1
    <3> QED
      BY <1>1, <2>2, <3>1, <3>2
  <2> QED
    BY <2>1, <2>2
<1>5. p \in RegistryType
  <2>1. Append(l, a) \in Seq(Registry!Anchor)
    BY <1>1
  <2> HIDE DEF p, x, l
  <2> QED BY <1>2, <1>4, <2>1 DEF RegistryType
<1>6. ASSUME kind # "eudi" PROVE x = Registry!Rebuilt(Append(l, a))
  <2>1. r.index = Registry!Rebuilt(l)
    BY <1>6 DEF Indexed
  <2>2. ASSUME NEW j \in Jurisdictions PROVE x[j] = Registry!Rebuilt(Append(l, a))[j]
    <3> DEFINE old == Registry!InOrder(Registry!Of(l, j), Len(l))
               new == Registry!InOrder(Registry!Of(Append(l, a), j), Len(Append(l, a)))
    <3>1. new = IF a.jurisdiction = j THEN Append(old, n + 1) ELSE old
      BY <1>1, OfPushed
    <3>2. old \in Seq(Nat \ {0})
      BY <1>1, InOrderIs DEF Ordered
    <3>3. r.index[j] = IF kind = "iaca" /\ old # <<>> THEN <<Registry!Last(old)>> ELSE old
      BY <2>1 DEF Registry!Rebuilt
    <3>4. Registry!Rebuilt(Append(l, a))[j] = IF kind = "iaca" /\ new # <<>> THEN <<Registry!Last(new)>> ELSE new
      BY DEF Registry!Rebuilt
    <3>5. x[j] = IF a.jurisdiction = j THEN (IF kind = "iaca" THEN <<n + 1>> ELSE Append(r.index[j], n + 1))
                 ELSE r.index[j]
      BY <1>1, <1>3, FeedAssumption
    <3> HIDE DEF old, new, x
    <3>6. CASE a.jurisdiction = j
      <4>1. new = Append(old, n + 1) /\ new # <<>> /\ Registry!Last(new) = n + 1
        BY <1>1, <3>1, <3>2, <3>6 DEF Registry!Last
      <4> QED
        BY <3>3, <3>4, <3>5, <3>6, <4>1
    <3>7. CASE a.jurisdiction # j
      BY <3>1, <3>3, <3>4, <3>5, <3>7
    <3> QED
      BY <3>6, <3>7
  <2>3. Registry!Rebuilt(Append(l, a)) \in [Jurisdictions -> Seq(Nat \ {0})]
    <3>1. Append(l, a) \in Seq(Registry!Anchor)
      BY <1>1
    <3> QED
      BY <3>1, RebuiltTyped
  <2> HIDE DEF x
  <2> QED
    BY <1>4, <2>2, <2>3
<1> QED
  <2>1. p.list = Append(l, a) /\ p.index = x
    BY <1>2
  <2> HIDE DEF p, x, l
  <2>2. Indexed(p)
    BY <1>5, <1>6, <2>1 DEF Indexed
  <2> QED
    BY <2>2 DEF p
\* The anchors left are anchors of the list in its order, and one whose subject
\* does not contain the text is among them.
LEMMA LeftIs ==
    ASSUME NEW l \in Seq(Registry!Anchor), NEW t
    PROVE  LET left == Registry!Left(l, t) IN
           /\ left \in Seq(Registry!Anchor) /\ Len(left) <= Len(l)
           /\ Len(left) = Len(l) => left = l
           /\ \A p \in 1 .. Len(l) : l[p].subject \notin Matching[t] =>
                \E b \in 1 .. Len(left) :
                    left[b] = l[p] /\ \A q \in b + 1 .. Len(left) : \E c \in p + 1 .. Len(l) : left[q] = l[c]
<1> DEFINE P == {i \in 1 .. Len(l) : l[i].subject \notin Matching[t]}
           e == Registry!InOrder(P, Len(l))
           left == Registry!Left(l, t)
<1>1. Len(l) \in Nat
  OBVIOUS
<1>2. Ordered(e, P, Len(l))
  <2> HIDE DEF P
  <2> QED BY <1>1, InOrderIs
<1>3. left = [k \in 1 .. Len(e) |-> l[e[k]]]
  BY DEF Registry!Left, Registry!At
<1>4. \A p \in 1 .. Len(l) : l[p].subject \notin Matching[t] => p \in P
  OBVIOUS
<1> HIDE DEF P, e, left
<1>5. /\ e \in Seq(Nat \ {0}) /\ Len(e) \in Nat /\ Len(e) <= Len(l)
      /\ \A k \in 1 .. Len(e) : e[k] \in 1 .. Len(l)
  BY <1>1, <1>2 DEF Ordered
<1>6. left \in Seq(Registry!Anchor) /\ Len(left) = Len(e) /\ \A k \in 1 .. Len(e) : left[k] = l[e[k]]
  <2>1. \A k \in 1 .. Len(e) : l[e[k]] \in Registry!Anchor
    BY <1>5
  <2>2. left \in [1 .. Len(e) -> Registry!Anchor]
    BY <1>3, <2>1
  <2> QED
    BY <1>3, <1>5, <2>2
<1>7. ASSUME Len(left) = Len(l) PROVE left = l
  <2>1. \A k \in 1 .. Len(l) : e[k] = k
    BY <1>2, <1>6, <1>7 DEF Ordered
  <2>2. \A k \in 1 .. Len(l) : left[k] = l[k]
    BY <1>6, <1>7, <2>1
  <2> QED
    BY <1>6, <1>7, <2>2
<1>8. ASSUME NEW p \in 1 .. Len(l), l[p].subject \notin Matching[t]
      PROVE  \E b \in 1 .. Len(left) :
                left[b] = l[p] /\ \A q \in b + 1 .. Len(left) : \E c \in p + 1 .. Len(l) : left[q] = l[c]
  <2>1. p \in P
    BY <1>4, <1>8
  <2>2. PICK b \in 1 .. Len(e) : e[b] = p
    BY <1>2, <2>1 DEF Ordered
  <2>3. ASSUME NEW q \in b + 1 .. Len(left) PROVE \E c \in p + 1 .. Len(l) : left[q] = l[c]
    <3>1. q \in 1 .. Len(e) /\ b < q
      BY <1>5, <1>6
    <3>2. e[b] < e[q]
      BY <1>2, <3>1 DEF Ordered
    <3>3. e[q] \in p + 1 .. Len(l) /\ left[q] = l[e[q]]
      BY <1>5, <1>6, <2>2, <3>1, <3>2
    <3> QED
      BY <3>3
  <2>4. b \in 1 .. Len(left) /\ left[b] = l[p]
    BY <1>6, <2>2
  <2> QED
    BY <2>3, <2>4
<1> QED
  BY <1>5, <1>6, <1>7, <1>8 DEF left

LEMMA RemovedIndexed ==
    ASSUME NEW r, Indexed(r), NEW t
    PROVE  Indexed(Registry!Removed(r, t)) /\ Registry!Removed(r, t).list = Registry!Left(r.list, t)
<1> DEFINE left == Registry!Left(r.list, t)
           x == IF kind # "eudi" /\ Len(left) < Len(r.list) THEN Registry!Rebuilt(left) ELSE r.index
<1>1. r.list \in Seq(Registry!Anchor) /\ r.index \in [Jurisdictions -> Seq(Nat \ {0})]
  BY DEF Indexed, RegistryType
<1>2. left \in Seq(Registry!Anchor) /\ Len(left) <= Len(r.list) /\ (Len(left) = Len(r.list) => left = r.list)
  BY <1>1, LeftIs
<1>3. Registry!Removed(r, t) = [list |-> left, index |-> x]
  BY Zenon DEF Registry!Removed
<1>4. x \in [Jurisdictions -> Seq(Nat \ {0})]
  BY <1>1, <1>2, RebuiltTyped
<1>5. kind # "eudi" => x = Registry!Rebuilt(left)
  <2>1. CASE Len(left) < Len(r.list)
    BY <2>1
  <2>2. CASE ~(Len(left) < Len(r.list))
    <3>1. left = r.list
      BY <1>1, <1>2, <2>2
    <3>2. x = r.index
      BY <2>2
    <3>3. kind # "eudi" => r.index = Registry!Rebuilt(r.list)
      BY DEF Indexed
    <3> HIDE DEF left, x
    <3> QED
      BY <3>1, <3>2, <3>3
  <2> QED
    BY <2>1, <2>2
<1> HIDE DEF left, x
<1>6. Indexed([list |-> left, index |-> x])
  BY <1>2, <1>4, <1>5 DEF Indexed, RegistryType
<1> QED
  BY <1>3, <1>6 DEF left

LEMMA TakenIndexed ==
    ASSUME NEW r, Indexed(r), NEW a \in Registry!Anchor
    PROVE  Indexed(Registry!Taken(r, a))
<1>1. CASE kind = "iaca"
  <2>1. Indexed(Registry!Removed(r, a.jurisdiction))
    BY RemovedIndexed
  <2>2. Registry!Taken(r, a) = Registry!Pushed(Registry!Removed(r, a.jurisdiction), a)
    BY <1>1, Zenon DEF Registry!Taken
  <2> QED
    BY <2>1, <2>2, PushedIndexed
<1>2. CASE kind # "iaca"
  <2>1. Registry!Taken(r, a) = Registry!Pushed(r, a)
    BY <1>2, Zenon DEF Registry!Taken
  <2> QED
    BY <2>1, PushedIndexed
<1> QED
  BY <1>1, <1>2

-----------------------------------------------------------------------------
(* Feeds: what was taken stays where a lookup finds it.                    *)

\* In an mDL registry an entry is found as the last anchor of its jurisdiction,
\* in the others through a position of the index.
Found(r, e) ==
    LET l == r.list
        x == r.index[e.jurisdiction]
    IN IF kind = "iaca"
       THEN \E p \in 1 .. Len(l) :
                /\ l[p].jurisdiction = e.jurisdiction /\ l[p].subject = e.subject
                /\ \A q \in p + 1 .. Len(l) : l[q].jurisdiction # e.jurisdiction
       ELSE \E p \in 1 .. Len(x) : x[p] \in 1 .. Len(l) /\ l[x[p]].subject = e.subject

LEMMA EntryAnchor ==
    ASSUME kind \in Kinds, NEW e \in Registry!Entry
    PROVE  /\ Registry!AnchorOf(e) \in Registry!Anchor
           /\ Registry!AnchorOf(e).subject = e.subject /\ Registry!AnchorOf(e).jurisdiction = e.jurisdiction
           /\ e.jurisdiction \in Jurisdictions /\ e.jurisdiction # Registry!NoJurisdiction
<1>1. kind \in {"iaca", "csca", "eudi"}
  BY FeedAssumption
<1>2. e.jurisdiction \in Jurisdictions /\ e.subject \in Subjects
  BY DEF Registry!Entry
<1> QED
  BY <1>1, <1>2, FeedAssumption DEF Registry!AnchorOf, Registry!Anchor

\* A pushed anchor is found, and what was found is found still unless it is of
\* the same jurisdiction of an mDL registry.
LEMMA PushedFound ==
    ASSUME NEW r, Indexed(r), kind \in Kinds, NEW e \in Registry!Entry, NEW d \in Registry!Entry
    PROVE  /\ Found(Registry!Pushed(r, Registry!AnchorOf(e)), e)
           /\ Found(r, d) /\ (kind = "iaca" => d.jurisdiction # e.jurisdiction)
                => Found(Registry!Pushed(r, Registry!AnchorOf(e)), d)
<1> DEFINE a == Registry!AnchorOf(e)
           l == r.list
           n == Len(l)
           m == Append(l, a)
           x == [r.index EXCEPT ![a.jurisdiction] =
                    IF kind = "iaca" THEN <<Len(r.list) + 1>> ELSE Append(@, Len(r.list) + 1)]
           p == Registry!Pushed(r, a)
<1>1. /\ a \in Registry!Anchor /\ a.subject = e.subject /\ a.jurisdiction = e.jurisdiction
      /\ e.jurisdiction \in Jurisdictions /\ e.jurisdiction # Registry!NoJurisdiction
      /\ d.jurisdiction \in Jurisdictions
  BY EntryAnchor
<1>2. l \in Seq(Registry!Anchor) /\ n \in Nat /\ r.index \in [Jurisdictions -> Seq(Nat \ {0})]
  BY DEF Indexed, RegistryType
<1>3. p.list = m /\ p.index = x
  <2> HIDE DEF a
  <2> QED BY <1>1 DEF Registry!Pushed
<1> HIDE DEF a
<1>4. /\ Len(m) = n + 1 /\ m[n + 1] = a /\ \A k \in 1 .. n : m[k] = l[k]
      /\ x[e.jurisdiction] = IF kind = "iaca" THEN <<n + 1>> ELSE Append(r.index[e.jurisdiction], n + 1)
      /\ d.jurisdiction # e.jurisdiction => x[d.jurisdiction] = r.index[d.jurisdiction]
  BY <1>1, <1>2
<1>5. /\ r.index[e.jurisdiction] \in Seq(Nat \ {0}) /\ r.index[d.jurisdiction] \in Seq(Nat \ {0})
  BY <1>1, <1>2
<1> HIDE DEF m, x, p, l
<1>6. Found(p, e)
  <2>1. CASE kind = "iaca"
    <3>1. /\ n + 1 \in 1 .. Len(m) /\ m[n + 1].jurisdiction = e.jurisdiction /\ m[n + 1].subject = e.subject
          /\ \A q \in (n + 1) + 1 .. Len(m) : FALSE
      BY <1>1, <1>2, <1>4
    <3> QED
      BY <1>3, <2>1, <3>1 DEF Found
  <2>2. CASE kind # "iaca"
    <3> DEFINE y == r.index[e.jurisdiction]
    <3>1. x[e.jurisdiction] = Append(y, n + 1) /\ y \in Seq(Nat \ {0})
      BY <1>4, <1>5, <2>2
    <3> HIDE DEF y
    <3>2. Len(y) + 1 \in 1 .. Len(x[e.jurisdiction]) /\ x[e.jurisdiction][Len(y) + 1] = n + 1
      BY <1>2, <3>1
    <3>3. n + 1 \in 1 .. Len(m) /\ m[n + 1].subject = e.subject
      BY <1>1, <1>2, <1>4
    <3> QED
      BY <1>3, <2>2, <3>2, <3>3 DEF Found
  <2> QED
    BY <2>1, <2>2
<1>7. ASSUME Found(r, d), kind = "iaca" => d.jurisdiction # e.jurisdiction
      PROVE  Found(p, d)
  <2>1. CASE kind = "iaca"
    <3>1. PICK b \in 1 .. n :
            /\ l[b].jurisdiction = d.jurisdiction /\ l[b].subject = d.subject
            /\ \A q \in b + 1 .. n : l[q].jurisdiction # d.jurisdiction
      BY <1>7, <2>1 DEF Found, l
    <3>2. /\ b \in 1 .. Len(m) /\ m[b].jurisdiction = d.jurisdiction /\ m[b].subject = d.subject
          /\ \A q \in b + 1 .. Len(m) : m[q].jurisdiction # d.jurisdiction
      <4>1. b \in 1 .. Len(m) /\ m[b] = l[b]
        BY <1>2, <1>4
      <4>2. ASSUME NEW q \in b + 1 .. Len(m) PROVE m[q].jurisdiction # d.jurisdiction
        <5>1. CASE q = n + 1
          BY <1>1, <1>4, <1>7, <2>1, <5>1
        <5>2. CASE q # n + 1
          <6>1. Len(m) = n + 1 /\ n \in Nat
            BY <1>2, <1>4
          <6>2. q \in b + 1 .. n /\ q \in 1 .. n
            <7> HIDE DEF n
            <7> QED BY <5>2, <6>1
          <6>3. m[q] = l[q]
            BY <1>4, <6>2
          <6> QED
            BY <3>1, <6>2, <6>3
        <5> QED
          BY <5>1, <5>2
      <4> QED
        BY <3>1, <4>1, <4>2
    <3> QED
      BY <1>3, <2>1, <3>2 DEF Found
  <2>2. CASE kind # "iaca"
    <3> DEFINE y == r.index[d.jurisdiction]
               z == x[d.jurisdiction]
    <3>1. PICK b \in 1 .. Len(y) : y[b] \in 1 .. n /\ l[y[b]].subject = d.subject
      BY <1>7, <2>2 DEF Found, l
    <3>2. z = y \/ z = Append(y, n + 1)
      BY <1>4, <2>2
    <3>3. y \in Seq(Nat \ {0})
      BY <1>5
    <3> HIDE DEF y, z
    <3>4. b \in 1 .. Len(z) /\ z[b] = y[b]
      BY <1>2, <3>2, <3>3
    <3>5. z[b] \in 1 .. Len(m) /\ m[z[b]].subject = d.subject
      BY <1>2, <1>4, <3>1, <3>4
    <3> QED
      BY <1>3, <2>2, <3>4, <3>5 DEF Found, z
  <2> QED
    BY <2>1, <2>2
<1> QED
  BY <1>6, <1>7 DEF p, a

LEMMA RemovedFound ==
    ASSUME NEW r, Indexed(r), kind = "iaca", NEW d \in Registry!Entry, Found(r, d), NEW t,
           d.subject \notin Matching[t]
    PROVE  Found(Registry!Removed(r, t), d)
<1> DEFINE l == r.list
           left == Registry!Left(l, t)
<1>1. l \in Seq(Registry!Anchor) /\ Registry!Removed(r, t).list = left
  BY RemovedIndexed DEF Indexed, RegistryType
<1>2. PICK p \in 1 .. Len(l) :
        /\ l[p].jurisdiction = d.jurisdiction /\ l[p].subject = d.subject
        /\ \A q \in p + 1 .. Len(l) : l[q].jurisdiction # d.jurisdiction
  BY DEF Found
<1>3. PICK b \in 1 .. Len(left) :
        left[b] = l[p] /\ \A q \in b + 1 .. Len(left) : \E c \in p + 1 .. Len(l) : left[q] = l[c]
  <2>1. \A k \in 1 .. Len(l) : l[k].subject \notin Matching[t] =>
            \E b \in 1 .. Len(left) :
                left[b] = l[k] /\ \A q \in b + 1 .. Len(left) : \E c \in k + 1 .. Len(l) : left[q] = l[c]
    <3> HIDE DEF l
    <3> QED BY <1>1, LeftIs
  <2>2. l[p].subject \notin Matching[t]
    BY <1>2
  <2> HIDE DEF left, l
  <2> QED BY <2>1, <2>2
<1>4. \A q \in b + 1 .. Len(left) : left[q].jurisdiction # d.jurisdiction
  BY <1>2, <1>3
<1> QED
  <2> HIDE DEF left, l
  <2> QED BY <1>1, <1>2, <1>3, <1>4 DEF Found
\* What is found in the sense of Found, a lookup gives.
LEMMA FoundIsLookedUp ==
    ASSUME Indexed(Registry!Registry), NEW e \in Registry!Entry, Found(Registry!Registry, e),
           Upper[e.jurisdiction] = e.jurisdiction
    PROVE  \E p \in DOMAIN Registry!Lookup(e.jurisdiction) :
             Registry!Lookup(e.jurisdiction)[p].subject = e.subject
<1> DEFINE j == e.jurisdiction
           x == index[j]
           held == {p \in 1 .. Len(x) : x[p] <= Len(list)}
           o == Registry!InOrder(held, Len(x))
<1>1. j \in Jurisdictions /\ list \in Seq(Registry!Anchor) /\ x \in Seq(Nat \ {0}) /\ Len(list) \in Nat
  BY DEF Registry!Entry, Indexed, RegistryType, Registry!Registry
<1>2. \E p \in 1 .. Len(x) : x[p] \in 1 .. Len(list) /\ list[x[p]].subject = e.subject
  <2>1. CASE kind # "iaca"
    BY <2>1 DEF Found, Registry!Registry
  <2>2. CASE kind = "iaca"
    <3> DEFINE all == Registry!InOrder(Registry!Of(list, j), Len(list))
    <3>1. PICK p \in 1 .. Len(list) :
            /\ list[p].jurisdiction = j /\ list[p].subject = e.subject
            /\ \A q \in p + 1 .. Len(list) : list[q].jurisdiction # j
      BY <2>2 DEF Found, Registry!Registry
    <3>2. Ordered(all, Registry!Of(list, j), Len(list))
      BY <1>1, InOrderIs
    <3>3. \A q \in 1 .. Len(list) : q \in Registry!Of(list, j) <=> list[q].jurisdiction = j
      BY DEF Registry!Of
    <3>4. x = IF all # <<>> THEN <<Registry!Last(all)>> ELSE all
      BY <1>1, <2>2 DEF Indexed, Registry!Registry, Registry!Rebuilt
    <3> HIDE DEF all, x
    <3>5. PICK k \in 1 .. Len(all) : all[k] = p
      BY <3>1, <3>2, <3>3 DEF Ordered
    <3>6. all \in Seq(Nat \ {0}) /\ Len(all) \in Nat /\ Len(all) \in 1 .. Len(all) /\ all # <<>>
      BY <3>2, <3>5 DEF Ordered
    <3>7. all[Len(all)] \in 1 .. Len(list) /\ list[all[Len(all)]].jurisdiction = j
      BY <1>1, <3>2, <3>3, <3>6 DEF Ordered
    <3>8. p <= all[Len(all)]
      <4>1. CASE k = Len(all)
        BY <3>5, <4>1
      <4>2. CASE k < Len(all)
        <5>1. all[k] < all[Len(all)]
          BY <3>2, <3>6, <4>2 DEF Ordered
        <5> QED
          BY <3>5, <3>7, <5>1
      <4> QED
        BY <3>6, <4>1, <4>2
    <3>9. all[Len(all)] = p
      BY <1>1, <3>1, <3>7, <3>8
    <3>10. x = <<p>>
      BY <3>4, <3>6, <3>9 DEF Registry!Last
    <3>11. 1 \in 1 .. Len(x) /\ x[1] = p
      BY <3>10
    <3> QED
      BY <3>1, <3>11
  <2> QED
    BY <2>1, <2>2
<1>3. Registry!Lookup(j) = Registry!At(list, Registry!At(x, o))
  BY Zenon DEF Registry!Lookup
<1>4. Ordered(o, held, Len(x))
  <2>1. Len(x) \in Nat
    BY <1>1
  <2> HIDE DEF held, x
  <2> QED BY <2>1, InOrderIs
<1>5. PICK p \in 1 .. Len(x) : x[p] \in 1 .. Len(list) /\ list[x[p]].subject = e.subject
  BY <1>2
<1>6. p \in held
  BY <1>1, <1>5
<1> HIDE DEF held, o, x
<1>7. PICK k \in 1 .. Len(o) : o[k] = p
  BY <1>4, <1>6 DEF Ordered
<1>8. Registry!At(x, o) = [i \in 1 .. Len(o) |-> x[o[i]]] /\ Len(o) \in Nat
  BY <1>4 DEF Registry!At, Ordered
<1>9. Len(Registry!At(x, o)) = Len(o) /\ Registry!At(x, o)[k] = x[p]
  BY <1>7, <1>8
<1>10. Registry!Lookup(j) = [i \in 1 .. Len(o) |-> list[Registry!At(x, o)[i]]]
  BY <1>3, <1>9 DEF Registry!At
<1>11. k \in DOMAIN Registry!Lookup(j) /\ Registry!Lookup(j)[k] = list[x[p]]
  BY <1>7, <1>9, <1>10
<1> QED
  BY <1>5, <1>11

\* An index that is the one the list has gives what a search of the list gives.
LEMMA IndexIsFaithful ==
    ASSUME Indexed(Registry!Registry)
    PROVE  Registry!IndexFaithful
<1> SUFFICES ASSUME NEW j \in Jurisdictions, kind \in {"csca", "iaca"}
             PROVE  LET all == Registry!ByJurisdiction(Upper[j]) IN
                    /\ kind = "csca" => Registry!Lookup(j) = all
                    /\ kind = "iaca" => Registry!Lookup(j) = (IF all = <<>> THEN <<>> ELSE <<Registry!Last(all)>>)
  BY DEF Registry!IndexFaithful
<1> DEFINE u == Upper[j]
           x == index[u]
           held == {p \in 1 .. Len(x) : x[p] <= Len(list)}
           o == Registry!InOrder(held, Len(x))
           a == Registry!InOrder(Registry!Of(list, u), Len(list))
<1>0. u \in Jurisdictions
  BY FeedAssumption
<1>1. list \in Seq(Registry!Anchor) /\ x \in Seq(Nat \ {0}) /\ Len(list) \in Nat /\ Len(x) \in Nat
  BY <1>0 DEF Indexed, RegistryType, Registry!Registry
<1>2. x = IF kind = "iaca" /\ a # <<>> THEN <<Registry!Last(a)>> ELSE a
  BY <1>0 DEF Indexed, Registry!Registry, Registry!Rebuilt
<1>3. Ordered(a, Registry!Of(list, u), Len(list))
  BY <1>1, InOrderIs
<1>4. /\ a \in Seq(Nat \ {0}) /\ Len(a) \in Nat
      /\ \A k \in 1 .. Len(a) : a[k] \in 1 .. Len(list)
  <2> HIDE DEF a
  <2> QED BY <1>1, <1>3 DEF Ordered
<1>5. \A p \in 1 .. Len(x) : x[p] \in 1 .. Len(list)
  <2> HIDE DEF a, x
  <2>1. CASE x = a
    BY <1>4, <2>1
  <2>2. CASE x = <<Registry!Last(a)>> /\ a # <<>>
    <3>1. Len(a) \in 1 .. Len(a) /\ Registry!Last(a) = a[Len(a)]
      BY <1>4, <2>2 DEF Registry!Last
    <3> QED
      BY <1>4, <2>2, <3>1
  <2> QED
    BY <1>2, <2>1, <2>2
<1>6. Ordered(o, held, Len(x))
  <2> HIDE DEF held, x
  <2> QED BY <1>1, InOrderIs
<1>7. \A p \in 1 .. Len(x) : p \in held
  <2> HIDE DEF x
  <2> QED BY <1>1, <1>5
<1>8. Registry!Lookup(j) = Registry!At(list, Registry!At(x, o))
  BY Zenon DEF Registry!Lookup
<1>9. Registry!ByJurisdiction(Upper[j]) = Registry!At(list, a)
  BY Zenon DEF Registry!ByJurisdiction
<1> HIDE DEF held, o, a, x
<1>10. o \in Seq(Nat \ {0}) /\ Len(o) = Len(x) /\ \A k \in 1 .. Len(x) : o[k] = k
  BY <1>6, <1>7 DEF Ordered
<1>11. Registry!At(x, o) = x
  <2>1. Registry!At(x, o) = [k \in 1 .. Len(x) |-> x[k]]
    BY <1>10 DEF Registry!At
  <2> QED
    BY <1>1, <2>1
<1>12. Registry!Lookup(j) = Registry!At(list, x)
  BY <1>8, <1>11
<1>13. /\ \A s \in Seq(Nat \ {0}) : Registry!At(list, s) = [k \in 1 .. Len(s) |-> list[s[k]]]
  BY DEF Registry!At
<1>14. CASE kind = "csca"
  BY <1>2, <1>9, <1>12, <1>14
<1>15. CASE kind = "iaca"
  <2>1. CASE a = <<>>
    <3>1. x = <<>> /\ Registry!At(list, <<>>) = <<>>
      BY <1>2, <2>1 DEF Registry!At
    <3> QED
      BY <1>9, <1>12, <1>15, <2>1, <3>1
  <2>2. CASE a # <<>>
    <3> DEFINE b == Registry!At(list, a)
               p == a[Len(a)]
    <3>1. b = [k \in 1 .. Len(a) |-> list[a[k]]] /\ Len(a) \in 1 .. Len(a)
      BY <1>4, <1>13, <2>2
    <3>2. Len(b) = Len(a) /\ b[Len(b)] = list[p] /\ b # <<>>
      BY <1>4, <3>1
    <3>3. x = <<p>>
      BY <1>2, <1>15, <2>2 DEF Registry!Last
    <3> HIDE DEF b
    <3>4. Registry!Last(b) = list[p]
      BY <3>2 DEF Registry!Last
    <3>5. Registry!At(list, x) = <<list[p]>>
      <4>1. Len(x) = 1 /\ x[1] = p
        BY <3>3
      <4>2. Registry!At(list, x) = [k \in 1 .. 1 |-> list[x[k]]]
        BY <4>1 DEF Registry!At
      <4>3. [k \in 1 .. 1 |-> list[x[k]]] = <<list[p]>>
        <5>1. \A k \in 1 .. 1 : k = 1
          OBVIOUS
        <5> QED
          BY <4>1, <5>1
      <4> QED
        BY <4>2, <4>3
    <3> QED
      BY <1>9, <1>12, <1>15, <3>2, <3>4, <3>5 DEF b
  <2> QED
    BY <2>1, <2>2
<1> QED
  BY <1>14, <1>15

\* A walk so far: the index is right, and what no later entry supersedes is
\* found.
WalkFinds(w, feed, k) ==
    /\ Indexed(w.registry) /\ w \in [registry : {w.registry}, failed : BOOLEAN]
    /\ ~w.failed => \A i \in 1 .. k :
           feed[i].state = "usable" /\ ~Registry!Superseded(feed, i, k) => Found(w.registry, feed[i])

LEMMA StepFinds ==
    ASSUME kind \in Kinds, NEW feed \in Seq(Registry!Entry), NEW k \in Nat, k < Len(feed), NEW fatal,
           NEW w, WalkFinds(w, feed, k)
    PROVE  WalkFinds(Registry!Step(w, feed[k + 1], fatal), feed, k + 1)
<1> DEFINE e == feed[k + 1]
           s == Registry!Step(w, e, fatal)
<1>1. /\ k + 1 \in 1 .. Len(feed) /\ e \in Registry!Entry /\ \A i \in 1 .. k + 1 : feed[i] \in Registry!Entry
      /\ Indexed(w.registry) /\ w = [registry |-> w.registry, failed |-> w.failed] /\ w.failed \in BOOLEAN
  BY DEF WalkFinds
<1>2. ASSUME NEW i \in 1 .. k, ~Registry!Superseded(feed, i, k + 1)
      PROVE  ~Registry!Superseded(feed, i, k)
  BY <1>2 DEF Registry!Superseded
<1>3. CASE w.failed \/ (e.state \notin fatal /\ ~Registry!Takes(e))
  <2>1. s = w
    BY <1>3 DEF Registry!Step
  <2>2. ~w.failed => e.state # "usable"
    BY <1>3 DEF Registry!Takes
  <2>3. ASSUME ~w.failed, NEW i \in 1 .. k + 1, feed[i].state = "usable", ~Registry!Superseded(feed, i, k + 1)
        PROVE  Found(w.registry, feed[i])
    <3>1. i \in 1 .. k
      BY <2>2, <2>3
    <3> QED
      BY <1>2, <2>3, <3>1 DEF WalkFinds
  <2>4. WalkFinds(w, feed, k + 1)
    BY <2>3 DEF WalkFinds
  <2> QED
    BY <2>1, <2>4
<1>4. CASE ~w.failed /\ e.state \in fatal
  <2>1. s = [registry |-> w.registry, failed |-> TRUE]
    BY <1>1, <1>4 DEF Registry!Step
  <2>2. s.registry = w.registry /\ s.failed = TRUE
    BY <2>1
  <2> HIDE DEF s
  <2>3. WalkFinds(s, feed, k + 1)
    BY <1>1, <2>1, <2>2 DEF WalkFinds
  <2> QED
    BY <2>3 DEF s
<1>5. CASE ~w.failed /\ e.state \notin fatal /\ Registry!Takes(e)
  <2> DEFINE a == Registry!AnchorOf(e)
             r == w.registry
             t == Registry!Taken(r, a)
  <2>1. s = [registry |-> t, failed |-> FALSE]
    BY <1>1, <1>5 DEF Registry!Step
  <2>2. a \in Registry!Anchor /\ a.jurisdiction = e.jurisdiction
    BY <1>1, EntryAnchor
  <2>3. Indexed(t)
    BY <1>1, <2>2, TakenIndexed
  <2>4. Found(t, e)
    <3>1. CASE kind = "iaca"
      <4>1. t = Registry!Pushed(Registry!Removed(r, a.jurisdiction), a)
        BY <3>1, Zenon DEF Registry!Taken
      <4>2. Indexed(Registry!Removed(r, a.jurisdiction))
        BY <1>1, RemovedIndexed
      <4> QED
        BY <1>1, <4>1, <4>2, PushedFound
    <3>2. CASE kind # "iaca"
      <4>1. t = Registry!Pushed(r, a)
        BY <3>2, Zenon DEF Registry!Taken
      <4> QED
        BY <1>1, <4>1, PushedFound
    <3> QED
      BY <3>1, <3>2
  <2>5. ASSUME NEW i \in 1 .. k, feed[i].state = "usable", ~Registry!Superseded(feed, i, k + 1)
        PROVE  Found(t, feed[i])
    <3> DEFINE d == feed[i]
    <3>1. Found(r, d) /\ d \in Registry!Entry
      BY <1>1, <1>2, <1>5, <2>5 DEF WalkFinds
    <3>2. CASE kind = "iaca"
      <4>1. d.jurisdiction # e.jurisdiction /\ d.subject \notin Matching[e.jurisdiction]
        BY <1>5, <2>5, <3>2 DEF Registry!Superseded, Registry!Takes
      <4>2. t = Registry!Pushed(Registry!Removed(r, a.jurisdiction), a)
        BY <3>2, Zenon DEF Registry!Taken
      <4>3. Indexed(Registry!Removed(r, a.jurisdiction)) /\ Found(Registry!Removed(r, a.jurisdiction), d)
        BY <1>1, <2>2, <3>1, <3>2, <4>1, RemovedIndexed, RemovedFound
      <4> QED
        BY <1>1, <3>1, <4>1, <4>2, <4>3, PushedFound
    <3>3. CASE kind # "iaca"
      <4>1. t = Registry!Pushed(r, a)
        BY <3>3, Zenon DEF Registry!Taken
      <4> QED
        BY <1>1, <3>1, <3>3, <4>1, PushedFound
    <3> QED
      BY <3>2, <3>3
  <2>6. s.registry = t /\ s.failed = FALSE
    BY <2>1
  <2>7. ASSUME NEW i \in 1 .. k + 1, feed[i].state = "usable", ~Registry!Superseded(feed, i, k + 1)
        PROVE  Found(t, feed[i])
    <3>1. i = k + 1 \/ i \in 1 .. k
      OBVIOUS
    <3> QED
      BY <2>4, <2>5, <2>7, <3>1
  <2> HIDE DEF s, t
  <2>8. WalkFinds(s, feed, k + 1)
    BY <2>1, <2>3, <2>6, <2>7 DEF WalkFinds
  <2> QED
    BY <2>8 DEF s
<1> QED
  BY <1>1, <1>3, <1>4, <1>5
\* The recursive definition of Walk has a solution.
Walks(h, feed, fatal, n) ==
    h = [k \in 0 .. n |-> IF k = 0 THEN [registry |-> Registry!Registry, failed |-> FALSE]
                          ELSE Registry!Step(h[k - 1], feed[k], fatal)]
LEMMA WalkDefined ==
    ASSUME NEW feed, NEW fatal, Len(feed) \in Nat
    PROVE  \E h : Walks(h, feed, fatal, Len(feed)) /\ Registry!Walk(feed, fatal) = h[Len(feed)]
<1> DEFINE first == [registry |-> Registry!Registry, failed |-> FALSE]
           Def(h, l) == h = [k \in 0 .. l |-> IF k = 0 THEN [registry |-> Registry!Registry, failed |-> FALSE]
                                              ELSE Registry!Step(h[k - 1], feed[k], fatal)]
           S == {l \in Nat : \E h : Def(h, l)}
<1>1. 0 \in S
  <2> DEFINE h == [k \in 0 .. 0 |-> first]
  <2>1. Def(h, 0)
    OBVIOUS
  <2> QED
    BY <2>1
<1>2. ASSUME NEW l \in Nat, l \in S PROVE l + 1 \in S
  <2>1. PICK h : Def(h, l)
    BY <1>2
  <2> DEFINE g == [k \in 0 .. l + 1 |-> IF k = l + 1 THEN Registry!Step(h[l], feed[l + 1], fatal) ELSE h[k]]
             r == [k \in 0 .. l + 1 |-> IF k = 0 THEN first ELSE Registry!Step(g[k - 1], feed[k], fatal)]
  <2>2. ASSUME NEW k \in 0 .. l + 1 PROVE g[k] = r[k]
    <3>1. CASE k = l + 1
      <4>1. l + 1 # 0 /\ k - 1 = l /\ g[l] = h[l]
        BY <3>1
      <4> QED
        BY <3>1, <4>1
    <3>2. CASE k = 0
      <4>1. h[0] = first
        BY <2>1
      <4> QED
        BY <3>2, <4>1
    <3>3. CASE k \in 1 .. l
      <4>1. h[k] = Registry!Step(h[k - 1], feed[k], fatal)
        <5>1. k \in 0 .. l /\ k # 0
          BY <3>3
        <5>2. \A j \in 0 .. l : h[j] = IF j = 0 THEN first ELSE Registry!Step(h[j - 1], feed[j], fatal)
          BY <2>1, Zenon
        <5> QED
          BY <5>1, <5>2
      <4>2. g[k] = h[k] /\ g[k - 1] = h[k - 1]
        BY <3>3
      <4>3. r[k] = Registry!Step(g[k - 1], feed[k], fatal)
        BY <3>3
      <4> QED
        BY <4>1, <4>2, <4>3
    <3> QED
      BY <3>1, <3>2, <3>3
  <2>3. g = r
    BY <2>2
  <2>4. Def(g, l + 1)
    BY <2>3
  <2> QED
    <3> HIDE DEF Def
    <3> QED BY <2>4
<1>3. \E h : Def(h, Len(feed))
  <2>1. Len(feed) \in S
    <3> HIDE DEF S
    <3>1. \A k \in Nat : k < Len(feed) /\ k \in S => k + 1 \in S
      BY <1>2
    <3>2. \A k \in 0 .. Len(feed) : k \in S
      BY <1>1, <3>1, UpTo
    <3> QED BY <3>2
  <2> QED
    BY <2>1
<1>4. Registry!Walk(feed, fatal) = (CHOOSE h : Def(h, Len(feed)))[Len(feed)]
  BY Zenon DEF Registry!Walk
<1> QED
  <2> DEFINE h == CHOOSE x : Def(x, Len(feed))
  <2>1. Def(h, Len(feed))
    <3> HIDE DEF Def
    <3> QED BY <1>3
  <2>2. Registry!Walk(feed, fatal) = h[Len(feed)]
    BY <1>4
  <2> HIDE DEF h
  <2>3. Walks(h, feed, fatal, Len(feed))
    BY <2>1 DEF Walks
  <2> QED
    BY <2>2, <2>3

LEMMA WalkedFinds ==
    ASSUME kind \in Kinds, Indexed(Registry!Registry), NEW feed \in Seq(Registry!Entry), NEW fatal
    PROVE  WalkFinds(Registry!Walk(feed, fatal), feed, Len(feed))
<1>0. Len(feed) \in Nat
  OBVIOUS
<1>1. PICK h : Walks(h, feed, fatal, Len(feed)) /\ Registry!Walk(feed, fatal) = h[Len(feed)]
  BY <1>0, WalkDefined
<1>2. \A k \in 0 .. Len(feed) : h[k] = IF k = 0 THEN [registry |-> Registry!Registry, failed |-> FALSE]
                                       ELSE Registry!Step(h[k - 1], feed[k], fatal)
  BY <1>1, Zenon DEF Walks
<1> DEFINE S == {k \in Nat : WalkFinds(h[k], feed, k)}
<1>3. 0 \in S
  <2>1. h[0] = [registry |-> Registry!Registry, failed |-> FALSE]
    <3>1. 0 \in 0 .. Len(feed)
      BY <1>0
    <3>2. h[0] = IF 0 = 0 THEN [registry |-> Registry!Registry, failed |-> FALSE]
                 ELSE Registry!Step(h[0 - 1], feed[0], fatal)
      BY <1>2, <3>1, Zenon
    <3> QED
      BY <3>2, Zenon
  <2>2. h[0].registry = Registry!Registry
    BY <2>1
  <2>3. WalkFinds(h[0], feed, 0)
    BY <2>1, <2>2 DEF WalkFinds
  <2> QED
    BY <2>3
<1>4. ASSUME NEW k \in Nat, k < Len(feed), k \in S PROVE k + 1 \in S
  <2>1. k + 1 \in 0 .. Len(feed) /\ k + 1 # 0 /\ (k + 1) - 1 = k
    BY <1>0, <1>4
  <2>2. h[k + 1] = Registry!Step(h[k], feed[k + 1], fatal)
    BY <1>2, <2>1
  <2>3. WalkFinds(h[k], feed, k)
    BY <1>4
  <2>4. WalkFinds(h[k + 1], feed, k + 1)
    BY <1>4, <2>2, <2>3, StepFinds
  <2> QED
    BY <2>4
<1>5. Len(feed) \in S
  <2> HIDE DEF S
  <2>1. \A k \in 0 .. Len(feed) : k \in S
    BY <1>0, <1>3, <1>4, UpTo
  <2> QED
    BY <1>0, <2>1
<1> QED
  BY <1>1, <1>5

-----------------------------------------------------------------------------
(* The registry as a state machine.                                        *)

OutcomeFound ==
    outcome.succeeded =>
        /\ outcome.feed \in Seq(Registry!Entry)
        /\ \A i \in 1 .. Len(outcome.feed) :
            outcome.feed[i].state = "usable" /\ ~Registry!Superseded(outcome.feed, i, Len(outcome.feed))
                => Found(Registry!Registry, outcome.feed[i])
RegistryInv == kind \in Kinds /\ Indexed(Registry!Registry) /\ OutcomeFound

\* The registry becomes a value that is indexed.
LEMMA Becomes ==
    ASSUME RegistryInv, NEW r, Indexed(r), Registry!Become(r), kind' = kind
    PROVE  /\ (kind \in Kinds)' /\ Indexed(Registry!Registry)'
           /\ \A e : Found(r, e) <=> Found(Registry!Registry, e)'
<1>1. list' = r.list /\ index' = r.index /\ (kind \in Kinds)'
  BY DEF Registry!Become, RegistryInv
<1>2. Indexed(Registry!Registry)'
  <2>1. Registry!Registry' = [list |-> r.list, index |-> r.index]
    BY <1>1 DEF Registry!Registry
  <2>2. Registry!Registry' \in RegistryType
    BY <2>1 DEF Indexed, RegistryType
  <2>3. ASSUME kind' # "eudi" PROVE index' = Registry!Rebuilt(list)'
    <3>1. index' = Registry!Rebuilt(r.list)
      BY <1>1, <2>3 DEF Indexed
    <3>2. Registry!Rebuilt(list)' = Registry!Rebuilt(r.list)
      BY <1>1 DEF Registry!Rebuilt
    <3> QED
      BY <3>1, <3>2
  <2> QED
    BY <2>2, <2>3 DEF Indexed, Registry!Registry
<1>3. ASSUME NEW e PROVE Found(r, e) <=> Found(Registry!Registry, e)'
  BY <1>1 DEF Found, Registry!Registry
<1> QED
  BY <1>1, <1>2, <1>3

\* A synchronisation
LEMMA SyncedInv ==
    ASSUME RegistryInv, NEW feed \in Seq(Registry!Entry), NEW w, Registry!Synced(feed, w), kind' = kind,
           Indexed(w.registry), w.failed \in BOOLEAN, ~w.failed => WalkFinds(w, feed, Len(feed))
    PROVE  RegistryInv'
<1>1. /\ (kind \in Kinds)' /\ Indexed(Registry!Registry)'
      /\ \A e : Found(w.registry, e) <=> Found(Registry!Registry, e)'
  BY Becomes DEF Registry!Synced
<1>2. CASE w.failed
  <2>1. outcome'.succeeded = FALSE
    BY <1>2 DEF Registry!Synced, Registry!NoOutcome
  <2> QED
    BY <1>1, <2>1 DEF RegistryInv, OutcomeFound
<1>3. CASE ~w.failed
  <2>1. outcome' = [feed |-> feed, succeeded |-> TRUE]
    BY <1>3 DEF Registry!Synced
  <2>2. outcome'.feed = feed
    BY <2>1
  <2>3. ASSUME NEW i \in 1 .. Len(feed), feed[i].state = "usable", ~Registry!Superseded(feed, i, Len(feed))
        PROVE  Found(Registry!Registry, feed[i])'
    <3>1. Found(w.registry, feed[i])
      BY <1>3, <2>3 DEF WalkFinds
    <3> QED
      BY <1>1, <3>1
  <2>4. ASSUME NEW i \in 1 .. Len(outcome'.feed), outcome'.feed[i].state = "usable",
               ~Registry!Superseded(outcome.feed, i, Len(outcome.feed))'
        PROVE  Found(Registry!Registry, outcome.feed[i])'
    <3>1. ~Registry!Superseded(feed, i, Len(feed))
      BY <2>2, <2>4 DEF Registry!Superseded
    <3>2. Found(Registry!Registry, feed[i])'
      BY <2>2, <2>3, <2>4, <3>1
    <3> QED
      BY <2>2, <3>2 DEF Found
  <2>5. OutcomeFound'
    BY <2>2, <2>4 DEF OutcomeFound
  <2> QED
    BY <1>1, <2>5 DEF RegistryInv
<1> QED
  BY <1>2, <1>3

LEMMA RegistryStep ==
    RegistryInv /\ [Registry!Next]_(Registry!vars) => RegistryInv'
<1> SUFFICES ASSUME RegistryInv, [Registry!Next]_(Registry!vars) PROVE RegistryInv'
  OBVIOUS
<1>0. kind \in Kinds /\ Indexed(Registry!Registry) /\ kind \in {"iaca", "csca", "eudi"}
  BY FeedAssumption DEF RegistryInv
<1>1. ASSUME NEW r, Indexed(r), Registry!Become(r), kind' = kind, outcome' = Registry!NoOutcome
      PROVE  RegistryInv'
  <2>1. (kind \in Kinds)' /\ Indexed(Registry!Registry)'
    BY <1>1, Becomes
  <2>2. outcome'.succeeded = FALSE
    BY <1>1 DEF Registry!NoOutcome
  <2> QED
    BY <2>1, <2>2 DEF RegistryInv, OutcomeFound
<1>2. ASSUME NEW a \in Registry!Anchor, Registry!AddAnchor(a) PROVE RegistryInv'
  BY <1>0, <1>1, <1>2, PushedIndexed DEF Registry!AddAnchor
<1>3. ASSUME NEW t, Registry!RemoveAnchor(t) PROVE RegistryInv'
  BY <1>0, <1>1, <1>3, RemovedIndexed DEF Registry!RemoveAnchor
<1>4. ASSUME Registry!Clear PROVE RegistryInv'
  <2> DEFINE r == [list |-> <<>>, index |-> [j \in Jurisdictions |-> <<>>]]
  <2>1. r \in RegistryType
    BY DEF RegistryType
  <2>2. Indexed(r)
    BY <1>4, <2>1 DEF Indexed, Registry!Clear
  <2>3. Registry!Become(r) /\ kind' = kind /\ outcome' = Registry!NoOutcome
    BY <1>4 DEF Registry!Clear
  <2> HIDE DEF r
  <2> QED
    BY <1>1, <2>2, <2>3
<1>5. ASSUME NEW f \in Seq(Registry!Entry), NEW fatal, Registry!Synced(f, Registry!Walk(f, fatal)), kind' = kind
      PROVE  RegistryInv'
  <2> DEFINE w == Registry!Walk(f, fatal)
  <2>2. WalkFinds(w, f, Len(f))
    BY <1>0, WalkedFinds
  <2> HIDE DEF w
  <2>3. Indexed(w.registry) /\ w.failed \in BOOLEAN
    BY <2>2 DEF WalkFinds
  <2>4. Registry!Synced(f, w)
    BY <1>5 DEF w
  <2> QED
    BY <1>5, <2>2, <2>3, <2>4, SyncedInv
<1>6. ASSUME NEW f \in Seq(Registry!Entry), kind' = kind,
             Registry!Synced(f, [registry |-> Registry!Registry, failed |-> TRUE])
      PROVE  RegistryInv'
  <2> DEFINE w == [registry |-> Registry!Registry, failed |-> TRUE]
  <2>1. Indexed(w.registry) /\ w.failed = TRUE
    BY <1>0
  <2>2. Registry!Synced(f, w)
    BY <1>6
  <2> HIDE DEF w
  <2> QED
    BY <1>6, <2>1, <2>2, SyncedInv
<1>15. ASSUME NEW f \in Feeds
       PROVE  f \in Seq(Registry!Entry) /\ Registry!InUpperCase(f) \in Seq(Registry!Entry)
  <2>1. f \in Seq(Registry!Entry)
    BY FeedAssumption
  <2>2. ASSUME NEW i \in 1 .. Len(f)
        PROVE  [f[i] EXCEPT !.jurisdiction = Upper[f[i].jurisdiction]] \in Registry!Entry
    <3>1. f[i] \in Registry!Entry
      BY <2>1
    <3> QED
      BY <3>1, FeedAssumption DEF Registry!Entry
  <2>3. Registry!InUpperCase(f) = [i \in 1 .. Len(f) |-> [f[i] EXCEPT !.jurisdiction = Upper[f[i].jurisdiction]]]
    BY DEF Registry!InUpperCase
  <2>4. Len(f) \in Nat
    BY <2>1
  <2> QED
    BY <2>1, <2>2, <2>3, <2>4
<1>7. ASSUME NEW f \in Feeds, Registry!SyncAamva(f) PROVE RegistryInv'
  BY <1>5, <1>7, <1>15 DEF Registry!SyncAamva
<1>8. ASSUME NEW f \in Feeds, Registry!SyncIcao(f) PROVE RegistryInv'
  BY <1>5, <1>6, <1>8, <1>15 DEF Registry!SyncIcao
<1>9. ASSUME NEW f \in Feeds, Registry!MergeFromDirectory(f) PROVE RegistryInv'
  BY <1>5, <1>6, <1>9, <1>15 DEF Registry!MergeFromDirectory
<1>10. ASSUME NEW f \in Feeds, Registry!SyncEudi(f) PROVE RegistryInv'
  BY <1>5, <1>10, <1>15 DEF Registry!SyncEudi
<1>11. ASSUME UNCHANGED <<kind, list, index>>, outcome' = Registry!NoOutcome \/ outcome' = outcome
       PROVE  RegistryInv'
  <2>1. Registry!Become(Registry!Registry)
    BY <1>11 DEF Registry!Become, Registry!Registry
  <2>2. CASE outcome' = Registry!NoOutcome
    BY <1>0, <1>1, <1>11, <2>1, <2>2
  <2>3. CASE outcome' = outcome
    BY <1>11, <2>3 DEF RegistryInv, OutcomeFound, Indexed, Found, Registry!Registry, Registry!Rebuilt,
       Registry!Superseded
  <2> QED
    BY <1>11, <2>2, <2>3
<1>12. ASSUME Registry!SyncAamvaRefused \/ Registry!ExpireToken \/ UNCHANGED Registry!vars PROVE RegistryInv'
  BY <1>11, <1>12 DEF Registry!SyncAamvaRefused, Registry!ExpireToken, Registry!vars
<1>13. ASSUME NEW s \in Subjects, NEW j \in Jurisdictions
       PROVE  /\ [subject |-> s, purpose |-> kind, jurisdiction |-> j] \in Registry!Anchor
              /\ [subject |-> s, purpose |-> "other", jurisdiction |-> Registry!NoJurisdiction] \in Registry!Anchor
  BY <1>0 DEF Registry!Anchor
<1>14. ASSUME NEW s \in Subjects
       PROVE  [subject |-> s, purpose |-> "other", jurisdiction |-> Registry!NoJurisdiction] \in Registry!Anchor
  BY DEF Registry!Anchor
<1> QED
  BY <1>2, <1>3, <1>4, <1>7, <1>8, <1>9, <1>10, <1>12, <1>13, <1>14 DEF Registry!Next

LEMMA RegistryInit ==
    Registry!Init => RegistryInv
<1> SUFFICES ASSUME Registry!Init PROVE RegistryInv
  OBVIOUS
<1> DEFINE r == Registry!Registry
<1>1. kind \in Kinds /\ list = <<>> /\ index = [j \in Jurisdictions |-> <<>>] /\ outcome.succeeded = FALSE
  BY DEF Registry!Init, Registry!NoOutcome
<1>2. r \in RegistryType
  BY <1>1 DEF Registry!Registry, RegistryType
<1>3. index = Registry!Rebuilt(list)
  <2>1. ASSUME NEW P PROVE Registry!InOrder(P, Len(list)) = <<>>
    BY <1>1, InOrderStep
  <2> QED
    BY <1>1, <2>1 DEF Registry!Rebuilt
<1>4. r.index = index /\ r.list = list
  BY DEF Registry!Registry
<1> QED
  BY <1>1, <1>2, <1>3, <1>4 DEF RegistryInv, Indexed, OutcomeFound

\* Lookups in a registry of anchors tell the truth about its list and its feeds,
\* and every entry of a synchronised registry is as its publisher had it at
\* some moment of the synchronisation, whatever the anchors, feeds, entries,
\* page sizes and answers (trust_anchor/, pkd/, trust_sync.rs).
THEOREM RegistryFaithfulCorrect == MCSpec => []RegistryFaithful
<1> DEFINE Inv == RegistryInv /\ SyncInv
<1>1. MCInit => Inv
  BY RegistryInit, SyncInit DEF MCInit
<1>2. Inv /\ [MCNext]_allVars => Inv'
  <2> SUFFICES ASSUME Inv, [MCNext]_allVars PROVE Inv'
    OBVIOUS
  <2>1. [Registry!Next]_(Registry!vars)
    BY DEF MCNext, allVars, registryVars, Registry!vars
  <2>2. [Sync!Next]_(Sync!vars)
    BY DEF MCNext, allVars, syncVars, Sync!vars
  <2> QED
    BY <2>1, <2>2, RegistryStep, SyncStep
<1>3. Inv => RegistryFaithful
  <2> SUFFICES ASSUME Inv PROVE RegistryFaithful
    OBVIOUS
  <2>1. Registry!IndexFaithful
    BY IndexIsFaithful DEF RegistryInv
  <2>2. Registry!SyncedIsFound
    <3> SUFFICES ASSUME outcome.succeeded, NEW i \in DOMAIN outcome.feed, outcome.feed[i].state = "usable",
                        Upper[outcome.feed[i].jurisdiction] = outcome.feed[i].jurisdiction,
                        ~Registry!Superseded(outcome.feed, i, Len(outcome.feed))
                 PROVE  LET j == outcome.feed[i].jurisdiction IN
                        \E p \in DOMAIN Registry!Lookup(j) :
                            Registry!Lookup(j)[p].subject = outcome.feed[i].subject
      BY DEF Registry!SyncedIsFound
    <3>1. i \in 1 .. Len(outcome.feed) /\ outcome.feed[i] \in Registry!Entry
      BY DEF RegistryInv, OutcomeFound
    <3>2. Found(Registry!Registry, outcome.feed[i])
      BY <3>1 DEF RegistryInv, OutcomeFound
    <3> QED
      BY <3>1, <3>2, FoundIsLookedUp DEF RegistryInv
  <2>3. Sync!MirrorFaithful
    BY DEF Sync!MirrorFaithful, SyncInv, StoredFaithful, Had
  <2> QED
    BY <2>1, <2>2, <2>3 DEF RegistryFaithful, Registry!RegistryFaithful
<1> QED
  BY <1>1, <1>2, <1>3, PTL DEF MCSpec

=============================================================================
