--------------------------- MODULE CertificateChains ---------------------------
(***************************************************************************)
(* X.509 path validation (src/verification/chain.rs of marty-verification) *)
(* with the revocation lists and OCSP responses it consults (src/crl.rs,   *)
(* src/ocsp.rs and src/certificate.rs of marty-crypto). A validator is     *)
(* given anchors, intermediates, CRLs and OCSP responses one by one, while *)
(* time passes and certificates are revoked; a chain may be put to it at   *)
(* any moment. Keys stand for key pairs, signatures for the key that made  *)
(* them, encodings are left out. Who issues certificates, lists and        *)
(* responses, or makes them up, is external.                               *)
(***************************************************************************)
EXTENDS Integers, Sequences, FiniteSets

CONSTANTS
    Certs,          \* every certificate there is, genuine or forged
    Anchors,        \* the ones that may be configured as trust anchors
    Intermediates,  \* ... or as intermediates
    Chains,         \* sequences of certificates put to the validator
    Configs,        \* ChainValidatorConfig
    Keys,           \* key pairs
    Owned,          \* the keys the authorities hold: CRLs are signed with them
    Delegates,      \* certificates of OCSP responders the authorities appointed
    Asked,          \* the certificates that OCSP responses are about
    Foreign,        \* keys that made-up CRLs and responses are signed with
    CrlValidity,    \* nextUpdate - thisUpdate of a genuine list or response
    CrlSkew,        \* CLOCK_SKEW_SECS, of lists and of responses
    CrlMaxAge,      \* MAX_AGE_WITHOUT_NEXT_UPDATE_SECS, of both
    LastMoment,     \* bound on the clock
    MaxCrls         \* bound on the CRLs and responses supplied

Moments == 1 .. LastMoment
Never == 0
NoPathLen == 99
Usages == {"digitalSignature", "keyCertSign", "cRLSign"}

\* What the validator and authenticate_crl read of a certificate
\* (check_is_ca, parse_key_usage, x509_time_to_datetime); "signed" is the key
\* the signature verifies under, "sound" that the inner algorithm is the outer,
\* "ocspSigning" that the extended key usage allows to sign responses.
CertificateInfo ==
    [id : STRING, subject : STRING, issuer : STRING, key : Keys, signed : Keys, sound : BOOLEAN,
     from : Nat, until : Nat, constraints : {"none", "end", "ca"}, pathLen : Nat,
     usage : SUBSET Usages, hasUsage : BOOLEAN, ocspSigning : BOOLEAN,
     extensions : {"plain", "duplicate", "unknownCritical", "unenforced"}]

ASSUME CertificateAssumption ==
    /\ Certs \subseteq CertificateInfo
    /\ Anchors \cup Intermediates \cup Delegates \cup Asked \subseteq Certs
    /\ Chains \subseteq Seq(Certs)
    /\ Configs \subseteq [crl : BOOLEAN, ocsp : BOOLEAN, hard : BOOLEAN, moment : Nat, required : SUBSET Usages]
    /\ Owned \cup Foreign \subseteq Keys /\ Owned \cap Foreign = {}
    /\ {CrlValidity, CrlSkew, CrlMaxAge, LastMoment, MaxCrls} \subseteq Nat

NoVerdict == [chain |-> <<>>, valid |-> FALSE, warned |-> FALSE]

VARIABLES
    clock,          \* the system clock
    revocations,    \* revocations[c]: since when certificate c is revoked, or Never
    anchors, intermediates, crls, responses, config,    \* the ChainValidator
    verdict         \* the ChainValidationResult just returned

vars == <<clock, revocations, anchors, intermediates, crls, responses, config, verdict>>
validator == <<anchors, intermediates, crls, responses, config>>

\* ChainValidator::with_config
Init ==
    /\ clock = 1
    /\ revocations = [c \in Certs |-> Never]
    /\ anchors = {} /\ intermediates = {} /\ crls = {} /\ responses = {}
    /\ config \in Configs
    /\ verdict = NoVerdict

-----------------------------------------------------------------------------
(* The checks of a path.                                                   *)

\* verify_parsed_certificate_signature
SignatureVerifies(c, issuer) == c.sound /\ c.signed = issuer.key

\* check_validity, at the configured moment or now
CheckValidity(c) ==
    LET t == IF config.moment = Never THEN clock ELSE config.moment
    IN c.from <= t /\ t <= c.until

VerifyChainSignatures(chain) ==
    \A i \in 1 .. Len(chain) - 1 :
        chain[i].issuer = chain[i + 1].subject /\ SignatureVerifies(chain[i], chain[i + 1])

\* Mutant of CheckChainConstraints: keyCertSign stands in for BasicConstraints.
CheckChainConstraintsUsageOnly(chain) ==
    /\ \A i \in DOMAIN chain : chain[i].sound /\ chain[i].extensions = "plain"
    /\ \A i \in 2 .. Len(chain) :
        chain[i].hasUsage => chain[i].usage \cap {"keyCertSign", "digitalSignature"} # {}

CheckChainConstraints(chain) ==
    /\ \A i \in DOMAIN chain : chain[i].sound /\ chain[i].extensions = "plain"
    /\ Len(chain) > 1 => chain[1].constraints # "ca"
    /\ \A i \in 2 .. Len(chain) :
        /\ chain[i].constraints = "ca"
        /\ chain[i].hasUsage => "keyCertSign" \in chain[i].usage
        /\ Cardinality({j \in 2 .. i - 1 : chain[j].subject # chain[j].issuer})
              <= chain[i].pathLen

\* check_key_usage: no KeyUsage extension, no constraint
CheckKeyUsage(c) == c.hasUsage => config.required \subseteq c.usage

\* verify_trust_anchor: the last certificate is an anchor, is signed by one,
\* or is signed by a configured intermediate that an anchor signed.
VerifyTrustAnchor(chain) ==
    LET last == chain[Len(chain)]
        By(c, issuers) == {i \in issuers : i.subject = c.issuer /\ SignatureVerifies(c, i)}
    IN \/ last.issuer = last.subject /\ last \in anchors
       \/ By(last, anchors) # {}
       \/ \E i \in By(last, intermediates) : By(i, anchors) # {}

-----------------------------------------------------------------------------
(* Revocation evidence.                                                    *)

\* A CRL as an authority signs it and as one may be found: next = Never
\* stands for a list without nextUpdate, serials for their normalised form.
Crl == [issuer : STRING, signed : Keys, sound : BOOLEAN, delta : BOOLEAN,
        this : Moments, next : Nat, serials : SUBSET Certs]

\* validate_crl_freshness
CrlIsFresh(l) ==
    /\ l.this <= clock + CrlSkew
    /\ IF l.next # Never THEN l.next >= l.this /\ clock <= l.next + CrlSkew
       ELSE clock <= l.this + CrlMaxAge + CrlSkew

AuthenticateCrl(l, issuer) ==
    /\ l.issuer = issuer.subject /\ l.sound
    /\ issuer.constraints = "ca"
    /\ issuer.hasUsage => "cRLSign" \in issuer.usage
    /\ ~l.delta
    /\ l.signed = issuer.key
    /\ CrlIsFresh(l)

\* The certificates that could be the issuer's, wherever they come from.
IssuersOf(c, chain) ==
    {i \in anchors \cup intermediates \cup {chain[j] : j \in DOMAIN chain} : i.subject = c.issuer}

\* check_revocation: validate_crl_for_certificate of every list under every
\* issuer; one that lists the certificate wins over any that does not.
CheckRevocation(c, chain) ==
    LET evidence == {l \in crls : \E i \in IssuersOf(c, chain) :
                        SignatureVerifies(c, i) /\ AuthenticateCrl(l, i)}
    IN IF \E l \in evidence : c \in l.serials THEN "revoked"
       ELSE IF evidence # {} THEN "good" ELSE "failed"

\* A responder names itself, by its subject or by its key.
ByName(c) == <<"name", c.subject>>
ByKey(c) == <<"key", c.key>>

\* The one SingleResponse of an OCSP response about a certificate; "issuer" is
\* the name and key of its CertID, "certs" the certificates sent along.
Response ==
    [serial : Certs, issuer : STRING \X Keys, status : {"good", "revoked", "unknown"},
     produced : Moments, this : Moments, next : Nat, signed : Keys,
     id : ({"name"} \X STRING) \cup ({"key"} \X Keys), certs : SUBSET Certs]

\* validate_certificate_current
IsCurrent(c) == c.from <= clock /\ clock <= c.until

\* select_authorized_responder: the issuer itself, or the only certificate sent
\* along that has the responder's name, if the issuer made it for signing
\* responses; the signature must be under that responder's key.
ResponderAuthorized(r, issuer) ==
    LET named == {d \in r.certs : r.id \in {ByName(d), ByKey(d)}} IN
    IF r.id \in {ByName(issuer), ByKey(issuer)}
    THEN IsCurrent(issuer) /\ r.signed = issuer.key
    ELSE /\ Cardinality(named) = 1
         /\ \A d \in named :
               /\ d.issuer = issuer.subject /\ SignatureVerifies(d, issuer) /\ IsCurrent(d)
               /\ d.ocspSigning /\ (d.hasUsage => "digitalSignature" \in d.usage)
               /\ r.signed = d.key

\* validate_ocsp_freshness
OcspIsFresh(r) ==
    /\ r.produced <= clock + CrlSkew /\ r.this <= clock + CrlSkew
    /\ r.this <= r.produced + CrlSkew
    /\ IF r.next # Never
       THEN r.next >= r.this /\ clock <= r.next + CrlSkew /\ r.produced <= r.next + CrlSkew
       ELSE clock <= r.this + CrlMaxAge + CrlSkew

\* validate_ocsp_response and cert_id_matches
ResponseValid(r, c, issuer) ==
    /\ SignatureVerifies(c, issuer)
    /\ r.serial = c /\ r.issuer = <<issuer.subject, issuer.key>>
    /\ ResponderAuthorized(r, issuer)
    /\ OcspIsFresh(r)

\* check_ocsp_status over validated responses: "unknown" is no evidence.
CheckOcspStatus(c, chain) ==
    LET evidence == {r \in responses : \E i \in IssuersOf(c, chain) : ResponseValid(r, c, i)}
    IN IF \E r \in evidence : r.status = "revoked" THEN "revoked"
       ELSE IF \E r \in evidence : r.status = "good" THEN "good" ELSE "failed"

\* The revocation part of validate_parsed_chain: whether there is anything to
\* report about a chain. A configured anchor is not looked up.
RevocationTrouble(chain) ==
    LET looked == {chain[i] : i \in DOMAIN chain} \ anchors
    IN \/ config.crl /\ (crls = {} \/ \E c \in looked : CheckRevocation(c, chain) # "good")
       \/ config.ocsp /\ (responses = {} \/ \E c \in looked : CheckOcspStatus(c, chain) # "good")

\* validate_chain, validate_chain_der and validate_parsed_chain
ValidateChain(chain) ==
    LET paths ==
            /\ chain # <<>>
            /\ \A i \in DOMAIN chain : CheckValidity(chain[i])
            /\ VerifyChainSignatures(chain)
            /\ CheckChainConstraints(chain)
            /\ CheckKeyUsage(chain[1])
            /\ VerifyTrustAnchor(chain)
        trouble == chain # <<>> /\ RevocationTrouble(chain)
    IN [chain |-> chain, valid |-> paths /\ ~(trouble /\ config.hard), warned |-> trouble /\ ~config.hard]

-----------------------------------------------------------------------------
(* Steps.                                                                  *)

AddTrustAnchor(c) ==
    /\ anchors' = anchors \cup {c} /\ UNCHANGED verdict
    /\ UNCHANGED <<clock, revocations, intermediates, crls, responses, config>>

AddIntermediate(c) ==
    /\ intermediates' = intermediates \cup {c} /\ UNCHANGED verdict
    /\ UNCHANGED <<clock, revocations, anchors, crls, responses, config>>

\* A CRL reaches add_crl_der: one an authority builds now,
\* listing what it has revoked, or one made up with a key that is not its own.
AddCrl(l) ==
    /\ Cardinality(crls) < MaxCrls
    /\ crls' = crls \cup {l} /\ UNCHANGED verdict
    /\ UNCHANGED <<clock, revocations, anchors, intermediates, responses, config>>

\* The list of the holder of certificate ca.
BuildCrl(ca) ==
    [issuer |-> ca.subject, signed |-> ca.key, sound |-> TRUE, delta |-> FALSE,
     this |-> clock, next |-> clock + CrlValidity,
     serials |-> {c \in Certs : c.issuer = ca.subject /\ revocations[c] # Never}]

\* Lists under an authority's name that say nothing is revoked: signed with
\* another key, or only a delta.
MadeUpCrls(ca) ==
    {[BuildCrl(ca) EXCEPT !.signed = k, !.serials = {}, !.next = Never] : k \in Foreign}
    \cup {[BuildCrl(ca) EXCEPT !.delta = TRUE, !.serials = {}]}

\* add_ocsp_response_der
AddOcspResponse(r) ==
    /\ Cardinality(responses) < MaxCrls
    /\ responses' = responses \cup {r} /\ UNCHANGED verdict
    /\ UNCHANGED <<clock, revocations, anchors, intermediates, crls, config>>

\* What authority ca says of a certificate now, itself and dated.
OcspAnswer(c, ca, status) ==
    [serial |-> c, issuer |-> <<ca.subject, ca.key>>, status |-> status,
     produced |-> clock, this |-> clock, next |-> clock + CrlValidity,
     signed |-> ca.key, id |-> ByName(ca), certs |-> {}]

\* ... and through a responder it appointed, who leaves nextUpdate out.
OcspDelegated(c, ca, status, d) ==
    [OcspAnswer(c, ca, status) EXCEPT !.signed = d.key, !.id = ByKey(d), !.certs = {d}, !.next = Never]

\* Genuine answers; "unknown" may be said of any certificate.
Told(c) == {IF revocations[c] # Never THEN "revoked" ELSE "good", "unknown"}
Answers(c, ca) ==
    {OcspAnswer(c, ca, s) : s \in Told(c)}
    \cup {OcspDelegated(c, ca, x[1], x[2]) : x \in Told(c) \X {d \in Delegates : d.issuer = ca.subject}}

\* Answers that all is well under a key that is not the authority's: in its
\* name, or with a certificate of that key.
MadeUpAnswers(c, ca) ==
    {[OcspAnswer(c, ca, "good") EXCEPT !.signed = k, !.next = Never] : k \in Foreign}
    \cup {[OcspAnswer(c, ca, "good") EXCEPT !.signed = d.key, !.id = ByKey(d), !.certs = {d}] :
            d \in {e \in Certs : e.key \in Foreign /\ e.issuer = ca.subject}}

\* Certificates are revoked and time passes.
Revoke(c) ==
    /\ revocations[c] = Never
    /\ revocations' = [revocations EXCEPT ![c] = clock] /\ UNCHANGED verdict
    /\ UNCHANGED <<clock, validator>>

Advance ==
    /\ clock < LastMoment
    /\ clock' = clock + 1 /\ UNCHANGED verdict
    /\ UNCHANGED <<revocations, validator>>

Validate(chain) ==
    /\ verdict' = ValidateChain(chain)
    /\ UNCHANGED <<clock, revocations, validator>>

Authorities == {c \in Certs : c.constraints = "ca" /\ c.key \in Owned /\ "cRLSign" \in c.usage}
Revocable == {c \in Certs : c.constraints = "end" /\ c.signed \in Owned}

\* Nobody configures an end-entity certificate as an anchor: the revocation of
\* an anchor is not looked up.
ASSUME AnchorAssumption == Anchors \cap Revocable = {}

\* What is configured are authorities: validate_chain checks the constraints
\* of the certificates in the chain only. And authorities certify authorities
\* alone, save where a path length of zero says that none may follow.
ASSUME AuthorityAssumption ==
    /\ \A a \in Anchors \cup Intermediates : a.constraints = "ca" /\ a.key \in Owned
    /\ \A a \in Anchors : a.issuer = a.subject => a.signed = a.key
    /\ \A c \in Certs : c.constraints = "ca" /\ c.signed \in Owned /\ c.key \notin Owned =>
        /\ c.subject # c.issuer
        /\ \A a \in Certs : a.key = c.signed /\ a.subject = c.issuer /\ a.constraints = "ca"
                           => a.pathLen = 0

\* Authorities make certificates for signing responses for responders they
\* appointed only, and nobody else has those keys.
ASSUME DelegateAssumption ==
    \A c \in Certs : c.signed \in Owned /\ c.ocspSigning => c.key \notin Foreign

\* The caller takes the result before it does anything else.
Return ==
    /\ verdict # NoVerdict
    /\ verdict' = NoVerdict
    /\ UNCHANGED <<clock, revocations, validator>>

Next ==
    \/ /\ verdict = NoVerdict
       /\ \/ \E c \in Anchors : AddTrustAnchor(c)
          \/ \E c \in Intermediates : AddIntermediate(c)
          \/ \E a \in Authorities : config.crl /\ AddCrl(BuildCrl(a))
          \/ \E a \in Authorities : \E l \in MadeUpCrls(a) : config.crl /\ AddCrl(l)
          \/ \E c \in Asked, a \in Authorities : \E answer \in Answers(c, a) :
              config.ocsp /\ c.signed = a.key /\ AddOcspResponse(answer)
          \/ \E c \in Asked, a \in Authorities : \E answer \in MadeUpAnswers(c, a) :
              config.ocsp /\ c.signed = a.key /\ AddOcspResponse(answer)
          \/ \E c \in Revocable : Revoke(c)
          \/ Advance
          \/ \E chain \in Chains : Validate(chain)
    \/ Return

Spec == Init /\ [][Next]_vars

-----------------------------------------------------------------------------
(* Properties.                                                             *)

\* Whom an authority certified: an owned key signed it, and that key's own
\* certificate makes it an authority.
Issued == {c \in Certs : c.signed \in Owned /\ c.sound /\
              \E a \in Certs : a.key = c.signed /\ a.subject = c.issuer /\ a.constraints = "ca"}

\* The last certificate of a chain makes its holder an authority, and one that
\* is configured signed it in spite of its own path length of zero.
PathLengthUncounted(chain) ==
    LET last == chain[Len(chain)] IN
    /\ Len(chain) > 1 /\ last.key \notin Owned
    /\ \E a \in anchors \cup intermediates :
          a.pathLen = 0 /\ a.subject = last.issuer /\ SignatureVerifies(last, a)

\* A certificate is accepted only if an authority issued it: whatever chain is
\* built around it, no holder of an end-entity certificate, no forged authority
\* of the same name and no authority beyond the path length of an issuer in the
\* chain can make validate_chain accept one.  The one way past a path length is
\* that of a configured anchor or intermediate that is not sent along:
\* verify_trust_anchor reads its name and key and not its constraints.
OnlyIssuedAccepted ==
    verdict.valid => verdict.chain[1] \in Issued \/ PathLengthUncounted(verdict.chain)

\* With hard_fail and CRLs or OCSP on, an end-entity certificate is not accepted
\* after its revocation for longer than a list or a response is accepted:
\* whatever of them have been supplied, made up ones too, in whatever order,
\* signed by the issuer or its responder, and however old.
LongestList == (IF CrlValidity > CrlMaxAge THEN CrlValidity ELSE CrlMaxAge) + CrlSkew
RevokedSurfacesInChains ==
    verdict.valid /\ config.hard /\ (config.crl \/ config.ocsp)
    => \A i \in DOMAIN verdict.chain :
        LET at == revocations[verdict.chain[i]]
        IN at # Never => clock <= at + LongestList
=============================================================================
