------------------------- MODULE VerifiableCredentials -------------------------
(***************************************************************************)
(* W3C credentials in their three securings, from issuer to verifier:      *)
(* JWTs (formats/jwt_vc.rs of marty-oid4vci, vcdm.rs), Data Integrity      *)
(* proofs whose signature is made elsewhere (vcdm.rs) and Open Badges with *)
(* their status lists (open_badges of marty-verification). A signature is  *)
(* the key with what it signs. The ssi library, the remote signer, the     *)
(* issuers of badges, the status authority and the holder are external.    *)
(***************************************************************************)
EXTENDS Integers, Sequences, FiniteSets, SequencesExt

CONSTANTS
    LastMoment,   \* bound on time
    ListLife      \* moments a status list is valid for

VARIABLES
    moment,       \* the time
    ordered,      \* the credentials an issuer was asked for
    draft,        \* a Data Integrity credential waiting for its signature, kept by the caller
    shown,        \* the document the verifier gets
    asserted,     \* per status entry, since when the authority asserts it, or Never
    cached,       \* the status lists the verifier has fetched
    verdict

vars == <<moment, ordered, draft, shown, asserted, cached, verdict>>

Nothing == [kind |-> "nothing"]
Never == 99
NoDate == -1
Later == -2     \* an order's validity that overflows the calendar

\* A DID URL: its DID and fragment. The DID "key" is a did:key, which carries its
\* key; "web" is an issuer named by a URL.
Method(did, n) == [did |-> did, n |-> n]
KeyOf(m) == <<m.did, m.n>>
Dids == {"a", "b", "key", "holder"}
Foreign == <<"foreign", 1>>

-----------------------------------------------------------------------------
(* Issuing a JWT.                                                          *)

NoAchievement == [id |-> "", name |-> "", description |-> "", types |-> {}]
Subject(id) == [id |-> id, types |-> {}, achievement |-> NoAchievement, name |-> "", description |-> ""]

\* checked_jwt_vc_expiration
Expiration(at, seconds) == IF seconds = NoDate THEN NoDate ELSE at + seconds

\* merge_required_string: a conflict and an absence are errors.
Merges(existing, legacy) == IF existing = "" THEN legacy # "" ELSE legacy \in {"", existing}
Merged(existing, legacy) == IF existing = "" THEN legacy ELSE existing

\* apply_open_badge_v3_profile
ProfileApplies(o) ==
    LET a == o.subject.achievement IN
    /\ o.holder # "" /\ o.subject.id # "" => o.subject.id = o.holder
    /\ a.id \in {"", o.badge}
    /\ Merges(a.name, o.subject.name) /\ Merges(a.description, o.subject.description)
ApplyOpenBadgeProfile(o) ==
    LET a == o.subject.achievement IN
    [o EXCEPT !.subject =
        [id |-> IF @.id = "" THEN o.holder ELSE @.id, types |-> @.types \cup {"AchievementSubject"},
         name |-> "", description |-> "",
         achievement |-> [id |-> o.badge, name |-> Merged(a.name, @.name), types |-> a.types \cup {"Achievement"},
                          description |-> Merged(a.description, @.description)]],
              !.types = @ \cup {"OpenBadgeCredential"}, !.contexts = @ \cup {"ob3"}]

\* validate_open_badge_v3_profile
OpenBadgeProfileFits(vc) ==
    /\ {"v2", "ob3"} \subseteq vc.contexts /\ {"VerifiableCredential", "OpenBadgeCredential"} \subseteq vc.types
    /\ "AchievementSubject" \in vc.subject.types /\ vc.subject.id # ""
    /\ "Achievement" \in vc.subject.achievement.types
    /\ "" \notin {vc.subject.achievement[f] : f \in {"id", "name", "description"}}

\* The credential of prepare_jwt_vc_with_options: an order that gives its own
\* subject keeps it, one with neither claims nor holder has an empty one; only
\* the second data model has validFrom.
JwtCredential(o, id) ==
    LET until == Expiration(moment, o.seconds) IN
    [id |-> IF o.withId THEN id ELSE "", contexts |-> IF o.v2 THEN o.contexts \cup {"v2"} ELSE {"v1"},
     types |-> o.types \cup {"VerifiableCredential"}, issuer |-> o.signer.did,
     subject |-> IF o.own \/ o.holder = "" THEN o.subject ELSE [o.subject EXCEPT !.id = o.holder],
     from |-> IF o.v2 THEN moment ELSE NoDate, until |-> IF o.v2 THEN until ELSE NoDate, status |-> <<>>]

\* The payload of prepare_jwt_vc_with_options
JwtPayload(o, id) ==
    [iss |-> o.signer.did, jti |-> id, sub |-> IF o.withSub THEN o.holder ELSE "",
     nbf |-> IF o.withNbf THEN moment ELSE NoDate, exp |-> Expiration(moment, o.seconds), vc |-> JwtCredential(o, id)]

\* assemble_jwt_vc: the signature made elsewhere must verify under the signer's
\* public key.
AssembleJwt(o, id, key) ==
    LET header == [alg |-> o.alg, kid |-> o.signer] IN
    [kind |-> "jwt", header |-> header, payload |-> JwtPayload(o, id), changed |-> FALSE,
     sig |-> <<key, header, JwtPayload(o, id)>>]

\* sign_jwt_vc_with_signer: preparing, signing elsewhere and assembling
SignJwtVc(o, key) ==
    /\ shown = Nothing /\ draft = Nothing
    /\ o.badge # "" => ProfileApplies(o)
    /\ o.seconds # Later /\ key = KeyOf(o.signer)
    /\ LET full == IF o.badge = "" THEN o ELSE ApplyOpenBadgeProfile(o) IN
         /\ shown' = AssembleJwt(full, "urn:1", key)
         /\ ordered' = ordered \cup {[key |-> key, alg |-> o.alg, fits |-> ~o.own \/ o.subject.id = o.holder \/ ~o.withSub \/ o.holder = "",
                                      vc |-> JwtCredential(full, "urn:1"), until |-> Expiration(moment, o.seconds)]}
    /\ UNCHANGED <<moment, draft, asserted, cached, verdict>>

-----------------------------------------------------------------------------
(* Verifying a JWT.                                                        *)

\* validate_numeric_dates
NumericDatesFit(p) == p.nbf <= moment /\ (p.exp # NoDate => moment < p.exp)

\* validate_credential_dates
CredentialDatesFit(vc) ==
    /\ vc.from <= moment
    /\ vc.until # NoDate => moment < vc.until /\ vc.from < vc.until

\* validate_credential_subject: not an empty object
SubjectFits(subject) == subject # Subject("")

\* Mutant of JwtClaimsFit: the issuer inside the credential is not compared
JwtClaimsFitNoIssuer(p, kid) ==
    /\ "v2" \in p.vc.contexts /\ "VerifiableCredential" \in p.vc.types
    /\ p.iss \in Dids /\ kid # Nothing => kid.did = p.iss
    /\ SubjectFits(p.vc.subject) /\ p.vc.id \in {"", p.jti}
    /\ p.sub # "" => p.vc.subject.id = p.sub
    /\ NumericDatesFit(p) /\ CredentialDatesFit(p.vc)

\* validate_vcdm_jwt_claims
JwtClaimsFit(p, kid) ==
    /\ "v2" \in p.vc.contexts /\ "VerifiableCredential" \in p.vc.types
    /\ p.vc.issuer = p.iss
    /\ p.iss \in Dids /\ kid # Nothing => kid.did = p.iss
    /\ SubjectFits(p.vc.subject) /\ p.vc.id \in {"", p.jti}
    /\ p.sub # "" => p.vc.subject.id = p.sub
    /\ NumericDatesFit(p) /\ CredentialDatesFit(p.vc)

\* verify_vcdm_jwt: with the issuer's key, or the key of a did:key. One key made
\* of each kind, so the algorithm must be its own.
JwtValid(t, jwk) ==
    LET key == IF jwk # <<>> THEN jwk ELSE KeyOf(t.header.kid) IN
    /\ t.header.alg \in {"EdDSA", "ES256"}
    /\ jwk = <<>> => t.header.kid # Nothing /\ t.header.kid.did = "key"
    /\ t.sig = <<key, t.header, t.payload>>
    /\ JwtClaimsFit(t.payload, t.header.kid)

\* verify_vcdm_jwt and verify_open_badge_v3_jwt, which hides the claims of a
\* credential it refuses
VerifyJwt(jwk, badge) ==
    /\ shown.kind = "jwt" /\ verdict = Nothing
    /\ LET ok == JwtValid(shown, jwk) /\ (badge => OpenBadgeProfileFits(shown.payload.vc)) IN
         verdict' = [kind |-> "jwt", valid |-> ok, jwk |-> jwk, badge |-> badge, claims |-> badge => ok]
    /\ UNCHANGED <<moment, ordered, draft, shown, asserted, cached>>

-----------------------------------------------------------------------------
(* Data Integrity.                                                         *)

\* validate_vcdm_issuance_document and its helpers: the base context first, known
\* types, the asked issuer if one is named, ordered dates, resources once each.
IssuanceDocumentFits(vc, did) ==
    /\ "v2" \in vc.contexts /\ "VerifiableCredential" \in vc.types
    /\ "Unknown" \notin vc.types
    /\ vc.issuer \in {"", did}
    /\ vc.from # NoDate /\ vc.until # NoDate => vc.from <= vc.until

\* validate_data_integrity_identity
IdentityFits(vc, did, method) ==
    /\ did \in Dids /\ vc.issuer = did /\ method.did = did
    /\ "VerifiableCredential" \in vc.types /\ "v2" \in vc.contexts

\* validate_data_integrity_issuance_dates
IssuanceDatesFit(vc) == vc.from # NoDate /\ vc.until # NoDate => vc.from <= vc.until

\* ed25519_multikey over parse_public_jwk
MultikeyFits(jwk) == ~jwk.private /\ jwk.curve = "Ed25519"

\* The proof's configuration: what is signed with the document
Config(purpose, method, challenge, domain) ==
    [suite |-> "eddsa-rdfc-2022", purpose |-> purpose, method |-> method, challenge |-> challenge, domain |-> domain]

\* prepare_vcdm_data_integrity_credential: the suite runs up to its signer, which
\* keeps the signing input (CaptureSigner) and gives a signature of zeros.
PrepareDataIntegrity(vc, did, method, jwk) ==
    /\ draft = Nothing /\ shown = Nothing
    /\ IdentityFits(vc, did, method) /\ IssuanceDatesFit(vc) /\ MultikeyFits(jwk)
    /\ draft' = [kind |-> "draft", vc |-> vc, did |-> did, method |-> method, jwk |-> jwk, alg |-> "EdDSA",
                 proof |-> Config("assertionMethod", method, "", ""),
                 input |-> <<vc, Config("assertionMethod", method, "", "")>>]
    /\ ordered' = ordered \cup {[key |-> jwk.key, alg |-> "EdDSA", fits |-> TRUE, vc |-> vc, until |-> vc.until]}
    /\ UNCHANGED <<moment, shown, asserted, cached, verdict>>

\* The caller keeps the draft between the two calls: it may come back changed.
ChangeDraft ==
    /\ draft # Nothing /\ shown = Nothing
    /\ draft' \in {[draft EXCEPT !.vc.subject.id = "other"], [draft EXCEPT !.proof.purpose = "authentication"],
                   [draft EXCEPT !.proof.method.n = 2], [draft EXCEPT !.vc.issuer = "b"],
                   [draft EXCEPT !.jwk.key = Foreign]}
    /\ UNCHANGED <<moment, ordered, shown, asserted, cached, verdict>>

\* complete_vcdm_data_integrity_credential: everything is checked again and the
\* completed proof verified with the draft's key, whatever the date.
Completes(d, sig) ==
    /\ IdentityFits(d.vc, d.did, d.method) /\ IssuanceDatesFit(d.vc) /\ d.alg = "EdDSA" /\ MultikeyFits(d.jwk)
    /\ d.proof.suite = "eddsa-rdfc-2022" /\ d.proof.purpose = "assertionMethod" /\ d.proof.method = d.method
    /\ sig = <<d.jwk.key, <<d.vc, d.proof>>>>

CompleteDataIntegrity(key) ==
    /\ draft # Nothing /\ shown = Nothing
    /\ LET sig == <<key, draft.input>> IN
         /\ Completes(draft, sig)
         /\ shown' = [kind |-> "vc", vc |-> draft.vc, proof |-> draft.proof, value |-> sig, changed |-> FALSE]
    /\ UNCHANGED <<moment, ordered, draft, asserted, cached, verdict>>

\* A presentation by a holder, external
PresentCredential(holder, challenge, domain) ==
    /\ shown.kind = "vc" /\ verdict = Nothing
    /\ LET config == Config("authentication", Method("holder", 1), challenge, domain)
           body == [holder |-> holder, credentials |-> <<shown>>]
       IN shown' = [kind |-> "vp", body |-> body, proof |-> config, changed |-> FALSE,
                    value |-> <<KeyOf(Method("holder", 1)), <<body, config>>>>]
    /\ UNCHANGED <<moment, ordered, draft, asserted, cached, verdict>>

-----------------------------------------------------------------------------
(* Verifying Data Integrity.                                               *)

\* verification_parameters: what the caller resolved, each id once and its
\* controller the DID of its id
ParametersFit(resolved) ==
    /\ \A i \in DOMAIN resolved : resolved[i].controller = resolved[i].id.did /\ MultikeyFits(resolved[i].jwk)
    /\ IsInjective([i \in DOMAIN resolved |-> resolved[i].id])

\* ResolvedDidResolver: the resolved method, or else a did:key resolves itself
KeyFor(resolved, method) ==
    LET given == {i \in DOMAIN resolved : resolved[i].id = method} IN
    IF given # {} THEN resolved[CHOOSE i \in given : TRUE].jwk.key
    ELSE IF method.did = "key" THEN KeyOf(method) ELSE <<"none", 0>>

\* The library's check of a proof: its value under the key of its method, and,
\* for a credential, the date (external)
ProofVerifies(value, content, config, resolved) == value = <<KeyFor(resolved, config.method), <<content, config>>>>
Current(vc) == vc.from <= moment /\ (vc.until # NoDate => moment < vc.until)

\* validate_proofs; a document without a signer is not compared with one.
ProofsFit(proof, purpose, challenge, domain, controller) ==
    /\ proof.suite = "eddsa-rdfc-2022" /\ proof.purpose = purpose
    /\ controller # "" => proof.method.did = controller
    /\ challenge # "" => proof.challenge = challenge
    /\ domain # "" => proof.domain = domain

\* verify_credential
CredentialVerifies(d, resolved) ==
    ParametersFit(resolved) /\ ProofVerifies(d.value, d.vc, d.proof, resolved) /\ Current(d.vc)

\* verify_credential_document
CredentialDocumentValid(d, resolved) ==
    /\ ProofsFit(d.proof, "assertionMethod", "", "", d.vc.issuer) /\ d.vc.issuer # ""
    /\ CredentialVerifies(d, resolved)

\* verify_presentation
PresentationValid(d, resolved, challenge, domain) ==
    /\ ProofsFit(d.proof, "authentication", challenge, domain, d.body.holder)
    /\ challenge # "" /\ domain # ""
    /\ ParametersFit(resolved) /\ ProofVerifies(d.value, d.body, d.proof, resolved)
    /\ \A i \in DOMAIN d.body.credentials :
         LET c == d.body.credentials[i] IN
         ProofsFit(c.proof, "assertionMethod", "", "", c.vc.issuer) /\ CredentialVerifies(c, resolved)

\* verify_vcdm_data_integrity
VerifyDataIntegrity(resolved, challenge, domain) ==
    /\ shown.kind \in {"vc", "vp"} /\ verdict = Nothing
    /\ verdict' = [kind |-> shown.kind, challenge |-> challenge, domain |-> domain, resolved |-> resolved,
                   valid |-> IF shown.kind = "vc" THEN CredentialDocumentValid(shown, resolved)
                             ELSE PresentationValid(shown, resolved, challenge, domain)]
    /\ UNCHANGED <<moment, ordered, draft, shown, asserted, cached>>

-----------------------------------------------------------------------------
(* Open Badges 3.                                                          *)

\* credential_issuer may be a method's own URL; "a#1" is that of a's first.
IssuerUrl == "a#1"

\* An issuer of badges: the method type fixes the suite, the purpose is
\* assertionMethod.
IssueOb3(vc, method, key, methodType, purpose) ==
    /\ shown = Nothing /\ draft = Nothing
    /\ methodType \in {"JsonWebKey2020", "Ed25519VerificationKey2018", "Ed25519VerificationKey2020"}
    /\ purpose = "assertionMethod"
    /\ LET config == [suite |-> methodType, purpose |-> purpose, method |-> method, challenge |-> "", domain |-> ""] IN
         shown' = [kind |-> "ob3", vc |-> vc, proof |-> config, value |-> <<key, <<vc, config>>>>, changed |-> FALSE]
    /\ ordered' = ordered \cup {[key |-> key, alg |-> "EdDSA", fits |-> TRUE, vc |-> vc, until |-> vc.until]}
    /\ UNCHANGED <<moment, draft, asserted, cached, verdict>>

\* collect_verification_methods: a document of the store is a bare method or has
\* methods; the ones embedded in its assertionMethod are methods too.
Entries(store) == FlattenSeq([i \in DOMAIN store |-> store[i].methods \o store[i].embedded])
\* insert_verification_method: an id met twice is ambiguous and resolves to nothing.
Resolved(store, id) == {i \in DOMAIN Entries(store) : Entries(store)[i].id = id}
Authorizations(store) ==
    UNION {{<<store[i].id, m>> : m \in store[i].assertion \cup {e.id : e \in ToSet(store[i].embedded)}} : i \in DOMAIN store}
    \cup {<<m.controller, m.id>> : m \in UNION {ToSet(store[i].methods) : i \in {j \in DOMAIN store : store[j].bare}}}

\* issuer_controller_matches
ControllerMatches(issuer, controller, method) ==
    issuer = controller \/ (issuer = IssuerUrl /\ method = Method("a", 1) /\ controller = "a")

\* validate_issuer_proof_authorization
IssuerAuthorized(vc, proof, store) ==
    LET found == Resolved(store, proof.method) IN
    /\ vc.issuer # "" /\ proof.purpose = "assertionMethod" /\ Cardinality(found) = 1
    /\ \A i \in found :
         LET controller == Entries(store)[i].controller IN
         /\ ControllerMatches(vc.issuer, controller, proof.method)
         /\ <<controller, proof.method>> \in Authorizations(store)

\* The library's verification with the collected methods (external)
StoreVerifies(d, store) ==
    /\ \E i \in Resolved(store, d.proof.method) : d.value = <<Entries(store)[i].key, <<d.vc, d.proof>>>>
    /\ Current(d.vc)

\* parse_status_entry, with validate_status_messages: a message needs its size
\* and texts, one per value.
StatusEntryFits(e) ==
    /\ e.type = "BitstringStatusListEntry" /\ e.purpose \in {"revocation", "suspension", "message"}
    /\ e.size \in 1 .. 8
    /\ e.messages \in {0, 2 ^ e.size}
    /\ e.purpose = "message" \/ e.size > 1 => e.messages # 0

\* decode_status_value: most significant bit first. MinEntries scales the least
\* length of a list.
MinEntries == 2
StatusValue(bits, e) == FoldLeft(LAMBDA v, b : 2 * v + b, 0, SubSeq(bits, e.index * e.size + 1, (e.index + 1) * e.size))
StatusDecodes(bits, e) == Len(bits) \div e.size >= MinEntries /\ (e.index + 1) * e.size <= Len(bits)

\* validate_status_list_model, and the cache may not outlive what was signed.
StatusListFits(l, e) ==
    /\ l.vc.id = e.list /\ "v2" \in l.vc.contexts /\ "BitstringStatusListCredential" \in l.vc.types
    /\ l.vc.issuer = l.trusted /\ l.vc.subject.purpose = e.purpose
    /\ l.vc.from < l.vc.until /\ l.vc.from <= moment /\ moment < l.vc.until
    /\ l.retrieved >= l.vc.from /\ l.fresh <= l.vc.until

\* check_bitstring_status_entry
StatusGood(e, lists) ==
    /\ StatusEntryFits(e)
    /\ \E l \in lists :
         /\ l.url = e.list
         /\ l.retrieved <= moment /\ moment < l.fresh
         /\ StatusListFits(l, e)
         /\ IssuerAuthorized(l.vc, l.proof, l.docs) /\ StoreVerifies(l, l.docs)
         /\ StatusDecodes(l.vc.subject.bits, e) /\ StatusValue(l.vc.subject.bits, e) = 0

\* check_credential_status, with authenticated_list_map: one list per URL
StatusesGood(vc, lists) ==
    vc.status # <<>> =>
        /\ \A l, m \in lists : l.url = m.url => l = m
        /\ \A i \in DOMAIN vc.status : StatusGood(vc.status[i], lists)

\* verify_ob3_with_status_lists
Ob3Valid(d, store, lists) ==
    /\ "ob3" \in d.vc.contexts
    /\ IssuerAuthorized(d.vc, d.proof, store) /\ StoreVerifies(d, store)
    /\ StatusesGood(d.vc, lists)
VerifyOb3(store) ==
    /\ shown.kind = "ob3" /\ verdict = Nothing
    /\ verdict' = [kind |-> "ob3", valid |-> Ob3Valid(shown, store, cached), store |-> store]
    /\ UNCHANGED <<moment, ordered, draft, shown, asserted, cached>>

\* The slot of the status authority an entry stands for
Slot(e) == IF e.list = "revocations" THEN 1 ELSE 2

\* The status authority asserts an entry, and the verifier fetches a list: what
\* AuthenticatedStatusList::new lets it keep (external).
AssertStatus(i) ==
    /\ asserted[i] = Never /\ verdict = Nothing
    /\ asserted' = [asserted EXCEPT ![i] = moment]
    /\ UNCHANGED <<moment, ordered, draft, shown, cached, verdict>>
Bit(i) == IF asserted[i] <= moment THEN 1 ELSE 0
Lists == {"revocations", "messages"}
StatusList(url, key, trusted, fresh) ==
    LET config == [suite |-> "JsonWebKey2020", purpose |-> "assertionMethod", method |-> Method("status", 1),
                   challenge |-> "", domain |-> ""]
        vc == [id |-> url, contexts |-> {"v2"}, types |-> {"VerifiableCredential", "BitstringStatusListCredential"},
               issuer |-> "status", from |-> moment, until |-> moment + ListLife,
               subject |-> IF url = "revocations" THEN [purpose |-> "revocation", bits |-> <<0, Bit(1), 0, 0>>]
                           ELSE [purpose |-> "message", bits |-> <<0, 0, Bit(2), 0>>]]
    IN [url |-> url, vc |-> vc, proof |-> config, value |-> <<key, <<vc, config>>>>, trusted |-> trusted,
        retrieved |-> moment, fresh |-> fresh,
        docs |-> <<[bare |-> FALSE, id |-> "status", embedded |-> <<>>, assertion |-> {Method("status", 1)},
                    methods |-> <<[id |-> Method("status", 1), controller |-> "status", key |-> KeyOf(Method("status", 1))]>>]>>]
Fetch(url, key, trusted, fresh) ==
    /\ shown.kind = "ob3" /\ verdict = Nothing /\ fresh > moment
    /\ \E i \in DOMAIN shown.vc.status : shown.vc.status[i].list = url
    /\ cached' = {l \in cached : l.url # url} \cup {StatusList(url, key, trusted, fresh)}
    /\ UNCHANGED <<moment, ordered, draft, shown, asserted, verdict>>

-----------------------------------------------------------------------------
(* Open Badges 2.                                                          *)

NoVerification == [type |-> "", creator |-> ""]

\* hash_identity
HashIdentity(alg, salt, identity) == <<alg, salt, identity>>
HashAlgorithms == {"sha1", "sha256", "sha512"}

\* The recipient as an issuer writes it
BuildRecipient(r) ==
    [hashed |-> r.hashed, alg |-> r.alg, salt |-> r.salt,
     identity |-> IF r.hashed THEN HashIdentity(r.alg, r.salt, r.identity) ELSE <<r.identity>>]

\* An issuer of assertions, which signs before it sets the verification
IssueOb2(a, r, key, signing) ==
    /\ shown = Nothing /\ draft = Nothing
    /\ r.hashed => r.alg \in HashAlgorithms
    /\ LET full == [a EXCEPT !.recipient = BuildRecipient(r)] IN
         shown' = IF signing = NoVerification
                  THEN [kind |-> "ob2", body |-> full, sig |-> <<>>, changed |-> FALSE, recipient |-> r.identity]
                  ELSE [kind |-> "ob2", body |-> [full EXCEPT !.verification = signing], sig |-> <<key, full>>,
                        changed |-> FALSE, recipient |-> r.identity]
    /\ UNCHANGED <<moment, ordered, draft, asserted, cached, verdict>>

\* verify_recipient_hash: an identity that is not hashed is not compared.
RecipientFits(r, identity) ==
    r.hashed => r.alg \in HashAlgorithms /\ r.identity = HashIdentity(r.alg, r.salt, identity)

\* verify_signature; a body other than the signed one is a warning.
Ob2SignatureHolds(d, keys) ==
    /\ d.sig # <<>> /\ d.body.verification.creator \in DOMAIN keys
    /\ d.sig[1] = keys[d.body.verification.creator]

\* verify_ob2
ShouldVerify(d) == d.body.verification.type = "signed" \/ d.sig # <<>>
VerifyOb2(keys, badges, identity) ==
    /\ shown.kind = "ob2" /\ verdict = Nothing
    /\ verdict' = [kind |-> "ob2", keys |-> keys, identity |-> identity,
                   valid |-> /\ shown.body.badge \in badges
                             /\ identity # "" => RecipientFits(shown.body.recipient, identity)
                             /\ ShouldVerify(shown) => Ob2SignatureHolds(shown, keys),
                   warned |-> IF shown.sig = <<>> THEN TRUE ELSE shown.sig[2] # shown.body]
    /\ UNCHANGED <<moment, ordered, draft, shown, asserted, cached>>

-----------------------------------------------------------------------------
(* The instance: orders that differ from a usual one in one respect.       *)

Ed(key) == [private |-> FALSE, curve |-> "Ed25519", key |-> key]

UsualOrder ==
    [v2 |-> TRUE, holder |-> "h", subject |-> Subject(""), own |-> FALSE, seconds |-> 2, badge |-> "", types |-> {},
     contexts |-> {}, alg |-> "ES256", signer |-> Method("a", 1), withId |-> TRUE, withSub |-> TRUE, withNbf |-> TRUE]
BadgeOrder ==
    [UsualOrder EXCEPT !.own = TRUE, !.badge = "urn:b", !.subject.name = "N", !.subject.description = "D"]
Orders ==
    {UsualOrder, [UsualOrder EXCEPT !.v2 = FALSE], [UsualOrder EXCEPT !.seconds = 0], [UsualOrder EXCEPT !.seconds = NoDate],
     [UsualOrder EXCEPT !.seconds = Later], [UsualOrder EXCEPT !.alg = "ES384"], [UsualOrder EXCEPT !.signer.did = "web"],
     [UsualOrder EXCEPT !.signer.did = "key"], [UsualOrder EXCEPT !.signer.did = "b"],
     [UsualOrder EXCEPT !.own = TRUE, !.subject.id = "other"],
     [UsualOrder EXCEPT !.own = TRUE, !.subject.id = "other", !.withSub = FALSE], [UsualOrder EXCEPT !.withId = FALSE],
     [UsualOrder EXCEPT !.holder = ""], [UsualOrder EXCEPT !.holder = "", !.own = TRUE, !.subject.id = "other"],
     [UsualOrder EXCEPT !.holder = "", !.subject.name = "N"],
     [BadgeOrder EXCEPT !.holder = ""], [BadgeOrder EXCEPT !.holder = "", !.subject.id = "other"],
     BadgeOrder, [BadgeOrder EXCEPT !.subject.id = "other"], [BadgeOrder EXCEPT !.subject.name = ""],
     [BadgeOrder EXCEPT !.subject.achievement.id = "urn:c"], [BadgeOrder EXCEPT !.subject.achievement.name = "N"],
     [BadgeOrder EXCEPT !.subject.achievement.description = "E"]}

Credential ==
    [id |-> "urn:1", contexts |-> {"v2", "ob3"}, types |-> {"VerifiableCredential"}, issuer |-> "a",
     subject |-> Subject("h"), from |-> 0, until |-> 3, status |-> <<>>]
Entry == [type |-> "BitstringStatusListEntry", list |-> "revocations", index |-> 1, purpose |-> "revocation", size |-> 1,
          messages |-> 0]
Message == [Entry EXCEPT !.list = "messages", !.purpose = "message", !.size = 2, !.messages = 4]
Credentials ==
    {Credential, [Credential EXCEPT !.issuer = ""], [Credential EXCEPT !.until = NoDate], [Credential EXCEPT !.from = 1],
     [Credential EXCEPT !.from = 1, !.until = 0], [Credential EXCEPT !.types = @ \cup {"Unknown"}]}
BadgeCredentials ==
    {Credential, [Credential EXCEPT !.issuer = IssuerUrl], [Credential EXCEPT !.contexts = {"v2"}]}
    \cup {[Credential EXCEPT !.status = s] :
            s \in {<<Entry>>, <<Message>>, <<Entry, Message>>, <<[Entry EXCEPT !.purpose = "suspension"]>>,
                   <<[Entry EXCEPT !.index = 4]>>, <<[Message EXCEPT !.messages = 0]>>, <<[Entry EXCEPT !.type = "Other"]>>}}

\* What the verifier can look methods up in
Entry1(n) == [id |-> Method("a", n), controller |-> "a", key |-> KeyOf(Method("a", n))]
Document == [bare |-> FALSE, id |-> "a", methods |-> <<Entry1(1), Entry1(2)>>, assertion |-> {Method("a", 1)}, embedded |-> <<>>]
Stores ==
    {<<>>, <<Document>>, <<Document, Document>>, <<[Document EXCEPT !.bare = TRUE, !.methods = <<Entry1(1)>>, !.assertion = {}]>>,
     <<[Document EXCEPT !.methods = <<>>, !.embedded = <<Entry1(1)>>, !.assertion = {}]>>,
     <<[Document EXCEPT !.embedded = <<Entry1(1)>>]>>}
Resolvable(did) == [id |-> Method(did, 1), controller |-> did, jwk |-> Ed(KeyOf(Method(did, 1)))]
Resolutions ==
    {<<>>, <<Resolvable("a"), Resolvable("holder")>>, <<Resolvable("a"), Resolvable("a")>>,
     <<[Resolvable("a") EXCEPT !.controller = "b"]>>, <<Resolvable("a"), [Resolvable("holder") EXCEPT !.jwk.private = TRUE]>>}

Assertion == [badge |-> "badge", recipient |-> [hashed |-> FALSE], verification |-> NoVerification, text |-> "t"]
Signed == [type |-> "signed", creator |-> "issuer"]

FetchVariants == {<<KeyOf(Method("status", 1)), "status", 0>>, <<Foreign, "status", 0>>, <<KeyOf(Method("status", 1)), "other", 0>>,
                  <<KeyOf(Method("status", 1)), "status", 1>>}

\* What someone without the issuers' keys makes of a document, another issuer
\* (b) included
Resigned(t, key) == [t EXCEPT !.sig = <<key, t.header, t.payload>>]
Changed ==
    CASE shown.kind = "jwt" ->
           {[shown EXCEPT !.payload.vc.subject.id = "other"], [shown EXCEPT !.payload.exp = NoDate],
            [shown EXCEPT !.header.kid = Nothing], Resigned(shown, Foreign),
            Resigned([shown EXCEPT !.payload.iss = "b", !.header.kid = Method("b", 1)], KeyOf(Method("b", 1))),
            Resigned([shown EXCEPT !.payload.iss = "b", !.payload.vc.issuer = "b"], KeyOf(Method("b", 1)))}
      [] shown.kind = "vc" ->
           {[shown EXCEPT !.vc.subject.id = "other"], [shown EXCEPT !.proof.purpose = "authentication"],
            [shown EXCEPT !.vc.until = NoDate, !.proof.method = Method("key", 7),
                          !.value = <<<<"key", 7>>, <<[shown.vc EXCEPT !.until = NoDate],
                                                      [shown.proof EXCEPT !.method = Method("key", 7)]>>>>]}
      [] shown.kind = "vp" ->
           {[shown EXCEPT !.proof.challenge = "c2"], [shown EXCEPT !.body.credentials = <<>>],
            [shown EXCEPT !.body.credentials[1].vc.subject.id = "other"]}
      [] shown.kind = "ob3" ->
           {[shown EXCEPT !.vc.subject.id = "other"], [shown EXCEPT !.vc.status = <<>>],
            [shown EXCEPT !.proof.method.n = 2,
                          !.value = <<KeyOf(Method("a", 2)), <<[shown.vc EXCEPT !.id = "urn:2"],
                                                               [shown.proof EXCEPT !.method.n = 2]>>>>, !.vc.id = "urn:2"]}
      [] OTHER -> {[shown EXCEPT !.body.text = "other"], [shown EXCEPT !.body.verification = NoVerification, !.sig = <<>>]}
Change ==
    /\ shown # Nothing /\ ~shown.changed /\ verdict = Nothing
    /\ \E d \in Changed : shown' = [d EXCEPT !.changed = TRUE]
    /\ UNCHANGED <<moment, ordered, draft, asserted, cached, verdict>>

PassMoment ==
    /\ moment < LastMoment /\ verdict = Nothing
    /\ moment' = moment + 1
    /\ UNCHANGED <<ordered, draft, shown, asserted, cached, verdict>>

Init ==
    /\ moment = 0 /\ ordered = {} /\ draft = Nothing /\ shown = Nothing
    /\ asserted = [i \in 1 .. 2 |-> Never] /\ cached = {} /\ verdict = Nothing

Next ==
    \/ /\ shown = Nothing /\ draft = Nothing
       /\ \/ \E o \in Orders : SignJwtVc(o, KeyOf(o.signer))
          \/ \E vc \in Credentials, k \in {<<"a", 1>>, <<"a", 2>>} :
               PrepareDataIntegrity(vc, "a", Method("a", 1), [Ed(k) EXCEPT !.private = FALSE])
          \/ \E vc \in BadgeCredentials, t \in {"JsonWebKey2020", "Other"}, p \in {"assertionMethod", "authentication"} :
               IssueOb3(vc, Method("a", 1), <<"a", 1>>, t, p)
          \/ \E h \in BOOLEAN, a \in {"sha256", "md5"}, g \in {Signed, NoVerification}, v \in {Signed, NoVerification} :
               IssueOb2([Assertion EXCEPT !.verification = v],
                        [hashed |-> h, alg |-> a, salt |-> "s", identity |-> "me"], <<"a", 1>>, g)
    \/ ChangeDraft
    \/ \E k \in {<<"a", 1>>, Foreign} : CompleteDataIntegrity(k)
    \/ \E h \in {"", "holder", "b"}, c \in {"c1", "c2"} : PresentCredential(h, c, "d")
    \/ shown.kind = "ob3" /\ \E e \in ToSet(shown.vc.status) : AssertStatus(Slot(e))
    \/ shown.kind = "ob3" /\ \E u \in Lists, v \in FetchVariants : Fetch(u, v[1], v[2], moment + ListLife + v[3])
    \/ /\ verdict = Nothing
       /\ \/ \E jwk \in {<<>>, <<"a", 1>>, <<"b", 1>>, <<"web", 1>>}, b \in BOOLEAN : VerifyJwt(jwk, b)
          \/ \E r \in Resolutions, c \in {"", "c1"}, d \in {"", "d"} : VerifyDataIntegrity(r, c, d)
          \/ \E s \in Stores : VerifyOb3(s)
          \/ \E k \in {<<"a", 1>>, Foreign}, b \in {{}, {"badge"}}, i \in {"", "me", "you"} :
               VerifyOb2([c \in {"issuer"} |-> k], b, i)
    \/ Change \/ PassMoment

Spec == Init /\ [][Next]_vars

-----------------------------------------------------------------------------
(* Properties.                                                             *)

\* A credential an issuer was asked for and signed with this key
WasOrdered(vc, key) == \E o \in ordered : o.vc = vc /\ o.key = key

\* A JWT accepted under the key of the issuer it names, or of its did:key, holds
\* what that issuer was asked for, within the time it was asked for; and what is
\* issued under the second data model is accepted while it lasts, a badge as a
\* badge, but for what the issuer makes and the verifier refuses: a credential
\* that says nothing, one with a subject that is not the holder, and, as a
\* badge, one for nobody. One issued to expire at once never is accepted. An
\* issuer named by a URL is whoever the given key belongs to.
JwtsHold ==
    verdict.kind = "jwt" =>
        LET p == shown.payload
            Right == \/ verdict.jwk = <<p.iss, 1>>
                     \/ verdict.jwk = <<>> /\ p.iss \in Dids
        IN /\ verdict.valid /\ Right =>
                \E o \in ordered : o.vc = p.vc /\ o.key = <<p.vc.issuer, 1>> /\ o.key = shown.sig[1] /\ (o.until # NoDate => moment < o.until)
           /\ ~shown.changed /\ Right /\ p.iss # "key" /\ verdict.jwk # <<>> =>
                \A o \in ordered :
                    /\ o.fits /\ o.alg = "ES256" /\ p.vc.contexts # {"v1"} /\ (o.until # NoDate => moment < o.until)
                    /\ verdict.badge => "OpenBadgeCredential" \in o.vc.types
                    => verdict.valid = (IF verdict.badge THEN o.vc.subject.id # "" ELSE SubjectFits(o.vc.subject))
                       /\ (verdict.valid => verdict.claims)

\* A Data Integrity credential that verifies is one that was prepared, signed
\* with its issuer's key, whatever happened to the draft between the two calls;
\* a presentation that verifies answers the challenge for the domain, was made by
\* the holder it names and holds only such credentials. What was completed with
\* the issuer's key and is current verifies, and so does its presentation.
IntegrityHolds ==
    verdict.kind \in {"vc", "vp"} =>
        LET creds == IF shown.kind = "vc" THEN {shown} ELSE ToSet(shown.body.credentials)
            Known == {verdict.resolved[i].id : i \in DOMAIN verdict.resolved}
        IN /\ verdict.valid => \A c \in creds : WasOrdered(c.vc, <<"a", 1>>) /\ c.value[1] = <<"a", 1>> /\ Current(c.vc)
           /\ verdict.valid /\ shown.kind = "vp" =>
                /\ shown.proof.challenge = verdict.challenge /\ shown.proof.domain = verdict.domain
                /\ shown.value[1] = <<"holder", 1>> /\ shown.value[2][1] = shown.body
                /\ shown.body.holder \in {"", "holder"}
           /\ /\ ~shown.changed /\ verdict.resolved = <<Resolvable("a"), Resolvable("holder")>>
              /\ \A c \in creds : c.value[1] = <<"a", 1>> /\ Current(c.vc) /\ ~c.changed
              /\ shown.kind = "vp" => /\ shown.body.holder \in {"", "holder"} /\ shown.proof.challenge = verdict.challenge
                                      /\ verdict.domain = "d"
              => verdict.valid

\* What a draft is prepared from was fit for issuance as the issuer's own check
\* says, an unknown type and a missing issuer apart.
PreparedWasFit == draft # Nothing /\ draft.vc = draft.input[1] /\ "Unknown" \notin draft.vc.types => IssuanceDocumentFits(draft.vc, draft.did)

\* A badge that is accepted was issued under a key its issuer makes assertions
\* with, and none of its entries was asserted longer ago than a status list is
\* good for, however the lists were cached; a current badge whose lists are
\* fresh and good is accepted.
BadgesHold ==
    /\ verdict.kind = "ob3" /\ verdict.valid =>
         /\ WasOrdered(shown.vc, <<"a", 1>>)
         /\ \A i \in DOMAIN shown.vc.status : moment < asserted[Slot(shown.vc.status[i])] + ListLife
    /\ /\ verdict.kind = "ob3" /\ ~shown.changed /\ Current(shown.vc) /\ "ob3" \in shown.vc.contexts
       /\ verdict.store = <<Document>> /\ ToSet(shown.vc.status) \subseteq {Entry, Message}
       /\ \A i \in DOMAIN shown.vc.status : asserted[Slot(shown.vc.status[i])] = Never
       /\ \A u \in {shown.vc.status[i].list : i \in DOMAIN shown.vc.status} :
             \E l \in cached : l.url = u /\ l.value[1] = KeyOf(Method("status", 1)) /\ l.trusted = "status"
                               /\ l.fresh = l.vc.until /\ moment < l.fresh
       => verdict.valid

\* An Open Badges 2 assertion accepted without a warning is what the creator
\* signed, and its hashed recipient the one it was made for; the issuer's own
\* assertions carry a warning unless they named their verification beforehand.
AssertionsHold ==
    verdict.kind = "ob2" =>
        /\ verdict.valid /\ ~verdict.warned =>
             /\ shown.sig[1] = verdict.keys["issuer"] /\ shown.body.text = "t"
             /\ verdict.identity # "" /\ shown.body.recipient.hashed => verdict.identity = shown.recipient
        /\ ~shown.changed /\ shown.sig # <<>> => verdict.warned = (shown.sig[2].verification = NoVerification)

\* Credentials in each of their forms are accepted just when they are genuine
VerifiableCredentialsHold == JwtsHold /\ IntegrityHolds /\ PreparedWasFit /\ BadgesHold /\ AssertionsHold

=============================================================================
