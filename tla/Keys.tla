--------------------------------- MODULE Keys ---------------------------------
(***************************************************************************)
(* Keys and what is made with them: their files, raw forms and JWKs and    *)
(* the signatures checked under them (marty-crypto), signed and encrypted  *)
(* tokens (jwk/ of marty-verification), and the remote signers an issuer   *)
(* relies on (jose.rs and signer.rs of marty-oid4vci). A key is its type   *)
(* and an identity both halves share, a signature the key with what it     *)
(* signs, an encryption what opens it. The encodings' libraries and the    *)
(* primitives are external; much of the code that handles private keys is  *)
(* compiled for tests only.                                                *)
(***************************************************************************)
EXTENDS Integers, Sequences, FiniteSets, SequencesExt

Certificates == INSTANCE CertificateBuilder

CONSTANTS
    Types,          \* key types a behaviour is about
    MaxExtensions,  \* extension members a JWK may have
    MaxJson         \* size up to which a JWK is read

VARIABLES
    topic,
    origin,         \* the key generated
    misnamed,       \* a caller named another type than a raw key has
    secret, public, \* the documents that hold its halves
    token,          \* what was made with it
    session,        \* the HAIP decryption session
    verdict

vars == <<topic, origin, misnamed, secret, public, token, session, verdict>>

Nothing == [kind |-> "nothing"]
Failure == [kind |-> "failed"]

-----------------------------------------------------------------------------
(* Key documents.                                                          *)

Key(type, id) == [type |-> type, id |-> <<id>>]
Doc(form, key) == [kind |-> "doc", form |-> form, key |-> key]
Pem(label, doc) == [kind |-> "pem", label |-> label, doc |-> doc]
KeyIn(d) == IF d.kind = "pem" THEN d.doc.key ELSE d.key

\* What bytes of one type are as a key of another: some other key
Renamed(key, type, half) == IF key.type = type THEN key ELSE [type |-> type, id |-> key.id \o <<half, key.type>>]

\* Bytes of a raw private key and of a raw public one
RawLength(type) == CASE type = "p384" -> 48 [] type = "p521" -> 66 [] type = "rsa" -> 0 [] OTHER -> 32
PointLength(type) == CASE type = "p256" -> 65 [] type = "p384" -> 97 [] type = "p521" -> 133 [] type = "rsa" -> 0 [] OTHER -> 32

\* generate_keypair: raw halves, RSA in PKCS#1
GenerateKeypair(k) ==
    IF k.type = "rsa" THEN [secret |-> Doc("pkcs1", k), public |-> Doc("pkcs1", k)]
    ELSE [secret |-> Doc("raw", k), public |-> Doc("point", k)]

\* generate_ed25519_pem, generate_p256_pem and generate_rsa_pem: the public half
\* of an RSA key has the label of PKCS#1.
GeneratePem(k) ==
    CASE k.type = "ed25519" -> [secret |-> Pem("PRIVATE KEY", Doc("pkcs8", k)), public |-> Pem("PUBLIC KEY", Doc("spki", k))]
      [] k.type = "p256" -> [secret |-> Pem("EC PRIVATE KEY", Doc("sec1", k)), public |-> Pem("PUBLIC KEY", Doc("spki", k))]
      [] k.type = "rsa" -> [secret |-> Pem("RSA PRIVATE KEY", Doc("pkcs1", k)), public |-> Pem("RSA PUBLIC KEY", Doc("pkcs1", k))]

\* detect_private_key_type, of PKCS#8 alone
DetectPrivateKeyType(d) == IF d.form = "pkcs8" THEN d.key.type ELSE "unreadable"
DetectPublicKeyType(d) == IF d.form \in {"spki", "spki compressed"} THEN d.key.type ELSE "unreadable"

\* load_ec_private_key_sec1_pem tries P-256, then P-384.
LoadSec1(d) == IF d.form = "sec1" /\ d.key.type \in {"p256", "p384"} THEN Doc("pkcs8", d.key) ELSE Failure
\* load_rsa_private_key_pkcs1_pem
LoadPkcs1(d) == IF d.form = "pkcs1" THEN Doc("pkcs8", d.key) ELSE Failure

\* load_private_key_pem: by its label; what is labelled as PKCS#8 is not parsed.
LoadPrivateKeyPem(p) ==
    CASE p.label = "PRIVATE KEY" -> p.doc
      [] p.label = "EC PRIVATE KEY" -> LoadSec1(p.doc)
      [] p.label = "RSA PRIVATE KEY" -> LoadPkcs1(p.doc)
      [] OTHER -> Failure
\* load_private_key_der and save_private_key_der
LoadPrivateKeyDer(d) == IF d.form = "pkcs8" THEN d ELSE Failure
\* save_private_key_pem labels whatever it is given.
SavePrivateKeyPem(d) == Pem("PRIVATE KEY", d)

\* raw_private_key_to_pkcs8: as a key of the type the caller names, if the length
\* fits; pkcs8_to_raw_private_key
RawPrivateKeyToPkcs8(d, type) ==
    IF d.form = "raw" /\ type \in {"p256", "p384", "ed25519"} /\ RawLength(d.key.type) = RawLength(type)
    THEN Doc("pkcs8", Renamed(d.key, type, "secret")) ELSE Failure
Pkcs8ToRawPrivateKey(d) == IF DetectPrivateKeyType(d) \in {"p256", "p384", "ed25519"} THEN Doc("raw", d.key) ELSE Failure

\* extract_public_key
ExtractPublicKey(d) ==
    IF DetectPrivateKeyType(d) \in {"p256", "p384", "rsa", "ed25519"} THEN Doc("spki", d.key) ELSE Failure

\* raw_public_key_to_spki: a point lies on one curve alone, 32 bytes are any
\* Ed25519 key; spki_to_raw_public_key
RawPublicKeyToSpki(d, type) ==
    CASE type \in {"p256", "p384"} /\ d.form \in {"point", "compressed"} /\ d.key.type = type -> Doc("spki", d.key)
      [] type = "ed25519" /\ d.form = "point" /\ PointLength(d.key.type) = 32 -> Doc("spki", Renamed(d.key, type, "public"))
      [] OTHER -> Failure
SpkiToRawPublicKey(d) ==
    CASE d.form = "spki" -> Doc(IF d.key.type = "rsa" THEN "pkcs1" ELSE "point", d.key)
      [] d.form = "spki compressed" -> Doc("compressed", d.key)
      [] OTHER -> Failure

\* load_public_key_pem and load_public_key_der; save_public_key_pem labels
\* whatever it is given.
LoadPublicKeyPem(p) == IF p.label = "PUBLIC KEY" /\ DetectPublicKeyType(p.doc) # "unreadable" THEN p.doc ELSE Failure
LoadPublicKeyDer(d) == IF DetectPublicKeyType(d) # "unreadable" THEN d ELSE Failure
SavePublicKeyPem(d) == Pem("PUBLIC KEY", d)

\* parse_pkcs12: the first key and the first certificate, whether or not they
\* belong together
ParsePkcs12(store) ==
    IF store.keys = <<>> \/ store.certs = <<>> THEN Failure
    ELSE [kind |-> "pair", secret |-> Doc("pkcs8", store.keys[1]), public |-> Doc("spki", store.certs[1])]

\* P256KeyPair::public_key_compressed
Compressed(d) == IF d.form = "point" /\ d.key.type \in {"p256", "p384"} THEN Doc("compressed", d.key) ELSE Failure

-----------------------------------------------------------------------------
(* Signatures, agreement and encryption.                                   *)

\* SignatureAlgorithm: the type of its keys; is_ecdsa, is_rsa
TypeFor(alg) ==
    CASE alg = "ES256" -> "p256" [] alg = "ES384" -> "p384" [] alg = "ES512" -> "p521" [] alg = "EdDSA" -> "ed25519"
      [] alg \in {"RS256", "PS256"} -> "rsa" [] OTHER -> "none"
IsEcdsa(alg) == alg \in {"ES256", "ES384", "ES512"}
SignatureAlgorithms == {"ES256", "ES384", "ES512", "EdDSA", "RS256", "PS256"}

Signature(key, alg, over, form) == [key |-> key, alg |-> alg, over |-> over, form |-> form]

\* sign_p256_sha256 and the like take raw keys of their length, RSA either
\* document.
SignWith(d, alg, over) ==
    LET type == TypeFor(alg)
        reads == \/ type = "rsa" /\ d.form \in {"pkcs1", "pkcs8"} /\ d.key.type = "rsa"
                 \/ type # "rsa" /\ d.form = "raw" /\ RawLength(d.key.type) = RawLength(type)
    IN IF reads THEN Signature(Renamed(d.key, type, "secret"), alg, over, IF IsEcdsa(alg) THEN "der" ELSE "raw") ELSE Failure

\* The key a document is: extract_named_curve_point, in either form of a point;
\* verifying_key_from_spki, 32 bytes are an Ed25519 key; parse_rsa_public_key
EcPoint(type, d) == IF d.form \in {"point", "compressed", "spki", "spki compressed"} /\ d.key.type = type THEN d.key ELSE Failure
Ed25519Key(d) ==
    CASE d.form = "point" /\ PointLength(d.key.type) = 32 -> Renamed(d.key, "ed25519", "public")
      [] d.form = "spki" /\ d.key.type = "ed25519" -> d.key
      [] OTHER -> Failure
RsaPublicKey(d) == IF d.form \in {"spki", "pkcs1"} /\ d.key.type = "rsa" THEN d.key ELSE Failure
VerifyingKey(alg, d) ==
    CASE IsEcdsa(alg) -> EcPoint(TypeFor(alg), d)
      [] alg = "EdDSA" -> Ed25519Key(d)
      [] alg \in {"RS256", "PS256"} -> RsaPublicKey(d)
      [] OTHER -> Failure

\* What a primitive finds: a signature of this key, algorithm and message
Finds(key, alg, over, sig) ==
    IF key = Failure THEN "error" ELSE IF sig.key = key /\ sig.alg = alg /\ sig.over = over THEN "true" ELSE "false"
\* verify_p256_sha256 and its siblings take DER and raw signatures, the others
\* bytes of their length: verify_ed25519_spki, verify_pkcs1_sha256, verify_pss_sha256
VerifyEcdsa(alg, d, over, sig) == Finds(EcPoint(TypeFor(alg), d), alg, over, sig)
VerifyEd25519(d, over, sig) == IF sig.form # "raw" THEN "error" ELSE Finds(Ed25519Key(d), "EdDSA", over, sig)
VerifyPkcs1(d, over, sig) == IF sig.form # "raw" THEN "error" ELSE Finds(RsaPublicKey(d), "RS256", over, sig)
VerifyPss(d, over, sig) == IF sig.form # "raw" THEN "error" ELSE Finds(RsaPublicKey(d), "PS256", over, sig)

\* verify_signature
VerifySignature(alg, d, over, sig) ==
    CASE IsEcdsa(alg) -> VerifyEcdsa(alg, d, over, sig)
      [] alg = "EdDSA" -> VerifyEd25519(d, over, sig)
      [] alg = "RS256" -> VerifyPkcs1(d, over, sig)
      [] alg = "PS256" -> VerifyPss(d, over, sig)
      [] OTHER -> "error"

\* normalize_signature: DER bytes of the length of a raw signature count as raw.
NormalizeSignature(alg, sig) ==
    IF ~ IsEcdsa(alg) THEN Failure
    ELSE IF sig.form = "short der" THEN [sig EXCEPT !.form = "raw", !.over = "noise"] ELSE [sig EXCEPT !.form = "raw"]

\* aes_256_gcm_encrypt and aes_128_gcm_encrypt: sizes of key and nonce
GcmFits(bits, key, nonce) == key * 8 = bits /\ nonce = 12

\* Block ciphers: aes_128_cbc_encrypt fills up its input, always; without padding
\* the input must fill its blocks.
PadLength(n) == 16 - (n % 16)
CbcEncrypt(n) == [kind |-> "blocks", length |-> n + PadLength(n), pad |-> PadLength(n)]
CbcDecrypt(c) == IF c.length % 16 = 0 /\ c.pad \in 1..16 /\ c.pad <= c.length THEN c.length - c.pad ELSE -1
CbcEncryptNoPad(n) == IF n % 16 = 0 THEN [kind |-> "blocks", length |-> n, pad |-> 0] ELSE Failure
CbcDecryptNoPad(c) == IF c.length % 16 = 0 THEN c.length ELSE -1

\* x25519_ephemeral_agree and agree_inner: 32 bytes that contribute
AgreesWith(d) == d.form = "point" /\ PointLength(d.key.type) = 32 /\ d.key.id # <<0>>

\* ecies_encrypt, ecies_decrypt
EciesEncrypt(d, text, aad) ==
    IF AgreesWith(d) THEN [kind |-> "sealed", to |-> Renamed(d.key, "x25519", "public"), text |-> text, aad |-> aad] ELSE Failure
EciesDecrypt(d, sealed, aad) ==
    IF d.form = "raw" /\ RawLength(d.key.type) = 32 /\ Renamed(d.key, "x25519", "secret") = sealed.to /\ aad = sealed.aad
    THEN [kind |-> "text", text |-> sealed.text] ELSE Failure


-----------------------------------------------------------------------------
(* JSON web keys.                                                          *)

\* A JWK: its key, the members of it that are there, and what it says of its use.
Jwk(key, members) ==
    [kind |-> "jwk", key |-> key, members |-> members, kid |-> "none", alg |-> "none", use |-> "none", ops |-> "none",
     extensions |-> 0, extended |-> "public", size |-> 1, duplicate |-> FALSE]

\* The curve-less kty: KeyType
Kty(type) == CASE type \in {"p256", "p384", "p521", "secp256k1"} -> "EC" [] type \in {"ed25519", "x25519"} -> "OKP"
               [] type = "rsa" -> "RSA" [] OTHER -> "oct"

\* is_private, is_public, is_symmetric
IsPrivate(jwk) == jwk.members \cap {"d", "k"} # {}
IsSymmetric(jwk) == Kty(jwk.key.type) = "oct"

\* validate_public_extensions and the bounded reading: an extension may neither
\* take the name of a member nor hold private material.
ExtensionsFit(jwk) ==
    /\ jwk.extensions <= MaxExtensions
    /\ jwk.extensions > 0 => jwk.extended = "public"

\* from_json: each member once, within the size
FromJson(jwk) == IF ~ jwk.duplicate /\ jwk.size <= MaxJson /\ ExtensionsFit(jwk) THEN jwk ELSE Failure
\* PublicJwk refuses every private member.
PublicJwk(jwk) == IF FromJson(jwk) # Failure /\ ~ IsPrivate(jwk) THEN jwk ELSE Failure

\* to_public
ToPublic(jwk) == [jwk EXCEPT !.members = @ \ {"d", "k"}]

\* thumbprint: the members that make the public key, k for a symmetric one
Thumbprint(jwk) == <<Kty(jwk.key.type), IF IsSymmetric(jwk) THEN {"k"} ELSE {"public"}, jwk.key>>

\* public_key_to_jwk, of the public key's document: neither a compressed point nor
\* a key for agreement
PublicKeyToJwk(d) ==
    IF \/ d.form \in {"spki", "point"} /\ d.key.type \in {"p256", "p384", "p521", "ed25519"}
       \/ d.form \in {"spki", "pkcs1"} /\ d.key.type = "rsa"
    THEN Jwk(d.key, {"public"}) ELSE Failure

\* JwkSet::find_by_kid: the first
FindByKid(set, kid) ==
    IF \E i \in DOMAIN set : set[i].kid = kid THEN set[CHOOSE i \in DOMAIN set : set[i].kid = kid /\ \A j \in 1..(i - 1) : set[j].kid # kid]
    ELSE Failure

-----------------------------------------------------------------------------
(* Signed tokens. The header names the algorithm; nothing binds it to the  *)
(* type of the key but the members each algorithm needs.                   *)

\* The key an algorithm makes of a JWK, from the member that holds this half:
\* sign_es256 and verify_es256 look at the lengths and not at the curve, sign_eddsa
\* at the curve, sign_hmac at k; RSA is refused.
EsKey(type, jwk, half) ==
    IF /\ half \in jwk.members /\ RawLength(jwk.key.type) = RawLength(type) /\ Kty(jwk.key.type) # "oct"
       /\ half = "public" => Kty(jwk.key.type) = "EC"
    THEN Renamed(jwk.key, type, half) ELSE Failure
EdDsaKey(jwk, half) == IF half \in jwk.members /\ jwk.key.type = "ed25519" THEN jwk.key ELSE Failure
HmacKey(jwk) == IF "k" \in jwk.members THEN jwk.key ELSE Failure
JwsKey(alg, jwk, half) ==
    CASE alg \in {"ES256", "ES384"} -> EsKey(TypeFor(alg), jwk, half)
      [] alg = "EdDSA" -> EdDsaKey(jwk, half)
      [] alg = "HS256" -> HmacKey(jwk)
      [] OTHER -> Failure

\* jws_sign: the header is not held to the policy verification has.
JwsSign(header, payload, jwk) ==
    LET key == JwsKey(header.alg, jwk, "d") IN
    IF key = Failure THEN Failure
    ELSE [kind |-> "jws", header |-> header, payload |-> payload, signature |-> Signature(key, header.alg, <<header, payload>>, "raw")]

\* decode_protected_header and validate_header_policy: members once, no key by
\* reference, no critical extension
HeaderFits(header) == ~ header.duplicate /\ ~ header.remote /\ ~ header.critical

\* jws_verify: an ES256 or ES384 signature of another length panics.
JwsVerify(t, jwk) ==
    LET key == JwsKey(t.header.alg, jwk, "public") IN
    IF ~ HeaderFits(t.header) \/ key = Failure THEN "refused"
    ELSE IF t.signature.form = "short" THEN IF t.header.alg \in {"ES256", "ES384"} THEN "panic" ELSE "refused"
    ELSE IF t.signature.key = key /\ t.signature.alg = t.header.alg /\ t.signature.over = <<t.header, t.payload>>
    THEN "accepted" ELSE "refused"

\* validate_public_jwk of jose.rs: what the key says of itself must fit.
ValidatePublicJwk(jwk, alg) ==
    /\ ~ IsPrivate(jwk) /\ ~ jwk.duplicate
    /\ jwk.alg \in {"none", alg}
    /\ jwk.use \in {"none", "sig"}
    /\ jwk.ops \in {"none", "verify"}

\* verify_compact_jwt_with_public_jwk: under the algorithm expected
VerifyCompact(t, jwk, alg) ==
    LET key == VerifyingKey(alg, Doc(IF Kty(jwk.key.type) = "RSA" THEN "pkcs1" ELSE "point", jwk.key)) IN
    /\ alg \in {"ES256", "ES384", "EdDSA", "RS256", "PS256"} /\ t.header.alg = alg /\ ~ t.header.duplicate
    /\ ValidatePublicJwk(jwk, alg)
    /\ jwk.key.type = TypeFor(alg) /\ key = t.signature.key
    /\ t.signature.form = "raw" /\ t.signature.alg = alg /\ t.signature.over = <<t.header, t.payload>>

\* validate_public_key_for_algorithm
SignerKeyFits(jwk, alg) ==
    jwk.key.type = IF alg = "ES256K" THEN "secp256k1" ELSE TypeFor(alg)

\* validate_signer_public_jwk: the public key a signer reports
ValidateSignerPublicJwk(signer) ==
    /\ ValidatePublicJwk(signer.jwk, signer.alg) /\ signer.jwk.size <= MaxJson
    /\ SignerKeyFits(signer.jwk, signer.alg)
    /\ signer.jwk.kid \in {"none", signer.kid}

\* validate_remote_signature: raw form, right length
RemoteSignatureFits(sig) == sig.form = "raw"

\* A signature got from a remote signer: verify_remote_signature checks it under the
\* key the signer reports.
SignRemotely(signer, answer, message) ==
    IF /\ ValidateSignerPublicJwk(signer) /\ RemoteSignatureFits(answer)
       /\ answer.key = signer.jwk.key /\ answer.alg = signer.alg /\ answer.over = message
    THEN "accepted" ELSE "refused"

-----------------------------------------------------------------------------
(* Encrypted tokens and the session that may open one.                     *)

\* content_encryption_key_len
EncKeyLen(enc) == CASE enc = "A128GCM" -> 16 [] enc = "A256GCM" -> 32 [] OTHER -> 0

\* jwe_encrypt_direct: to a key for agreement on X25519 or P-256
JweEncrypt(text, jwk, enc, ephemeral) ==
    IF jwk.key.type \in {"x25519", "p256"} /\ "public" \in jwk.members /\ EncKeyLen(enc) > 0
    THEN LET header == [alg |-> "ECDH-ES", enc |-> enc, epk |-> ephemeral, zip |-> FALSE, remote |-> FALSE, party |-> "empty"] IN
         [kind |-> "jwe", header |-> header, sealed |-> [to |-> jwk.key, header |-> header, text |-> text], iv |-> 12, cek |-> ""]
    ELSE Failure

\* parse_and_validate_direct_jwe
ParseJwe(t) ==
    /\ t.header.alg = "ECDH-ES" /\ t.cek = ""
    /\ ~ t.header.zip /\ ~ t.header.remote
    /\ \E bits \in {128, 256} : GcmFits(bits, EncKeyLen(t.header.enc), t.iv)

\* validate_haip_response_header
HaipHeader(t) == ParseJwe(t) /\ t.header.epk.type = "p256"

\* decrypt_parsed_direct_jwe: the key derived from the header's parties and the
\* header itself are authenticated, so neither can be changed.
DecryptParsed(t, key) ==
    IF t.sealed.to = key /\ t.sealed.header = t.header THEN [kind |-> "text", text |-> t.sealed.text] ELSE Failure

\* jwe_decrypt: with a key of the ephemeral key's type
JweDecrypt(t, key) ==
    IF ParseJwe(t) /\ key.type \in {"x25519", "p256"} /\ t.header.epk.type = key.type THEN DecryptParsed(t, key) ELSE Failure

NoSession == [kind |-> "none"]

\* generate_haip_response_session: a P-256 pair that lives in the session alone
GenerateSession(id) == [kind |-> "session", key |-> Key("p256", id)]

\* HaipResponseSession::decrypt takes the session, whether or not it opens.
SessionDecrypt(s, t) ==
    [result |-> IF HaipHeader(t) THEN DecryptParsed(t, s.key) ELSE Failure, session |-> NoSession]

-----------------------------------------------------------------------------
(* What behaviours do with keys.                                           *)

HeaderAlgs == SignatureAlgorithms \cup {"HS256", "ES256K"}
Header(alg) == [alg |-> alg, duplicate |-> FALSE, remote |-> FALSE, critical |-> FALSE]
Other(key) == [key EXCEPT !.id = <<3 - @[1]>> \o Tail(@)]

Init ==
    /\ topic \in {"documents", "signatures", "jwks", "jws", "remote", "session", "certificates"}
    /\ \E type \in Types : origin = Key(type, 1)
    /\ misnamed = FALSE
    /\ secret = Nothing /\ public = Nothing /\ token = Nothing
    /\ session = NoSession /\ verdict = Nothing

Result(r) == verdict' = r

\* A key pair is generated, as raw halves or as PEM, or read from a store.
Generate ==
    /\ topic \in {"documents", "signatures"} /\ secret = Nothing
    /\ \/ LET p == GenerateKeypair(origin) IN secret' = p.secret /\ public' = p.public /\ UNCHANGED misnamed
       \/ /\ origin.type \in {"ed25519", "p256", "rsa"}
          /\ LET p == GeneratePem(origin) IN secret' = p.secret /\ public' = p.public /\ UNCHANGED misnamed
       \/ \E first \in {origin, Other(origin)} :
            LET p == ParsePkcs12([keys |-> <<origin>>, certs |-> <<first>>]) IN
            secret' = p.secret /\ public' = p.public /\ misnamed' = (first # origin)
       \/ /\ secret' = Pem("EC PRIVATE KEY", Doc("sec1", origin)) /\ public' = Doc("point", origin)
          /\ Kty(origin.type) = "EC" /\ UNCHANGED misnamed
    /\ UNCHANGED <<topic, origin, token, session, verdict>>

\* What may be done with either half; a failed conversion leaves it, and callers
\* name the type once wrongly at most.
ConvertSecret ==
    /\ topic = "documents" /\ secret # Nothing
    /\ \E d \in IF secret.kind = "pem" THEN {LoadPrivateKeyPem(secret)}
                ELSE {LoadPrivateKeyDer(secret), SavePrivateKeyPem(secret), Pkcs8ToRawPrivateKey(secret)} :
         d # Failure /\ secret' = d
    /\ UNCHANGED <<topic, origin, misnamed, public, token, session, verdict>>
NameSecret ==
    /\ topic = "documents" /\ secret.kind = "doc" /\ ~ misnamed
    /\ \E type \in Certificates!KeyTypes :
         LET d == RawPrivateKeyToPkcs8(secret, type) IN
         d # Failure /\ secret' = d /\ misnamed' = (type # secret.key.type)
    /\ UNCHANGED <<topic, origin, public, token, session, verdict>>
ConvertPublic ==
    /\ topic = "documents" /\ public # Nothing
    /\ \E d \in IF public.kind = "pem" THEN {LoadPublicKeyPem(public)}
                ELSE {LoadPublicKeyDer(public), SavePublicKeyPem(public), SpkiToRawPublicKey(public), Compressed(public)} :
         d # Failure /\ public' = d
    /\ UNCHANGED <<topic, origin, misnamed, secret, token, session, verdict>>
NamePublic ==
    /\ topic = "documents" /\ public.kind = "doc" /\ ~ misnamed
    /\ \E type \in Certificates!KeyTypes :
         LET d == RawPublicKeyToSpki(public, type) IN
         d # Failure /\ public' = d /\ misnamed' = (type # public.key.type)
    /\ UNCHANGED <<topic, origin, secret, token, session, verdict>>
Extract ==
    /\ topic = "documents" /\ secret.kind = "doc"
    /\ ExtractPublicKey(secret) # Failure /\ public' = ExtractPublicKey(secret)
    /\ UNCHANGED <<topic, origin, misnamed, secret, token, session, verdict>>

\* A message is signed with the raw or the RSA half; the signature is checked under
\* the key or another one, as it is or normalised.
Sign ==
    /\ topic = "signatures" /\ secret.kind = "doc" /\ token = Nothing
    /\ \E alg \in SignatureAlgorithms :
         LET sig == SignWith(secret, alg, "message") IN
         /\ sig # Failure
         /\ token' \in {[kind |-> "signature", asked |-> alg, sig |-> s] :
                          s \in {sig} \cup {NormalizeSignature(alg, [sig EXCEPT !.form = f]) : f \in IF IsEcdsa(alg) THEN {"der", "short der"} ELSE {}}}
    /\ UNCHANGED <<topic, origin, misnamed, secret, public, session, verdict>>
Verify ==
    /\ topic = "signatures" /\ token # Nothing /\ verdict = Nothing
    /\ \E alg \in SignatureAlgorithms, over \in {"message", "other"}, mine \in BOOLEAN :
         Result([kind |-> "verified", alg |-> alg, over |-> over, mine |-> mine,
                 answer |-> VerifySignature(alg, IF mine THEN public ELSE [public EXCEPT !.key = Other(@)], over, token.sig)])
    /\ UNCHANGED <<topic, origin, misnamed, secret, public, token, session>>
Pad ==
    /\ topic = "signatures" /\ secret = Nothing /\ verdict = Nothing
    /\ \E n \in 0..33 :
         LET bare == CbcEncryptNoPad(n) IN
         Result([kind |-> "padded", n |-> n, back |-> CbcDecrypt(CbcEncrypt(n)), fits |-> bare # Failure,
                 bare |-> IF bare = Failure THEN -1 ELSE CbcDecryptNoPad(bare)])
    /\ UNCHANGED <<topic, origin, misnamed, secret, public, token, session>>
SealAndOpen ==
    /\ topic = "signatures" /\ secret.kind = "doc" /\ secret.form = "raw" /\ verdict = Nothing
    /\ \E aad \in {"a", "b"}, d \in {secret, [secret EXCEPT !.key = Other(@)]} :
         LET sealed == EciesEncrypt(public, "text", "a") IN
         /\ sealed # Failure
         /\ Result([kind |-> "opened", rightly |-> aad = "a" /\ d = secret, agreement |-> origin.type = "x25519",
                    opens |-> EciesDecrypt(d, sealed, aad) # Failure])
    /\ UNCHANGED <<topic, origin, misnamed, secret, public, token, session>>

\* A JWK is read, made public, and looked up by its kid.
ReadJwk ==
    /\ topic = "jwks" /\ verdict = Nothing
    /\ \E members \in {{"public"}, {"public", "d"}, {"k"}}, n \in 0..(MaxExtensions + 1), ext \in {"public", "private", "reserved"},
          size \in {1, MaxJson, MaxJson + 1}, dup \in BOOLEAN :
         LET jwk == [Jwk(IF members = {"k"} THEN Key("oct", 1) ELSE origin, members)
                       EXCEPT !.extensions = n, !.extended = ext, !.size = size, !.duplicate = dup]
         IN Result([kind |-> "jwk", jwk |-> jwk, read |-> FromJson(jwk) # Failure, public |-> PublicJwk(jwk) # Failure])
    /\ UNCHANGED <<topic, origin, misnamed, secret, public, token, session>>
\* The same key, reached as a document and as its private JWK, and another one of
\* the set
Thumbprints ==
    /\ topic = "jwks" /\ verdict = Nothing
    /\ \E form \in {"spki", "point", "pkcs1", "compressed"} :
         LET made == PublicKeyToJwk(Doc(form, origin))
             held == Jwk(origin, {"public", "d"})
             other == Jwk(Other(origin), {"public"})
             set == <<[other EXCEPT !.kid = "b"], [ToPublic(held) EXCEPT !.kid = "a"], [other EXCEPT !.kid = "a"]>>
         IN /\ made # Failure
            /\ Result([kind |-> "thumbprints", made |-> Thumbprint(made), held |-> Thumbprint(held),
                       public |-> Thumbprint(ToPublic(held)), other |-> Thumbprint(other),
                       found |-> Thumbprint(FindByKid(set, "a"))])
    /\ UNCHANGED <<topic, origin, misnamed, secret, public, token, session>>

\* A token is signed with the private JWK, changed or not on its way.
SignToken ==
    /\ topic = "jws" /\ token = Nothing
    /\ \E alg \in HeaderAlgs, jwk \in {Jwk(origin, {"public", "d"}), Jwk(Key("oct", 1), {"k"})}, critical \in BOOLEAN :
         LET t == JwsSign([Header(alg) EXCEPT !.critical = critical], "payload", jwk)
         IN t # Failure /\ token' = t
    /\ UNCHANGED <<topic, origin, misnamed, secret, public, session, verdict>>
ChangeToken ==
    /\ topic = "jws" /\ token # Nothing /\ verdict = Nothing
    /\ \/ \E alg \in HeaderAlgs : token' = [token EXCEPT !.header.alg = alg]
       \/ token' \in {[token EXCEPT !.payload = "changed"], [token EXCEPT !.signature.form = "short"],
                       [token EXCEPT !.header.duplicate = TRUE], [token EXCEPT !.header.remote = TRUE]}
    /\ UNCHANGED <<topic, origin, misnamed, secret, public, session, verdict>>
VerifyToken ==
    /\ topic = "jws" /\ token # Nothing /\ verdict = Nothing
    /\ \E jwk \in {Jwk(origin, {"public"}), Jwk(Other(origin), {"public"}), Jwk(origin, {"public", "d"}),
                   Jwk(Key("oct", 1), {"k"}), Jwk(Key("oct", 2), {"k"}), Jwk(Key("oct", 1), {})} :
         \/ Result([kind |-> "jws", by |-> "jws", jwk |-> jwk, answer |-> JwsVerify(token, jwk)])
         \/ \E alg \in HeaderAlgs, use \in {"none", "sig", "enc"}, ops \in {"none", "verify", "sign"}, named \in {"none", "ES256"} :
              LET k == [jwk EXCEPT !.use = use, !.ops = ops, !.alg = named] IN
              Result([kind |-> "jws", by |-> "jose", jwk |-> jwk, answer |-> IF VerifyCompact(token, k, alg) THEN "accepted" ELSE "refused"])
    /\ UNCHANGED <<topic, origin, misnamed, secret, public, token, session>>

\* An issuer asks a remote signer; the answer may come from another key, for
\* another message, or in another form.
AskRemote ==
    /\ topic = "remote" /\ verdict = Nothing
    /\ \E alg \in HeaderAlgs, kid \in {"none", "signer", "stranger"}, by \in {origin, Other(origin)}, over \in {"message", "other"},
          form \in {"raw", "der"}, members \in {{"public"}, {"public", "d"}} :
         LET signer == [jwk |-> [Jwk(origin, members) EXCEPT !.kid = kid], alg |-> alg, kid |-> "signer"] IN
         Result([kind |-> "remote", rightly |-> by = origin /\ over = "message" /\ form = "raw",
                 told |-> members = {"public"} /\ kid # "stranger" /\ SignerKeyFits(signer.jwk, alg),
                 answer |-> SignRemotely(signer, Signature(by, alg, over, form), "message")])
    /\ UNCHANGED <<topic, origin, misnamed, secret, public, token, session>>

\* A verifier opens a session for one answer, sealed to it or to another key.
OpenSession ==
    /\ topic = "session" /\ token = Nothing /\ session' = GenerateSession(1)
    /\ \E key \in {Key("p256", 1), Key("p256", 2), Key("x25519", 1), origin}, enc \in {"A128GCM", "A256GCM", "A192GCM"} :
         LET t == JweEncrypt("text", Jwk(key, {"public"}), enc, Key(key.type, 9)) IN
         t # Failure /\ token' = t
    /\ UNCHANGED <<topic, origin, misnamed, secret, public, verdict>>
ChangeAnswer ==
    /\ topic = "session" /\ token # Nothing
    /\ token' \in {[token EXCEPT !.header.party = "named"], [token EXCEPT !.header.zip = TRUE], [token EXCEPT !.iv = 16],
                    [token EXCEPT !.header.enc = "A256GCM"], [token EXCEPT !.header.epk = Key("x25519", 9)], [token EXCEPT !.cek = "key"]}
    /\ UNCHANGED <<topic, origin, misnamed, secret, public, session, verdict>>
ReadAnswer ==
    /\ topic = "session" /\ session # NoSession
    /\ LET r == SessionDecrypt(session, token) IN
       /\ session' = r.session
       /\ Result([kind |-> "answer", opened |-> r.result # Failure, alike |-> r.result # Failure => JweDecrypt(token, session.key) = r.result,
                  rightly |-> token = JweEncrypt("text", Jwk(session.key, {"public"}), token.header.enc, Key("p256", 9))])
    /\ UNCHANGED <<topic, origin, misnamed, secret, public, token>>

\* Certificates made by name: a root, what it signs, and a request
Certify ==
    /\ topic = "certificates" /\ verdict = Nothing
    /\ \E keyType \in Certificates!KeyTypes, isCa \in BOOLEAN, issuerKey \in {origin, Other(origin)} :
         LET ca == Certificates!BuildSelfSignedWithKey([Certificates!Config EXCEPT !.subject = {<<"CN", "ca">>}, !.profile = "ca"], 0, <<4>>, origin)
             leaf == Certificates!CreateSignedCertificate("leaf", ca.cert, issuerKey, 1, isCa, keyType, 0, <<5>>)
             csr == Certificates!CreateCsr({<<"CN", "leaf">>, <<"L", "town">>}, keyType, <<6>>)
         IN /\ ~ ca.failed
            /\ Result([kind |-> "certificates", made |-> ~ leaf.failed, signing |-> keyType \in Certificates!SigningOnly,
                       named |-> ~ leaf.failed => leaf.cert.issuer = ca.cert.subject /\ (leaf.cert.ca <=> isCa),
                       verifies |-> ~ leaf.failed /\ Certificates!SignatureVerifies(leaf.cert, ca.cert), rightly |-> issuerKey = origin,
                       requested |-> ~ csr.failed,
                       asked |-> ~ csr.failed => csr.cert.key = csr.cert.signed /\ csr.cert.subject = {<<"CN", "leaf">>}])
    /\ UNCHANGED <<topic, origin, misnamed, secret, public, token, session>>

Next ==
    \/ Generate \/ ConvertSecret \/ NameSecret \/ ConvertPublic \/ NamePublic \/ Extract
    \/ Sign \/ Verify \/ Pad \/ SealAndOpen
    \/ ReadJwk \/ Thumbprints
    \/ SignToken \/ ChangeToken \/ VerifyToken
    \/ AskRemote
    \/ OpenSession \/ ChangeAnswer \/ ReadAnswer
    \/ Certify

-----------------------------------------------------------------------------
(* Unless a caller names the wrong type for bytes that have none, or a     *)
(* store pairs a key with another's certificate, both halves remain those  *)
(* of the key generated, whatever is loaded, saved, converted or           *)
(* extracted (serialization.rs).                                           *)
KeptWhole ==
    topic = "documents" /\ ~ misnamed /\ secret # Nothing => KeyIn(secret) = origin /\ KeyIn(public) = origin

(* A signature is found good exactly under the key that made it, over what *)
(* it signs and for its algorithm, and a seal opens only with its key and  *)
(* its data (lib.rs, verify_signature; ecdh.rs).                           *)
SignaturesExact ==
    /\ verdict.kind = "verified" /\ verdict.answer # "error" =>
         (verdict.answer = "true") = (/\ (IF verdict.mine THEN KeyIn(public) ELSE Other(KeyIn(public))) = token.sig.key
                                      /\ verdict.over = token.sig.over /\ verdict.alg = token.sig.alg)
    /\ verdict.kind = "padded" => verdict.back = verdict.n /\ verdict.bare = IF verdict.fits THEN verdict.n ELSE -1
    /\ verdict.kind = "opened" => /\ verdict.opens => verdict.rightly
                                  /\ verdict.rightly /\ verdict.agreement => verdict.opens

(* A token is accepted only as it was signed and only under a key that     *)
(* holds or verifies the half it was signed with; a secret is needed to    *)
(* accept one signed with a secret (jws.rs; jose.rs).                      *)
TokensHold ==
    verdict.kind = "jws" /\ verdict.answer = "accepted" =>
        /\ token.signature.over = <<token.header, token.payload>>
        /\ token.signature.key = verdict.jwk.key
        /\ token.header.alg = "HS256" => "k" \in verdict.jwk.members
        /\ verdict.by = "jose" => ~ IsPrivate(verdict.jwk) /\ TypeFor(token.header.alg) = verdict.jwk.key.type

(* Every token the code signs and nobody changes is accepted by the        *)
(* verification of the same module unless its header is one the policy     *)
(* refuses or the curves differ (jws.rs).                                  *)
SignedVerifies ==
    verdict.kind = "jws" /\ verdict.by = "jws" /\ token.signature.over = <<token.header, token.payload>>
        /\ token.signature.form = "raw" /\ HeaderFits(token.header) /\ token.signature.key = verdict.jwk.key
        /\ verdict.jwk.members # {} => verdict.answer = "accepted"

(* A remote signature is used only if the configured key made it for this  *)
(* message, and always then (signer.rs, verify_remote_signature).          *)
RemoteChecked == verdict.kind = "remote" => (verdict.answer = "accepted") = (verdict.rightly /\ verdict.told)

(* A session opens one answer at most, one sealed to it and unchanged, and *)
(* as its key would open it without a session (jwe.rs).                    *)
SessionOpensOnce ==
    topic = "session" => /\ verdict.kind = "answer" => (verdict.opened <=> verdict.rightly) /\ verdict.alike
                         /\ verdict.kind = "answer" => session = NoSession

(* What a JWK reader takes holds no private material where none is wanted, *)
(* and a thumbprint is the key's, by whichever way it was reached          *)
(* (jwk.rs; key.rs, thumbprint).                                           *)
JwksExact ==
    /\ verdict.kind = "jwk" => /\ verdict.public => ~ IsPrivate(verdict.jwk)
                               /\ verdict.read => verdict.jwk.extensions = 0 \/ verdict.jwk.extended = "public"
    /\ verdict.kind = "thumbprints" => /\ verdict.made = verdict.held /\ verdict.public = verdict.held
                                       /\ verdict.found = verdict.held /\ verdict.other # verdict.held

(* A certificate names its issuer and verifies against it exactly when the *)
(* issuer's own key signed it; a type that cannot sign gets neither a      *)
(* certificate nor a request (cert_builder.rs).                            *)
CertificatesHold ==
    verdict.kind = "certificates" =>
        /\ verdict.made = verdict.signing /\ verdict.requested = verdict.signing
        /\ verdict.named /\ verdict.asked
        /\ verdict.made => (verdict.verifies <=> verdict.rightly)

(* All of them.                                                            *)
KeysHold == KeptWhole /\ SignaturesExact /\ TokensHold /\ SignedVerifies /\ RemoteChecked /\ SessionOpensOnce /\ JwksExact /\ CertificatesHold
=============================================================================
