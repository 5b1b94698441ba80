--------------------------- MODULE CertificateBuilder ---------------------------
(***************************************************************************)
(* Making certificates and certificate requests (src/cert_builder.rs of    *)
(* marty-crypto). A key is its type and an identity; a name is the set of  *)
(* its components; encodings are left out. What the X.509 library does     *)
(* with a profile is external.                                             *)
(***************************************************************************)
EXTENDS Integers, FiniteSets

\* KeyType and the keys generated; SigningOnly names the types that can sign a
\* certificate, generate_subject_key and build_self_signed refuse the others.
KeyTypes == {"p256", "p384", "p521", "rsa", "ed25519", "x25519"}
SigningOnly == KeyTypes \ {"x25519"}

Failed == [failed |-> TRUE]
Ok(cert) == [failed |-> FALSE, cert |-> cert]

\* DistinguishedName: which components are set, each with its value
BuildName(dn) == IF dn = {} THEN Failed ELSE [failed |-> FALSE, name |-> dn]

\* CsrBuilderConfig::build_name leaves out state, locality and serial number.
BuildCsrName(dn) == BuildName({c \in dn : c[1] \in {"C", "O", "OU", "CN"}})

\* create_validity: from now for so many days
CreateValidity(now, days) == [from |-> now, until |-> now + days]

\* generate_serial_number: the configured one or a fresh one
GenerateSerial(config, fresh) == IF config.serial # 0 THEN config.serial ELSE fresh

\* generate_subject_key
GenerateSubjectKey(config, fresh) ==
    IF config.keyType \in SigningOnly
    THEN [failed |-> FALSE, key |-> [type |-> config.keyType, id |-> fresh]]
    ELSE Failed

\* map_profile_to_x509_profile and what the library makes of it: an authority
\* of any kind but a subordinate one is a root, its own issuer, and the path
\* length asked for is dropped; a document signer is a leaf.
NoPathLen == -1
MapProfile(config, subject, issuer) ==
    CASE config.profile \in {"ca", "csca", "iaca"} ->
           [issuer |-> subject, ca |-> TRUE, pathLen |-> NoPathLen, usage |-> {"keyCertSign", "cRLSign"}]
      [] config.profile = "subCa" ->
           [issuer |-> issuer, ca |-> TRUE, pathLen |-> config.pathLen, usage |-> {"keyCertSign", "cRLSign"}]
      [] OTHER ->
           [issuer |-> issuer, ca |-> FALSE, pathLen |-> NoPathLen, usage |-> {"digitalSignature", "nonRepudiation"}]

\* build_certificate_with_ecdsa_p256 and its siblings: all parts, signed
Assemble(config, now, fresh, issuer, key, signer) ==
    LET subject == BuildName(config.subject)
        validity == CreateValidity(now, config.days)
    IN IF subject.failed THEN Failed
       ELSE LET p == MapProfile(config, subject.name, issuer) IN
            Ok([subject |-> subject.name, issuer |-> p.issuer, serial |-> GenerateSerial(config, fresh),
                key |-> key, signed |-> signer, ca |-> p.ca, pathLen |-> p.pathLen, usage |-> p.usage,
                from |-> validity.from, until |-> validity.until])

\* build_self_signed: a fresh key of the type asked for; the configured issuer
\* name or the subject's own
BuildSelfSigned(config, now, fresh) ==
    LET key == GenerateSubjectKey(config, fresh)
        issuer == IF config.issuer = {} THEN config.subject ELSE config.issuer
    IN IF key.failed THEN Failed ELSE Assemble(config, now, fresh, issuer, key.key, key.key)

\* build_self_signed_with_key: the type is that of the key, not the configured one.
BuildSelfSignedWithKey(config, now, fresh, key) ==
    IF key.type \notin SigningOnly THEN Failed
    ELSE Assemble(config, now, fresh, IF config.issuer = {} THEN config.subject ELSE config.issuer, key, key)

\* build_signed_by: the issuer's key decides how it is signed; whether it is
\* the key of the issuer's certificate is not looked at.
BuildSignedBy(config, now, fresh, issuerCert, issuerKey) ==
    LET key == GenerateSubjectKey(config, fresh)
    IN IF issuerKey.type \notin SigningOnly \/ key.failed THEN Failed
       ELSE Assemble(config, now, fresh, issuerCert.subject, key.key, issuerKey)

\* build_certificate_signed_by_p256 and its siblings take the issuer's subject
\* as the issuer name and verify against the issuer's key.
SignatureVerifies(cert, issuer) == cert.signed = issuer.key

-----------------------------------------------------------------------------
(* The certificates made by name.                                          *)

Config == [subject |-> {}, issuer |-> {}, days |-> 1, profile |-> "endEntity", pathLen |-> 0,
           keyType |-> "p256", serial |-> 0]

CreateCaCertificate(cn, days, type, now, fresh) ==
    BuildSelfSigned([Config EXCEPT !.subject = {<<"CN", cn>>}, !.days = days,
                     !.profile = "ca", !.keyType = type], now, fresh)

CreateCscaCertificate(country, days, type, now, fresh) ==
    BuildSelfSigned([Config EXCEPT !.subject = {<<"C", country>>, <<"CN", "Country Signing CA">>}, !.days = days,
                     !.profile = "csca", !.keyType = type], now, fresh)

CreateIacaCertificate(jurisdiction, days, type, now, fresh) ==
    BuildSelfSigned([Config EXCEPT !.subject = {<<"C", jurisdiction>>, <<"CN", "Issuing Authority">>}, !.days = days,
                     !.profile = "iaca", !.keyType = type], now, fresh)

CreateSignedCertificate(cn, issuerCert, issuerKey, days, isCa, type, now, fresh) ==
    BuildSignedBy([Config EXCEPT !.subject = {<<"CN", cn>>}, !.days = days, !.keyType = type,
                   !.profile = IF isCa THEN "subCa" ELSE "endEntity"], now, fresh, issuerCert, issuerKey)

CreateDscCertificate(country, issuerCert, issuerKey, days, type, now, fresh) ==
    BuildSignedBy([Config EXCEPT !.subject = {<<"C", country>>, <<"CN", "Document Signer">>}, !.days = days,
                   !.profile = "dsc", !.keyType = type], now, fresh, issuerCert, issuerKey)

\* create_csr: a request carries the name and is signed by the new key.
CreateCsr(dn, type, fresh) ==
    LET name == BuildCsrName(dn)
        key == GenerateSubjectKey([Config EXCEPT !.keyType = type], fresh)
    IN IF name.failed \/ key.failed THEN Failed
       ELSE Ok([subject |-> name.name, key |-> key.key, signed |-> key.key])
=============================================================================
