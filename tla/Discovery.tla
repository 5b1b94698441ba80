------------------------------- MODULE Discovery -------------------------------
(***************************************************************************)
(* What an OID4VCI issuer says of itself and how a wallet comes to it      *)
(* (marty-oid4vci): metadata planned and built for a tenant, whose proof   *)
(* policies the host resolves in between (discovery.rs); the metadata,     *)
(* offers and formats of an issuance engine (metadata.rs, issuer.rs,       *)
(* formats/mod.rs); the links an offer reaches a wallet in                 *)
(* (wallet_input.rs, wallet.rs); the credentials prepared for a remote     *)
(* signer (remote_credential.rs); and the platforms and logins it takes    *)
(* learners from (lti.rs, oidc.rs). Every behaviour is about one of them.  *)
(* A URI is a record of what the code reads of it, an identifier the       *)
(* sequence of its parts.                                                  *)
(***************************************************************************)
EXTENDS Naturals, Sequences, FiniteSets

CONSTANTS
    MaxWrapperDepth,        \* MAX_WRAPPER_DEPTH
    MaxWraps                \* bound on the links around an offer

VARIABLES
    matter,         \* "tenant", "engine", "link", "remote", "platform" or "login"
    given,          \* what the code was given
    plan,           \* a tenant's proof policy requests
    resolved,       \* the host's answers, by request
    published,      \* the metadata in force, by configuration identifier
    got             \* what came of it

vars == <<matter, given, plan, resolved, published, got>>

Empty == [x \in {} |-> {}]
Failed == [ok |-> FALSE]
Ok(x) == [ok |-> TRUE, is |-> x]
NoText == {"none", "blank"}

-----------------------------------------------------------------------------
(* A tenant's metadata, planned first and built when the host has resolved *)
(* the proof policies it asks for.                                         *)

\* trimmed: text that is missing or blank is none.
Trimmed(text) == IF text \in NoText THEN "none" ELSE text

IsIso(type) == type = <<"org.iso.18013">>

\* SupportedFormats::new: the spellings a template may use, trimmed, in lower
\* case and with underscores for dashes.
SupportedFormats(values) ==
    (IF values \cap {"jwt_vc", "jwt_vc_json", "w3c_vcdm_v2_jwt", "w3c_vcdm_v2_jwt_vc"} # {} THEN {"jwt_vc_json"} ELSE {})
    \cup (IF values \cap {"sd_jwt_vc", "dc+sd_jwt", "vc+sd_jwt", "w3c_vcdm_v2_sd_jwt"} # {} THEN {"dc+sd-jwt"} ELSE {})
    \cup (IF values \cap {"json_ld", "ldp_vc", "w3c_vcdm_v2_di"} # {} THEN {"ldp_vc"} ELSE {})
    \cup (IF values \cap {"mdoc", "mso_mdoc"} # {} THEN {"mso_mdoc"} ELSE {})

\* ProofPolicyRequest::new
ProofPolicyRequest(did, format) ==
    [did |-> did, format |-> format,
     purpose |-> IF format = "mso_mdoc" THEN "mdoc_dsc" ELSE "vc_jwt_issuer"]

\* Mutant of PlannedFormats: only the formats a template lists.
PlannedFormatsListed(t) == SupportedFormats(t.formats)

\* The formats plan_organization_issuer_metadata asks about: an ISO type is an
\* mdoc whatever its template lists.
PlannedFormats(t) == SupportedFormats(t.formats) \cup (IF IsIso(t.type) THEN {"mso_mdoc"} ELSE {})

\* plan_organization_issuer_metadata: each request once
PlanRequests(tenant) ==
    CASE tenant.variant = "credential-manager" -> {ProofPolicyRequest("none", "dc+sd-jwt")}
      [] tenant.variant = "apple-wallet" -> {ProofPolicyRequest("none", "mso_mdoc")}
      [] tenant.variant = "default" ->
            UNION {{ProofPolicyRequest(Trimmed(tenant.templates[i].did), f) : f \in PlannedFormats(tenant.templates[i])} :
                   i \in {j \in DOMAIN tenant.templates : Trimmed(tenant.templates[j].did) # "none"}}

\* The request proof_types looks up, none for a template without an issuer
NeededRequest(tenant, t, format) ==
    IF tenant.variant # "default" THEN {ProofPolicyRequest("none", format)}
    ELSE IF Trimmed(t.did) = "none" THEN {}
    ELSE {ProofPolicyRequest(Trimmed(t.did), format)}

\* proof_types_with_requirements, and mso_mdoc_proof_types for an mdoc
WithRequirements(requirements, format) ==
    [algs |-> IF format = "mso_mdoc" THEN {"ES256"} ELSE {"ES256", "EdDSA"}, attestation |-> requirements]

\* proof_types, once its request is known to be answered
ProofTypes(tenant, t, format, answers) ==
    WithRequirements({answers[r] : r \in NeededRequest(tenant, t, format)}, format)

\* resolve_vct: a URI of the template's own, or one under the issuer's base
ResolveVct(tenant, t) ==
    IF t.vct = "uri" THEN <<"uri">> ELSE <<"base", "credentials">> \o t.type

\* credential_type_metadata, served at an issuer base without a trailing slash
CredentialTypeMetadata(tenant, type) ==
    [vct |-> (IF tenant.slash THEN <<"base", "", "credentials">> ELSE <<"base", "credentials">>) \o type]

\* root_issuer_metadata: four fixed configurations that ask for no attestation
RootConfigurations(tenant) ==
    [id \in {<<"default">>, <<"default", "credential-manager">>, <<"default", "ldp-vc">>, <<"default", "mdoc">>} |->
        LET format == CASE id = <<"default">> -> "jwt_vc_json"
                        [] id = <<"default", "credential-manager">> -> "dc+sd-jwt"
                        [] id = <<"default", "ldp-vc">> -> "ldp_vc"
                        [] id = <<"default", "mdoc">> -> "mso_mdoc"
        IN [format |-> format, proof |-> WithRequirements({}, format),
            vct |-> IF format # "dc+sd-jwt" THEN <<>>
                    ELSE (IF tenant.slash THEN <<"base", "", "credentials">> ELSE <<"base", "credentials">>) \o <<"default">>]]

\* claim_descriptors: claims with a name, mandatory where required
ClaimDescriptors(t) == {c \in t.claims : c.name # "none"}

\* credential_metadata and credential_display_entries: a name of its own, or
\* the friendly form of its type
CredentialMetadata(t) ==
    [name |-> IF Trimmed(t.name) # "none" THEN t.name ELSE "friendly", claims |-> ClaimDescriptors(t)]

\* tenant_configuration, with what each format adds to it
TenantConfiguration(tenant, t, format, answers) ==
    [format |-> format, scope |-> t.type,
     vct |-> IF format = "dc+sd-jwt" THEN ResolveVct(tenant, t) ELSE <<>>,
     doctype |-> IF format = "mso_mdoc" THEN t.type ELSE <<>>,
     algs |-> CASE format = "mso_mdoc" -> {"-7", "-8"}
                [] format = "ldp_vc" -> {"eddsa-rdfc-2022"}
                [] OTHER -> {"ES256", "EdDSA"},
     proof |-> ProofTypes(tenant, t, format, answers),
     metadata |-> CredentialMetadata(t)]

\* The formats default_configurations, credential_manager_configurations and
\* apple_wallet_configurations make of a template
ConfiguredFormats(tenant, t) ==
    CASE tenant.variant = "default" ->
            IF IsIso(t.type) THEN (SupportedFormats(t.formats) \ {"dc+sd-jwt"}) \cup {"mso_mdoc"}
            ELSE SupportedFormats(t.formats)
      [] tenant.variant = "credential-manager" -> IF IsIso(t.type) THEN {} ELSE {"dc+sd-jwt"}
      [] tenant.variant = "apple-wallet" -> {"mso_mdoc"}

\* The identifiers they make of them
ConfigurationId(tenant, t, format) ==
    t.type \o
    CASE tenant.variant # "default" -> <<tenant.variant>>
      [] format = "jwt_vc_json" -> <<>>
      [] format = "mso_mdoc" -> <<"mdoc">>
      [] format = "ldp_vc" -> <<"ldp-vc">>
      [] format = "dc+sd-jwt" -> <<"sd-jwt">>

\* default_configurations and the others: of two templates that make one
\* identifier, the later stays.
TenantConfigurations(tenant, answers) ==
    LET Made == UNION {{<<i, f>> : f \in ConfiguredFormats(tenant, tenant.templates[i])} : i \in DOMAIN tenant.templates}
        IdOf(m) == ConfigurationId(tenant, tenant.templates[m[1]], m[2])
        Last(id) == CHOOSE m \in Made : IdOf(m) = id /\ \A n \in Made : IdOf(n) = id => n[1] <= m[1]
    IN [id \in {IdOf(m) : m \in Made} |->
            TenantConfiguration(tenant, tenant.templates[Last(id)[1]], Last(id)[2], answers)]

\* Whether proof_types finds what it looks up: the variants look it up even
\* when they have no template.
NeedsAnswered(tenant, answers) ==
    IF tenant.variant = "default"
    THEN \A i \in DOMAIN tenant.templates :
            \A f \in ConfiguredFormats(tenant, tenant.templates[i]) :
                NeededRequest(tenant, tenant.templates[i], f) \subseteq DOMAIN answers
    ELSE PlanRequests(tenant) \subseteq DOMAIN answers

\* path_suffix, and the issuer both metadata documents name
IssuerUrl(tenant) == <<"base", "org", tenant.variant>>

\* organization_authorization_server_metadata
AuthorizationServerMetadata(tenant) ==
    [issuer |-> IssuerUrl(tenant), methods |-> {"none", "private_key_jwt"}, challenges |-> {"S256"}]

\* plan_organization_issuer_metadata
Plan ==
    /\ matter = "tenant" /\ plan = {} /\ got = <<>>
    /\ plan' = PlanRequests(given)
    /\ got' = <<"planned">>
    /\ UNCHANGED <<matter, given, resolved, published>>

\* The host asks its policies; an answer may be missing. What it answers is
\* told apart by what was asked.
Resolve ==
    /\ matter = "tenant" /\ got = <<"planned">>
    /\ \E missing \in {{}} \cup {{r} : r \in plan} : resolved' = [r \in plan \ missing |-> r]
    /\ got' = <<"resolved">>
    /\ UNCHANGED <<matter, given, plan, published>>

\* TenantDiscoveryPlan::build: fails closed on an answer that is missing
Build ==
    /\ matter = "tenant" /\ got = <<"resolved">>
    /\ IF plan \subseteq DOMAIN resolved /\ NeedsAnswered(given, resolved)
       THEN published' = TenantConfigurations(given, resolved) /\ got' = <<"built", IssuerUrl(given)>>
       ELSE published' = published /\ got' = <<"missing">>
    /\ UNCHANGED <<matter, given, plan, resolved>>

-----------------------------------------------------------------------------
(* The issuance engine's own metadata, its offers and its formats.         *)

Formats == {"JwtVcJson", "SdJwt", "MsoMdoc", "ZkMdoc", "VdsNc"}

\* CredentialFormat::as_str
AsStr(format) ==
    CASE format = "JwtVcJson" -> "jwt_vc_json"
      [] format = "SdJwt" -> "dc+sd-jwt"
      [] format = "MsoMdoc" -> "mso_mdoc"
      [] format = "ZkMdoc" -> "zk_mdoc"
      [] format = "VdsNc" -> "vds_nc"

\* CredentialFormat::from_str_loose
FromStrLoose(s) ==
    CASE s \in {"jwt_vc_json", "jwt_vc"} -> {"JwtVcJson"}
      [] s \in {"dc+sd-jwt", "spruce-vc+sd-jwt", "vc+sd-jwt", "sd_jwt", "sd-jwt"} -> {"SdJwt"}
      [] s \in {"mso_mdoc", "mdoc"} -> {"MsoMdoc"}
      [] s \in {"zk_mdoc", "zk-mdoc", "zkp_mdoc"} -> {"ZkMdoc"}
      [] s \in {"vds_nc", "vds-nc", "VDS-NC"} -> {"VdsNc"}
      [] OTHER -> {}

\* format_config_id
FormatConfigId(id, format) ==
    id \o CASE format = "JwtVcJson" -> <<>>
            [] format = "SdJwt" -> <<"sd_jwt">>
            [] format = "MsoMdoc" -> <<"mso_mdoc">>
            [] format = "ZkMdoc" -> <<"zk_mdoc">>
            [] format = "VdsNc" -> <<"vds_nc">>

\* build_claims_metadata, with namespaces in build_mdoc_claims_metadata
ClaimsMetadata(ctype, format) ==
    CASE format = "JwtVcJson" -> {}
      [] format \in {"MsoMdoc", "ZkMdoc"} ->
            {<<IF ctype.doctype = <<>> THEN "org.iso.18013.5.1" ELSE "namespace", c>> : c \in ctype.claims}
      [] OTHER -> {<<"", c>> : c \in ctype.claims}

\* mso_mdoc_proof_types: an mdoc's device key is P-256
MdocProofAlgs(algs) == {"ES256"}

\* build_config_for_format: RS256 signs no mdoc and no seal.
ConfigForFormat(ctype, format, algs) ==
    [format |-> AsStr(format), scope |-> ctype.id,
     algs |-> IF format \in {"JwtVcJson", "SdJwt"} THEN algs ELSE algs \ {"RS256"},
     proof |-> IF format = "MsoMdoc" THEN MdocProofAlgs(algs) ELSE algs,
     doctype |-> IF format \in {"MsoMdoc", "ZkMdoc"} THEN ctype.doctype ELSE <<>>,
     vct |-> IF format \in {"SdJwt", "VdsNc"} THEN (IF ctype.vct = <<>> THEN ctype.id ELSE ctype.vct) ELSE <<>>,
     claims |-> ClaimsMetadata(ctype, format)]

\* build_default_config
DefaultConfig(algs) ==
    [format |-> "jwt_vc_json", scope |-> <<"default">>, algs |-> algs, proof |-> algs,
     doctype |-> <<>>, vct |-> <<>>, claims |-> {}]

\* MetadataBuilder::build: a later type overwrites an identifier made before.
EngineConfigurations(engine) ==
    LET Made == UNION {{<<i, f>> : f \in engine.types[i].formats} : i \in DOMAIN engine.types}
        IdOf(m) == FormatConfigId(engine.types[m[1]].id, m[2])
        Last(id) == CHOOSE m \in Made : IdOf(m) = id /\ \A n \in Made : IdOf(n) = id => n[1] <= m[1]
    IN IF Made = {} THEN [id \in {<<"default">>} |-> DefaultConfig(engine.algs)]
       ELSE [id \in {IdOf(m) : m \in Made} |->
                ConfigForFormat(engine.types[Last(id)[1]], Last(id)[2], engine.algs)]

\* negotiate_format: a format asked for by name, if any type has it
NegotiateFormat(engine, requested) ==
    LET supported == UNION {engine.types[i].formats : i \in DOMAIN engine.types}
    IN FromStrLoose(requested) \cap supported

\* sign_credential_with_signer: what the build was compiled with. Only JWT
\* credentials and seals are in every build that issues.
Signs(engine, format) ==
    CASE format = "SdJwt" -> "sd_jwt" \in engine.features
      [] format = "MsoMdoc" -> "mso_mdoc" \in engine.features
      [] format = "ZkMdoc" -> {"zk_mdoc", "mso_mdoc"} \subseteq engine.features
      [] OTHER -> TRUE

\* IssuanceEngine::create_offer: one grant, with a transaction code on the
\* pre-authorized one if the offer asks for a PIN
CreateOffer(ids, preAuthorized, pin) ==
    IF ids = {} THEN Failed
    ELSE Ok([ids |-> ids, grant |-> IF preAuthorized THEN "pre-authorized_code" ELSE "authorization_code",
             txCode |-> preAuthorized /\ pin])

\* generate_metadata
GenerateMetadata ==
    /\ matter = "engine" /\ got = <<>>
    /\ published' = EngineConfigurations(given)
    /\ got' = <<"published">>
    /\ UNCHANGED <<matter, given, plan, resolved>>

\* create_offer, of configurations in the metadata
Offer ==
    /\ matter = "engine" /\ got = <<"published">>
    /\ \E ids \in {{}} \cup {{id} : id \in DOMAIN published} \cup {DOMAIN published}, pre, pin \in BOOLEAN :
          got' = <<"offered", CreateOffer(ids, pre, pin)>>
    /\ UNCHANGED <<matter, given, plan, resolved, published>>

\* A wallet asks for one of them. What answers it is the host's (the engine's
\* own issue_credential is compiled for tests only): it negotiates the format
\* the configuration names and signs in it.
RequestOffered ==
    /\ matter = "engine" /\ Len(got) = 2 /\ got[2].ok
    /\ \E id \in got[2].is.ids :
          LET found == NegotiateFormat(given, published[id].format)
          IN got' = <<"issued", published[id].format, {f \in found : Signs(given, f)}>>
    /\ UNCHANGED <<matter, given, plan, resolved, published>>

-----------------------------------------------------------------------------
(* Links: an offer by value or by reference, in any of the envelopes that  *)
(* carry one to the wallet, some of which repeat the envelope.             *)

\* An input: a URI with its parameters in order, a JSON object, or neither.
Uri(scheme, q) == [scheme |-> scheme, q |-> q, offer |-> FALSE, mark |-> "none"]
Json(isOffer) == [Uri("json", <<>>) EXCEPT !.offer = isOffer]
Text(kind) == Uri(kind, <<>>)
Param(key, value) == [key |-> key, value |-> value]

Unparsable == {"json", "text", "blank"}
IsWrapper(scheme) == scheme \in {"marty-authenticator", "martywallet"}

\* first_query_value: the first parameter with one of the names and a value
FirstQuery(u, keys) ==
    LET hits == {i \in DOMAIN u.q : u.q[i].key \in keys /\ u.q[i].value.scheme # "blank"}
    IN IF hits = {} THEN <<>> ELSE <<u.q[CHOOSE i \in hits : \A j \in hits : i <= j].value>>
HasAny(u, keys) == FirstQuery(u, keys) # <<>>

\* is_inline_credential_offer
IsInlineOffer(u) == u.scheme = "json" /\ u.offer

\* credential_offer_envelope
Envelope(key, value) == Uri("openid-credential-offer", <<Param(key, value)>>)

\* looks_like_offer_envelope
LooksLikeEnvelope(u) ==
    u.scheme \in {"openid-credential-offer", "haip-vci", "openid-vc", "marty-authenticator", "martywallet", "intent"}

\* checked_input
Checked(u, depth) == depth <= MaxWrapperDepth /\ u.scheme # "blank"

PresentationKeys == {"request_uri", "request", "presentation_definition", "presentation_definition_uri", "dcql_query"}

RECURSIVE Normalize(_, _)

\* normalize_offer_reference_or_envelope
OfferReference(value, depth) ==
    IF LooksLikeEnvelope(value) THEN Normalize(value, depth)
    ELSE IF value.scheme \in {"http", "https"} THEN Ok(Envelope("credential_offer_uri", value)) ELSE Failed

\* normalize_offer_value_or_envelope
OfferValue(value, depth) ==
    IF LooksLikeEnvelope(value) THEN Normalize(value, depth)
    ELSE IF value.scheme = "json" THEN Ok(Envelope("credential_offer", value)) ELSE Failed

\* The parameters an envelope is searched for, the reference first
OfferParameter(u, depth, otherwise) ==
    LET uri == FirstQuery(u, {"credential_offer_uri"})
        value == FirstQuery(u, {"credential_offer"})
    IN IF uri # <<>> THEN OfferReference(uri[1], depth + 1)
       ELSE IF value # <<>> THEN OfferValue(value[1], depth + 1)
       ELSE otherwise

\* An intent for the offer scheme keeps its parameters.
NormalizeIntent(u, depth) ==
    OfferParameter(u, depth,
        IF u.mark = "offer-scheme" /\ u.q # <<>> THEN Ok(Uri("openid-credential-offer", u.q)) ELSE Failed)

\* normalize_credential_offer_uri_inner
Normalize(u, depth) ==
    IF ~Checked(u, depth) THEN Failed
    ELSE IF IsInlineOffer(u) THEN Ok(Envelope("credential_offer", u))
    ELSE IF u.scheme \in Unparsable THEN Failed
    ELSE IF IsWrapper(u.scheme)
    THEN LET nested == FirstQuery(u, {"inner", "uri", "offer_uri", "offer", "credential_offer_uri"})
         IN IF nested = <<>> THEN Failed ELSE Normalize(nested[1], depth + 1)
    ELSE IF u.scheme = "intent" THEN NormalizeIntent(u, depth)
    ELSE IF u.scheme = "openid-vc" THEN IF HasAny(u, {"request_uri"}) THEN Ok(u) ELSE Failed
    ELSE IF u.scheme \in {"openid-credential-offer", "haip-vci"}
    THEN LET nested == FirstQuery(u, {"inner", "uri"})
         IN OfferParameter(u, depth, IF nested = <<>> THEN Failed ELSE Normalize(nested[1], depth + 1))
    ELSE IF u.scheme \in {"http", "https"}
    THEN OfferParameter(u, depth, Ok(Envelope("credential_offer_uri", u)))
    ELSE Failed

Classified(kind, normalized) ==
    IF normalized.ok THEN Ok([kind |-> kind, normalized |-> normalized.is]) ELSE Failed
Unclassified == Ok([kind |-> "none"])

\* An http(s) link: an offer by its parameters or its path, else a request
ClassifyLink(u, depth) ==
    IF HasAny(u, {"credential_offer", "credential_offer_uri"}) \/ u.mark = "offer-path"
    THEN Classified("offer", Normalize(u, depth))
    ELSE IF HasAny(u, PresentationKeys) \/ u.mark = "request-path" THEN Classified("presentation", Ok(u))
    ELSE Unclassified

RECURSIVE Classify(_, _)

\* A wallet's own wrapper, or an Android intent, around another input
ClassifyNested(u, depth) ==
    LET nested == FirstQuery(u, {"inner", "uri"})
    IN IF nested # <<>> THEN Classify(nested[1], depth + 1)
       ELSE IF IsWrapper(u.scheme) THEN Failed ELSE Unclassified

\* classify_wallet_input_inner
Classify(u, depth) ==
    IF ~Checked(u, depth) THEN Failed
    ELSE IF u.scheme = "mdoc" THEN Classified("mdoc", Ok(u))
    ELSE IF IsInlineOffer(u) THEN Classified("offer", Normalize(u, depth))
    ELSE IF u.scheme \in Unparsable THEN Unclassified
    ELSE IF \/ IsWrapper(u.scheme) /\ HasAny(u, {"offer_uri", "offer", "credential_offer_uri"})
            \/ u.scheme = "intent" /\ (HasAny(u, {"credential_offer_uri", "credential_offer"}) \/ u.mark = "offer-scheme")
            \/ u.scheme \in {"openid-credential-offer", "haip-vci", "openid-vc"}
    THEN Classified("offer", Normalize(u, depth))
    ELSE IF IsWrapper(u.scheme) \/ u.scheme = "intent" THEN ClassifyNested(u, depth)
    ELSE IF u.scheme = "openid4vp"
    THEN IF HasAny(u, PresentationKeys) THEN Classified("presentation", Ok(u)) ELSE Failed
    ELSE IF u.scheme \in {"http", "https"} THEN ClassifyLink(u, depth)
    ELSE IF u.scheme = "openid-other" THEN Failed
    ELSE Unclassified

\* What a server answers to a fetch of the reference: its offer, unless the
\* link is of something else
Fetched(u) == IF u.scheme = "https" /\ u.offer THEN Ok("offer") ELSE Failed

\* parse_credential_offer of the wallet: an offer by value before a reference
ParseOffer(u) ==
    LET normalized == Normalize(u, 0) IN
    IF ~normalized.ok THEN Failed
    ELSE LET value == FirstQuery(normalized.is, {"credential_offer"})
             uri == FirstQuery(normalized.is, {"credential_offer_uri"})
         IN IF value # <<>> THEN IF IsInlineOffer(value[1]) THEN Ok("offer") ELSE Failed
            ELSE IF uri # <<>> THEN Fetched(uri[1]) ELSE Failed

\* generate_offer_uri: by reference, or Microsoft's own envelope
GenerateOfferUri(format) ==
    LET reference == [Uri("https", <<>>) EXCEPT !.offer = TRUE, !.mark = "offer-path"]
    IN IF format = "microsoft" THEN Uri("openid-vc", <<Param("request_uri", reference)>>)
       ELSE Envelope("credential_offer_uri", reference)

\* Links made by others, around an input: each with the parameter that names
\* what it carries, some with a second one
Link(scheme, key, mark, u) == [Uri(scheme, <<Param(key, u)>>) EXCEPT !.mark = mark]
Carriers(u) ==
    {Link("marty-authenticator", k, "none", u) : k \in {"inner", "uri", "offer_uri"}}
    \cup {Link(s, "credential_offer_uri", "none", u) : s \in {"https", "haip-vci", "martywallet"}}
    \cup {Link("openid-credential-offer", "inner", "none", u)}
    \cup {Link("intent", k, m, u) : k \in {"credential_offer_uri", "inner"}, m \in {"none", "offer-scheme"}}
    \cup {[Link("martywallet", "inner", "none", u) EXCEPT !.q = <<Param("offer", Text("blank"))>> \o @ \o
              <<Param("offer_uri", Uri("openid4vp", <<Param("request", Text("text"))>>))>>]}

\* What may be at the core
Cores ==
    {Json(TRUE), Json(FALSE), Text("text"), Text("blank"), Text("mdoc"), Text("openid-other"), Text("mailto"),
     Uri("openid4vp", <<Param("request_uri", Text("text"))>>), Uri("openid4vp", <<>>),
     Uri("https", <<Param("request_uri", Text("text"))>>), Link("https", "credential_offer", "none", Json(TRUE)),
     GenerateOfferUri("standard"), GenerateOfferUri("microsoft"),
     GenerateOfferUri("standard").q[1].value, Uri("https", <<>>)}

\* A link is put around the input on its way.
Carry ==
    /\ matter = "link" /\ Len(got) < MaxWraps
    /\ \E u \in Carriers(given) : given' = u /\ got' = Append(got, <<u.scheme, u.q[Len(u.q)].key, u.mark>>)
    /\ UNCHANGED <<matter, plan, resolved, published>>

-----------------------------------------------------------------------------
(* Credentials prepared for a signer elsewhere.                            *)

\* parse_algorithm, and parse_mdoc_algorithm for an mdoc
ParseAlgorithm(kind, alg) ==
    alg \in IF kind = "mdoc" THEN {"ES256", "ES384"} ELSE {"ES256", "EdDSA", "ES256K", "ES384", "RS256"}

\* RemoteSignerMetadata::new and MdocSignerMetadata::new: the issuer is a DID
\* and the key one of its own.
SignerFits(r) == r.issuer # "url" /\ r.method = r.issuer /\ ParseAlgorithm(r.kind, r.alg)

\* validate_signer_public_jwk: public, of the algorithm's kind, and under no
\* other name than the verification method's
KeyType(alg) ==
    CASE alg = "ES256" -> "P-256" [] alg = "ES384" -> "P-384" [] alg = "EdDSA" -> "Ed25519"
      [] alg = "ES256K" -> "secp256k1" [] alg = "RS256" -> "RSA"
SignerKeyFits(r) ==
    /\ r.key.members = {}
    /\ r.key.type = KeyType(r.alg)
    /\ r.key.kid \in {"none", r.method}

\* validate_credential_id and validate_certificate_chain
IdFits(r) == r.id # "blank"
ChainFits(r) == "blank" \notin r.chain

\* validate_mdoc_credential_id: a UUID, in whatever case; the identifiers that
\* are one spelling of "c1"
MdocId(id) == IF id \in {"c1", "C1"} THEN <<"c1">> ELSE IF id = "c2" THEN <<"c2">> ELSE <<>>
MdocIdFits(r) == r.id = "none" \/ MdocId(r.id) # <<>>

\* public_jwk
PublicJwk(jwk) == "private" \notin jwk.members

\* validate_sd_jwt_structural_markers: no claim, selector or holder key holds
\* a member an SD-JWT keeps for itself.
MarkersFit(r) == ~r.markers /\ (r.holder = <<>> \/ "_sd" \notin r.holder[1].members)

\* validate_sd_jwt_confirmation_inputs: a symmetric key confirms nobody.
ConfirmationFits(r) == r.holder = <<>> \/ r.holder[1].type # "oct"

\* validate_mdoc_preparation: the device key on a curve a device may have, and
\* claims, certificates and a validity that can be encoded
MdocPreparationFits(r) ==
    /\ r.holder = <<>> \/ (PublicJwk(r.holder[1]) /\ r.holder[1].type \in {"P-256", "P-384"})
    /\ r.encodes

\* holder_confirmation: a holder's key only for a subject
HolderConfirmation(r) ==
    CASE r.subject # "none" /\ r.holder # <<>> -> IF PublicJwk(r.holder[1]) THEN Ok(<<"jwk", r.holder[1].of>>) ELSE Failed
      [] r.subject # "none" /\ r.holder = <<>> -> Ok(<<"kid", r.subject>>)
      [] r.subject = "none" /\ r.holder # <<>> -> Failed
      [] OTHER -> Ok(<<>>)

\* validate_explicit_subject: objects, none of them empty
ExplicitSubjectFits(s) == s = <<>> \/ ({} # s[1] /\ "empty" \notin s[1])

\* explicit_subject_identifies_holder
IdentifiesHolder(s, holder) == holder \in s[1]

\* The claim that names the holder: not beside a subject that names another
SubjectClaim(r) ==
    r.subject # "none" /\ (r.explicit = <<>> \/ IdentifiesHolder(r.explicit, r.subject))

\* The profile of a JWT credential, with the achievement it needs
ProfileFits(r) ==
    CASE r.profile = "open_badge_v3" -> Trimmed(r.achievement) # "none"
      [] r.profile = "none" -> r.achievement = "none"
      [] OTHER -> FALSE

\* prepare_remote_sd_jwt
PrepareRemoteSdJwt(r) ==
    LET confirmation == HolderConfirmation(r)
    IN IF /\ IdFits(r) /\ ChainFits(r) /\ SignerFits(r)
          /\ MarkersFit(r) /\ confirmation.ok /\ ConfirmationFits(r)
          /\ SignerKeyFits(r)
       THEN Ok([kind |-> "sd-jwt", signer |-> r.method, alg |-> r.alg, holder |-> confirmation.is, sub |-> r.subject])
       ELSE Failed

\* prepare_remote_jwt_vc
PrepareRemoteJwtVc(r) ==
    IF /\ IdFits(r) /\ SignerFits(r) /\ ExplicitSubjectFits(r.explicit)
       /\ r.explicit = <<>> \/ ~r.claims
       /\ ProfileFits(r)
       /\ SignerKeyFits(r)
    THEN Ok([kind |-> "jwt-vc", signer |-> r.method, alg |-> r.alg, holder |-> <<>>,
             sub |-> IF SubjectClaim(r) THEN r.subject ELSE "none"])
    ELSE Failed

PreparedMdoc(r) ==
    [kind |-> "mdoc", signer |-> r.method, alg |-> r.alg,
     holder |-> IF r.holder = <<>> THEN <<>> ELSE <<"jwk", r.holder[1].of>>, sub |-> "none"]

\* prepare_remote_mdoc
PrepareRemoteMdoc(r) ==
    IF /\ IdFits(r) /\ (r.holder = <<>> \/ PublicJwk(r.holder[1])) /\ SignerFits(r)
       /\ MdocIdFits(r) /\ MdocPreparationFits(r) /\ SignerKeyFits(r)
    THEN Ok(PreparedMdoc(r)) ELSE Failed

\* validate_remote_mdoc_batch_item: its own copy of the same checks
BatchItemFits(r) ==
    /\ IdFits(r) /\ (r.holder = <<>> \/ PublicJwk(r.holder[1])) /\ MdocIdFits(r)
    /\ SignerFits(r) /\ SignerKeyFits(r) /\ MdocPreparationFits(r)

\* prepare_remote_mdoc_batch: in the order given and under the caller's
\* identities, or not at all. Two spellings of one identifier are one.
PrepareRemoteBatch(batch) ==
    IF \/ \E i, j \in DOMAIN batch : i # j /\ batch[i].id = batch[j].id
       \/ \E i \in DOMAIN batch : ~BatchItemFits(batch[i].request)
       \/ \E i, j \in DOMAIN batch :
             i # j /\ batch[i].request.id # "none" /\ MdocId(batch[i].request.id) = MdocId(batch[j].request.id)
    THEN Failed
    ELSE Ok([i \in DOMAIN batch |-> [id |-> batch[i].id, mdoc |-> PreparedMdoc(batch[i].request)]])

\* Requests that differ from a usual one in one or two respects. The holder's
\* key may be anyone's, of any kind, with members it should not have.
Holder(of) == [of |-> of, type |-> "P-256", members |-> {}]
Usual(kind) ==
    [kind |-> kind, issuer |-> "did1", method |-> "did1", alg |-> "ES256", id |-> "c1", chain |-> {}, subject |-> "h1",
     key |-> [type |-> "P-256", kid |-> "none", members |-> {}], holder |-> <<Holder("h1")>>, explicit |-> <<>>, claims |-> FALSE,
     markers |-> FALSE, encodes |-> TRUE, profile |-> "none", achievement |-> "none"]
Changes(r) ==
    {[r EXCEPT !.issuer = "url"], [r EXCEPT !.method = "did2"], [r EXCEPT !.alg = "EdDSA"], [r EXCEPT !.alg = "ES384"],
     [r EXCEPT !.alg = "HS256"], [r EXCEPT !.chain = {"blank"}], [r EXCEPT !.subject = "none"], [r EXCEPT !.subject = "h2"],
     [r EXCEPT !.explicit = <<{"h1"}>>], [r EXCEPT !.explicit = <<{"h2"}>>], [r EXCEPT !.explicit = <<{"h1", "h2"}>>],
     [r EXCEPT !.explicit = <<{"empty", "h1"}>>], [r EXCEPT !.explicit = <<{}>>], [r EXCEPT !.claims = TRUE],
     [r EXCEPT !.markers = TRUE], [r EXCEPT !.encodes = FALSE],
     [r EXCEPT !.profile = "open_badge_v3"], [r EXCEPT !.achievement = "a"], [r EXCEPT !.profile = "other"]}
    \cup {[r EXCEPT !.id = i] : i \in {"blank", "none", "text", "C1", "c2"}}
    \cup {[r EXCEPT !.key.type = t] : t \in {"P-384", "Ed25519"}}
    \cup {[r EXCEPT !.key.kid = k] : k \in {"did1", "did2"}}
    \cup {[r EXCEPT !.key.members = {"private"}], [r EXCEPT !.holder = <<>>], [r EXCEPT !.holder = <<Holder("h2")>>]}
    \cup {[r EXCEPT !.holder = <<[Holder("h1") EXCEPT !.members = {m}]>>] : m \in {"private", "_sd"}}
    \cup {[r EXCEPT !.holder = <<[Holder("h1") EXCEPT !.type = t]>>] : t \in {"P-384", "Ed25519", "oct"}}

\* Adjust the request once more before it is prepared.
Adjust ==
    /\ matter = "remote" /\ Len(got) < 2
    /\ given' \in Changes(given)
    /\ got' = Append(got, "adjusted")
    /\ UNCHANGED <<matter, plan, resolved, published>>

Prepared(r) ==
    CASE r.kind = "sd-jwt" -> PrepareRemoteSdJwt(r)
      [] r.kind = "jwt-vc" -> PrepareRemoteJwtVc(r)
      [] r.kind = "mdoc" -> PrepareRemoteMdoc(r)

-----------------------------------------------------------------------------
(* Platforms that send learners to the issuer: where a Canvas platform may *)
(* be, what is fetched from it, and the ID tokens of a launch or a login   *)
(* (lti.rs, oidc.rs). A host is what it is: public, local by name, an      *)
(* address; `to` are the addresses its name resolves to, which for an      *)
(* address is itself. An IPv6 literal in brackets is not read as one: it   *)
(* is a name that resolves to nothing.                                     *)

Private(address) == address \in {"private", "loopback"}
IsAddress(u) == u.host \in {"private", "loopback"}
LocalName(u) == u.host = "localhost"

\* validate_url: in hardened mode nothing local or private, but plain HTTP to
\* this machine where that is allowed
ValidUrl(u, mode, originOnly) ==
    LET sandbox == mode.http /\ u.scheme = "http" IN
    /\ u.scheme = "https" \/ sandbox
    /\ ~u.credentials /\ ~u.query
    /\ originOnly => u.path \in {"", "/"}
    /\ u.scheme = "http" => LocalName(u) \/ u.host = "loopback"
    /\ LocalName(u) => mode.private \/ sandbox
    /\ IsAddress(u) => mode.private \/ (sandbox /\ u.host = "loopback")

\* normalize_url: without the slash at its end
NormalizeUrl(u, mode, originOnly) ==
    IF ~ValidUrl(u, mode, originOnly) THEN Failed ELSE Ok([u EXCEPT !.path = IF @ = "/" THEN "" ELSE @])

\* validate_resolved_host: every address a name resolves to
ResolvedHostFits(u, mode) ==
    \/ mode.private \/ IsAddress(u)
    \/ /\ u.to # {}
       /\ \A a \in u.to : Private(a) => mode.http /\ u.scheme = "http" /\ a = "loopback" /\ LocalName(u)

\* normalize_canvas_https_origin: one spelling of a host, no default port
HttpsOrigin(u) ==
    IF u.scheme = "https" /\ ~u.credentials /\ ~u.query /\ u.path \in {"", "/"}
    THEN Ok([host |-> u.host, port |-> IF u.port = "443" THEN "none" ELSE u.port])
    ELSE Failed
Listed(origin, allowlist) == \E a \in allowlist : HttpsOrigin(a).ok /\ HttpsOrigin(a).is = origin

\* validate_canvas_lti_service_url
ServiceUrlFits(u, allowlist) ==
    /\ u.scheme = "https" /\ ~u.credentials /\ u.to # {}
    /\ LocalName(u) \/ IsAddress(u) \/ (\E a \in u.to : Private(a))
        => Listed(HttpsOrigin([u EXCEPT !.path = "", !.query = FALSE]).is, allowlist)

\* canvas_lti_trust_profile and hosted_canvas_lti_profile
TrustProfile(u, profile, allowlist) ==
    LET origin == HttpsOrigin(u) IN
    IF ~origin.ok THEN Failed
    ELSE IF profile = "hosted_global"
    THEN LET environment == IF u.host \in {"beta", "test"} THEN u.host ELSE "production"
         IN Ok([issuer |-> environment, keys |-> <<"sso", environment>>, token |-> origin.is])
    ELSE IF profile = "self_managed_same_origin" /\ Listed(origin.is, allowlist)
    THEN Ok([issuer |-> "self", keys |-> <<"self", "self">>, token |-> origin.is])
    ELSE Failed

\* fetch_limited_json
FetchFits(response) == ~response.redirect /\ response.ok /\ ~response.long

\* probe_canvas_lti_platform
Probe(p) ==
    LET base == NormalizeUrl(p.base, p.mode, TRUE)
        issuer == NormalizeUrl(p.issuer, p.mode, FALSE)
        keys == NormalizeUrl(p.keys, p.mode, FALSE)
    IN IF /\ base.ok /\ ResolvedHostFits(base.is, p.mode) /\ FetchFits(p.configuration)
          /\ issuer.ok /\ keys.ok /\ ResolvedHostFits(keys.is, p.mode) /\ FetchFits(p.jwks) /\ p.jwks.keys
       THEN Ok([base |-> base.is, issuer |-> issuer.is, keys |-> keys.is]) ELSE Failed

\* decode_audience, and audiences of oidc.rs: strings, at least one
AudienceReads(t) == t.aud # {} /\ "number" \notin t.aud

\* The signature is that of a key with the token's key identifier.
SignedBy(t, key) == t.signer = key.key /\ t.alg = key.alg

\* verify_lti_launch_jwt: the first key of that identifier
VerifyLaunch(t, keys, policy) ==
    LET named == {i \in DOMAIN keys : keys[i].kid = t.kid}
        key == keys[CHOOSE i \in named : \A j \in named : i <= j]
    IN /\ named # {} /\ SignedBy(t, key)
       /\ t.exp + policy.leeway >= policy.now
       /\ t.iss = policy.issuer
       /\ AudienceReads(t) /\ policy.client \in t.aud
       /\ t.deployment = policy.deployment
       /\ policy.nonce # "none" => t.nonce = policy.nonce

\* validate_limits
LimitsFit(policy) == policy.algs # {} /\ policy.leeway <= 2

\* access_token_hash: half the digest that goes with the algorithm
AccessTokenHash(token, alg) == <<token, IF alg = "RS256" THEN "sha256" ELSE "sha512">>

\* validate_claims
ClaimsFit(t, policy) ==
    /\ t.iss = policy.issuer
    /\ AudienceReads(t) /\ policy.client \in t.aud
    /\ Cardinality(t.aud) > 1 => t.azp # "none"
    /\ t.azp # "none" => t.azp = policy.client
    /\ policy.now <= t.exp + policy.leeway
    /\ t.iat <= policy.now + policy.leeway /\ t.nbf <= policy.now + policy.leeway
    /\ policy.nonce # "none" => t.nonce = policy.nonce
    /\ t.hash # <<>> => policy.access # "none" /\ t.hash = AccessTokenHash(policy.access, t.alg)

\* validate_id_token_at: exactly one key of that identifier
ValidateIdToken(t, keys, policy) ==
    /\ LimitsFit(policy) /\ t.alg \in policy.algs /\ t.typ \in {"none", "JWT"}
    /\ LET named == {i \in DOMAIN keys : keys[i].kid = t.kid}
       IN Cardinality(named) = 1 /\ \A i \in named : SignedBy(t, keys[i])
    /\ ClaimsFit(t, policy)

\* Platforms and tokens that differ from usual ones
Place == [scheme |-> "https", host |-> "public", path |-> "", port |-> "none", credentials |-> FALSE, query |-> FALSE, to |-> {"public"}]
Places(u) ==
    {[u EXCEPT !.scheme = "http"], [u EXCEPT !.path = "/"], [u EXCEPT !.path = "/a"], [u EXCEPT !.port = "443"],
     [u EXCEPT !.port = "8443"], [u EXCEPT !.credentials = TRUE], [u EXCEPT !.query = TRUE], [u EXCEPT !.host = "beta"], [u EXCEPT !.host = "test"]}
    \cup {[u EXCEPT !.host = h, !.to = {a}] : h \in {"localhost", "public"}, a \in {"public", "private", "loopback"}}
    \cup {[u EXCEPT !.host = h, !.to = {h}] : h \in {"loopback", "private"}}
    \cup {[u EXCEPT !.to = {}], [u EXCEPT !.to = {"public", "private"}]}
Answer == [redirect |-> FALSE, ok |-> TRUE, long |-> FALSE, keys |-> TRUE]
Answers == {[Answer EXCEPT !.redirect = TRUE], [Answer EXCEPT !.ok = FALSE], [Answer EXCEPT !.long = TRUE], [Answer EXCEPT !.keys = FALSE]}
Platforms ==
    [base : {Place}, issuer : {Place}, keys : {Place}, configuration : {Answer}, jwks : {Answer}, mode : [private : BOOLEAN, http : BOOLEAN],
     allowlist : {{}, {Place}, {[Place EXCEPT !.host = "localhost"]}}]
Key(kid, key, alg) == [kid |-> kid, key |-> key, alg |-> alg]
Logins ==
    [token : {[iss |-> "p1", kid |-> "k1", signer |-> "p1", alg |-> "RS256", aud |-> {"us"}, azp |-> "none", deployment |-> "d1",
               nonce |-> "n1", exp |-> 4, iat |-> 3, nbf |-> 3, typ |-> "JWT", hash |-> <<>>]},
     keys : {<<>>, <<Key("k1", "p1", "RS256")>>, <<Key("k1", "p1", "RS256"), Key("k1", "p2", "RS256")>>,
             <<Key("k1", "p2", "RS256"), Key("k1", "p1", "RS256")>>, <<Key("k2", "p1", "EdDSA"), Key("k1", "p1", "RS256")>>},
     policy : [issuer : {"p1"}, client : {"us"}, deployment : {"d1"}, nonce : {"none", "n1"}, access : {"none", "a1"}, now : {4},
               leeway : {0, 1, 3}, algs : {{}, {"RS256"}, {"RS256", "EdDSA"}}]]
Tokens(t) ==
    {[t EXCEPT !.iss = "p2"], [t EXCEPT !.kid = "k2"], [t EXCEPT !.kid = "k3"], [t EXCEPT !.signer = "p2"], [t EXCEPT !.alg = "EdDSA"],
     [t EXCEPT !.aud = {}], [t EXCEPT !.aud = {"them"}], [t EXCEPT !.aud = {"us", "them"}], [t EXCEPT !.aud = {"us", "number"}],
     [t EXCEPT !.azp = "us"], [t EXCEPT !.azp = "them"], [t EXCEPT !.deployment = "d2"], [t EXCEPT !.nonce = "none"],
     [t EXCEPT !.nonce = "n2"], [t EXCEPT !.exp = 2], [t EXCEPT !.exp = 3], [t EXCEPT !.iat = 5], [t EXCEPT !.iat = 6], [t EXCEPT !.nbf = 6], [t EXCEPT !.typ = "at+jwt"],
     [t EXCEPT !.hash = AccessTokenHash("a1", "RS256")], [t EXCEPT !.hash = AccessTokenHash("a2", "RS256")]}

\* The platform is elsewhere, or answers otherwise.
Relocate ==
    /\ matter = "platform" /\ Len(got) < 2
    /\ \/ \E u \in Places(given.base) : given' = [given EXCEPT !.base = u]
       \/ \E u \in Places(given.issuer) : given' = [given EXCEPT !.issuer = u]
       \/ \E u \in Places(given.keys) : given' = [given EXCEPT !.keys = u]
       \/ \E a \in Answers : given' \in {[given EXCEPT !.configuration = a], [given EXCEPT !.jwks = a]}
    /\ got' = Append(got, "relocated")
    /\ UNCHANGED <<matter, plan, resolved, published>>

\* Another token is brought to the login.
Bring ==
    /\ matter = "login" /\ Len(got) < 2
    /\ \E t \in Tokens(given.token) : given' = [given EXCEPT !.token = t]
    /\ got' = Append(got, "brought")
    /\ UNCHANGED <<matter, plan, resolved, published>>

-----------------------------------------------------------------------------
Claim(name, required) == [name |-> name, required |-> required]
Templates ==
    [type : {<<"T">>, <<"org.iso.18013">>}, formats : {{}, {"jwt_vc", "sd_jwt_vc"}, {"mso_mdoc", "ldp_vc", "vc+sd_jwt"}},
     did : {"none", "blank", "d1", "d2"}, vct : {"none", "uri"}, name : {"none"}, claims : {{Claim("none", TRUE), Claim("a", FALSE)}}]
Tenants ==
    [variant : {"default", "credential-manager", "apple-wallet"}, slash : BOOLEAN,
     templates : {<<>>} \cup {<<t>> : t \in Templates} \cup
                 {<<t, u>> : t \in {x \in Templates : x.vct = "none" /\ x.did # "blank"},
                             u \in {x \in Templates : x.vct = "none" /\ x.did # "blank" /\ x.formats # {}}}]

Type(id, formats) == [id |-> id, formats |-> formats, doctype |-> <<>>, vct |-> <<>>, claims |-> {"a"}]
Engines ==
    [algs : {{"ES256", "EdDSA"}, {"ES256", "RS256"}},
     features : {{}, {"sd_jwt", "mso_mdoc"}, {"sd_jwt", "zk_mdoc"}, {"mso_mdoc", "zk_mdoc"}},
     types : {<<>>} \cup {<<Type(<<"X">>, f)>> : f \in SUBSET Formats} \cup
             {<<Type(<<"X">>, f), Type(<<"X", "sd_jwt">>, g)>> :
                 f \in {{"SdJwt"}, {"SdJwt", "MsoMdoc"}}, g \in {{"JwtVcJson"}, {"MsoMdoc", "VdsNc"}, {}}}]

Init ==
    /\ \/ matter = "tenant" /\ given \in Tenants
       \/ matter = "engine" /\ given \in Engines
       \/ matter = "link" /\ given \in Cores
       \/ matter = "remote" /\ given \in {Usual(k) : k \in {"sd-jwt", "jwt-vc", "mdoc"}}
       \/ matter = "platform" /\ given \in Platforms
       \/ matter = "login" /\ given \in Logins
    /\ plan = {} /\ resolved = Empty /\ published = Empty /\ got = <<>>

Next == Plan \/ Resolve \/ Build \/ GenerateMetadata \/ Offer \/ RequestOffered \/ Carry \/ Adjust \/ Relocate \/ Bring

Spec == Init /\ [][Next]_vars

-----------------------------------------------------------------------------
(* Properties.                                                             *)

\* Once the host answered every request of the plan the metadata is built,
\* and without one it is not; every configuration asks for the attestation
\* the policy of an issuer of its own template and format demands, whatever
\* templates share its type; and the two documents of a tenant name one
\* issuer (discovery.rs:293-423).
TenantsHold ==
    matter = "tenant" =>
    /\ RootConfigurations(given)[<<"default", "credential-manager">>].vct = CredentialTypeMetadata(given, <<"default">>).vct
    /\ got = <<"missing">> => ~(plan \subseteq DOMAIN resolved)
    /\ Len(got) = 2 =>
        /\ got[2] = AuthorizationServerMetadata(given).issuer
        /\ \A id \in DOMAIN published :
            LET c == published[id] IN
            \E i \in DOMAIN given.templates :
                LET t == given.templates[i]
                    did == IF given.variant = "default" THEN Trimmed(t.did) ELSE "none"
                IN /\ t.type = c.scope
                   /\ IF given.variant = "default" /\ did = "none" THEN c.proof.attestation = {}
                      ELSE \E r \in c.proof.attestation : r.did = did /\ r.format = c.format
                   /\ ~given.slash /\ c.format = "dc+sd-jwt" /\ t.vct # "uri"
                        => c.vct = CredentialTypeMetadata(given, t.type).vct
        /\ given.variant = "default" =>
            \A i \in DOMAIN given.templates : \A f \in SupportedFormats(given.templates[i].formats) :
                \/ IsIso(given.templates[i].type) /\ f = "dc+sd-jwt"
                \/ \E id \in DOMAIN published : published[id].scope = given.templates[i].type /\ published[id].format = f

\* A configuration the engine offers is issued in the format it was offered
\* with, exactly when the build has that format; also when another type took
\* over its identifier. The default configuration is offered only by an
\* engine whose types have no format, and asking for it is always refused
\* (metadata.rs:202-225, formats/mod.rs:77-131).
AsFeatures(f) == CASE f = "SdJwt" -> {"sd_jwt"} [] f = "MsoMdoc" -> {"mso_mdoc"} [] f = "ZkMdoc" -> {"zk_mdoc", "mso_mdoc"}
OfferedIsIssued ==
    matter = "engine" /\ got # <<>> /\ got[1] = "issued" =>
        IF \A i \in DOMAIN given.types : given.types[i].formats = {}
        THEN DOMAIN published = {<<"default">>} /\ got[3] = {}
        ELSE \E f \in Formats :
                /\ AsStr(f) = got[2]
                /\ got[3] = {g \in {f} : g \in {"JwtVcJson", "VdsNc"} \/ AsFeatures(g) \subseteq given.features}

\* The links a wallet opens: no wrapper deeper than the limit is followed;
\* what was classified as an offer is, opened again, the offer the raw link
\* leads to; a presentation request is never opened as an offer; and an offer
\* of the engine comes through any chain of links that carry it in a
\* parameter of theirs that is read (wallet_input.rs:51-263, wallet.rs:327).
Carrying == {<<"marty-authenticator", "inner", "none">>, <<"marty-authenticator", "uri", "none">>,
             <<"marty-authenticator", "offer_uri", "none">>, <<"martywallet", "credential_offer_uri", "none">>,
             <<"haip-vci", "credential_offer_uri", "none">>, <<"https", "credential_offer_uri", "none">>,
             <<"intent", "credential_offer_uri", "none">>, <<"openid-credential-offer", "inner", "none">>}
Core(u) == LET At[n \in 0 .. Len(got)] == IF n = 0 THEN u ELSE LET v == At[n - 1] IN v.q[Len(v.q)].value IN At[Len(got)]
LinksHold ==
    matter = "link" =>
    LET kind == Classify(given, 0)
        offer == ParseOffer(given)
        whole == /\ \A i \in DOMAIN got : got[i] \in Carrying
                 /\ \A i \in DOMAIN got \ {1} :     \* an http(s) link is a reference by itself
                        got[i - 1][1] = "https" => ~(got[i][1] \in {"https", "haip-vci", "intent"})
    IN /\ whole /\ offer.ok => Len(got) <= MaxWrapperDepth + 1
       /\ kind.ok /\ kind.is.kind = "offer" => ParseOffer(kind.is.normalized) = offer \/ ~offer.ok
       /\ kind.ok /\ kind.is.kind = "presentation" => ~offer.ok
       /\ /\ whole /\ Len(got) <= MaxWrapperDepth
          /\ Core(given) = GenerateOfferUri("standard")
          => offer.ok /\ kind.ok /\ kind.is.kind = "offer"

\* A credential prepared for a remote signer names a key of its issuer, one
\* that can sign with the algorithm it announces; it confirms the holder key
\* it was given and no other, never a private or symmetric one nor one that
\* carries members SD-JWT reserves, and a subject only where the caller named
\* that subject (whether the key is the subject's is the caller's to know: the
\* code relates them nowhere). An mdoc is prepared in a batch exactly when it is prepared alone; and a batch
\* is prepared whole, each mdoc under the identity its caller gave it, no two
\* under one identifier in whatever spelling (remote_credential.rs:115-447).
RemotesHold ==
    matter = "remote" =>
    /\ LET p == Prepared(given) IN
       p.ok => /\ p.is.signer = given.issuer /\ given.key.kid # "did2"
               /\ <<p.is.alg, given.key.type>> \in {<<"ES256", "P-256">>, <<"ES384", "P-384">>, <<"EdDSA", "Ed25519">>}
               /\ given.kind # "jwt-vc" =>
                    IF given.holder # <<>>
                    THEN /\ p.is.holder = <<"jwk", given.holder[1].of>>
                         /\ "private" \notin given.holder[1].members /\ given.holder[1].type # "oct"
                    ELSE p.is.holder # <<>> => p.is.holder = <<"kid", given.subject>>
               /\ given.kind = "sd-jwt" => ~given.markers /\ (given.holder = <<>> \/ given.holder[1].members = {})
               /\ p.is.sub \in {"none", given.subject}
               /\ p.is.sub # "none" /\ given.explicit # <<>> /\ given.kind = "jwt-vc" => p.is.sub \in given.explicit[1]
    /\ given.kind = "mdoc" =>
        /\ BatchItemFits(given) = Prepared(given).ok
        /\ \A other \in {Usual("mdoc"), [Usual("mdoc") EXCEPT !.id = "c2"]}, n \in 1 .. 2 :
            LET p == PrepareRemoteBatch(<<[id |-> 1, request |-> given], [id |-> n, request |-> other]>>)
                same == given.id = other.id \/ {given.id, other.id} = {"c1", "C1"}
            IN IF p.ok THEN /\ n # 1 /\ ~same
                            /\ <<p.is[1].id, p.is[2].id>> = <<1, n>> /\ p.is[1].mdoc = Prepared(given).is
               ELSE n = 1 \/ same \/ ~Prepared(given).ok

\* In hardened mode a probe goes to no private address, by name or by
\* number, but to this machine over plain HTTP where that is allowed; a
\* self-managed platform is trusted only where it is listed, in whatever
\* spelling, and a token is redeemed only where the platform is; a private
\* service only where it is listed (lti.rs:171-457).
PlatformsHold ==
    matter = "platform" =>
    LET probe == Probe(given) IN
    /\ probe.ok /\ ~given.mode.private =>
        \A u \in {given.base, given.keys} : \A a \in u.to :
            Private(a) => a = "loopback" /\ given.mode.http /\ u.scheme = "http"
    /\ probe.ok /\ ~given.mode.http => given.base.scheme = "https" /\ given.keys.scheme = "https"
    /\ \A profile \in {"hosted_global", "self_managed_same_origin", "other"} :
        LET p == TrustProfile(given.base, profile, given.allowlist) IN
        p.ok => /\ p.is.token = HttpsOrigin(given.base).is
                /\ p.is.issuer = "self" => \E a \in given.allowlist : a.host = given.base.host
                /\ p.is.keys[2] = p.is.issuer
    /\ ServiceUrlFits(given.base, given.allowlist) =>
        \/ given.base.to = {"public"} /\ ~LocalName(given.base)
        \/ \E a \in given.allowlist : a.host = given.base.host

\* A launch or a login counts only with a token the expected platform signed
\* for this client and nonce and that has not run out, a launch only for this
\* deployment too; and the stricter of the two checks accepts nothing of this
\* deployment the other refuses, whichever keys share an identifier
\* (lti.rs:623-737, oidc.rs:143-305).
LoginsHold ==
    matter = "login" =>
    LET t == given.token
        launch == VerifyLaunch(t, given.keys, given.policy)
        login == ValidateIdToken(t, given.keys, given.policy)
    IN /\ launch \/ login =>
            /\ \E i \in DOMAIN given.keys : given.keys[i].key = t.signer /\ given.keys[i].kid = t.kid
            /\ t.iss = "p1" /\ "us" \in t.aud
            /\ given.policy.nonce = "none" \/ t.nonce = "n1"
            /\ t.exp + given.policy.leeway >= 4
       /\ launch => t.deployment = given.policy.deployment
       /\ login /\ t.deployment = given.policy.deployment => launch

DiscoveryHolds == TenantsHold /\ OfferedIsIssued /\ LinksHold /\ RemotesHold /\ PlatformsHold /\ LoginsHold

=============================================================================
