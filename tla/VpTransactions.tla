---------------------------- MODULE VpTransactions ----------------------------
(***************************************************************************)
(* OpenID4VP transactions of marty-oid4vci: the verifier turns credential  *)
(* requirements into a presentation definition and a DCQL query            *)
(* (presentation_request.rs), the wallet reads a request link (wallet.rs), *)
(* and the verifier checks the VP token or the zero-knowledge proof that   *)
(* comes back (verifier.rs).  The service that stores transactions, the    *)
(* web and the holder's signature are external.                            *)
(***************************************************************************)
EXTENDS Integers, FiniteSets, Sequences, SequencesExt

CONSTANTS
    None,
    Nonces,             \* nonces of transactions and challenges
    Inputs,             \* [requirements, wallet_formats] of the verifier's service
    Params,             \* links wallets may be handed: their query parameters, and
                        \* "link" for a plain http(s) address
    Carried,            \* sets of members that request objects carry
    DeclaredKeys,           \* [header, cnf, sub, signer] of tokens: the keys one declares
                        \* and the key that signs it
    Namespaces,         \* namespaces predicates are asked in; "" is none
    Leeway,             \* 60 seconds of clock difference
    TokenLife,          \* how long holders let a token live
    NonceMaxAge,        \* nonce_max_age
    MaxPosts,           \* bound on the answers that are posted
    Horizon             \* bound on the clock

Verifier == "verifier"          \* verifier_id and response_uri of this engine

-----------------------------------------------------------------------------
(* build_presentation_request.                                             *)

format_family(format) ==
    CASE format \in {"sd_jwt_vc", "vc+sd-jwt", "dc+sd-jwt"} -> "SdJwt"
      [] format \in {"mso_mdoc", "mdoc"} -> "Mdoc"
      [] format \in {"jwt_vp", "jwt_vc", "jwt_vc_json"} -> "JwtVc"
      [] format \in {"ldp_vp", "ldp_vc"} -> "LdpVc"
      [] OTHER -> None

Families(formats) == {format_family(formats[k]) : k \in DOMAIN formats}
normalize_wallet_formats(formats) ==
    IF formats = <<>> \/ None \in Families(formats) THEN <<>> ELSE formats

\* The wallet's formats of the family the template names first, in the
\* wallet's order; empty when there are none or a format is unknown.
select_formats(template, wallet) ==
    LET selected[k \in 0 .. Len(wallet)] ==
            IF k = 0 THEN <<>>
            ELSE IF format_family(wallet[k]) = format_family(template[1]) THEN Append(selected[k - 1], wallet[k])
            ELSE selected[k - 1] IN
    IF template = <<>> \/ None \in Families(template) THEN <<>> ELSE selected[Len(wallet)]

dcql_format(family) ==
    CASE family = "SdJwt" -> "dc+sd-jwt" [] family = "Mdoc" -> "mso_mdoc"
      [] family = "JwtVc" -> "jwt_vc_json" [] family = "LdpVc" -> "ldp_vc"

Or(value, fallback) == IF value # None THEN value ELSE fallback

LegacyBadge == "https://marty.example/credentials/open_badge"
\* credential_profile_presentation_metadata: None stands for an error.
credential_profile_presentation_metadata(family, vct) ==
    CASE family = "JwtVc" -> {"OpenBadgeCredential"}
      [] family = "SdJwt" -> IF vct = None THEN None ELSE {vct, LegacyBadge}
      [] OTHER -> None

\* What identifies the wanted credential: its types, vcts or doctype.
dcql_meta(family, r) ==
    IF r.type = "open_badge" THEN credential_profile_presentation_metadata(family, r.vct)
    ELSE LET one == CASE family = "Mdoc" -> Or(r.doctype, r.type)
                      [] family = "SdJwt" -> Or(r.vct, r.type)
                      [] OTHER -> r.type IN
         IF one = None THEN None ELSE {one}

\* credential_selector_fields: the selecting field, and the type field that is
\* only a hint for SD-JWT.
credential_selector_fields(family, r) ==
    {[path |-> CASE family = "Mdoc" -> "docType" [] family = "SdJwt" -> "vct" [] OTHER -> "type",
      values |-> dcql_meta(family, r), optional |-> FALSE]}
    \cup (IF family = "SdJwt" /\ r.type # None
          THEN {[path |-> "type", values |-> {r.type}, optional |-> TRUE]} ELSE {})

presentation_exchange_claim(claim) == [name |-> claim.name, optional |-> ~claim.required]

UniqueNames(claims) == \A j, k \in DOMAIN claims : claims[j].name = claims[k].name => j = k
Names(claims) == {claims[k].name : k \in DOMAIN claims}

\* Mutant of MissingMapping: unmapped mdoc claims are left out of the query.
NoMissingMapping(family, r) == FALSE

MissingMapping(family, r) == family = "Mdoc" /\ ~(Names(r.claims) \subseteq DOMAIN r.mdoc)

\* dcql_claims: an mdoc claim by its mapping; otherwise the required claims,
\* or all of them when none is required.
dcql_claims(family, r) ==
    LET required == {k \in DOMAIN r.claims : r.claims[k].required}
        asked == IF required = {} THEN DOMAIN r.claims ELSE required IN
    IF family = "Mdoc"
    THEN {[name |-> n, path |-> r.mdoc[n]] : n \in Names(r.claims) \cap DOMAIN r.mdoc}
    ELSE {[name |-> r.claims[k].name, path |-> <<r.claims[k].name>>] : k \in asked}

DescriptorId(r, k) == IF r.id = None THEN <<"descriptor", k - 1>> ELSE <<r.id>>

Descriptor(r, k, wallet) ==
    LET formats == select_formats(r.formats, wallet)
        family == format_family(formats[1]) IN
    [id |-> DescriptorId(r, k), formats |-> formats,
     fields |-> credential_selector_fields(family, r),
     claims |-> {presentation_exchange_claim(r.claims[j]) : j \in DOMAIN r.claims},
     limit |-> family = "SdJwt"]
DcqlEntry(r, k, wallet) ==
    LET family == format_family(select_formats(r.formats, wallet)[1]) IN
    [id |-> DescriptorId(r, k), format |-> dcql_format(family), meta |-> dcql_meta(family, r),
     claims |-> dcql_claims(family, r)]

build_presentation_request(input) ==
    LET rs == input.requirements
        wallet == normalize_wallet_formats(input.wallet_formats)
        family(k) == format_family(select_formats(rs[k].formats, wallet)[1]) IN
    IF \/ rs = <<>> \/ wallet = <<>>
       \/ \E j, k \in DOMAIN rs : j # k /\ DescriptorId(rs[j], j) = DescriptorId(rs[k], k)
       \/ \E k \in DOMAIN rs :
             \/ select_formats(rs[k].formats, wallet) = <<>>
             \/ dcql_meta(family(k), rs[k]) = None
             \/ ~UniqueNames(rs[k].claims)
             \/ MissingMapping(family(k), rs[k])
    THEN None
    ELSE [definition |-> [k \in DOMAIN rs |-> Descriptor(rs[k], k, wallet)],
          dcql |-> [k \in DOMAIN rs |-> DcqlEntry(rs[k], k, wallet)]]

-----------------------------------------------------------------------------
(* The wallet reads a link.  A JSON object is a function of its members; a *)
(* definition or query is named by the transaction it was built for, or is *)
(* "garbled".                                                              *)

Member(object, key) == IF key \in DOMAIN object THEN object[key] ELSE None

RequestKeys == {"client_id", "nonce", "response_mode", "response_uri", "redirect_uri", "state",
                "presentation_definition", "dcql_query"}
\* request_object_from_params; garbled JSON in the link is an error.
request_object_from_params(params) ==
    IF "garbled" \in {Member(params, "presentation_definition"), Member(params, "dcql_query")} THEN None
    ELSE [key \in DOMAIN params \cap RequestKeys |-> params[key]]

merge_request_objects(primary, fallback) ==
    [key \in DOMAIN primary \cup DOMAIN fallback |->
        IF key \in DOMAIN primary THEN primary[key] ELSE fallback[key]]

\* decode_request_object_body: a JWT's payload is read without its signature.
decode_request_object_body(body) == IF body.form \in {"json", "jwt"} THEN body.value ELSE None

parsed_request_from_value(value) ==
    IF value = None THEN None
    ELSE LET definition == Member(value, "presentation_definition")
             dcql == Member(value, "dcql_query") IN
         IF "garbled" \in {definition, dcql} \/ (definition = None /\ dcql = None) THEN None
         ELSE [client_id |-> Or(Member(value, "client_id"), ""),
               nonce |-> Or(Member(value, "nonce"), ""),
               response_uri |-> Or(Or(Member(value, "response_uri"), Member(value, "redirect_uri")), ""),
               state |-> Member(value, "state"),
               query |-> IF dcql # None THEN dcql ELSE definition,
               type |-> IF dcql # None THEN "dcql" ELSE "definition"]

\* parse_presentation_request: what is fetched by reference goes first.
parse_presentation_request(params, documents) ==
    LET inline == request_object_from_params(params)
        by == Member(params, "request_uri")
        definition_by == Member(params, "presentation_definition_uri") IN
    IF inline = None THEN None
    ELSE IF by # None
    THEN LET fetched == Member(documents, by) IN
         IF fetched = None THEN None
         ELSE parsed_request_from_value(merge_request_objects(fetched, inline))
    ELSE IF definition_by # None
    THEN LET fetched == Member(documents, definition_by) IN
         IF fetched = None THEN None
         ELSE parsed_request_from_value(
                 merge_request_objects(
                    [presentation_definition |-> Or(Member(fetched, "presentation_definition"), "garbled")], inline))
    ELSE IF DOMAIN inline # {} THEN parsed_request_from_value(inline)
    ELSE parsed_request_from_value(Member(documents, Member(params, "link")))

-----------------------------------------------------------------------------
(* Checking what comes back.                                               *)

SupportedAlgorithms == {"ES256", "ES384", "RS256", "RS384", "RS512", "EdDSA"}
\* The presentation key: of the header, else of the confirmation claims.
PresentationKey(token) == Or(token.header_jwk, Or(token.cnf_jwk, token.sub_jwk))

\* Mutant of verify_vp_token: any nonce of a transaction will do.
VerifyAnyNonce(token, expected, now) ==
    IF /\ token.nonce # "" /\ Verifier \in token.aud /\ token.signed_by = PresentationKey(token)
       /\ token.exp # None /\ now <= token.exp + Leeway
    THEN "Passed" ELSE "proof"

\* verify_vp_token: "Passed", or which check failed.  The result never claims
\* more than presentation proof and transaction binding.
verify_vp_token(token, expected, now) ==
    LET key == PresentationKey(token) IN
    CASE expected = "" -> "binding"
      [] expected # "" /\ token.alg \notin SupportedAlgorithms -> "unsupported"
      [] expected # "" /\ token.alg \in SupportedAlgorithms
            /\ (\/ token.nonce # expected \/ Verifier \notin token.aud
                \/ token.exp = None \/ (token.exp # None /\ now > token.exp + Leeway)
                \/ (token.nbf # None /\ token.nbf > now + Leeway)) -> "binding"
      [] OTHER -> IF key # None /\ token.signed_by = key THEN "Passed" ELSE "proof"

Predicates == {"age_over_18", "age_over_21", "age_over_65"}
create_zk_challenge(predicate, namespace, nonce, now) ==
    IF predicate \notin {"age_over_18", "age_over_21"} \/ namespace = "" THEN None
    ELSE [state |-> "open", predicate |-> predicate, namespace |-> namespace, created |-> now, nonce |-> nonce]

\* build_mdoc_session_transcript: a digest of exactly these.
build_mdoc_session_transcript(client_id, nonce, key, response_uri) ==
    <<"OpenID4VPHandover", client_id, nonce, key, response_uri>>

\* The challenge is used up by binding it to the trusted issuer.
bind_zk_challenge(challenge, issuer, key) ==
    [state |-> "bound", predicate |-> challenge.predicate, namespace |-> challenge.namespace,
     created |-> challenge.created, issuer |-> issuer,
     transcript |-> build_mdoc_session_transcript(Verifier, challenge.nonce, key, Verifier)]

ZkWindow(bound, now) == now - bound.created \in 0 .. NonceMaxAge

verify_zk_predicate(bound, proof, now) ==
    /\ ZkWindow(bound, now)
    /\ proof.transcript = bound.transcript /\ proof.issuer = bound.issuer
    /\ proof.predicate = bound.predicate /\ proof.namespace = bound.namespace /\ proof.time = bound.created

UsedChallenges == [state : {"used"}, predicate : Predicates, namespace : Namespaces, created : Int]

\* What the proofs need of the constants: durations are numbers, and None is no
\* nonce, name or challenge.
TransactionAssumption ==
    /\ {Leeway, TokenLife, NonceMaxAge, Horizon} \subseteq Nat
    /\ None \notin Nonces \cup {Verifier} \cup UsedChallenges
    /\ Carried \subseteq SUBSET RequestKeys

\* Requirements and formats come in an order; formats are names.
RequirementAssumption ==
    \A input \in Inputs :
        /\ input.requirements \in Seq(ToSet(input.requirements)) /\ input.wallet_formats \in Seq(STRING)
        /\ \A k \in DOMAIN input.requirements : input.requirements[k].formats \in Seq(STRING)

-----------------------------------------------------------------------------
VARIABLES
    now,            \* the verifier's clock; it may be set back
    artifacts,      \* nonce -> what was built for that transaction, or None
    link,           \* the link the wallet understood, or None
    parsed,         \* the request the wallet understood, or None
    posts,          \* history: [token, state, for, link] answers posted to the verifier
    accepted,       \* history: [nonce, post, at] answers that passed
    challenges,     \* nonce -> a ZK challenge, open, bound or used
    proofs,         \* history: proofs made, with the transcript they bind
    confirmed       \* history: [nonce, proof, at] proofs that verified

vars == <<now, artifacts, link, parsed, posts, accepted, challenges, proofs, confirmed>>
zk == <<challenges, proofs, confirmed>>
vp == <<artifacts, link, parsed, posts, accepted>>

Init ==
    /\ now = 0
    /\ artifacts = [n \in Nonces |-> None]
    /\ link = None /\ parsed = None /\ posts = {} /\ accepted = {}
    /\ challenges = [n \in Nonces |-> None] /\ proofs = {} /\ confirmed = <<>>

\* Request objects of a transaction; which members they carry is up to the
\* service that serves them, and what it does not serve is not there.
Uris == [for : Nonces, carries : Carried]
RequestObject(uri) ==
    [key \in uri.carries |->
        IF key \in {"client_id", "response_uri", "redirect_uri"} THEN Verifier ELSE uri.for]
Served ==
    [uri \in {u \in Uris : artifacts[u.for] # None} |->
        decode_request_object_body([form |-> "jwt", value |-> RequestObject(uri)])]

Publish ==
    /\ \E n \in Nonces, input \in Inputs :
          /\ artifacts[n] = None
          /\ artifacts' = [artifacts EXCEPT ![n] = build_presentation_request(input)]
    /\ UNCHANGED <<now, link, parsed, posts, accepted, zk>>

ReadLink ==
    /\ parsed = None
    /\ \E params \in Params :
          /\ parsed' = parse_presentation_request(params, Served)
          /\ link' = IF parsed' = None THEN None ELSE params
    /\ UNCHANGED <<now, artifacts, posts, accepted, zk>>

\* Somebody answers what the wallet understood, with a token that declares
\* whatever keys its maker likes; submit_presentation_form posts it to the
\* response_uri with the state.
Submit ==
    /\ parsed # None /\ Cardinality(posts) < MaxPosts
    /\ \E alg \in {"ES256", "none"}, life \in {TokenLife, None}, keys \in DeclaredKeys :
          LET token == [nonce |-> parsed.nonce, aud |-> {parsed.client_id}, alg |-> alg, nbf |-> now,
                        exp |-> IF life = None THEN None ELSE now + life, header_jwk |-> keys.header,
                        cnf_jwk |-> keys.cnf, sub_jwk |-> keys.sub, signed_by |-> keys.signer] IN
          posts' = IF parsed.response_uri = Verifier
                   THEN posts \cup {[token |-> token, state |-> parsed.state, for |-> parsed, link |-> link]}
                   ELSE posts
    /\ parsed' = None /\ link' = None
    /\ UNCHANGED <<now, artifacts, accepted, zk>>

\* A post is looked at for some open transaction; it may come twice or late.
Verify ==
    /\ \E p \in posts, n \in Nonces :
          /\ artifacts[n] # None
          /\ p.state = None \/ p.state = n
          /\ verify_vp_token(p.token, n, now) = "Passed"
          /\ accepted' = accepted \cup {[nonce |-> n, post |-> p, at |-> now]}
    /\ UNCHANGED <<now, artifacts, link, parsed, posts, zk>>

CreateZk ==
    /\ \E n \in Nonces, p \in Predicates, ns \in Namespaces :
          /\ challenges[n] = None
          /\ challenges' = [challenges EXCEPT ![n] = create_zk_challenge(p, ns, n, now)]
    /\ UNCHANGED <<now, vp, proofs, confirmed>>

BindZk ==
    /\ \E n \in Nonces :
          /\ challenges[n] # None /\ challenges[n].state = "open"
          /\ challenges' = [challenges EXCEPT ![n] = bind_zk_challenge(@, "issuer", None)]
    /\ UNCHANGED <<now, vp, proofs, confirmed>>

\* A wallet proves for the challenge it was shown.
Prove ==
    /\ \E n \in Nonces :
          /\ challenges[n] # None
          /\ proofs' = proofs \cup
                {[transcript |-> build_mdoc_session_transcript(Verifier, n, None, Verifier),
                  issuer |-> "issuer", predicate |-> challenges[n].predicate,
                  namespace |-> challenges[n].namespace, time |-> challenges[n].created]}
    /\ UNCHANGED <<now, vp, challenges, confirmed>>

\* Verifying uses up the bound challenge, whatever the outcome.
VerifyZk ==
    /\ \E n \in Nonces, proof \in proofs :
          /\ challenges[n] # None /\ challenges[n].state = "bound"
          /\ confirmed' = IF verify_zk_predicate(challenges[n], proof, now)
                          THEN Append(confirmed, [nonce |-> n, proof |-> proof, at |-> now]) ELSE confirmed
          /\ challenges' = [challenges EXCEPT ![n] = [state |-> "used", predicate |-> @.predicate,
                                                      namespace |-> @.namespace, created |-> @.created]]
    /\ UNCHANGED <<now, vp, proofs>>

\* Time passes; the clock may also be set back.
Tick ==
    /\ now' \in (now - 1 .. now + 1) \ {now} /\ now' \in 0 .. Horizon
    /\ UNCHANGED <<vp, zk>>

\* Tokens and proofs share only the clock.
VpNext == Publish \/ ReadLink \/ Submit \/ Verify \/ Tick
ZkNext == CreateZk \/ BindZk \/ Prove \/ VerifyZk \/ Tick
Next == VpNext \/ ZkNext

Spec == Init /\ [][Next]_vars

-----------------------------------------------------------------------------
(* Properties.                                                             *)

\* The definition and the DCQL query that are built together ask for the same
\* credentials: same ids and family, every required claim is in both, and the
\* query asks for no claim the definition leaves out (presentation_request.rs,
\* build_presentation_request).
QueriesAgree ==
    \A n \in Nonces : artifacts[n] # None =>
        LET d == artifacts[n].definition
            q == artifacts[n].dcql IN
        /\ Len(d) = Len(q)
        /\ \A k \in DOMAIN d :
              /\ d[k].id = q[k].id
              /\ Families(d[k].formats) = {format_family(q[k].format)}
              /\ \E f \in d[k].fields : ~f.optional /\ f.values = q[k].meta
              /\ {c.name : c \in q[k].claims} \subseteq {c.name : c \in d[k].claims}
              /\ {c.name : c \in {e \in d[k].claims : ~e.optional}} \subseteq {c.name : c \in q[k].claims}
        /\ \A j, k \in DOMAIN q : q[j].id = q[k].id => j = k

\* What a request object says of who asks, the nonce, the state, where the
\* answer goes and what is asked stands in the request the wallet understood,
\* whatever the link that named the object says of the same.  Where the object
\* has no response_uri the link's goes before the object's redirect_uri, and so
\* its dcql_query before the object's presentation_definition.
ObjectStands(params, request) ==
    LET uri == params["request_uri"] IN
    Member(params, "request_uri") # None =>
        /\ "client_id" \in uri.carries => request.client_id = Verifier
        /\ "nonce" \in uri.carries => request.nonce = uri.for
        /\ "state" \in uri.carries => request.state = uri.for
        /\ \/ "response_uri" \in uri.carries
           \/ "redirect_uri" \in uri.carries /\ "response_uri" \notin DOMAIN params
           => request.response_uri = Verifier
        /\ \/ "dcql_query" \in uri.carries
           \/ "presentation_definition" \in uri.carries /\ "dcql_query" \notin DOMAIN params
           => request.query = uri.for

\* A link cannot change what the request object it names says
\* (wallet.rs, merge_request_objects).
LinkNeverOverrides == parsed # None => ObjectStands(link, parsed)

\* What the verifier accepts for a transaction was made for it: the wallet had
\* understood that transaction's nonce and this verifier, and answered that
\* transaction's query if its request object names nonce and dcql_query; the
\* token was signed with the first of the keys it declares itself, whoever
\* holds that, and had not outlived its end by more than the leeway, whichever
\* link the wallet was handed and however late or often the answer came
\* (verifier.rs, verify_vp_token).
AcceptedForItsRequest ==
    \A a \in accepted :
        LET t == a.post.token
            request == a.post.for
            params == a.post.link IN
        /\ request.nonce = a.nonce /\ request.client_id = Verifier
        /\ Member(params, "request_uri") # None /\ {"nonce", "dcql_query"} \subseteq params["request_uri"].carries =>
              request.query = a.nonce
        /\ t.signed_by = IF t.header_jwk # None THEN t.header_jwk
                         ELSE IF t.cnf_jwk # None THEN t.cnf_jwk ELSE t.sub_jwk
        /\ t.exp + Leeway >= a.at

\* A proof is counted at most once per challenge, for the predicate it was
\* asked for, and within the challenge's window even if the clock moves back
\* (verifier.rs, verify_zk_predicate).
ZkCountedOnce ==
    /\ \A j, k \in DOMAIN confirmed : confirmed[j].nonce = confirmed[k].nonce => j = k
    /\ \A k \in DOMAIN confirmed :
          LET c == challenges[confirmed[k].nonce] IN
          /\ c.state = "used" /\ c.predicate = confirmed[k].proof.predicate
          /\ confirmed[k].at >= c.created /\ confirmed[k].at <= c.created + NonceMaxAge

\* What is accepted for a transaction was made for it, whichever link led
\* there, and a ZK proof counts once, in time (verifier.rs, wallet.rs).
BoundToTransaction == AcceptedForItsRequest /\ LinkNeverOverrides /\ ZkCountedOnce
===============================================================================
