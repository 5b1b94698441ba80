-------------------------------- MODULE Issuance --------------------------------
(***************************************************************************)
(* Credential issuance over OpenID4VCI in marty-oid4vci: the wallet engine *)
(* (wallet.rs), the issuer engine (issuer.rs) and the check of holder      *)
(* proofs (proof.rs), with what travels between them. One wallet, one      *)
(* other client that sees everything sent through the browser and every    *)
(* proof, and another issuer the wallet also uses. The host service that   *)
(* stores sessions and nonces for the issuer engine is external.           *)
(***************************************************************************)
EXTENDS Integers, FiniteSets, Sequences

CONSTANTS
    None,           \* an absent value
    Verifiers,      \* PKCE verifiers clients may draw
    Nonces,         \* c_nonce values the issuer may draw
    Algs,           \* Algs[k]: the algorithm of a holder key
    HolderKid,      \* what the wallet puts in iss
    Headers,        \* headers and iss of the proofs another client makes
    MaxProofs,      \* bound on the proofs the wallet makes
    MaxAge,         \* max_age_seconds
    Future,         \* the 30 seconds an iat may lie ahead
    Lifetime,       \* session_lifetime_secs
    MaxTime         \* bound on the clock

Clients == {"wallet", "stranger"}
HolderKeys == DOMAIN Algs
Servers == {"home", "other"}

ASSUME IssuanceAssumption ==
    /\ {MaxAge, Future, Lifetime, MaxTime, MaxProofs} \subseteq Nat
    /\ Clients \subseteq HolderKeys             \* each client's own key has its name
    /\ HolderKid \in {<<"did", "wallet">>, <<"opaque">>}
    /\ None \notin Verifiers \cup Nonces \cup HolderKeys

\* What S256 sends in place of the verifier.
Hashed(v) == <<"S256", v>>

\* Nobody draws a verifier that is another's hash, and a hash is a value.
ASSUME VerifierAssumption == \A v \in Verifiers \cup {None}, w \in Verifiers : v # Hashed(w)

Methods == {"S256", "Plain", None}
Proof == [typ : BOOLEAN, kid : {None, <<"0">>, <<"opaque">>} \cup ({"did"} \X HolderKeys),
          jwk : {None} \cup HolderKeys, secret : BOOLEAN, attestation : {None} \cup Seq(HolderKeys),
          alg : STRING, by : HolderKeys, iss : {None, <<"opaque">>} \cup ({"did"} \X HolderKeys),
          aud : Servers, iat : Nat, exp : Nat \cup {None}, nonce : Nonces \cup {None}]

VARIABLES
    now,
    wallet,         \* [phase, verifier, endpoint]
    sessions,       \* authorization sessions the host stores, by code
    tokens,         \* access tokens handed out
    nonces,         \* nonces handed out and not yet used
    proofs,         \* proofs the wallet completed, for either issuer
    issued          \* credentials issued

vars == <<now, wallet, sessions, tokens, nonces, proofs, issued>>

Init ==
    /\ now = 0
    /\ wallet = [phase |-> "offer", verifier |-> None, endpoint |-> None]
    /\ sessions = {} /\ tokens = {} /\ nonces = {} /\ proofs = {} /\ issued = {}

-----------------------------------------------------------------------------
(* Discovery (wallet.rs).                                                  *)

\* resolve_token_endpoint: the issuer metadata names the endpoint, or the
\* first authorization server does (the issuer itself when there is none),
\* whose metadata must name it as its issuer. Empty: an error.
ResolvedEndpoint(meta, doc) ==
    LET server == IF meta.servers = <<>> THEN "home" ELSE Head(meta.servers) IN
    IF meta.endpoint # None THEN {meta.endpoint}
    ELSE IF doc.issuer = server THEN {doc.endpoint} ELSE {}

\* The issuer's metadata is its own; the authorization server's comes from a
\* host that may serve several of them.
Metadata == [endpoint : {None, "home"}, servers : {<<>>, <<"home">>}]
Documents == {[issuer |-> s, endpoint |-> s] : s \in Servers}

Discover(meta, doc) ==
    /\ wallet.phase = "offer"
    /\ \E e \in ResolvedEndpoint(meta, doc) :
        wallet' = [wallet EXCEPT !.phase = "ready", !.endpoint = e]
    /\ UNCHANGED <<now, sessions, tokens, nonces, proofs, issued>>

-----------------------------------------------------------------------------
(* Authorization and tokens.                                               *)

\* Mutant of NewSession: the session keeps the challenge without its method.
NewSessionNoMethod(client, challenge, method) ==
    [client |-> client, challenge |-> challenge, method |-> None, created |-> now]

\* create_authorization_response
NewSession(client, challenge, method) ==
    [client |-> client, challenge |-> challenge, method |-> method, created |-> now]

\* build_authorization_request and the redirect, then the issuer's answer
\* through the browser. The code is the session's identity.
Authorize(v) ==
    /\ wallet.phase = "ready"
    /\ \A s \in sessions : s.challenge \notin {v, Hashed(v)}
    /\ sessions' = sessions \cup {NewSession("wallet", Hashed(v), "S256")}
    /\ wallet' = [wallet EXCEPT !.phase = "redirected", !.verifier = v]
    /\ UNCHANGED <<now, tokens, nonces, proofs, issued>>

\* Another client, which chooses its own method or none; with no method the
\* challenge may be missing (a method without a challenge is refused).
AuthorizeStranger(v, method) ==
    /\ \A s \in sessions : s.challenge \notin {v, Hashed(v)} /\ s.client # "stranger"
    /\ wallet.verifier # v
    /\ \E challenge \in CASE method = "S256" -> {Hashed(v)} [] method = "Plain" -> {v} [] OTHER -> {v, None} :
        /\ sessions' = sessions \cup {NewSession("stranger", challenge, method)}
    /\ UNCHANGED <<now, wallet, tokens, nonces, proofs, issued>>

\* verify_pkce_s256, or the plain comparison which is the default
PkceHolds(s, verifier) ==
    s.challenge # None =>
        /\ verifier # None
        /\ IF s.method = "S256" THEN Hashed(verifier) = s.challenge ELSE verifier = s.challenge

\* is_expired
Expired(s) == now > s.created + Lifetime

\* Everybody sees the challenges; a verifier is its owner's until it is sent.
Known(client) ==
    {s.challenge : s \in sessions} \cup {None}
    \cup (IF client = "wallet" THEN {wallet.verifier}
          ELSE {v \in Verifiers : v # wallet.verifier}
               \cup (IF wallet.phase = "redeemed" /\ wallet.endpoint = "other"
                     THEN {wallet.verifier} ELSE {}))

\* create_token_response_for_auth_code, with what its contract leaves to the
\* host: the session is looked up by its code, not expired, and used once.
Redeem(client, s, verifier) ==
    /\ s \in sessions /\ ~Expired(s)
    /\ PkceHolds(s, verifier)
    /\ sessions' = sessions \ {s}
    /\ tokens' = tokens \cup {[client |-> client, grantee |-> s.client, method |-> s.method]}
    /\ UNCHANGED <<now, wallet, nonces, proofs, issued>>

\* exchange_auth_code: the wallet posts its verifier to the endpoint it found.
Exchange(s) ==
    /\ wallet.phase = "redirected"
    /\ s.client = "wallet"
    /\ wallet' = [wallet EXCEPT !.phase = "redeemed"]
    /\ IF wallet.endpoint = "home" /\ s \in sessions /\ ~Expired(s) /\ PkceHolds(s, wallet.verifier)
       THEN /\ sessions' = sessions \ {s}
            /\ tokens' = tokens \cup {[client |-> "wallet", grantee |-> s.client, method |-> s.method]}
       ELSE UNCHANGED <<sessions, tokens>>
    /\ UNCHANGED <<now, nonces, proofs, issued>>

-----------------------------------------------------------------------------
(* Proofs.                                                                 *)

\* create_nonce_response; the endpoint is open to everybody.
Nonce(n) ==
    /\ n \notin nonces /\ \A c \in issued : c.nonce # n
    /\ nonces' = nonces \cup {n}
    /\ UNCHANGED <<now, wallet, sessions, tokens, proofs, issued>>

\* PreparedHolderProof.complete: what the signer returned verifies under the
\* wallet's public key.
Completes(p) == p.by = "wallet" /\ p.alg = Algs["wallet"]

\* prepare_proof_jwt for either issuer, then complete on what the holder's
\* signer, which may hold the wrong key, returned. The other issuer may have
\* handed out a nonce of this one as its own.
Prove(aud, n, signer) ==
    LET p == [typ |-> TRUE, kid |-> None, jwk |-> "wallet", secret |-> FALSE,
              attestation |-> None, alg |-> "ES256", by |-> signer,
              iss |-> HolderKid, aud |-> aud, iat |-> now, exp |-> None, nonce |-> n]
    IN /\ n \in nonces /\ Cardinality(proofs) < MaxProofs
       /\ Completes(p)
       /\ proofs' = proofs \cup {p}
       /\ UNCHANGED <<now, wallet, sessions, tokens, nonces, issued>>

\* What the other client can make: its own signature under any header.
Crafted ==
    {[typ |-> h.typ, kid |-> h.kid, jwk |-> h.jwk, secret |-> h.secret,
      attestation |-> h.attestation, alg |-> Algs["stranger"], by |-> "stranger",
      iss |-> h.iss, aud |-> "home", iat |-> now, exp |-> None, nonce |-> n] :
        n \in nonces, h \in Headers}

\* extract_holder_key: an embedded public key, or a did:key; never both.
HeaderKey(p) ==
    IF p.attestation # None THEN {}
    ELSE IF p.kid = None /\ p.jwk # None /\ ~p.secret THEN {p.jwk}
    ELSE IF p.jwk = None THEN {k \in HolderKeys : p.kid = <<"did", k>>}
    ELSE {}

\* extract_key_attestation_holder_key and select_etsi_attested_key: the very
\* attestation the issuer validated, and one of its keys ("0" is the first).
AttestedKey(p, a) ==
    IF p.attestation # a \/ a = <<>> THEN {}
    ELSE IF p.kid = None
         THEN {k \in {a[i] : i \in DOMAIN a} : p.jwk = k /\ ~p.secret}
         ELSE IF p.jwk = None /\ p.kid = <<"0">> THEN {a[1]} ELSE {}

\* verify_signature: the algorithm is the key's own; RSA is not supported.
Signed(p, k) == p.by = k /\ p.alg = Algs[k] /\ p.alg # "RS256"

\* verified_holder_id: an iss that is a did:key names the verified key.
HolderMatches(p, k) == \A x \in HolderKeys : p.iss = <<"did", x>> => x = k

\* Mutant of Accepted: the audience is not compared.
AcceptedAnywhere(p, n, a, k) ==
    /\ p.typ
    /\ k \in (IF a = None THEN HeaderKey(p) ELSE AttestedKey(p, a))
    /\ Signed(p, k)
    /\ HolderMatches(p, k)
    /\ now - p.iat <= MaxAge /\ p.iat <= now + Future
    /\ p.nonce = n

\* verify_jwt_proof_with_key_source: proof p is accepted for nonce n and
\* attestation a (or none), and identifies key k as the holder's.
Accepted(p, n, a, k) ==
    /\ p.typ
    /\ k \in (IF a = None THEN HeaderKey(p) ELSE AttestedKey(p, a))
    /\ Signed(p, k)
    /\ HolderMatches(p, k)
    /\ p.aud = "home"
    /\ now - p.iat <= MaxAge /\ p.iat <= now + Future
    /\ p.exp # None => now <= p.exp
    /\ n # None => p.nonce = n

\* Attestations a client may have had validated: of its own key, or of a
\* device that holds both.
Validated == {None, <<"wallet">>, <<"wallet", "stranger">>}

\* The credential endpoint of the host: a token, a nonce it handed out, the
\* proof check; the nonce is used up.
RequestCredential(t, p, n, a, k) ==
    /\ t \in tokens /\ n \in nonces
    /\ Accepted(p, n, a, k)
    /\ issued' = issued \cup {[client |-> t.client, holder |-> k, nonce |-> n, at |-> now]}
    /\ nonces' = nonces \ {n}
    /\ tokens' = tokens \ {t}
    /\ UNCHANGED <<now, wallet, sessions, proofs>>

Tick ==
    /\ now < MaxTime
    /\ now' = now + 1
    /\ UNCHANGED <<wallet, sessions, tokens, nonces, proofs, issued>>

Next ==
    \/ \E meta \in Metadata, doc \in Documents : Discover(meta, doc)
    \/ \E v \in Verifiers : Authorize(v)
    \/ \E v \in Verifiers, m \in Methods : AuthorizeStranger(v, m)
    \/ \E s \in sessions : Exchange(s)
    \/ \E s \in sessions : \E v \in Known("stranger") : Redeem("stranger", s, v)
    \/ \E n \in Nonces : Nonce(n)
    \/ \E aud \in Servers, n \in Nonces, k \in Clients : Prove(aud, n, k)
    \/ \E t \in tokens, p \in proofs \cup Crafted, n \in nonces, a \in Validated, k \in HolderKeys :
        RequestCredential(t, p, n, a, k)
    \/ Tick

Spec == Init /\ [][Next]_vars

-----------------------------------------------------------------------------
(* Properties.                                                             *)

\* Every variable holds a value of its type.
TypeOK ==
    /\ now \in 0 .. MaxTime
    /\ wallet \in [phase : {"offer", "ready", "redirected", "redeemed"},
                   verifier : Verifiers \cup {None}, endpoint : Servers \cup {None}]
    /\ \A s \in sessions : s.client \in Clients /\ s.method \in Methods /\ s.created \in 0 .. now
    /\ \A t \in tokens : {t.client, t.grantee} \subseteq Clients
    /\ nonces \subseteq Nonces
    /\ proofs \subseteq Proof
    /\ \A c \in issued : c.holder \in HolderKeys /\ c.nonce \in Nonces /\ c.at \in 0 .. now

\* A credential is bound to the wallet's key only when the wallet made a proof
\* for this issuer, with the nonce the issuer asked for, not long before: not
\* with a proof made for another issuer, an old one, or one that merely names
\* the key in its header, its iss or its attestation (proof.rs).
BoundOnlyWithConsent ==
    \A c \in issued : c.holder = "wallet" =>
        \E p \in proofs : /\ p.aud = "home" /\ p.nonce = c.nonce
                          /\ p.iat <= c.at /\ c.at - p.iat <= MaxAge

\* The wallet's grant, obtained with an S256 challenge, is redeemed by the wallet alone,
\* although everybody sees the code and the challenge (issuer.rs).
GrantStaysWithClient ==
    \A t \in tokens : t.grantee = "wallet" => t.client = "wallet"

\* The wallet never posts its code and verifier to a server other than the one
\* the issuer's metadata leads to, whatever metadata document the authorization
\* server's host returns (wallet.rs).
SecretsStayHome == wallet.phase = "redeemed" => wallet.endpoint = "home"

\* A proof that left the wallet for this issuer is accepted for as long as it
\* is fresh: the wallet never sends what the issuer must refuse, even when its
\* signer holds the wrong key.
WalletProofAccepted ==
    \A p \in proofs : p.aud = "home" /\ now - p.iat <= MaxAge
        => Accepted(p, p.nonce, None, "wallet")

\* A credential is bound to the wallet's key only with its consent, and a proof
\* the wallet sends is one the issuer accepts (proof.rs, issuer.rs, wallet.rs).
BindingsHold == BoundOnlyWithConsent /\ WalletProofAccepted

\* What the wallet was granted only the wallet redeems, and its code and
\* verifier go to no other server (issuer.rs, wallet.rs).
GrantsHold == GrantStaysWithClient /\ SecretsStayHome
=============================================================================
