---------------------------- MODULE ProtocolProofs ----------------------------
(***************************************************************************)
(* Proofs about what parties agree on over several messages: issuance, the *)
(* answers to OpenID4VP requests, SD-JWT presentations, governed           *)
(* verification sessions, flows of steps, and reading a passport chip, for *)
(* any verifiers, nonces, headers, links, selections, documents, graphs    *)
(* and ranges.                                                             *)
(***************************************************************************)
EXTENDS MCProtocols, FiniteSetTheorems, NaturalsInduction, WellFoundedInduction, TLAPS

-----------------------------------------------------------------------------
(* Grants: the wallet's verifier stays between the wallet and its server.  *)

WalletTyped ==
    wallet \in [phase : {"offer", "ready", "redirected", "redeemed"},
                verifier : Verifiers \cup {None}, endpoint : {"home", None}]

\* The server the wallet found is the issuer's, and it has a session only once
\* it was redirected.
WalletAtHome ==
    /\ wallet.phase # "offer" => wallet.endpoint = "home"
    /\ wallet.phase \in {"offer", "ready"} => \A s \in sessions : s.client # "wallet"

\* The wallet's sessions carry the hash of its verifier, and nobody's
\* challenge is the verifier itself.
VerifierHidden ==
    \A s \in sessions :
        /\ s.client = "wallet" => /\ wallet.verifier \in Verifiers /\ s.method = "S256"
                                  /\ s.challenge = Hashed(wallet.verifier)
        /\ wallet.verifier # None => s.challenge # wallet.verifier

GrantInv == WalletTyped /\ WalletAtHome /\ VerifierHidden /\ GrantStaysWithClient

\* Nobody but the wallet can answer the challenge of its session.
LEMMA StrangerCannotRedeem ==
    ASSUME GrantInv, NEW s \in sessions, NEW v \in Known("stranger"), PkceHolds(s, v)
    PROVE  s.client # "wallet"
  <1> SUFFICES ASSUME s.client = "wallet" PROVE FALSE
    OBVIOUS
  <1>1. /\ s.method = "S256" /\ s.challenge = Hashed(wallet.verifier) /\ wallet.verifier \in Verifiers
    BY DEF GrantInv, VerifierHidden
  <1>2. None \notin Verifiers
    BY IssuanceAssumption
  <1>3. s.challenge # None => v # None /\ Hashed(v) = s.challenge
    BY <1>1 DEF PkceHolds
  <1>4. wallet.phase \in {"redirected", "redeemed"}
    BY DEF GrantInv, WalletAtHome, WalletTyped
  <1>5. wallet.endpoint # "other"
    BY <1>4 DEF GrantInv, WalletAtHome
  <1>6. v # wallet.verifier
    <2>1. CASE v \in {x.challenge : x \in sessions}
      BY <2>1, <1>1, <1>2 DEF GrantInv, VerifierHidden
    <2>2. CASE v = None
      BY <2>2, <1>1, <1>2
    <2> QED
      BY <2>1, <2>2, <1>5 DEF Known
  <1>7. s.challenge # None
    BY <1>1, VerifierAssumption
  <1> QED
    BY <1>1, <1>3, <1>6, <1>7 DEF Hashed

\* The wallet starts with an offer and nothing else.
LEMMA GrantInit == Init => GrantInv
  BY DEF Init, GrantInv, WalletTyped, WalletAtHome, VerifierHidden, GrantStaysWithClient

\* Metadata leads the wallet home, whatever document the host returns.
LEMMA DiscoverInv ==
    ASSUME GrantInv, NEW meta \in Metadata, NEW doc \in Documents, Discover(meta, doc)
    PROVE  GrantInv'
  <1>1. PICK e \in ResolvedEndpoint(meta, doc) :
           /\ wallet.phase = "offer" /\ wallet' = [wallet EXCEPT !.phase = "ready", !.endpoint = e]
           /\ UNCHANGED <<sessions, tokens>>
    BY DEF Discover
  <1>2. meta.endpoint \in {None, "home"} /\ meta.servers \in {<<>>, <<"home">>}
    BY DEF Metadata
  <1>3. doc.issuer = doc.endpoint
    BY DEF Documents
  <1>4. CASE meta.endpoint # None
    <2>1. e = "home"
      BY <1>1, <1>2, <1>4 DEF ResolvedEndpoint
    <2> QED
      BY <1>1, <2>1 DEF GrantInv, WalletTyped, WalletAtHome, VerifierHidden, GrantStaysWithClient
  <1>5. CASE meta.endpoint = None
    <2>1. (IF meta.servers = <<>> THEN "home" ELSE Head(meta.servers)) = "home"
      BY <1>2
    <2>2. e = "home"
      BY <1>1, <1>3, <1>5, <2>1 DEF ResolvedEndpoint
    <2> QED
      BY <1>1, <2>2 DEF GrantInv, WalletTyped, WalletAtHome, VerifierHidden, GrantStaysWithClient
  <1> QED
    BY <1>4, <1>5

\* The wallet's own session.
LEMMA AuthorizeInv ==
    ASSUME GrantInv, NEW v \in Verifiers, Authorize(v)
    PROVE  GrantInv'
  <1> DEFINE n == NewSession("wallet", Hashed(v), "S256")
  <1>1. /\ wallet.phase = "ready" /\ \A s \in sessions : s.challenge # v
        /\ sessions' = sessions \cup {n}
        /\ wallet' = [wallet EXCEPT !.phase = "redirected", !.verifier = v]
        /\ tokens' = tokens
    BY DEF Authorize
  <1>2. n.client = "wallet" /\ n.challenge = Hashed(v) /\ n.method = "S256"
    BY DEF NewSession
  <1>3. Hashed(v) # v
    BY VerifierAssumption
  <1>4. /\ wallet'.phase = "redirected" /\ wallet'.verifier = v /\ wallet'.endpoint = wallet.endpoint
        /\ WalletTyped'
    BY <1>1 DEF GrantInv, WalletTyped
  <1> HIDE DEF n
  <1>5. WalletAtHome'
    BY <1>1, <1>4 DEF GrantInv, WalletAtHome
  <1>6. VerifierHidden'
    BY <1>1, <1>2, <1>3, <1>4 DEF GrantInv, VerifierHidden, WalletAtHome
  <1> QED
    BY <1>1, <1>4, <1>5, <1>6 DEF GrantInv, GrantStaysWithClient

\* Another client's session, with any method, a challenge of its own or none.
LEMMA AuthorizeStrangerInv ==
    ASSUME GrantInv, NEW v \in Verifiers, NEW m \in Methods, AuthorizeStranger(v, m)
    PROVE  GrantInv'
  <1>1. PICK challenge \in {Hashed(v), v, None} : sessions' = sessions \cup {NewSession("stranger", challenge, m)}
    BY DEF AuthorizeStranger, Methods
  <1>2. wallet.verifier # v /\ UNCHANGED <<wallet, tokens>>
    BY DEF AuthorizeStranger
  <1> DEFINE n == NewSession("stranger", challenge, m)
  <1>3. n.client = "stranger" /\ n.challenge = challenge
    BY DEF NewSession
  <1>4. wallet.verifier # None => challenge # wallet.verifier
    BY <1>2, VerifierAssumption DEF GrantInv, WalletTyped
  <1> HIDE DEF n
  <1>5. VerifierHidden' /\ WalletAtHome'
    BY <1>1, <1>2, <1>3, <1>4 DEF GrantInv, VerifierHidden, WalletAtHome, n
  <1> QED
    BY <1>2, <1>5 DEF GrantInv, WalletTyped, GrantStaysWithClient

\* A code is redeemed, and its session is gone.
LEMMA TokenInv ==
    ASSUME GrantInv, NEW client, NEW s \in sessions, NEW p \in {wallet.phase, "redeemed"},
           s.client = "wallet" => client = "wallet",
           wallet.phase \in {"offer", "ready"} => p = wallet.phase,
           wallet' = [wallet EXCEPT !.phase = p],
           \/ UNCHANGED <<sessions, tokens>>
           \/ /\ sessions' = sessions \ {s}
              /\ tokens' = tokens \cup {[client |-> client, grantee |-> s.client, method |-> s.method]}
    PROVE  GrantInv'
  <1>1. /\ wallet'.phase = p /\ wallet'.verifier = wallet.verifier /\ wallet'.endpoint = wallet.endpoint
        /\ WalletTyped'
    BY DEF GrantInv, WalletTyped
  <1>2. sessions' \subseteq sessions
    OBVIOUS
  <1>3. WalletAtHome' /\ VerifierHidden'
    BY <1>1, <1>2 DEF GrantInv, WalletAtHome, VerifierHidden, WalletTyped
  <1>4. GrantStaysWithClient'
    BY DEF GrantInv, GrantStaysWithClient
  <1> QED
    BY <1>1, <1>3, <1>4 DEF GrantInv

\* Every step of the wallet, the issuer and the other client.
LEMMA GrantStep == GrantInv /\ [Next]_vars => GrantInv'
  <1> SUFFICES ASSUME GrantInv, [Next]_vars PROVE GrantInv'
    OBVIOUS
  <1>1. ASSUME NEW s \in sessions, Exchange(s) PROVE GrantInv'
    <2>1. /\ wallet.phase = "redirected" /\ s.client = "wallet"
          /\ wallet' = [wallet EXCEPT !.phase = "redeemed"]
          /\ \/ UNCHANGED <<sessions, tokens>>
             \/ /\ sessions' = sessions \ {s}
                /\ tokens' = tokens \cup {[client |-> "wallet", grantee |-> s.client, method |-> s.method]}
      BY <1>1 DEF Exchange
    <2> QED
      BY <2>1, TokenInv
  <1>2. ASSUME NEW s \in sessions, NEW v \in Known("stranger"), Redeem("stranger", s, v) PROVE GrantInv'
    <2>1. s.client # "wallet"
      BY <1>2, StrangerCannotRedeem DEF Redeem
    <2>2. /\ sessions' = sessions \ {s} /\ wallet' = wallet
          /\ tokens' = tokens \cup {[client |-> "stranger", grantee |-> s.client, method |-> s.method]}
      BY <1>2 DEF Redeem
    <2>3. wallet' = [wallet EXCEPT !.phase = wallet.phase]
      BY <2>2 DEF GrantInv, WalletTyped
    <2> QED
      BY <2>1, <2>2, <2>3, TokenInv
  <1>3. CASE UNCHANGED <<wallet, sessions, tokens>>
    BY <1>3 DEF GrantInv, WalletTyped, WalletAtHome, VerifierHidden, GrantStaysWithClient
  <1>4. ASSUME NEW t, NEW p, NEW n, NEW a, NEW k, RequestCredential(t, p, n, a, k) PROVE GrantInv'
    BY <1>4 DEF RequestCredential, GrantInv, WalletTyped, WalletAtHome, VerifierHidden, GrantStaysWithClient
  <1> QED
    BY <1>1, <1>2, <1>3, <1>4, DiscoverInv, AuthorizeInv, AuthorizeStrangerInv
    DEF Next, vars, Nonce, Prove, Tick

\* What the wallet was granted only the wallet redeems, although everybody
\* sees code and challenge, and its secrets go to no server but the issuer's,
\* for any verifiers, methods and metadata (issuer.rs, wallet.rs).
THEOREM GrantsCorrect == Spec => []GrantsHold
  <1>1. GrantInv => GrantsHold
    BY DEF GrantInv, WalletAtHome, GrantsHold, SecretsStayHome
  <1> QED
    BY <1>1, GrantInit, GrantStep, PTL DEF Spec

-----------------------------------------------------------------------------
(* Bindings: whose proof a credential rests on.                            *)

\* What the wallet signs: one form of proof, under its own key, at some time.
WalletProof(p) ==
    /\ p.typ /\ p.kid = None /\ p.jwk = "wallet" /\ ~p.secret /\ p.attestation = None
    /\ p.alg = "ES256" /\ p.alg = Algs["wallet"] /\ p.by = "wallet" /\ p.iss = HolderKid
    /\ p.iat \in Nat /\ p.iat <= now /\ p.exp = None

BindingInv ==
    /\ now \in Nat /\ nonces \subseteq Nonces
    /\ \A p \in proofs : WalletProof(p)
    /\ BoundOnlyWithConsent

\* A proof that is taken for the wallet's key was signed by the wallet.
LEMMA AcceptedIsWallets ==
    ASSUME BindingInv, NEW p \in proofs \cup Crafted, NEW n \in nonces, NEW a, Accepted(p, n, a, "wallet")
    PROVE  p \in proofs /\ p.aud = "home" /\ p.nonce = n /\ p.iat <= now /\ now - p.iat <= MaxAge
  <1>1. p.by = "wallet"
    BY DEF Accepted, Signed
  <1>2. \A q \in Crafted : q.by = "stranger"
    BY DEF Crafted
  <1>3. p \in proofs
    BY <1>1, <1>2
  <1>4. n # None
    BY IssuanceAssumption DEF BindingInv
  <1> QED
    BY <1>3, <1>4 DEF Accepted, BindingInv, WalletProof

\* A fresh proof of the wallet's for this issuer passes the check.
LEMMA WalletProofPasses ==
    ASSUME BindingInv, NEW p \in proofs, p.aud = "home", now - p.iat <= MaxAge
    PROVE  Accepted(p, p.nonce, None, "wallet")
  <1>1. WalletProof(p) /\ now \in Nat
    BY DEF BindingInv
  <1>2. "wallet" # None /\ Future \in Nat
    BY IssuanceAssumption DEF Clients, HolderKeys
  <1>3. HeaderKey(p) = {"wallet"}
    BY <1>1, <1>2 DEF HeaderKey, WalletProof
  <1>4. HolderMatches(p, "wallet")
    BY <1>1, IssuanceAssumption DEF WalletProof, HolderMatches
  <1>5. p.iat <= now + Future
    BY <1>1, <1>2 DEF WalletProof
  <1> QED
    BY <1>1, <1>3, <1>4, <1>5 DEF Accepted, Signed, WalletProof

\* Every step keeps the wallet's proofs its own and the bindings consented.
LEMMA BindingStep == BindingInv /\ [Next]_vars => BindingInv'
  <1> SUFFICES ASSUME BindingInv, [Next]_vars PROVE BindingInv'
    OBVIOUS
  <1>1. ASSUME NEW aud, NEW n \in Nonces, NEW k, Prove(aud, n, k) PROVE BindingInv'
    <2> DEFINE p == [typ |-> TRUE, kid |-> None, jwk |-> "wallet", secret |-> FALSE,
                     attestation |-> None, alg |-> "ES256", by |-> k,
                     iss |-> HolderKid, aud |-> aud, iat |-> now, exp |-> None, nonce |-> n]
    <2>1. proofs' = proofs \cup {p} /\ Completes(p) /\ UNCHANGED <<now, nonces, issued>>
      BY <1>1 DEF Prove
    <2>2. /\ p.typ = TRUE /\ p.kid = None /\ p.jwk = "wallet" /\ p.secret = FALSE /\ p.attestation = None
          /\ p.alg = "ES256" /\ p.iss = HolderKid /\ p.iat = now /\ p.exp = None
      OBVIOUS
    <2> HIDE DEF p
    <2>3. WalletProof(p)
      BY <2>1, <2>2 DEF WalletProof, Completes, BindingInv
    <2> QED
      BY <2>1, <2>3 DEF BindingInv, WalletProof, BoundOnlyWithConsent
  <1>2. ASSUME NEW t, NEW p \in proofs \cup Crafted, NEW n \in nonces, NEW a, NEW k,
               RequestCredential(t, p, n, a, k)
        PROVE  BindingInv'
    <2> DEFINE c == [client |-> t.client, holder |-> k, nonce |-> n, at |-> now]
    <2>1. /\ issued' = issued \cup {c} /\ nonces' = nonces \ {n} /\ UNCHANGED <<now, proofs>>
          /\ Accepted(p, n, a, k)
      BY <1>2 DEF RequestCredential
    <2>2. c.holder = k /\ c.nonce = n /\ c.at = now
      OBVIOUS
    <2>3. k = "wallet" => p \in proofs /\ p.aud = "home" /\ p.nonce = n /\ p.iat <= now /\ now - p.iat <= MaxAge
      BY <2>1, AcceptedIsWallets
    <2> HIDE DEF c
    <2> QED
      BY <2>1, <2>2, <2>3 DEF BindingInv, WalletProof, BoundOnlyWithConsent
  <1>3. CASE Tick
    BY <1>3 DEF Tick, BindingInv, WalletProof, BoundOnlyWithConsent
  <1>4. ASSUME NEW n \in Nonces, Nonce(n) PROVE BindingInv'
    BY <1>4 DEF Nonce, BindingInv, WalletProof, BoundOnlyWithConsent
  <1>5. CASE UNCHANGED <<now, nonces, proofs, issued>>
    BY <1>5 DEF BindingInv, WalletProof, BoundOnlyWithConsent
  <1> QED
    BY <1>1, <1>2, <1>3, <1>4, <1>5
    DEF Next, vars, Discover, Authorize, AuthorizeStranger, Exchange, Redeem

\* A credential is bound to the wallet's key only with a recent proof the wallet
\* made for this issuer and nonce, and a fresh one the wallet sends is accepted,
\* for any nonces, headers, attestations, ages and clock (proof.rs, wallet.rs).
THEOREM BindingsCorrect == Spec => []BindingsHold
  <1>1. Init => BindingInv
    BY DEF Init, BindingInv, BoundOnlyWithConsent
  <1>2. BindingInv => BindingsHold
    BY WalletProofPasses DEF BindingInv, BindingsHold, WalletProofAccepted
  <1> QED
    BY <1>1, <1>2, BindingStep, PTL DEF Spec

-----------------------------------------------------------------------------
(* Governed sessions.                                                      *)

\* Only documents that parse are in force.
GovernanceInv == Governed!parse_governance(document) /\ Governed!ResumedIsAuthorised

\* What resume returns is the present document's word on a client of the same
\* name, with what the session had been authorised with.
LEMMA ResumeReturns ==
    ASSUME NEW g, NEW s, Governed!parse_governance(g), Governed!resume(g, s) # None
    PROVE  \E k \in DOMAIN g.clients :
              LET c == g.clients[k]
                  r == Governed!resume(g, s) IN
              /\ c.id = r.client /\ c.org = r.org /\ r.policy.org = c.org /\ r.trust.org = c.org
              /\ r.purpose \in DOMAIN c.purposes
              /\ \E p \in DOMAIN g.policies : g.policies[p] = r.policy /\ r.policy.id = c.purposes[r.purpose].policy
              /\ \E t \in DOMAIN g.trust : g.trust[t] = r.trust /\ r.trust.id = c.purposes[r.purpose].trust
              /\ Governed!required_checks(r.purpose) \subseteq Governed!Checks(r.policy)
  <1> DEFINE matched == {k \in DOMAIN g.clients : g.clients[k].id = s.client}
             client == g.clients[CHOOSE k \in matched : TRUE]
             expected == Governed!snapshot(g, client, s.purpose)
             grant == client.purposes[s.purpose]
             policies == Governed!Of(g.policies, client.org, grant.policy)
             profiles == Governed!Of(g.trust, client.org, grant.trust)
  <1>1. /\ matched # {} /\ Governed!parse_snapshot(s)
        /\ s.purpose \in DOMAIN client.purposes
        /\ s.policy = expected.policy
        /\ Governed!resume(g, s) = expected
    BY DEF Governed!resume
  <1>2. PICK k \in matched : client = g.clients[k]
    BY <1>1
  <1>3. policies # {} /\ profiles # {}
    BY <1>1, <1>2 DEF Governed!parse_governance
  <1>4. PICK p \in policies : expected.policy = g.policies[p]
    BY <1>3 DEF Governed!snapshot
  <1>5. PICK t \in profiles : expected.trust = g.trust[t]
    BY <1>3 DEF Governed!snapshot
  <1>6. expected.client = client.id /\ expected.org = client.org /\ expected.purpose = s.purpose
    BY DEF Governed!snapshot
  <1>7. /\ p \in DOMAIN g.policies /\ g.policies[p].org = client.org /\ g.policies[p].id = grant.policy
        /\ t \in DOMAIN g.trust /\ g.trust[t].org = client.org /\ g.trust[t].id = grant.trust
    BY <1>4, <1>5 DEF Governed!Of
  <1>8. Governed!required_checks(s.purpose) \subseteq Governed!Checks(s.policy)
    BY <1>1 DEF Governed!parse_snapshot, Governed!require_purpose_checks
  <1> HIDE DEF expected, client
  <1> QED
    BY <1>1, <1>2, <1>4, <1>5, <1>6, <1>7, <1>8

\* Every step: documents are replaced, sessions authorised and resumed.
LEMMA GovernanceStep == GovernanceInv /\ [Governed!Next]_Governed!vars => GovernanceInv'
  <1> SUFFICES ASSUME GovernanceInv, [Governed!Next]_Governed!vars PROVE GovernanceInv'
    OBVIOUS
  <1>1. CASE Governed!Resume
    <2> DEFINE r == Governed!resume(document, frozen)
    <2>1. document' = document
      BY <1>1 DEF Governed!Resume
    <2>2. CASE verified' = Governed!Nothing
      BY <2>1, <2>2 DEF GovernanceInv, Governed!ResumedIsAuthorised
    <2>3. CASE verified' # Governed!Nothing
      <3>1. PICK request : /\ r # None /\ Governed!validate_governance_request(r, request)
                           /\ verified' = [under |-> document, as |-> r, request |-> request]
        BY <1>1, <2>3 DEF Governed!Resume
      <3>2. verified'.under = document /\ verified'.as = r /\ verified'.request = request
        BY <3>1
      <3>3. /\ request.verifier = r.policy.content.verifier
            /\ Governed!canonical_digest(request.definition) = r.policy.content.definition
        BY <3>1 DEF Governed!validate_governance_request
      <3>4. PICK k \in DOMAIN document.clients :
              LET c == document.clients[k] IN
              /\ c.id = r.client /\ c.org = r.org /\ r.policy.org = c.org /\ r.trust.org = c.org
              /\ r.purpose \in DOMAIN c.purposes
              /\ \E p \in DOMAIN document.policies :
                    document.policies[p] = r.policy /\ r.policy.id = c.purposes[r.purpose].policy
              /\ \E t \in DOMAIN document.trust :
                    document.trust[t] = r.trust /\ r.trust.id = c.purposes[r.purpose].trust
              /\ Governed!required_checks(r.purpose) \subseteq Governed!Checks(r.policy)
        BY <3>1, ResumeReturns DEF GovernanceInv
      <3> HIDE DEF r
      <3>5. Governed!ResumedIsAuthorised'
        BY <3>2, <3>3, <3>4 DEF Governed!ResumedIsAuthorised
      <3> QED
        BY <2>1, <3>5 DEF GovernanceInv
    <2> QED
      BY <2>2, <2>3
  <1>2. CASE Governed!Install
    BY <1>2 DEF Governed!Install, GovernanceInv, Governed!ResumedIsAuthorised
  <1>3. CASE UNCHANGED <<document, verified>>
    BY <1>3 DEF GovernanceInv, Governed!ResumedIsAuthorised
  <1> QED
    BY <1>1, <1>2, <1>3 DEF Governed!Next, Governed!vars, Governed!Authorize

\* Whatever request passes after a session was resumed was authorised by the
\* document in force at that moment, whichever documents were installed since
\* the session began (governance.rs).
THEOREM ResumedCorrect == Governed!Spec => []ResumedIsAuthorised
  <1>1. Governed!Init => GovernanceInv
    BY DEF Governed!Init, GovernanceInv, Governed!ResumedIsAuthorised
  <1>2. GovernanceInv => ResumedIsAuthorised
    BY DEF GovernanceInv, ResumedIsAuthorised
  <1> QED
    BY <1>1, <1>2, GovernanceStep, PTL DEF Governed!Spec

-----------------------------------------------------------------------------
(* OpenID4VP transactions.                                                 *)

\* What is posted says what the wallet had understood of its link.
PostsMatch ==
    \A p \in posts :
        /\ p.token.nonce = p.for.nonce /\ p.token.aud = {p.for.client_id}
        /\ p.token.exp = None \/ p.token.exp \in Int
        /\ Vp!ObjectStands(p.link, p.for)

AnswerInv == clock \in Int /\ PostsMatch /\ Vp!AcceptedForItsRequest /\ Vp!LinkNeverOverrides

\* A request object the wallet fetches speaks for itself, whatever the link
\* carries beside it.
LEMMA FetchedObjectWins ==
    ASSUME Vp!TransactionAssumption, NEW params,
           Vp!parse_presentation_request(params, Vp!Served) # None
    PROVE  Vp!ObjectStands(params, Vp!parse_presentation_request(params, Vp!Served))
  <1> SUFFICES ASSUME Vp!Member(params, "request_uri") # None
               PROVE  Vp!ObjectStands(params, Vp!parse_presentation_request(params, Vp!Served))
    BY DEF Vp!ObjectStands
  <1> DEFINE by == Vp!Member(params, "request_uri")
             inline == Vp!request_object_from_params(params)
             fetched == Vp!Member(Vp!Served, by)
             value == Vp!merge_request_objects(fetched, inline)
             request == Vp!parsed_request_from_value(value)
  <1>1. /\ fetched # None /\ request # None /\ inline # None
        /\ Vp!parse_presentation_request(params, Vp!Served) = request
    BY DEF Vp!parse_presentation_request
  <1>2. by = params["request_uri"]
    BY DEF Vp!Member
  <1>3. by \in Vp!Uris /\ fetched = Vp!RequestObject(by)
    <2>1. by \in DOMAIN Vp!Served /\ fetched = Vp!Served[by]
      BY <1>1 DEF Vp!Member
    <2> HIDE DEF by, fetched
    <2> QED
      BY <2>1 DEF Vp!Served, Vp!decode_request_object_body
  <1>4. DOMAIN inline \subseteq DOMAIN params
    BY <1>1 DEF Vp!request_object_from_params
  <1> HIDE DEF by, inline, fetched
  <1>5. by.for \in Nonces /\ by.carries \in Carried
    BY <1>3 DEF Vp!Uris
  <1>6. /\ DOMAIN fetched = by.carries
        /\ \A key \in by.carries :
              fetched[key] = IF key \in {"client_id", "response_uri", "redirect_uri"} THEN Vp!Verifier ELSE by.for
    BY <1>3 DEF Vp!RequestObject
  <1>7. /\ \A key \in by.carries : Vp!Member(value, key) = fetched[key]
        /\ \A key : key \notin by.carries /\ key \notin DOMAIN params => Vp!Member(value, key) = None
    BY <1>4, <1>6 DEF Vp!Member, Vp!merge_request_objects
  <1>8. by.for # None /\ Vp!Verifier # None
    BY <1>5 DEF Vp!TransactionAssumption
  <1> HIDE DEF value
  <1> DEFINE definition == Vp!Member(value, "presentation_definition")
             dcql == Vp!Member(value, "dcql_query")
  <1>9. /\ request.client_id = Vp!Or(Vp!Member(value, "client_id"), "")
        /\ request.nonce = Vp!Or(Vp!Member(value, "nonce"), "")
        /\ request.response_uri = Vp!Or(Vp!Or(Vp!Member(value, "response_uri"), Vp!Member(value, "redirect_uri")), "")
        /\ request.state = Vp!Member(value, "state")
        /\ request.query = IF dcql # None THEN dcql ELSE definition
    BY <1>1 DEF Vp!parsed_request_from_value
  <1> HIDE DEF request, definition, dcql
  <1>10. /\ "client_id" \in by.carries => request.client_id = Vp!Verifier
         /\ "nonce" \in by.carries => request.nonce = by.for
         /\ "state" \in by.carries => request.state = by.for
    BY <1>6, <1>7, <1>8, <1>9 DEF Vp!Or
  <1>11. /\ "response_uri" \in by.carries => request.response_uri = Vp!Verifier
         /\ "redirect_uri" \in by.carries /\ "response_uri" \notin DOMAIN params =>
               request.response_uri = Vp!Verifier
    BY <1>6, <1>7, <1>8, <1>9 DEF Vp!Or
  <1>12. /\ "dcql_query" \in by.carries => request.query = by.for
         /\ "presentation_definition" \in by.carries /\ "dcql_query" \notin DOMAIN params =>
               request.query = by.for
    BY <1>6, <1>7, <1>8, <1>9 DEF definition, dcql
  <1>13. Vp!ObjectStands(params, request)
    BY <1>2, <1>10, <1>11, <1>12 DEF Vp!ObjectStands
  <1> QED
    BY <1>1, <1>13

\* What passes is signed with the key it declares, for this nonce and verifier,
\* and not too late.
LEMMA PassedIsForIt ==
    ASSUME Vp!TransactionAssumption, AnswerInv, NEW p \in posts, NEW n \in Nonces,
           Vp!verify_vp_token(p.token, n, clock) = "Passed"
    PROVE  /\ p.for.nonce = n /\ p.for.client_id = Vp!Verifier
           /\ Vp!Member(p.link, "request_uri") # None
              /\ {"nonce", "dcql_query"} \subseteq p.link["request_uri"].carries => p.for.query = n
           /\ p.token.signed_by = Vp!PresentationKey(p.token)
           /\ p.token.exp + Leeway >= clock
  <1> DEFINE t == p.token
  <1>1. /\ t.nonce = n /\ Vp!Verifier \in t.aud /\ t.exp # None /\ ~(clock > t.exp + Leeway)
        /\ t.signed_by = Vp!PresentationKey(t)
    BY DEF Vp!verify_vp_token
  <1>2. t.nonce = p.for.nonce /\ t.aud = {p.for.client_id} /\ t.exp \in Int
    BY <1>1 DEF AnswerInv, PostsMatch
  <1>3. ASSUME Vp!Member(p.link, "request_uri") # None,
               {"nonce", "dcql_query"} \subseteq p.link["request_uri"].carries
        PROVE  p.for.query = p.for.nonce
    <2>1. Vp!ObjectStands(p.link, p.for)
      BY DEF AnswerInv, PostsMatch
    <2> QED
      BY <1>3, <2>1 DEF Vp!ObjectStands
  <1>4. t.exp + Leeway >= clock
    BY <1>1, <1>2 DEF AnswerInv, Vp!TransactionAssumption
  <1> QED
    BY <1>1, <1>2, <1>3, <1>4

\* Every step of the verifier, the wallet and the holder.
LEMMA AnswerStep ==
    ASSUME Vp!TransactionAssumption, AnswerInv, [Vp!Next]_Vp!vars
    PROVE  AnswerInv'
  <1>1. CASE Vp!ReadLink
    <2>1. PICK params \in Params :
             /\ parsed' = Vp!parse_presentation_request(params, Vp!Served)
             /\ link' = IF parsed' = None THEN None ELSE params
             /\ UNCHANGED <<clock, posts, accepted>>
      BY <1>1 DEF Vp!ReadLink
    <2>2. parsed' # None => Vp!ObjectStands(params, parsed')
      <3> HIDE DEF Vp!ObjectStands
      <3> QED
        BY <2>1, FetchedObjectWins
    <2>3. Vp!LinkNeverOverrides'
      <3>1. parsed' # None => Vp!ObjectStands(link, parsed)'
        BY <2>1, <2>2 DEF Vp!ObjectStands, Vp!Member, Vp!Verifier
      <3> QED
        BY <3>1 DEF Vp!LinkNeverOverrides
    <2>4. PostsMatch' /\ Vp!AcceptedForItsRequest'
      BY <2>1 DEF AnswerInv, PostsMatch, Vp!AcceptedForItsRequest, Vp!ObjectStands, Vp!Member
    <2> QED
      BY <2>1, <2>3, <2>4 DEF AnswerInv
  <1>2. CASE Vp!Submit
    <2>1. PICK alg \in {"ES256", "none"}, life \in {TokenLife, None}, keys \in DeclaredKeys :
             LET token == [nonce |-> parsed.nonce, aud |-> {parsed.client_id}, alg |-> alg, nbf |-> clock,
                           exp |-> IF life = None THEN None ELSE clock + life, header_jwk |-> keys.header,
                           cnf_jwk |-> keys.cnf, sub_jwk |-> keys.sub, signed_by |-> keys.signer] IN
             posts' = IF parsed.response_uri = Vp!Verifier
                      THEN posts \cup {[token |-> token, state |-> parsed.state, for |-> parsed, link |-> link]}
                      ELSE posts
      BY <1>2 DEF Vp!Submit
    <2>2. parsed # None /\ parsed' = None /\ UNCHANGED <<clock, accepted>>
      BY <1>2 DEF Vp!Submit
    <2> DEFINE end == IF life = None THEN None ELSE clock + life
    <2>3. end = None \/ end \in Int
      BY DEF AnswerInv, Vp!TransactionAssumption
    <2>4. Vp!ObjectStands(link, parsed)
      BY <2>2 DEF AnswerInv, Vp!LinkNeverOverrides
    <2> HIDE DEF end
    <2>5. PostsMatch'
      <3> DEFINE post == [token |-> [nonce |-> parsed.nonce, aud |-> {parsed.client_id}, alg |-> alg,
                                     nbf |-> clock, exp |-> end, header_jwk |-> keys.header,
                                     cnf_jwk |-> keys.cnf, sub_jwk |-> keys.sub, signed_by |-> keys.signer],
                          state |-> parsed.state, for |-> parsed, link |-> link]
      <3>1. posts' \subseteq posts \cup {post}
        BY <2>1 DEF end
      <3>2. /\ post.token.nonce = post.for.nonce /\ post.token.aud = {post.for.client_id}
            /\ post.token.exp = None \/ post.token.exp \in Int
            /\ post.link = link /\ post.for = parsed
        BY <2>3
      <3> HIDE DEF post
      <3>3. Vp!ObjectStands(post.link, post.for)
        BY <2>4, <3>2
      <3>4. \A p \in posts' :
               /\ p.token.nonce = p.for.nonce /\ p.token.aud = {p.for.client_id}
               /\ p.token.exp = None \/ p.token.exp \in Int
               /\ Vp!ObjectStands(p.link, p.for)
        BY <3>1, <3>2, <3>3 DEF AnswerInv, PostsMatch
      <3> QED
        BY <3>4 DEF PostsMatch, Vp!ObjectStands, Vp!Member, Vp!Verifier
    <2> QED
      BY <2>2, <2>5 DEF AnswerInv, Vp!AcceptedForItsRequest, Vp!LinkNeverOverrides, Vp!Member
  <1>3. CASE Vp!Verify
    <2>1. PICK p \in posts, n \in Nonces :
             /\ Vp!verify_vp_token(p.token, n, clock) = "Passed"
             /\ accepted' = accepted \cup {[nonce |-> n, post |-> p, at |-> clock]}
      BY <1>3 DEF Vp!Verify
    <2>2. UNCHANGED <<clock, link, parsed, posts>>
      BY <1>3 DEF Vp!Verify
    <2>3. /\ p.for.nonce = n /\ p.for.client_id = Vp!Verifier
          /\ Vp!Member(p.link, "request_uri") # None
             /\ {"nonce", "dcql_query"} \subseteq p.link["request_uri"].carries => p.for.query = n
          /\ p.token.signed_by = Vp!PresentationKey(p.token)
          /\ p.token.exp + Leeway >= clock
      BY <2>1, PassedIsForIt
    <2>4. Vp!AcceptedForItsRequest'
      BY <2>1, <2>3 DEF AnswerInv, Vp!AcceptedForItsRequest, Vp!PresentationKey, Vp!Or, Vp!Member, Vp!Verifier
    <2> QED
      BY <2>2, <2>4 DEF AnswerInv, PostsMatch, Vp!LinkNeverOverrides, Vp!ObjectStands, Vp!Member
  <1>4. CASE Vp!Tick
    BY <1>4 DEF Vp!Tick, Vp!vp, AnswerInv, PostsMatch, Vp!AcceptedForItsRequest, Vp!LinkNeverOverrides,
                Vp!ObjectStands, Vp!Member
  <1>5. CASE UNCHANGED <<clock, link, parsed, posts, accepted>>
    BY <1>5 DEF AnswerInv, PostsMatch, Vp!AcceptedForItsRequest, Vp!LinkNeverOverrides, Vp!ObjectStands, Vp!Member
  <1> QED
    BY <1>1, <1>2, <1>3, <1>4, <1>5
    DEF Vp!Next, Vp!VpNext, Vp!ZkNext, Vp!vars, Vp!Publish, Vp!CreateZk, Vp!BindZk, Vp!Prove, Vp!VerifyZk, Vp!vp

\* A challenge keeps what it asks for through its states, and one that counted
\* a proof is used for good.
ZkProof == [transcript : {Vp!build_mdoc_session_transcript(Vp!Verifier, n, None, Vp!Verifier) : n \in Nonces},
            issuer : {"issuer"}, predicate : Vp!Predicates, namespace : Namespaces, time : Int]
Counted == [nonce : Nonces, proof : ZkProof, at : Int]
Asks(c) == c.predicate \in Vp!Predicates /\ c.namespace \in Namespaces /\ c.created \in Int
ZkTyped ==
    /\ clock \in Int /\ zkProofs \subseteq ZkProof
    /\ DOMAIN challenges = Nonces /\ \A n \in Nonces : challenges[n] # None => Asks(challenges[n])
    /\ confirmed \in Seq(Counted)
ZkUsed == \A k \in DOMAIN confirmed : challenges[confirmed[k].nonce] \in Vp!UsedChallenges

ZkInv == ZkTyped /\ ZkUsed /\ Vp!ZkCountedOnce

\* Replacing a challenge that counted nothing yet disturbs no count.
LEMMA UncountedMayChange ==
    ASSUME ZkInv, NEW n \in Nonces, NEW c, challenges[n] \notin Vp!UsedChallenges, c = None \/ Asks(c),
           challenges' = [challenges EXCEPT ![n] = c], UNCHANGED <<clock, zkProofs, confirmed>>
    PROVE  ZkInv'
  <1>1. ZkTyped'
    BY DEF ZkInv, ZkTyped
  <1>2. \A k \in DOMAIN confirmed : confirmed[k].nonce \in Nonces /\ confirmed[k].nonce # n
    <2>1. \A k \in DOMAIN confirmed : confirmed[k] \in Counted
      BY DEF ZkInv, ZkTyped
    <2> QED
      BY <2>1 DEF Counted, ZkInv, ZkUsed
  <1>3. \A k \in DOMAIN confirmed : challenges'[confirmed[k].nonce] = challenges[confirmed[k].nonce]
    BY <1>2 DEF ZkInv, ZkTyped
  <1>4. ZkUsed' /\ Vp!ZkCountedOnce'
    BY <1>3 DEF ZkInv, ZkUsed, Vp!ZkCountedOnce
  <1> QED
    BY <1>1, <1>4 DEF ZkInv

\* A bound challenge is used up, with or without a proof that counts.
LEMMA VerifyZkInv ==
    ASSUME Vp!TransactionAssumption, ZkInv, Vp!VerifyZk
    PROVE  ZkInv'
  <1>1. PICK n \in Nonces, proof \in zkProofs :
           /\ challenges[n] # None /\ challenges[n].state = "bound"
           /\ confirmed' = IF Vp!verify_zk_predicate(challenges[n], proof, clock)
                           THEN Append(confirmed, [nonce |-> n, proof |-> proof, at |-> clock]) ELSE confirmed
           /\ challenges' = [challenges EXCEPT ![n] = [state |-> "used", predicate |-> challenges[n].predicate,
                                                       namespace |-> challenges[n].namespace,
                                                       created |-> challenges[n].created]]
           /\ UNCHANGED <<clock, zkProofs>>
    BY DEF Vp!VerifyZk
  <1> DEFINE used == [state |-> "used", predicate |-> challenges[n].predicate,
                      namespace |-> challenges[n].namespace, created |-> challenges[n].created]
             new == [nonce |-> n, proof |-> proof, at |-> clock]
  <1>2. Asks(challenges[n]) /\ proof \in ZkProof /\ clock \in Int
    BY <1>1 DEF ZkInv, ZkTyped
  <1>3. /\ used \in Vp!UsedChallenges /\ used.state = "used" /\ Asks(used)
        /\ used.predicate = challenges[n].predicate /\ used.created = challenges[n].created
    BY <1>2 DEF Asks, Vp!UsedChallenges
  <1>4. challenges[n] \notin Vp!UsedChallenges
    BY <1>1 DEF Vp!UsedChallenges
  <1>5. /\ new \in Counted
        /\ new.nonce = n /\ new.proof = proof /\ new.at = clock
    BY <1>2 DEF Counted
  <1> HIDE DEF used, new
  <1>6. DOMAIN challenges = Nonces /\ challenges' = [challenges EXCEPT ![n] = used]
    BY <1>1 DEF ZkInv, ZkTyped, used
  <1>7. CASE confirmed' = confirmed
    BY <1>1, <1>3, <1>4, <1>6, <1>7, UncountedMayChange
  <1>8. CASE Vp!verify_zk_predicate(challenges[n], proof, clock) /\ confirmed' = Append(confirmed, new)
    <2>1. confirmed \in Seq(Counted)
      BY DEF ZkInv, ZkTyped
    <2>2. /\ confirmed' \in Seq(Counted)
          /\ DOMAIN confirmed' = DOMAIN confirmed \cup {Len(confirmed) + 1} /\ Len(confirmed) + 1 \notin DOMAIN confirmed
          /\ confirmed'[Len(confirmed) + 1] = new
          /\ \A k \in DOMAIN confirmed : confirmed'[k] = confirmed[k]
      BY <2>1, <1>5, <1>8
    <2>3. \A k \in DOMAIN confirmed : confirmed[k].nonce \in Nonces /\ confirmed[k].nonce # n
      <3>1. \A k \in DOMAIN confirmed : confirmed[k] \in Counted
        BY <2>1
      <3> QED
        BY <3>1, <1>4 DEF Counted, ZkInv, ZkUsed
    <2>4. /\ used.predicate = proof.predicate
          /\ clock >= used.created /\ clock <= used.created + NonceMaxAge
      BY <1>2, <1>3, <1>8 DEF Asks, Vp!verify_zk_predicate, Vp!ZkWindow, Vp!TransactionAssumption
    <2>5. challenges'[n] = used /\ \A k \in DOMAIN confirmed : challenges'[confirmed[k].nonce] = challenges[confirmed[k].nonce]
      BY <1>6, <2>3
    <2>6. ZkTyped'
      BY <1>1, <1>3, <1>6, <2>2 DEF ZkInv, ZkTyped
    <2>7. ZkUsed'
      BY <1>3, <1>5, <2>2, <2>5 DEF ZkInv, ZkUsed
    <2>8. Vp!ZkCountedOnce'
      <3>1. \A j, k \in DOMAIN confirmed' : confirmed'[j].nonce = confirmed'[k].nonce => j = k
        BY <1>5, <2>2, <2>3 DEF ZkInv, Vp!ZkCountedOnce
      <3>2. \A k \in DOMAIN confirmed' :
               LET c == challenges'[confirmed'[k].nonce] IN
               /\ c.state = "used" /\ c.predicate = confirmed'[k].proof.predicate
               /\ confirmed'[k].at >= c.created /\ confirmed'[k].at <= c.created + NonceMaxAge
        BY <1>3, <1>5, <2>2, <2>4, <2>5 DEF ZkInv, Vp!ZkCountedOnce
      <3> QED
        BY <3>1, <3>2 DEF Vp!ZkCountedOnce
    <2> QED
      BY <2>6, <2>7, <2>8 DEF ZkInv
  <1> QED
    BY <1>1, <1>7, <1>8 DEF new

\* Every step of the verifier and the prover.
LEMMA ZkStep ==
    ASSUME Vp!TransactionAssumption, ZkInv, [Vp!Next]_Vp!vars
    PROVE  ZkInv'
  <1>1. CASE Vp!CreateZk
    <2>1. PICK n \in Nonces, p \in Vp!Predicates, ns \in Namespaces :
             /\ challenges[n] = None
             /\ challenges' = [challenges EXCEPT ![n] = Vp!create_zk_challenge(p, ns, n, clock)]
             /\ UNCHANGED <<clock, zkProofs, confirmed>>
      BY <1>1 DEF Vp!CreateZk
    <2> DEFINE c == Vp!create_zk_challenge(p, ns, n, clock)
    <2>2. c = None \/ Asks(c)
      BY DEF Vp!create_zk_challenge, Asks, ZkInv, ZkTyped
    <2>3. challenges[n] \notin Vp!UsedChallenges
      BY <2>1 DEF Vp!TransactionAssumption
    <2> HIDE DEF c
    <2> QED
      BY <2>1, <2>2, <2>3, UncountedMayChange DEF c
  <1>2. CASE Vp!BindZk
    <2>1. PICK n \in Nonces :
             /\ challenges[n] # None /\ challenges[n].state = "open"
             /\ challenges' = [challenges EXCEPT ![n] = Vp!bind_zk_challenge(challenges[n], "issuer", None)]
             /\ UNCHANGED <<clock, zkProofs, confirmed>>
      BY <1>2 DEF Vp!BindZk
    <2> DEFINE c == Vp!bind_zk_challenge(challenges[n], "issuer", None)
    <2>2. Asks(c)
      BY <2>1 DEF Vp!bind_zk_challenge, Asks, ZkInv, ZkTyped
    <2>3. challenges[n] \notin Vp!UsedChallenges
      BY <2>1 DEF Vp!UsedChallenges
    <2> HIDE DEF c
    <2> QED
      BY <2>1, <2>2, <2>3, UncountedMayChange DEF c
  <1>3. CASE Vp!Prove
    <2>1. PICK n \in Nonces :
             /\ challenges[n] # None
             /\ zkProofs' = zkProofs \cup
                   {[transcript |-> Vp!build_mdoc_session_transcript(Vp!Verifier, n, None, Vp!Verifier),
                     issuer |-> "issuer", predicate |-> challenges[n].predicate,
                     namespace |-> challenges[n].namespace, time |-> challenges[n].created]}
             /\ UNCHANGED <<clock, challenges, confirmed>>
      BY <1>3 DEF Vp!Prove
    <2>2. zkProofs' \subseteq ZkProof
      BY <2>1 DEF ZkInv, ZkTyped, ZkProof, Asks
    <2> QED
      BY <2>1, <2>2 DEF ZkInv, ZkTyped, ZkUsed, Vp!ZkCountedOnce
  <1>4. CASE Vp!Tick
    BY <1>4 DEF Vp!Tick, Vp!zk, ZkInv, ZkTyped, ZkUsed, Vp!ZkCountedOnce
  <1>5. CASE UNCHANGED <<clock, challenges, zkProofs, confirmed>>
    BY <1>5 DEF ZkInv, ZkTyped, ZkUsed, Vp!ZkCountedOnce
  <1> QED
    BY <1>1, <1>2, <1>3, <1>4, <1>5, VerifyZkInv
    DEF Vp!Next, Vp!VpNext, Vp!ZkNext, Vp!vars, Vp!zk, Vp!Publish, Vp!ReadLink, Vp!Submit, Vp!Verify

\* What a verifier accepts for a transaction was made for it, in time and with a
\* key the token declares itself; a link cannot speak against what the request
\* object it names says; and a predicate proof counts once, for what was asked
\* and inside its window: for any links, nonces, requirements, durations and
\* movements of the clock (verifier.rs, wallet.rs).
THEOREM TransactionsCorrect == Vp!Spec => []BoundToTransaction
  <1> USE DurationAssumption
  <1>1. Vp!Init => AnswerInv /\ ZkInv
    <2> SUFFICES ASSUME Vp!Init PROVE AnswerInv /\ ZkInv
      OBVIOUS
    <2>1. AnswerInv
      BY DEF Vp!Init, AnswerInv, PostsMatch, Vp!AcceptedForItsRequest, Vp!LinkNeverOverrides
    <2>2. confirmed \in Seq(Counted) /\ DOMAIN confirmed = {}
      BY DEF Vp!Init
    <2>3. ZkInv
      BY <2>2 DEF Vp!Init, ZkInv, ZkTyped, ZkUsed, Vp!ZkCountedOnce
    <2> QED
      BY <2>1, <2>3
  <1>2. AnswerInv /\ [Vp!Next]_Vp!vars => AnswerInv'
    BY AnswerStep
  <1>3. ZkInv /\ [Vp!Next]_Vp!vars => ZkInv'
    BY ZkStep
  <1>4. AnswerInv /\ ZkInv => BoundToTransaction
    BY DEF AnswerInv, ZkInv, BoundToTransaction, Vp!BoundToTransaction
  <1> QED
    BY <1>1, <1>2, <1>3, <1>4, PTL DEF Vp!Spec

-----------------------------------------------------------------------------
(* The two queries of one request.                                         *)

\* A set of naturals that is not empty has a least element.
LEMMA Least ==
    ASSUME NEW S, S \subseteq Nat, S # {}
    PROVE  \E x \in S : \A y \in S : x <= y
<1> DEFINE Below == {ss \in Nat \X Nat : ss[1] < ss[2]}
<1>1. OpToRel(<, Nat) = Below
  BY Zenon DEF OpToRel
<1>2. PICK x \in S : \A y \in S : <<y, x>> \notin Below
  <2> HIDE DEF Below
  <2> QED BY <1>1, WFMin, NatLessThanWellFounded, Zenon
<1>3. ASSUME NEW y \in S PROVE x <= y
  <2>1. x \in Nat /\ y \in Nat
    OBVIOUS
  <2>2. ~(y < x)
    BY <1>2, <2>1
  <2> QED
    BY <2>1, <2>2
<1> QED
  BY <1>3

\* Induction up to n.
LEMMA UpTo ==
    ASSUME NEW n \in Nat, NEW S, 0 \in S, \A k \in Nat : k < n /\ k \in S => k + 1 \in S
    PROVE  \A k \in 0 .. n : k \in S
<1> SUFFICES ASSUME NEW m \in 0 .. n, m \notin S PROVE FALSE
  OBVIOUS
<1> DEFINE Bad == {k \in 0 .. n : k \notin S}
<1>1. Bad \subseteq Nat /\ Bad # {}
  OBVIOUS
<1>2. PICK b \in Bad : \A y \in Bad : b <= y
  <2> HIDE DEF Bad
  <2> QED BY <1>1, Least
<1>3. b \in Nat /\ b # 0 /\ b <= n /\ b \notin S
  OBVIOUS
<1>4. b - 1 \in Nat /\ b - 1 \in S
  BY <1>2, <1>3
<1> QED
  BY <1>3, <1>4

\* The first k formats of a wallet without those of other families.
OfFamily(h, w, family, n) ==
    h = [k \in 0 .. n |->
            IF k = 0 THEN <<>>
            ELSE IF Vp!format_family(w[k]) = family THEN Append(h[k - 1], w[k])
            ELSE h[k - 1]]

LEMMA OfFamilyUnfolds ==
    ASSUME NEW h, NEW w, NEW family, NEW n \in Nat, OfFamily(h, w, family, n), NEW k \in 0 .. n
    PROVE  h[k] = IF k = 0 THEN <<>>
                  ELSE IF Vp!format_family(w[k]) = family THEN Append(h[k - 1], w[k])
                  ELSE h[k - 1]
  BY Zenon DEF OfFamily

\* The recursion of select_formats has a solution.
LEMMA OfFamilyDefined ==
    ASSUME NEW w, NEW family, NEW n \in Nat
    PROVE  \E h : OfFamily(h, w, family, n)
<1> DEFINE S == {l \in Nat : \E h : OfFamily(h, w, family, l)}
<1>1. 0 \in S
  <2> DEFINE h == [k \in 0 .. 0 |-> <<>>]
  <2>1. OfFamily(h, w, family, 0)
    BY DEF OfFamily
  <2> QED
    BY <2>1
<1>2. ASSUME NEW l \in Nat, l \in S PROVE l + 1 \in S
  <2>1. PICK h : OfFamily(h, w, family, l)
    BY <1>2
  <2> DEFINE last == IF Vp!format_family(w[l + 1]) = family THEN Append(h[l], w[l + 1]) ELSE h[l]
             g == [k \in 0 .. l + 1 |-> IF k = l + 1 THEN last ELSE h[k]]
             r == [k \in 0 .. l + 1 |->
                      IF k = 0 THEN <<>>
                      ELSE IF Vp!format_family(w[k]) = family THEN Append(g[k - 1], w[k])
                      ELSE g[k - 1]]
  <2>2. ASSUME NEW k \in 0 .. l + 1 PROVE g[k] = r[k]
    <3>1. CASE k = l + 1
      <4>1. l + 1 # 0 /\ k - 1 = l /\ g[l] = h[l]
        BY <3>1
      <4> QED
        BY <3>1, <4>1
    <3>2. CASE k = 0
      <4>1. h[0] = <<>>
        BY <2>1, OfFamilyUnfolds
      <4> QED
        BY <3>2, <4>1
    <3>3. CASE k \in 1 .. l
      <4>1. k \in 0 .. l /\ k # 0 /\ k # l + 1
        BY <3>3
      <4>2. h[k] = IF Vp!format_family(w[k]) = family THEN Append(h[k - 1], w[k]) ELSE h[k - 1]
        BY <2>1, <4>1, OfFamilyUnfolds
      <4>3. g[k] = h[k] /\ g[k - 1] = h[k - 1]
        BY <3>3
      <4> QED
        BY <4>1, <4>2, <4>3
    <3> QED
      BY <3>1, <3>2, <3>3
  <2>3. g = r
    BY <2>2
  <2>4. OfFamily(g, w, family, l + 1)
    BY <2>3 DEF OfFamily
  <2> HIDE DEF g
  <2> QED
    BY <2>4
<1>3. \A k \in Nat : k < n /\ k \in S => k + 1 \in S
  BY <1>2
<1> HIDE DEF S
<1>4. \A k \in 0 .. n : k \in S
  BY <1>1, <1>3, UpTo
<1> QED
  BY <1>4 DEF S

\* What is selected are formats of the wallet, all of the family the template
\* names first, which is a known one.
LEMMA SelectedOfOneFamily ==
    ASSUME NEW template \in Seq(STRING), NEW w \in Seq(STRING), Vp!select_formats(template, w) # <<>>
    PROVE  /\ Vp!format_family(template[1]) # None
           /\ Vp!select_formats(template, w)
                 \in Seq({f \in STRING : Vp!format_family(f) = Vp!format_family(template[1])})
<1> DEFINE family == Vp!format_family(template[1])
           T == {f \in STRING : Vp!format_family(f) = family}
           n == Len(w)
           chosen == CHOOSE h : OfFamily(h, w, family, n)
<1>1. template # <<>> /\ None \notin Vp!Families(template) /\ Vp!select_formats(template, w) = chosen[n]
  BY Zenon DEF Vp!select_formats, OfFamily
<1>2. family # None
  <2>1. 1 \in DOMAIN template
    BY <1>1
  <2> QED
    BY <1>1, <2>1, Zenon DEF Vp!Families
<1>3. n \in Nat /\ \A k \in 1 .. n : w[k] \in STRING
  OBVIOUS
<1> HIDE DEF family, n
<1>4. OfFamily(chosen, w, family, n)
  BY <1>3, OfFamilyDefined
<1> HIDE DEF chosen, T
<1> DEFINE S == {k \in Nat : chosen[k] \in Seq(T)}
<1>5. 0 \in S
  <2>1. chosen[0] = <<>>
    BY <1>3, <1>4, OfFamilyUnfolds
  <2>2. <<>> \in Seq(T) /\ 0 \in Nat
    OBVIOUS
  <2> QED
    BY <2>1, <2>2, Zenon
<1>6. ASSUME NEW k \in Nat, k < n, k \in S PROVE k + 1 \in S
  <2>1. k + 1 \in 0 .. n /\ k + 1 # 0 /\ (k + 1) - 1 = k /\ w[k + 1] \in STRING
    BY <1>3, <1>6
  <2>2. chosen[k + 1] = IF Vp!format_family(w[k + 1]) = family THEN Append(chosen[k], w[k + 1]) ELSE chosen[k]
    BY <1>3, <1>4, <2>1, OfFamilyUnfolds
  <2>3. chosen[k] \in Seq(T)
    BY <1>6
  <2>4. CASE Vp!format_family(w[k + 1]) = family
    <3>1. w[k + 1] \in T
      BY <2>1, <2>4 DEF T
    <3>2. Append(chosen[k], w[k + 1]) \in Seq(T)
      BY <2>3, <3>1
    <3>3. chosen[k + 1] \in Seq(T)
      BY <2>2, <2>4, <3>2, Zenon
    <3>4. k + 1 \in Nat
      OBVIOUS
    <3> QED
      BY <3>3, <3>4, Zenon
  <2> QED
    BY <2>2, <2>3, <2>4
<1>7. \A k \in Nat : k < n /\ k \in S => k + 1 \in S
  BY <1>6
<1>8. n \in S
  <2> HIDE DEF S
  <2>1. \A k \in 0 .. n : k \in S
    BY <1>3, <1>5, <1>7, UpTo
  <2> QED
    BY <1>3, <2>1
<1>9. chosen[n] \in Seq(T)
  BY <1>8
<1> QED
  BY <1>1, <1>2, <1>9 DEF family, T

\* A family's DCQL format is of that family.
LEMMA DcqlFormatOfFamily ==
    ASSUME NEW f, Vp!format_family(f) # None
    PROVE  Vp!format_family(Vp!dcql_format(Vp!format_family(f))) = Vp!format_family(f)
<1>1. Vp!format_family(f) \in {"SdJwt", "Mdoc", "JwtVc", "LdpVc"}
  BY DEF Vp!format_family
<1> DEFINE g == Vp!format_family(f)
<1> HIDE DEF g
<1>2. Vp!format_family(Vp!dcql_format(g)) = g
  BY <1>1 DEF Vp!dcql_format, Vp!format_family, g
<1> QED
  BY <1>2 DEF g

\* One requirement: its descriptor and its query entry agree.
Agree(d, q) ==
    /\ d.id = q.id
    /\ Vp!Families(d.formats) = {Vp!format_family(q.format)}
    /\ \E f \in d.fields : ~f.optional /\ f.values = q.meta
    /\ {c.name : c \in q.claims} \subseteq {c.name : c \in d.claims}
    /\ {c.name : c \in {e \in d.claims : ~e.optional}} \subseteq {c.name : c \in q.claims}

LEMMA ClaimsAgree ==
    ASSUME NEW family, NEW r, ~Vp!MissingMapping(family, r)
    PROVE  LET asked == {Vp!presentation_exchange_claim(r.claims[j]) : j \in DOMAIN r.claims}
               queried == Vp!dcql_claims(family, r) IN
           /\ {c.name : c \in queried} \subseteq {c.name : c \in asked}
           /\ {c.name : c \in {e \in asked : ~e.optional}} \subseteq {c.name : c \in queried}
<1> DEFINE asked == {Vp!presentation_exchange_claim(r.claims[j]) : j \in DOMAIN r.claims}
           queried == Vp!dcql_claims(family, r)
<1> DEFINE C(j) == Vp!presentation_exchange_claim(r.claims[j])
           required == {k \in DOMAIN r.claims : r.claims[k].required}
<1>1. ASSUME NEW j PROVE C(j).name = r.claims[j].name /\ (~C(j).optional <=> r.claims[j].required)
  BY DEF Vp!presentation_exchange_claim
<1>2. asked = {C(j) : j \in DOMAIN r.claims}
  OBVIOUS
<1> HIDE DEF C, asked
<1>3. {c.name : c \in asked} = Vp!Names(r.claims)
  BY <1>1, <1>2 DEF Vp!Names
<1>4. {c.name : c \in {e \in asked : ~e.optional}} \subseteq {r.claims[j].name : j \in required}
  BY <1>1, <1>2
<1>5. {r.claims[j].name : j \in required} \subseteq Vp!Names(r.claims)
  BY DEF Vp!Names
<1>6. CASE family = "Mdoc"
  <2> DEFINE M(n) == [name |-> n, path |-> r.mdoc[n]]
  <2>1. queried = {M(n) : n \in Vp!Names(r.claims)}
    <3>1. Vp!Names(r.claims) \cap DOMAIN r.mdoc = Vp!Names(r.claims)
      BY <1>6 DEF Vp!MissingMapping
    <3> QED
      BY <1>6, <3>1 DEF Vp!dcql_claims
  <2>2. ASSUME NEW n PROVE M(n).name = n
    OBVIOUS
  <2> HIDE DEF queried, M
  <2>3. {c.name : c \in queried} = Vp!Names(r.claims)
    BY <2>1, <2>2
  <2> QED
    BY <1>3, <1>4, <1>5, <2>3 DEF asked, queried
<1>7. CASE family # "Mdoc"
  <2> DEFINE places == IF required = {} THEN DOMAIN r.claims ELSE required
             Q(k) == [name |-> r.claims[k].name, path |-> <<r.claims[k].name>>]
  <2>1. queried = {Q(k) : k \in places}
    BY <1>7 DEF Vp!dcql_claims
  <2>2. required \subseteq places /\ places \subseteq DOMAIN r.claims
    OBVIOUS
  <2>3. ASSUME NEW k PROVE Q(k).name = r.claims[k].name
    OBVIOUS
  <2> HIDE DEF queried, places, required, Q
  <2>4. {c.name : c \in queried} = {r.claims[k].name : k \in places}
    BY <2>1, <2>3
  <2>5. {r.claims[k].name : k \in required} \subseteq {r.claims[k].name : k \in places}
    BY <2>2
  <2>6. {r.claims[k].name : k \in places} \subseteq Vp!Names(r.claims)
    BY <2>2 DEF Vp!Names
  <2> QED
    BY <1>3, <1>4, <2>4, <2>5, <2>6 DEF asked, queried
<1> QED
  BY <1>6, <1>7

LEMMA EntryAgrees ==
    ASSUME NEW r, NEW k, NEW w \in Seq(STRING), r.formats \in Seq(STRING),
           Vp!select_formats(r.formats, w) # <<>>,
           ~Vp!MissingMapping(Vp!format_family(Vp!select_formats(r.formats, w)[1]), r)
    PROVE  Agree(Vp!Descriptor(r, k, w), Vp!DcqlEntry(r, k, w))
<1> DEFINE formats == Vp!select_formats(r.formats, w)
           preferred == Vp!format_family(r.formats[1])
           family == Vp!format_family(formats[1])
           d == Vp!Descriptor(r, k, w)
           q == Vp!DcqlEntry(r, k, w)
<1>1. preferred # None /\ formats \in Seq({f \in STRING : Vp!format_family(f) = preferred}) /\ formats # <<>>
  BY SelectedOfOneFamily
<1>2. /\ d.id = Vp!DescriptorId(r, k) /\ d.formats = formats
      /\ d.fields = Vp!credential_selector_fields(family, r)
      /\ d.claims = {Vp!presentation_exchange_claim(r.claims[j]) : j \in DOMAIN r.claims}
  BY DEF Vp!Descriptor
<1>3. /\ q.id = Vp!DescriptorId(r, k) /\ q.format = Vp!dcql_format(family)
      /\ q.meta = Vp!dcql_meta(family, r) /\ q.claims = Vp!dcql_claims(family, r)
  BY DEF Vp!DcqlEntry
<1>4. family = preferred /\ Vp!Families(formats) = {family}
  <2> HIDE DEF formats, preferred
  <2>1. 1 \in DOMAIN formats /\ \A j \in DOMAIN formats : Vp!format_family(formats[j]) = preferred
    BY <1>1
  <2> QED
    BY <2>1 DEF Vp!Families
<1>5. Vp!format_family(q.format) = family
  BY <1>1, <1>3, <1>4, DcqlFormatOfFamily
<1>6. \E f \in d.fields : ~f.optional /\ f.values = q.meta
  <2> DEFINE f == [path |-> CASE family = "Mdoc" -> "docType" [] family = "SdJwt" -> "vct" [] OTHER -> "type",
                   values |-> Vp!dcql_meta(family, r), optional |-> FALSE]
  <2>1. f \in d.fields
    BY <1>2, Zenon DEF Vp!credential_selector_fields
  <2>2. f.optional = FALSE /\ f.values = Vp!dcql_meta(family, r)
    OBVIOUS
  <2> HIDE DEF f
  <2> QED
    BY <1>3, <2>1, <2>2
<1>7. ~Vp!MissingMapping(family, r)
  OBVIOUS
<1> HIDE DEF d, q, family, formats
<1>8. /\ {c.name : c \in q.claims} \subseteq {c.name : c \in d.claims}
      /\ {c.name : c \in {e \in d.claims : ~e.optional}} \subseteq {c.name : c \in q.claims}
  BY <1>2, <1>3, <1>7, ClaimsAgree
<1>9. Agree(d, q)
  BY <1>2, <1>3, <1>4, <1>5, <1>6, <1>8 DEF Agree
<1> QED
  BY <1>9 DEF d, q

\* What is built for one input.
BuiltAgrees(a) ==
    LET d == a.definition
        q == a.dcql IN
    /\ Len(d) = Len(q)
    /\ \A k \in DOMAIN d : Agree(d[k], q[k])
    /\ \A j, k \in DOMAIN q : q[j].id = q[k].id => j = k

LEMMA BuildAgrees ==
    ASSUME NEW input \in Inputs, Vp!build_presentation_request(input) # None
    PROVE  BuiltAgrees(Vp!build_presentation_request(input))
<1> DEFINE rs == input.requirements
           w == Vp!normalize_wallet_formats(input.wallet_formats)
           formats(k) == Vp!select_formats(rs[k].formats, w)
           a == Vp!build_presentation_request(input)
<1>1. /\ rs \in Seq(Vp!ToSet(rs)) /\ w \in Seq(STRING)
      /\ \A k \in DOMAIN rs : rs[k].formats \in Seq(STRING)
  <2>1. /\ rs \in Seq(Vp!ToSet(rs)) /\ input.wallet_formats \in Seq(STRING)
        /\ \A k \in DOMAIN rs : rs[k].formats \in Seq(STRING)
    BY InputAssumption, Zenon DEF Vp!RequirementAssumption
  <2>2. w \in Seq(STRING)
    <3> DEFINE v == input.wallet_formats
    <3>1. w = <<>> \/ w = v
      BY Zenon DEF Vp!normalize_wallet_formats
    <3>2. <<>> \in Seq(STRING)
      OBVIOUS
    <3> QED
      BY <2>1, <3>1, <3>2, Zenon
  <2> QED
    BY <2>1, <2>2, Zenon
<1>2. /\ \A j, k \in DOMAIN rs : Vp!DescriptorId(rs[j], j) = Vp!DescriptorId(rs[k], k) => j = k
      /\ \A k \in DOMAIN rs : formats(k) # <<>> /\ ~Vp!MissingMapping(Vp!format_family(formats(k)[1]), rs[k])
      /\ a = [definition |-> [k \in DOMAIN rs |-> Vp!Descriptor(rs[k], k, w)],
              dcql |-> [k \in DOMAIN rs |-> Vp!DcqlEntry(rs[k], k, w)]]
  BY Zenon DEF Vp!build_presentation_request
<1> HIDE DEF a, w, rs
<1>3. \A k \in DOMAIN rs : Agree(Vp!Descriptor(rs[k], k, w), Vp!DcqlEntry(rs[k], k, w))
  BY <1>1, <1>2, EntryAgrees
<1>4. /\ a.definition = [k \in DOMAIN rs |-> Vp!Descriptor(rs[k], k, w)]
      /\ a.dcql = [k \in DOMAIN rs |-> Vp!DcqlEntry(rs[k], k, w)]
  BY <1>2
<1>5. DOMAIN rs = 1 .. Len(rs) /\ Len(rs) \in Nat
  BY <1>1
<1>6. Len(a.definition) = Len(a.dcql)
  BY <1>4, <1>5
<1>7. \A k \in DOMAIN rs : a.dcql[k].id = Vp!DescriptorId(rs[k], k)
  BY <1>4 DEF Vp!DcqlEntry
<1>8. DOMAIN a.definition = DOMAIN rs /\ DOMAIN a.dcql = DOMAIN rs
  BY <1>4
<1>9. \A k \in DOMAIN a.definition : Agree(a.definition[k], a.dcql[k])
  BY <1>3, <1>4, <1>8
<1>10. \A j, k \in DOMAIN a.dcql : a.dcql[j].id = a.dcql[k].id => j = k
  BY <1>2, <1>7, <1>8
<1>11. BuiltAgrees(a)
  BY <1>6, <1>9, <1>10 DEF BuiltAgrees
<1> QED
  BY <1>11 DEF a

ArtifactsAgree ==
    /\ artifacts = [n \in Nonces |-> artifacts[n]]
    /\ \A n \in Nonces : artifacts[n] # None => BuiltAgrees(artifacts[n])

LEMMA ArtifactsStep == ArtifactsAgree /\ [Vp!Next]_Vp!vars => ArtifactsAgree'
<1> SUFFICES ASSUME ArtifactsAgree, [Vp!Next]_Vp!vars PROVE ArtifactsAgree'
  OBVIOUS
<1>1. CASE UNCHANGED artifacts
  BY <1>1 DEF ArtifactsAgree
<1>2. CASE Vp!Publish
  <2>1. PICK n \in Nonces, input \in Inputs :
           artifacts' = [artifacts EXCEPT ![n] = Vp!build_presentation_request(input)]
    BY <1>2 DEF Vp!Publish
  <2> DEFINE b == Vp!build_presentation_request(input)
  <2>2. b # None => BuiltAgrees(b)
    BY BuildAgrees
  <2> HIDE DEF b
  <2>3. artifacts' = [artifacts EXCEPT ![n] = b]
    BY <2>1 DEF b
  <2>4. \A m \in Nonces : artifacts'[m] = IF m = n THEN b ELSE artifacts[m]
    BY <2>3 DEF ArtifactsAgree
  <2>5. artifacts' = [m \in Nonces |-> artifacts'[m]]
    BY <2>3 DEF ArtifactsAgree
  <2> QED
    BY <2>2, <2>4, <2>5 DEF ArtifactsAgree
<1> QED
  BY <1>1, <1>2 DEF Vp!Next, Vp!VpNext, Vp!ZkNext, Vp!vars, Vp!vp, Vp!zk, Vp!ReadLink, Vp!Submit, Vp!Verify,
                    Vp!CreateZk, Vp!BindZk, Vp!Prove, Vp!VerifyZk, Vp!Tick

\* The presentation definition and the DCQL query of one request agree: they
\* name the same credentials in the same order, each of one family; the query
\* asks for no claim the definition leaves out, and both ask for every required
\* claim: for any requirements, mappings and wallet formats
\* (presentation_request.rs, build_presentation_request).
THEOREM QueriesCorrect == Vp!Spec => []QueriesAgree
<1>1. Vp!Init => ArtifactsAgree
  BY DEF Vp!Init, ArtifactsAgree
<1>2. ArtifactsAgree => QueriesAgree
  BY Zenon DEF ArtifactsAgree, BuiltAgrees, Agree, QueriesAgree, Vp!QueriesAgree
<1> QED
  BY <1>1, <1>2, ArtifactsStep, PTL DEF Vp!Spec

-----------------------------------------------------------------------------
(* SD-JWT credentials: what is hidden, shown and accepted.                 *)

\* A credential in circulation is what its issuer was asked for: hidden is
\* exactly what was selected, everything else is in the clear.
CredentialsAsAsked ==
    \A c \in credentials :
        /\ c.id \in 1 .. Len(requests) /\ c.by = requests[c.id].by
        /\ c.sd = requests[c.id].selected \cap requests[c.id].claims
        /\ c.clear = requests[c.id].claims \ c.sd

\* A disclosure is a name of some credential. A key binding was made by the holder of its own presentation, for a
\* credential its issuer signed, and not in the future.
ShownAsPrepared ==
    \A p \in shown :
        /\ p.cred \in credentials
        /\ \A d \in p.disclosures : d = [id |-> d.id, name |-> d.name]
        /\ p.kb # None =>
            /\ p.cred.by = p.cred.issuer
            /\ p.kb.key = p.cred.cnf /\ p.cred.cnf \in Holders
            /\ p.kb.hash = <<p.cred, p.disclosures>>
            /\ p.kb.iat \in Nat /\ p.kb.iat <= day

SdInv ==
    /\ day \in Nat /\ requests \in Seq([issuer : Issuers, by : Issuers, claims : SUBSET ClaimNames, selected : SUBSET STRING])
    /\ CredentialsAsAsked /\ ShownAsPrepared /\ Sd!AcceptedAsShown

\* The first place at which a list holds a value exists.
LEMMA FirstPlace ==
    ASSUME NEW s \in Seq(STRING), NEW k \in DOMAIN s
    PROVE  \E j \in DOMAIN s : s[j] = s[k] /\ \A i \in 1 .. j - 1 : s[i] # s[j]
<1> DEFINE S == {j \in DOMAIN s : s[j] = s[k]}
           Below == {ss \in Nat \X Nat : ss[1] < ss[2]}
<1>1. OpToRel(<, Nat) = Below
  BY Zenon DEF OpToRel
<1>2. S \subseteq Nat /\ S # {}
  OBVIOUS
<1>3. \E x \in S : \A y \in S : <<y, x>> \notin Below
  <2> HIDE DEF S, Below
  <2> QED BY <1>1, <1>2, WFMin, NatLessThanWellFounded, Zenon
<1>4. PICK x \in S : \A y \in S : <<y, x>> \notin Below
  BY <1>3
<1>5. ASSUME NEW i \in 1 .. x - 1 PROVE s[i] # s[x]
  <2>1. x \in 1 .. Len(s) /\ i \in 1 .. Len(s) /\ i < x /\ i \in Nat /\ x \in Nat /\ s[x] = s[k]
    OBVIOUS
  <2>2. <<i, x>> \in Below
    BY <2>1
  <2>3. i \notin S
    BY <1>4, <2>2
  <2> QED
    BY <2>1, <2>3
<1> QED
  BY <1>5

\* plan_sd_jwt_disclosures hides every selected claim that is there, also one
\* the selection repeats, and nothing else.
LEMMA HiddenIsSelected ==
    ASSUME NEW claims, NEW s \in Seq(STRING)
    PROVE  Sd!Hidden(claims, s) = Sd!ToSet(s) \cap claims
<1>1. ASSUME NEW n \in Sd!ToSet(s) \cap claims PROVE n \in Sd!Hidden(claims, s)
  <2>1. PICK k \in DOMAIN s : n = s[k]
    BY <1>1 DEF Sd!ToSet
  <2>2. PICK j \in DOMAIN s : s[j] = s[k] /\ \A i \in 1 .. j - 1 : s[i] # s[j]
    BY FirstPlace
  <2> QED
    BY <2>1, <2>2 DEF Sd!Hidden, Sd!Planned
<1> QED
  BY <1>1 DEF Sd!Hidden, Sd!Planned, Sd!ToSet

\* Issuing adds one credential, which is what was asked for, and leaves the
\* earlier ones alone.
LEMMA IssueInv ==
    ASSUME SdInv, NEW i \in Issuers, NEW by \in Issuers, NEW cnf \in Holders \cup {None},
           NEW claims \in SUBSET ClaimNames, NEW s \in Selections, Sd!Issue(i, by, cnf, claims, s)
    PROVE  SdInv'
<1> DEFINE r == [issuer |-> i, by |-> by, claims |-> claims, selected |-> Sd!ToSet(s)]
           c == Sd!Payload(Len(requests) + 1, i, by, cnf, claims, s)
           R == [issuer : Issuers, by : Issuers, claims : SUBSET ClaimNames, selected : SUBSET STRING]
<1>1. /\ requests' = Append(requests, r) /\ credentials' = credentials \cup {c}
      /\ UNCHANGED <<day, shown, taken>>
  BY DEF Sd!Issue
<1>2. s \in Seq(STRING) /\ Sd!ToSet(s) \subseteq STRING
  BY SelectionAssumption DEF Sd!SdJwtAssumption, Sd!ToSet
<1>3. r \in R
  BY <1>2
<1>4. /\ requests \in Seq(R) /\ requests' \in Seq(R)
      /\ Len(requests') = Len(requests) + 1 /\ Len(requests) \in Nat
      /\ requests'[Len(requests) + 1] = r
      /\ \A k \in 1 .. Len(requests) : requests'[k] = requests[k]
  <2> HIDE DEF r
  <2> QED BY <1>1, <1>3 DEF SdInv
<1>5. /\ c.id = Len(requests) + 1 /\ c.by = by
      /\ c.sd = Sd!ToSet(s) \cap claims /\ c.clear = claims \ c.sd
  BY <1>2, HiddenIsSelected DEF Sd!Payload
<1>6. CredentialsAsAsked'
  <2> SUFFICES ASSUME NEW d \in credentials'
               PROVE  /\ d.id \in 1 .. Len(requests') /\ d.by = requests'[d.id].by
                      /\ d.sd = requests'[d.id].selected \cap requests'[d.id].claims
                      /\ d.clear = requests'[d.id].claims \ d.sd
    BY DEF CredentialsAsAsked
  <2>1. CASE d \in credentials
    BY <2>1, <1>4 DEF SdInv, CredentialsAsAsked
  <2>2. CASE d = c
    <3> HIDE DEF c
    <3> QED BY <2>2, <1>4, <1>5
  <2> QED
    BY <2>1, <2>2, <1>1
<1>7. ShownAsPrepared'
  BY <1>1 DEF SdInv, ShownAsPrepared
<1>8. Sd!AcceptedAsShown'
  <2> SUFFICES ASSUME NEW a \in taken'
               PROVE  /\ a.claims \subseteq requests'[a.cred.id].claims /\ requests'[a.cred.id].by = a.cred.issuer
                      /\ \E p \in shown' : /\ p.kb # None /\ p.cred = a.cred
                                           /\ p.kb.aud = a.aud /\ p.kb.nonce = a.nonce
                                           /\ a.at - p.kb.iat <= Window
                                           /\ Sd!VerifiedClaims(p) = a.claims
    BY DEF Sd!AcceptedAsShown, Sd!VerifiedClaims
  <2>1. /\ a.claims \subseteq requests[a.cred.id].claims /\ requests[a.cred.id].by = a.cred.issuer
        /\ \E p \in shown : /\ p.kb # None /\ p.cred = a.cred
                            /\ p.kb.aud = a.aud /\ p.kb.nonce = a.nonce
                            /\ a.at - p.kb.iat <= Window
                            /\ Sd!VerifiedClaims(p) = a.claims
    BY <1>1 DEF SdInv, Sd!AcceptedAsShown
  <2>2. a.cred \in credentials
    BY <2>1 DEF SdInv, ShownAsPrepared
  <2>3. requests'[a.cred.id] = requests[a.cred.id]
    BY <2>2, <1>4 DEF SdInv, CredentialsAsAsked
  <2> QED
    BY <2>1, <2>3, <1>1
<1> QED
  BY <1>1, <1>4, <1>6, <1>7, <1>8 DEF SdInv

\* A step that only adds well-made presentations disturbs nothing else.
LEMMA ShownGrows ==
    ASSUME SdInv, shown \subseteq shown', ShownAsPrepared',
           UNCHANGED <<day, requests, credentials, taken>>
    PROVE  SdInv'
  BY DEF SdInv, CredentialsAsAsked, Sd!AcceptedAsShown, Sd!VerifiedClaims

\* The wallet binds a presentation of its own credential, under its own key,
\* once the resolved key of the issuer has verified the credential.
LEMMA PresentInv ==
    ASSUME SdInv, NEW h \in Holders, NEW c \in credentials, NEW names, NEW aud, NEW n, NEW i \in Issuers,
           Sd!Present(h, c, names, aud, n, [issuer |-> i, key |-> i])
    PROVE  SdInv'
<1> DEFINE disclosures == {[id |-> c.id, name |-> m] : m \in names \cap c.sd}
           kb == Sd!KeyBinding(h, c, disclosures, aud, n)
           q == [cred |-> c, disclosures |-> disclosures, kb |-> kb]
<1>1. /\ c.by = c.issuer /\ c.cnf = h
      /\ shown' = shown \cup {q} /\ UNCHANGED <<day, requests, credentials, taken>>
  BY DEF Sd!Present, Sd!MayPresent
<1>2. kb.key = h /\ kb.hash = <<c, disclosures>> /\ kb.iat = day
  BY DEF Sd!KeyBinding
<1>3. /\ q.cred = c /\ q.disclosures = disclosures /\ q.kb = kb
      /\ \A d \in disclosures : d = [id |-> d.id, name |-> d.name]
  OBVIOUS
<1>4. ShownAsPrepared'
  <2> HIDE DEF q, kb, disclosures
  <2> QED BY <1>1, <1>2, <1>3 DEF SdInv, ShownAsPrepared
<1> QED
  <2> HIDE DEF q
  <2> QED BY <1>1, <1>4, ShownGrows

\* A presentation without key binding adds none.
LEMMA PresentUnboundInv ==
    ASSUME SdInv, NEW c \in credentials, NEW names, Sd!PresentUnbound(c, names)
    PROVE  SdInv'
<1> DEFINE q == [cred |-> c, kb |-> None, disclosures |-> {[id |-> c.id, name |-> m] : m \in names}]
<1>1. shown' = shown \cup {q} /\ UNCHANGED <<day, requests, credentials, taken>>
  BY DEF Sd!PresentUnbound
<1>2. q.cred = c /\ q.kb = None /\ \A d \in q.disclosures : d = [id |-> d.id, name |-> d.name]
  OBVIOUS
<1>3. ShownAsPrepared'
  <2> HIDE DEF q
  <2> QED BY <1>1, <1>2 DEF SdInv, ShownAsPrepared
<1> QED
  <2> HIDE DEF q
  <2> QED BY <1>1, <1>3, ShownGrows

\* What passes verify_sd_jwt was put together from what was sent, and the hash
\* in the key binding leaves one presentation it can be.
LEMMA VerifyInv ==
    ASSUME SdInv, NEW aud \in Audiences, NEW n \in Challenges, NEW p \in Sd!Sent, Sd!Verify(aud, n, p)
    PROVE  SdInv'
<1> DEFINE a == [aud |-> aud, nonce |-> n, cred |-> p.cred, claims |-> Sd!VerifiedClaims(p), at |-> day]
<1>1. /\ p.cred.by = p.cred.issuer /\ p.kb # None
      /\ p.kb.hash = <<p.cred, p.disclosures>>
      /\ p.kb.aud = aud /\ p.kb.nonce = n /\ day - p.kb.iat <= Window
      /\ taken' = taken \cup {a} /\ UNCHANGED <<day, requests, credentials, shown>>
  BY DEF Sd!Verify, Sd!Bound
<1>2. PICK q \in shown : p.kb = q.kb
  BY <1>1 DEF Sd!Sent
<1>3. q.cred = p.cred /\ q.disclosures = p.disclosures
  BY <1>1, <1>2 DEF SdInv, ShownAsPrepared
<1>4. Sd!VerifiedClaims(q) = Sd!VerifiedClaims(p)
  BY <1>3 DEF Sd!VerifiedClaims
<1>5. p.cred \in credentials
  BY <1>3 DEF SdInv, ShownAsPrepared
<1>6. Sd!VerifiedClaims(p) \subseteq requests[p.cred.id].claims /\ requests[p.cred.id].by = p.cred.issuer
  BY <1>1, <1>5 DEF SdInv, CredentialsAsAsked, Sd!VerifiedClaims
<1>7. /\ a.cred = p.cred /\ a.claims = Sd!VerifiedClaims(p) /\ a.aud = aud /\ a.nonce = n /\ a.at = day
  OBVIOUS
<1>8. Sd!AcceptedAsShown'
  <2> HIDE DEF a
  <2> SUFFICES ASSUME NEW b \in taken'
               PROVE  /\ b.claims \subseteq requests[b.cred.id].claims /\ requests[b.cred.id].by = b.cred.issuer
                      /\ \E o \in shown : /\ o.kb # None /\ o.cred = b.cred
                                          /\ o.kb.aud = b.aud /\ o.kb.nonce = b.nonce
                                          /\ b.at - o.kb.iat <= Window
                                          /\ Sd!VerifiedClaims(o) = b.claims
    BY <1>1 DEF Sd!AcceptedAsShown, Sd!VerifiedClaims
  <2>1. CASE b \in taken
    BY <2>1 DEF SdInv, Sd!AcceptedAsShown
  <2>2. CASE b = a
    BY <2>2, <1>1, <1>2, <1>3, <1>4, <1>6, <1>7
  <2> QED
    BY <2>1, <2>2, <1>1
<1> QED
  <2> HIDE DEF a
  <2> QED BY <1>1, <1>8 DEF SdInv, CredentialsAsAsked, ShownAsPrepared

\* Every step keeps the invariant.
LEMMA SdStep == SdInv /\ [Sd!Next]_Sd!vars => SdInv'
<1> SUFFICES ASSUME SdInv, [Sd!Next]_Sd!vars PROVE SdInv'
  OBVIOUS
<1>1. CASE Sd!Tick
  BY <1>1 DEF Sd!Tick, SdInv, CredentialsAsAsked, ShownAsPrepared, Sd!AcceptedAsShown, Sd!VerifiedClaims
<1>2. CASE UNCHANGED Sd!vars
  BY <1>2 DEF Sd!vars, SdInv, CredentialsAsAsked, ShownAsPrepared, Sd!AcceptedAsShown, Sd!VerifiedClaims
<1>3. CASE \E h \in Holders, c \in credentials, names \in SUBSET ClaimNames, aud \in Audiences, n \in Challenges :
             \E r \in {[issuer |-> i, key |-> i] : i \in Issuers} : Sd!Present(h, c, names, aud, n, r)
  BY <1>3, PresentInv
<1> QED
  BY <1>1, <1>2, <1>3, IssueInv, PresentUnboundInv, VerifyInv DEF Sd!Next

\* A claim the issuer was asked to hide is seen only where it was disclosed; a
\* verifier accepts what the holder showed it, for its request and not long ago,
\* of what the issuer certified; and a presentation a wallet prepared passes
\* within the window (sd_jwt.rs, plan_sd_jwt_disclosures and verify_sd_jwt;
\* wallet_sd_jwt.rs, prepare_verified_presentation), however presentations are
\* taken apart and recombined on the way.
THEOREM SdJwtsCorrect == Sd!Spec => []SdJwtsHold
<1>1. Sd!Init => SdInv
  BY DEF Sd!Init, SdInv, CredentialsAsAsked, ShownAsPrepared, Sd!AcceptedAsShown
<1>2. SdInv => SdJwtsHold
  <2> SUFFICES ASSUME SdInv PROVE SdJwtsHold
    OBVIOUS
  <2>1. Sd!HiddenUntilShown
    <3> SUFFICES ASSUME NEW p \in shown, NEW n \in requests[p.cred.id].selected \cap requests[p.cred.id].claims,
                        n \in Sd!VerifiedClaims(p)
                 PROVE  [id |-> p.cred.id, name |-> n] \in p.disclosures
      BY DEF Sd!HiddenUntilShown
    <3>1. n \notin p.cred.clear
      BY DEF SdInv, CredentialsAsAsked, ShownAsPrepared
    <3>2. PICK d \in p.disclosures : d.id = p.cred.id /\ d.name = n
      BY <3>1 DEF Sd!VerifiedClaims
    <3> QED
      BY <3>2 DEF SdInv, ShownAsPrepared
  <2>2. Sd!PreparedIsAccepted
    <3> SUFFICES ASSUME NEW p \in shown, p.kb # None, day - p.kb.iat <= Window
                 PROVE  p.cred.by = p.cred.issuer /\ Sd!Bound(p, p.kb.aud, p.kb.nonce)
      BY DEF Sd!PreparedIsAccepted
    <3>1. Window \in Nat /\ None \notin Holders
      BY SelectionAssumption DEF Sd!SdJwtAssumption
    <3>2. p.kb.iat - day <= Window
      BY <3>1 DEF SdInv, ShownAsPrepared
    <3> QED
      BY <3>1, <3>2 DEF SdInv, ShownAsPrepared, Sd!Bound
  <2> QED
    BY <2>1, <2>2 DEF SdInv, SdJwtsHold
<1> QED
  BY <1>1, <1>2, SdStep, PTL DEF Sd!Spec

-----------------------------------------------------------------------------
(* Flows.                                                                  *)

\* The steps that some run leads to after a step.
Ahead(g, s) ==
    {t \in Flows!Declared(g) :
        \A Y \in SUBSET Flows!Declared(g) :
            Flows!Successors(g, s) \subseteq Y /\ (\A y \in Y : Flows!Successors(g, y) \subseteq Y) => t \in Y}

\* One transition, or one more after or before others.
LEMMA AheadGrows ==
    ASSUME NEW g, \A s : Flows!Successors(g, s) \subseteq Flows!Declared(g), NEW a, NEW b, NEW c
    PROVE  /\ b \in Flows!Successors(g, a) => b \in Ahead(g, a)
           /\ b \in Ahead(g, a) /\ c \in Flows!Successors(g, b) => c \in Ahead(g, a)
           /\ b \in Flows!Successors(g, a) /\ c \in Ahead(g, b) => c \in Ahead(g, a)
  <1>1. b \in Flows!Successors(g, a) => b \in Ahead(g, a)
    BY DEF Ahead
  <1>2. b \in Ahead(g, a) /\ c \in Flows!Successors(g, b) => c \in Ahead(g, a)
    BY DEF Ahead
  <1>3. b \in Flows!Successors(g, a) /\ c \in Ahead(g, b) => c \in Ahead(g, a)
    BY DEF Ahead
  <1> QED
    BY <1>1, <1>2, <1>3

\* Where the topological pass takes every step, none is ahead of itself: the
\* steps that are not form a set the pass cannot leave.
LEMMA PeeledIsAcyclic ==
    ASSUME NEW g, \A s : Flows!Successors(g, s) \subseteq Flows!Declared(g),
           Flows!Peeled(g) = Flows!Declared(g), NEW s \in Flows!Declared(g)
    PROVE  s \notin Ahead(g, s)
  <1> DEFINE X == {t \in Flows!Declared(g) : t \notin Ahead(g, t)}
             before(t) == {p \in Flows!Declared(g) : t \in Flows!Successors(g, p)}
  <1>1. ASSUME NEW t \in Flows!Declared(g), before(t) \subseteq X PROVE t \in X
    <2> SUFFICES ASSUME t \in Ahead(g, t) PROVE FALSE
      OBVIOUS
    <2> DEFINE Y == {y \in Flows!Declared(g) : \E p \in {t} \cup Ahead(g, t) : y \in Flows!Successors(g, p)}
    <2>1. Flows!Successors(g, t) \subseteq Y
      OBVIOUS
    <2>2. ASSUME NEW y \in Y PROVE Flows!Successors(g, y) \subseteq Y
      <3>1. PICK p \in {t} \cup Ahead(g, t) : y \in Flows!Successors(g, p)
        OBVIOUS
      <3>2. y \in Ahead(g, t)
        BY <3>1, AheadGrows
      <3> QED
        BY <3>2
    <2>3. t \in Y
      BY <2>1, <2>2 DEF Ahead
    <2>4. PICK p \in {t} \cup Ahead(g, t) : t \in Flows!Successors(g, p)
      BY <2>3
    <2>5. p \in Flows!Declared(g) /\ p \in Ahead(g, p)
      BY <2>4, AheadGrows DEF Ahead
    <2> QED
      BY <1>1, <2>4, <2>5
  <1> HIDE DEF X
  <1>2. \A t \in Flows!Declared(g) : before(t) \subseteq X => t \in X
    BY <1>1
  <1>3. X \in SUBSET Flows!Declared(g)
    BY DEF X
  <1>4. s \in X
    BY <1>2, <1>3 DEF Flows!Peeled
  <1> QED
    BY <1>4 DEF X

\* The trail only goes ahead, in a graph that passed.
TrailInv ==
    /\ graph \in Graphs /\ trail \in Seq(Flows!Declared(graph))
    /\ trail # <<>> => Flows!validate_graph(graph)
    /\ step # None => trail # <<>> /\ step = trail[Len(trail)]
    /\ \A j, k \in 1 .. Len(trail) : j < k => trail[k] \in Ahead(graph, trail[j])

\* The transitions of a graph that passed stay among its steps.
LEMMA SuccessorsDeclared ==
    ASSUME NEW g, Flows!validate_graph(g)
    PROVE  \A s : Flows!Successors(g, s) \subseteq Flows!Declared(g)
  BY DEF Flows!validate_graph, Flows!Successors

\* The step that is selected is a successor.
LEMMA SelectedIsNext ==
    ASSUME Flows!FlowAssumption, NEW g \in Graphs, Flows!validate_graph(g), NEW s, NEW o,
           Flows!select_next_step(g, s, o) # None
    PROVE  Flows!select_next_step(g, s, o) \in Flows!Successors(g, s)
  <1> DEFINE fits == {k \in DOMAIN g.transitions : g.transitions[k].from = s /\ g.transitions[k].outcome = o}
  <1>1. fits # {} /\ Flows!select_next_step(g, s, o) = g.transitions[Flows!Min(fits)].to
    BY DEF Flows!select_next_step
  <1>2. PICK k \in fits : TRUE
    BY <1>1
  <1>3. \A j \in fits : j = k
    BY DEF Flows!validate_graph
  <1>4. k \in Int
    BY DEF Flows!FlowAssumption
  <1>5. fits = {k}
    BY <1>3
  <1> HIDE DEF fits
  <1>6. Flows!Min(fits) = k
    BY <1>4, <1>5 DEF Flows!Min
  <1> QED
    BY <1>1, <1>6 DEF Flows!Successors, fits

\* Every step of an instance.
LEMMA TrailStep ==
    ASSUME Flows!FlowAssumption, TrailInv, [Flows!Next]_Flows!vars
    PROVE  TrailInv'
  <1>1. CASE UNCHANGED <<graph, step, trail>>
    BY <1>1 DEF TrailInv
  <1>2. CASE Flows!Enter
    <2>1. /\ Flows!validate_graph(graph) /\ graph' = graph
          /\ step' = graph.entry /\ trail' = <<graph.entry>>
      BY <1>2 DEF Flows!Enter
    <2>2. graph.entry \in Flows!Declared(graph)
      BY <2>1 DEF Flows!validate_graph
    <2> QED
      BY <2>1, <2>2 DEF TrailInv
  <1>3. CASE Flows!Report
    <2>1. Flows!validate_graph(graph) /\ step # None /\ graph' = graph
      BY <1>3 DEF Flows!Report
    <2>2. PICK o \in Outcomes :
             LET to == Flows!select_next_step(graph, step, o) IN
             IF to # None THEN step' = to /\ trail' = Append(trail, to) ELSE UNCHANGED <<step, trail>>
      BY <1>3 DEF Flows!Report
    <2> DEFINE to == Flows!select_next_step(graph, step, o)
    <2>3. CASE to = None
      BY <2>1, <2>2, <2>3, <1>1
    <2>4. CASE to # None
      <3>1. to \in Flows!Successors(graph, step)
        BY <2>1, <2>4, SelectedIsNext DEF TrailInv
      <3>2. \A s : Flows!Successors(graph, s) \subseteq Flows!Declared(graph)
        BY <2>1, SuccessorsDeclared
      <3> HIDE DEF to
      <3>3. to \in Flows!Declared(graph) /\ to \in Ahead(graph, step)
        BY <3>1, <3>2, AheadGrows
      <3>4. /\ trail \in Seq(Flows!Declared(graph)) /\ trail # <<>> /\ step = trail[Len(trail)]
        BY <2>1 DEF TrailInv
      <3>5. \A j \in 1 .. Len(trail) : to \in Ahead(graph, trail[j])
        <4> TAKE j \in 1 .. Len(trail)
        <4>1. CASE j = Len(trail)
          BY <4>1, <3>3, <3>4
        <4>2. CASE j < Len(trail)
          <5>1. step \in Ahead(graph, trail[j])
            BY <4>2, <3>4 DEF TrailInv
          <5> QED
            BY <5>1, <3>1, <3>2, AheadGrows
        <4> QED
          BY <4>1, <4>2, <3>4
      <3>6. /\ trail' = Append(trail, to) /\ step' = to
        BY <2>2, <2>4 DEF to
      <3>7. /\ trail' \in Seq(Flows!Declared(graph)) /\ trail' # <<>> /\ Len(trail') = Len(trail) + 1
            /\ trail'[Len(trail')] = to
            /\ \A j \in 1 .. Len(trail) : trail'[j] = trail[j]
        BY <3>3, <3>4, <3>6
      <3>8. \A j, k \in 1 .. Len(trail') : j < k => trail'[k] \in Ahead(graph, trail'[j])
        <4> SUFFICES ASSUME NEW j \in 1 .. Len(trail'), NEW k \in 1 .. Len(trail'), j < k
                     PROVE  trail'[k] \in Ahead(graph, trail'[j])
          OBVIOUS
        <4>1. j \in 1 .. Len(trail) /\ (k \in 1 .. Len(trail) \/ k = Len(trail'))
          BY <3>4, <3>7
        <4> QED
          BY <4>1, <3>5, <3>7 DEF TrailInv
      <3> QED
        BY <2>1, <3>6, <3>7, <3>8 DEF TrailInv
    <2> QED
      BY <2>3, <2>4
  <1> QED
    BY <1>1, <1>2, <1>3 DEF Flows!Next, Flows!vars, Flows!Move

\* In a graph that passed no step is taken twice, whatever the steps report:
\* for any graphs, of any size (flow.rs, validate_graph, select_next_step).
THEOREM FlowsEnd == Flows!Spec => []NoStepTwice
  <1> USE GraphAssumption
  <1>1. Flows!Init => TrailInv
    BY DEF Flows!Init, TrailInv
  <1>2. TrailInv /\ [Flows!Next]_Flows!vars => TrailInv'
    BY TrailStep
  <1>3. TrailInv => NoStepTwice
    <2> SUFFICES ASSUME TrailInv, NEW j \in DOMAIN trail, NEW k \in DOMAIN trail, trail[j] = trail[k], j # k
                 PROVE  FALSE
      BY DEF NoStepTwice, Flows!NoStepTwice
    <2>1. /\ trail \in Seq(Flows!Declared(graph)) /\ trail # <<>>
          /\ j \in 1 .. Len(trail) /\ k \in 1 .. Len(trail)
      BY DEF TrailInv
    <2>2. Flows!validate_graph(graph)
      BY <2>1 DEF TrailInv
    <2>3. trail[j] \in Flows!Declared(graph) /\ trail[j] \notin Ahead(graph, trail[j])
      BY <2>1, <2>2, SuccessorsDeclared, PeeledIsAcyclic DEF Flows!validate_graph
    <2> QED
      BY <2>1, <2>3 DEF TrailInv
  <1> QED
    BY <1>1, <1>2, <1>3, PTL DEF Flows!Spec

-----------------------------------------------------------------------------
(* Reading a passport chip.                                                *)

KeyShape == [ifd : Nat, ic : Nat, peer : Nat]
HandshakeShape == [ifd : Nat, ic : Nat, secret : Chip!Secrets]

\* The shape of what the two sides hold and have sent.
Shapes ==
    /\ drawn \in [ifd : Nat, ic : Nat]
    /\ handshake \in HandshakeShape
    /\ session \in [keys : KeyShape, ssc : Nat]
    /\ chip \in [challenge : Nat, keys : KeyShape, ssc : Nat]
    /\ auths \subseteq [from : {"reader", "chip"}, of : HandshakeShape]
    /\ cmds \subseteq [keys : KeyShape, ssc : Nat, what : Nat \X Nat]

\* A nonce of the reader is of one handshake, and of one session's keys: those
\* of a handshake that is not finished are of no command yet.
Fresh ==
    /\ session.keys = Chip!NoKeys \/ session.keys.ifd \in 1 .. drawn.ifd
    /\ \A c \in cmds : c.keys.ifd \in 1 .. drawn.ifd
    /\ handshake # Chip!NoHandshake => /\ handshake.ifd = drawn.ifd /\ handshake.ifd > 0
                                /\ session = Chip!NoSession /\ \A c \in cmds : c.keys.ifd < handshake.ifd

\* Commands begin where they should, follow each other, and end where they
\* should.
Chained(commands, from, to) ==
    /\ commands \in Seq(Nat \X Nat) /\ (commands = <<>> => from = to)
    /\ commands # <<>> =>
           /\ commands[1][1] = from
           /\ \A k \in 1 .. Len(commands) : commands[k][1] + commands[k][2] <= to
           /\ \A k \in 1 .. Len(commands) - 1 : commands[k + 1][1] = commands[k][1] + commands[k][2]
           /\ commands[Len(commands)][1] + commands[Len(commands)][2] = to

\* The bytes read are the first of the range, and the commands to come cover
\* the others.
Covers ==
    /\ range \in Nat \X Nat /\ got \in Seq(Nat) /\ Len(got) <= range[2]
    /\ \A k \in 1 .. Len(got) : got[k] = range[1] + k - 1
    /\ Chained(todo, range[1] + Len(got), range[1] + range[2])

\* A command under the session's keys is not ahead of its counter, and the one
\* at the counter is the next to be answered.
Latest ==
    \A c \in cmds : session.keys # Chip!NoKeys /\ c.keys = session.keys =>
        /\ c.ssc <= session.ssc
        /\ c.ssc = session.ssc => todo # <<>> /\ c.what = Head(todo)

\* The counter has not passed the answer to the last command.
Awaited ==
    \A c \in cmds :
        c.keys = session.keys /\ (\A d \in cmds : d.keys = c.keys => d.ssc <= c.ssc) =>
            session.ssc \in {c.ssc, c.ssc + 1}

\* The chip answers commands it was sent.
Answered == \A r \in resps : \E c \in cmds : c.keys = r.keys /\ c.ssc + 1 = r.ssc /\ c.what = r.what

\* What a chip sends of a handshake it has for the document's own password.
Genuine == \A a \in auths : a.from = "chip" => a.of.secret = "document"

ChipInv == Shapes /\ Fresh /\ Covers /\ Latest /\ Awaited /\ Answered /\ Genuine /\ Chip!SessionIsShared

\* The commands for a range cover it.
LEMMA CommandsCover ==
    ASSUME Chip!ChipAssumption, NEW offset \in Nat, NEW length \in Nat
    PROVE  Chained(Chip!ReadBinaryCommands(offset, length), offset, offset + length)
  <1> DEFINE commands == Chip!ReadBinaryCommands(offset, length)
             n == (length + Chunk - 1) \div Chunk
             done(i) == (i - 1) * Chunk
             size(i) == IF length - done(i) < Chunk THEN length - done(i) ELSE Chunk
  <1>1. Chunk \in Nat /\ Chunk > 0
    BY DEF Chip!ChipAssumption
  <1>2. n \in Nat /\ n * Chunk <= length + Chunk - 1 /\ length + Chunk - 1 < (n + 1) * Chunk
    BY <1>1
  <1>3. commands = [i \in 1 .. n |-> <<offset + done(i), size(i)>>]
    BY DEF Chip!ReadBinaryCommands
  <1> HIDE DEF commands, n
  <1>4. \A i \in 1 .. n : done(i) \in Nat /\ done(i) < length
    <2> TAKE i \in 1 .. n
    <2>1. (i - 1) * Chunk <= (n - 1) * Chunk
      BY <1>1, <1>2
    <2>2. (n - 1) * Chunk = n * Chunk - Chunk /\ n * Chunk \in Int
      BY <1>1, <1>2
    <2>3. (i - 1) * Chunk \in Nat
      BY <1>1, <1>2
    <2> QED
      BY <1>1, <1>2, <2>1, <2>2, <2>3
  <1>5. \A i \in 1 .. n : i + 1 \in 1 .. n => done(i + 1) = done(i) + Chunk
    BY <1>1, <1>2
  <1>6. n > 0 => done(n) + Chunk >= length
    <2>1. (n + 1) * Chunk = done(n) + 2 * Chunk
      BY <1>1, <1>2
    <2> QED
      BY <1>1, <1>2, <2>1
  <1>7. n = 0 => length = 0
    BY <1>1, <1>2
  <1> HIDE DEF done
  <1>8. done(1) = 0
    BY <1>1 DEF done
  <1>9. \A i \in 1 .. n : /\ size(i) \in Nat /\ done(i) + size(i) <= length
                          /\ i + 1 \in 1 .. n => done(i + 1) = done(i) + size(i)
                          /\ i = n => done(i) + size(i) = length
    BY <1>1, <1>2, <1>4, <1>5, <1>6
  <1> HIDE DEF size
  <1>10. commands \in Seq(Nat \X Nat) /\ Len(commands) = n
    <2>1. \A i \in 1 .. n : <<offset + done(i), size(i)>> \in Nat \X Nat
      BY <1>4, <1>9
    <2> QED
      BY <1>2, <1>3, <2>1
  <1>11. \A i \in 1 .. n : commands[i][1] = offset + done(i) /\ commands[i][2] = size(i)
    BY <1>3
  <1>12. CASE n = 0
    BY <1>7, <1>10, <1>12 DEF commands, Chained
  <1>13. CASE n > 0
    <2>1. commands # <<>>
      BY <1>10, <1>13
    <2>2. 1 \in 1 .. n /\ n \in 1 .. n
      BY <1>2, <1>13
    <2>3. commands[1][1] = offset
      BY <2>2, <1>8, <1>11
    <2>4. \A k \in 1 .. n : commands[k][1] + commands[k][2] <= offset + length
      BY <1>4, <1>9, <1>11
    <2>5. \A k \in 1 .. n - 1 : commands[k + 1][1] = commands[k][1] + commands[k][2]
      <3> TAKE k \in 1 .. n - 1
      <3>1. k \in 1 .. n /\ k + 1 \in 1 .. n
        BY <1>2
      <3>2. done(k + 1) = done(k) + size(k) /\ done(k) \in Nat /\ size(k) \in Nat
        BY <1>4, <1>9, <3>1
      <3> QED
        BY <1>11, <3>1, <3>2
    <2>6. commands[n][1] + commands[n][2] = offset + length
      BY <2>2, <1>4, <1>9, <1>11
    <2> QED
      BY <2>1, <2>3, <2>4, <2>5, <2>6, <1>10 DEF commands, Chained
  <1> QED
    BY <1>2, <1>12, <1>13


\* Without the first of them, the commands begin where it ended.
LEMMA ChainGoesOn ==
    ASSUME NEW commands, NEW from \in Nat, NEW to \in Nat, Chained(commands, from, to), commands # <<>>
    PROVE  /\ Head(commands) \in Nat \X Nat /\ Head(commands)[1] = from /\ from + Head(commands)[2] <= to
           /\ Chained(Tail(commands), from + Head(commands)[2], to)
  <1> DEFINE rest == Tail(commands)
             n == Len(commands)
  <1>1. /\ commands \in Seq(Nat \X Nat) /\ n \in Nat /\ n > 0 /\ Head(commands) = commands[1]
        /\ \A k \in 1 .. n : commands[k] \in Nat \X Nat
    BY DEF Chained
  <1>2. /\ commands[1][1] = from
        /\ \A k \in 1 .. n : commands[k][1] + commands[k][2] <= to
        /\ \A k \in 1 .. n - 1 : commands[k + 1][1] = commands[k][1] + commands[k][2]
        /\ commands[n][1] + commands[n][2] = to
    BY DEF Chained
  <1>3. 1 \in 1 .. n /\ n \in 1 .. n
    BY <1>1
  <1>4. Head(commands) \in Nat \X Nat /\ Head(commands)[1] = from /\ from + Head(commands)[2] <= to
    BY <1>1, <1>2, <1>3
  <1>5. rest \in Seq(Nat \X Nat) /\ Len(rest) = n - 1 /\ \A k \in 1 .. n - 1 : rest[k] = commands[k + 1]
    BY <1>1
  <1> HIDE DEF rest, n
  <1>6. CASE rest = <<>>
    <2>1. n = 1
      BY <1>1, <1>5, <1>6
    <2> QED
      BY <2>1, <1>1, <1>2, <1>5, <1>6 DEF Chained, rest
  <1>7. CASE rest # <<>>
    <2>1. n - 1 \in 1 .. n - 1 /\ 1 \in 1 .. n - 1 /\ Len(rest) = n - 1 /\ n - 1 + 1 = n
      BY <1>1, <1>5, <1>7
    <2>2. rest[1][1] = from + Head(commands)[2]
      BY <2>1, <1>1, <1>2, <1>5
    <2>3. \A k \in 1 .. n - 1 : rest[k][1] + rest[k][2] <= to
      <3> TAKE k \in 1 .. n - 1
      <3>1. k + 1 \in 1 .. n
        BY <1>1
      <3> QED
        BY <3>1, <1>2, <1>5
    <2>4. \A k \in 1 .. n - 1 - 1 : rest[k + 1][1] = rest[k][1] + rest[k][2]
      <3> TAKE k \in 1 .. n - 1 - 1
      <3>1. k + 1 \in 1 .. n - 1 /\ k \in 1 .. n - 1
        BY <1>1
      <3> QED
        BY <3>1, <1>2, <1>5
    <2>5. rest[n - 1][1] + rest[n - 1][2] = to
      BY <2>1, <1>2, <1>5
    <2> QED
      BY <2>1, <2>2, <2>3, <2>4, <2>5, <1>4, <1>5, <1>7 DEF Chained, rest
  <1> QED
    BY <1>4, <1>6, <1>7

\* A counter that goes on.
LEMMA CounterMoves ==
    ASSUME NEW s \in [keys : KeyShape, ssc : Nat]
    PROVE  /\ s.ssc \in Nat /\ s.keys \in KeyShape
           /\ [s EXCEPT !.ssc = @ + 1] \in [keys : KeyShape, ssc : Nat]
           /\ [s EXCEPT !.ssc = @ + 1].keys = s.keys /\ [s EXCEPT !.ssc = @ + 1].ssc = s.ssc + 1
  <1>1. s.ssc \in Nat /\ s.keys \in KeyShape
    OBVIOUS
  <1>2. [s EXCEPT !.ssc = @ + 1] = [keys |-> s.keys, ssc |-> s.ssc + 1]
    OBVIOUS
  <1> QED
    BY <1>1, <1>2

\* Sequences with the same elements are the same.
LEMMA SeqEqual ==
    ASSUME NEW s \in Seq(Nat), NEW t \in Seq(Nat), Len(s) = Len(t), \A k \in 1 .. Len(s) : s[k] = t[k]
    PROVE  s = t
  OBVIOUS

\* Reading on appends bytes.
LEMMA BytesAppended ==
    ASSUME NEW s \in Seq(Nat), NEW t \in Seq(Nat)
    PROVE  /\ s \o t \in Seq(Nat) /\ Len(s \o t) = Len(s) + Len(t)
           /\ \A k \in 1 .. Len(s) : (s \o t)[k] = s[k]
           /\ \A k \in 1 .. Len(t) : (s \o t)[Len(s) + k] = t[k]
  OBVIOUS

\* The reader has no session and has read nothing.
LEMMA ChipStarts ==
    ASSUME Chip!Init
    PROVE  ChipInv
  <1> USE DEF Chip!Init, Chip!NoSession, Chip!NoKeys, Chip!NoHandshake, Chip!NoNonce, Chip!Nothing
  <1>1. Shapes
    BY DEF Shapes, KeyShape, HandshakeShape, Chip!Secrets
  <1>2. Fresh /\ Latest /\ Awaited /\ Answered
    BY DEF Fresh, Latest, Awaited, Answered
  <1>3. Covers
    BY DEF Covers, Chained
  <1>4. Genuine /\ Chip!SessionIsShared
    BY DEF Genuine, Chip!SessionIsShared
  <1> QED
    BY <1>1, <1>2, <1>3, <1>4 DEF ChipInv

\* A handshake begins under a nonce no command's keys have, and gives up the
\* session before it (start_bac, start_pace).
LEMMA HandshakeBegins ==
    ASSUME ChipInv, NEW ic \in 1 .. drawn.ic, NEW secret \in Chip!Secrets,
           Chip!StartBac(ic, secret) \/ Chip!StartPace(ic, secret)
    PROVE  ChipInv'
  <1>1. /\ drawn' = [drawn EXCEPT !.ifd = @ + 1] /\ session' = Chip!NoSession
        /\ todo' = <<>> /\ got' = <<>> /\ range' = Chip!Nothing
        /\ auths' = auths \cup {[from |-> "reader", of |-> handshake']}
        /\ cmds' = cmds /\ resps' = resps /\ chip' = chip /\ proto' = proto
    BY DEF Chip!StartBac, Chip!StartPace
  <1>2. drawn.ifd \in Nat /\ drawn.ic \in Nat /\ drawn'.ifd = drawn.ifd + 1 /\ drawn' \in [ifd : Nat, ic : Nat]
    BY <1>1 DEF ChipInv, Shapes
  <1>3. PICK n \in Nat : handshake' = [ifd |-> drawn.ifd + 1, ic |-> n, secret |-> secret]
    <2>1. ic \in Nat /\ Chip!DecryptedNonce(ic, secret) \in Nat
      BY <1>2 DEF Chip!DecryptedNonce, Chip!NoNonce
    <2> QED
      BY <2>1 DEF Chip!StartBac, Chip!StartPace
  <1>4. Shapes'
    <2>1. handshake' \in HandshakeShape
      BY <1>2, <1>3 DEF HandshakeShape
    <2>2. session' \in [keys : KeyShape, ssc : Nat]
      BY <1>1 DEF Chip!NoSession, Chip!NoKeys, Chip!NoNonce, KeyShape
    <2> QED
      BY <1>1, <1>2, <2>1, <2>2 DEF ChipInv, Shapes
  <1>5. Fresh'
    <2>1. \A c \in cmds : c.keys.ifd \in 1 .. drawn.ifd
      BY DEF ChipInv, Fresh
    <2>2. handshake'.ifd = drawn.ifd + 1
      BY <1>3
    <2> QED
      BY <2>1, <2>2, <1>1, <1>2 DEF Fresh, Chip!NoSession
  <1>6. Covers'
    BY <1>1 DEF Covers, Chained, Chip!Nothing
  <1>7. Latest' /\ Awaited'
    <2>1. \A c \in cmds : c.keys # Chip!NoKeys
      BY DEF ChipInv, Fresh, Chip!NoKeys, Chip!NoNonce
    <2> QED
      BY <2>1, <1>1 DEF Latest, Awaited, Chip!NoSession
  <1>8. Answered' /\ Genuine'
    BY <1>1 DEF ChipInv, Answered, Genuine
  <1>9. Chip!SessionIsShared'
    BY <1>1 DEF Chip!SessionIsShared, Chip!NoSession
  <1> QED
    BY <1>4, <1>5, <1>6, <1>7, <1>8, <1>9 DEF ChipInv

\* A handshake that is over leaves keys with its own nonce, or no session; of
\* BAC, only the chip's answer to this handshake (finish_bac, complete_pace).
LEMMA HandshakeEnds ==
    ASSUME ChipInv, Chip!ChipAssumption, NEW a \in auths,
           Chip!FinishBac(a) \/ Chip!FinishPace(a)
    PROVE  ChipInv'
  <1>1. /\ handshake # Chip!NoHandshake /\ handshake' = Chip!NoHandshake
        /\ UNCHANGED <<proto, chip, drawn, auths, cmds, resps, todo, got, range>>
    BY DEF Chip!FinishBac, Chip!FinishPace
  <1>2. /\ handshake \in HandshakeShape /\ a.of \in HandshakeShape /\ handshake.ifd = drawn.ifd /\ handshake.ifd > 0
        /\ session = Chip!NoSession /\ drawn.ifd \in Nat
        /\ \A c \in cmds : c.keys.ifd < handshake.ifd /\ c.keys.ifd > 0 /\ c.keys.ifd \in Nat
    BY <1>1 DEF ChipInv, Shapes, Fresh
  <1> DEFINE keys == [ifd |-> handshake.ifd, ic |-> handshake.ic, peer |-> a.of.ic]
  <1>3. \/ session' = session
        \/ /\ session'.keys = keys /\ session' \in [keys : KeyShape, ssc : Nat]
           /\ proto = "bac" => a.from = "chip" /\ a.of = handshake
    <2>1. keys \in KeyShape
      BY <1>2 DEF KeyShape, HandshakeShape
    <2>2. Half \in Nat \ {0}
      BY DEF Chip!ChipAssumption
    <2>3. Chip!StartSsc(handshake) \in Nat
      <3>1. handshake.ic % Half \in Nat /\ handshake.ifd % Half \in Nat
        BY <1>2, <2>2 DEF HandshakeShape
      <3> QED
        BY <3>1, <2>2 DEF Chip!StartSsc
    <2>4. Chip!PaceSsc(keys) \in Nat
      <3>1. Half * Half \in Nat /\ Half * Half > 0
        BY <2>2
      <3>2. (keys.ic + 3 * keys.ifd) * Half + keys.peer \in Nat
        BY <2>1, <2>2 DEF KeyShape
      <3> HIDE DEF keys
      <3> QED
        BY <3>1, <3>2 DEF Chip!PaceSsc
    <2>5. CASE Chip!FinishBac(a)
      BY <2>1, <2>3, <2>5 DEF Chip!FinishBac, Chip!Reflected
    <2>6. CASE Chip!FinishPace(a)
      <3>1. Chip!PaceKeys(a.of.ic) = keys
        BY DEF Chip!PaceKeys
      <3> QED
        BY <2>1, <2>4, <2>6, <3>1 DEF Chip!FinishPace
    <2> QED
      BY <2>5, <2>6
  <1>4. Shapes'
    <2>1. handshake' \in HandshakeShape
      BY <1>1 DEF Chip!NoHandshake, Chip!NoNonce, HandshakeShape, Chip!Secrets
    <2>2. session' \in [keys : KeyShape, ssc : Nat]
      BY <1>3 DEF ChipInv, Shapes
    <2> QED
      BY <1>1, <2>1, <2>2 DEF ChipInv, Shapes
  <1>5. session'.keys = Chip!NoKeys \/ session'.keys.ifd = handshake.ifd
    BY <1>2, <1>3 DEF Chip!NoSession
  <1>6. Fresh'
    BY <1>1, <1>2, <1>5 DEF ChipInv, Fresh
  <1>7. Covers' /\ Answered' /\ Genuine'
    BY <1>1 DEF ChipInv, Covers, Answered, Genuine
  <1>8. Latest' /\ Awaited'
    <2>1. \A c \in cmds : c.keys # session'.keys
      BY <1>2, <1>5 DEF Chip!NoKeys, Chip!NoNonce
    <2> QED
      BY <2>1, <1>1 DEF Latest, Awaited
  <1>9. Chip!SessionIsShared'
    <2> SUFFICES ASSUME proto = "bac", session'.keys # Chip!NoKeys
                 PROVE  [from |-> "chip", of |-> [ifd |-> session'.keys.ifd, ic |-> session'.keys.ic,
                                                  secret |-> "document"]] \in auths
      BY <1>1 DEF Chip!SessionIsShared
    <2>1. session'.keys = keys /\ a.from = "chip" /\ a.of = handshake
      BY <1>2, <1>3 DEF Chip!NoSession
    <2>2. a.of = [ifd |-> handshake.ifd, ic |-> handshake.ic, secret |-> "document"]
      BY <1>2, <2>1 DEF ChipInv, Genuine, HandshakeShape
    <2>3. a = [from |-> "chip", of |-> a.of]
      BY <2>1 DEF ChipInv, Shapes
    <2> QED
      BY <2>1, <2>2, <2>3
  <1> QED
    BY <1>4, <1>6, <1>7, <1>8, <1>9 DEF ChipInv

\* A response to the handshake that cannot be read ends it without a session.
LEMMA HandshakeLost ==
    ASSUME ChipInv, Chip!FinishGarbage
    PROVE  ChipInv'
  <1>1. handshake' = Chip!NoHandshake /\ UNCHANGED <<proto, session, chip, drawn, auths, cmds, resps, todo, got, range>>
    BY DEF Chip!FinishGarbage
  <1>2. Shapes'
    BY <1>1 DEF ChipInv, Shapes, HandshakeShape, Chip!NoHandshake, Chip!NoNonce, Chip!Secrets
  <1> QED
    BY <1>1, <1>2 DEF ChipInv, Fresh, Covers, Latest, Awaited, Answered, Genuine, Chip!SessionIsShared

\* The commands for the next range are all still to be sent
\* (build_read_binary_commands).
LEMMA ReadStarts ==
    ASSUME ChipInv, Chip!ChipAssumption, NEW r \in Reads, Chip!StartRead(r)
    PROVE  ChipInv'
  <1>1. /\ todo = <<>> /\ todo' = Chip!ReadBinaryCommands(r[1], r[2]) /\ got' = <<>> /\ range' = r
        /\ UNCHANGED <<proto, handshake, session, chip, drawn, auths, cmds, resps>>
    BY DEF Chip!StartRead
  <1>2. r \in Nat \X Nat
    BY DEF Chip!ChipAssumption
  <1>3. r[1] \in Nat /\ r[2] \in Nat
    BY <1>2
  <1>4. Covers'
    <2>1. Chained(todo', r[1], r[1] + r[2])
      BY <1>1, <1>3, CommandsCover
    <2>2. range' = r /\ got' = <<>> /\ Len(got') = 0 /\ r[1] + Len(got') = r[1] /\ got' \in Seq(Nat)
      BY <1>1, <1>3
    <2> QED
      BY <1>2, <1>3, <2>1, <2>2 DEF Covers
  <1>5. Latest'
    BY <1>1 DEF ChipInv, Latest
  <1> QED
    BY <1>1, <1>4, <1>5 DEF ChipInv, Shapes, Fresh, Awaited, Answered, Genuine, Chip!SessionIsShared

\* A command takes the next counter value (protect_command).
LEMMA CommandSent ==
    ASSUME ChipInv, Chip!Protect
    PROVE  ChipInv'
  <1> DEFINE c == [keys |-> session.keys, ssc |-> session.ssc + 1, what |-> Head(todo)]
  <1>1. /\ session.keys # Chip!NoKeys /\ todo # <<>> /\ session' = [session EXCEPT !.ssc = @ + 1]
        /\ cmds' = cmds \cup {c}
        /\ UNCHANGED <<proto, handshake, chip, drawn, auths, resps, todo, got, range>>
    BY DEF Chip!Protect
  <1>2. /\ session.ssc \in Nat /\ session.keys \in KeyShape /\ session'.ssc = session.ssc + 1
        /\ session'.keys = session.keys /\ session' \in [keys : KeyShape, ssc : Nat]
    <2>1. session \in [keys : KeyShape, ssc : Nat]
      BY DEF ChipInv, Shapes
    <2> QED
      BY <1>1, <2>1, CounterMoves
  <1>3. Head(todo) \in Nat \X Nat
    BY <1>1 DEF ChipInv, Covers, Chained
  <1>4. c.keys = session.keys /\ c.ssc = session.ssc + 1 /\ c.what = Head(todo)
    OBVIOUS
  <1>4a. c \in [keys : KeyShape, ssc : Nat, what : Nat \X Nat]
    BY <1>2, <1>3
  <1> HIDE DEF c
  <1>5. Shapes'
    BY <1>1, <1>2, <1>4a DEF ChipInv, Shapes
  <1>6. Fresh'
    <2>1. handshake = Chip!NoHandshake
      BY <1>1 DEF ChipInv, Fresh, Chip!NoSession
    <2> QED
      BY <2>1, <1>1, <1>2, <1>4 DEF ChipInv, Fresh
  <1>7. Covers' /\ Genuine' /\ Chip!SessionIsShared'
    BY <1>1, <1>2 DEF ChipInv, Covers, Genuine, Chip!SessionIsShared
  <1>8. \A d \in cmds : d.ssc \in Nat /\ (d.keys = session.keys => d.ssc <= session.ssc)
    BY <1>1 DEF ChipInv, Shapes, Latest
  <1>9. Latest'
    BY <1>1, <1>2, <1>4, <1>8 DEF Latest
  <1>10. Awaited'
    <2> SUFFICES ASSUME NEW d \in cmds', d.keys = session.keys,
                        \A e \in cmds' : e.keys = d.keys => e.ssc <= d.ssc
                 PROVE  session'.ssc = d.ssc
      BY <1>2 DEF Awaited
    <2>1. c.ssc <= d.ssc
      BY <1>1, <1>4
    <2>2. d = c
      BY <2>1, <1>1, <1>2, <1>4, <1>8
    <2> QED
      BY <2>2, <1>2, <1>4
  <1>11. Answered'
    BY <1>1 DEF ChipInv, Answered
  <1> QED
    BY <1>5, <1>6, <1>7, <1>9, <1>10, <1>11 DEF ChipInv

\* An authentic response answers the command at the counter, which is the next
\* one to be read (unprotect_response).
LEMMA ResponseTaken ==
    ASSUME ChipInv, NEW r \in resps, Chip!Unprotect(r)
    PROVE  ChipInv'
  <1>1. /\ session.keys # Chip!NoKeys /\ todo # <<>> /\ r.keys = session.keys /\ r.ssc = session.ssc + 1
        /\ session' = [session EXCEPT !.ssc = @ + 1]
        /\ got' = got \o Chip!Bytes(r.what) /\ todo' = Tail(todo)
        /\ UNCHANGED <<proto, handshake, chip, drawn, auths, cmds, resps, range>>
    BY DEF Chip!Unprotect, Chip!Authentic
  <1>2. /\ session.ssc \in Nat /\ session.keys \in KeyShape /\ session'.ssc = session.ssc + 1
        /\ session'.keys = session.keys /\ session' \in [keys : KeyShape, ssc : Nat]
    <2>1. session \in [keys : KeyShape, ssc : Nat]
      BY DEF ChipInv, Shapes
    <2> QED
      BY <1>1, <2>1, CounterMoves
  <1>3. PICK c \in cmds : c.keys = session.keys /\ c.ssc + 1 = session.ssc + 1 /\ c.what = r.what
    BY <1>1 DEF ChipInv, Answered
  <1>4. \A d \in cmds : d.ssc \in Nat /\ (d.keys = session.keys => d.ssc <= session.ssc)
    BY <1>1 DEF ChipInv, Shapes, Latest
  <1>5. c.ssc = session.ssc /\ r.what = Head(todo)
    <2>1. c.ssc = session.ssc
      BY <1>2, <1>3, <1>4
    <2> QED
      BY <2>1, <1>1, <1>3 DEF ChipInv, Latest
  <1>6. Shapes' /\ Fresh'
    <2>1. handshake = Chip!NoHandshake
      BY <1>1 DEF ChipInv, Fresh, Chip!NoSession
    <2>2. Shapes'
      BY <1>1, <1>2 DEF ChipInv, Shapes
    <2> QED
      BY <2>1, <2>2, <1>1, <1>2 DEF ChipInv, Fresh
  <1>7. Covers'
    <2> DEFINE o == Head(todo)[1]
               l == Head(todo)[2]
    <2>1. /\ range \in Nat \X Nat /\ range[1] \in Nat /\ range[2] \in Nat
          /\ got \in Seq(Nat) /\ Len(got) \in Nat /\ range[1] + Len(got) \in Nat /\ range[1] + range[2] \in Nat
          /\ Chained(todo, range[1] + Len(got), range[1] + range[2])
          /\ \A k \in 1 .. Len(got) : got[k] = range[1] + k - 1
      BY DEF ChipInv, Covers
    <2>2. /\ Head(todo) \in Nat \X Nat /\ o = range[1] + Len(got) /\ range[1] + Len(got) + l <= range[1] + range[2]
          /\ Chained(todo', range[1] + Len(got) + l, range[1] + range[2])
      <3> DEFINE from == range[1] + Len(got)
                 to == range[1] + range[2]
      <3>1. from \in Nat /\ to \in Nat /\ Chained(todo, from, to)
        BY <2>1
      <3> HIDE DEF from, to
      <3>2. /\ Head(todo) \in Nat \X Nat /\ Head(todo)[1] = from /\ from + Head(todo)[2] <= to
            /\ Chained(Tail(todo), from + Head(todo)[2], to)
        BY <1>1, <3>1, ChainGoesOn
      <3> QED
        BY <1>1, <3>2 DEF from, to
    <2>2a. o \in Nat /\ l \in Nat
      BY <2>2
    <2> HIDE DEF o, l
    <2>3. Chip!Bytes(r.what) = [k \in 1 .. l |-> o + k - 1]
      BY <1>5 DEF Chip!Bytes, o, l
    <2>4. Chip!Bytes(r.what) \in Seq(Nat) /\ Len(Chip!Bytes(r.what)) = l
      <3>1. \A k \in 1 .. l : o + k - 1 \in Nat
        BY <2>2a
      <3> QED
        BY <2>3, <2>2a, <3>1
    <2>5. /\ got' \in Seq(Nat) /\ Len(got') = Len(got) + l
          /\ \A k \in 1 .. Len(got) : got'[k] = got[k]
          /\ \A k \in 1 .. l : got'[Len(got) + k] = Chip!Bytes(r.what)[k]
      BY <1>1, <2>1, <2>4, BytesAppended
    <2>6. \A k \in 1 .. Len(got') : got'[k] = range[1] + k - 1
      <3> TAKE k \in 1 .. Len(got')
      <3>1. CASE k <= Len(got)
        BY <3>1, <2>1, <2>5, <2>2a
      <3>2. CASE k > Len(got)
        <4>1. k - Len(got) \in 1 .. l /\ Len(got) + (k - Len(got)) = k
          BY <3>2, <2>1, <2>5, <2>2a
        <4>2. got'[k] = Chip!Bytes(r.what)[k - Len(got)]
          BY <4>1, <2>5
        <4>3. Chip!Bytes(r.what)[k - Len(got)] = o + (k - Len(got)) - 1
          BY <4>1, <2>3
        <4>4. o = range[1] + Len(got) /\ k \in Int
          BY <2>2, <2>5, <2>1, <2>2a
        <4> QED
          BY <4>2, <4>3, <4>4, <2>1
      <3> QED
        BY <3>1, <3>2, <2>1, <2>5, <2>2a
    <2>7. Len(got') <= range[2] /\ range[1] + Len(got') = range[1] + Len(got) + l
      <3>1. /\ range[1] \in Nat /\ range[2] \in Nat /\ Len(got) \in Nat
            /\ range[1] + Len(got) + l <= range[1] + range[2]
        BY <2>1, <2>2
      <3>2. Len(got') = Len(got) + l
        BY <2>5
      <3> QED
        BY ONLY <3>1, <3>2, <2>2a
    <2> QED
      BY <1>1, <2>1, <2>2, <2>5, <2>6, <2>7 DEF Covers
  <1>8. Latest'
    BY <1>1, <1>2, <1>4 DEF Latest
  <1>9. Awaited'
    <2> SUFFICES ASSUME NEW d \in cmds, d.keys = session.keys,
                        \A e \in cmds : e.keys = d.keys => e.ssc <= d.ssc
                 PROVE  session'.ssc = d.ssc + 1
      BY <1>1, <1>2 DEF Awaited
    <2>1. c.ssc <= d.ssc
      BY <1>3
    <2> QED
      BY <2>1, <1>2, <1>4, <1>5
  <1>10. Answered' /\ Genuine' /\ Chip!SessionIsShared'
    BY <1>1, <1>2 DEF ChipInv, Answered, Genuine, Chip!SessionIsShared
  <1> QED
    BY <1>6, <1>7, <1>8, <1>9, <1>10 DEF ChipInv

\* A step of the chip, in which it sends some answers to handshakes.
StepOfChip(sent) ==
    /\ UNCHANGED <<proto, handshake, session, cmds, todo, got, range>>
    /\ drawn' \in [ifd : Nat, ic : Nat] /\ drawn'.ifd = drawn.ifd
    /\ chip' \in [challenge : Nat, keys : KeyShape, ssc : Nat]
    /\ auths' = auths \cup sent
    /\ \A a \in sent : a \in [from : {"reader", "chip"}, of : HandshakeShape] /\ a.of.secret = "document"
    /\ \A r \in resps' : \E c \in cmds : c.keys = r.keys /\ c.ssc + 1 = r.ssc /\ c.what = r.what

\* What the chip sends of handshakes under its own password, and what it keeps
\* for itself, does not disturb the reader.
LEMMA ReaderUndisturbed ==
    ASSUME ChipInv, NEW sent, StepOfChip(sent)
    PROVE  ChipInv'
  <1> USE DEF StepOfChip
  <1>1. Covers' /\ Latest' /\ Awaited' /\ Answered'
    BY DEF ChipInv, Covers, Latest, Awaited, Answered
  <1>2. Shapes'
    BY DEF ChipInv, Shapes
  <1>3. Fresh'
    BY DEF ChipInv, Fresh
  <1>4. Genuine' /\ Chip!SessionIsShared'
    BY DEF ChipInv, Genuine, Chip!SessionIsShared
  <1> QED
    BY <1>1, <1>2, <1>3, <1>4 DEF ChipInv

\* The chip's steps: a challenge, its answers to handshakes and to commands,
\* and giving up its session.
LEMMA ChipMoves ==
    ASSUME ChipInv, Chip!ChipAssumption, Chip!ChipStep
    PROVE  ChipInv'
  <1>1. UNCHANGED <<proto, handshake, session, cmds, todo, got, range>>
    BY DEF Chip!ChipStep, Chip!ChipChallenge, Chip!ChipAuthenticate, Chip!ChipAgree, Chip!ChipAnswer, Chip!ChipAbort
  <1>2. /\ drawn \in [ifd : Nat, ic : Nat] /\ chip \in [challenge : Nat, keys : KeyShape, ssc : Nat]
        /\ auths \subseteq [from : {"reader", "chip"}, of : HandshakeShape]
        /\ \A r \in resps : \E c \in cmds : c.keys = r.keys /\ c.ssc + 1 = r.ssc /\ c.what = r.what
    BY DEF ChipInv, Shapes, Answered
  <1>3. Half \in Nat /\ Half > 0 /\ Half * Half \in Nat /\ Half * Half > 0
    BY DEF Chip!ChipAssumption
  <1>4. Chip!NoKeys \in KeyShape
    BY DEF Chip!NoKeys, Chip!NoNonce, KeyShape
  <1>5. CASE Chip!ChipChallenge
    <2>1. drawn' \in [ifd : Nat, ic : Nat] /\ drawn'.ifd = drawn.ifd
      BY <1>2, <1>5 DEF Chip!ChipChallenge
    <2>2. chip' \in [challenge : Nat, keys : KeyShape, ssc : Nat]
      BY <1>2, <1>4, <1>5 DEF Chip!ChipChallenge
    <2>3. auths' = auths \cup {} /\ resps' = resps
      BY <1>5 DEF Chip!ChipChallenge
    <2>4. StepOfChip({})
      BY <1>1, <1>2, <2>1, <2>2, <2>3 DEF StepOfChip
    <2> QED
      BY <2>4, ReaderUndisturbed
  <1>6. ASSUME NEW a \in auths, Chip!ChipAuthenticate(a)
        PROVE  ChipInv'
    <2>1. a.of \in HandshakeShape /\ a.of.secret = "document" /\ a.of.ifd \in Nat /\ a.of.ic \in Nat
      BY <1>2, <1>6 DEF Chip!ChipAuthenticate, HandshakeShape
    <2>2. Chip!StartSsc(a.of) \in Nat
      <3>1. a.of.ic % Half \in Nat /\ a.of.ifd % Half \in Nat
        BY <2>1, <1>3
      <3> QED
        BY <3>1, <1>3 DEF Chip!StartSsc
    <2>3. chip' \in [challenge : Nat, keys : KeyShape, ssc : Nat]
      BY <2>1, <2>2, <1>6 DEF Chip!ChipAuthenticate, Chip!NoNonce, KeyShape
    <2>4. auths' = auths \cup {[from |-> "chip", of |-> a.of]} /\ resps' = resps /\ drawn' = drawn
      BY <1>6 DEF Chip!ChipAuthenticate
    <2>5. [from |-> "chip", of |-> a.of] \in [from : {"reader", "chip"}, of : HandshakeShape]
      BY <2>1
    <2>6. StepOfChip({[from |-> "chip", of |-> a.of]})
      BY <1>1, <1>2, <2>1, <2>3, <2>4, <2>5 DEF StepOfChip
    <2> QED
      BY <2>6, ReaderUndisturbed
  <1>7. ASSUME NEW a \in auths, Chip!ChipAgree(a)
        PROVE  ChipInv'
    <2> DEFINE k == [ifd |-> a.of.ifd, ic |-> chip.challenge, peer |-> chip.challenge]
               answer == [ifd |-> a.of.ifd, ic |-> chip.challenge, secret |-> "document"]
    <2>1. a.of.ifd \in Nat /\ chip.challenge \in Nat
      BY <1>2 DEF HandshakeShape
    <2>2. Chip!PaceSsc(k) \in Nat
      <3>1. (k.ic + 3 * k.ifd) * Half + k.peer \in Nat
        BY <2>1, <1>3
      <3> HIDE DEF k
      <3> QED
        BY <3>1, <1>3 DEF Chip!PaceSsc
    <2>3. chip' \in [challenge : Nat, keys : KeyShape, ssc : Nat]
      <3>1. chip' = [challenge |-> Chip!NoNonce, keys |-> k, ssc |-> Chip!PaceSsc(k)]
        BY <1>7 DEF Chip!ChipAgree
      <3>2. k \in KeyShape
        BY <2>1 DEF KeyShape
      <3> HIDE DEF k
      <3> QED
        BY <2>2, <3>1, <3>2 DEF Chip!NoNonce
    <2>4. auths' = auths \cup {[from |-> "chip", of |-> answer]} /\ resps' = resps /\ drawn' = drawn
      BY <1>7 DEF Chip!ChipAgree
    <2>5. answer \in HandshakeShape /\ answer.secret = "document"
      BY <2>1 DEF HandshakeShape, Chip!Secrets
    <2> HIDE DEF answer
    <2>6. [from |-> "chip", of |-> answer] \in [from : {"reader", "chip"}, of : HandshakeShape]
      BY <2>5
    <2>7. StepOfChip({[from |-> "chip", of |-> answer]})
      BY <1>1, <1>2, <2>3, <2>4, <2>5, <2>6 DEF StepOfChip
    <2> QED
      BY <2>7, ReaderUndisturbed
  <1>8. ASSUME NEW c \in cmds, Chip!ChipAnswer(c)
        PROVE  ChipInv'
    <2>1. chip' \in [challenge : Nat, keys : KeyShape, ssc : Nat]
      BY <1>2, <1>8 DEF Chip!ChipAnswer
    <2>2. /\ resps' = resps \cup {[keys |-> c.keys, ssc |-> c.ssc + 1, what |-> c.what]}
          /\ drawn' = drawn /\ auths' = auths \cup {}
      BY <1>8 DEF Chip!ChipAnswer
    <2>3. \A r \in resps' : \E d \in cmds : d.keys = r.keys /\ d.ssc + 1 = r.ssc /\ d.what = r.what
      BY <1>2, <2>2
    <2>4. StepOfChip({})
      BY <1>1, <1>2, <2>1, <2>2, <2>3 DEF StepOfChip
    <2> QED
      BY <2>4, ReaderUndisturbed
  <1>9. CASE Chip!ChipAbort
    <2>1. chip' \in [challenge : Nat, keys : KeyShape, ssc : Nat]
      BY <1>2, <1>4, <1>9 DEF Chip!ChipAbort
    <2>2. drawn' = drawn /\ auths' = auths \cup {} /\ resps' = resps
      BY <1>9 DEF Chip!ChipAbort
    <2>3. StepOfChip({})
      BY <1>1, <1>2, <2>1, <2>2 DEF StepOfChip
    <2> QED
      BY <2>3, ReaderUndisturbed
  <1> QED
    BY <1>5, <1>6, <1>7, <1>8, <1>9 DEF Chip!ChipStep

\* Every step keeps the invariant.
LEMMA ChipInvKept ==
    ASSUME Chip!ChipAssumption, ChipInv, [Chip!Next]_Chip!vars
    PROVE  ChipInv'
  <1>1. CASE UNCHANGED <<proto, handshake, session, chip, drawn, auths, cmds, resps, todo, got, range>>
    BY <1>1 DEF ChipInv, Shapes, Fresh, Covers, Latest, Awaited, Answered, Genuine, Chip!SessionIsShared
  <1>2. CASE Chip!WireStep \/ UNCHANGED Chip!vars
    BY <1>1, <1>2 DEF Chip!WireStep, Chip!vars
  <1>3. CASE Chip!ChipStep
    BY <1>3, ChipMoves
  <1>4. CASE Chip!ReaderStep
    <2>1. ASSUME NEW ic \in 1 .. drawn.ic, NEW secret \in Chip!Secrets,
                 Chip!StartBac(ic, secret) \/ Chip!StartPace(ic, secret)
          PROVE  ChipInv'
      BY <2>1, HandshakeBegins
    <2>2. ASSUME NEW a \in auths, Chip!FinishBac(a) \/ Chip!FinishPace(a)
          PROVE  ChipInv'
      BY <2>2, HandshakeEnds
    <2>3. CASE Chip!FinishGarbage
      BY <2>3, HandshakeLost
    <2>4. ASSUME NEW r \in Reads, Chip!StartRead(r)
          PROVE  ChipInv'
      BY <2>4, ReadStarts
    <2>5. CASE Chip!Protect
      BY <2>5, CommandSent
    <2>6. ASSUME NEW r \in resps, Chip!Unprotect(r)
          PROVE  ChipInv'
      BY <2>6, ResponseTaken
    <2>7. ASSUME NEW r \in resps, Chip!UnprotectFails(r)
          PROVE  ChipInv'
      BY <2>7, <1>1 DEF Chip!UnprotectFails, Chip!vars
    <2> QED
      BY <1>4, <2>1, <2>2, <2>3, <2>4, <2>5, <2>6, <2>7 DEF Chip!ReaderStep
  <1> QED
    BY <1>2, <1>3, <1>4 DEF Chip!Next

\* What was read is the beginning of the range, and all of it at the end.
LEMMA ChipInvSuffices ==
    ASSUME ChipInv
    PROVE  Chip!ReadIsFaithful /\ Chip!SessionIsShared /\ Chip!AnswerStaysAcceptable
  <1>1. /\ range[1] \in Nat /\ range[2] \in Nat /\ got \in Seq(Nat) /\ Len(got) \in Nat /\ Len(got) <= range[2]
        /\ \A k \in 1 .. Len(got) : got[k] = range[1] + k - 1
        /\ Chained(todo, range[1] + Len(got), range[1] + range[2])
    BY DEF ChipInv, Covers
  <1>2. got = SubSeq(Chip!Bytes(range), 1, Len(got))
    <2>1. \A k \in 1 .. Len(got) : Chip!Bytes(range)[k] = range[1] + k - 1
      BY <1>1 DEF Chip!Bytes
    <2>2. Chip!Bytes(range) \in Seq(Nat) /\ Len(Chip!Bytes(range)) = range[2]
      <3>1. \A k \in 1 .. range[2] : range[1] + k - 1 \in Nat
        BY <1>1
      <3>2. range[2] \in Nat
        BY <1>1
      <3> QED
        BY ONLY <3>1, <3>2 DEF Chip!Bytes
    <2> DEFINE b == SubSeq(Chip!Bytes(range), 1, Len(got))
    <2>3. b \in Seq(Nat) /\ Len(b) = Len(got) /\ \A k \in 1 .. Len(got) : b[k] = Chip!Bytes(range)[k]
      <3>1. Len(got) \in Nat /\ Len(got) <= range[2]
        BY <1>1
      <3> QED
        BY ONLY <2>2, <3>1
    <2> HIDE DEF b
    <2>4. got = b
      <3>1. \A k \in 1 .. Len(got) : got[k] = b[k]
        BY <1>1, <2>1, <2>3
      <3> QED
        BY <1>1, <2>3, <3>1, SeqEqual
    <2> QED
      BY <2>4 DEF b
  <1>3. todo = <<>> => Len(got) = range[2]
    BY <1>1 DEF Chained
  <1>4. Chip!AnswerStaysAcceptable
    BY DEF ChipInv, Awaited, Chip!AnswerStaysAcceptable
  <1> QED
    BY <1>1, <1>2, <1>3, <1>4 DEF Chip!ReadIsFaithful, ChipInv

\* What a reader has read from a chip is a beginning of the range it asked for,
\* and all of it once no command is left, its BAC keys are those of a chip that
\* answered this handshake, and a rejected response costs nothing: for any
\* number of handshakes, any ranges, chunk sizes and counters, whatever the
\* wire loses, delays or repeats (BacSession, build_read_binary_commands).
THEOREM ChipReadCorrect == Chip!Spec => []ReadIsFaithful
  <1>1. Chip!Init => ChipInv
    BY ChipStarts
  <1>2. ChipInv /\ [Chip!Next]_Chip!vars => ChipInv'
    BY ChipInvKept, LimitAssumption
  <1>3. ChipInv => ReadIsFaithful
    BY ChipInvSuffices DEF ReadIsFaithful
  <1> QED
    BY <1>1, <1>2, <1>3, PTL DEF Chip!Spec

-----------------------------------------------------------------------------
(* The encodings of commands and answers.                                  *)

LEMMA WireConstants ==
    /\ Byte \in Nat /\ Byte > 4 /\ Chip!Mid \in Nat /\ Byte = 2 * Chip!Mid /\ Chip!Mid > 2
    /\ Chip!MaxByte = Byte - 1 /\ Chip!MaxByte \in Nat /\ Chip!MaxWord = Byte * Byte - 1 /\ Chip!MaxWord \in Nat
    /\ Block \in Nat /\ Block >= 1 /\ Block <= Chip!MaxByte /\ Les \subseteq Nat /\ MaxBacData \in Nat
    /\ Chip!MaxByte < Chip!MaxWord
<1>1. /\ Byte \in Nat /\ Byte = 2 * Chip!Mid /\ Chip!Mid > 2 /\ Block \in 1 .. Chip!MaxByte
      /\ Les \subseteq Nat /\ MaxBacData \in Nat
  BY WireLimits, Zenon DEF Chip!WireAssumption
<1>2. Chip!Mid \in Nat
  BY <1>1 DEF Chip!Mid
<1> DEFINE m == Chip!Mid
<1> HIDE DEF m
<1>3. m \in Nat /\ Byte = 2 * m /\ m > 2
  BY <1>1, <1>2 DEF m
<1>4. Byte > 4
  BY <1>1, <1>3
<1>5. Byte * Byte >= 4 * Byte
  BY <1>1, <1>4
<1>6. Byte * Byte \in Nat
  BY <1>1
<1>7. Chip!MaxByte = Byte - 1 /\ Chip!MaxWord = Byte * Byte - 1
  BY DEF Chip!MaxByte, Chip!MaxWord
<1> QED
  BY <1>1, <1>2, <1>4, <1>5, <1>6, <1>7

LEMMA WordRead ==
    ASSUME NEW v \in Nat
    PROVE  /\ Chip!Word(v) = <<v \div Byte, v % Byte>> /\ v \div Byte \in Nat /\ v % Byte \in 0 .. Chip!MaxByte
           /\ Chip!Value(v \div Byte, v % Byte) = v
<1>1. Byte \in Nat /\ Byte > 0
  BY WireConstants
<1>2. v \div Byte \in Nat
  BY <1>1
<1>3. v % Byte \in 0 .. Byte - 1
  BY <1>1
<1>4. (v \div Byte) * Byte + (v % Byte) = v
  BY <1>1
<1>5. Chip!MaxByte = Byte - 1
  BY DEF Chip!MaxByte
<1> QED
  BY <1>2, <1>3, <1>4, <1>5, Zenon DEF Chip!Word, Chip!Value

\* The extended form of a length, alone or after nothing.
LEMMA Extended ==
    ASSUME NEW v \in Nat
    PROVE  /\ <<0>> \o Chip!Word(v) = <<0, v \div Byte, v % Byte>>
           /\ <<>> \o <<>> \o (<<0>> \o Chip!Word(v)) = <<0, v \div Byte, v % Byte>>
<1> DEFINE hi == v \div Byte
           lo == v % Byte
<1>1. Chip!Word(v) = <<hi, lo>> /\ hi \in Nat /\ lo \in Nat
  <2>1. lo \in 0 .. Chip!MaxByte /\ Chip!MaxByte \in Nat
    BY WordRead, WireConstants
  <2> QED
    BY <2>1, WordRead
<1> HIDE DEF hi, lo
<1>2. <<0>> \o <<hi, lo>> = <<0, hi, lo>>
  <2> DEFINE a == <<0>>
             b == <<hi, lo>>
             s == a \o b
             t == <<0, hi, lo>>
  <2>1. a \in Seq(Nat) /\ Len(a) = 1 /\ a[1] = 0 /\ b \in Seq(Nat) /\ Len(b) = 2 /\ b[1] = hi /\ b[2] = lo
    BY <1>1
  <2>2. t \in Seq(Nat) /\ Len(t) = 3 /\ t[1] = 0 /\ t[2] = hi /\ t[3] = lo
    BY <1>1
  <2> HIDE DEF a, b, t
  <2>3. s \in Seq(Nat) /\ Len(s) = 3 /\ s[1] = 0 /\ s[2] = hi /\ s[3] = lo
    <3>1. /\ s \in Seq(Nat) /\ Len(s) = Len(a) + Len(b)
          /\ \A k \in 1 .. Len(a) : s[k] = a[k]
          /\ \A k \in 1 .. Len(b) : s[Len(a) + k] = b[k]
      BY <2>1, BytesAppended
    <3> HIDE DEF s
    <3>2. s[1] = a[1] /\ s[1 + 1] = b[1] /\ s[1 + 2] = b[2]
      BY <2>1, <3>1
    <3> QED
      BY <2>1, <3>1, <3>2
  <2> HIDE DEF s
  <2>4. \A k \in 1 .. 3 : s[k] = t[k]
    BY <2>2, <2>3
  <2>5. s = t
    BY <2>2, <2>3, <2>4, SeqEqual
  <2> QED
    BY <2>5 DEF s, t, a, b
<1>3. <<>> \o <<>> \o <<0, hi, lo>> = <<0, hi, lo>>
  BY <1>1
<1> QED
  BY <1>1, <1>2, <1>3 DEF hi, lo

\* Three sequences one after the other.
Joined(s, a, b, c) == s = a \o b \o c

LEMMA Concat3 ==
    ASSUME NEW a \in Seq(Nat), NEW b \in Seq(Nat), NEW c \in Seq(Nat), NEW s, Joined(s, a, b, c)
    PROVE  /\ s \in Seq(Nat) /\ Len(s) = Len(a) + Len(b) + Len(c)
           /\ \A k \in 1 .. Len(a) : s[k] = a[k]
           /\ \A k \in 1 .. Len(b) : s[Len(a) + k] = b[k]
           /\ \A k \in 1 .. Len(c) : s[Len(a) + Len(b) + k] = c[k]
           /\ SubSeq(s, Len(a) + 1, Len(a) + Len(b)) = b
<1> USE DEF Joined
<1>1. s \in Seq(Nat) /\ Len(s) = Len(a) + Len(b) + Len(c)
  OBVIOUS
<1>2. \A k \in 1 .. Len(a) : s[k] = a[k]
  OBVIOUS
<1>3. \A k \in 1 .. Len(b) : s[Len(a) + k] = b[k]
  OBVIOUS
<1>4. \A k \in 1 .. Len(c) : s[Len(a) + Len(b) + k] = c[k]
  OBVIOUS
<1>5. SubSeq(s, Len(a) + 1, Len(a) + Len(b)) = b
  <2>1. SubSeq(s, Len(a) + 1, Len(a) + Len(b)) = [k \in 1 .. Len(b) |-> s[Len(a) + k]]
    BY <1>1
  <2> QED
    BY <2>1, <1>3
<1> QED
  BY <1>1, <1>2, <1>3, <1>4, <1>5

Le == {Chip!NoLe} \cup 0 .. Chip!MaxWord

\* What to_bytes writes, from_bytes reads.
LEMMA DecodeEncode ==
    ASSUME NEW data \in Seq(Nat), NEW le \in Le, Chip!Encodable(data, le)
    PROVE  Chip!DecodeApdu(Chip!EncodeApdu(data, le)) = Chip!Command(data, le)
<1> DEFINE n == Len(data)
           raw == Chip!EncodeApdu(data, le)
<1>1. n \in Nat /\ n <= Chip!MaxWord /\ (n \in 1 .. Chip!MaxByte => le <= Chip!MaxByte)
  BY DEF Chip!Encodable
<1>2. le = Chip!NoLe \/ le \in Nat
  BY WireConstants DEF Le
<1>3. CASE data = <<>>
  <2>1. CASE le = Chip!NoLe
    <3>1. raw = <<>>
      BY <1>3, <2>1 DEF Chip!EncodeApdu, Chip!LcBytes, Chip!LeBytes
    <3> QED
      BY <1>3, <2>1, <3>1 DEF Chip!DecodeApdu
  <2>2. CASE le # Chip!NoLe /\ le <= Chip!MaxByte
    <3>1. raw = <<le>>
      BY <1>2, <1>3, <2>2 DEF Chip!EncodeApdu, Chip!LcBytes, Chip!LeBytes
    <3>2. raw # <<>> /\ Len(raw) = 1 /\ raw[1] = le
      BY <3>1
    <3> QED
      BY <1>3, <3>2 DEF Chip!DecodeApdu
  <2>3. CASE le # Chip!NoLe /\ ~(le <= Chip!MaxByte)
    <3>1. raw = <<0, le \div Byte, le % Byte>>
      <4>1. Chip!LcBytes(data) = <<>> /\ Chip!LeBytes(data, le) = <<0>> \o Chip!Word(le)
        BY <1>3, <2>3 DEF Chip!LcBytes, Chip!LeBytes
      <4> QED
        BY <1>2, <1>3, <2>3, <4>1, Extended DEF Chip!EncodeApdu
    <3>2. raw # <<>> /\ Len(raw) = 3 /\ raw[1] = 0 /\ raw[2] = le \div Byte /\ raw[3] = le % Byte
      BY <3>1
    <3>3. Chip!Value(raw[2], raw[3]) = le
      BY <1>2, <2>3, <3>2, WordRead
    <3> HIDE DEF raw
    <3>4. Chip!DecodeApdu(raw) = Chip!DecodeExtended(raw)
      BY <3>2 DEF Chip!DecodeApdu
    <3>5. Chip!DecodeExtended(raw) = Chip!Command(<<>>, le)
      BY <3>2, <3>3 DEF Chip!DecodeExtended
    <3> QED
      BY <1>3, <3>4, <3>5 DEF raw
  <2> QED
    BY <2>1, <2>2, <2>3
<1>4. CASE data # <<>> /\ n <= Chip!MaxByte
  <2> DEFINE b == IF le = Chip!NoLe THEN <<>> ELSE <<le>>
  <2>1. raw = <<n>> \o data \o b /\ n >= 1
    BY <1>4 DEF Chip!EncodeApdu, Chip!LcBytes, Chip!LeBytes
  <2>2. b \in Seq(Nat) /\ <<n>> \in Seq(Nat) /\ Len(<<n>>) = 1
    BY <1>1, <1>2
  <2>3. Len(b) = IF le = Chip!NoLe THEN 0 ELSE 1
    OBVIOUS
  <2>4. le # Chip!NoLe => b[1] = le
    OBVIOUS
  <2> HIDE DEF raw, b
  <2>5. /\ raw \in Seq(Nat) /\ Len(raw) = 1 + n + Len(b) /\ raw[1] = n
        /\ le # Chip!NoLe => raw[1 + n + 1] = le
        /\ SubSeq(raw, 2, 1 + n) = data
    <3> DEFINE a == <<n>>
    <3>1. a \in Seq(Nat) /\ Len(a) = 1 /\ a[1] = n
      BY <2>2
    <3>2. Joined(raw, a, data, b)
      BY <2>1 DEF Joined
    <3> HIDE DEF a
    <3>3. /\ raw \in Seq(Nat) /\ Len(raw) = Len(a) + n + Len(b)
          /\ \A k \in 1 .. Len(a) : raw[k] = a[k]
          /\ \A k \in 1 .. Len(b) : raw[Len(a) + n + k] = b[k]
          /\ SubSeq(raw, Len(a) + 1, Len(a) + n) = data
      <4>1. a \in Seq(Nat) /\ b \in Seq(Nat)
        BY <2>2, <3>1
      <4> QED
        BY <4>1, <3>2, Concat3
    <3> HIDE DEF n
    <3> QED
      BY <1>1, <2>2, <2>3, <2>4, <3>1, <3>3
  <2>6. Chip!DecodeApdu(raw) = Chip!DecodeShort(raw)
    BY <1>1, <2>1, <2>3, <2>5 DEF Chip!DecodeApdu
  <2>7. Chip!DecodeShort(raw) = Chip!Command(data, le)
    <3>1. Len(raw) \in {1 + n, (1 + n) + 1} /\ (Len(raw) > 1 + n <=> le # Chip!NoLe) /\ (1 + n) + 1 = 1 + n + 1
      BY <1>1, <2>3, <2>5
    <3> HIDE DEF n
    <3> QED
      BY <2>5, <3>1 DEF Chip!DecodeShort
  <2> QED
    BY <2>6, <2>7 DEF raw
<1>5. CASE n > Chip!MaxByte
  <2> DEFINE a == <<0, n \div Byte, n % Byte>>
             b == IF le = Chip!NoLe THEN <<>> ELSE <<le \div Byte, le % Byte>>
  <2>0. data # <<>> /\ ~(n <= Chip!MaxByte) /\ n > 3
    BY <1>1, <1>5, WireConstants
  <2>1. raw = a \o data \o b
    <3>1. Chip!LcBytes(data) = a
      BY <1>1, <2>0, Extended DEF Chip!LcBytes
    <3>2. Chip!LeBytes(data, le) = b
      BY <1>2, <2>0, WordRead DEF Chip!LeBytes
    <3> QED
      BY <3>1, <3>2 DEF Chip!EncodeApdu
  <2>2. a \in Seq(Nat) /\ Len(a) = 3 /\ a[1] = 0 /\ a[2] = n \div Byte /\ a[3] = n % Byte
    BY <1>1, WordRead
  <2>3. b \in Seq(Nat) /\ Len(b) = IF le = Chip!NoLe THEN 0 ELSE 2
    BY <1>2, WordRead
  <2>4. le # Chip!NoLe => b[1] = le \div Byte /\ b[2] = le % Byte
    OBVIOUS
  <2> HIDE DEF raw, a, b
  <2>5. /\ raw \in Seq(Nat) /\ Len(raw) = 3 + n + Len(b)
        /\ raw[1] = 0 /\ raw[2] = n \div Byte /\ raw[3] = n % Byte
        /\ le # Chip!NoLe => raw[3 + n + 1] = b[1] /\ raw[3 + n + 2] = b[2]
        /\ SubSeq(raw, 4, 3 + n) = data
    <3>1. /\ raw \in Seq(Nat) /\ Len(raw) = Len(a) + n + Len(b)
          /\ \A k \in 1 .. Len(a) : raw[k] = a[k]
          /\ \A k \in 1 .. Len(b) : raw[Len(a) + n + k] = b[k]
          /\ SubSeq(raw, Len(a) + 1, Len(a) + n) = data
      <4>1. Joined(raw, a, data, b)
        BY <2>1 DEF Joined
      <4>2. a \in Seq(Nat) /\ b \in Seq(Nat)
        BY <2>2, <2>3
      <4> QED
        BY <4>1, <4>2, Concat3
    <3> HIDE DEF n
    <3> QED
      BY <1>1, <2>2, <2>3, <3>1
  <2>6. Chip!Value(raw[2], raw[3]) = n /\ (le # Chip!NoLe => Chip!Value(raw[3 + n + 1], raw[3 + n + 2]) = le)
    BY <1>1, <1>2, <2>4, <2>5, WordRead
  <2>7. Chip!DecodeApdu(raw) = Chip!DecodeExtended(raw)
    BY <1>1, <2>0, <2>3, <2>5 DEF Chip!DecodeApdu
  <2>8. Chip!DecodeExtended(raw) = Chip!Command(data, le)
    <3>1. /\ Len(raw) \in {3 + n, (3 + n) + 2} /\ (Len(raw) > 3 + n <=> le # Chip!NoLe)
          /\ ~(Len(raw) < 3) /\ Len(raw) # 3
      <4> DEFINE r == Len(raw)
                 m == Len(b)
      <4>1. r = 3 + n + m /\ n \in Nat /\ n > 3
        BY <1>1, <2>0, <2>5
      <4>2. (le = Chip!NoLe => m = 0) /\ (le # Chip!NoLe => m = 2)
        BY <2>3
      <4> HIDE DEF r, m, n
      <4>3. r \in {3 + n, (3 + n) + 2} /\ (r > 3 + n <=> le # Chip!NoLe) /\ ~(r < 3) /\ r # 3
        BY <4>1, <4>2
      <4> QED
        BY <4>3 DEF r
    <3> HIDE DEF n
    <3> QED
      BY <2>5, <2>6, <3>1 DEF Chip!DecodeExtended
  <2> QED
    BY <2>7, <2>8 DEF raw
<1> QED
  BY <1>1, <1>3, <1>4, <1>5, WireConstants

Object(tag, v, next) == [ok |-> TRUE, tag |-> tag, next |-> next, value |-> v]

\* The length bytes of push_ber_tlv.
Length(n) == IF n < Chip!Mid THEN <<n>>
             ELSE IF n <= Chip!MaxByte THEN <<Chip!Mid + 1, n>>
             ELSE <<Chip!Mid + 2>> \o Chip!Word(n)

\* They are one, two or three.
LEMMA LengthForms ==
    ASSUME NEW n \in Nat
    PROVE  /\ Length(n) \in Seq(Nat)
           /\ n < Chip!Mid => Len(Length(n)) = 1 /\ Length(n)[1] = n
           /\ n >= Chip!Mid /\ n <= Chip!MaxByte =>
                 Len(Length(n)) = 2 /\ Length(n)[1] = Chip!Mid + 1 /\ Length(n)[2] = n
           /\ n > Chip!MaxByte => /\ Len(Length(n)) = 3 /\ Length(n)[1] = Chip!Mid + 2
                                  /\ Length(n)[2] = n \div Byte /\ Length(n)[3] = n % Byte
<1> DEFINE m == Chip!Mid
           x == Chip!MaxByte
<1>1. m \in Nat /\ x \in Nat /\ m <= x
  BY WireConstants
<1>2. CASE n < m
  <2>1. Length(n) = <<n>>
    BY <1>2 DEF Length
  <2> HIDE DEF m, x
  <2> QED
    BY <1>1, <1>2, <2>1 DEF m, x
<1>3. CASE n >= m /\ n <= x
  <2>1. Length(n) = <<m + 1, n>>
    BY <1>1, <1>3 DEF Length
  <2> HIDE DEF m, x
  <2> QED
    BY <1>1, <1>3, <2>1 DEF m, x
<1>4. CASE n > x
  <2> DEFINE a == <<m + 2>>
             b == Chip!Word(n)
  <2>1. Length(n) = a \o b
    BY <1>1, <1>4 DEF Length
  <2>2. a \in Seq(Nat) /\ Len(a) = 1 /\ a[1] = m + 2
    BY <1>1
  <2>3. n \div Byte \in Nat /\ n % Byte \in Nat /\ b = <<n \div Byte, n % Byte>>
    BY <1>1, WordRead
  <2>4. b \in Seq(Nat) /\ Len(b) = 2 /\ b[1] = n \div Byte /\ b[2] = n % Byte
    BY <2>3
  <2> HIDE DEF a, b, m, x
  <2>5. /\ a \o b \in Seq(Nat) /\ Len(a \o b) = Len(a) + Len(b)
        /\ \A k \in 1 .. Len(a) : (a \o b)[k] = a[k]
        /\ \A k \in 1 .. Len(b) : (a \o b)[Len(a) + k] = b[k]
    <3>1. a \in Seq(Nat) /\ b \in Seq(Nat)
      BY <2>2, <2>4
    <3> QED
      BY <3>1, BytesAppended
  <2> DEFINE s == a \o b
  <2> HIDE DEF s
  <2>6. s \in Seq(Nat) /\ Len(s) = 3 /\ s[1] = a[1] /\ s[1 + 1] = b[1] /\ s[1 + 2] = b[2]
    BY <2>2, <2>4, <2>5 DEF s
  <2> QED
    BY <1>1, <1>4, <2>1, <2>2, <2>4, <2>6 DEF m, x, s
<1> QED
  BY <1>1, <1>2, <1>3, <1>4

\* An object is its tag, its length and its value.
LEMMA PushForm ==
    ASSUME NEW tag \in Nat, NEW v \in Seq(Nat)
    PROVE  /\ Joined(Chip!PushTlv(tag, v), <<tag>>, Length(Len(v)), v)
           /\ <<tag>> \in Seq(Nat) /\ Len(<<tag>>) = 1 /\ Length(Len(v)) \in Seq(Nat)
           /\ Chip!PushTlv(tag, v) \in Seq(Nat)
           /\ Len(Chip!PushTlv(tag, v)) = 1 + Len(Length(Len(v))) + Len(v)
<1>1. Joined(Chip!PushTlv(tag, v), <<tag>>, Length(Len(v)), v)
  BY Zenon DEF Chip!PushTlv, Joined, Length
<1>2. Len(v) \in Nat /\ <<tag>> \in Seq(Nat) /\ Len(<<tag>>) = 1
  OBVIOUS
<1>3. Length(Len(v)) \in Seq(Nat)
  BY <1>2, LengthForms
<1> DEFINE a == <<tag>>
           b == Length(Len(v))
           s == Chip!PushTlv(tag, v)
<1>4. Len(a) = 1 /\ a \in Seq(Nat)
  BY <1>2
<1> HIDE DEF a, b, s
<1>5. s \in Seq(Nat) /\ Len(s) = Len(a) + Len(b) + Len(v)
  <2>1. Joined(s, a, b, v) /\ a \in Seq(Nat) /\ b \in Seq(Nat)
    BY <1>1, <1>3, <1>4 DEF a, b, s
  <2> QED
    BY <2>1, Concat3
<1>6. s \in Seq(Nat) /\ Len(s) = 1 + Len(b) + Len(v)
  BY <1>4, <1>5
<1> QED
  BY <1>1, <1>2, <1>3, <1>6, Zenon DEF a, b, s

\* The parts of what next_ber_tlv finds.
NextForm(raw, at) == IF at < Len(raw) THEN raw[at + 1] ELSE Byte
NextHead(raw, at) == IF NextForm(raw, at) < Chip!Mid THEN 2 ELSE IF NextForm(raw, at) = Chip!Mid + 1 THEN 3 ELSE 4
NextSize(raw, at) ==
    IF NextForm(raw, at) < Chip!Mid THEN NextForm(raw, at)
    ELSE IF NextForm(raw, at) = Chip!Mid + 1 THEN raw[at + 2] ELSE Chip!Value(raw[at + 2], raw[at + 3])
NextFits(raw, at) ==
    /\ NextForm(raw, at) < Chip!Mid \/ NextForm(raw, at) \in {Chip!Mid + 1, Chip!Mid + 2}
    /\ at + NextHead(raw, at) - 1 <= Len(raw)
    /\ NextForm(raw, at) = Chip!Mid + 1 => NextSize(raw, at) >= Chip!Mid
    /\ NextForm(raw, at) = Chip!Mid + 2 => NextSize(raw, at) > Chip!MaxByte
    /\ at + NextHead(raw, at) - 1 + NextSize(raw, at) <= Len(raw)

LEMMA NextUnfolds ==
    ASSUME NEW raw, NEW at
    PROVE  Chip!NextTlv(raw, at) =
               IF NextFits(raw, at)
               THEN [ok |-> TRUE, tag |-> raw[at], next |-> at + NextHead(raw, at) + NextSize(raw, at),
                     value |-> SubSeq(raw, at + NextHead(raw, at), at + NextHead(raw, at) + NextSize(raw, at) - 1)]
               ELSE [ok |-> FALSE, tag |-> 0, next |-> Len(raw) + 1, value |-> <<>>]
  BY Zenon DEF Chip!NextTlv, NextForm, NextHead, NextSize, NextFits

\* Where an object starts, next_ber_tlv reads it.
LEMMA TlvReads ==
    ASSUME NEW pre \in Seq(Nat), NEW post \in Seq(Nat), NEW v \in Seq(Nat), NEW tag \in Nat, NEW raw,
           Joined(raw, pre, Chip!PushTlv(tag, v), post)
    PROVE  Chip!NextTlv(raw, Len(pre) + 1) = Object(tag, v, Len(pre) + Len(Chip!PushTlv(tag, v)) + 1)
<1> DEFINE T == Chip!PushTlv(tag, v)
           L == Length(Len(v))
           a == <<tag>>
           p == Len(pre)
           n == Len(v)
           l == Len(L)
<1>1. p \in Nat /\ n \in Nat /\ Len(post) \in Nat
  OBVIOUS
<1>2. T \in Seq(Nat) /\ Len(T) = 1 + l + n /\ L \in Seq(Nat) /\ Joined(T, a, L, v) /\ a \in Seq(Nat)
  BY PushForm, Zenon
<1>3. Len(a) = 1 /\ a[1] = tag
  OBVIOUS
<1>4. l \in Nat
  BY <1>2
<1> HIDE DEF T, L, a
<1>6. /\ raw \in Seq(Nat) /\ Len(raw) = Len(pre) + Len(T) + Len(post)
      /\ \A k \in 1 .. Len(T) : raw[Len(pre) + k] = T[k]
  <2>1. Joined(raw, pre, T, post) /\ T \in Seq(Nat)
    BY <1>2 DEF T
  <2>2. raw \in Seq(Nat) /\ Len(raw) = Len(pre) + Len(T) + Len(post)
    BY <2>1, Concat3
  <2>3. \A k \in 1 .. Len(T) : raw[Len(pre) + k] = T[k]
    BY <2>1, Concat3
  <2> QED
    BY <2>2, <2>3, Zenon
<1>7. /\ \A k \in 1 .. Len(a) : T[k] = a[k]
      /\ \A k \in 1 .. Len(L) : T[Len(a) + k] = L[k]
      /\ \A k \in 1 .. Len(v) : T[Len(a) + Len(L) + k] = v[k]
  <2>1. Joined(T, a, L, v) /\ a \in Seq(Nat) /\ L \in Seq(Nat)
    BY <1>2
  <2> QED
    BY <2>1, Concat3
<1> DEFINE at == p + 1
           r == Len(raw)
<1>8. /\ raw[at] = tag /\ r \in Nat /\ at + l + n <= r /\ raw \in Seq(Nat)
      /\ \A k \in 1 .. l : raw[at + k] = L[k]
      /\ \A k \in 1 .. n : raw[at + l + k] = v[k]
  <2> HIDE DEF p, n, l
  <2>0. p = Len(pre) /\ n = Len(v) /\ l = Len(L)
    BY DEF p, n, l
  <2>1. \A k \in 1 .. 1 + l + n : raw[p + k] = T[k]
    BY <1>2, <1>6, <2>0
  <2>2. 1 \in 1 .. 1 + l + n /\ 1 \in 1 .. Len(a)
    BY <1>1, <1>3, <1>4
  <2>3. raw[at] = tag
    BY <1>3, <1>7, <2>1, <2>2
  <2>4. ASSUME NEW k \in 1 .. l PROVE raw[at + k] = L[k]
    <3>1. 1 + k \in 1 .. 1 + l + n /\ p + (1 + k) = at + k
      BY <1>1, <1>4
    <3>2. raw[p + (1 + k)] = T[1 + k] /\ T[1 + k] = L[k]
      BY <1>3, <1>7, <2>0, <2>1, <3>1
    <3> QED
      BY <3>1, <3>2
  <2>5. ASSUME NEW k \in 1 .. n PROVE raw[at + l + k] = v[k]
    <3>1. 1 + l + k \in 1 .. 1 + l + n /\ p + (1 + l + k) = at + l + k
      BY <1>1, <1>4
    <3>2. raw[p + (1 + l + k)] = T[1 + l + k] /\ T[1 + l + k] = v[k]
      BY <1>3, <1>7, <2>0, <2>1, <3>1
    <3> QED
      BY <3>1, <3>2
  <2> QED
    BY <1>1, <1>2, <1>4, <1>6, <2>0, <2>3, <2>4, <2>5
<1>9. SubSeq(raw, at + l + 1, at + l + n) = v
  <2> HIDE DEF p, l, n, r, at
  <2>0. n = Len(v) /\ at \in Nat /\ at >= 1 /\ r = Len(raw)
    BY <1>1 DEF n, at, r
  <2>1. SubSeq(raw, at + l + 1, at + l + n) = [k \in 1 .. n |-> raw[at + l + k]]
    BY <1>1, <1>4, <1>8, <2>0
  <2>2. v = [k \in 1 .. n |-> v[k]]
    BY <2>0
  <2> QED
    BY <1>8, <2>1, <2>2
<1> HIDE DEF p, l, n, r, at
<1>10. at \in Nat /\ at >= 1 /\ r = Len(raw) /\ n = Len(v) /\ p = Len(pre) /\ l = Len(L) /\ at = p + 1
  BY <1>1 DEF p, l, n, r, at
<1>11. /\ Chip!Mid \in Nat /\ Chip!Mid > 2 /\ Byte = 2 * Chip!Mid /\ Chip!MaxByte = Byte - 1
  BY WireConstants
<1>12. CASE n < Chip!Mid
  <2>1. l = 1 /\ L[1] = n
    BY <1>1, <1>10, <1>12, LengthForms DEF L
  <2>2. raw[at + 1] = n
    BY <1>8, <2>1
  <2>3. at < Len(raw) /\ at + 2 - 1 + n <= Len(raw) /\ at + 2 - 1 <= Len(raw)
    BY <1>1, <1>8, <1>10, <2>1
  <2>4. Chip!NextTlv(raw, at) = [ok |-> TRUE, tag |-> raw[at], next |-> at + 2 + n,
                                 value |-> SubSeq(raw, at + 2, at + 2 + n - 1)]
    <3> USE DEF NextForm
    <3>1. NextForm(raw, at) = n
      BY <2>3, <2>2
    <3> HIDE DEF NextForm
    <3>2. NextHead(raw, at) = 2 /\ NextSize(raw, at) = n
      BY <1>1, <1>11, <1>12, <2>2, <3>1 DEF NextHead, NextSize
    <3>3. NextFits(raw, at)
      BY <1>1, <1>11, <1>12, <2>3, <3>1, <3>2 DEF NextFits
    <3> QED
      BY <3>2, <3>3, NextUnfolds
  <2>5. at + 2 = at + l + 1 /\ at + 2 + n - 1 = at + l + n /\ at + 2 + n = p + (1 + l + n) + 1
    BY <1>1, <1>10, <2>1
  <2>6. Chip!NextTlv(raw, at) = Object(tag, v, p + (1 + l + n) + 1)
    BY <1>8, <1>9, <2>4, <2>5 DEF Object
  <2> QED
    BY <1>2, <1>10, <2>6 DEF T
<1>13. CASE n >= Chip!Mid /\ n <= Chip!MaxByte
  <2>1. l = 2 /\ L[1] = Chip!Mid + 1 /\ L[2] = n
    BY <1>1, <1>10, <1>13, LengthForms DEF L
  <2>2. raw[at + 1] = Chip!Mid + 1 /\ raw[at + 2] = n
    BY <1>8, <2>1
  <2>3. at < Len(raw) /\ at + 3 - 1 + n <= Len(raw) /\ at + 3 - 1 <= Len(raw)
    BY <1>1, <1>8, <1>10, <2>1
  <2>4. Chip!NextTlv(raw, at) = [ok |-> TRUE, tag |-> raw[at], next |-> at + 3 + n,
                                 value |-> SubSeq(raw, at + 3, at + 3 + n - 1)]
    <3> USE DEF NextForm
    <3>1. NextForm(raw, at) = Chip!Mid + 1
      BY <2>3, <2>2
    <3> HIDE DEF NextForm
    <3>2. NextHead(raw, at) = 3 /\ NextSize(raw, at) = n
      BY <1>1, <1>11, <1>13, <2>2, <3>1 DEF NextHead, NextSize
    <3>3. NextFits(raw, at)
      BY <1>1, <1>11, <1>13, <2>3, <3>1, <3>2 DEF NextFits
    <3> QED
      BY <3>2, <3>3, NextUnfolds
  <2>5. at + 3 = at + l + 1 /\ at + 3 + n - 1 = at + l + n /\ at + 3 + n = p + (1 + l + n) + 1
    BY <1>1, <1>10, <2>1
  <2>6. Chip!NextTlv(raw, at) = Object(tag, v, p + (1 + l + n) + 1)
    BY <1>8, <1>9, <2>4, <2>5 DEF Object
  <2> QED
    BY <1>2, <1>10, <2>6 DEF T
<1>14. CASE n > Chip!MaxByte
  <2>0. l = 3
    BY <1>1, <1>10, <1>14, LengthForms DEF L
  <2>1. l = 3 /\ L[1] = Chip!Mid + 2 /\ L[2] = n \div Byte /\ L[3] = n % Byte
    BY <1>1, <1>10, <1>14, LengthForms DEF L
  <2>2. raw[at + 1] = Chip!Mid + 2 /\ raw[at + 2] = n \div Byte /\ raw[at + 3] = n % Byte
    BY <1>8, <2>1
  <2>2a. Chip!Value(raw[at + 2], raw[at + 3]) = n
    BY <1>1, <2>2, WordRead
  <2>2b. raw[at + 1] = Chip!Mid + 2
    BY <2>2
  <2>3. at < Len(raw) /\ at + 4 - 1 + n <= Len(raw) /\ at + 4 - 1 <= Len(raw)
    <3>1. at \in Nat /\ n \in Nat /\ r \in Nat /\ at + 3 + n <= r /\ r = Len(raw)
      BY <1>1, <1>8, <1>10, <2>0
    <3> QED
      BY <3>1
  <2>4. Chip!NextTlv(raw, at) = [ok |-> TRUE, tag |-> raw[at], next |-> at + 4 + n,
                                 value |-> SubSeq(raw, at + 4, at + 4 + n - 1)]
    <3> USE DEF NextForm
    <3>1. NextForm(raw, at) = Chip!Mid + 2
      BY <2>3, <2>2b
    <3> HIDE DEF NextForm
    <3>2. NextHead(raw, at) = 4 /\ NextSize(raw, at) = n
      BY <1>1, <1>11, <1>14, <2>2a, <3>1 DEF NextHead, NextSize
    <3>3. NextFits(raw, at)
      BY <1>1, <1>11, <1>14, <2>3, <3>1, <3>2 DEF NextFits
    <3> QED
      BY <3>2, <3>3, NextUnfolds
  <2>5. at + 4 = at + l + 1 /\ at + 4 + n - 1 = at + l + n /\ at + 4 + n = p + (1 + l + n) + 1
    BY <1>1, <1>10, <2>0
  <2>6. Chip!NextTlv(raw, at) = Object(tag, v, p + (1 + l + n) + 1)
    BY <1>8, <1>9, <2>4, <2>5 DEF Object
  <2> QED
    BY <1>2, <1>10, <2>6 DEF T
<1> QED
  BY <1>1, <1>11, <1>12, <1>13, <1>14

\* Reading an object goes forward, and not beyond the end.
LEMMA NextGoesOn ==
    ASSUME NEW raw \in Seq(Nat), NEW at \in 1 .. Len(raw)
    PROVE  /\ Chip!NextTlv(raw, at).next \in at + 1 .. Len(raw) + 1
<1> DEFINE form == NextForm(raw, at)
           size == NextSize(raw, at)
           head == NextHead(raw, at)
           fits == NextFits(raw, at)
<1> USE DEF NextForm, NextSize, NextHead, NextFits
<1>1. Chip!NextTlv(raw, at) = IF fits
        THEN [ok |-> TRUE, tag |-> raw[at], next |-> at + head + size,
              value |-> SubSeq(raw, at + head, at + head + size - 1)]
        ELSE [ok |-> FALSE, tag |-> 0, next |-> Len(raw) + 1, value |-> <<>>]
  BY NextUnfolds
<1>2. Chip!NextTlv(raw, at).next = IF fits THEN at + head + size ELSE Len(raw) + 1
  <2> HIDE DEF fits, head, size
  <2> QED
    BY <1>1
<1>3. CASE fits
  <2>1. form \in Nat /\ head \in {2, 3, 4} /\ at + head - 1 <= Len(raw)
    BY <1>3, WireConstants
  <2>2. size \in Nat
    <3>1. CASE form < Chip!Mid
      BY <3>1, <2>1
    <3>2. CASE form = Chip!Mid + 1
      <4>1. size = raw[at + 2] /\ head = 3
        BY <3>2, WireConstants
      <4>2. at + 2 \in 1 .. Len(raw)
        BY <2>1, <4>1
      <4> QED
        BY <4>1, <4>2
    <3>3. CASE ~(form < Chip!Mid) /\ form # Chip!Mid + 1
      <4>1. size = Chip!Value(raw[at + 2], raw[at + 3]) /\ head = 4
        BY <3>3
      <4>2. at + 2 \in 1 .. Len(raw) /\ at + 3 \in 1 .. Len(raw)
        BY <2>1, <4>1
      <4>3. raw[at + 2] \in Nat /\ raw[at + 3] \in Nat /\ Byte \in Nat
        BY <4>2, WireConstants
      <4>4. \A hi, lo \in Nat : Chip!Value(hi, lo) \in Nat
        BY <4>3 DEF Chip!Value
      <4> QED
        BY <4>1, <4>3, <4>4
    <3> QED
      BY <3>1, <3>2, <3>3
  <2>3. at + head - 1 + size <= Len(raw)
    BY <1>3
  <2> HIDE DEF head, size, fits
  <2> QED
    BY <1>2, <1>3, <2>1, <2>2, <2>3
<1>4. CASE ~fits
  BY <1>2, <1>4
<1> QED
  BY <1>3, <1>4

\* The objects of raw from each of its places on, down to the place from.
ObjectsFrom(h, raw, from) ==
    h = [at \in from .. Len(raw) + 1 |->
            IF at > Len(raw) THEN <<>> ELSE <<Chip!NextTlv(raw, at)>> \o h[Chip!NextTlv(raw, at).next]]

FromHere(h, raw, at) ==
    h[at] = IF at > Len(raw) THEN <<>> ELSE <<Chip!NextTlv(raw, at)>> \o h[Chip!NextTlv(raw, at).next]

LEMMA ObjectsUnfold ==
    ASSUME NEW h, NEW raw, NEW from, ObjectsFrom(h, raw, from)
    PROVE  \A at \in from .. Len(raw) + 1 : FromHere(h, raw, at)
  BY Zenon DEF ObjectsFrom, FromHere

LEMMA ObjectsFromOneMore ==
    ASSUME NEW raw \in Seq(Nat), NEW l \in Nat, l < Len(raw), NEW h, ObjectsFrom(h, raw, Len(raw) + 1 - l)
    PROVE  \E g : ObjectsFrom(g, raw, Len(raw) + 1 - (l + 1))
<1> DEFINE e == Len(raw)
           f == e + 1 - l
           z == e + 1 - (l + 1)
           O(at) == <<Chip!NextTlv(raw, at)>>
           N(at) == Chip!NextTlv(raw, at).next
           g == [at \in z .. e + 1 |-> IF at = z THEN O(at) \o h[N(at)] ELSE h[at]]
           r == [at \in z .. e + 1 |-> IF at > e THEN <<>> ELSE O(at) \o g[N(at)]]
<1>1. e \in Nat /\ z \in 1 .. e /\ f = z + 1 /\ z \in Nat
  OBVIOUS
<1>2. \A at \in z .. e : N(at) \in at + 1 .. e + 1
  BY <1>1, NextGoesOn
<1>3. ASSUME NEW at \in f .. e + 1 PROVE h[at] = IF at > e THEN <<>> ELSE O(at) \o h[N(at)]
  <2>1. at \in Len(raw) + 1 - l .. Len(raw) + 1
    OBVIOUS
  <2>2. FromHere(h, raw, at)
    BY <2>1, ObjectsUnfold
  <2> QED
    BY <2>2, Zenon DEF FromHere
<1> HIDE DEF O, N, e, f, z
<1>4. \A at \in f .. e + 1 : g[at] = h[at]
  BY <1>1
<1>5. ASSUME NEW at \in z .. e + 1 PROVE g[at] = r[at]
  <2>1. CASE at = z
    <3>1. N(at) \in f .. e + 1 /\ ~(at > e)
      BY <1>1, <1>2, <2>1
    <3>2. g[N(at)] = h[N(at)]
      BY <1>4, <3>1
    <3> QED
      BY <2>1, <3>1, <3>2
  <2>2. CASE at > e
    <3>1. at \in f .. e + 1 /\ at # z
      BY <1>1, <2>2
    <3>2. h[at] = <<>>
      BY <1>3, <2>2, <3>1
    <3> QED
      BY <2>2, <3>1, <3>2
  <2>3. CASE at # z /\ ~(at > e)
    <3>1. at \in f .. e + 1 /\ N(at) \in f .. e + 1
      <4>1. at \in z .. e /\ at \in f .. e + 1
        BY <1>1, <2>3
      <4>2. N(at) \in at + 1 .. e + 1
        BY <1>2, <4>1
      <4> QED
        BY <1>1, <4>1, <4>2
    <3>2. g[at] = h[at] /\ g[N(at)] = h[N(at)]
      BY <1>4, <3>1
    <3>3. h[at] = O(at) \o h[N(at)]
      BY <1>3, <2>3, <3>1
    <3>4. r[at] = O(at) \o g[N(at)]
      BY <2>3
    <3> HIDE DEF g, r
    <3> QED
      BY <3>2, <3>3, <3>4
  <2> QED
    BY <2>1, <2>2, <2>3
<1>6. g = r
  BY <1>5
<1>7. ObjectsFrom(g, raw, z)
  BY <1>6, Zenon DEF ObjectsFrom, e, O, N
<1> QED
  <2> HIDE DEF g
  <2> QED
    BY <1>7 DEF z, e

LEMMA ObjectsDefined ==
    ASSUME NEW raw \in Seq(Nat)
    PROVE  \E h : ObjectsFrom(h, raw, 1) /\ Chip!Objects(raw) = h[1]
<1> DEFINE e == Len(raw)
           S == {l \in Nat : \E h : ObjectsFrom(h, raw, e + 1 - l)}
<1>1. e \in Nat
  OBVIOUS
<1>2. 0 \in S
  <2> DEFINE h == [at \in e + 1 .. e + 1 |-> <<>>]
             r == [at \in e + 1 .. e + 1 |->
                      IF at > e THEN <<>> ELSE <<Chip!NextTlv(raw, at)>> \o h[Chip!NextTlv(raw, at).next]]
  <2>1. ASSUME NEW at \in e + 1 .. e + 1 PROVE h[at] = r[at]
    BY <1>1
  <2>2. h = r
    BY <2>1
  <2>3. ObjectsFrom(h, raw, e + 1)
    BY <2>2, Zenon DEF ObjectsFrom
  <2>4. e + 1 - 0 = e + 1
    BY <1>1
  <2> HIDE DEF h
  <2> QED
    BY <2>3, <2>4
<1>3. \A k \in Nat : k < e /\ k \in S => k + 1 \in S
  <2> SUFFICES ASSUME NEW k \in Nat, k < e, k \in S PROVE k + 1 \in S
    OBVIOUS
  <2>1. PICK h : ObjectsFrom(h, raw, e + 1 - k)
    OBVIOUS
  <2>2. \E g : ObjectsFrom(g, raw, e + 1 - (k + 1))
    BY <2>1, ObjectsFromOneMore
  <2> QED
    BY <2>2
<1>4. e \in S
  <2> HIDE DEF S, e
  <2>1. \A k \in 0 .. e : k \in S
    BY <1>1, <1>2, <1>3, UpTo
  <2> QED
    BY <1>1, <2>1
<1>5. \E h : ObjectsFrom(h, raw, 1)
  <2>1. e + 1 - e = 1
    BY <1>1
  <2> QED
    BY <1>4, <2>1
<1> DEFINE h == CHOOSE x : ObjectsFrom(x, raw, 1)
<1>6. ObjectsFrom(h, raw, 1)
  BY <1>5
<1>7. Chip!Objects(raw) = h[1]
  BY Zenon DEF Chip!Objects, ObjectsFrom
<1> HIDE DEF h
<1> QED
  BY <1>6, <1>7

\* An object at some place, and what is found after it.
LEMMA ObjectReads ==
    ASSUME NEW pre \in Seq(Nat), NEW post \in Seq(Nat), NEW v \in Seq(Nat), NEW tag \in Nat,
           NEW raw, Joined(raw, pre, Chip!PushTlv(tag, v), post), NEW h, ObjectsFrom(h, raw, 1)
    PROVE  LET next == Len(pre) + Len(Chip!PushTlv(tag, v)) + 1 IN
           h[Len(pre) + 1] = <<Object(tag, v, next)>> \o h[next]
<1> DEFINE at == Len(pre) + 1
           next == Len(pre) + Len(Chip!PushTlv(tag, v)) + 1
           o == Object(tag, v, next)
           part == Chip!PushTlv(tag, v)
<1>1. Chip!NextTlv(raw, at) = o
  BY TlvReads
<1>3. Len(part) \in Nat /\ Len(part) >= 1 /\ part \in Seq(Nat)
  <2>0. Len(v) \in Nat
    OBVIOUS
  <2>1. Length(Len(v)) \in Seq(Nat) /\ Len(part) = 1 + Len(Length(Len(v))) + Len(v) /\ part \in Seq(Nat)
    BY PushForm, Zenon
  <2>2. Len(Length(Len(v))) \in Nat
    BY <2>1
  <2> HIDE DEF part
  <2> QED
    BY <2>0, <2>1, <2>2
<1>2. raw \in Seq(Nat) /\ Len(raw) = Len(pre) + Len(part) + Len(post)
  <2>1. Joined(raw, pre, part, post)
    OBVIOUS
  <2> HIDE DEF part
  <2> QED
    BY <1>3, <2>1, Concat3
<1>4. Len(pre) \in Nat /\ Len(post) \in Nat
  OBVIOUS
<1>5. at \in 1 .. Len(raw) + 1 /\ ~(at > Len(raw))
  <2> HIDE DEF part
  <2> QED
    BY <1>2, <1>3, <1>4
<1>7. o.next = next
  BY DEF Object
<1> HIDE DEF o, at, next
<1>6. FromHere(h, raw, at)
  BY <1>5, ObjectsUnfold
<1>8. h[at] = <<o>> \o h[next]
  BY <1>1, <1>5, <1>6, <1>7 DEF FromHere
<1> QED
  BY <1>8 DEF o, at, next

\* What fills up the last block.
Filler(l) == (Block - ((l + 1) % Block)) % Block

\* A multiple of the block has no remainder.
LEMMA NoRemainder ==
    ASSUME NEW q \in Nat, NEW b \in Nat, b > 0
    PROVE  (q * b) % b = 0
<1> DEFINE x == q * b
           d == x \div b
           m == x % b
<1>1. x \in Nat
  OBVIOUS
<1> HIDE DEF x
<1>2. d \in Nat
  BY <1>1
<1>3. m \in Nat /\ m < b
  BY <1>1
<1>4. d * b + m = x
  BY <1>1
<1> HIDE DEF d, m
<1>5. d * b + m = q * b
  BY <1>4 DEF x
<1>6. CASE d = q
  <2>1. d * b = q * b
    BY <1>6
  <2>2. d * b \in Int
    BY <1>2
  <2> QED
    BY <1>3, <1>5, <2>1, <2>2 DEF m, x
<1>7. CASE d < q
  <2>1. PICK e \in Nat : q = d + 1 + e
    <3>1. q - d - 1 \in Nat /\ q = d + 1 + (q - d - 1)
      BY <1>2, <1>7
    <3> QED
      BY <3>1
  <2>2. q * b = d * b + b + e * b /\ e * b \in Nat /\ d * b \in Nat
    BY <1>2, <2>1
  <2> QED
    BY <1>3, <1>5, <2>2
<1>8. CASE d > q
  <2>1. PICK e \in Nat : d = q + 1 + e
    <3>1. d - q - 1 \in Nat /\ d = q + 1 + (d - q - 1)
      BY <1>2, <1>8
    <3> QED
      BY <3>1
  <2>2. d * b = q * b + b + e * b /\ e * b \in Nat /\ q * b \in Nat
    BY <1>2, <2>1
  <2> QED
    BY <1>3, <1>5, <2>2
<1> QED
  BY <1>2, <1>6, <1>7, <1>8

\* Padding fills up whole blocks, by at most one.
LEMMA PaddedLength ==
    ASSUME NEW l \in Nat
    PROVE  /\ Filler(l) \in Nat
           /\ \E q \in Nat : l + 1 + Filler(l) = q * Block
           /\ l + 1 + Filler(l) <= l + Block
<1> DEFINE a == (l + 1) \div Block
           b == (l + 1) % Block
<1>0. Block \in Nat /\ Block >= 1
  BY WireConstants
<1>1. a \in Nat
  BY <1>0
<1>2. b \in Nat /\ b < Block
  BY <1>0
<1>3. a * Block + b = l + 1
  BY <1>0
<1>4. Filler(l) = (Block - b) % Block
  BY DEF Filler
<1> HIDE DEF a, b
<1>5. CASE b = 0
  <2>1. Filler(l) = Block % Block
    BY <1>0, <1>4, <1>5
  <2>2. Block % Block = 0
    BY <1>0
  <2>3. l + 1 + 0 = a * Block
    <3>1. a * Block \in Nat
      BY <1>0, <1>1
    <3> QED
      BY <1>3, <1>5, <3>1
  <2>4. Filler(l) = 0
    BY <2>1, <2>2
  <2> QED
    BY <1>0, <1>1, <2>3, <2>4
<1>6. CASE b > 0
  <2> DEFINE f == Block - b
  <2>1. f \in Nat /\ f < Block
    BY <1>0, <1>2, <1>6
  <2> HIDE DEF f
  <2>2. f % Block = f
    BY <1>0, <2>1
  <2>3. Filler(l) = Block - b
    BY <1>4, <2>2 DEF f
  <2>4. a + 1 \in Nat /\ (a + 1) * Block = a * Block + Block /\ a * Block \in Nat
    BY <1>0, <1>1
  <2>5. l + 1 + Filler(l) = (a + 1) * Block
    BY <1>0, <1>2, <1>3, <2>3, <2>4
  <2> QED
    BY <1>0, <1>2, <1>6, <2>3, <2>4, <2>5
<1> QED
  BY <1>2, <1>5, <1>6

\* The padded data in its places.
LEMMA PadForm ==
    ASSUME NEW data \in Seq(Nat)
    PROVE  LET p == Chip!Pad(data)
               l == Len(data) IN
           /\ p \in Seq(Nat) /\ Len(p) = l + 1 + Filler(l)
           /\ SubSeq(p, 1, l) = data /\ p[l + 1] = Chip!Mid
           /\ \A k \in l + 2 .. Len(p) : p[k] = 0
<1> DEFINE p == Chip!Pad(data)
           l == Len(data)
           f == Filler(l)
           m == <<Chip!Mid>>
           z == [i \in 1 .. f |-> 0]
<1>1. l \in Nat
  OBVIOUS
<1>2. f \in Nat
  BY <1>1, PaddedLength
<1>3. Joined(p, data, m, z)
  BY Zenon DEF Joined, Chip!Pad, Filler
<1>4. m \in Seq(Nat) /\ Len(m) = 1 /\ m[1] = Chip!Mid
  BY WireConstants
<1> HIDE DEF f
<1>5. z \in Seq(Nat) /\ Len(z) = f /\ \A k \in 1 .. f : z[k] = 0
  BY <1>2
<1> HIDE DEF m, z, p
<1>6. /\ p \in Seq(Nat) /\ Len(p) = Len(data) + Len(m) + Len(z)
      /\ \A k \in 1 .. Len(data) : p[k] = data[k]
      /\ \A k \in 1 .. Len(m) : p[Len(data) + k] = m[k]
      /\ \A k \in 1 .. Len(z) : p[Len(data) + Len(m) + k] = z[k]
  <2>1. m \in Seq(Nat) /\ z \in Seq(Nat)
    BY <1>4, <1>5
  <2> QED
    BY <1>3, <2>1, Concat3
<1>7. p[l + 1] = Chip!Mid
  BY <1>1, <1>4, <1>6
<1>8. Len(p) = l + 1 + f
  BY <1>4, <1>5, <1>6
<1>9. ASSUME NEW k \in l + 2 .. Len(p) PROVE p[k] = 0
  <2>1. k - (l + 1) \in 1 .. Len(z) /\ l + 1 + (k - (l + 1)) = k
    BY <1>1, <1>2, <1>5, <1>8
  <2>2. p[l + 1 + (k - (l + 1))] = z[k - (l + 1)]
    BY <1>4, <1>6, <2>1
  <2> QED
    BY <1>5, <2>1, <2>2
<1>10. SubSeq(p, 1, l) = data
  <2>1. SubSeq(p, 1, l) = [k \in 1 .. l |-> p[k]]
    <3> HIDE DEF l
    <3> QED
      BY <1>1, <1>2, <1>6, <1>8
  <2>2. data = [k \in 1 .. l |-> data[k]]
    OBVIOUS
  <2> QED
    BY <1>6, <2>1, <2>2
<1> QED
  BY <1>6, <1>7, <1>8, <1>9, <1>10 DEF f, p

\* What is padded is found again.
LEMMA UnpadPad ==
    ASSUME NEW data \in Seq(Nat)
    PROVE  Chip!Unpad(Chip!Pad(data)) = Chip!Command(data, Chip!NoLe)
<1> DEFINE p == Chip!Pad(data)
           l == Len(data)
           last == {i \in 1 .. Len(p) : p[i] # 0 /\ \A j \in i + 1 .. Len(p) : p[j] = 0}
<1>1. /\ p \in Seq(Nat) /\ Len(p) = l + 1 + Filler(l)
      /\ SubSeq(p, 1, l) = data /\ p[l + 1] = Chip!Mid
      /\ \A k \in l + 2 .. Len(p) : p[k] = 0
  BY PadForm
<1>2. l \in Nat /\ Filler(l) \in Nat
  BY PaddedLength
<1>3. Chip!Mid # 0
  BY WireConstants
<1>4. Chip!Unpad(p) = IF \E i \in last : p[i] = Chip!Mid
                      THEN Chip!Command(SubSeq(p, 1, (CHOOSE i \in last : TRUE) - 1), Chip!NoLe)
                      ELSE Chip!Err
  BY Zenon DEF Chip!Unpad
<1> HIDE DEF p, l
<1>5. l + 1 \in last
  BY <1>1, <1>2, <1>3
<1>6. ASSUME NEW i \in last PROVE i = l + 1
  <2>1. CASE i > l + 1
    BY <1>1, <1>2, <2>1
  <2>2. CASE i < l + 1
    <3>1. l + 1 \in i + 1 .. Len(p)
      BY <1>1, <1>2, <2>2
    <3> QED
      BY <1>1, <1>3, <3>1
  <2> QED
    BY <1>2, <2>1, <2>2
<1> HIDE DEF last
<1>7. (CHOOSE i \in last : TRUE) = l + 1
  BY <1>5, <1>6
<1>8. (l + 1) - 1 = l
  BY <1>2
<1>9. Chip!Unpad(p) = Chip!Command(SubSeq(p, 1, (l + 1) - 1), Chip!NoLe)
  BY <1>1, <1>4, <1>5, <1>7
<1>10. Chip!Unpad(p) = Chip!Command(data, Chip!NoLe)
  BY <1>1, <1>8, <1>9
<1> QED
  BY <1>10 DEF p

Objs == [ok : BOOLEAN, tag : Nat, next : Nat, value : Seq(Nat)]
IsObject(o, tag, v) == o.ok /\ o.tag = tag /\ o.value = v

\* One more at the front of a list.
Cons(x, o, y) == x = <<o>> \o y
LEMMA ConsForm ==
    ASSUME NEW o \in Objs, NEW y \in Seq(Objs), NEW x, Cons(x, o, y)
    PROVE  x \in Seq(Objs) /\ Len(x) = 1 + Len(y) /\ x[1] = o /\ \A i \in 1 .. Len(y) : x[i + 1] = y[i]
  BY DEF Cons

\* The objects that are found, in their order.
Found1(x, t1, v1) == x \in Seq(Objs) /\ Len(x) = 1 /\ IsObject(x[1], t1, v1)
Found2(x, t1, v1, t2, v2) == x \in Seq(Objs) /\ Len(x) = 2 /\ IsObject(x[1], t1, v1) /\ IsObject(x[2], t2, v2)
Found3(x, t1, v1, t2, v2, t3, v3) ==
    /\ x \in Seq(Objs) /\ Len(x) = 3
    /\ IsObject(x[1], t1, v1) /\ IsObject(x[2], t2, v2) /\ IsObject(x[3], t3, v3)
Found4(x, t1, v1, t2, v2, t3, v3, t4, v4) ==
    /\ x \in Seq(Objs) /\ Len(x) = 4
    /\ IsObject(x[1], t1, v1) /\ IsObject(x[2], t2, v2) /\ IsObject(x[3], t3, v3) /\ IsObject(x[4], t4, v4)

\* At some place there is an object, and what is found at the next place.
ReadsObject(h, at, tag, v, next) == \E o \in Objs : IsObject(o, tag, v) /\ Cons(h[at], o, h[next])

\* raw ends with s, after pre.
Ends(raw, pre, s) == raw = pre \o s

LEMMA Regroup ==
    ASSUME NEW a \in Seq(Nat), NEW b \in Seq(Nat), NEW c \in Seq(Nat)
    PROVE  a \o (b \o c) = a \o b \o c /\ a \o b \in Seq(Nat) /\ b \o c \in Seq(Nat)
<1> DEFINE s == a \o (b \o c)
           t == a \o b \o c
<1>1. /\ s \in Seq(Nat) /\ Len(s) = Len(a) + Len(b) + Len(c)
      /\ t \in Seq(Nat) /\ Len(t) = Len(a) + Len(b) + Len(c)
  OBVIOUS
<1>2. ASSUME NEW k \in 1 .. Len(s) PROVE s[k] = t[k]
  OBVIOUS
<1> HIDE DEF s, t
<1>3. s = t
  BY <1>1, <1>2, SeqEqual
<1> QED
  BY <1>3 DEF s, t

\* An object at the beginning of what is left.
LEMMA EndReads ==
    ASSUME NEW pre \in Seq(Nat), NEW s \in Seq(Nat), NEW v \in Seq(Nat), NEW tag \in Nat, NEW raw,
           Ends(raw, pre, Chip!PushTlv(tag, v) \o s), NEW h, ObjectsFrom(h, raw, 1)
    PROVE  /\ pre \o Chip!PushTlv(tag, v) \in Seq(Nat)
           /\ Ends(raw, pre \o Chip!PushTlv(tag, v), s)
           /\ ReadsObject(h, Len(pre) + 1, tag, v, Len(pre \o Chip!PushTlv(tag, v)) + 1)
<1> DEFINE p == Chip!PushTlv(tag, v)
<1>1. p \in Seq(Nat)
  BY PushForm, Zenon
<1> DEFINE next == Len(pre) + Len(p) + 1
           o == Object(tag, v, next)
<1>3. Ends(raw, pre, p \o s)
  OBVIOUS
<1> HIDE DEF p
<1>4. raw = pre \o p \o s
  <2>1. pre \o (p \o s) = pre \o p \o s
    BY <1>1, Regroup
  <2> QED
    BY <1>3, <2>1, Zenon DEF Ends
<1>5. pre \o p \in Seq(Nat) /\ Len(pre \o p) = Len(pre) + Len(p) /\ Len(pre) + Len(p) + 1 \in Nat
  BY <1>1
<1>6. Joined(raw, pre, p, s) /\ Ends(raw, pre \o p, s)
  BY <1>4, Zenon DEF Joined, Ends
<1>7. h[Len(pre) + 1] = <<o>> \o h[next]
  BY <1>6, ObjectReads DEF p
<1>8. next \in Nat
  BY <1>5
<1> HIDE DEF next
<1>9. IsObject(o, tag, v) /\ o \in Objs
  BY <1>8 DEF IsObject, Object, Objs
<1> HIDE DEF o
<1>10. ReadsObject(h, Len(pre) + 1, tag, v, next)
  BY <1>7, <1>9 DEF ReadsObject, Cons
<1>11. next = Len(pre \o p) + 1
  BY <1>5 DEF next
<1> QED
  BY <1>5, <1>6, <1>10, <1>11 DEF p

\* Nothing is left.
LEMMA EndEmpty ==
    ASSUME NEW pre \in Seq(Nat), NEW raw, Ends(raw, pre, <<>>), NEW h, ObjectsFrom(h, raw, 1)
    PROVE  h[Len(pre) + 1] = <<>>
<1>1. raw = pre
  BY DEF Ends
<1>2. Len(raw) \in Nat
  BY <1>1
<1>3. Len(raw) + 1 \in 1 .. Len(raw) + 1 /\ Len(raw) + 1 > Len(raw)
  BY <1>2
<1>4. FromHere(h, raw, Len(raw) + 1)
  BY <1>3, ObjectsUnfold
<1> QED
  BY <1>1, <1>3, <1>4 DEF FromHere

LEMMA Objects1 ==
    ASSUME NEW pre \in Seq(Nat), NEW v1 \in Seq(Nat), NEW t1 \in Nat, NEW raw,
           Ends(raw, pre, Chip!PushTlv(t1, v1)), NEW h, ObjectsFrom(h, raw, 1)
    PROVE  Found1(h[Len(pre) + 1], t1, v1)
<1> DEFINE p == Chip!PushTlv(t1, v1)
           q == pre \o p
<1>1. p \in Seq(Nat)
  BY PushForm, Zenon
<1>2. p \o <<>> = p /\ <<>> \in Seq(Nat)
  <2> HIDE DEF p
  <2> QED
    BY <1>1
<1>3. Ends(raw, pre, p \o <<>>)
  BY <1>2
<1>4. q \in Seq(Nat) /\ Ends(raw, q, <<>>) /\ ReadsObject(h, Len(pre) + 1, t1, v1, Len(q) + 1)
  BY <1>2, <1>3, EndReads, Zenon
<1> HIDE DEF p, q
<1>5. h[Len(q) + 1] = <<>>
  BY <1>4, EndEmpty
<1>6. PICK o \in Objs : IsObject(o, t1, v1) /\ Cons(h[Len(pre) + 1], o, <<>>)
  BY <1>4, <1>5 DEF ReadsObject
<1>7. <<>> \in Seq(Objs) /\ Len(<<>>) = 0
  OBVIOUS
<1> DEFINE x == h[Len(pre) + 1]
           y == <<>>
<1>8. y \in Seq(Objs) /\ Len(y) = 0 /\ Cons(x, o, y)
  BY <1>6, <1>7
<1> HIDE DEF x, y
<1>9. x \in Seq(Objs) /\ Len(x) = 1 /\ x[1] = o
  <2>1. x \in Seq(Objs) /\ Len(x) = 1 + Len(y) /\ x[1] = o
    BY <1>8, ConsForm
  <2> QED
    BY <1>8, <2>1
<1> QED
  BY <1>6, <1>9 DEF Found1, x

LEMMA Objects2 ==
    ASSUME NEW pre \in Seq(Nat), NEW v1 \in Seq(Nat), NEW t1 \in Nat, NEW v2 \in Seq(Nat), NEW t2 \in Nat, NEW raw,
           Ends(raw, pre, Chip!PushTlv(t1, v1) \o Chip!PushTlv(t2, v2)), NEW h, ObjectsFrom(h, raw, 1)
    PROVE  Found2(h[Len(pre) + 1], t1, v1, t2, v2)
<1> DEFINE p == Chip!PushTlv(t1, v1)
           s == Chip!PushTlv(t2, v2)
           q == pre \o p
           x == h[Len(pre) + 1]
           y == h[Len(q) + 1]
<1>1. s \in Seq(Nat)
  BY PushForm, Zenon
<1>2. q \in Seq(Nat) /\ Ends(raw, q, s) /\ ReadsObject(h, Len(pre) + 1, t1, v1, Len(q) + 1)
  BY <1>1, EndReads, Zenon
<1> HIDE DEF q
<1>3. Found1(y, t2, v2)
  BY <1>2, Objects1
<1>4. PICK o \in Objs : IsObject(o, t1, v1) /\ Cons(x, o, y)
  BY <1>2 DEF ReadsObject
<1> HIDE DEF x, y
<1>5. y \in Seq(Objs) /\ Len(y) = 1 /\ IsObject(y[1], t2, v2)
  BY <1>3 DEF Found1
<1>6. x \in Seq(Objs) /\ Len(x) = 2 /\ x[1] = o /\ x[1 + 1] = y[1]
  <2>1. y \in Seq(Objs) /\ Cons(x, o, y)
    BY <1>4, <1>5
  <2>2. x \in Seq(Objs) /\ Len(x) = 1 + Len(y) /\ x[1] = o /\ \A i \in 1 .. Len(y) : x[i + 1] = y[i]
    BY <2>1, ConsForm
  <2> QED
    BY <1>5, <2>2
<1> QED
  BY <1>4, <1>5, <1>6 DEF Found2, x

LEMMA Objects3 ==
    ASSUME NEW pre \in Seq(Nat), NEW v1 \in Seq(Nat), NEW t1 \in Nat, NEW v2 \in Seq(Nat), NEW t2 \in Nat,
           NEW v3 \in Seq(Nat), NEW t3 \in Nat, NEW raw,
           Ends(raw, pre, Chip!PushTlv(t1, v1) \o (Chip!PushTlv(t2, v2) \o Chip!PushTlv(t3, v3))),
           NEW h, ObjectsFrom(h, raw, 1)
    PROVE  Found3(h[Len(pre) + 1], t1, v1, t2, v2, t3, v3)
<1> DEFINE p == Chip!PushTlv(t1, v1)
           s == Chip!PushTlv(t2, v2) \o Chip!PushTlv(t3, v3)
           q == pre \o p
           x == h[Len(pre) + 1]
           y == h[Len(q) + 1]
<1>1. s \in Seq(Nat)
  <2>1. Chip!PushTlv(t2, v2) \in Seq(Nat) /\ Chip!PushTlv(t3, v3) \in Seq(Nat)
    BY PushForm, Zenon
  <2> QED
    BY <2>1, BytesAppended
<1>2. q \in Seq(Nat) /\ Ends(raw, q, s) /\ ReadsObject(h, Len(pre) + 1, t1, v1, Len(q) + 1)
  BY <1>1, EndReads, Zenon
<1> HIDE DEF q
<1>3. Found2(y, t2, v2, t3, v3)
  BY <1>2, Objects2
<1>4. PICK o \in Objs : IsObject(o, t1, v1) /\ Cons(x, o, y)
  BY <1>2 DEF ReadsObject
<1> HIDE DEF x, y
<1>5. y \in Seq(Objs) /\ Len(y) = 2 /\ IsObject(y[1], t2, v2) /\ IsObject(y[2], t3, v3)
  BY <1>3 DEF Found2
<1>6. x \in Seq(Objs) /\ Len(x) = 3 /\ x[1] = o /\ x[1 + 1] = y[1] /\ x[2 + 1] = y[2]
  <2>1. y \in Seq(Objs) /\ Cons(x, o, y)
    BY <1>4, <1>5
  <2>2. x \in Seq(Objs) /\ Len(x) = 1 + Len(y) /\ x[1] = o /\ \A i \in 1 .. Len(y) : x[i + 1] = y[i]
    BY <2>1, ConsForm
  <2> QED
    BY <1>5, <2>2
<1> QED
  BY <1>4, <1>5, <1>6 DEF Found3, x

LEMMA Objects4 ==
    ASSUME NEW pre \in Seq(Nat), NEW v1 \in Seq(Nat), NEW t1 \in Nat, NEW v2 \in Seq(Nat), NEW t2 \in Nat,
           NEW v3 \in Seq(Nat), NEW t3 \in Nat, NEW v4 \in Seq(Nat), NEW t4 \in Nat, NEW raw,
           Ends(raw, pre, Chip!PushTlv(t1, v1)
                             \o (Chip!PushTlv(t2, v2) \o (Chip!PushTlv(t3, v3) \o Chip!PushTlv(t4, v4)))),
           NEW h, ObjectsFrom(h, raw, 1)
    PROVE  Found4(h[Len(pre) + 1], t1, v1, t2, v2, t3, v3, t4, v4)
<1> DEFINE p == Chip!PushTlv(t1, v1)
           u == Chip!PushTlv(t3, v3) \o Chip!PushTlv(t4, v4)
           s == Chip!PushTlv(t2, v2) \o u
           q == pre \o p
           x == h[Len(pre) + 1]
           y == h[Len(q) + 1]
<1>1. s \in Seq(Nat)
  <2>1. Chip!PushTlv(t2, v2) \in Seq(Nat) /\ Chip!PushTlv(t3, v3) \in Seq(Nat) /\ Chip!PushTlv(t4, v4) \in Seq(Nat)
    BY PushForm, Zenon
  <2>2. u \in Seq(Nat)
    BY <2>1, BytesAppended
  <2> HIDE DEF u
  <2> QED
    BY <2>1, <2>2, BytesAppended
<1>2. q \in Seq(Nat) /\ Ends(raw, q, s) /\ ReadsObject(h, Len(pre) + 1, t1, v1, Len(q) + 1)
  BY <1>1, EndReads, Zenon
<1> HIDE DEF q
<1>3. Found3(y, t2, v2, t3, v3, t4, v4)
  BY <1>2, Objects3
<1>4. PICK o \in Objs : IsObject(o, t1, v1) /\ Cons(x, o, y)
  BY <1>2 DEF ReadsObject
<1> HIDE DEF x, y
<1>5. /\ y \in Seq(Objs) /\ Len(y) = 3
      /\ IsObject(y[1], t2, v2) /\ IsObject(y[2], t3, v3) /\ IsObject(y[3], t4, v4)
  BY <1>3 DEF Found3
<1>6. x \in Seq(Objs) /\ Len(x) = 4 /\ x[1] = o /\ x[1 + 1] = y[1] /\ x[2 + 1] = y[2] /\ x[3 + 1] = y[3]
  <2>1. y \in Seq(Objs) /\ Cons(x, o, y)
    BY <1>4, <1>5
  <2>2. x \in Seq(Objs) /\ Len(x) = 1 + Len(y) /\ x[1] = o /\ \A i \in 1 .. Len(y) : x[i + 1] = y[i]
    BY <2>1, ConsForm
  <2> QED
    BY <1>5, <2>2
<1> QED
  BY <1>4, <1>5, <1>6 DEF Found4, x

\* From the beginning.
LEMMA ObjectsStart ==
    ASSUME NEW raw \in Seq(Nat)
    PROVE  \E h : ObjectsFrom(h, raw, 1) /\ Chip!Objects(raw) = h[Len(<<>>) + 1] /\ Ends(raw, <<>>, raw)
<1>1. PICK h : ObjectsFrom(h, raw, 1) /\ Chip!Objects(raw) = h[1]
  BY ObjectsDefined
<1>2. Len(<<>>) + 1 = 1 /\ raw = <<>> \o raw
  OBVIOUS
<1> QED
  BY <1>1, <1>2 DEF Ends

\* The values of the objects: cryptogram, status and MAC.
Cryptogram(data) == <<1>> \o Chip!Pad(data)
StatusWord == <<Chip!Mid, 0>>

LEMMA ValuesTyped ==
    /\ StatusWord \in Seq(Nat) /\ Len(StatusWord) = 2 /\ Chip!Mac \in Seq(Nat) /\ Len(Chip!Mac) = Block
    /\ {Chip!DO87, Chip!DO97, Chip!DO99, Chip!DO8E} \subseteq Nat
<1>1. Chip!Mid \in Nat /\ Block \in Nat
  BY WireConstants
<1>2. StatusWord \in Seq(Nat) /\ Len(StatusWord) = 2
  BY <1>1 DEF StatusWord
<1>3. Chip!Mac \in Seq(Nat) /\ Len(Chip!Mac) = Block
  BY <1>1 DEF Chip!Mac
<1> QED
  BY <1>2, <1>3 DEF Chip!DO87, Chip!DO97, Chip!DO99, Chip!DO8E

LEMMA CryptogramForm ==
    ASSUME NEW data \in Seq(Nat)
    PROVE  LET w == Cryptogram(data) IN
           /\ w \in Seq(Nat) /\ Len(w) = 1 + Len(data) + 1 + Filler(Len(data)) /\ Len(w) > 1 /\ w[1] = 1
           /\ (Len(w) - 1) % Block = 0 /\ Tail(w) = Chip!Pad(data)
<1> DEFINE w == Cryptogram(data)
           p == Chip!Pad(data)
           l == Len(data)
<1>1. p \in Seq(Nat) /\ Len(p) = l + 1 + Filler(l)
  BY PadForm
<1>2. l \in Nat /\ Filler(l) \in Nat
  BY PaddedLength
<1>3. PICK q \in Nat : l + 1 + Filler(l) = q * Block
  BY <1>2, PaddedLength
<1>4. Block \in Nat /\ Block > 0
  BY WireConstants
<1>5. (q * Block) % Block = 0
  BY <1>4, NoRemainder
<1>6. w = <<1>> \o p
  BY DEF Cryptogram
<1> HIDE DEF p, w, l
<1>7. w \in Seq(Nat) /\ Len(w) = 1 + Len(p) /\ w[1] = 1 /\ Tail(w) = p
  BY <1>1, <1>6
<1>8. Len(w) - 1 = l + 1 + Filler(l) /\ Len(w) > 1 /\ Len(w) = 1 + l + 1 + Filler(l)
  <2> DEFINE f == Filler(l)
             m == Len(p)
  <2>1. m = l + 1 + f /\ Len(w) = 1 + m /\ l \in Nat /\ f \in Nat
    BY <1>1, <1>2, <1>7
  <2> HIDE DEF f, m
  <2>2. Len(w) - 1 = l + 1 + f /\ Len(w) > 1 /\ Len(w) = 1 + l + 1 + f
    BY <2>1
  <2> QED
    BY <2>2 DEF f
<1>9. (Len(w) - 1) % Block = 0
  BY <1>3, <1>5, <1>8
<1> QED
  BY <1>7, <1>8, <1>9 DEF p, w, l

LEMMA ObjectsFit ==
    ASSUME NEW o
    PROVE  /\ \A data \in Seq(Nat) : IsObject(o, Chip!DO87, Cryptogram(data)) => Chip!ObjectFits(o)
           /\ IsObject(o, Chip!DO99, StatusWord) => Chip!ObjectFits(o)
           /\ IsObject(o, Chip!DO8E, Chip!Mac) => Chip!ObjectFits(o)
  BY CryptogramForm, ValuesTyped, Zenon DEF IsObject, Chip!ObjectFits

LEMMA SameCardinality ==
    ASSUME NEW S
    PROVE  Chip!Cardinality(S) = Cardinality(S)
  BY Zenon DEF Chip!Cardinality, Cardinality

\* unprotect_response, on the objects.
Verdict(os) ==
    LET tags == {os[i].tag : i \in 1 .. Len(os)}
        do87 == {i \in 1 .. Len(os) : os[i].tag = Chip!DO87}
    IN  IF \/ \E i \in 1 .. Len(os) : ~Chip!ObjectFits(os[i])
           \/ Chip!Cardinality(tags) # Len(os) \/ ~{Chip!DO99, Chip!DO8E} \subseteq tags
        THEN Chip!Err
        ELSE IF do87 = {} THEN Chip!Command(<<>>, Chip!NoLe)
        ELSE Chip!Unpad(Tail(os[CHOOSE i \in do87 : TRUE].value))

LEMMA ReadResponseIs ==
    ASSUME NEW raw
    PROVE  Chip!ReadResponse(raw) = Verdict(Chip!Objects(raw))
  BY Zenon DEF Chip!ReadResponse, Verdict

LEMMA Count2 ==
    ASSUME NEW a, NEW b, a # b
    PROVE  IsFiniteSet({a, b}) /\ Cardinality({a, b}) = 2
<1>1. IsFiniteSet({a}) /\ Cardinality({a}) = 1
  BY FS_Singleton
<1>2. {a, b} = {a} \cup {b} /\ b \notin {a}
  OBVIOUS
<1>3. IsFiniteSet({a} \cup {b}) /\ Cardinality({a} \cup {b}) = 1 + 1
  BY <1>1, <1>2, FS_AddElement
<1> QED
  BY <1>2, <1>3

\* The tags in a list of two, three and four objects.
TagsOf(os) == {os[i].tag : i \in 1 .. Len(os)}
LEMMA TagSets ==
    ASSUME NEW os
    PROVE  /\ Len(os) = 1 => TagsOf(os) = {os[1].tag}
           /\ Len(os) = 2 => TagsOf(os) = {os[1].tag, os[2].tag}
           /\ Len(os) = 3 => TagsOf(os) = {os[1].tag, os[2].tag, os[3].tag}
           /\ Len(os) = 4 => TagsOf(os) = {os[1].tag, os[2].tag, os[3].tag, os[4].tag}
<1>1. 1 .. 1 = {1} /\ 1 .. 2 = {1, 2} /\ 1 .. 3 = {1, 2, 3} /\ 1 .. 4 = {1, 2, 3, 4}
  OBVIOUS
<1> QED
  BY <1>1 DEF TagsOf

LEMMA TagsDiffer == /\ Chip!DO87 # Chip!DO99 /\ Chip!DO87 # Chip!DO8E /\ Chip!DO99 # Chip!DO8E
                    /\ Chip!DO97 # Chip!DO87 /\ Chip!DO97 # Chip!DO99 /\ Chip!DO97 # Chip!DO8E
  BY DEF Chip!DO87, Chip!DO97, Chip!DO99, Chip!DO8E

\* An object that is not one, a tag that comes twice and a status that is
\* missing are refused.
LEMMA Refused ==
    ASSUME NEW os,
           \/ \E i \in 1 .. Len(os) : ~Chip!ObjectFits(os[i])
           \/ Cardinality(TagsOf(os)) # Len(os)
           \/ Chip!DO99 \notin TagsOf(os)
    PROVE  Verdict(os) = Chip!Err
<1>1. \/ \E i \in 1 .. Len(os) : ~Chip!ObjectFits(os[i])
      \/ Chip!Cardinality(TagsOf(os)) # Len(os)
      \/ ~({Chip!DO99, Chip!DO8E} \subseteq TagsOf(os))
  BY SameCardinality
<1> QED
  BY <1>1, Zenon DEF Verdict, TagsOf

\* Without a cryptogram there is no data.
LEMMA NoData ==
    ASSUME NEW os, Len(os) = 2, \A i \in 1 .. 2 : Chip!ObjectFits(os[i]),
           {os[1].tag, os[2].tag} = {Chip!DO99, Chip!DO8E}
    PROVE  Verdict(os) = Chip!Command(<<>>, Chip!NoLe)
<1>1. TagsOf(os) = {Chip!DO99, Chip!DO8E}
  BY TagSets
<1>2. Chip!Cardinality(TagsOf(os)) = Len(os)
  <2>1. Cardinality({Chip!DO99, Chip!DO8E}) = 2
    BY TagsDiffer, Count2, Zenon
  <2> QED
    BY <1>1, <2>1, SameCardinality
<1>3. {Chip!DO99, Chip!DO8E} \subseteq TagsOf(os)
  BY <1>1
<1>4. {i \in 1 .. Len(os) : os[i].tag = Chip!DO87} = {}
  BY <1>1, TagsDiffer DEF TagsOf
<1>5. ~\E i \in 1 .. Len(os) : ~Chip!ObjectFits(os[i])
  OBVIOUS
<1> QED
  BY <1>2, <1>3, <1>4, <1>5, Zenon DEF Verdict, TagsOf

LEMMA ThreeTags == Cardinality({Chip!DO87, Chip!DO99, Chip!DO8E}) = 3
<1> DEFINE T == {Chip!DO99, Chip!DO8E}
<1>1. IsFiniteSet(T) /\ Cardinality(T) = 2
  BY TagsDiffer, Count2, Zenon
<1>2. {Chip!DO87, Chip!DO99, Chip!DO8E} = T \cup {Chip!DO87} /\ Chip!DO87 \notin T
  BY TagsDiffer
<1> HIDE DEF T
<1>3. Cardinality(T \cup {Chip!DO87}) = 2 + 1
  BY <1>1, <1>2, FS_AddElement
<1> QED
  BY <1>2, <1>3

\* With one, its value is the data.
LEMMA ItsData ==
    ASSUME NEW os, Len(os) = 3, \A i \in 1 .. 3 : Chip!ObjectFits(os[i]),
           {os[1].tag, os[2].tag, os[3].tag} = {Chip!DO87, Chip!DO99, Chip!DO8E},
           NEW k \in 1 .. 3, os[k].tag = Chip!DO87, \A i \in 1 .. 3 : os[i].tag = Chip!DO87 => i = k
    PROVE  Verdict(os) = Chip!Unpad(Tail(os[k].value))
<1>1. TagsOf(os) = {Chip!DO87, Chip!DO99, Chip!DO8E}
  BY TagSets
<1>2. Chip!Cardinality(TagsOf(os)) = Len(os)
  <2>1. Cardinality({Chip!DO87, Chip!DO99, Chip!DO8E}) = 3
    BY ThreeTags
  <2> QED
    BY <1>1, <2>1, SameCardinality
<1>3. {Chip!DO99, Chip!DO8E} \subseteq TagsOf(os)
  BY <1>1
<1> DEFINE do87 == {i \in 1 .. Len(os) : os[i].tag = Chip!DO87}
<1>4. do87 = {k}
  OBVIOUS
<1>5. ~\E i \in 1 .. Len(os) : ~Chip!ObjectFits(os[i])
  OBVIOUS
<1>6. do87 # {} /\ (CHOOSE i \in do87 : TRUE) = k
  BY <1>4
<1>7. Verdict(os) = IF do87 = {} THEN Chip!Command(<<>>, Chip!NoLe)
                    ELSE Chip!Unpad(Tail(os[CHOOSE i \in do87 : TRUE].value))
  BY <1>2, <1>3, <1>5, Zenon DEF Verdict, TagsOf
<1> HIDE DEF do87
<1> QED
  BY <1>6, <1>7

LEMMA PushTyped ==
    ASSUME NEW tag \in Nat, NEW v \in Seq(Nat)
    PROVE  Chip!PushTlv(tag, v) \in Seq(Nat)
  BY PushForm, Zenon

\* One to four objects, from the beginning.
LEMMA ListOf1 ==
    ASSUME NEW v1 \in Seq(Nat), NEW t1 \in Nat
    PROVE  Found1(Chip!Objects(Chip!PushTlv(t1, v1)), t1, v1)
<1> DEFINE raw == Chip!PushTlv(t1, v1)
           e == <<>>
<1>1. raw \in Seq(Nat)
  BY PushTyped
<1>2. PICK h : ObjectsFrom(h, raw, 1) /\ Chip!Objects(raw) = h[Len(e) + 1] /\ Ends(raw, e, raw)
  BY <1>1, ObjectsStart, Zenon
<1>3. e \in Seq(Nat)
  OBVIOUS
<1> HIDE DEF e
<1>4. Found1(h[Len(e) + 1], t1, v1)
  BY <1>2, <1>3, Objects1
<1> QED
  BY <1>2, <1>4

LEMMA ListOf2 ==
    ASSUME NEW v1 \in Seq(Nat), NEW t1 \in Nat, NEW v2 \in Seq(Nat), NEW t2 \in Nat
    PROVE  Found2(Chip!Objects(Chip!PushTlv(t1, v1) \o Chip!PushTlv(t2, v2)), t1, v1, t2, v2)
<1> DEFINE raw == Chip!PushTlv(t1, v1) \o Chip!PushTlv(t2, v2)
           e == <<>>
<1>1. raw \in Seq(Nat)
  <2>1. Chip!PushTlv(t1, v1) \in Seq(Nat) /\ Chip!PushTlv(t2, v2) \in Seq(Nat)
    BY PushTyped
  <2> QED
    BY <2>1, BytesAppended
<1>2. PICK h : ObjectsFrom(h, raw, 1) /\ Chip!Objects(raw) = h[Len(e) + 1] /\ Ends(raw, e, raw)
  <2> HIDE DEF raw
  <2> QED
    BY <1>1, ObjectsStart, Zenon
<1>3. e \in Seq(Nat)
  OBVIOUS
<1> HIDE DEF e
<1>4. Found2(h[Len(e) + 1], t1, v1, t2, v2)
  BY <1>2, <1>3, Objects2
<1> QED
  BY <1>2, <1>4

\* Three and four in a row, grouped from the right.
Chained3(p, q, r) == p \o q \o r \in Seq(Nat) /\ p \o q \o r = p \o (q \o r)
LEMMA Row3 ==
    ASSUME NEW p \in Seq(Nat), NEW q \in Seq(Nat), NEW r \in Seq(Nat)
    PROVE  Chained3(p, q, r)
<1>1. p \o (q \o r) = p \o q \o r
  BY Regroup
<1>2. p \o q \o r \in Seq(Nat)
  OBVIOUS
<1> QED
  BY <1>1, <1>2 DEF Chained3

Chained4(p, q, r, u) == p \o q \o r \o u \in Seq(Nat) /\ p \o q \o r \o u = p \o (q \o (r \o u))
LEMMA Row4 ==
    ASSUME NEW p \in Seq(Nat), NEW q \in Seq(Nat), NEW r \in Seq(Nat), NEW u \in Seq(Nat)
    PROVE  Chained4(p, q, r, u)
<1> DEFINE pq == p \o q
           ru == r \o u
<1>1. pq \in Seq(Nat) /\ ru \in Seq(Nat)
  OBVIOUS
<1> HIDE DEF pq, ru
<1>2. Chained3(pq, r, u)
  BY <1>1, Row3, Zenon
<1>3. Chained3(p, q, ru)
  BY <1>1, Row3, Zenon
<1> QED
  BY <1>2, <1>3, Zenon DEF Chained3, Chained4, pq, ru

LEMMA ListOf3 ==
    ASSUME NEW v1 \in Seq(Nat), NEW t1 \in Nat, NEW v2 \in Seq(Nat), NEW t2 \in Nat, NEW v3 \in Seq(Nat), NEW t3 \in Nat
    PROVE  Found3(Chip!Objects(Chip!PushTlv(t1, v1) \o Chip!PushTlv(t2, v2) \o Chip!PushTlv(t3, v3)),
                  t1, v1, t2, v2, t3, v3)
<1> DEFINE p == Chip!PushTlv(t1, v1)
           q == Chip!PushTlv(t2, v2)
           r == Chip!PushTlv(t3, v3)
           raw == p \o q \o r
           e == <<>>
<1>1. p \in Seq(Nat) /\ q \in Seq(Nat) /\ r \in Seq(Nat)
  BY PushTyped
<1> HIDE DEF p, q, r
<1>2. raw \in Seq(Nat) /\ raw = p \o (q \o r)
  <2>1. Chained3(p, q, r)
    BY <1>1, Row3, Zenon
  <2> QED
    BY <2>1, Zenon DEF Chained3
<1> HIDE DEF raw
<1>3. PICK h : ObjectsFrom(h, raw, 1) /\ Chip!Objects(raw) = h[Len(e) + 1] /\ Ends(raw, e, raw)
  BY <1>2, ObjectsStart, Zenon
<1>4. e \in Seq(Nat)
  OBVIOUS
<1> HIDE DEF e
<1>5. Ends(raw, e, p \o (q \o r))
  BY <1>2, <1>3, Zenon
<1>6. Found3(h[Len(e) + 1], t1, v1, t2, v2, t3, v3)
  BY <1>3, <1>4, <1>5, Objects3 DEF p, q, r
<1> QED
  BY <1>3, <1>6 DEF raw, p, q, r

LEMMA ListOf4 ==
    ASSUME NEW v1 \in Seq(Nat), NEW t1 \in Nat, NEW v2 \in Seq(Nat), NEW t2 \in Nat,
           NEW v3 \in Seq(Nat), NEW t3 \in Nat, NEW v4 \in Seq(Nat), NEW t4 \in Nat
    PROVE  Found4(Chip!Objects(Chip!PushTlv(t1, v1) \o Chip!PushTlv(t2, v2)
                                  \o Chip!PushTlv(t3, v3) \o Chip!PushTlv(t4, v4)),
                  t1, v1, t2, v2, t3, v3, t4, v4)
<1> DEFINE p == Chip!PushTlv(t1, v1)
           q == Chip!PushTlv(t2, v2)
           r == Chip!PushTlv(t3, v3)
           u == Chip!PushTlv(t4, v4)
           raw == p \o q \o r \o u
           e == <<>>
<1>1. p \in Seq(Nat) /\ q \in Seq(Nat) /\ r \in Seq(Nat) /\ u \in Seq(Nat)
  BY PushTyped
<1> HIDE DEF p, q, r, u
<1>2. raw \in Seq(Nat) /\ raw = p \o (q \o (r \o u))
  <2>1. Chained4(p, q, r, u)
    BY <1>1, Row4, Zenon
  <2> QED
    BY <2>1, Zenon DEF Chained4
<1> HIDE DEF raw
<1>3. PICK h : ObjectsFrom(h, raw, 1) /\ Chip!Objects(raw) = h[Len(e) + 1] /\ Ends(raw, e, raw)
  BY <1>2, ObjectsStart, Zenon
<1>4. e \in Seq(Nat)
  OBVIOUS
<1> HIDE DEF e
<1>5. Ends(raw, e, p \o (q \o (r \o u)))
  BY <1>2, <1>3, Zenon
<1>6. Found4(h[Len(e) + 1], t1, v1, t2, v2, t3, v3, t4, v4)
  BY <1>3, <1>4, <1>5, Objects4 DEF p, q, r, u
<1> QED
  BY <1>3, <1>6 DEF raw, p, q, r, u

\* A list with something that is no object in it.
Broken(x) == x \in Seq(Objs) /\ \E i \in 1 .. Len(x) : ~x[i].ok

LEMMA BrokenStays ==
    ASSUME NEW o \in Objs, NEW y, Broken(y), NEW x, Cons(x, o, y)
    PROVE  Broken(x)
<1>1. y \in Seq(Objs)
  BY DEF Broken
<1>2. PICK i \in 1 .. Len(y) : ~y[i].ok
  BY DEF Broken
<1>3. x \in Seq(Objs) /\ Len(x) = 1 + Len(y) /\ \A k \in 1 .. Len(y) : x[k + 1] = y[k]
  BY <1>1, ConsForm
<1>4. i + 1 \in 1 .. Len(x) /\ x[i + 1] = y[i]
  BY <1>1, <1>2, <1>3
<1> QED
  BY <1>2, <1>3, <1>4 DEF Broken

\* A MAC object that is cut off is no object.
Cut == SubSeq(Chip!PushTlv(Chip!DO8E, Chip!Mac), 1, Block)

LEMMA CutForm ==
    /\ Cut \in Seq(Nat) /\ Len(Cut) = Block
    /\ Block > 1 /\ Block < Chip!Mid => Cut[2] = Block
    /\ Block >= Chip!Mid => Cut[2] = Chip!Mid + 1 /\ Cut[3] = Block
<1> DEFINE M == Chip!PushTlv(Chip!DO8E, Chip!Mac)
           a == <<Chip!DO8E>>
           L == Length(Block)
           v == Chip!Mac
<1>1. v \in Seq(Nat) /\ Len(v) = Block /\ Chip!DO8E \in Nat
  BY ValuesTyped
<1>2. /\ Joined(M, a, L, v) /\ a \in Seq(Nat) /\ L \in Seq(Nat) /\ M \in Seq(Nat)
      /\ Len(M) = 1 + Len(L) + Len(v)
  BY <1>1, PushForm
<1>3. Len(a) = 1
  OBVIOUS
<1>4. Block \in Nat /\ Block >= 1 /\ Block <= Chip!MaxByte /\ Chip!Mid \in Nat /\ Chip!Mid > 2
  BY WireConstants
<1>5. /\ Block < Chip!Mid => Len(L) = 1 /\ L[1] = Block
      /\ Block >= Chip!Mid => Len(L) = 2 /\ L[1] = Chip!Mid + 1 /\ L[2] = Block
  BY <1>4, LengthForms
<1> HIDE DEF M, a, L, v
<1>6. \A k \in 1 .. Len(L) : M[Len(a) + k] = L[k]
  <2>1. Joined(M, a, L, v) /\ a \in Seq(Nat) /\ L \in Seq(Nat) /\ v \in Seq(Nat)
    BY <1>1, <1>2
  <2> QED
    BY <2>1, Concat3
<1>7. Len(L) \in Nat /\ Block <= Len(M) /\ M \in Seq(Nat)
  BY <1>1, <1>2, <1>4
<1>8. Cut = SubSeq(M, 1, Block)
  BY DEF Cut, M
<1>9. Cut \in Seq(Nat) /\ Len(Cut) = Block /\ \A k \in 1 .. Block : Cut[k] = M[k]
  BY <1>4, <1>7, <1>8
<1>10. ASSUME Block > 1, Block < Chip!Mid PROVE Cut[2] = Block
  <2>1. M[1 + 1] = L[1]
    BY <1>3, <1>5, <1>6, <1>10
  <2>2. Cut[2] = M[2]
    BY <1>4, <1>9, <1>10
  <2> QED
    BY <1>5, <1>10, <2>1, <2>2
<1>11. ASSUME Block >= Chip!Mid PROVE Cut[2] = Chip!Mid + 1 /\ Cut[3] = Block
  <2>1. M[1 + 1] = L[1] /\ M[1 + 2] = L[2]
    BY <1>3, <1>5, <1>6, <1>11
  <2>2. Cut[2] = M[2] /\ Cut[3] = M[3]
    BY <1>4, <1>9, <1>11
  <2> QED
    BY <1>5, <1>11, <2>1, <2>2
<1> QED
  BY <1>9, <1>10, <1>11

LEMMA CutIsBroken ==
    ASSUME NEW pre \in Seq(Nat), NEW raw, Ends(raw, pre, Cut), NEW h, ObjectsFrom(h, raw, 1)
    PROVE  Broken(h[Len(pre) + 1])
<1> DEFINE at == Len(pre) + 1
<1>1. /\ Cut \in Seq(Nat) /\ Len(Cut) = Block
      /\ Block > 1 /\ Block < Chip!Mid => Cut[2] = Block
      /\ Block >= Chip!Mid => Cut[2] = Chip!Mid + 1 /\ Cut[3] = Block
  BY CutForm
<1>2. Block \in Nat /\ Block >= 1 /\ Chip!Mid \in Nat /\ Chip!Mid > 2 /\ Byte = 2 * Chip!Mid /\ Byte \in Nat
  BY WireConstants
<1>3. raw \in Seq(Nat) /\ Len(raw) = Len(pre) + Len(Cut) /\ \A k \in 1 .. Len(Cut) : raw[Len(pre) + k] = Cut[k]
  BY <1>1, BytesAppended DEF Ends
<1>4. Len(pre) \in Nat
  OBVIOUS
<1>5. Len(raw) = at - 1 + Block /\ at \in Nat /\ at >= 1
  BY <1>1, <1>2, <1>3, <1>4
<1>6. ~NextFits(raw, at)
  <2>1. CASE Block = 1
    <3>1. NextForm(raw, at) = Byte
      BY <1>5, <2>1 DEF NextForm
    <3> QED
      BY <1>2, <3>1 DEF NextFits
  <2>2. CASE Block > 1 /\ Block < Chip!Mid
    <3>1. raw[at + 1] = Block
      <4>1. raw[Len(pre) + 2] = Cut[2] /\ Len(pre) + 2 = at + 1
        BY <1>1, <1>2, <1>3, <1>4, <2>2
      <4> QED
        BY <1>1, <2>2, <4>1
    <3>2. NextForm(raw, at) = Block
      BY <1>2, <1>5, <2>2, <3>1 DEF NextForm
    <3>3. NextHead(raw, at) = 2 /\ NextSize(raw, at) = Block
      BY <2>2, <3>2 DEF NextHead, NextSize
    <3> QED
      BY <1>2, <1>5, <3>3 DEF NextFits
  <2>3. CASE Block >= Chip!Mid
    <3>1. raw[at + 1] = Chip!Mid + 1 /\ raw[at + 2] = Block
      <4>1. raw[Len(pre) + 2] = Cut[2] /\ Len(pre) + 2 = at + 1 /\ raw[Len(pre) + 3] = Cut[3] /\ Len(pre) + 3 = at + 2
        BY <1>1, <1>2, <1>3, <1>4, <2>3
      <4> QED
        BY <1>1, <2>3, <4>1
    <3>2. NextForm(raw, at) = Chip!Mid + 1
      BY <1>2, <1>5, <2>3, <3>1 DEF NextForm
    <3>3. NextHead(raw, at) = 3 /\ NextSize(raw, at) = Block
      BY <1>2, <2>3, <3>1, <3>2 DEF NextHead, NextSize
    <3> QED
      BY <1>2, <1>5, <3>3 DEF NextFits
  <2> QED
    BY <1>2, <2>1, <2>2, <2>3
<1> DEFINE o == [ok |-> FALSE, tag |-> 0, next |-> Len(raw) + 1, value |-> <<>>]
<1>7. Chip!NextTlv(raw, at) = o
  BY <1>6, NextUnfolds
<1>8. o \in Objs /\ ~o.ok /\ o.next = Len(raw) + 1
  BY <1>3 DEF Objs
<1> HIDE DEF o
<1>9. at \in 1 .. Len(raw) + 1 /\ ~(at > Len(raw)) /\ Len(raw) + 1 \in 1 .. Len(raw) + 1 /\ Len(raw) + 1 > Len(raw)
  BY <1>2, <1>5
<1> HIDE DEF at
<1>10. FromHere(h, raw, at) /\ FromHere(h, raw, Len(raw) + 1)
  BY <1>9, ObjectsUnfold
<1>11. h[Len(raw) + 1] = <<>>
  BY <1>9, <1>10 DEF FromHere
<1>12. h[at] = <<o>> \o <<>>
  BY <1>7, <1>8, <1>9, <1>10, <1>11 DEF FromHere
<1> DEFINE y == <<>>
           x == h[at]
<1>13. Cons(x, o, y) /\ y \in Seq(Objs) /\ Len(y) = 0
  BY <1>12 DEF Cons
<1> HIDE DEF x, y
<1>14. x \in Seq(Objs) /\ Len(x) = 1 + Len(y) /\ x[1] = o
  <2>1. o \in Objs /\ y \in Seq(Objs) /\ Cons(x, o, y)
    BY <1>8, <1>13
  <2> QED
    BY <2>1, ConsForm
<1>15. Broken(x)
  BY <1>8, <1>13, <1>14 DEF Broken
<1> QED
  BY <1>15 DEF x, at

\* What is cut off at the end is found after one or two objects.
LEMMA BrokenAfter ==
    ASSUME NEW h, NEW at, NEW tag, NEW v, NEW next, ReadsObject(h, at, tag, v, next), Broken(h[next])
    PROVE  Broken(h[at])
  BY BrokenStays DEF ReadsObject

LEMMA CutAfter1 ==
    ASSUME NEW v1 \in Seq(Nat), NEW t1 \in Nat
    PROVE  Broken(Chip!Objects(Chip!PushTlv(t1, v1) \o Cut))
<1> DEFINE p == Chip!PushTlv(t1, v1)
           raw == p \o Cut
           e == <<>>
           q == e \o p
<1>1. p \in Seq(Nat) /\ Cut \in Seq(Nat)
  BY PushTyped, CutForm
<1>2. raw \in Seq(Nat)
  <2> HIDE DEF p
  <2> QED
    BY <1>1
<1>3. PICK h : ObjectsFrom(h, raw, 1) /\ Chip!Objects(raw) = h[Len(e) + 1] /\ Ends(raw, e, raw)
  <2> HIDE DEF raw
  <2> QED
    BY <1>2, ObjectsStart, Zenon
<1>4. e \in Seq(Nat)
  OBVIOUS
<1> HIDE DEF e
<1>5. q \in Seq(Nat) /\ Ends(raw, q, Cut) /\ ReadsObject(h, Len(e) + 1, t1, v1, Len(q) + 1)
  BY <1>1, <1>3, <1>4, EndReads, Zenon
<1> HIDE DEF q, raw
<1>6. Broken(h[Len(q) + 1])
  BY <1>3, <1>5, CutIsBroken, Zenon
<1>7. Broken(h[Len(e) + 1])
  BY <1>5, <1>6, BrokenAfter, Zenon
<1> QED
  BY <1>3, <1>7, Zenon DEF raw

LEMMA CutAfter2 ==
    ASSUME NEW v1 \in Seq(Nat), NEW t1 \in Nat, NEW v2 \in Seq(Nat), NEW t2 \in Nat
    PROVE  Broken(Chip!Objects(Chip!PushTlv(t1, v1) \o Chip!PushTlv(t2, v2) \o Cut))
<1> DEFINE p == Chip!PushTlv(t1, v1)
           r == Chip!PushTlv(t2, v2)
           raw == p \o r \o Cut
           s == r \o Cut
           e == <<>>
           q == e \o p
           w == q \o r
<1>1. p \in Seq(Nat) /\ r \in Seq(Nat) /\ Cut \in Seq(Nat)
  BY PushTyped, CutForm
<1>2. raw \in Seq(Nat) /\ raw = p \o s /\ s \in Seq(Nat)
  <2> HIDE DEF p, r
  <2>1. Chained3(p, r, Cut)
    BY <1>1, Row3, Zenon
  <2>2. s \in Seq(Nat)
    BY <1>1
  <2> QED
    BY <2>1, <2>2, Zenon DEF Chained3
<1>3. PICK h : ObjectsFrom(h, raw, 1) /\ Chip!Objects(raw) = h[Len(e) + 1] /\ Ends(raw, e, raw)
  <2> HIDE DEF raw
  <2> QED
    BY <1>2, ObjectsStart, Zenon
<1>4. e \in Seq(Nat)
  OBVIOUS
<1> HIDE DEF e
<1>5. q \in Seq(Nat) /\ Ends(raw, q, s) /\ ReadsObject(h, Len(e) + 1, t1, v1, Len(q) + 1)
  <2> HIDE DEF raw, s
  <2>1. Ends(raw, e, p \o s)
    BY <1>2, <1>3, Zenon
  <2> QED
    BY <1>2, <1>3, <1>4, <2>1, EndReads, Zenon
<1> HIDE DEF q, raw
<1>6. w \in Seq(Nat) /\ Ends(raw, w, Cut) /\ ReadsObject(h, Len(q) + 1, t2, v2, Len(w) + 1)
  BY <1>1, <1>3, <1>5, EndReads, Zenon
<1> HIDE DEF w
<1>7. Broken(h[Len(w) + 1])
  BY <1>3, <1>6, CutIsBroken, Zenon
<1>8. Broken(h[Len(q) + 1])
  BY <1>6, <1>7, BrokenAfter, Zenon
<1>9. Broken(h[Len(e) + 1])
  BY <1>5, <1>8, BrokenAfter, Zenon
<1> QED
  BY <1>3, <1>9, Zenon DEF raw

LEMMA BrokenRefused ==
    ASSUME NEW os, Broken(os)
    PROVE  Verdict(os) = Chip!Err
<1>1. \E i \in 1 .. Len(os) : ~Chip!ObjectFits(os[i])
  BY Zenon DEF Broken, Chip!ObjectFits
<1> QED
  BY <1>1, Refused

\* What unprotect_response makes of lists of well-formed objects.
LEMMA Verdicts2 ==
    ASSUME NEW os
    PROVE  /\ Found2(os, Chip!DO99, StatusWord, Chip!DO8E, Chip!Mac) => Verdict(os) = Chip!Command(<<>>, Chip!NoLe)
           /\ Found2(os, Chip!DO8E, Chip!Mac, Chip!DO99, StatusWord) => Verdict(os) = Chip!Command(<<>>, Chip!NoLe)
           /\ Found1(os, Chip!DO8E, Chip!Mac) => Verdict(os) = Chip!Err
           /\ \A w : Found2(os, Chip!DO87, w, Chip!DO8E, Chip!Mac) => Verdict(os) = Chip!Err
<1>1. ASSUME Found2(os, Chip!DO99, StatusWord, Chip!DO8E, Chip!Mac) PROVE Verdict(os) = Chip!Command(<<>>, Chip!NoLe)
  <2>1. Len(os) = 2 /\ IsObject(os[1], Chip!DO99, StatusWord) /\ IsObject(os[2], Chip!DO8E, Chip!Mac)
    BY <1>1 DEF Found2
  <2>2. Chip!ObjectFits(os[1]) /\ Chip!ObjectFits(os[2])
    BY <2>1, ObjectsFit, Zenon
  <2>3. \A i \in 1 .. 2 : Chip!ObjectFits(os[i])
    BY <2>2
  <2>4. {os[1].tag, os[2].tag} = {Chip!DO99, Chip!DO8E}
    BY <2>1 DEF IsObject
  <2> QED
    BY <2>1, <2>3, <2>4, NoData, Zenon
<1>2. ASSUME Found2(os, Chip!DO8E, Chip!Mac, Chip!DO99, StatusWord) PROVE Verdict(os) = Chip!Command(<<>>, Chip!NoLe)
  <2>1. Len(os) = 2 /\ IsObject(os[2], Chip!DO99, StatusWord) /\ IsObject(os[1], Chip!DO8E, Chip!Mac)
    BY <1>2 DEF Found2
  <2>2. Chip!ObjectFits(os[1]) /\ Chip!ObjectFits(os[2])
    BY <2>1, ObjectsFit, Zenon
  <2>3. \A i \in 1 .. 2 : Chip!ObjectFits(os[i])
    BY <2>2
  <2>4. {os[1].tag, os[2].tag} = {Chip!DO99, Chip!DO8E}
    BY <2>1 DEF IsObject
  <2> QED
    BY <2>1, <2>3, <2>4, NoData, Zenon
<1>3. ASSUME Found1(os, Chip!DO8E, Chip!Mac) PROVE Verdict(os) = Chip!Err
  <2>1. TagsOf(os) = {os[1].tag} /\ os[1].tag = Chip!DO8E
    BY <1>3, TagSets DEF Found1, IsObject
  <2>2. Chip!DO99 \notin TagsOf(os)
    BY <2>1, TagsDiffer
  <2> QED
    BY <2>2, Refused, Zenon
<1>4. ASSUME NEW w, Found2(os, Chip!DO87, w, Chip!DO8E, Chip!Mac) PROVE Verdict(os) = Chip!Err
  <2>1. TagsOf(os) = {os[1].tag, os[2].tag} /\ os[1].tag = Chip!DO87 /\ os[2].tag = Chip!DO8E
    BY <1>4, TagSets DEF Found2, IsObject
  <2>2. Chip!DO99 \notin TagsOf(os)
    BY <2>1, TagsDiffer
  <2> QED
    BY <2>2, Refused, Zenon
<1> QED
  BY <1>1, <1>2, <1>3, <1>4, Zenon

LEMMA Verdicts3 ==
    ASSUME NEW os, NEW data \in Seq(Nat)
    PROVE  /\ Found3(os, Chip!DO87, Cryptogram(data), Chip!DO99, StatusWord, Chip!DO8E, Chip!Mac) =>
                  Verdict(os) = Chip!Command(data, Chip!NoLe)
           /\ Found3(os, Chip!DO8E, Chip!Mac, Chip!DO99, StatusWord, Chip!DO87, Cryptogram(data)) =>
                  Verdict(os) = Chip!Command(data, Chip!NoLe)
           /\ Found3(os, Chip!DO99, StatusWord, Chip!DO99, StatusWord, Chip!DO8E, Chip!Mac) => Verdict(os) = Chip!Err
           /\ Found4(os, Chip!DO87, Cryptogram(data), Chip!DO99, StatusWord, Chip!DO99, StatusWord, Chip!DO8E, Chip!Mac) =>
                  Verdict(os) = Chip!Err
<1>0. Chip!Unpad(Tail(Cryptogram(data))) = Chip!Command(data, Chip!NoLe)
  <2>1. Tail(Cryptogram(data)) = Chip!Pad(data)
    BY CryptogramForm, Zenon
  <2> QED
    BY <2>1, UnpadPad, Zenon
<1>1. ASSUME Found3(os, Chip!DO87, Cryptogram(data), Chip!DO99, StatusWord, Chip!DO8E, Chip!Mac)
      PROVE  Verdict(os) = Chip!Command(data, Chip!NoLe)
  <2>1. /\ Len(os) = 3 /\ IsObject(os[1], Chip!DO87, Cryptogram(data))
        /\ IsObject(os[2], Chip!DO99, StatusWord) /\ IsObject(os[3], Chip!DO8E, Chip!Mac)
    BY <1>1 DEF Found3
  <2>2. Chip!ObjectFits(os[1]) /\ Chip!ObjectFits(os[2]) /\ Chip!ObjectFits(os[3])
    BY <2>1, ObjectsFit, Zenon
  <2>3. \A i \in 1 .. 3 : Chip!ObjectFits(os[i])
    BY <2>2
  <2>4. /\ os[1].tag = Chip!DO87 /\ os[2].tag = Chip!DO99 /\ os[3].tag = Chip!DO8E
        /\ os[1].value = Cryptogram(data)
    BY <2>1 DEF IsObject
  <2>5. {os[1].tag, os[2].tag, os[3].tag} = {Chip!DO87, Chip!DO99, Chip!DO8E}
    BY <2>4
  <2>6. \A i \in 1 .. 3 : os[i].tag = Chip!DO87 => i = 1
    BY <2>4, TagsDiffer
  <2>7. Verdict(os) = Chip!Unpad(Tail(os[1].value))
    BY <2>1, <2>3, <2>4, <2>5, <2>6, ItsData
  <2> QED
    BY <1>0, <2>4, <2>7, Zenon
<1>2. ASSUME Found3(os, Chip!DO8E, Chip!Mac, Chip!DO99, StatusWord, Chip!DO87, Cryptogram(data))
      PROVE  Verdict(os) = Chip!Command(data, Chip!NoLe)
  <2>1. /\ Len(os) = 3 /\ IsObject(os[3], Chip!DO87, Cryptogram(data))
        /\ IsObject(os[2], Chip!DO99, StatusWord) /\ IsObject(os[1], Chip!DO8E, Chip!Mac)
    BY <1>2 DEF Found3
  <2>2. Chip!ObjectFits(os[1]) /\ Chip!ObjectFits(os[2]) /\ Chip!ObjectFits(os[3])
    BY <2>1, ObjectsFit, Zenon
  <2>3. \A i \in 1 .. 3 : Chip!ObjectFits(os[i])
    BY <2>2
  <2>4. /\ os[3].tag = Chip!DO87 /\ os[2].tag = Chip!DO99 /\ os[1].tag = Chip!DO8E
        /\ os[3].value = Cryptogram(data)
    BY <2>1 DEF IsObject
  <2>5. {os[1].tag, os[2].tag, os[3].tag} = {Chip!DO87, Chip!DO99, Chip!DO8E}
    BY <2>4
  <2>6. \A i \in 1 .. 3 : os[i].tag = Chip!DO87 => i = 3
    BY <2>4, TagsDiffer
  <2>7. Verdict(os) = Chip!Unpad(Tail(os[3].value))
    BY <2>1, <2>3, <2>4, <2>5, <2>6, ItsData
  <2> QED
    BY <1>0, <2>4, <2>7, Zenon
<1>3. ASSUME Found3(os, Chip!DO99, StatusWord, Chip!DO99, StatusWord, Chip!DO8E, Chip!Mac) PROVE Verdict(os) = Chip!Err
  <2>1. TagsOf(os) = {Chip!DO99, Chip!DO8E} /\ Len(os) = 3
    BY <1>3, TagSets DEF Found3, IsObject
  <2>2. Cardinality({Chip!DO99, Chip!DO8E}) = 2
    BY TagsDiffer, Count2, Zenon
  <2>3. Cardinality(TagsOf(os)) # Len(os)
    BY <2>1, <2>2
  <2> QED
    BY <2>3, Refused, Zenon
<1>4. ASSUME Found4(os, Chip!DO87, Cryptogram(data), Chip!DO99, StatusWord, Chip!DO99, StatusWord, Chip!DO8E, Chip!Mac)
      PROVE  Verdict(os) = Chip!Err
  <2>1. TagsOf(os) = {Chip!DO87, Chip!DO99, Chip!DO8E} /\ Len(os) = 4
    BY <1>4, TagSets DEF Found4, IsObject
  <2>2. Cardinality({Chip!DO87, Chip!DO99, Chip!DO8E}) = 3
    BY ThreeTags
  <2>3. Cardinality(TagsOf(os)) # Len(os)
    BY <2>1, <2>2
  <2> QED
    BY <2>3, Refused, Zenon
<1> QED
  BY <1>1, <1>2, <1>3, <1>4, Zenon

\* The objects of an answer to a command with that data.
AnsweredData(data) == IF data = <<>> THEN <<>> ELSE Chip!PushTlv(Chip!DO87, Cryptogram(data))
AnsweredStatus == Chip!PushTlv(Chip!DO99, StatusWord)
AnsweredMac == Chip!PushTlv(Chip!DO8E, Chip!Mac)

\* What is read of an answer that is whole, and of one that is not.
LEMMA EmptyAnswers ==
    LET S == AnsweredStatus
        M == AnsweredMac IN
    /\ Chip!ReadResponse(S \o M) = Chip!Command(<<>>, Chip!NoLe)
    /\ Chip!ReadResponse(M \o S) = Chip!Command(<<>>, Chip!NoLe)
    /\ Chip!ReadResponse(S \o S \o M) = Chip!Err
    /\ Chip!ReadResponse(M) = Chip!Err
    /\ Chip!ReadResponse(S \o Cut) = Chip!Err
<1> DEFINE S == AnsweredStatus
           M == AnsweredMac
<1>1. StatusWord \in Seq(Nat) /\ Chip!Mac \in Seq(Nat) /\ Chip!DO99 \in Nat /\ Chip!DO8E \in Nat
  BY ValuesTyped
<1>2. Found2(Chip!Objects(S \o M), Chip!DO99, StatusWord, Chip!DO8E, Chip!Mac)
  BY <1>1, ListOf2, Zenon DEF AnsweredStatus, AnsweredMac
<1>3. Found2(Chip!Objects(M \o S), Chip!DO8E, Chip!Mac, Chip!DO99, StatusWord)
  BY <1>1, ListOf2, Zenon DEF AnsweredStatus, AnsweredMac
<1>4. Found3(Chip!Objects(S \o S \o M), Chip!DO99, StatusWord, Chip!DO99, StatusWord, Chip!DO8E, Chip!Mac)
  BY <1>1, ListOf3, Zenon DEF AnsweredStatus, AnsweredMac
<1>5. Found1(Chip!Objects(M), Chip!DO8E, Chip!Mac)
  BY <1>1, ListOf1, Zenon DEF AnsweredMac
<1>6. Broken(Chip!Objects(S \o Cut))
  BY <1>1, CutAfter1, Zenon DEF AnsweredStatus
<1> HIDE DEF S, M
<1>7. Verdict(Chip!Objects(S \o M)) = Chip!Command(<<>>, Chip!NoLe)
  BY <1>2, Verdicts2, Zenon
<1>8. Verdict(Chip!Objects(M \o S)) = Chip!Command(<<>>, Chip!NoLe)
  BY <1>3, Verdicts2, Zenon
<1>9. Verdict(Chip!Objects(S \o S \o M)) = Chip!Err
  BY <1>1, <1>4, Verdicts3, Zenon
<1>10. Verdict(Chip!Objects(M)) = Chip!Err
  BY <1>5, Verdicts2, Zenon
<1>11. Verdict(Chip!Objects(S \o Cut)) = Chip!Err
  BY <1>6, BrokenRefused, Zenon
<1> QED
  BY <1>7, <1>8, <1>9, <1>10, <1>11, ReadResponseIs, Zenon DEF S, M

LEMMA DataAnswers ==
    ASSUME NEW data \in Seq(Nat)
    PROVE  LET C == Chip!PushTlv(Chip!DO87, Cryptogram(data))
               S == AnsweredStatus
               M == AnsweredMac IN
           /\ Chip!ReadResponse(C \o S \o M) = Chip!Command(data, Chip!NoLe)
           /\ Chip!ReadResponse(M \o S \o C) = Chip!Command(data, Chip!NoLe)
           /\ Chip!ReadResponse(C \o S \o S \o M) = Chip!Err
           /\ Chip!ReadResponse(C \o M) = Chip!Err
           /\ Chip!ReadResponse(C \o S \o Cut) = Chip!Err
<1> DEFINE w == Cryptogram(data)
           C == Chip!PushTlv(Chip!DO87, w)
           S == AnsweredStatus
           M == AnsweredMac
<1>1. /\ StatusWord \in Seq(Nat) /\ Chip!Mac \in Seq(Nat) /\ Chip!DO99 \in Nat /\ Chip!DO8E \in Nat
      /\ Chip!DO87 \in Nat /\ w \in Seq(Nat)
  BY ValuesTyped, CryptogramForm
<1> HIDE DEF w
<1>2. Found3(Chip!Objects(C \o S \o M), Chip!DO87, w, Chip!DO99, StatusWord, Chip!DO8E, Chip!Mac)
  BY <1>1, ListOf3, Zenon DEF AnsweredStatus, AnsweredMac
<1>3. Found3(Chip!Objects(M \o S \o C), Chip!DO8E, Chip!Mac, Chip!DO99, StatusWord, Chip!DO87, w)
  BY <1>1, ListOf3, Zenon DEF AnsweredStatus, AnsweredMac
<1>4. Found4(Chip!Objects(C \o S \o S \o M), Chip!DO87, w, Chip!DO99, StatusWord, Chip!DO99, StatusWord, Chip!DO8E, Chip!Mac)
  BY <1>1, ListOf4, Zenon DEF AnsweredStatus, AnsweredMac
<1>5. Found2(Chip!Objects(C \o M), Chip!DO87, w, Chip!DO8E, Chip!Mac)
  BY <1>1, ListOf2, Zenon DEF AnsweredMac
<1>6. Broken(Chip!Objects(C \o S \o Cut))
  BY <1>1, CutAfter2, Zenon DEF AnsweredStatus
<1> HIDE DEF S, M, C
<1>7. Verdict(Chip!Objects(C \o S \o M)) = Chip!Command(data, Chip!NoLe)
  BY <1>2, Verdicts3, Zenon DEF w
<1>8. Verdict(Chip!Objects(M \o S \o C)) = Chip!Command(data, Chip!NoLe)
  BY <1>3, Verdicts3, Zenon DEF w
<1>9. Verdict(Chip!Objects(C \o S \o S \o M)) = Chip!Err
  BY <1>1, <1>4, Verdicts3, Zenon DEF w
<1>10. Verdict(Chip!Objects(C \o M)) = Chip!Err
  BY <1>5, Verdicts2, Zenon
<1>11. Verdict(Chip!Objects(C \o S \o Cut)) = Chip!Err
  BY <1>6, BrokenRefused, Zenon
<1> QED
  BY <1>7, <1>8, <1>9, <1>10, <1>11, ReadResponseIs, Zenon DEF S, M, C, w

\* The chip's answer, in each of its forms.
Answer(data, answer) ==
    CASE answer = "whole"     -> AnsweredData(data) \o AnsweredStatus \o AnsweredMac
      [] answer = "reordered" -> AnsweredMac \o AnsweredStatus \o AnsweredData(data)
      [] answer = "repeated"  -> AnsweredData(data) \o AnsweredStatus \o AnsweredStatus \o AnsweredMac
      [] answer = "no status" -> AnsweredData(data) \o AnsweredMac
      [] answer = "cut"       -> AnsweredData(data) \o AnsweredStatus \o Cut

ReadAs(data, answer) ==
    IF answer \in {"whole", "reordered"} THEN Chip!Command(data, Chip!NoLe) ELSE Chip!Err

LEMMA AnswerForms ==
    ASSUME NEW data
    PROVE  /\ Answer(data, "whole") = AnsweredData(data) \o AnsweredStatus \o AnsweredMac
           /\ Answer(data, "reordered") = AnsweredMac \o AnsweredStatus \o AnsweredData(data)
           /\ Answer(data, "repeated") = AnsweredData(data) \o AnsweredStatus \o AnsweredStatus \o AnsweredMac
           /\ Answer(data, "no status") = AnsweredData(data) \o AnsweredMac
           /\ Answer(data, "cut") = AnsweredData(data) \o AnsweredStatus \o Cut
  BY DEF Answer

LEMMA AnswersRead ==
    ASSUME NEW data \in Seq(Nat), NEW answer \in Chip!Answers
    PROVE  Chip!ReadResponse(Answer(data, answer)) = ReadAs(data, answer)
<1> DEFINE S == AnsweredStatus
           M == AnsweredMac
           C == Chip!PushTlv(Chip!DO87, Cryptogram(data))
<1>1. S \in Seq(Nat) /\ M \in Seq(Nat) /\ Cut \in Seq(Nat)
  BY ValuesTyped, PushTyped, CutForm DEF AnsweredStatus, AnsweredMac
<1>2. CASE data = <<>>
  <2>1. AnsweredData(data) = <<>>
    BY <1>2 DEF AnsweredData
  <2>2. /\ <<>> \o S \o M = S \o M /\ M \o S \o <<>> = M \o S
        /\ <<>> \o S \o S \o M = S \o S \o M /\ <<>> \o M = M /\ <<>> \o S \o Cut = S \o Cut
    <3> HIDE DEF S, M
    <3>1. <<>> \o S = S /\ <<>> \o M = M
      BY <1>1
    <3>2. M \o S \o <<>> = M \o S
      <4> DEFINE t == M \o S
      <4>1. t \in Seq(Nat)
        BY <1>1
      <4> HIDE DEF t
      <4>2. t \o <<>> = t
        BY <4>1
      <4> QED
        BY <4>2 DEF t
    <3> QED
      BY <3>1, <3>2, Zenon
  <2>3. /\ Answer(data, "whole") = S \o M /\ Answer(data, "reordered") = M \o S
        /\ Answer(data, "repeated") = S \o S \o M /\ Answer(data, "no status") = M
        /\ Answer(data, "cut") = S \o Cut
    BY <2>1, <2>2, AnswerForms, Zenon
  <2>4. /\ Chip!ReadResponse(Answer(data, "whole")) = Chip!Command(data, Chip!NoLe)
        /\ Chip!ReadResponse(Answer(data, "reordered")) = Chip!Command(data, Chip!NoLe)
        /\ Chip!ReadResponse(Answer(data, "repeated")) = Chip!Err
        /\ Chip!ReadResponse(Answer(data, "no status")) = Chip!Err
        /\ Chip!ReadResponse(Answer(data, "cut")) = Chip!Err
    BY <1>2, <2>3, EmptyAnswers, Zenon
  <2> QED
    BY <2>4 DEF ReadAs, Chip!Answers
<1>3. CASE data # <<>>
  <2>1. AnsweredData(data) = C
    BY <1>3, Zenon DEF AnsweredData
  <2>2. /\ Answer(data, "whole") = C \o S \o M /\ Answer(data, "reordered") = M \o S \o C
        /\ Answer(data, "repeated") = C \o S \o S \o M /\ Answer(data, "no status") = C \o M
        /\ Answer(data, "cut") = C \o S \o Cut
    BY <2>1, AnswerForms, Zenon
  <2>3. /\ Chip!ReadResponse(Answer(data, "whole")) = Chip!Command(data, Chip!NoLe)
        /\ Chip!ReadResponse(Answer(data, "reordered")) = Chip!Command(data, Chip!NoLe)
        /\ Chip!ReadResponse(Answer(data, "repeated")) = Chip!Err
        /\ Chip!ReadResponse(Answer(data, "no status")) = Chip!Err
        /\ Chip!ReadResponse(Answer(data, "cut")) = Chip!Err
    BY <2>2, DataAnswers, Zenon
  <2> QED
    BY <2>3 DEF ReadAs, Chip!Answers
<1> QED
  BY <1>2, <1>3

\* The Le that protect_command writes, and the object it is in.
WrittenLe(le) == IF le = Byte THEN 0 ELSE le
LeObject(le) == IF le = Chip!NoLe THEN <<>> ELSE <<Chip!DO97, 1, WrittenLe(le)>>

LEMMA LePushed ==
    ASSUME NEW x \in Nat
    PROVE  Chip!PushTlv(Chip!DO97, <<x>>) = <<Chip!DO97, 1, x>> /\ <<x>> \in Seq(Nat)
<1>1. Chip!Mid > 2
  BY WireConstants
<1>2. Len(<<x>>) = 1 /\ 1 < Chip!Mid
  BY <1>1, WireConstants
<1>3. Chip!PushTlv(Chip!DO97, <<x>>) = <<Chip!DO97>> \o <<1>> \o <<x>>
  BY <1>2 DEF Chip!PushTlv
<1> QED
  BY <1>3

LEMMA LeWritten ==
    ASSUME NEW le \in Le, le <= Byte, le # Chip!NoLe
    PROVE  WrittenLe(le) = le % Byte /\ WrittenLe(le) \in Nat
<1>1. Byte \in Nat /\ Byte > 4 /\ le \in Nat
  BY WireConstants DEF Le
<1>2. CASE le = Byte
  <2>1. (1 * Byte) % Byte = 0
    BY <1>1, NoRemainder
  <2> QED
    BY <1>1, <1>2, <2>1 DEF WrittenLe
<1>3. CASE le < Byte
  <2>1. le % Byte = le
    BY <1>1, <1>3
  <2> QED
    BY <1>1, <1>3, <2>1 DEF WrittenLe
<1> QED
  BY <1>1, <1>2, <1>3

LEMMA ProtectedIs ==
    ASSUME NEW data, NEW le
    PROVE  Chip!ProtectedData(data, le) = AnsweredData(data) \o LeObject(le) \o AnsweredMac
  BY Zenon DEF Chip!ProtectedData, AnsweredData, LeObject, AnsweredMac, Cryptogram, WrittenLe

\* The objects the chip finds in a protected command.
FoundIn(os, data, le) ==
    /\ data = <<>> /\ le = Chip!NoLe => Found1(os, Chip!DO8E, Chip!Mac)
    /\ data = <<>> /\ le # Chip!NoLe => Found2(os, Chip!DO97, <<le % Byte>>, Chip!DO8E, Chip!Mac)
    /\ data # <<>> /\ le = Chip!NoLe => Found2(os, Chip!DO87, Cryptogram(data), Chip!DO8E, Chip!Mac)
    /\ data # <<>> /\ le # Chip!NoLe =>
           Found3(os, Chip!DO87, Cryptogram(data), Chip!DO97, <<le % Byte>>, Chip!DO8E, Chip!Mac)

LEMMA ProtectedObjects ==
    ASSUME NEW data \in Seq(Nat), NEW le \in Le, le <= Byte
    PROVE  FoundIn(Chip!Objects(Chip!ProtectedData(data, le)), data, le) /\ Chip!ProtectedData(data, le) \in Seq(Nat)
<1> DEFINE P == Chip!ProtectedData(data, le)
           w == Cryptogram(data)
           C == Chip!PushTlv(Chip!DO87, w)
           x == WrittenLe(le)
           L == Chip!PushTlv(Chip!DO97, <<x>>)
           M == AnsweredMac
<1>1. /\ Chip!Mac \in Seq(Nat) /\ Chip!DO97 \in Nat /\ Chip!DO8E \in Nat
      /\ Chip!DO87 \in Nat /\ w \in Seq(Nat) /\ M \in Seq(Nat) /\ C \in Seq(Nat)
  BY ValuesTyped, CryptogramForm, PushTyped DEF AnsweredMac
<1>2. ASSUME le # Chip!NoLe
      PROVE  x = le % Byte /\ x \in Nat /\ L = LeObject(le) /\ <<x>> \in Seq(Nat) /\ L \in Seq(Nat)
  <2>1. x = le % Byte /\ x \in Nat
    BY <1>2, LeWritten
  <2>2. L = LeObject(le) /\ <<x>> \in Seq(Nat)
    <3> HIDE DEF x
    <3>1. Chip!PushTlv(Chip!DO97, <<x>>) = <<Chip!DO97, 1, x>> /\ <<x>> \in Seq(Nat)
      BY <2>1, LePushed
    <3> QED
      BY <1>2, <3>1, Zenon DEF LeObject, x
  <2> QED
    BY <1>1, <2>1, <2>2, PushTyped
<1>3. le = Chip!NoLe => LeObject(le) = <<>>
  BY DEF LeObject
<1>4. /\ data = <<>> => AnsweredData(data) = <<>>
      /\ data # <<>> => AnsweredData(data) = C
  BY Zenon DEF AnsweredData
<1> HIDE DEF w, x, M
<1>5. CASE data = <<>> /\ le = Chip!NoLe
  <2>1. P = <<>> \o <<>> \o M
    BY <1>3, <1>4, <1>5, ProtectedIs, Zenon DEF M
  <2>2. P = M
    BY <1>1, <2>1
  <2>3. Found1(Chip!Objects(M), Chip!DO8E, Chip!Mac)
    BY <1>1, ListOf1, Zenon DEF AnsweredMac, M
  <2> QED
    BY <1>1, <1>5, <2>2, <2>3, Zenon DEF FoundIn
<1>6. CASE data = <<>> /\ le # Chip!NoLe
  <2>1. P = <<>> \o L \o M
    BY <1>2, <1>4, <1>6, ProtectedIs, Zenon DEF M
  <2>2. P = L \o M /\ L \o M \in Seq(Nat)
    <3> HIDE DEF P, L
    <3> QED
      BY <1>1, <1>2, <1>6, <2>1
  <2>3. Found2(Chip!Objects(L \o M), Chip!DO97, <<x>>, Chip!DO8E, Chip!Mac)
    BY <1>1, <1>2, <1>6, ListOf2, Zenon DEF AnsweredMac, M
  <2>4. Found2(Chip!Objects(P), Chip!DO97, <<le % Byte>>, Chip!DO8E, Chip!Mac)
    BY <1>2, <1>6, <2>2, <2>3, Zenon
  <2> QED
    BY <1>6, <2>2, <2>4, Zenon DEF FoundIn
<1>7. CASE data # <<>> /\ le = Chip!NoLe
  <2>1. P = C \o <<>> \o M
    BY <1>3, <1>4, <1>7, ProtectedIs, Zenon DEF M
  <2>2. P = C \o M /\ C \o M \in Seq(Nat)
    <3> HIDE DEF P, C
    <3> QED
      BY <1>1, <2>1
  <2>3. Found2(Chip!Objects(C \o M), Chip!DO87, w, Chip!DO8E, Chip!Mac)
    BY <1>1, ListOf2, Zenon DEF AnsweredMac, M
  <2> QED
    BY <1>7, <2>2, <2>3, Zenon DEF FoundIn, w
<1>8. CASE data # <<>> /\ le # Chip!NoLe
  <2>1. P = C \o L \o M
    BY <1>2, <1>4, <1>8, ProtectedIs, Zenon DEF M
  <2>2. P \in Seq(Nat)
    <3> HIDE DEF P, C, L
    <3> QED
      BY <1>1, <1>2, <1>8, <2>1
  <2>3. Found3(Chip!Objects(C \o L \o M), Chip!DO87, w, Chip!DO97, <<x>>, Chip!DO8E, Chip!Mac)
    BY <1>1, <1>2, <1>8, ListOf3, Zenon DEF AnsweredMac, M
  <2>4. Found3(Chip!Objects(P), Chip!DO87, w, Chip!DO97, <<le % Byte>>, Chip!DO8E, Chip!Mac)
    BY <1>2, <1>8, <2>1, <2>3, Zenon
  <2> QED
    BY <1>8, <2>2, <2>4, Zenon DEF FoundIn, w
<1> QED
  BY <1>5, <1>6, <1>7, <1>8, Zenon

\* Among them is the Le that was asked for and the data.
LesOf(os) == {o \in {os[i] : i \in DOMAIN os} : o.tag = Chip!DO97}
EchoOf(os) == IF os[1].tag = Chip!DO87 THEN Chip!PushTlv(Chip!DO87, os[1].value) ELSE <<>>

LEMMA ChipFinds ==
    ASSUME NEW data \in Seq(Nat), NEW le \in Le, NEW os, FoundIn(os, data, le)
    PROVE  /\ \A i \in DOMAIN os : os[i].ok
           /\ le = Chip!NoLe <=> LesOf(os) = {}
           /\ \A o \in LesOf(os) : o.value = <<le % Byte>>
           /\ EchoOf(os) = AnsweredData(data)
<1> DEFINE v == <<le % Byte>>
           w == Cryptogram(data)
<1>0. 1 .. 1 = {1} /\ 1 .. 2 = {1, 2} /\ 1 .. 3 = {1, 2, 3}
  OBVIOUS
<1>1. CASE data = <<>> /\ le = Chip!NoLe
  <2>1. DOMAIN os = {1} /\ IsObject(os[1], Chip!DO8E, Chip!Mac)
    BY <1>0, <1>1 DEF FoundIn, Found1
  <2>2. os[1].ok /\ os[1].tag = Chip!DO8E
    BY <2>1 DEF IsObject
  <2>3. LesOf(os) = {}
    BY <2>1, <2>2, TagsDiffer DEF LesOf
  <2>4. EchoOf(os) = <<>> /\ AnsweredData(data) = <<>>
    BY <1>1, <2>2, TagsDiffer DEF EchoOf, AnsweredData
  <2> QED
    BY <1>1, <2>1, <2>2, <2>3, <2>4
<1>2. CASE data = <<>> /\ le # Chip!NoLe
  <2>1. DOMAIN os = {1, 2} /\ IsObject(os[1], Chip!DO97, v) /\ IsObject(os[2], Chip!DO8E, Chip!Mac)
    BY <1>0, <1>2 DEF FoundIn, Found2
  <2> HIDE DEF v
  <2>2. os[1].ok /\ os[1].tag = Chip!DO97 /\ os[1].value = v /\ os[2].ok /\ os[2].tag = Chip!DO8E
    BY <2>1 DEF IsObject
  <2>3. LesOf(os) = {os[1]}
    BY <2>1, <2>2, TagsDiffer DEF LesOf
  <2>4. EchoOf(os) = <<>> /\ AnsweredData(data) = <<>>
    BY <1>2, <2>2, TagsDiffer DEF EchoOf, AnsweredData
  <2> QED
    BY <1>2, <2>1, <2>2, <2>3, <2>4 DEF v
<1>3. CASE data # <<>> /\ le = Chip!NoLe
  <2>1. DOMAIN os = {1, 2} /\ IsObject(os[1], Chip!DO87, w) /\ IsObject(os[2], Chip!DO8E, Chip!Mac)
    BY <1>0, <1>3 DEF FoundIn, Found2
  <2>2. os[1].ok /\ os[1].tag = Chip!DO87 /\ os[1].value = w /\ os[2].ok /\ os[2].tag = Chip!DO8E
    BY <2>1 DEF IsObject
  <2>3. LesOf(os) = {}
    BY <2>1, <2>2, TagsDiffer DEF LesOf
  <2>4. EchoOf(os) = AnsweredData(data)
    BY <1>3, <2>2, Zenon DEF EchoOf, AnsweredData
  <2> QED
    BY <1>3, <2>1, <2>2, <2>3, <2>4
<1>4. CASE data # <<>> /\ le # Chip!NoLe
  <2>1. /\ DOMAIN os = {1, 2, 3} /\ IsObject(os[1], Chip!DO87, w) /\ IsObject(os[2], Chip!DO97, v)
        /\ IsObject(os[3], Chip!DO8E, Chip!Mac)
    BY <1>0, <1>4 DEF FoundIn, Found3
  <2> HIDE DEF v
  <2>2. /\ os[1].ok /\ os[1].tag = Chip!DO87 /\ os[1].value = w
        /\ os[2].ok /\ os[2].tag = Chip!DO97 /\ os[2].value = v /\ os[3].ok /\ os[3].tag = Chip!DO8E
    BY <2>1 DEF IsObject
  <2>3. LesOf(os) = {os[2]}
    BY <2>1, <2>2, TagsDiffer DEF LesOf
  <2>4. EchoOf(os) = AnsweredData(data)
    BY <1>4, <2>2, Zenon DEF EchoOf, AnsweredData
  <2> QED
    BY <1>4, <2>1, <2>2, <2>3, <2>4 DEF v
<1> QED
  BY <1>1, <1>2, <1>3, <1>4

\* Data of the largest length, padded, is at most that many blocks.
LEMMA PaddedAtMost ==
    ASSUME NEW l \in Nat, l <= MaxBacData
    PROVE  l + 1 + Filler(l) <= (MaxBacData \div Block + 1) * Block
<1> DEFINE d == MaxBacData \div Block
           f == Filler(l)
<1>1. f \in Nat /\ l + 1 + f <= l + Block
  BY PaddedLength
<1>2. PICK q \in Nat : l + 1 + f = q * Block
  BY PaddedLength
<1>3. Block \in Nat /\ Block >= 1 /\ MaxBacData \in Nat
  BY WireConstants
<1>4. d \in Nat /\ MaxBacData < d * Block + Block
  <2> DEFINE m == MaxBacData % Block
  <2>1. d \in Nat
    BY <1>3
  <2>2. m \in Nat /\ m < Block
    BY <1>3
  <2>3. d * Block + m = MaxBacData
    BY <1>3
  <2> HIDE DEF d, m
  <2>4. d * Block \in Nat
    BY <1>3, <2>1
  <2> QED
    BY <1>3, <2>1, <2>2, <2>3, <2>4
<1> HIDE DEF d, f
<1>5. q * Block < d * Block + Block + Block
  <2> DEFINE x == q * Block
             y == d * Block
  <2>1. x \in Nat /\ y \in Nat
    BY <1>3, <1>4
  <2>2. l + 1 + f = x /\ MaxBacData < y + Block
    BY <1>2, <1>4
  <2> HIDE DEF x, y
  <2>3. x < y + Block + Block
    BY <1>1, <1>3, <2>1, <2>2
  <2> QED
    BY <2>3 DEF x, y
<1>6. q <= d + 1
  <2> SUFFICES ASSUME q >= d + 2 PROVE FALSE
    BY <1>2, <1>4
  <2>1. q * Block >= (d + 2) * Block
    BY <1>2, <1>3, <1>4
  <2>2. (d + 2) * Block = d * Block + Block + Block
    BY <1>3, <1>4
  <2> QED
    BY <1>3, <1>4, <1>5, <2>1, <2>2
<1>7. q * Block <= (d + 1) * Block
  BY <1>2, <1>3, <1>4, <1>6
<1> QED
  BY <1>2, <1>7 DEF d, f

LEMMA PushLength ==
    ASSUME NEW tag \in Nat, NEW v \in Seq(Nat)
    PROVE  /\ Len(Chip!PushTlv(tag, v)) <= 4 + Len(v)
           /\ Len(v) <= Chip!MaxByte => Len(Chip!PushTlv(tag, v)) <= 3 + Len(v)
<1> DEFINE n == Len(v)
           l == Len(Length(n))
           p == Len(Chip!PushTlv(tag, v))
<1>1. p = 1 + l + n /\ n \in Nat
  <2>1. p = 1 + l + n
    BY PushForm, Zenon
  <2> QED
    BY <2>1
<1>2. /\ n < Chip!Mid => l = 1
      /\ n >= Chip!Mid /\ n <= Chip!MaxByte => l = 2
      /\ n > Chip!MaxByte => l = 3
  BY <1>1, LengthForms
<1>3. Chip!Mid \in Nat /\ Chip!MaxByte \in Nat
  BY WireConstants
<1> HIDE DEF n, l, p
<1>4. p <= 4 + n /\ (n <= Chip!MaxByte => p <= 3 + n)
  BY <1>1, <1>2, <1>3
<1> QED
  BY <1>4 DEF n, p

\* Every command within the limits can be protected.
LEMMA CanBeProtected ==
    ASSUME NEW data \in Seq(Nat), NEW le \in Le, Len(data) <= MaxBacData, le <= Byte
    PROVE  Chip!Protectable(data, le)
<1> DEFINE A == AnsweredData(data)
           L == LeObject(le)
           M == AnsweredMac
           B == (MaxBacData \div Block + 1) * Block
<1>0. /\ Block \in Nat /\ Block <= Chip!MaxByte /\ Chip!MaxWord \in Nat /\ MaxBacData \div Block \in Nat
      /\ B + Block + 11 <= Chip!MaxWord /\ Block >= 1
  <2>1. Block \in Nat /\ Block <= Chip!MaxByte /\ Block >= 1 /\ Chip!MaxWord \in Nat /\ MaxBacData \in Nat
    BY WireConstants
  <2>2. B + Block + 11 <= Chip!MaxWord
    BY WireLimits DEF Chip!WireAssumption
  <2>3. MaxBacData \div Block \in Nat
    BY <2>1, Z3
  <2> QED
    BY <2>1, <2>2, <2>3
<1>1. B \in Nat
  <2> DEFINE d == MaxBacData \div Block
  <2>1. d \in Nat /\ Block \in Nat
    BY <1>0
  <2> HIDE DEF d
  <2>2. (d + 1) * Block \in Nat
    BY <2>1
  <2> QED
    BY <2>2 DEF d
<1> HIDE DEF B
<1>2. A \in Seq(Nat) /\ Len(A) <= B + 5
  <2>1. CASE data = <<>>
    <3>1. A = <<>>
      BY <2>1 DEF AnsweredData
    <3> QED
      BY <1>1, <3>1
  <2>2. CASE data # <<>>
    <3> DEFINE w == Cryptogram(data)
               p == Chip!PushTlv(Chip!DO87, w)
    <3>1. A = p
      BY <2>2, Zenon DEF AnsweredData
    <3>2. w \in Seq(Nat) /\ Len(w) = 1 + Len(data) + 1 + Filler(Len(data)) /\ Chip!DO87 \in Nat
      BY CryptogramForm, ValuesTyped
    <3>3. Len(data) \in Nat /\ Filler(Len(data)) \in Nat
      BY PaddedLength
    <3>4. Len(data) + 1 + Filler(Len(data)) <= B
      BY <3>3, PaddedAtMost DEF B
    <3> HIDE DEF w
    <3>5. Len(w) <= B + 1
      <4> DEFINE l == Len(data)
                 f == Filler(Len(data))
      <4>1. l \in Nat /\ f \in Nat /\ Len(w) = 1 + l + 1 + f /\ l + 1 + f <= B
        BY <3>2, <3>3, <3>4
      <4> HIDE DEF l, f
      <4> QED
        BY <1>1, <4>1
    <3>6. p \in Seq(Nat) /\ Len(p) <= 4 + Len(w)
      BY <3>2, PushTyped, PushLength
    <3> HIDE DEF p
    <3>7. Len(p) <= B + 5
      BY <1>1, <3>2, <3>5, <3>6
    <3> QED
      BY <3>1, <3>6, <3>7
  <2> QED
    BY <2>1, <2>2
<1>3. L \in Seq(Nat) /\ Len(L) <= 3
  <2>1. CASE le = Chip!NoLe
    BY <2>1 DEF LeObject
  <2>2. CASE le # Chip!NoLe
    <3> DEFINE x == WrittenLe(le)
    <3>1. x \in Nat /\ Chip!DO97 \in Nat
      BY <2>2, LeWritten, ValuesTyped
    <3>2. L = <<Chip!DO97, 1, x>>
      BY <2>2, Zenon DEF LeObject
    <3> HIDE DEF x
    <3> QED
      BY <3>1, <3>2
  <2> QED
    BY <2>1, <2>2
<1>4. M \in Seq(Nat) /\ Len(M) <= 3 + Block
  <2>1. Chip!Mac \in Seq(Nat) /\ Len(Chip!Mac) = Block /\ Chip!DO8E \in Nat
    BY ValuesTyped
  <2>2. Len(Chip!Mac) <= Chip!MaxByte
    BY <1>0, <2>1
  <2>3. Len(Chip!PushTlv(Chip!DO8E, Chip!Mac)) <= 3 + Len(Chip!Mac)
    BY <2>1, <2>2, PushLength
  <2>4. Chip!PushTlv(Chip!DO8E, Chip!Mac) \in Seq(Nat)
    BY <2>1, PushTyped
  <2> QED
    BY <2>1, <2>3, <2>4 DEF AnsweredMac
<1> HIDE DEF A, L, M
<1>5. Len(A \o L \o M) = Len(A) + Len(L) + Len(M) /\ Len(A) \in Nat /\ Len(L) \in Nat /\ Len(M) \in Nat
  BY <1>2, <1>3, <1>4
<1>6. Len(A \o L \o M) <= Chip!MaxWord
  <2> DEFINE n == Len(A \o L \o M)
             i == Len(A)
             j == Len(L)
             k == Len(M)
  <2>1. /\ n = i + j + k /\ i \in Nat /\ j \in Nat /\ k \in Nat
        /\ i <= B + 5 /\ j <= 3 /\ k <= 3 + Block
    BY <1>2, <1>3, <1>4, <1>5
  <2> HIDE DEF n, i, j, k
  <2>2. n <= Chip!MaxWord
    BY <1>0, <1>1, <2>1
  <2> QED
    BY <2>2 DEF n
<1>7. Len(Chip!ProtectedData(data, le)) <= Chip!MaxWord
  BY <1>6, ProtectedIs, Zenon DEF A, L, M
<1> QED
  BY <1>7 DEF Chip!Protectable

\* The data that is written.
LEMMA DataTyped ==
    ASSUME NEW n \in 0 .. Chip!MaxWord
    PROVE  Chip!Data(n) \in Seq(Nat)
<1>1. Chip!Mid \in Nat /\ Byte \in Nat /\ Byte > 4
  BY WireConstants
<1>2. \A i \in 1 .. n : (i * Chip!Mid) % Byte \in Nat
  <2> TAKE i \in 1 .. n
  <2>1. i * Chip!Mid \in Nat
    BY <1>1
  <2> DEFINE x == i * Chip!Mid
  <2> HIDE DEF x
  <2>2. x % Byte \in Nat
    BY <1>1, <2>1 DEF x
  <2> QED
    BY <2>2 DEF x
<1>3. n \in Nat
  OBVIOUS
<1> QED
  BY <1>2, <1>3 DEF Chip!Data

\* A command on its way: at each step what is known of it.
IsWire(w) == w = [step |-> w.step, answer |-> w.answer, data |-> w.data, le |-> w.le, raw |-> w.raw, read |-> w.read]
OfCommand(w) == w.data \in Seq(Nat) /\ w.le \in Le
Written(w) == Chip!Encodable(w.data, w.le) /\ w.raw = Chip!EncodeApdu(w.data, w.le)
Protected(w) ==
    /\ w.le <= Byte /\ Len(Chip!ProtectedData(w.data, w.le)) <= Chip!MaxWord
    /\ w.raw = Chip!EncodeApdu(Chip!ProtectedData(w.data, w.le), 0)

WireInv ==
    /\ IsWire(apdu)
    /\ apdu.step # "none" => OfCommand(apdu)
    /\ apdu.step = "written" => Written(apdu)
    /\ apdu.step = "read" => apdu.read = Chip!Command(apdu.data, apdu.le)
    /\ apdu.step = "protected" => Protected(apdu)
    /\ apdu.step = "answered" => apdu.answer \in Chip!Answers /\ apdu.raw = Answer(apdu.data, apdu.answer)
    /\ apdu.step = "done" => apdu.answer \in Chip!Answers /\ apdu.read = ReadAs(apdu.data, apdu.answer)

\* A protected command is read as what was protected.
LEMMA ProtectedRead ==
    ASSUME NEW data \in Seq(Nat), NEW le \in Le, le <= Byte, Len(Chip!ProtectedData(data, le)) <= Chip!MaxWord
    PROVE  Chip!DecodeApdu(Chip!EncodeApdu(Chip!ProtectedData(data, le), 0)) = Chip!Command(Chip!ProtectedData(data, le), 0)
<1> DEFINE P == Chip!ProtectedData(data, le)
<1>1. P \in Seq(Nat)
  BY ProtectedObjects
<1>2. 0 \in Le /\ 0 <= Chip!MaxWord /\ 0 <= Chip!MaxByte
  BY WireConstants DEF Le
<1>3. Chip!Encodable(P, 0)
  BY <1>2, Zenon DEF Chip!Encodable
<1> HIDE DEF P
<1>4. Chip!DecodeApdu(Chip!EncodeApdu(P, 0)) = Chip!Command(P, 0)
  BY <1>1, <1>2, <1>3, DecodeEncode, Zenon
<1> QED
  BY <1>4, Zenon DEF P

LEMMA WireStarts == Chip!Init => WireInv
  BY DEF Chip!Init, WireInv, IsWire, Chip!NoWire

LEMMA WireWritten ==
    ASSUME WireInv, NEW n \in 0 .. Chip!MaxWord, NEW le \in Les \cup {Chip!NoLe}, Chip!WriteCommand(n, le)
    PROVE  WireInv'
<1> DEFINE D == Chip!Data(n)
           E == Chip!EncodeApdu(D, le)
<1>1. D \in Seq(Nat)
  BY DataTyped
<1>2. Chip!Encodable(D, le)
  BY DEF Chip!WriteCommand
<1>3. le \in Le
  <2>1. le <= Chip!MaxWord /\ Chip!MaxWord \in Nat /\ Les \subseteq Nat
    BY <1>2, WireConstants DEF Chip!Encodable
  <2> QED
    BY <2>1 DEF Le
<1>4. IsWire(apdu)
  BY DEF WireInv
<1>5. apdu' = [apdu EXCEPT !.step = "written", !.data = D, !.le = le, !.raw = E]
  BY DEF Chip!WriteCommand
<1> HIDE DEF D, E
<1>6. /\ IsWire(apdu') /\ apdu'.step = "written" /\ apdu'.data = D /\ apdu'.le = le /\ apdu'.raw = E
  BY <1>4, <1>5 DEF IsWire
<1>7. OfCommand(apdu') /\ Written(apdu')
  BY <1>1, <1>2, <1>3, <1>6, Zenon DEF OfCommand, Written, E
<1> QED
  BY <1>6, <1>7 DEF WireInv

LEMMA WireRead ==
    ASSUME WireInv, Chip!ReadCommand
    PROVE  WireInv'
<1> DEFINE R == Chip!DecodeApdu(apdu.raw)
<1>1. IsWire(apdu) /\ apdu.step = "written" /\ OfCommand(apdu) /\ Written(apdu)
  BY DEF WireInv, Chip!ReadCommand
<1>2. apdu' = [apdu EXCEPT !.step = "read", !.read = R]
  BY DEF Chip!ReadCommand
<1>3. R = Chip!Command(apdu.data, apdu.le)
  BY <1>1, DecodeEncode, Zenon DEF OfCommand, Written
<1> HIDE DEF R
<1>4. IsWire(apdu') /\ apdu'.step = "read" /\ apdu'.data = apdu.data /\ apdu'.le = apdu.le /\ apdu'.read = R
  BY <1>1, <1>2 DEF IsWire
<1>5. OfCommand(apdu') /\ apdu'.read = Chip!Command(apdu'.data, apdu'.le)
  BY <1>1, <1>3, <1>4, Zenon DEF OfCommand
<1> QED
  BY <1>4, <1>5 DEF WireInv

LEMMA WireProtected ==
    ASSUME WireInv, Chip!ProtectRead
    PROVE  WireInv'
<1> DEFINE E == Chip!EncodeApdu(Chip!ProtectedData(apdu.read.data, apdu.read.le), 0)
<1>1. IsWire(apdu) /\ apdu.step = "read" /\ OfCommand(apdu) /\ apdu.read = Chip!Command(apdu.data, apdu.le)
  BY DEF WireInv, Chip!ProtectRead
<1>2. apdu.read.data = apdu.data /\ apdu.read.le = apdu.le
  BY <1>1 DEF Chip!Command
<1>3. Chip!Protectable(apdu.data, apdu.le)
  BY <1>2 DEF Chip!ProtectRead
<1>4. apdu' = [apdu EXCEPT !.step = "protected", !.raw = E]
  BY DEF Chip!ProtectRead
<1>5. E = Chip!EncodeApdu(Chip!ProtectedData(apdu.data, apdu.le), 0)
  BY <1>2, Zenon
<1> HIDE DEF E
<1>6. IsWire(apdu') /\ apdu'.step = "protected" /\ apdu'.data = apdu.data /\ apdu'.le = apdu.le /\ apdu'.raw = E
  BY <1>1, <1>4 DEF IsWire
<1>7. OfCommand(apdu') /\ Protected(apdu')
  BY <1>1, <1>3, <1>5, <1>6, Zenon DEF OfCommand, Protected, Chip!Protectable
<1> QED
  BY <1>6, <1>7 DEF WireInv

LEMMA WireEchoed ==
    ASSUME WireInv, NEW answer \in Chip!Answers, Chip!ChipEcho(answer)
    PROVE  WireInv'
<1> DEFINE os == Chip!Objects(Chip!DecodeApdu(apdu.raw).data)
           P == Chip!ProtectedData(apdu.data, apdu.le)
           A == CASE answer = "whole"     -> EchoOf(os) \o AnsweredStatus \o AnsweredMac
                  [] answer = "reordered" -> AnsweredMac \o AnsweredStatus \o EchoOf(os)
                  [] answer = "repeated"  -> EchoOf(os) \o AnsweredStatus \o AnsweredStatus \o AnsweredMac
                  [] answer = "no status" -> EchoOf(os) \o AnsweredMac
                  [] answer = "cut"       -> EchoOf(os) \o AnsweredStatus \o Cut
<1>1. IsWire(apdu) /\ apdu.step = "protected" /\ OfCommand(apdu) /\ Protected(apdu)
  BY DEF WireInv, Chip!ChipEcho
<1>2. Chip!DecodeApdu(apdu.raw) = Chip!Command(P, 0)
  BY <1>1, ProtectedRead, Zenon DEF OfCommand, Protected
<1>3. Chip!DecodeApdu(apdu.raw).data = P
  BY <1>2 DEF Chip!Command
<1>4. FoundIn(os, apdu.data, apdu.le)
  BY <1>1, <1>3, ProtectedObjects, Zenon DEF OfCommand, Protected
<1>5. apdu' = [apdu EXCEPT !.step = "answered", !.answer = answer, !.raw = A]
  BY Zenon DEF Chip!ChipEcho, EchoOf, AnsweredStatus, AnsweredMac, StatusWord, Cut
<1>6. EchoOf(os) = AnsweredData(apdu.data)
  BY <1>1, <1>4, ChipFinds, Zenon DEF OfCommand
<1>7. A = Answer(apdu.data, answer)
  <2> HIDE DEF os
  <2> QED
    BY <1>6, Zenon DEF Answer
<1> HIDE DEF A, os
<1>8. /\ IsWire(apdu') /\ apdu'.step = "answered" /\ apdu'.data = apdu.data /\ apdu'.le = apdu.le
      /\ apdu'.raw = A /\ apdu'.answer = answer
  BY <1>1, <1>5 DEF IsWire
<1>9. OfCommand(apdu') /\ apdu'.answer \in Chip!Answers /\ apdu'.raw = Answer(apdu'.data, apdu'.answer)
  BY <1>1, <1>7, <1>8, Zenon DEF OfCommand
<1> QED
  BY <1>8, <1>9 DEF WireInv

LEMMA WireAnswerRead ==
    ASSUME WireInv, Chip!ReadAnswer
    PROVE  WireInv'
<1> DEFINE R == Chip!ReadResponse(apdu.raw)
<1>1. /\ IsWire(apdu) /\ apdu.step = "answered" /\ OfCommand(apdu)
      /\ apdu.answer \in Chip!Answers /\ apdu.raw = Answer(apdu.data, apdu.answer)
  BY DEF WireInv, Chip!ReadAnswer
<1>2. apdu' = [apdu EXCEPT !.step = "done", !.read = R]
  BY DEF Chip!ReadAnswer
<1>3. R = ReadAs(apdu.data, apdu.answer)
  BY <1>1, AnswersRead, Zenon DEF OfCommand
<1> HIDE DEF R
<1>4. /\ IsWire(apdu') /\ apdu'.step = "done" /\ apdu'.data = apdu.data /\ apdu'.le = apdu.le
      /\ apdu'.answer = apdu.answer /\ apdu'.read = R
  BY <1>1, <1>2 DEF IsWire
<1>5. OfCommand(apdu') /\ apdu'.answer \in Chip!Answers /\ apdu'.read = ReadAs(apdu'.data, apdu'.answer)
  BY <1>1, <1>3, <1>4, Zenon DEF OfCommand
<1> QED
  BY <1>4, <1>5 DEF WireInv

\* Only the steps of the wire change it.
LEMMA WireUntouched ==
    ASSUME Chip!ReaderStep \/ Chip!ChipStep \/ UNCHANGED Chip!vars
    PROVE  UNCHANGED apdu
  BY DEF Chip!ReaderStep, Chip!ChipStep, Chip!vars, Chip!StartBac, Chip!StartPace, Chip!FinishBac, Chip!FinishPace,
         Chip!FinishGarbage, Chip!StartRead, Chip!Protect, Chip!Unprotect, Chip!UnprotectFails, Chip!ChipChallenge,
         Chip!ChipAuthenticate, Chip!ChipAgree, Chip!ChipAnswer, Chip!ChipAbort

LEMMA WireInvKept == WireInv /\ [Chip!Next]_Chip!vars => WireInv'
<1> SUFFICES ASSUME WireInv, [Chip!Next]_Chip!vars PROVE WireInv'
  OBVIOUS
<1>1. CASE Chip!WireStep
  <2>1. ASSUME NEW n \in 0 .. Chip!MaxWord, NEW le \in Les \cup {Chip!NoLe}, Chip!WriteCommand(n, le)
        PROVE  WireInv'
    BY <2>1, WireWritten
  <2>2. CASE Chip!ReadCommand
    BY <2>2, WireRead
  <2>3. CASE Chip!ProtectRead
    BY <2>3, WireProtected
  <2>4. CASE Chip!ReadAnswer
    BY <2>4, WireAnswerRead
  <2>5. ASSUME NEW a \in Chip!Answers, Chip!ChipEcho(a)
        PROVE  WireInv'
    BY <2>5, WireEchoed
  <2> QED
    BY <1>1, <2>1, <2>2, <2>3, <2>4, <2>5 DEF Chip!WireStep
<1>2. CASE UNCHANGED apdu
  BY <1>2 DEF WireInv
<1>3. Chip!WireStep \/ UNCHANGED apdu
  BY WireUntouched DEF Chip!Next
<1> QED
  BY <1>1, <1>2, <1>3

\* What is known of it suffices.
LEMMA WireInvSuffices == WireInv => Chip!WireFormsHold
<1> SUFFICES ASSUME WireInv PROVE Chip!WireFormsHold
  OBVIOUS
<1>1. apdu.step = "read" => apdu.read = Chip!Command(apdu.data, apdu.le)
  BY DEF WireInv
<1>2. apdu.step = "read" /\ Len(apdu.data) <= MaxBacData /\ apdu.le <= Byte => Chip!Protectable(apdu.data, apdu.le)
  BY CanBeProtected DEF WireInv, OfCommand
<1> DEFINE c == Chip!DecodeApdu(apdu.raw)
           os == Chip!Objects(c.data)
           P == Chip!ProtectedData(apdu.data, apdu.le)
<1>3. ASSUME apdu.step = "protected"
      PROVE  /\ c.ok /\ c.le = 0 /\ \A i \in DOMAIN os : os[i].ok
             /\ apdu.le = Chip!NoLe <=> LesOf(os) = {}
             /\ \A o \in LesOf(os) : o.value = <<apdu.le % Byte>>
  <2>1. OfCommand(apdu) /\ Protected(apdu)
    BY <1>3 DEF WireInv
  <2>2. c = Chip!Command(P, 0)
    BY <2>1, ProtectedRead, Zenon DEF OfCommand, Protected
  <2>3. c.ok /\ c.le = 0 /\ c.data = P
    <3> HIDE DEF c, P
    <3> QED
      BY <2>2 DEF Chip!Command
  <2>4. FoundIn(os, apdu.data, apdu.le)
    BY <2>1, <2>3, ProtectedObjects, Zenon DEF OfCommand, Protected
  <2> HIDE DEF os, c
  <2>5. /\ \A i \in DOMAIN os : os[i].ok
        /\ apdu.le = Chip!NoLe <=> LesOf(os) = {}
        /\ \A o \in LesOf(os) : o.value = <<apdu.le % Byte>>
    BY <2>1, <2>4, ChipFinds, Zenon DEF OfCommand
  <2> QED
    BY <2>3, <2>5, Zenon
<1>4. ASSUME apdu.step = "done"
      PROVE  IF apdu.answer \in {"whole", "reordered"}
             THEN apdu.read = Chip!Command(apdu.data, Chip!NoLe) ELSE ~apdu.read.ok
  <2>1. apdu.read = ReadAs(apdu.data, apdu.answer)
    BY <1>4 DEF WireInv
  <2>2. ~Chip!Err.ok
    BY DEF Chip!Err
  <2> QED
    BY <2>1, <2>2, Zenon DEF ReadAs
<1> QED
  BY <1>1, <1>2, <1>3, <1>4, Zenon DEF Chip!WireFormsHold, LesOf

\* Every command and every answer is read off the wire as it was put on it, at
\* every length of its data and of its objects: a command to_bytes writes is
\* read back, one within the limits can be protected and the chip finds its
\* data and Le in it, and of the answers exactly those that are whole are read
\* (chip_io, ApduCommand, protect_command and unprotect_response).
THEOREM WireFormsCorrect == Chip!Spec => []WireFormsHold
<1>1. WireInv => WireFormsHold
  BY WireInvSuffices DEF WireFormsHold
<1> QED
  BY <1>1, WireStarts, WireInvKept, PTL DEF Chip!Spec

=============================================================================
