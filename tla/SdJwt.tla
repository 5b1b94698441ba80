--------------------------------- MODULE SdJwt ---------------------------------
(***************************************************************************)
(* SD-JWT credentials of marty-oid4vci from issuance to verification: the  *)
(* issuer hides claims behind digests (formats/sd_jwt.rs), the wallet      *)
(* discloses some of them to one verifier (wallet_sd_jwt.rs), and the      *)
(* verifier checks the issuer's signature and the key binding              *)
(* (formats/sd_jwt.rs). Whatever was sent once can be taken apart and put  *)
(* together again on the way. A digest is represented by what it is the    *)
(* digest of; the SD-JWT library is external.                              *)
(***************************************************************************)
EXTENDS Integers, Sequences, FiniteSets, SequencesExt

CONSTANTS
    None,
    Issuers,        \* identities of issuers; a signing key has its issuer's name
    Holders,        \* holder keys
    Verifiers,      \* audiences
    Nonces,         \* nonces of the verifiers' requests
    Names,          \* claims an issuer may be asked to certify
    Selections,     \* selective_disclosure_claims: sequences of names
    Window,         \* the five minutes of key_binding_iat_is_fresh
    MaxCredentials, MaxShown, MaxTime

\* What the proofs need of the constants: selections are lists of names, the
\* window is a length of time, and None is no holder's key.
SdJwtAssumption ==
    /\ Selections \subseteq Seq(STRING)
    /\ Window \in Nat /\ None \notin Holders

\* Claims the issuer writes itself, which may be neither supplied nor hidden.
Managed == {"iss", "vct"}
\* Names that would be read as digests.
Markers == {"_sd"}

VARIABLES
    now,
    requests,       \* what issuers were asked to certify, by credential number
    credentials,    \* the credentials they made
    shown,          \* presentations wallets made
    accepted        \* what verifiers accepted

vars == <<now, requests, credentials, shown, accepted>>

Init ==
    /\ now = 0
    /\ requests = <<>> /\ credentials = {} /\ shown = {} /\ accepted = {}

-----------------------------------------------------------------------------
(* The issuer.                                                             *)

\* validate_sd_jwt_managed_claims and validate_sd_jwt_structural_markers
Refused(claims, selected) ==
    (claims \cup ToSet(selected)) \cap (Managed \cup Markers) # {}

\* plan_sd_jwt_disclosures: the positions of the selection at which a claim
\* is still there to be removed.
Planned(claims, selected) ==
    {k \in DOMAIN selected : selected[k] \in claims /\ \A j \in 1 .. k - 1 : selected[j] # selected[k]}

\* Encoding, digesting and restoring the source order keep every planned one.
Hidden(claims, selected) == {selected[k] : k \in Planned(claims, selected)}

\* plan_sd_jwt_preparation: the signed payload.
Payload(id, issuer, by, cnf, claims, selected) ==
    [id |-> id, issuer |-> issuer, by |-> by, cnf |-> cnf,
     clear |-> claims \ Hidden(claims, selected), sd |-> Hidden(claims, selected)]

\* prepare_sd_jwt and assemble_sd_jwt, which checks that the signature is the
\* issuer's own. Somebody else may put the issuer's name on a credential, too.
Issue(issuer, by, cnf, claims, selected) ==
    /\ Len(requests) < MaxCredentials
    /\ ~Refused(claims, selected)
    /\ requests' = Append(requests, [issuer |-> issuer, by |-> by, claims |-> claims, selected |-> ToSet(selected)])
    /\ credentials' = credentials \cup
        {Payload(Len(requests) + 1, issuer, by, cnf, claims, selected)}
    /\ UNCHANGED <<now, shown, accepted>>

-----------------------------------------------------------------------------
(* The wallet: prepare_verified_presentation.                              *)

\* validate_resolved_sd_jwt_issuer_key, the library's check of the signature
\* under the resolved key, and validate_sd_jwt_holder_binding. Issuer, key
\* identifier and algorithm are one identity here.
MayPresent(holder, c, resolved) ==
    /\ resolved.issuer = c.issuer
    /\ c.by = resolved.key
    /\ c.cnf = holder

\* The sd_hash of a key binding covers the issuer's JWT and the disclosures.
KeyBinding(holder, c, disclosures, aud, nonce) ==
    [key |-> holder, hash |-> <<c, disclosures>>, aud |-> aud, nonce |-> nonce, iat |-> now]

\* The resolver answers with the key of the issuer it was asked for or with
\* that of another. complete checks the holder signer's signature.
Present(holder, c, names, aud, nonce, resolved) ==
    /\ Cardinality(shown) < MaxShown
    /\ MayPresent(holder, c, resolved)
    /\ LET disclosures == {[id |-> c.id, name |-> n] : n \in names \cap c.sd} IN
       shown' = shown \cup {[cred |-> c, disclosures |-> disclosures,
                             kb |-> KeyBinding(holder, c, disclosures, aud, nonce)]}
    /\ UNCHANGED <<now, requests, credentials, accepted>>

\* create_sd_jwt_presentation: a presentation without key binding. Each field
\* once, each with a disclosure, and nothing else goes along.
PresentUnbound(c, names) ==
    /\ Cardinality(shown) < MaxShown
    /\ names \subseteq c.sd
    /\ shown' = shown \cup {[cred |-> c, kb |-> None,
                             disclosures |-> {[id |-> c.id, name |-> n] : n \in names}]}
    /\ UNCHANGED <<now, requests, credentials, accepted>>

-----------------------------------------------------------------------------
(* The verifier.                                                           *)

\* What can be put together from what was sent.
Sent == [cred : {p.cred : p \in shown},
         disclosures : SUBSET UNION {p.disclosures : p \in shown},
         kb : {p.kb : p \in shown} \cup {None}]

\* The library's verified_claims: a disclosure counts when its digest is in
\* the signed payload.
VerifiedClaims(p) ==
    p.cred.clear \cup {d.name : d \in {e \in p.disclosures : e.id = p.cred.id /\ e.name \in p.cred.sd}}

\* Mutant of Bound: the hash is not compared.
BoundLoosely(p, aud, nonce) ==
    /\ p.kb # None /\ p.cred.cnf # None
    /\ p.kb.key = p.cred.cnf
    /\ p.kb.aud = aud /\ p.kb.nonce = nonce
    /\ now - p.kb.iat <= Window /\ p.kb.iat - now <= Window

\* validate_key_binding_jwt
Bound(p, aud, nonce) ==
    /\ p.kb # None /\ p.cred.cnf # None
    /\ p.kb.key = p.cred.cnf
    /\ p.kb.hash = <<p.cred, p.disclosures>>
    /\ p.kb.aud = aud /\ p.kb.nonce = nonce
    /\ now - p.kb.iat <= Window /\ p.kb.iat - now <= Window

\* verify_sd_jwt with the verifier's audience and nonce, under the key the
\* verifier trusts for the issuer.
Verify(aud, nonce, p) ==
    /\ p.cred.by = p.cred.issuer
    /\ Bound(p, aud, nonce)
    /\ accepted' = accepted \cup {[aud |-> aud, nonce |-> nonce, cred |-> p.cred, claims |-> VerifiedClaims(p), at |-> now]}
    /\ UNCHANGED <<now, requests, credentials, shown>>

Tick ==
    /\ now < MaxTime
    /\ now' = now + 1
    /\ UNCHANGED <<requests, credentials, shown, accepted>>

Next ==
    \/ \E i, by \in Issuers, cnf \in Holders \cup {None}, claims \in SUBSET Names, s \in Selections :
        Issue(i, by, cnf, claims, s)
    \/ \E h \in Holders, c \in credentials, names \in SUBSET Names, aud \in Verifiers, n \in Nonces :
        \E r \in {[issuer |-> i, key |-> i] : i \in Issuers} : Present(h, c, names, aud, n, r)
    \/ \E c \in credentials, names \in SUBSET Names : PresentUnbound(c, names)
    \/ \E aud \in Verifiers, n \in Nonces, p \in Sent : Verify(aud, n, p)
    \/ Tick

Spec == Init /\ [][Next]_vars

-----------------------------------------------------------------------------
(* Properties.                                                             *)

\* Every variable holds a value of its type; no claim the issuer manages is
\* ever supplied by somebody else or hidden.
TypeOK ==
    /\ now \in 0 .. MaxTime
    /\ \A c \in credentials : /\ c.id \in DOMAIN requests /\ c.cnf \in Holders \cup {None}
                              /\ (c.clear \cup c.sd) \cap Managed = {}
    /\ \A p \in shown : p.cred \in credentials
    /\ \A a \in accepted : a.aud \in Verifiers /\ a.nonce \in Nonces /\ a.at \in 0 .. now

\* A claim the issuer was asked to make selectively disclosable is seen by
\* others only when some presentation of the credential disclosed it.
HiddenUntilShown ==
    \A p \in shown : LET r == requests[p.cred.id] IN
        \A n \in r.selected \cap r.claims :
            n \in VerifiedClaims(p) => [id |-> p.cred.id, name |-> n] \in p.disclosures

\* What a verifier accepts is what the holder chose to show it, for its
\* request, not long ago: nothing stripped, nothing added, nothing taken from
\* a presentation to somebody else; and the issuer certified all of it.
AcceptedAsShown ==
    \A a \in accepted :
        /\ a.claims \subseteq requests[a.cred.id].claims /\ requests[a.cred.id].by = a.cred.issuer
        /\ \E p \in shown : /\ p.kb # None /\ p.cred = a.cred
                            /\ p.kb.aud = a.aud /\ p.kb.nonce = a.nonce
                            /\ a.at - p.kb.iat <= Window
                            /\ VerifiedClaims(p) = a.claims

\* A presentation the wallet prepared for a verifier is accepted by it within
\* the window: the wallet never prepares one that must fail.
PreparedIsAccepted ==
    \A p \in shown : p.kb # None /\ now - p.kb.iat <= Window
        => p.cred.by = p.cred.issuer /\ Bound(p, p.kb.aud, p.kb.nonce)

=============================================================================
