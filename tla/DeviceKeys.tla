------------------------------ MODULE DeviceKeys ------------------------------
(***************************************************************************)
(* What is said about keys that live in devices, in marty-verification:    *)
(* device registrations whose keys rotate while challenges are out         *)
(* (device_auth.rs), wallet keys attested to an issuer, with their status  *)
(* lists (key_attestation.rs), and the session a terminal agrees on with a *)
(* chip (eac.rs). The service that keeps registrations, the attesters and  *)
(* the chip are external. A signature is the key with what it signs.       *)
(***************************************************************************)
EXTENDS Integers, Sequences, FiniteSets, SequencesExt

CONSTANTS
    LastMoment,     \* bound on time
    Grace,          \* longest rotation grace
    ChallengeLife,  \* moments a challenge lives
    MaxAge,         \* age up to which an attestation counts
    StatusAge,      \* age up to which a status list counts
    MaxCounter      \* the last sequence number of an EAC session

VARIABLES
    topic,          \* which of the three a behaviour is about
    moment,
    keys,           \* the registration's keys, oldest first
    active,         \* the registration
    challenges,     \* the challenges handed out
    answer,         \* the device's answer under way
    verdict,
    policy,         \* an issuer's attestation policy, as configured and as read
    revoked,        \* since when the attester's list says so
    eac             \* the EAC session: sent and received, and what is under way

vars == <<topic, moment, keys, active, challenges, answer, verdict, policy, revoked, eac>>

Nothing == [kind |-> "nothing"]
Never == 99

-----------------------------------------------------------------------------
(* Device keys.                                                            *)

\* parse_device_public_key: an RSA key in its one encoding, of a size in bounds;
\* the identifier is that of the key, the digest that of the encoding.
KeyMaterialFits(der) == der.canonical /\ der.bits \in 2 .. 8
Kid(der) == <<"kid", der.key>>
Sha256(der) == <<"sha", der>>

\* A key of the registration, in units of a kilobit
Der(n) == [key |-> n, canonical |-> TRUE, bits |-> 2]

\* validate_device_public_key, at registration
ValidPublicKey(der, claimed) == KeyMaterialFits(der) /\ Kid(der) = claimed

\* DeviceChallengeRecord::message: the first version leaves out what the
\* challenge is for, its key's version and when it expires.
ChallengeMessage(c) ==
    IF c.messages = 1 THEN <<1, c.id, c.kid>>
    ELSE <<2, c.id, c.kid, c.audience, c.expires, c.version, c.purpose, c.registration>>

\* purpose_allows_rotation_grace
AllowsRotationGrace(purpose) == purpose \notin {"device_registration", "device_key_rotation", "device_registration_update"}

\* Mutant of RotationGrace: also for a challenge made after the rotation.
RotationGraceAnyChallenge(k, c, purpose) ==
    /\ k.state = "retiring" /\ AllowsRotationGrace(purpose)
    /\ k.rotated # Never /\ k.retire # Never
    /\ k.retire > k.rotated /\ k.retire - k.rotated <= Grace
    /\ moment < k.retire

\* evaluate_device_key_eligibility, a retiring key
RotationGrace(k, c, purpose) ==
    /\ k.state = "retiring" /\ AllowsRotationGrace(purpose)
    /\ k.rotated # Never /\ k.retire # Never
    /\ k.retire > k.rotated /\ k.retire - k.rotated <= Grace
    /\ c.created < k.rotated /\ moment < k.retire

\* evaluate_device_key_eligibility
KeyEligible(k, c, purpose, audience) ==
    /\ KeyMaterialFits(k.der) /\ active
    /\ k.state \notin {"retired", "revoked"}
    /\ k.kid = Kid(k.der) /\ c.sha = Sha256(k.der)
    /\ c.registration = k.registration /\ c.version = k.version /\ c.kid = k.kid
    /\ c.purpose = purpose /\ c.audience = audience
    /\ moment < c.expires
    /\ k.from <= moment /\ moment < k.until
    /\ k.state = "current" \/ RotationGrace(k, c, purpose)

\* evaluate_device_challenge_binding: what the caller asks about is what the
\* challenge was made for.
ChallengeBound(c, k, purpose, audience) ==
    /\ moment < c.expires
    /\ c.kid = k.kid /\ c.sha = Sha256(k.der) /\ c.registration = k.registration /\ c.version = k.version
    /\ c.purpose = purpose /\ c.audience = audience

\* verify_device_challenge_signature
ChallengeSigned(k, c, sig) == KeyMaterialFits(k.der) /\ sig = <<k.der.key, ChallengeMessage(c)>>

\* The service: registrations and challenges (external)
NewKey(n, der) ==
    [version |-> n, der |-> der, kid |-> Kid(der), registration |-> "r", state |-> "current", from |-> moment,
     until |-> Never, rotated |-> Never, retire |-> Never]
Register(der, claimed) ==
    /\ topic = "device" /\ keys = <<>> /\ ValidPublicKey(der, claimed)
    /\ keys' = <<NewKey(1, der)>>
    /\ UNCHANGED <<topic, moment, active, challenges, answer, verdict, policy, revoked, eac>>
Rotate(window) ==
    /\ Len(keys) = 1 /\ keys[1].state = "current" /\ verdict = Nothing
    /\ keys' = <<[keys[1] EXCEPT !.state = "retiring", !.rotated = moment, !.retire = moment + window],
                 NewKey(2, Der(2))>>
    /\ UNCHANGED <<topic, moment, active, challenges, answer, verdict, policy, revoked, eac>>
Demote(n, state) ==
    /\ n \in DOMAIN keys /\ verdict = Nothing
    /\ \/ state = "revoked" /\ keys[n].state \notin {"revoked", "retired"}
       \/ state = "retired" /\ keys[n].state = "retiring" /\ moment >= keys[n].retire
    /\ keys' = [keys EXCEPT ![n].state = state]
    /\ UNCHANGED <<topic, moment, active, challenges, answer, verdict, policy, revoked, eac>>
Deactivate ==
    /\ keys # <<>> /\ active /\ verdict = Nothing
    /\ active' = FALSE
    /\ UNCHANGED <<topic, moment, keys, challenges, answer, verdict, policy, revoked, eac>>
IssueChallenge(n, purpose, messages) ==
    /\ n \in DOMAIN keys /\ challenges = {} /\ active /\ keys[n].state \in {"current", "retiring"}
    /\ challenges' = {[kind |-> "challenge", id |-> Cardinality(challenges) + 1, kid |-> keys[n].kid, sha |-> Sha256(keys[n].der),
                       created |-> moment, expires |-> moment + ChallengeLife, registration |-> "r",
                       version |-> keys[n].version, purpose |-> purpose, audience |-> "m", messages |-> messages]}
    /\ UNCHANGED <<topic, moment, keys, active, answer, verdict, policy, revoked, eac>>

\* The device signs a challenge it was given (external).
Respond(c, n) ==
    /\ answer = Nothing /\ n \in DOMAIN keys
    /\ answer' = [kind |-> "answer", challenge |-> c, sig |-> <<keys[n].der.key, ChallengeMessage(c)>>]
    /\ UNCHANGED <<topic, moment, keys, active, challenges, verdict, policy, revoked, eac>>

\* The service's call with the key of its record
Authenticate(n, purpose) ==
    /\ topic = "device" /\ answer # Nothing /\ verdict = Nothing /\ n \in DOMAIN keys
    /\ LET c == answer.challenge IN
         verdict' = [kind |-> "device", key |-> n, purpose |-> purpose,
                     ok |-> /\ KeyEligible(keys[n], c, purpose, "m") /\ ChallengeBound(c, keys[n], purpose, "m")
                            /\ ChallengeSigned(keys[n], c, answer.sig)]
    /\ UNCHANGED <<topic, moment, keys, active, challenges, answer, policy, revoked, eac>>

-----------------------------------------------------------------------------
(* Key attestations.                                                       *)

DisabledPolicy ==
    [mode |-> "disabled", roots |-> {}, algorithms |-> {}, storage |-> {}, users |-> {}, nonce |-> TRUE,
     status |-> "required", origins |-> {}, statusRoots |-> {}]

\* normalize_https_origin: an origin is a scheme, host and port and nothing more;
\* the case of a host and the default port do not count.
OriginReads(u) == u.scheme = "https" /\ u.host # "" /\ u.rest = "" /\ ~ u.user
Origin(u) == [host |-> u.host, port |-> IF u.port = 0 THEN 443 ELSE u.port]

\* string_list, boolean_or_default and the like: a list holds no blank, what is
\* left out or empty has its default.
ListReads(values) == "" \notin values
OrDefault(value, default) == IF value = "" THEN default ELSE value

\* policy_from_context: of the issuer's own tenant; what turns attestations on
\* needs roots, algorithms and, for statuses, origins.
PolicyReads(ctx, organization) ==
    /\ ctx.organization = organization
    /\ ctx.raw.mode \in {"", "disabled", "optional", "required"} /\ ctx.raw.status \in {"disabled", "if_present", "required"}
    /\ ListReads(ctx.raw.roots) /\ ListReads(ctx.raw.algorithms) /\ ListReads(ctx.raw.storage)
    /\ \A u \in ctx.raw.origins : OriginReads(u)
    /\ OrDefault(ctx.raw.mode, "disabled") # "disabled" =>
         /\ ctx.raw.roots # {} /\ ctx.raw.algorithms # {}
         /\ ctx.raw.status # "disabled" => ctx.raw.origins # {}
PolicyFromContext(ctx) ==
    IF ctx.raw = DisabledPolicy THEN DisabledPolicy
    ELSE [ctx.raw EXCEPT !.statusRoots = IF @ = {} THEN ctx.raw.roots ELSE @, !.mode = OrDefault(@, "disabled"),
                         !.origins = {Origin(u) : u \in @}]

\* route_proof: whether a proof of possession is checked with its attestation
RouteProof(p, attestation) ==
    IF attestation = Nothing THEN IF p.mode = "required" THEN "refused" ELSE "ordinary"
    ELSE IF p.mode = "disabled" THEN "refused" ELSE "bound"

\* validate_issued_at: MaxClockSkew ahead is not the future.
MaxClockSkew == 1
IssuedAtFits(iat, age) == iat <= moment + MaxClockSkew /\ moment - iat <= age

\* validate_certificate_chain and verify_signature; a chain stands for its root.
\* signature_algorithm: the algorithm named must be one of the key's kind.
AlgorithmOf(root) == "ES256"
SignedUnder(t, roots) == t.root \in roots /\ t.body.alg = AlgorithmOf(t.root) /\ t.sig = <<t.root, t.body>>

\* jwt_parts, decode_json_object and parse_unique_json: three parts within their
\* sizes, and no member twice.
Readable(t) == t.form = "unique members"

\* validate_assurance_list: {""} is a list that is there and empty.
AssuranceFits(claimed, required) == "" \notin claimed /\ required \subseteq claimed

\* validate_attestation
AttestationValid(t, p, nonce) ==
    LET b == t.body IN
    /\ p.mode # "disabled" /\ Readable(t) /\ b.typ = "key-attestation+jwt" /\ b.alg \in p.algorithms /\ SignedUnder(t, p.roots)
    /\ IssuedAtFits(b.iat, MaxAge) /\ moment < b.exp /\ b.iat < b.exp
    /\ p.nonce => nonce # "" /\ b.nonce = nonce
    /\ b.keys # {} /\ "private" \notin b.keys
    /\ AssuranceFits(b.storage, p.storage) /\ AssuranceFits(b.users, p.users)
    /\ moment < b.storageUntil
    /\ p.status = "required" => b.statuses # <<>>

\* validate_status_reference
StatusReferenceFits(s, p) == s.url.scheme = "https" /\ ~ s.url.user /\ Origin(s.url) \in p.origins

\* status_list_value, up to the entries
StatusListFits(l, uri, p) ==
    /\ Readable(l) /\ l.body.typ = "statuslist+jwt" /\ l.body.alg \in p.algorithms /\ SignedUnder(l, p.statusRoots)
    /\ l.body.sub = uri /\ IssuedAtFits(l.body.iat, StatusAge) /\ moment < l.body.exp
    /\ l.body.bits \in {1, 2, 4, 8}
\* status_list_value: the value at an index, in entries of 1, 2, 4 or 8 bits, the
\* lowest bits of a byte first; outside of the list there is none.
StatusListValue(l, index) ==
    LET at == index * l.body.bits
        byte == (at \div 8) + 1
    IN IF byte > Len(l.body.bytes) THEN Never ELSE (l.body.bytes[byte] \div (2 ^ (at % 8))) % (2 ^ l.body.bits)

\* An issuer configures its policy and the wallet gets an attestation (external).
Configure(ctx) ==
    /\ topic = "attestation" /\ policy = Nothing /\ PolicyReads(ctx, "org")
    /\ policy' = [kind |-> "policy", asked |-> ctx.raw, read |-> PolicyFromContext(ctx)]
    /\ UNCHANGED <<topic, moment, keys, active, challenges, answer, verdict, revoked, eac>>
Attested(root, body) == [kind |-> "attestation", form |-> "unique members", root |-> root, body |-> body, sig |-> <<root, body>>]
ObtainAttestation(t) ==
    /\ policy # Nothing /\ answer = Nothing
    /\ answer' = t
    /\ UNCHANGED <<topic, moment, keys, active, challenges, verdict, policy, revoked, eac>>
RevokeKey ==
    /\ topic = "attestation" /\ revoked = Never /\ verdict = Nothing /\ answer # Nothing
    /\ revoked' = moment
    /\ UNCHANGED <<topic, moment, keys, active, challenges, answer, verdict, policy, eac>>

\* The attester's list as of some moment: the attested key has the third entry.
StatusList(iat, bits) ==
    Attested("root", [typ |-> "statuslist+jwt", alg |-> "ES256", sub |-> "uri", iat |-> iat, exp |-> iat + 2 * StatusAge, bits |-> bits,
                      bytes |-> [i \in 1 .. 1 + (2 * bits) \div 8 |->
                                   IF revoked <= iat /\ i = 1 + (2 * bits) \div 8 THEN 2 ^ ((2 * bits) % 8) ELSE 0]])

\* The issuer's endpoint: routes the proof and validates the attestation, then
\* every status it names with a list it fetched
CheckProof(nonce, iat, bits) ==
    /\ topic = "attestation" /\ policy # Nothing /\ answer # Nothing /\ verdict = Nothing
    /\ LET p == policy.read
           t == IF answer.kind = "attestation" THEN answer ELSE Nothing
           route == RouteProof(p, t)
           StatusOk(s) == /\ StatusReferenceFits(s, p) /\ StatusListFits(StatusList(iat, bits), s.uri, p)
                          /\ StatusListValue(StatusList(iat, bits), s.index) = 0
       IN verdict' = [kind |-> "proof", route |-> route, nonce |-> nonce, listed |-> iat,
                      ok |-> \/ route = "ordinary"
                             \/ /\ route = "bound" /\ AttestationValid(t, p, nonce)
                                /\ p.status # "disabled" => \A i \in DOMAIN t.body.statuses : StatusOk(t.body.statuses[i])]
    /\ UNCHANGED <<topic, moment, keys, active, challenges, answer, policy, revoked, eac>>

-----------------------------------------------------------------------------
(* EAC.                                                                    *)

Sides == {"terminal", "chip"}
Peer(s) == IF s = "terminal" THEN "chip" ELSE "terminal"

\* EacAlgorithm: what the backend has keys for
Supported(alg) == alg \in {"ecdh_p256_sha256", "ecdh_p384_sha384"}

\* normalize_ec_point, and the point lies on the curve of the ephemeral key.
PointFits(alg, point) ==
    /\ point.form \in {"uncompressed", "compressed", "raw"}
    /\ point.curve = IF alg = "ecdh_p256_sha256" THEN "p256" ELSE "p384"

\* EacHandshake::begin
BeginHandshake(alg) ==
    /\ topic = "eac" /\ eac = Nothing /\ Supported(alg)
    /\ eac' = [kind |-> "handshake", alg |-> alg]
    /\ UNCHANGED <<topic, moment, keys, active, challenges, answer, verdict, policy, revoked>>

\* EacSecureMessaging::from_shared_secret: both sides derive the same key to
\* encrypt and the same one to authenticate, for both directions, and count from
\* zero.
Session ==
    [kind |-> "eac", send |-> [s \in Sides |-> 0], receive |-> [s \in Sides |-> 0],
     sent |-> [s \in Sides |-> <<>>], got |-> [s \in Sides |-> <<>>], net |-> {}]

\* EacHandshake::complete uses the ephemeral key up, also when it fails.
CompleteHandshake(point) ==
    /\ eac.kind = "handshake"
    /\ eac' = IF PointFits(eac.alg, point) THEN Session ELSE [kind |-> "failed"]
    /\ UNCHANGED <<topic, moment, keys, active, challenges, answer, verdict, policy, revoked>>

\* EacSecureMessaging::encrypt: the counter is checked, not wrapped.
Encrypt(s, text) ==
    /\ eac.kind = "eac" /\ eac.send[s] < MaxCounter
    /\ eac' = [eac EXCEPT !.send[s] = @ + 1, !.sent[s] = Append(@, text),
                          !.net = @ \cup {[from |-> s, mac |-> eac.send[s] + 1, text |-> text]}]
    /\ UNCHANGED <<topic, moment, keys, active, challenges, answer, verdict, policy, revoked>>

\* EacSecureMessaging::decrypt: the expected counter is part of what is
\* authenticated, who sent the message is not: a side takes its own message
\* for the other's. Anything else is refused and changes nothing.
Decrypt(s, m) ==
    /\ eac.kind = "eac" /\ m \in eac.net
    /\ eac.receive[s] < MaxCounter /\ m.mac = eac.receive[s] + 1
    /\ eac' = [eac EXCEPT !.receive[s] = @ + 1, !.got[s] = Append(@, m.text)]
    /\ UNCHANGED <<topic, moment, keys, active, challenges, answer, verdict, policy, revoked>>

\* The transport loses a message or keeps it for later: it delivers what it has
\* in any order and again.
Lose(m) ==
    /\ eac.kind = "eac" /\ m \in eac.net
    /\ eac' = [eac EXCEPT !.net = @ \ {m}]
    /\ UNCHANGED <<topic, moment, keys, active, challenges, answer, verdict, policy, revoked>>

-----------------------------------------------------------------------------
(* The instance.                                                           *)

Site == [scheme |-> "https", host |-> "o", port |-> 0, user |-> FALSE, rest |-> ""]
FullPolicy ==
    [mode |-> "required", roots |-> {"root"}, algorithms |-> {"ES256"}, storage |-> {"hardware"}, users |-> {}, nonce |-> TRUE,
     status |-> "required", origins |-> {Site}, statusRoots |-> {}]
Policies ==
    {FullPolicy, DisabledPolicy, [FullPolicy EXCEPT !.mode = "optional"], [FullPolicy EXCEPT !.status = "if_present"],
     [FullPolicy EXCEPT !.nonce = FALSE], [FullPolicy EXCEPT !.origins = {}], [FullPolicy EXCEPT !.statusRoots = {"root2"}],
     [FullPolicy EXCEPT !.roots = {}], [FullPolicy EXCEPT !.roots = {""}], [FullPolicy EXCEPT !.mode = ""],
     [FullPolicy EXCEPT !.origins = {[Site EXCEPT !.rest = "/path"]}]}
Reference == [url |-> [Site EXCEPT !.port = 443, !.rest = "/1"], uri |-> "uri", index |-> 2]
Body ==
    [typ |-> "key-attestation+jwt", alg |-> "ES256", iat |-> moment, exp |-> moment + 2, nonce |-> "n", keys |-> {"k"},
     storage |-> {"hardware"}, users |-> {}, storageUntil |-> Never, statuses |-> <<Reference>>]
Attestations ==
    {Attested("root", b) :
       b \in {Body, [Body EXCEPT !.iat = moment + 1, !.exp = moment + 4], [Body EXCEPT !.iat = moment + 2], [Body EXCEPT !.nonce = ""],
              [Body EXCEPT !.keys = {"private"}], [Body EXCEPT !.storage = {}], [Body EXCEPT !.statuses = <<>>],
              [Body EXCEPT !.alg = "RS256"], [Body EXCEPT !.statuses[1].url.host = "other"],
              [Body EXCEPT !.users = {""}], [Body EXCEPT !.storageUntil = moment + 1], [Body EXCEPT !.statuses[1].index = 100],
              [Body EXCEPT !.statuses = <<Reference, [Reference EXCEPT !.uri = "uri2"]>>]}}
    \cup {Attested("other", Body), [Attested("root", Body) EXCEPT !.body.keys = {"mine"}],
          [Attested("root", Body) EXCEPT !.form = "member twice"], [kind |-> "no attestation"]}

Init ==
    /\ topic \in {"device", "attestation", "eac"}
    /\ moment = 0 /\ keys = <<>> /\ active = TRUE /\ challenges = {} /\ answer = Nothing /\ verdict = Nothing
    /\ policy = Nothing /\ revoked = Never /\ eac = Nothing

PassMoment ==
    /\ topic # "eac" /\ moment < LastMoment /\ verdict = Nothing
    /\ moment' = moment + 1
    /\ UNCHANGED <<topic, keys, active, challenges, answer, verdict, policy, revoked, eac>>

Next ==
    \/ \E d \in {Der(1), [Der(1) EXCEPT !.bits = 1], [Der(1) EXCEPT !.canonical = FALSE]}, c \in {Kid(Der(1)), Kid(Der(2))} : Register(d, c)
    \/ \E w \in {0, 1, Grace, Grace + 1} : Rotate(w)
    \/ \E n \in 1 .. 2, s \in {"retired", "revoked"} : Demote(n, s)
    \/ Deactivate
    \/ \E n \in 1 .. 2, p \in {"login", "device_key_rotation"}, m \in 1 .. 2 : IssueChallenge(n, p, m)
    \/ \E c \in challenges, n \in 1 .. 2 : Respond(c, n)
    \/ \E n \in 1 .. 2, p \in {"login", "device_key_rotation"} : Authenticate(n, p)
    \/ \E p \in Policies, o \in {"org", "other"} : Configure([organization |-> o, raw |-> p])
    \/ \E t \in Attestations : ObtainAttestation(t)
    \/ RevokeKey
    \/ \E n \in {"", "n", "n2"}, iat \in 0 .. moment, b \in {1, 2, 8} : CheckProof(n, iat, b)
    \/ \E a \in {"ecdh_p256_sha256", "rsa_2048_sha256"} : BeginHandshake(a)
    \/ \E f \in {"raw", "hybrid"}, c \in {"p256", "p384"} : CompleteHandshake([form |-> f, curve |-> c])
    \/ \E s \in Sides, t \in {"x", "y"} : Encrypt(s, t)
    \/ eac.kind = "eac" /\ \E m \in eac.net : Lose(m) \/ \E s \in Sides : Decrypt(s, m)
    \/ PassMoment

Spec == Init /\ [][Next]_vars

-----------------------------------------------------------------------------
(* Properties.                                                             *)

\* An answer is accepted only from the holder of the key it was asked of, while
\* that key is current or, for purposes that allow it and challenges made before
\* the rotation, for the grace at most; whatever rotations, revocations and
\* deactivations came between the challenge and the answer. The answer of the
\* current key in time is accepted.
DeviceKeysHold ==
    verdict.kind = "device" =>
        LET k == keys[verdict.key]
            c == answer.challenge
            Asked == c.purpose = verdict.purpose /\ c.kid = k.kid
        IN /\ verdict.ok =>
                /\ active /\ Asked /\ answer.sig[1] = k.der.key /\ moment < c.created + ChallengeLife
                /\ \/ k.state = "current" /\ verdict.key = Len(keys)
                   \/ /\ c.created < keys[2].from /\ moment < keys[2].from + Grace
                      /\ verdict.purpose = "login"
           /\ /\ active /\ k.state = "current" /\ Asked /\ moment < c.expires /\ answer.sig[1] = k.der.key
              => verdict.ok

\* A proof is accepted without an attestation only where the issuer does not ask
\* for one; with one only if a trusted attester vouches for the key and its
\* storage, freshly, for this nonce, and did not revoke it longer ago than its
\* list may be old. A fresh attestation of an unrevoked key is accepted.
AttestationsHold ==
    verdict.kind = "proof" =>
        LET asked == policy.asked
            b == answer.body
            Bound == verdict.ok /\ answer.kind = "attestation"
        IN /\ verdict.ok /\ answer.kind # "attestation" => asked.mode # "required"
           /\ Bound =>
                /\ asked.mode # "disabled" /\ answer.root \in asked.roots /\ answer.sig[2].keys = b.keys
                /\ asked.storage \subseteq b.storage /\ moment - b.iat <= MaxAge
                /\ asked.nonce => b.nonce = verdict.nonce /\ b.nonce # ""
                /\ b.statuses # <<>> => moment <= revoked + StatusAge
           /\ /\ answer.kind = "attestation" /\ asked = FullPolicy /\ b.statuses = <<Reference>> /\ b.iat <= moment /\ moment <= b.iat + 1
              /\ verdict.nonce = b.nonce /\ b.nonce = "n" /\ revoked = Never /\ answer.root = "root" /\ b.keys = {"k"}
              /\ b.storage = {"hardware"} /\ b.users = {} /\ b.storageUntil = Never
              /\ answer.form = "unique members" /\ b.alg = "ES256" /\ b.iat < b.exp /\ moment < b.exp
              /\ moment <= verdict.listed + StatusAge
              => verdict.ok

\* In an EAC session what a side receives as its n-th message was encrypted as
\* the n-th message, by the other side or, sent back to it, by itself: messages
\* are not skipped, repeated or reordered, whatever the transport does, and
\* without reflection they are a prefix of what the other sent. A side uses no
\* number twice, and stops at the last.
EacInOrder ==
    eac.kind = "eac" =>
        \A s \in Sides :
            /\ eac.send[s] = Len(eac.sent[s]) /\ eac.receive[s] = Len(eac.got[s]) /\ eac.send[s] <= MaxCounter
            /\ \A i \in DOMAIN eac.got[s] :
                 \E q \in Sides : i \in DOMAIN eac.sent[q] /\ eac.got[s][i] = eac.sent[q][i]
            /\ eac.sent[s] = <<>> => IsPrefix(eac.got[s], eac.sent[Peer(s)])

=============================================================================
