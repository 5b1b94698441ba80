-------------------------------- MODULE DidComm --------------------------------
(***************************************************************************)
(* DIDs and the messages encrypted to their keys (marty-didcomm): how a    *)
(* document is found for a DID, which of its keys may be used, and the     *)
(* anonymous and authenticated envelopes made from them. A DID is its      *)
(* method and the keys it spells out; a key is its curve and an identity.  *)
(* Servers, the JOSE library and the network are external.                 *)
(***************************************************************************)
EXTENDS Integers, Sequences, FiniteSets, SequencesExt

CONSTANTS
    MaxDepth,       \* how deep a document may be nested
    MaxSize,        \* size up to which a document is read
    MaxRecipients   \* keys a message may be encrypted to

VARIABLES
    config,         \* where this deployment may resolve did:web
    served,         \* what each server answers for the DIDs it is asked for
    who,            \* the DIDs of the sender and the recipient
    docs,           \* the documents resolved for them
    envelope,       \* the message on its way
    answer

vars == <<config, served, who, docs, envelope, answer>>

Nothing == [kind |-> "nothing"]
Failure == [kind |-> "failed"]

Key(curve, id) == [curve |-> curve, id |-> id]

\* A DID: method, keys it spells out in order with their purposes, and for
\* did:web its host and port
Did(method, elements, host) == [method |-> method, elements |-> elements, host |-> host]

\* A verification method; an id is relative or names a DID.
NoHost == [name |-> "none", port |-> 0]
Relative == Did("none", <<>>, NoHost)
Method(id, controller, key) ==
    [id |-> id, controller |-> controller, type |-> IF key.curve = "x25519" THEN "agreement" ELSE "JsonWebKey2020",
     key |-> key, materials |-> 1, private |-> FALSE]
Id(did, fragment) == [did |-> did, fragment |-> fragment]

\* DidDocument
Document(did, methods, agreement) ==
    [kind |-> "document", id |-> did, methods |-> methods, agreement |-> agreement, authentication |-> TRUE,
     services |-> <<>>]

-----------------------------------------------------------------------------
(* Which keys of a document a message may be encrypted to.                 *)

\* canonical_method_id
CanonicalId(did, id) == IF id.did = Relative THEN Id(did, id.fragment) ELSE IF id.did = did THEN id ELSE Failure

\* authorized_x25519_method: no key of a method of another controller or type, an
\* error for one that is not right
AuthorizedMethod(did, m) ==
    IF m.controller # did \/ m.type \notin {"agreement", "JsonWebKey2020"} THEN Nothing
    ELSE IF m.materials # 1 \/ m.key.curve # "x25519" \/ m.key.id = 0 THEN Failure
    ELSE [kind |-> "method", id |-> CanonicalId(did, m.id), key |-> m.key]

\* A reference, or a method given in its place: agreement entries
Ref(id) == [inline |-> FALSE, id |-> id]
Inline(m) == [inline |-> TRUE, id |-> m.id, method |-> m]

\* x25519_key_agreement_methods: ids of methods and entries of keyAgreement each
\* once; references to methods there are, methods in place of one that are not
AgreementErrors(doc) ==
    LET ids == [i \in DOMAIN doc.methods |-> CanonicalId(doc.id, doc.methods[i].id)]
        entries == [i \in DOMAIN doc.agreement |-> CanonicalId(doc.id, doc.agreement[i].id)]
    IN \/ \E i \in DOMAIN ids : ids[i] = Failure \/ \E j \in DOMAIN ids : i # j /\ ids[i] = ids[j]
       \/ \E i \in DOMAIN entries : \/ entries[i] = Failure
                                    \/ \E j \in DOMAIN entries : i # j /\ entries[i] = entries[j]
                                    \/ doc.agreement[i].inline = (\E j \in DOMAIN ids : ids[j] = entries[i])
AgreementMethods(doc) ==
    IF AgreementErrors(doc) THEN <<Failure>>
    ELSE LET methodOf(e) == IF e.inline THEN e.method
                            ELSE CHOOSE m \in {doc.methods[i] : i \in DOMAIN doc.methods} :
                                     CanonicalId(doc.id, m.id) = CanonicalId(doc.id, e.id)
             all == [i \in DOMAIN doc.agreement |-> AuthorizedMethod(doc.id, methodOf(doc.agreement[i]))]
         IN IF \E i \in DOMAIN all : all[i] = Failure THEN <<Failure>> ELSE SelectSeq(all, LAMBDA a : a # Nothing)

\* authorized_x25519_methods
AuthorizedMethods(doc) ==
    IF doc.kind # "document" THEN {}
    ELSE LET ms == AgreementMethods(doc) IN
         IF Len(ms) > MaxRecipients \/ ms = <<Failure>> THEN {} ELSE {ms[i] : i \in DOMAIN ms}

-----------------------------------------------------------------------------
(* Resolution.                                                             *)

\* ed25519_to_x25519: the agreement key an Ed25519 key has
Converted(key) == Key("x25519", key.id)

\* resolve_did_key: one key. An Ed25519 key has an agreement key as well; a P-256
\* key has neither that nor a second coordinate.
ResolveKey(did, key) ==
    LET own == Method(Id(did, key), did, key) IN
    CASE key.curve = "ed25519" ->
           LET m == Method(Id(did, Converted(key)), did, Converted(key)) IN Document(did, <<own, m>>, <<Ref(m.id)>>)
      [] key.curve = "x25519" -> Document(did, <<own>>, <<Ref(own.id)>>)
      [] key.curve = "p256" -> Document(did, <<[own EXCEPT !.key.curve = "p256 x"]>>, <<>>)
      [] OTHER -> Failure

\* resolve_did_jwk: agreement for X25519 alone
ResolveJwk(did, jwk) ==
    IF jwk.private THEN Failure
    ELSE LET m == [Method(Id(did, Key("0", 0)), did, jwk.key) EXCEPT !.type = "JsonWebKey2020"] IN
         Document(did, <<m>>, IF jwk.key.curve = "x25519" THEN <<Ref(m.id)>> ELSE <<>>)

\* resolve_did_peer_0: the document of a did:key with the multibase prefix put
\* before it once more, which decodes only for keys given without one; it keeps
\* its method ids.
ResolvePeer0(did, key, prefixed) ==
    LET doc == ResolveKey(Did("key", <<[purpose |-> "V", key |-> key]>>, NoHost), key) IN
    IF prefixed \/ doc = Failure THEN Failure
    ELSE [doc EXCEPT !.id = did, !.methods = [i \in DOMAIN @ |-> [@[i] EXCEPT !.controller = did]]]

\* resolve_did_peer_2: every method of each element's document under one id; what
\* does not resolve is left out.
ResolvePeer2(did, elements) ==
    LET part(e) == LET doc == ResolveKey(did, e.key) IN
                   IF doc = Failure THEN <<>> ELSE [i \in DOMAIN doc.methods |-> [doc.methods[i] EXCEPT !.id = Id(did, e.key)]]
        parts == FlattenSeq([i \in DOMAIN elements |-> part(elements[i])])
        agreed == FlattenSeq([i \in DOMAIN elements |-> IF elements[i].purpose = "E" THEN part(elements[i]) ELSE <<>>])
    IN [Document(did, parts, [i \in DOMAIN agreed |-> Ref(agreed[i].id)]) EXCEPT
         !.authentication = \E i \in DOMAIN elements : elements[i].purpose = "V"]

\* valid_verification_method and valid_public_jwk
ValidMethod(m, did) ==
    /\ m.controller = did /\ CanonicalId(did, m.id) # Failure
    /\ m.materials = 1 /\ ~ m.private /\ m.key.curve # "p256 x"

\* validate_resolved_document
ValidResolved(doc, did) ==
    LET ids == [i \in DOMAIN doc.methods |-> CanonicalId(did, doc.methods[i].id)]
    IN /\ doc.id = did /\ doc.methods # <<>> /\ doc.authentication
       /\ \A i \in DOMAIN doc.methods : ValidMethod(doc.methods[i], did) /\ \A j \in DOMAIN ids : i # j => ids[i] # ids[j]
       /\ \A i \in DOMAIN doc.agreement :
            LET e == doc.agreement[i]
                id == CanonicalId(did, e.id)
            IN IF e.inline THEN ValidMethod(e.method, did) /\ \A j \in DOMAIN ids : ids[j] = id => doc.methods[j] = e.method
               ELSE \E j \in DOMAIN ids : ids[j] = id
       /\ \A i, j \in DOMAIN doc.services : i # j => doc.services[i].id # doc.services[j].id

\* fetch_did_document: from public addresses alone if so asked; the body is bounded,
\* each member once, and of this DID
Fetch(reply, did, public) ==
    IF reply.kind # "reply" \/ (public /\ ~ reply.public) \/ reply.duplicate \/ reply.depth > MaxDepth \/ reply.size > MaxSize THEN Failure
    ELSE IF ValidResolved(reply.document, did) THEN reply.document ELSE Failure

\* did_web_authority: hosts are names; the port is part of what is allowed
\* unless it is the usual one
Authority(did) == IF did.host.name = "address" THEN Failure ELSE [kind |-> "authority", name |-> did.host.name, port |-> did.host.port]

\* resolve_did_web: a host this deployment allows
ResolveWeb(did) == IF Authority(did) \in config.allowed THEN Fetch(served.public, did, TRUE) ELSE Failure
\* internal_did_web_url, resolve_via_universal_resolver
ResolveInternal(did) == IF Authority(did) = Failure THEN Failure ELSE Fetch(served.internal, did, FALSE)
ResolveUniversal(did) == IF config.universal THEN Fetch(served.universal, did, FALSE) ELSE Failure

\* resolve_with_source: did:web by the internal servers first, whose failures are
\* passed over; then from its host if that is allowed, and only otherwise by the
\* universal resolver
Resolve(did) ==
    CASE did.method = "key" -> ResolveKey(did, did.elements[1].key)
      [] did.method = "jwk" -> ResolveJwk(did, [key |-> did.elements[1].key, private |-> did.elements[1].purpose = "private"])
      [] did.method = "peer0" -> ResolvePeer0(did, did.elements[1].key, TRUE)
      [] did.method = "peer2" -> ResolvePeer2(did, did.elements)
      [] did.method = "web" ->
           IF Authority(did) = Failure THEN Failure
           ELSE LET inside == IF config.internal THEN ResolveInternal(did) ELSE Failure IN
                IF inside # Failure THEN inside
                ELSE IF Authority(did) \in config.allowed THEN ResolveWeb(did)
                ELSE ResolveUniversal(did)
      [] OTHER -> ResolveUniversal(did)

\* derive_p256_did_jwk and derive_p256_did_key: a public P-256 key
DeriveIdentifier(jwk, method) ==
    IF jwk.private \/ jwk.key.curve # "p256" THEN Failure
    ELSE [kind |-> "did", did |-> Did(method, <<[purpose |-> "V", key |-> jwk.key]>>, NoHost)]

-----------------------------------------------------------------------------
(* Envelopes. What is sealed opens with the key of a recipient listed,     *)
(* and an authenticated one with the sender's as well; the header is       *)
(* authenticated.                                                          *)

Plain(from, to, content) == [from |-> from, to |-> to, content |-> content]

Seal(alg, text, skid, senderKey, recipients) ==
    LET header == [alg |-> alg, skid |-> skid, apu |-> skid, profile |-> "didcomm"] IN
    [kind |-> "envelope", header |-> header, recipients |-> {[kid |-> r.id, key |-> r.key] : r \in recipients},
     sealed |-> [header |-> header, text |-> text, by |-> senderKey], legacy |-> FALSE]
NoSender == Nothing

\* encrypt_for_recipient: to every key authorised
EncryptAnonymous(text, doc) ==
    IF AuthorizedMethods(doc) = {} THEN Failure ELSE Seal("anon", text, NoSender, NoSender, AuthorizedMethods(doc))

\* private_key_bound_to_document: the method this private key is of
BoundMethods(key, doc) == {m \in AuthorizedMethods(doc) : m.key = key}

\* validate_plaintext_parties
PartiesFit(text, sender, recipient) == text.from = sender.id /\ text.to = {recipient.id}

\* encrypt_for_recipient_authenticated
EncryptAuthenticated(text, sender, key, recipient) ==
    IF ~ PartiesFit(text, sender, recipient) \/ BoundMethods(key, sender) = {} \/ AuthorizedMethods(recipient) = {} THEN Failure
    ELSE LET m == CHOOSE m \in BoundMethods(key, sender) : TRUE IN
         Seal("auth", text, m.id, m.key, AuthorizedMethods(recipient))

\* validate_encrypted_envelope_shape
ShapeFits(e) == Cardinality(e.recipients) \in 1..MaxRecipients

\* What the library opens: sealed to this key, header unchanged, and the sender's
\* key the one it was sealed with
Opens(e, key) == \E r \in e.recipients : r.key = key

\* validate_protected_profile
ProfileFits(e, alg) == e.header.profile = "didcomm" /\ e.header.alg = alg

\* decrypt_jwe: any recipient; authenticated envelopes are refused.
DecryptAnonymous(e, key) ==
    IF ShapeFits(e) /\ Opens(e, key) /\ e.header = e.sealed.header /\ e.sealed.by = NoSender /\ ProfileFits(e, "anon")
    THEN [kind |-> "message", text |-> e.sealed.text] ELSE Failure

\* protected_sender_kid
SenderKid(e) == IF e.header.skid = NoSender \/ e.header.apu # e.header.skid THEN Failure ELSE e.header.skid

\* decrypt_authenticated_jwe
DecryptAuthenticated(e, key, recipient, sender) ==
    LET senders == {m \in AuthorizedMethods(sender) : m.id = SenderKid(e)}
        mine == BoundMethods(key, recipient)
    IN IF /\ ShapeFits(e) /\ senders # {} /\ mine # {}
          /\ \E r \in e.recipients : r.kid = (CHOOSE m \in mine : TRUE).id /\ r.key = key
          /\ e.header = e.sealed.header /\ \E m \in senders : e.sealed.by = m.key
          /\ ProfileFits(e, "auth") /\ ~ e.legacy
          /\ PartiesFit(e.sealed.text, sender, recipient)
       THEN [kind |-> "message", text |-> e.sealed.text] ELSE Failure

\* pack_credential_for_holder
PackCredential(issuer, holder) == Plain(issuer.id, {holder.id}, "credential")

-----------------------------------------------------------------------------
(* Behaviours. Owner o holds the keys with identity o.                     *)

V(key) == [purpose |-> "V", key |-> key]
E(key) == [purpose |-> "E", key |-> key]
Host(name, port) == [name |-> name, port |-> port]

DidsOf(o) ==
    {Did("key", <<V(Key(c, o))>>, NoHost) : c \in {"ed25519", "x25519", "p256"}}
    \cup {Did("jwk", <<V(Key(c, o))>>, NoHost) : c \in {"x25519", "p256"}}
    \cup {Did("peer0", <<V(Key("ed25519", o))>>, NoHost), Did("peer2", <<V(Key("p256", o)), E(Key("x25519", o))>>, NoHost),
          Did("peer2", <<V(Key("ed25519", o)), E(Key("x25519", o))>>, NoHost)}
    \cup {Did("web", <<>>, h) : h \in {Host("a", 443), Host("a", 8443), Host("address", 443)}}

\* What a server may answer for a did:web of owner o: the owner's document and
\* ones that are not right
Own(did, o) == Method(Id(Relative, Key("k", 0)), did, Key("x25519", o))
Sign(did, o) == Method(Id(did, Key("s", 0)), did, Key("ed25519", o))
Right(did, o) == Document(did, <<Sign(did, o), Own(did, o)>>, <<Ref(Id(did, Key("k", 0)))>>)
Wrong(did, o) ==
    {[Right(did, o) EXCEPT !.id = Did("web", <<>>, Host("b", 443))], [Right(did, o) EXCEPT !.agreement = <<Ref(Id(did, Key("z", 0)))>>],
     Document(Did("web", <<>>, Host("b", 443)), <<Method(Id(Relative, Key("k", 0)), Did("web", <<>>, Host("b", 443)), Key("x25519", 3))>>, <<Ref(Id(Relative, Key("k", 0)))>>),
     [Right(did, o) EXCEPT !.methods = <<Sign(did, o), [Own(did, o) EXCEPT !.controller = Did("web", <<>>, Host("b", 443))]>>],
     [Right(did, o) EXCEPT !.methods = <<Own(did, o), Own(did, o)>>], [Right(did, o) EXCEPT !.authentication = FALSE],
     [Right(did, o) EXCEPT !.agreement = <<Inline(Own(did, o))>>], [Right(did, o) EXCEPT !.agreement = <<>>],
     Document(did, <<Sign(did, o), Own(did, o), Method(Id(did, Key("z", 0)), did, Key("x25519", 3))>>, <<Ref(Id(Relative, Key("k", 0)))>>),
     Document(did, <<Sign(did, o)>>, <<Inline(Own(did, o))>>), [Right(did, o) EXCEPT !.services = <<[id |-> "m"], [id |-> "m"]>>]}
Reply(doc, public) == [kind |-> "reply", document |-> doc, public |-> public, duplicate |-> FALSE, depth |-> 1, size |-> 1]
Replies(did, o) ==
    {Reply(d, p) : d \in {Right(did, o)} \cup Wrong(did, o), p \in BOOLEAN}
    \cup {[Reply(Right(did, o), TRUE) EXCEPT !.duplicate = TRUE], [Reply(Right(did, o), TRUE) EXCEPT !.depth = MaxDepth + 1],
          [Reply(Right(did, o), TRUE) EXCEPT !.size = MaxSize + 1], Nothing}

Init ==
    /\ config \in [internal : BOOLEAN, universal : BOOLEAN, allowed : {{}, {[kind |-> "authority", name |-> "a", port |-> 443]}}]
    /\ who \in {[sender |-> s, recipient |-> r] : s \in DidsOf(1) \cup {Did("other", <<>>, NoHost)}, r \in {Did("key", <<V(Key("x25519", 2))>>, NoHost)}}
              \cup {[sender |-> s, recipient |-> r] : s \in {Did("key", <<V(Key("ed25519", 1))>>, NoHost)}, r \in DidsOf(2)}
    /\ (\A p \in DOMAIN who : who[p].method \notin {"web", "other"}) => ~ config.internal /\ ~ config.universal /\ config.allowed = {}
    /\ served = [s \in {"internal", "public", "universal"} |-> Nothing]
    /\ docs = [sender |-> Nothing, recipient |-> Nothing]
    /\ envelope = Nothing /\ answer = Nothing

Owner(p) == IF p = "sender" THEN 1 ELSE 2

Unserved == [internal |-> Nothing, public |-> Nothing, universal |-> Nothing]

\* A server comes to answer something for a party's did:web, a second one what is
\* right.
Serve(p) ==
    /\ who[p].method \in {"web", "other"} /\ docs[p] = Nothing
    /\ \E s \in DOMAIN served : /\ served[s] = Nothing
                               /\ \E r \in IF served = Unserved THEN Replies(who[p], Owner(p)) ELSE {Reply(Right(who[p], Owner(p)), TRUE)} :
                                    served' = [served EXCEPT ![s] = r]
    /\ UNCHANGED <<config, who, docs, envelope, answer>>

ResolveParty(p) ==
    /\ docs[p] = Nothing /\ docs' = [docs EXCEPT ![p] = Resolve(who[p])]
    /\ served' = IF who[p].method \in {"web", "other"} THEN Unserved ELSE served   \* asked once
    /\ UNCHANGED <<config, who, envelope, answer>>

\* A message is sealed: anonymously, or by the holder of a key who names a sender
\* and a recipient. Stranger 3 has documents too, but not those keys.
SendAnonymous ==
    /\ envelope = Nothing /\ docs.recipient.kind = "document" /\ docs.sender # Nothing
    /\ LET e == EncryptAnonymous(PackCredential([id |-> who.sender], docs.recipient), docs.recipient)
       IN envelope' = e /\ answer' = IF e = Failure THEN [kind |-> "not sent"] ELSE Nothing
    /\ UNCHANGED <<config, served, who, docs>>
SendAuthenticated ==
    /\ envelope = Nothing /\ docs.recipient.kind = "document" /\ docs.sender.kind = "document"
    /\ \E key \in {Key("x25519", 1), Key("x25519", 3)}, from \in {who.sender, who.recipient}, to \in {{who.recipient}, {who.sender, who.recipient}} :
         LET e == EncryptAuthenticated(Plain(from, to, "text"), docs.sender, key, docs.recipient)
         IN envelope' = e /\ answer' = IF e = Failure THEN [kind |-> "not sent"] ELSE Nothing
    /\ UNCHANGED <<config, served, who, docs>>
\* Another program seals for the recipient, with its own key and any names
SendForeign ==
    /\ envelope = Nothing /\ docs.recipient.kind = "document" /\ docs.sender.kind = "document"
    /\ AuthorizedMethods(docs.recipient) # {}
    /\ \E skid \in {m.id : m \in AuthorizedMethods(docs.sender)} \cup {Id(Relative, Key("x", 0))}, from \in {who.sender, Relative} :
         envelope' = Seal("auth", Plain(from, {who.recipient}, "text"), skid, Key("x25519", 3), AuthorizedMethods(docs.recipient))
    /\ UNCHANGED <<config, served, who, docs, answer>>
Change ==
    /\ envelope.kind = "envelope" /\ envelope.header = envelope.sealed.header /\ answer = Nothing
    /\ envelope' \in {[envelope EXCEPT !.header.alg = "anon"], [envelope EXCEPT !.header.skid = NoSender],
                      [envelope EXCEPT !.header.apu = NoSender], [envelope EXCEPT !.header.profile = "other"]}
    /\ UNCHANGED <<config, served, who, docs, answer>>

Received(api, key, r) ==
    [kind |-> "received", api |-> api, mine |-> key.id = 2, opened |-> r # Failure, text |-> IF r = Failure THEN Nothing ELSE r.text]
Receive ==
    /\ envelope.kind = "envelope" /\ answer = Nothing
    /\ \E key \in {Key("x25519", 2), Key("x25519", 1)} :
         \/ answer' = Received("anonymous", key, DecryptAnonymous(envelope, key))
         \/ answer' = Received("sender", key, DecryptAuthenticated(envelope, key, docs.recipient, docs.sender))
    /\ UNCHANGED <<config, served, who, docs, envelope>>

\* A P-256 key gets a DID and the DID is resolved.
Derive ==
    /\ answer = Nothing /\ docs.sender = Nothing /\ docs.recipient = Nothing
    /\ \E key \in {Key("p256", 1), Key("x25519", 1)}, private \in BOOLEAN, m \in {"jwk", "key"} :
         LET d == DeriveIdentifier([key |-> key, private |-> private], m) IN
         answer' = [kind |-> "derived", public |-> ~ private, made |-> d # Failure, method |-> m,
                    key |-> IF d = Failure THEN Nothing ELSE Resolve(d.did).methods[1].key]
    /\ UNCHANGED <<config, served, who, docs, envelope>>

Next ==
    \/ \E p \in {"sender", "recipient"} : Serve(p) \/ ResolveParty(p)
    \/ SendAnonymous \/ SendAuthenticated \/ SendForeign
    \/ Change \/ Receive
    \/ Derive
Spec == Init /\ [][Next]_vars

-----------------------------------------------------------------------------
(* A message that arrives as the sender's was sealed with a key the        *)
(* sender's document authorises for agreement, unchanged, names that       *)
(* sender and no recipient but this one; no other program's message does   *)
(* (encrypted_envelope.rs, decrypt_authenticated_jwe).                     *)
SenderProven ==
    answer.kind = "received" /\ answer.opened /\ answer.api = "sender" =>
        /\ envelope.sealed.by = Key("x25519", 1) /\ envelope.header = envelope.sealed.header
        /\ answer.text.from = who.sender /\ answer.text.to = {who.recipient}
        /\ \E i \in DOMAIN docs.sender.agreement : CanonicalId(who.sender, docs.sender.agreement[i].id) = envelope.header.skid

(* Only a recipient's key opens a message, and an authenticated one is     *)
(* never taken as anonymous, nor the other way round.                      *)
OnlyRecipientsOpen ==
    answer.kind = "received" /\ answer.opened =>
        /\ answer.mine
        /\ (answer.api = "sender") = (envelope.sealed.by # NoSender)

(* What was sealed for the recipient and not changed is opened by the      *)
(* recipient with the function for its kind, unless a stranger made it.    *)
SealedIsOpened ==
    answer.kind = "received" /\ answer.mine /\ envelope.header = envelope.sealed.header
        /\ envelope.sealed.by \in {NoSender, Key("x25519", 1)}
        /\ (answer.api = "sender") = (envelope.sealed.by # NoSender)
        => answer.opened

(* A document is of the DID it was asked for, and the keys a message may   *)
(* be sealed to are the owner's, whichever server answered (fetch,         *)
(* validate_resolved_document).                                            *)
DocumentsAreAsked ==
    \A p \in {"sender", "recipient"} :
        docs[p].kind = "document" => /\ docs[p].id = who[p]
                                    /\ \A m \in AuthorizedMethods(docs[p]) : m.key.id = Owner(p)

(* A DID made from a public key resolves to it, as did:jwk; no DID is made *)
(* from a private one (did_identifier.rs).                                 *)
DerivedResolves ==
    answer.kind = "derived" /\ answer.made => answer.public /\ (answer.method = "jwk" => answer.key = Key("p256", 1))

(* All of them.                                                            *)
MessagesHold == SenderProven /\ OnlyRecipientsOpen /\ SealedIsOpened /\ DocumentsAreAsked /\ DerivedResolves
=============================================================================
