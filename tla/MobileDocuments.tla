---------------------------- MODULE MobileDocuments ----------------------------
(***************************************************************************)
(* ISO 18013-5 documents from the issuer to the verifier: preparing and    *)
(* signing them (formats/mdoc.rs and zk_mdoc.rs of marty-oid4vci), the     *)
(* holder's choice (selective.rs of marty-iso18013) and checking a         *)
(* response (mdoc and verification/mdl.rs of marty-verification). A digest *)
(* is what it digests, a signature the key with what it signs. The COSE    *)
(* library and the holder's wallet are external.                           *)
(***************************************************************************)
EXTENDS CertificateBuilder, Sequences, SequencesExt

CONSTANTS
    Day,          \* moments in a day
    LastMoment,   \* bound on time
    MaxRequests   \* bound on the transcripts, one per reader session

VARIABLES
    moment,       \* the time
    order,        \* the batch of credentials asked for
    prepared,     \* what preparing it gave
    issued,       \* the documents signed
    response,     \* what the verifier gets
    verdict       \* what it makes of it

vars == <<moment, order, prepared, issued, response, verdict>>

Nothing == [kind |-> "nothing"]

\* a key neither issuer nor device has
Foreign == [type |-> "p256", id |-> 99]
NoExpiry == -1

-----------------------------------------------------------------------------
(* The certificates there are.                                             *)

Root == CreateIacaCertificate("US", LastMoment + 5, "p256", 0, 1).cert
FalseRoot == CreateIacaCertificate("US", LastMoment + 5, "p256", 0, 2).cert
\* A signer's certificate made elsewhere, and one the certificate builder makes,
\* which may also be used for non repudiation.
Built(root, n) == CreateDscCertificate("US", root, root.key, 3, "p256", 0, n).cert
Signer(root, n) == [Built(root, n) EXCEPT !.usage = {"digitalSignature"}]
IssuerKey == Signer(Root, 5).key
\* A signer that vouches for itself; an authority below the root, whose path
\* length is 0, one below that, and one that may not sign certificates
Alone == LET s == Signer(Root, 5) IN [s EXCEPT !.issuer = s.subject, !.signed = s.key]
Below == CreateSignedCertificate("sub", Root, Root.key, LastMoment + 5, TRUE, "p256", 0, 3).cert
Lower == CreateSignedCertificate("low", Below, Below.key, LastMoment + 5, TRUE, "p256", 0, 4).cert
Idle == [Below EXCEPT !.usage = {"cRLSign"}]
FalseName == Lower.subject
Chains ==
    {<<Signer(Root, 5)>>, <<Built(Root, 5)>>, <<Signer(Root, 5), Root>>, <<>>, <<Signer(FalseRoot, 5)>>, <<Alone>>,
     <<Signer(Below, 5), Below>>, <<Signer(Below, 5), Below, Root>>, <<Signer(Lower, 5), Lower, Below>>,
     <<Signer(Idle, 5), Idle>>, <<[Signer(Below, 5) EXCEPT !.issuer = FalseName], Below>>, <<Signer(Below, 5)>>}

-----------------------------------------------------------------------------
(* Values. A claim is a JSON value: its kind and which one it is; big is   *)
(* an integer past 2^63, huge one past 2^64, deep too many containers.     *)

Json(kind, id) == [kind |-> kind, id |-> id]

\* json_to_cbor: dates become tagged texts, depth and size are limited.
JsonToCbor(v) ==
    CASE v.kind \in {"huge", "deep"} -> [failed |-> TRUE]
      [] v.kind \in {"date", "dateTime"} -> [failed |-> FALSE, tag |-> v.kind, kind |-> "text", id |-> v.id]
      [] OTHER -> [failed |-> FALSE, tag |-> "none", kind |-> v.kind, id |-> v.id]

\* cbor_to_json of device_response.rs: tags are dropped and a big integer is
\* cut to 64 bits with a sign.
CborToJson(c) ==
    IF c.kind = "big" THEN Json("int", "wrapped")
    ELSE IF c.tag # "none" THEN Json(c.tag, c.id) ELSE Json(c.kind, c.id)

\* mdoc_validity_duration: whole days, rounded down, a year by default
Year == 2 * Day
\* Mutant of ValidityDuration: rounded up
ValidityDurationUp(seconds) ==
    IF seconds = NoExpiry THEN Year ELSE ((seconds + Day - 1) \div Day) * Day
ValidityDuration(seconds) == IF seconds = NoExpiry THEN Year ELSE (seconds \div Day) * Day

\* checked_mdoc_valid_until; MaxDate is the library's last date.
MaxDate == 100
CheckedValidUntil(at, seconds) == at + ValidityDuration(seconds)

-----------------------------------------------------------------------------
(* Preparing a batch.                                                      *)

\* jwk_to_cose_device_key and validate_public_holder_jwk
DeviceKeyFits(jwk) == ~jwk.private /\ jwk.curve \in {"P-256", "P-384"} /\ jwk.onCurve

\* mdoc_cose_algorithm
CoseAlgorithms == {"ES256", "ES384", "EdDSA"}

\* validate_mdoc_preparation; the chain comes with the claims.
Validated(item) ==
    /\ item.chainFits
    /\ \A n \in DOMAIN item.claims : ~JsonToCbor(item.claims[n]).failed
    /\ item.device # Nothing => DeviceKeyFits(item.device)
    /\ item.alg \in CoseAlgorithms
    /\ item.seconds = NoExpiry \/ item.seconds <= MaxDate

\* validate_zk_predicate_claims: each names a claim that is a boolean and an
\* age predicate that is registered.
ZkPredicatesFit(item) ==
    item.zk => /\ item.predicates # {}
               /\ \A p \in item.predicates : p \in DOMAIN item.claims /\ item.claims[p].kind = "bool"
                                              /\ p \in {"age_over_18", "age_over_21"}

\* plan_validated_mdoc_batch: every item is validated before any identifier or
\* time is drawn; generated identifiers join the ones given.
Plan(batch) ==
    LET explicit == {i \in DOMAIN batch : batch[i].credential # 0} IN
    IF \/ \E i, j \in DOMAIN batch : i # j /\ batch[i].id = batch[j].id
       \/ \E i \in DOMAIN batch : ~Validated(batch[i]) \/ ~ZkPredicatesFit(batch[i])
       \/ \E i, j \in explicit : i # j /\ batch[i].credential = batch[j].credential
    THEN [failed |-> TRUE]
    ELSE [failed |-> FALSE,
          inputs |-> [i \in DOMAIN batch |->
              [item |-> batch[i], at |-> moment, until |-> CheckedValidUntil(moment, batch[i].seconds),
               credential |-> IF batch[i].credential # 0 THEN batch[i].credential ELSE 100 + i]]]

\* encode_validated_issuer_signed_item_bytes, with a fresh salt
Item(batchId, n, name, value) ==
    [id |-> n, salt |-> <<batchId, n>>, name |-> name, value |-> JsonToCbor(value)]

\* plan_validated_mdoc_digests: claims in the order of their names
PlanDigests(input) ==
    LET names == SetToSortSeq(DOMAIN input.item.claims, LAMBDA a, b : a = "age_over_18" /\ b # a)
    IN [n \in 1 .. Len(names) |->
          [job |-> <<input.item.id, n - 1>>, ordinal |-> n,
           item |-> Item(input.item.id, n - 1, names[n], input.item.claims[names[n]])]]

\* execute_mdoc_digest_plan: a digest for every job, in any order.
Results(plans) ==
    FlattenSeq([p \in 1 .. Len(plans) |->
        [n \in 1 .. Len(plans[p]) |->
            [job |-> plans[p][n].job, ordinal |-> plans[p][n].ordinal, of |-> plans[p][n].item, whole |-> TRUE]]])

\* assemble_mdoc_digest_batch: results are matched by identity; one that is
\* short, missing, doubled, left over or of another ordinal fails the batch.
AssembleDigests(plans, results) ==
    LET Of(job) == {r \in 1 .. Len(results) : results[r].job = job}
        entries == UNION {{<<p, n>> : n \in 1 .. Len(plans[p])} : p \in 1 .. Len(plans)}
        Found(p, n) == CHOOSE r \in Of(plans[p][n].job) : TRUE
    IN IF \/ Len(results) # Cardinality(entries)
          \/ \E r \in 1 .. Len(results) : ~results[r].whole
          \/ \E e \in entries : \/ Cardinality(Of(plans[e[1]][e[2]].job)) # 1
                                \/ results[Found(e[1], e[2])].ordinal # plans[e[1]][e[2]].ordinal
       THEN [failed |-> TRUE]
       ELSE [failed |-> FALSE,
             digests |-> [p \in 1 .. Len(plans) |->
                            [n \in 1 .. Len(plans[p]) |-> results[Found(p, n)].of]]]

\* build_mobile_security_object
BuildMso(input, digests) ==
    [version |-> "1.0", docType |-> input.item.docType, namespace |-> "ns",
     digests |-> [n \in 0 .. Len(digests) - 1 |-> digests[n + 1]],
     signed |-> input.at, from |-> input.at, until |-> input.until, device |-> input.item.device]

\* finish_mdoc_preparation: the headers and what is to be signed
Finish(input, plan, digests) ==
    LET mso == BuildMso(input, digests) IN
    [credential |-> input.credential, mso |-> mso, items |-> {plan[n].item : n \in 1 .. Len(plan)},
     alg |-> input.item.alg, chain |-> input.item.x5c, toSign |-> <<input.item.alg, mso>>,
     issuer |-> input.item.issuer, order |-> input.item]

\* What an executor may return instead of the results it should, a digest of
\* the right length that is simply wrong among them
Miscomputed(item) == [item EXCEPT !.value.id = "miscomputed"]
Faults(results) ==
    {results, Reverse(results), Tail(results), Append(results, results[1]),
     [results EXCEPT ![1].whole = FALSE], [results EXCEPT ![1].ordinal = @ + 1],
     [results EXCEPT ![1] = results[Len(results)]], [results EXCEPT ![1].of = Miscomputed(@)]}

\* prepare_validated_mdoc_batch_with_digest_executor
Prepare(batch) ==
    /\ order = <<>>
    /\ order' = batch
    /\ LET plan == Plan(batch) IN
       \/ plan.failed /\ prepared' = <<>>
       \/ /\ ~plan.failed
          /\ LET plans == [i \in DOMAIN batch |-> PlanDigests(plan.inputs[i])] IN
             \E results \in Faults(Results(plans)) :
               LET assembly == AssembleDigests(plans, results)
               IN prepared' = IF assembly.failed THEN <<>>
                              ELSE [i \in DOMAIN batch |->
                                      Finish(plan.inputs[i], plans[i], assembly.digests[i])]
    /\ UNCHANGED <<moment, issued, response, verdict>>

\* assemble_mdoc: the signature that came back is verified with the issuer's
\* key, which is not compared with the chain.
AssembleMdoc(p, key) ==
    IF key # p.issuer THEN Nothing
    ELSE [kind |-> "document", docType |-> p.mso.docType, items |-> p.items, namespace |-> p.mso.namespace,
          alg |-> p.alg, chain |-> p.chain, mso |-> p.mso, signature |-> <<key, p.toSign>>,
          device |-> Nothing, order |-> p.order]

\* sign_mdoc_with_signer of every document, with what the signer returns
SignAll(key) ==
    /\ order # <<>> /\ prepared # <<>> /\ issued = {}
    /\ issued' = {AssembleMdoc(prepared[i], key) : i \in DOMAIN prepared} \ {Nothing}
    /\ issued' # {}
    /\ UNCHANGED <<moment, order, prepared, response, verdict>>

-----------------------------------------------------------------------------
(* The holder.                                                             *)

\* filter_request, for one namespace: mandatory elements are added to what was
\* asked for and approved.
FilterRequest(available, mandatory, requested, approved) ==
    (requested \cap available \cap (mandatory \cup approved)) \cup (mandatory \cap available)

Names(doc) == {i.name : i \in doc.items}

\* The wallet signs the session transcript and the document type with the key
\* the issuer has bound.
Disclose(doc, names, transcript, key) ==
    [doc EXCEPT !.items = {i \in @ : i.name \in names},
                !.device = [kind |-> "signed", key |-> key, docType |-> doc.docType, transcript |-> transcript]]

Present(docs, requested, approved, mandatory, transcript) ==
    /\ docs # <<>> /\ response = Nothing
    /\ \A i \in 1 .. Len(docs) : docs[i] \in issued /\ docs[i].mso.device # Nothing
    /\ response' = [kind |-> "response", version |-> "1.0", ok |-> TRUE, changed |-> FALSE, asked |-> transcript,
                    documents |-> [i \in 1 .. Len(docs) |->
                       Disclose(docs[i], FilterRequest(Names(docs[i]), mandatory, requested, approved),
                                transcript, docs[i].mso.device.key)]]
    /\ UNCHANGED <<moment, order, prepared, issued, verdict>>

\* What may be changed in a response on the way, by somebody without the keys
\* of issuer and device.
Changed(r) ==
    LET D(d) == [r EXCEPT !.documents[1] = d]
        doc == r.documents[1]
    IN {[r EXCEPT !.ok = FALSE], [r EXCEPT !.version = "2.0"], [r EXCEPT !.documents = <<>>],
        D([doc EXCEPT !.docType = "other"]), D([doc EXCEPT !.chain = <<>>]), D([doc EXCEPT !.chain = Append(@, Root)]),
        D([doc EXCEPT !.chain = <<Signer(FalseRoot, 5)>>]),
        D([doc EXCEPT !.mso.until = LastMoment + 1]), D([doc EXCEPT !.namespace = "other"]),
        D([doc EXCEPT !.device.docType = "other"]), D([doc EXCEPT !.device = Nothing]),
        D([doc EXCEPT !.device.key = "x"]),
        D([doc EXCEPT !.mso.device.key = "x", !.device.key = "x"]),
        D([doc EXCEPT !.mso.device.key = "x", !.device.key = "x",
                      !.signature = <<Foreign, <<doc.alg, [doc.mso EXCEPT !.device.key = "x"]>>>>])}
       \cup {D([doc EXCEPT !.items = (@ \ {i}) \cup {[i EXCEPT !.value.id = "other"]}]) : i \in doc.items}
       \cup {D([doc EXCEPT !.items = (@ \ {i}) \cup {[i EXCEPT !.name = "age_over_18"]}]) : i \in doc.items}
       \cup {D([doc EXCEPT !.items = @ \cup d.items]) : d \in issued}
       \cup {[r EXCEPT !.documents = Append(@, d)] : d \in {d \in issued : d.mso.device # Nothing}}

Change ==
    /\ response # Nothing /\ verdict = Nothing /\ response.documents # <<>>
    /\ ~response.changed
    /\ \E r \in Changed(response) : response' = [r EXCEPT !.changed = TRUE]
    /\ UNCHANGED <<moment, order, prepared, issued, verdict>>

-----------------------------------------------------------------------------
(* The verifier.                                                           *)

\* parse_valid_device_response
ResponseFits(r) == r.version = "1.0" /\ r.ok /\ r.documents # <<>>

\* validate_document_signer_certificate_profile: no authority, and exactly the
\* digital signature usage
SignerProfileFits(cert) == ~cert.ca /\ cert.usage = {"digitalSignature"}

\* check_chain_constraints: authorities all the way, the leaf none of them, and
\* no more authorities under one than its path length
ConstraintsHold(chain) ==
    /\ Len(chain) > 1 => ~chain[1].ca
    /\ \A i \in 2 .. Len(chain) :
         /\ chain[i].ca /\ "keyCertSign" \in chain[i].usage
         /\ chain[i].pathLen # NoPathLen =>
              Cardinality({j \in 2 .. i - 1 : chain[j].subject # chain[j].issuer}) <= chain[i].pathLen

\* verify_trust_anchor: the last certificate is an anchor if it is its own
\* issuer, or else one that an anchor issued.
ReachesAnchor(last, anchors) ==
    \/ last.issuer = last.subject /\ last \in anchors
    \/ \E a \in anchors : a.subject = last.issuer /\ SignatureVerifies(last, a)

\* validate_parsed_chain, with check_validity and verify_chain_signatures; no
\* intermediates and no revocation are configured.
ChainHolds(chain, anchors) ==
    /\ chain # <<>>
    /\ \A i \in 1 .. Len(chain) : chain[i].from <= moment /\ moment <= chain[i].until
    /\ \A i \in 1 .. Len(chain) - 1 :
         chain[i].issuer = chain[i + 1].subject /\ SignatureVerifies(chain[i], chain[i + 1])
    /\ ConstraintsHold(chain) /\ ReachesAnchor(Last(chain), anchors)

\* verify_issuer_trust: the chain of a pinned leaf has its own last certificate
\* for an anchor, which is one only if it is its own issuer.
IssuerTrusted(chain, roots, pinned) ==
    /\ chain # <<>> /\ SignerProfileFits(chain[1])
    /\ ChainHolds(chain, IF chain[1] \in pinned THEN {Last(chain)} ELSE roots)

\* verify_issuer_value_digests
ValueDigestsMatch(doc) ==
    doc.items # {} => /\ doc.namespace = doc.mso.namespace
                      /\ \A i \in doc.items : i.id \in DOMAIN doc.mso.digests /\ doc.mso.digests[i.id] = i

\* verify_issuer_signature, with the key of the chain's leaf
IssuerSigned(doc) ==
    /\ doc.chain # <<>>
    /\ doc.signature = <<doc.chain[1].key, <<doc.alg, doc.mso>>>>
    /\ ValueDigestsMatch(doc)

\* authenticated_document_evidence and validated_mso_evidence
EvidenceValid(doc) ==
    /\ doc.alg = "ES256"
    /\ doc.mso.version = "1.0" /\ doc.mso.docType = doc.docType
    /\ doc.mso.signed <= doc.mso.from /\ doc.mso.from <= doc.mso.until
    /\ doc.mso.from <= moment /\ moment <= doc.mso.until

\* verify_issuer_authentication: one document that fails fails the response.
SignatureValid(r) ==
    /\ ResponseFits(r)
    /\ \A i \in 1 .. Len(r.documents) : IssuerSigned(r.documents[i]) /\ EvidenceValid(r.documents[i])
AllTrusted(r, roots, pinned) ==
    /\ SignatureValid(r) /\ roots \cup pinned # {}
    /\ \A i \in 1 .. Len(r.documents) : IssuerTrusted(r.documents[i].chain, roots, pinned)

\* verify_device_authentication
DeviceAuthentic(r, transcript) ==
    /\ ResponseFits(r)
    /\ \A i \in 1 .. Len(r.documents) :
         LET d == r.documents[i]
         IN /\ d.device # Nothing /\ d.mso.device # Nothing
            /\ d.device = [kind |-> "signed", key |-> d.mso.device.key, docType |-> d.docType,
                           transcript |-> transcript]

\* disclosed_claims: a name that occurs once is a claim of its own.
DisclosedClaims(r) ==
    LET fields == UNION {{<<n, i>> : i \in r.documents[n].items} : n \in 1 .. Len(r.documents)}
        Named(f) == {g \in fields : g[2].name = f[2].name}
    IN {<<f[2].name, CborToJson(f[2].value)>> : f \in {g \in fields : Cardinality(Named(g)) = 1}}

\* verify_mdoc_presentation_at, and verify_mdoc_issuer_at without the device
VerifyPresentation(roots, pinned, transcript) ==
    /\ response # Nothing /\ verdict = Nothing
    /\ verdict' = [kind |-> "verdict", signed |-> SignatureValid(response),
                   trusted |-> AllTrusted(response, roots, pinned),
                   device |-> DeviceAuthentic(response, transcript),
                   claims |-> IF response.documents = <<>> THEN {} ELSE DisclosedClaims(response),
                   roots |-> roots, pinned |-> pinned, transcript |-> transcript]
    /\ UNCHANGED <<moment, order, prepared, issued, response>>

-----------------------------------------------------------------------------
Device(key) == [kind |-> "jwk", private |-> FALSE, curve |-> "P-256", onCurve |-> TRUE, key |-> key]

\* The items ordered
Usual ==
    [id |-> 1, credential |-> 0, docType |-> "mDL", claims |-> [n \in {"age_over_18", "name"} |->
        IF n = "name" THEN Json("text", "Ann") ELSE Json("bool", "yes")],
     x5c |-> <<Signer(Root, 5)>>, chainFits |-> TRUE, seconds |-> NoExpiry, device |-> Device("d1"), alg |-> "ES256",
     issuer |-> IssuerKey, zk |-> FALSE, predicates |-> {}]
Other == [Usual EXCEPT !.id = 2, !.device = Device("d2"),
                       !.claims = [n \in {"name", "since"} |->
                                     IF n = "name" THEN Json("text", "Bo") ELSE Json("date", "day")]]
Variants ==
    {Other, [Other EXCEPT !.id = 1], [Other EXCEPT !.seconds = Day - 1], [Other EXCEPT !.seconds = Day + 1],
     [Other EXCEPT !.claims["since"] = Json("big", "n")], [Other EXCEPT !.claims["since"] = Json("huge", "n")],
     [Other EXCEPT !.claims["since"] = Json("deep", "n")], [Other EXCEPT !.alg = "EdDSA"],
     [Other EXCEPT !.alg = "RS256"], [Other EXCEPT !.device = Nothing], [Other EXCEPT !.device.private = TRUE],
     [Other EXCEPT !.device.curve = "Ed25519"], [Other EXCEPT !.chainFits = FALSE], [Other EXCEPT !.issuer = Foreign],
     [Other EXCEPT !.seconds = MaxDate + 1], [Other EXCEPT !.alg = "ES384"], [Other EXCEPT !.credential = 7],
     [Other EXCEPT !.zk = TRUE],
     [Usual EXCEPT !.id = 2, !.zk = TRUE, !.predicates = {"age_over_18"}],
     [Usual EXCEPT !.id = 2, !.zk = TRUE, !.predicates = {"name"}]}
Batches == {<<v>> : v \in Variants} \cup {<<[Other EXCEPT !.x5c = c]>> : c \in Chains} \cup {<<Usual, v>> : v \in Variants}
           \cup {<<[Usual EXCEPT !.credential = 7], [Other EXCEPT !.credential = c]>> : c \in {7, 8}}

Requests == {<<{"name", "age_over_18"}, {"name", "age_over_18"}, {}>>, <<{"age_over_18"}, {"age_over_18"}, {}>>,
             <<{"age_over_18", "since"}, {"since"}, {"name"}>>}

\* Roots and pinned certificates of verifiers
Trusts == {<<{}, {}>>, <<{Root}, {}>>, <<{FalseRoot}, {}>>, <<{}, {Signer(Root, 5), Alone}>>,
            <<{Root}, {Signer(FalseRoot, 6)}>>}

Init ==
    /\ moment = 0 /\ order = <<>> /\ prepared = <<>> /\ issued = {} /\ response = Nothing
    /\ verdict = Nothing

\* Only the verification looks at the clock after the documents are made.
Pass ==
    /\ response # Nothing /\ verdict = Nothing /\ moment < LastMoment
    /\ moment' = moment + 1
    /\ UNCHANGED <<order, prepared, issued, response, verdict>>

Next ==
    \/ order = <<>> /\ \E b \in Batches : Prepare(b)
    \/ prepared # <<>> /\ \E k \in {IssuerKey, Foreign} : SignAll(k)
    \/ \E d, e \in issued, q \in Requests, t \in 1 .. MaxRequests :
         Present(IF d = e THEN <<d>> ELSE <<d, e>>, q[1], q[2], q[3], t)
    \/ Change \/ Pass
    \/ /\ response # Nothing /\ verdict = Nothing
       /\ \E t \in Trusts : VerifyPresentation(t[1], t[2], 1)

Spec == Init /\ [][Next]_vars

-----------------------------------------------------------------------------
(* Properties.                                                             *)

\* The order a document of the response goes back to: made for its holder, and
\* what it shows of it.
ComesFrom(doc, item) ==
    /\ doc.docType = item.docType /\ doc.mso.device = item.device
    /\ \A i \in doc.items : i.name \in DOMAIN item.claims /\ i.value = JsonToCbor(item.claims[i.name])

\* What is trusted and authenticated by its device in this session was issued,
\* by the holder of a certificate that is pinned and comes with its chain up to
\* one that is its own issuer, or that a root of the verifier vouches for,
\* itself or through an authority it allows; to that device, within the time
\* the issuer was asked for; whatever was changed, added or moved between
\* documents.
Vouched(root) == {Signer(root, 5)} \cup (IF root = Root THEN {Signer(Below, 5)} ELSE {})
DocumentsGenuine ==
    verdict # Nothing /\ verdict.trusted /\ verdict.device =>
        \A i \in 1 .. Len(response.documents) :
            LET d == response.documents[i] IN
            /\ \E j \in DOMAIN order :
                 ComesFrom(d, order[j]) /\ (order[j].seconds # NoExpiry => moment <= order[j].seconds)
            /\ d.device.transcript = verdict.transcript
            /\ d.signature[1] = IssuerKey
            /\ \/ d.chain[1] \in verdict.pinned /\ Last(d.chain).issuer = Last(d.chain).subject
               \/ \E r \in verdict.roots : d.chain[1] \in Vouched(r)

\* What was issued under a root of the verifier with a certificate that is only
\* for signing, with the chain to the root and right digests, and presented in
\* time, is accepted with its claims as ordered; an integer past 63 bits comes
\* out another.
DocumentsAccepted ==
    verdict # Nothing /\ ~response.changed /\ Root \in verdict.roots /\ verdict.transcript = response.asked =>
        LET docs == response.documents
            Fits(d) == /\ d.alg = "ES256" /\ moment <= d.mso.until /\ moment <= 3 /\ d.chain # <<>>
                       /\ d.chain \in {<<Signer(Root, 5)>>, <<Signer(Root, 5), Root>>,
                                       <<Signer(Below, 5), Below>>, <<Signer(Below, 5), Below, Root>>}
                       /\ d.signature[1] = IssuerKey
                       /\ \A n \in DOMAIN d.mso.digests : d.mso.digests[n].value.id # "miscomputed"
        IN (\A i \in 1 .. Len(docs) : Fits(docs[i])) =>
              /\ verdict.trusted /\ verdict.device
              /\ \A c \in verdict.claims : \E j \in DOMAIN order :
                     /\ c[1] \in DOMAIN order[j].claims
                     /\ order[j].claims[c[1]].kind # "big" => c[2] = order[j].claims[c[1]]

\* A batch that is prepared has for every element of every document the digest
\* returned for that very element, in whatever order the digests came, and an
\* identifier of its own; a digest that is wrong though it came under the right
\* identity goes into that element and no other. And no document outlives what
\* was asked for.
BatchesHold ==
    prepared # <<>> =>
        /\ \A i \in DOMAIN prepared :
             /\ DOMAIN prepared[i].mso.digests = {x.id : x \in prepared[i].items}
             /\ \A x \in prepared[i].items : x.salt[1] = order[i].id /\ prepared[i].mso.digests[x.id] \in {x, Miscomputed(x)}
             /\ order[i].seconds # NoExpiry => prepared[i].mso.until - prepared[i].mso.from <= order[i].seconds
        /\ \A i, j \in DOMAIN prepared : i # j => prepared[i].credential # prepared[j].credential

\* Mobile documents are prepared right, and accepted just when they are genuine
MobileDocumentsHold == BatchesHold /\ DocumentsGenuine /\ DocumentsAccepted
=============================================================================
