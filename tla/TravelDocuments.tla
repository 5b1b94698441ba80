---------------------------- MODULE TravelDocuments ----------------------------
(***************************************************************************)
(* Travel documents other than the chip: the machine readable zone (mrz),  *)
(* visible digital seals (verification/vds_nc.rs, and formats/vds_nc.rs    *)
(* and vds_nc_profile.rs of marty-oid4vci) and digital travel credentials  *)
(* (dtc). Encodings are left out; texts are small values with the          *)
(* conversions the code applies to them. Each behaviour makes one document *)
(* and reads it, possibly changed on the way.                              *)
(***************************************************************************)
EXTENDS Integers, Sequences, FiniteSets

CONSTANTS
    Characters,   \* character values of a zone; Filler is "<"
    LastMoment,   \* bound on time
    StatusLife    \* how long evidence of a status is fresh

VARIABLES
    moment,       \* the time
    paper,        \* the document made: what it is and what went into it
    held,         \* the document as presented
    reading       \* the result of reading it

vars == <<moment, paper, held, reading>>

NoPaper == [kind |-> "none"]
NoReading == [read |-> FALSE]

-----------------------------------------------------------------------------
(* The machine readable zone.                                              *)

Filler == 99

\* char_value
CharValue(c) == IF c = Filler THEN 0 ELSE c

\* compute_check_digit: weights 7, 3 and 1 in turn
CheckDigit(text) ==
    LET Weight(i) == <<7, 3, 1>>[((i - 1) % 3) + 1]
        sum[i \in 0 .. Len(text)] == IF i = 0 THEN 0 ELSE sum[i - 1] + CharValue(text[i]) * Weight(i)
    IN sum[Len(text)] % 10

Pad(text, n) == [i \in 1 .. n |-> IF i <= Len(text) THEN text[i] ELSE Filler]

\* trim_end_matches('<')
Trim(text) ==
    LET last == {i \in 1 .. Len(text) : text[i] # Filler}
    IN IF last = {} THEN <<>> ELSE SubSeq(text, 1, CHOOSE i \in last : \A j \in last : j <= i)

\* MrzFormat
Formats == {"TD1", "TD2", "TD3"}

\* How long the optional data is; TD1 has a second field of it, on its second
\* line.
OptionalLength(format) == CASE format = "TD1" -> 15 [] format = "TD2" -> 7 [] OTHER -> 14
SecondLength(format) == IF format = "TD1" THEN 11 ELSE 0

\* The composite of validate_td1_check_digits, _td2_ and _td3_
Composite(z) ==
    LET number == Append(z.number, z.numberCheck)
        dates == Append(z.birth, z.birthCheck) \o Append(z.expiry, z.expiryCheck)
    IN CASE z.format = "TD1" -> number \o z.optional \o dates \o z.second
         [] z.format = "TD2" -> number \o dates \o z.optional
         [] OTHER -> number \o dates \o Append(z.optional, z.optionalCheck)

\* A zone as it is printed.
PrintZone(format, number, birth, expiry, data) ==
    LET padded == Pad(number, 9)
        optional == Pad(data, OptionalLength(format))
        z == [format |-> format, number |-> padded, numberCheck |-> CheckDigit(padded),
              birth |-> birth, birthCheck |-> CheckDigit(birth),
              expiry |-> expiry, expiryCheck |-> CheckDigit(expiry),
              optional |-> optional, optionalCheck |-> CheckDigit(optional),
              second |-> Pad(IF format = "TD1" THEN data ELSE <<>>, SecondLength(format)), composite |-> 0]
    IN [z EXCEPT !.composite = CheckDigit(Composite(z))]

\* Mutant of ValidateCheckDigits: the dates go unchecked.
ValidateCheckDigitsNumber(z) == CheckDigit(z.number) = z.numberCheck

\* validate_check_digits; the optional data has a digit of its own in TD3 only.
ValidateCheckDigits(z) ==
    /\ CheckDigit(z.number) = z.numberCheck /\ CheckDigit(z.birth) = z.birthCheck
    /\ CheckDigit(z.expiry) = z.expiryCheck
    /\ z.format = "TD3" => CheckDigit(z.optional) = z.optionalCheck
    /\ CheckDigit(Composite(z)) = z.composite

\* compute_mrz_information of what parse_td1, parse_td2 and parse_td3 keep:
\* the document number without its fillers
MrzInformation(z) ==
    LET padded == Pad(Trim(z.number), 9)
    IN <<padded, CheckDigit(padded), z.birth, CheckDigit(z.birth), z.expiry, CheckDigit(z.expiry)>>

\* MrzKeyInfo::try_from_mrz_fields takes the fields as printed.
KeyInfo(number, birth, expiry) ==
    <<number, CheckDigit(number), birth, CheckDigit(birth), expiry, CheckDigit(expiry)>>

\* The scanner misreads a character of the zone, a check digit included.
Misread(z) ==
    UNION {{[z EXCEPT ![f][i] = c] : i \in 1 .. Len(z[f]), c \in Characters}
             : f \in {"number", "birth", "expiry", "optional", "second"}}
    \cup {[z EXCEPT ![f] = c] : f \in {"numberCheck", "birthCheck", "expiryCheck", "optionalCheck", "composite"},
                                c \in Characters}

ReadZone ==
    /\ held.kind = "zone" /\ ~reading.read
    /\ reading' = [read |-> TRUE, valid |-> ValidateCheckDigits(held.zone),
                   information |-> MrzInformation(held.zone)]
    /\ UNCHANGED <<moment, paper, held>>

-----------------------------------------------------------------------------
(* Visible digital seals. A document has a type, country and name, which   *)
(* are texts, and dates, 0 where absent; texts are lower or upper case and *)
(* may hold the delimiter of the envelope.                                 *)

Upper(text) == CASE text = "smith" -> "SMITH" [] text = "uto" -> "UTO" [] text = "v" -> "V" [] OTHER -> text
Delimited(text) == text = "SM~TH"

\* VdsNcDocumentType::parse
DocumentType(text) ==
    CASE Upper(text) = "CMC" -> "CMC" [] Upper(text) \in {"MRV", "V"} -> "MRV"
      [] Upper(text) = "EVISA" -> "EVISA" [] OTHER -> "unsupported"

\* CMC_FIELDS, MRV_FIELDS, EVISA_FIELDS: only visas may say from when and until
\* when they are valid.
AllowsValidity(type) == type # "CMC"

\* normalize_text and canonicalize_document
Normalized(doc) == [doc EXCEPT !.docType = Upper(@), !.country = Upper(@), !.name = Upper(@)]

Canonicalizes(type, doc) ==
    /\ doc.country # "none" /\ doc.name # "none" /\ doc.issue # 0 /\ doc.expiry # 0
    /\ ~Delimited(doc.name) /\ ~doc.extra
    /\ ~AllowsValidity(type) => doc.from = 0 /\ doc.until = 0
    /\ DocumentType(doc.docType) = type

SealAlgorithms == {"ES256", "PS256"}

\* build_profile_payload: the type of the credential where the claims have
\* none, a country under another name, and the metadata the seal carries
BuildProfilePayload(claims, credentialType, key, alg) ==
    LET doc == [claims EXCEPT !.docType = IF @ = "none" THEN credentialType ELSE @,
                              !.country = IF @ = "none" THEN claims.alias ELSE @,
                              !.alias = "none", !.extra = @ \/ (claims.country # "none" /\ claims.alias # "none")]
        type == DocumentType(doc.docType)
    IN IF type = "unsupported" \/ alg \notin SealAlgorithms \/ ~Canonicalizes(type, doc)
       THEN [failed |-> TRUE]
       ELSE [failed |-> FALSE, doc |-> Normalized(doc),
             meta |-> [version |-> "1.0", type |-> type, key |-> key, alg |-> alg]]

\* prepare_vds_nc, the signer, and assemble_vds_nc, which verifies what the
\* signer returned; segments is what splitting at the delimiter gives.
Seal(claims, credentialType, key, alg, signedBy) ==
    LET p == BuildProfilePayload(claims, credentialType, key, alg) IN
    IF p.failed \/ signedBy # key THEN [kind |-> "none"]
    ELSE [kind |-> "seal", header |-> p.doc.country, doc |-> p.doc, meta |-> p.meta,
          segments |-> IF Delimited(p.doc.name) THEN 4 ELSE 3,
          signature |-> <<signedBy, p.meta.alg, p.doc.country, p.doc, p.meta>>]

\* parse_barcode with parse_header and validate_payload
ParseBarcode(b) ==
    /\ b.segments = 3 /\ b.header = Upper(b.header)
    /\ b.meta.version = "1.0" /\ b.meta.type \in {"CMC", "MRV", "EVISA"} /\ b.meta.alg \in SealAlgorithms
    /\ Canonicalizes(b.meta.type, b.doc) /\ Normalized(b.doc) = b.doc
    /\ b.doc.country = b.header

\* verify_vds_nc with a JWK, which knows no RSA, verify_vds_nc_public_key_der
\* with a key of either kind
VerifySeal(b, key, jwk) ==
    /\ jwk => b.meta.alg # "PS256"
    /\ b.signature = <<key, b.meta.alg, b.header, b.doc, b.meta>>

\* validate_fields: what is printed, the name here, against the seal
FieldsAgree(b, printed) == printed = "none" \/ Upper(printed) = Upper(b.doc.name)

\* validate_temporal
InTime(doc) ==
    /\ \A d \in {doc.issue, doc.from} \ {0} : d <= moment
    /\ \A d \in {doc.expiry, doc.until} \ {0} : moment <= d

\* verify_vds_nc_profile_pem
ReadSeal(key, printed) ==
    /\ held.kind = "seal" /\ ~reading.read
    /\ reading' = [read |-> TRUE, key |-> key, printed |-> printed,
                   valid |-> /\ ParseBarcode(held) /\ VerifySeal(held, key, FALSE)
                             /\ FieldsAgree(held, printed) /\ InTime(held.doc),
                   jwkValid |-> ParseBarcode(held) /\ VerifySeal(held, key, TRUE)]
    /\ UNCHANGED <<moment, paper, held>>

ChangedSeals(b) ==
    LET Doc == [docType |-> {"v", "CMC", "EVISA"}, country |-> {"uto", "XXX"}, name |-> {"smith", "SM~TH", "OTHER"},
                issue |-> {0, 2}, expiry |-> {0, LastMoment + 1}, from |-> {0, 1, 2}, until |-> {0, LastMoment},
                extra |-> BOOLEAN]
        Meta == [version |-> {"2.0"}, type |-> {"CMC", "MRV", "EVISA"}, key |-> {"x"}, alg |-> SealAlgorithms]
    IN UNION {{[b EXCEPT !.doc[f] = v] : v \in Doc[f]} : f \in DOMAIN Doc}
       \cup UNION {{[b EXCEPT !.meta[f] = v] : v \in Meta[f]} : f \in DOMAIN Meta}
       \cup {[b EXCEPT !.header = "XXX"], [b EXCEPT !.header = "XXX", !.doc.country = "XXX"], [b EXCEPT !.segments = 4]}

-----------------------------------------------------------------------------
(* Digital travel credentials. A date is 0 where absent and -1 where       *)
(* parse_iso_to_epoch does not know its form. group.plain tells data given *)
(* as it is from base64, group.data is "none" where there is none; the     *)
(* profile is the one of the type, 4, 5 or 6, and complete with the fields *)
(* it must have: lines of a zone, keys of chip and device, or the report   *)
(* and the binding of a device.                                            *)

Hash(group) == <<"sha256", group.data>>

\* normalize_record fills the identifier and the date of creation from the
\* clock, encodes what is not base64, and for a profile of type 1 digests the
\* data groups and names the state.
NormalizeRecord(r, time) ==
    LET group == [r.group EXCEPT !.plain = FALSE] IN
    [r EXCEPT !.id = IF @ = 0 THEN time ELSE @, !.created = IF @ = 0 THEN time ELSE @, !.group = group,
              !.sodHash = IF r.type = 4 /\ @ = <<>> /\ group.data # "none" THEN Hash(group) ELSE @,
              !.state = IF r.type = 4 /\ @ = "none" THEN r.authority ELSE @]

\* A signature over canonical_payload, which leaves out what signing adds; a
\* legacy one is over the fields in their old order.
SignRecord(key, r, form) == <<key, form, r>>

\* verify_ecdsa, tried with the canonical and the legacy payload
SignatureFits(signature, key, r) == signature \in {SignRecord(key, r, "canonical"), SignRecord(key, r, "legacy")}

\* prepare_dtc_signing_json, the signature from elsewhere, and
\* assemble_dtc_signature_json a moment later, which normalises again what it
\* is given, the prepared record or the first one, and verifies.
AssembleDtc(prepared, returned, key, later) ==
    LET r == NormalizeRecord(returned, later) IN
    IF SignatureFits(SignRecord(key, prepared, "canonical"), key, r)
    THEN [kind |-> "dtc", record |-> r, signed |-> TRUE, key |-> key,
          signature |-> SignRecord(key, prepared, "canonical")]
    ELSE NoPaper

\* An issuer that normalises and signs in one place
SignDtc(r, key, form) ==
    LET n == NormalizeRecord(r, moment)
    IN [kind |-> "dtc", record |-> n, signed |-> TRUE, key |-> key, signature |-> SignRecord(key, n, form)]

\* The certificates: validate_dtc_signer_eku asks for a critical extended key
\* usage, validate_chain for a path to one of the verifier's anchors.
ValidateChain(cert) == cert.eku /\ cert.critical /\ cert.anchored
Certificates ==
    LET good == [key |-> "k", eku |-> TRUE, critical |-> TRUE, anchored |-> TRUE]
    IN {good, [good EXCEPT !.critical = FALSE], [good EXCEPT !.key = "x", !.anchored = FALSE],
        [good EXCEPT !.key = "x", !.eku = FALSE]}

\* validate_current_status
NoEvidence == [given |-> FALSE]
CurrentStatus(r, evidence) ==
    LET number == IF r.linked # "none" THEN r.linked ELSE r.number IN
    IF ~evidence.given THEN "unknown"
    ELSE IF evidence.id # r.id \/ evidence.number # number \/ evidence.at > moment \/ evidence.until <= moment
    THEN "unknown" ELSE evidence.status

\* The checks of verify_dtc_json_with_status on the record's own dates: the
\* expiry of the credential or else of the passport; a date in another form
\* is no reason to refuse.
Dated(r) ==
    LET expiry == IF r.until # 0 THEN r.until ELSE r.expiry
    IN (r.from > 0 => r.from <= moment) /\ (expiry > 0 => moment <= expiry)

\* The profile the type of the credential asks for
ProfileFits(r) ==
    CASE r.type = 4 -> r.complete /\ r.group.data # "none" /\ r.sodHash = Hash(r.group)
      [] r.type \in {5, 6} -> r.complete
      [] OTHER -> TRUE

\* verify_dtc_json_with_status
VerifyDtc(d, cert, evidence) ==
    LET r == NormalizeRecord(d.record, moment) IN
    /\ d.signed /\ SignatureFits(d.signature, d.key, r)
    /\ Dated(d.record) /\ ~d.record.revoked /\ CurrentStatus(d.record, evidence) # "revoked"
    /\ ProfileFits(r)
    /\ d.key = cert.key /\ ValidateChain(cert)

ReadDtc(cert, evidence) ==
    /\ held.kind = "dtc" /\ ~reading.read
    /\ reading' = [read |-> TRUE, valid |-> VerifyDtc(held, cert, evidence), cert |-> cert, evidence |-> evidence,
                   status |-> IF held.record.revoked THEN "revoked" ELSE CurrentStatus(held.record, evidence)]
    /\ UNCHANGED <<moment, paper, held>>

\* Every change of one field of a record, those that normalising undoes too,
\* and of the digest together with the data
ChangedRecords(r) ==
    LET Values == [id |-> {0, 7}, created |-> {0, 7}, sodHash |-> {<<>>, <<"sha256", "other">>},
                   group |-> [data : {"d", "none", "other"}, plain : BOOLEAN], state |-> {"none", "UTO", "XXX"},
                   authority |-> {"UTO", "XXX"}, type |-> {0, 4, 5, 6}, complete |-> BOOLEAN, number |-> {"n", "m"},
                   linked |-> {"none", "l"}, revoked |-> BOOLEAN, from |-> {-1, 0, 3}, until |-> {-1, 0, 2, 3},
                   expiry |-> {-1, 0, 1, 3}]
        digested == [r EXCEPT !.group.data = "other", !.sodHash = <<"sha256", "other">>]
    IN {digested, [digested EXCEPT !.sodHash = <<>>]} \cup UNION {{[r EXCEPT ![f] = v] : v \in Values[f]} : f \in DOMAIN Values}

\* The record changed, signed again with another key or not, and the envelope
ChangedDtcs(d) ==
    LET resigned(r) == [d EXCEPT !.record = r, !.key = "x", !.signature = SignRecord("x", r, "canonical")]
    IN {[d EXCEPT !.record = r] : r \in ChangedRecords(d.record)}
       \cup {resigned(r) : r \in {q \in ChangedRecords(d.record) : q.group.data = "other"}}
       \cup {[d EXCEPT !.key = "x"], [d EXCEPT !.signed = FALSE]}

-----------------------------------------------------------------------------
(* One document, made, kept for a while, perhaps changed, and read.        *)

Claims == [docType : {"none", "CMC", "v"}, country : {"none", "uto"}, alias : {"none", "UTO"},
           name : {"smith", "SM~TH"}, issue : {1}, expiry : {2}, from : {0, 2}, until : {0, 1}, extra : BOOLEAN]

Records ==
    LET record == [id |-> 7, created |-> 0, group |-> [data |-> "d", plain |-> TRUE], sodHash |-> <<>>, type |-> 4,
                   state |-> "none", authority |-> "UTO", complete |-> TRUE, number |-> "n", linked |-> "none",
                   revoked |-> FALSE, from |-> 0, until |-> 2, expiry |-> 1]
    IN {[record EXCEPT !.id = i, !.group.plain = p, !.type = t, !.until = u, !.linked = l] :
          i \in {0, 7}, p \in BOOLEAN, t \in {0, 4, 5, 6}, u \in {-1, 0, 2}, l \in {"none", "l"}}
       \cup {[record EXCEPT !.type = t, !.complete = FALSE] : t \in {4, 5, 6}}
       \cup {[record EXCEPT !.revoked = TRUE], [record EXCEPT !.group.data = "none"], [record EXCEPT !.state = "XXX"],
             [record EXCEPT !.from = 2, !.until = 3], [record EXCEPT !.sodHash = <<"sha256", "other">>]}

Evidence(r) ==
    LET good == [given |-> TRUE, id |-> r.id, number |-> IF r.linked # "none" THEN r.linked ELSE r.number,
                 status |-> "good", at |-> 0, until |-> StatusLife]
    IN {NoEvidence, good, [good EXCEPT !.status = "revoked"], [good EXCEPT !.status = "revoked", !.id = @ + 1],
        [good EXCEPT !.status = "revoked", !.number = "n"]}

MakeZone(format, number, birth, expiry, data) ==
    /\ paper = NoPaper
    /\ paper' = [kind |-> "zone", zone |-> PrintZone(format, number, birth, expiry, data)]
    /\ held' \in {paper'} \cup {[kind |-> "zone", zone |-> z] : z \in Misread(paper'.zone)}
    /\ UNCHANGED <<moment, reading>>

MakeSeal(claims, type, alg, signedBy) ==
    /\ paper = NoPaper
    /\ paper' = Seal(claims, type, "k", alg, signedBy) /\ paper' # NoPaper
    /\ held' \in {paper'} \cup ChangedSeals(paper')
    /\ UNCHANGED <<moment, reading>>

MakeDtc(r, form) ==
    /\ paper = NoPaper
    /\ paper' = SignDtc(r, "k", form)
    /\ held' \in {paper'} \cup ChangedDtcs(paper')
    /\ UNCHANGED <<moment, reading>>

\* Remote signing: by the time the signature is back the clock may have moved.
MakeDtcRemotely(r, whole, later) ==
    /\ paper = NoPaper /\ later >= moment /\ later <= LastMoment
    /\ LET prepared == NormalizeRecord(r, moment) IN
       /\ paper' = AssembleDtc(prepared, IF whole THEN prepared ELSE r, "k", later)
       /\ paper' # NoPaper
    /\ held' = paper' /\ moment' = later
    /\ UNCHANGED reading

Pass ==
    /\ paper # NoPaper /\ held.kind # "zone" /\ ~reading.read /\ moment < LastMoment
    /\ moment' = moment + 1
    /\ UNCHANGED <<paper, held, reading>>

Init == moment = 1 /\ paper = NoPaper /\ held = NoPaper /\ reading = NoReading

Next ==
    \/ /\ paper = NoPaper
       /\ \/ \E f \in Formats, n \in {<<1, 10>>, <<1, 0, 11, 1, 1, 10, 1, 1, 0>>}, b \in {<<0, 1, 1, 0, 0, 1>>},
                d \in {<<>>, <<1, 11>>} :
              MakeZone(f, n, b, <<1, 0, 1, 1, 1, 0>>, d)
          \/ \E c \in Claims, t \in {"CMC", "MRV", "ID"}, a \in SealAlgorithms, s \in {"k", "x"} : MakeSeal(c, t, a, s)
          \/ \E r \in Records, f \in {"canonical", "legacy"} : MakeDtc(r, f)
          \/ \E r \in Records, w \in BOOLEAN, l \in 1 .. LastMoment : MakeDtcRemotely(r, w, l)
    \/ ReadZone \/ Pass
    \/ \E k \in {"k", "x"}, p \in {"none", "Smith", "smith"} : ReadSeal(k, p)
    \/ held.kind = "dtc" /\ ~reading.read /\ \E c \in Certificates, e \in Evidence(held.record) : ReadDtc(c, e)

Spec == Init /\ [][Next]_vars

-----------------------------------------------------------------------------
(* Properties.                                                             *)

\* Reading a zone: a single misread character, in a field, in the optional data
\* of each format or among the check digits, never passes the check digits, and
\* a zone read as printed passes them and gives the key the chip was given. A
\* misreading that adds ten to a character is beyond the check digits, and so
\* is a digit the format does not have.
ZoneReadRight ==
    reading.read /\ held.kind = "zone" =>
        LET z == paper.zone
            Far(a, b) == \E i \in 1 .. Len(a) : CharValue(a[i]) % 10 # CharValue(b[i]) % 10
            checks == {"numberCheck", "birthCheck", "expiryCheck", "composite"}
                      \cup (IF z.format = "TD3" THEN {"optionalCheck"} ELSE {})
            misread == \/ \E f \in {"number", "birth", "expiry", "optional", "second"} : Far(z[f], held.zone[f])
                       \/ \E f \in checks : z[f] # held.zone[f]
        IN /\ misread => ~reading.valid
           /\ held = paper => reading.valid /\ reading.information = KeyInfo(z.number, z.birth, z.expiry)

\* A seal is valid only as it was sealed, under the sealing key and on a day
\* that every date in it allows; one sealed is readable and valid on such days,
\* whatever its claims were made of.
SealsHold ==
    reading.read /\ held.kind = "seal" =>
        LET d == held.doc
            days == \A t \in {d.issue, d.from, d.expiry, d.until} \ {0} :
                        IF t \in {d.issue, d.from} THEN t <= moment \/ t \in {d.expiry, d.until} ELSE t >= moment
        IN /\ reading.valid => held = paper /\ reading.key = "k" /\ days
           /\ held = paper /\ reading.key = "k" /\ reading.printed = "none" /\ InTime(d) => reading.valid
           /\ reading.jwkValid => held = paper

\* A travel credential is valid only if what is presented normalises to what
\* was signed, which is all that signing protects (a digest left out, data not
\* yet encoded and a date of creation filled in within the same moment are
\* read alike), with the key of a certificate made for it by an anchor of the
\* verifier, unless it says itself that it is revoked, not yet valid or
\* expired or current evidence says so, and if it is complete for its type;
\* and as it was signed it stays valid however often it is normalised, at any
\* later time.
CredentialsHold ==
    reading.read /\ held.kind = "dtc" =>
        LET r == paper.record IN
        /\ reading.valid =>
             /\ NormalizeRecord(held.record, moment) = r /\ reading.cert.key = "k" /\ reading.cert.anchored
             /\ ~r.revoked /\ reading.status # "revoked"
             /\ r.from > 0 => moment >= r.from
             /\ r.until > 0 => moment <= r.until
             /\ r.until = 0 /\ r.expiry > 0 => moment <= r.expiry
             /\ r.type \in {4, 5, 6} => r.complete
             /\ r.type = 4 => r.group.data # "none" /\ r.sodHash = Hash(r.group) /\ r.state # "none"
        /\ held = paper /\ reading.cert.key = "k" /\ ValidateChain(reading.cert) /\ reading.evidence = NoEvidence
             /\ ~r.revoked /\ Dated(r) /\ ProfileFits(r) => reading.valid
        /\ reading.status = "good" => reading.evidence.status = "good" /\ reading.evidence.until > moment

\* Zones, seals and travel credentials are read as they were made, and only so
TravelDocumentsHold == ZoneReadRight /\ SealsHold /\ CredentialsHold
=============================================================================
