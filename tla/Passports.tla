------------------------------- MODULE Passports -------------------------------
(***************************************************************************)
(* Electronic passports from the country's authority to the border:        *)
(* issuing document signers, personalising chips, and inspecting them      *)
(* (issuance, verification/emrtd.rs, asn1, passport_integrity.rs, mrz and  *)
(* active_authentication.rs of marty-verification). A content is a model   *)
(* value, a digest is the algorithm with what it digests, a signature the  *)
(* key with what it signs.                                                 *)
(***************************************************************************)
EXTENDS CertificateBuilder, Sequences

CONSTANTS
    Groups,        \* numbers of the data groups personalised
    Contents,      \* contents of a data group; of group 15, chip keys
    ChipKey,       \* number of the data group with the chip's public key
    SignerDays,    \* validity of a document signer certificate
    CrlDays,       \* validity of a revocation list
    LastDay,       \* bound on time
    MaxSigners,    \* bound on the document signers
    MaxPassports,  \* bound on the passports personalised
    MaxChallenges  \* bound on the challenges sent

VARIABLES
    today,
    registry,   \* the CSCA certificates trusted (CscaRegistry)
    signers,    \* document signers: certificate, key and who issued them
    made,       \* the passports personalised
    chip,       \* what the reader reads: data groups and security object
    intact,     \* whether anything of it was changed since it was made
    revoked,    \* serial numbers the authority has revoked
    crls,       \* the lists supplied to the inspection
    asked,      \* the last challenge of active authentication
    answers,    \* the answers chips have given
    outcome     \* what the last call returned

vars == <<today, registry, signers, made, chip, intact, revoked, crls, asked, answers, outcome>>

None == [call |-> "none"]

\* A digest under an algorithm of HashAlgorithm, with the length it has.
Algorithms == {"sha1", "sha256"}
Digest(alg, what) == [alg |-> alg, of |-> what]

-----------------------------------------------------------------------------
(* Signed CMS documents: the security object of a chip and master lists.   *)

\* SignerInfoBuilder and SignedDataBuilder: one signer, its certificate, and
\* the attributes content type and message digest, which are what is signed.
SignCms(type, content, cert, key) ==
    LET attrs == {<<"contentType", type>>, <<"messageDigest", Digest("sha256", content)>>}
    IN [signers |-> 1, certs |-> {cert}, sid |-> <<cert.issuer, cert.serial>>, type |-> type,
        content |-> content, listed |-> {"sha256"}, digest |-> "sha256",
        attrs |-> attrs, signature |-> <<key, attrs>>]

\* signer_id_matches
SignerIdMatches(cert, sid) == sid = <<cert.issuer, cert.serial>>

\* exactly_one_signer, find_signer_certificate
OneSigner(cms) == cms.signers = 1
SignerCertificates(cms) == {c \in cms.certs : SignerIdMatches(c, cms.sid)}

\* single_signed_attribute_value: neither missing nor given twice
SingleAttribute(attrs, name, value) == {a \in attrs : a[1] = name} = {<<name, value>>}

\* verify_sod_signature and verify_master_list_signature after the certificate
\* is found; attrs = {} stands for no signed attributes.
VerifyCms(cms, cert) ==
    /\ cms.digest \in cms.listed
    /\ cms.attrs # {} =>
         /\ SingleAttribute(cms.attrs, "contentType", cms.type)
         /\ SingleAttribute(cms.attrs, "messageDigest", Digest(cms.digest, cms.content))
    /\ cms.signature = <<cert.key, IF cms.attrs = {} THEN {<<"content", cms.content>>} ELSE cms.attrs>>

\* verify_master_list_signature with the certificate supplied, after
\* parse_master_list
VerifyMasterList(cms, cert) ==
    /\ cms.type = "masterList" /\ cms.content.certs # {} /\ cms.content.version = 0
    /\ OneSigner(cms) /\ SignerIdMatches(cert, cms.sid)
    /\ VerifyCms(cms, cert)

-----------------------------------------------------------------------------
(* Issuing.                                                                *)

\* build_lds_security_object_der: version 0, no version information
BuildLds(groups) ==
    [version |-> 0, info |-> FALSE, alg |-> "sha256",
     hashes |-> {<<g, Digest("sha256", groups[g])>> : g \in DOMAIN groups}]

\* build_emrtd_sod_der
BuildSod(groups, signer) == SignCms("lds", BuildLds(groups), signer.cert, signer.key)

\* PassportPersonalizer: set_data_group and its named variants, then build,
\* which refuses an empty passport.
Personalise(groups, signer) ==
    /\ outcome = None /\ Cardinality(made) < MaxPassports
    /\ DOMAIN groups # {}
    /\ LET passport == [groups |-> groups, sod |-> BuildSod(groups, signer), by |-> signer.cert] IN
       /\ passport \notin made
       /\ made' = made \cup {passport}
       /\ chip' = [groups |-> groups, sod |-> passport.sod] /\ intact' = TRUE
    /\ UNCHANGED <<today, registry, signers, revoked, crls, asked, answers, outcome>>

\* CscaAuthority::new: the country's two successive certificates have one name,
\* as has the certificate of somebody else.
Authority(id) == CreateCscaCertificate("C", LastDay + 1, "p256", 0, id).cert
Authorities == {Authority(i) : i \in 1 .. 3}

\* CscaAuthority::issue_dsc
IssueDsc(csca) ==
    /\ outcome = None /\ Cardinality(signers) < MaxSigners
    /\ LET r == CreateDscCertificate("C", csca, csca.key, SignerDays, "p256", today,
                                     10 + Cardinality(signers)) IN
       /\ ~r.failed
       /\ signers' = signers \cup {[cert |-> r.cert, key |-> r.cert.key, issuer |-> csca]}
    /\ UNCHANGED <<today, registry, made, chip, intact, revoked, crls, asked, answers, outcome>>

\* The authority revokes a signer and publishes a list, which the inspection
\* gets; a list of the same name by somebody else may reach it as well.
Revoke(s) ==
    /\ outcome = None /\ s.cert.serial \notin revoked
    /\ revoked' = revoked \cup {s.cert.serial}
    /\ UNCHANGED <<today, registry, signers, made, chip, intact, crls, asked, answers, outcome>>

Publish(csca) ==
    /\ outcome = None /\ crls = {}
    /\ crls' = {[issuer |-> csca.subject, signed |-> csca.key, this |-> today, next |-> today + CrlDays,
                 serials |-> IF csca = Authority(3) THEN {} ELSE revoked]}
    /\ UNCHANGED <<today, registry, signers, made, chip, intact, revoked, asked, answers, outcome>>

-----------------------------------------------------------------------------
(* Inspecting.                                                             *)

\* parse_lds_security_object
ParseLds(lds) ==
    /\ lds.version = 0 \/ (lds.version = 1 /\ lds.info)
    /\ lds.hashes # {} /\ lds.alg \in Algorithms
    /\ \A h \in lds.hashes : h[1] \in 1 .. 16 /\ h[2].alg = lds.alg
    /\ \A h, i \in lds.hashes : h[1] = i[1] => h = i

\* SecurityObject::from_sod_der: parse_sod with extract_lds_security_object and
\* extract_document_signer_cert
FromSod(sod) ==
    /\ sod.type = "lds" /\ ParseLds(sod.content)
    /\ sod.certs # {} /\ OneSigner(sod) /\ Cardinality(SignerCertificates(sod)) = 1

SignerOf(sod) == CHOOSE c \in SignerCertificates(sod) : TRUE

\* validate_emrtd_certificate_profiles
ProfilesFit(dsc, csca) ==
    /\ ~dsc.ca /\ "digitalSignature" \in dsc.usage
    /\ csca.ca /\ "keyCertSign" \in csca.usage

Candidates(dsc) == {c \in registry : c.subject = dsc.issuer}

\* verify_dsc_chain_with_anchor: any candidate of the issuer's name will do,
\* whatever the ones tried before it were lacking.
ChainsTo(dsc, csca) ==
    /\ ProfilesFit(dsc, csca) /\ SignatureVerifies(dsc, csca)
    /\ \A c \in {dsc, csca} : c.from <= today /\ today <= c.until

VerifyDscChain(dsc) == \E csca \in Candidates(dsc) : ChainsTo(dsc, csca)

\* Mutant of HashesMatch: groups the security object does not list pass.
HashesMatchListed(lds, groups) ==
    \A h \in lds.hashes : h[1] \in DOMAIN groups => h[2] = Digest(lds.alg, groups[h[1]])

\* verify_data_group_hash_map: as many groups as hashes, and each as digested
HashesMatch(lds, groups) ==
    /\ Cardinality(lds.hashes) = Cardinality(DOMAIN groups)
    /\ \A h \in lds.hashes : h[1] \in DOMAIN groups /\ h[2] = Digest(lds.alg, groups[h[1]])

\* validate_crl_for_certificate: the list is the issuer's and current.
CrlApplies(l, dsc, csca) ==
    /\ SignatureVerifies(dsc, csca)
    /\ l.issuer = csca.subject /\ l.signed = csca.key
    /\ l.this <= today /\ today <= l.next

\* verify_emrtd_with_options: lists that do not apply are no evidence, and
\* with lists but no evidence the passport is not verified.
Revocation(dsc) ==
    LET evidence == {l \in crls : \E c \in Candidates(dsc) : CrlApplies(l, dsc, c)} IN
    IF crls = {} THEN "unchecked"
    ELSE IF \E l \in evidence : dsc.serial \in l.serials THEN "revoked"
    ELSE IF evidence = {} THEN "undetermined" ELSE "good"

\* verify_emrtd, verify_emrtd_with_options
VerifyEmrtd(c) ==
    /\ FromSod(c.sod)
    /\ VerifyDscChain(SignerOf(c.sod))
    /\ VerifyCms(c.sod, SignerOf(c.sod))
    /\ HashesMatch(c.sod.content, c.groups)
    /\ Revocation(SignerOf(c.sod)) \in {"unchecked", "good"}

\* verify_from_reader, or the same with revocation lists
Inspect ==
    /\ outcome = None /\ made # {}
    /\ outcome' = [call |-> "inspect", verified |-> VerifyEmrtd(chip)]
    /\ UNCHANGED <<today, registry, signers, made, chip, intact, revoked, crls, asked, answers>>

\* A master list signed by t and possibly changed since is checked with the
\* certificate of s.
MasterList(t) == SignCms("masterList", [version |-> 0, certs |-> registry], t.cert, t.key)

ChangedLists(list) ==
    {list, [list EXCEPT !.content.certs = {}], [list EXCEPT !.content.version = 1],
     [list EXCEPT !.content.certs = Authorities], [list EXCEPT !.signers = 2], [list EXCEPT !.signers = 0],
     [list EXCEPT !.content.certs = Authorities,
                  !.attrs = @ \cup {<<"messageDigest", Digest("sha256", [version |-> 0, certs |-> Authorities])>>}],
     [list EXCEPT !.content.certs = Authorities, !.attrs = {}], [list EXCEPT !.listed = {}],
     [list EXCEPT !.type = "lds"]}

ReadMasterList(s, t) ==
    /\ outcome = None /\ made = {}
    /\ \E list \in ChangedLists(MasterList(t)) :
         outcome' = [call |-> "list", list |-> list, whole |-> list = MasterList(s),
                     accepted |-> VerifyMasterList(list, s.cert)]
    /\ UNCHANGED <<today, registry, signers, made, chip, intact, revoked, crls, asked, answers>>

-----------------------------------------------------------------------------
(* The integrity report (passport_integrity.rs).                           *)

\* data_group_info knows 15 groups.
Known == 1 .. 15
Mandatory(g) == g \in {1, 2}
Biometric(g) == g \in 2 .. 4

\* compare, one entry: expected and computed are functions of group numbers.
EntryResult(g, expected, computed, alg) ==
    CASE g \notin DOMAIN expected -> "missing_expected"
      [] g \notin DOMAIN computed -> "missing_computed"
      [] computed[g].alg # alg -> "algorithm_error"
      [] expected[g] = computed[g] -> "match"
      [] OTHER -> "mismatch"

\* make_entry: an error of algorithm is never critical.
Critical(g, result) ==
    result \in {"missing_computed", "mismatch"} /\ Mandatory(g)

\* compare and analyze_mismatches: the counts, the status and the risk
Compare(expected, computed, alg) ==
    LET entries == (DOMAIN expected \cup DOMAIN computed) \cap Known
        Of(r) == {g \in entries : EntryResult(g, expected, computed, alg) = r}
        good == Of("match")
        failed == entries \ (good \cup Of("missing_expected"))
        critical == {g \in failed : Critical(g, EntryResult(g, expected, computed, alg))}
        mandatory == {g \in entries : Mandatory(g)}
        wrong == Of("mismatch")
    IN [valid |-> /\ critical = {} /\ Cardinality(good) >= Cardinality(mandatory)
                  /\ entries # {} /\ 100 * Cardinality(good) >= 80 * Cardinality(entries),
        passed |-> critical = {} /\ Cardinality(failed) <= Cardinality(good),
        risk |-> CASE wrong = {} -> "none"
                   [] \E g \in wrong : Mandatory(g) -> "high"
                   [] (\E g \in wrong : Biometric(g)) \/ Cardinality(wrong) > 3 -> "medium"
                   [] OTHER -> "low"]

\* The report on the chip read, one of its groups digested with another algorithm.
Report(odd, alg) ==
    /\ outcome = None /\ made # {} /\ ParseLds(chip.sod.content)
    /\ LET expected == [g \in {h[1] : h \in chip.sod.content.hashes} |->
                          (CHOOSE h \in chip.sod.content.hashes : h[1] = g)[2]]
           computed == [g \in DOMAIN chip.groups |->
                          Digest(IF g = odd THEN alg ELSE chip.sod.content.alg, chip.groups[g])]
       IN outcome' = [call |-> "report", expected |-> expected, computed |-> computed,
                      report |-> Compare(expected, computed, chip.sod.content.alg)]
    /\ UNCHANGED <<today, registry, signers, made, chip, intact, revoked, crls, asked, answers>>

-----------------------------------------------------------------------------
(* Active authentication.                                                  *)

\* generate_challenge and build_internal_authenticate_apdu
Challenge ==
    /\ outcome = None /\ asked < MaxChallenges
    /\ asked' = asked + 1
    /\ UNCHANGED <<today, registry, signers, made, chip, intact, revoked, crls, answers, outcome>>

\* A chip the authority made signs a challenge it gets; answers stay around.
Answer(passport) ==
    /\ outcome = None /\ asked > 0 /\ ChipKey \in DOMAIN passport.groups
    /\ answers' = answers \cup {[key |-> passport.groups[ChipKey], message |-> asked]}
    /\ answers' # answers
    /\ UNCHANGED <<today, registry, signers, made, chip, intact, revoked, crls, asked, outcome>>

\* verify_challenge: iso9796_verify and iso9796_recover_message
VerifyChallenge(key, challenge, signature) == signature.key = key /\ signature.message = challenge

\* The reader checks an answer with the key of parse_dg15.
Authenticate(signature) ==
    /\ outcome = None /\ made # {} /\ ChipKey \in DOMAIN chip.groups
    /\ outcome' = [call |-> "authenticate", key |-> chip.groups[ChipKey],
                   genuine |-> VerifyChallenge(chip.groups[ChipKey], asked, signature)]
    /\ UNCHANGED <<today, registry, signers, made, chip, intact, revoked, crls, asked, answers>>

-----------------------------------------------------------------------------
(* What may happen to a chip's data on the way, one change at a time.      *)
ChangedSod(sod) ==
    {[sod EXCEPT !.signers = 2], [sod EXCEPT !.certs = {}], [sod EXCEPT !.attrs = {}],
     [sod EXCEPT !.attrs = @ \cup {<<"messageDigest", Digest("sha256", [sod.content EXCEPT !.info = TRUE])>>}],
     [sod EXCEPT !.listed = {}], [sod EXCEPT !.type = "other"], [sod EXCEPT !.content.alg = "sha1"],
     [sod EXCEPT !.content.version = 1]}
    \cup {[sod EXCEPT !.certs = @ \cup {s.cert}, !.sid = <<s.cert.issuer, s.cert.serial>>] : s \in signers}
    \cup {m.sod : m \in made}
    \cup {BuildSod(chip.groups, [cert |-> m.by, key |-> s.key]) :
             m \in made, s \in {t \in signers : t.issuer \notin registry}}

ChangedGroups(groups) ==
    {[groups EXCEPT ![g] = c] : g \in DOMAIN groups, c \in Contents}
    \cup {[g \in DOMAIN groups \ {h} |-> groups[g]] : h \in DOMAIN groups}
    \cup {[g \in DOMAIN groups \cup {h} |-> IF g = h THEN c ELSE groups[g]] : h \in Groups, c \in Contents}

Change ==
    /\ outcome = None /\ made # {} /\ intact
    /\ \/ \E s \in ChangedSod(chip.sod) : chip' = [chip EXCEPT !.sod = s]
       \/ \E g \in ChangedGroups(chip.groups) : chip' = [chip EXCEPT !.groups = g]
    /\ chip' # chip /\ intact' = FALSE
    /\ UNCHANGED <<today, registry, signers, made, revoked, crls, asked, answers, outcome>>

PassDay ==
    /\ outcome = None /\ today < LastDay
    /\ today' = today + 1
    /\ UNCHANGED <<registry, signers, made, chip, intact, revoked, crls, asked, answers, outcome>>

Return ==
    /\ outcome # None
    /\ outcome' = None
    /\ UNCHANGED <<today, registry, signers, made, chip, intact, revoked, crls, asked, answers>>

Init ==
    /\ today = 0 /\ registry \in {{Authority(1)}, {Authority(1), Authority(2)}}
    /\ signers = {} /\ made = {} /\ chip = None /\ intact = TRUE /\ revoked = {} /\ crls = {}
    /\ asked = 0 /\ answers = {} /\ outcome = None

Selections == {[g \in D |-> c] : D \in {Groups, Groups \ {ChipKey}}, c \in Contents}

Next ==
    \/ \E a \in Authorities : IssueDsc(a) \/ Publish(a)
    \/ \E s, t \in signers : ReadMasterList(s, t)
    \/ \E s \in signers : Revoke(s) \/ (\E g \in Selections : Personalise(g, s))
    \/ Change \/ Inspect \/ Challenge \/ PassDay \/ Return
    \/ \E alg \in Algorithms, g \in Groups : Report(g, alg)
    \/ \E m \in made : Answer(m)
    \/ \E a \in answers : Authenticate(a)

Spec == Init /\ [][Next]_vars

\* Bound: changed chips and active authentication are explored on the first
\* day and without revocation lists, which neither of them reads, as are two
\* passports; signers are issued on the first day.
Explored ==
    /\ (~intact \/ asked > 0) => crls = {} /\ revoked = {} /\ today = 0 /\ (intact \/ asked = 0)
    /\ \A s \in signers : s.cert.from = 0
    /\ Cardinality(made) > 1 => crls = {} /\ revoked = {} /\ today = 0

-----------------------------------------------------------------------------
(* Properties.                                                             *)

\* A passport is verified only if it is, group for group, one that was
\* personalised by a signer of a registered authority, within that signer's
\* validity, and not one a current list names: whatever was changed, dropped,
\* added or signed again on the way. A master list is accepted only whole and
\* under the certificate of its signer.
GenuineOnly ==
    /\ outcome.call = "inspect" /\ outcome.verified =>
         \E m \in made : /\ m.groups = chip.groups
                         /\ \E s \in signers : /\ s.cert = m.by /\ s.issuer \in registry
                                               /\ s.cert.until >= today
                         /\ \A l \in crls : l.signed = m.by.signed => m.by.serial \notin l.serials
    /\ outcome.call = "list" => (outcome.accepted <=> outcome.whole)

\* A passport read as it was made is verified, as long as its signer's
\* certificate is valid, its authority registered, and a list, where one is
\* given, is current and clears the signer.
MadeIsAccepted ==
    outcome.call = "inspect" /\ intact =>
        \A m \in made : m.groups = chip.groups /\ m.sod = chip.sod
                        /\ (\E s \in signers : s.cert = m.by /\ s.issuer \in registry)
                        /\ today <= m.by.until
                        /\ (\A l \in crls : l.signed = m.by.signed /\ l.next >= today
                                            /\ m.by.serial \notin l.serials)
            => outcome.verified

\* A report that calls the passport valid has passed, sees no high risk, and
\* every mandatory group the security object lists was computed and, where it
\* was digested with the algorithm of the list, matched. An answer counts for
\* the challenge that is open only if a chip holding the key gave it to that
\* challenge: an earlier answer replayed by a copy does not.
ReportsHold ==
    /\ outcome.call = "report" /\ outcome.report.valid =>
         /\ outcome.report.passed /\ outcome.report.risk # "high"
         /\ \A g \in DOMAIN outcome.expected : Mandatory(g) =>
                /\ g \in DOMAIN outcome.computed
                /\ outcome.computed[g].alg = outcome.expected[g].alg => outcome.computed[g] = outcome.expected[g]
    /\ outcome.call = "authenticate" /\ outcome.genuine =>
         [key |-> outcome.key, message |-> asked] \in answers
=============================================================================
