---------------------------- MODULE TrustPackages ----------------------------
(***************************************************************************)
(* Authenticated trust packages of marty-secure-storage/src/database.rs.   *)
(* A package replaces the complete anchor and Open Badge trust set of one  *)
(* trust domain in one immediate SQLite transaction and advances the       *)
(* domain's package row, the sync metadata and the audit log with it.      *)
(* Packages arrive in any order, any number of times, from several callers *)
(* at once; the package is validated before the connection lock is taken   *)
(* and committed some time after.                                          *)
(***************************************************************************)
EXTENDS Integers, Sequences, FiniteSets

CONSTANTS
    Domains,        \* trust domains
    Anchors,        \* ids of trust_anchors rows
    Methods,        \* ids of open_badge_keys rows
    Signers,        \* signer key ids
    NoSigner,       \* NULL in a signer column, None in a policy
    Versions, Digests,
    Packages,       \* the signed packages in circulation
    MaxSequence,    \* i64::MAX, the largest sequence a column holds
    Skew,           \* MAX_PACKAGE_FUTURE_SKEW_SECONDS
    MaxTime,        \* bound on the clock
    MaxInflight     \* bound on concurrent callers

Items == Anchors \cup Methods
Times == 1 .. MaxTime
Null == 0           \* NULL in package_expires_at; no stored time is 0

\* What the signed payload says of its signers. A package handed to
\* apply_trust_package carries no policy.
Policy == [given : BOOLEAN, next : Signers \cup {NoSigner},
           recovery : Signers \cup {NoSigner}]

\* wellformed: the form checks on every field, id, document and digest.
Package ==
    [domain : Domains, sequence : Nat, version : Versions, digest : Digests,
     created : Times, expires : Times, signer : Signers, policy : Policy,
     content : SUBSET Items, wellformed : BOOLEAN]

ASSUME TrustAssumption ==
    /\ Packages \subseteq Package
    /\ \A p \in Packages :
          /\ p.policy.given => p.policy.recovery # NoSigner
          /\ ~p.policy.given => p.policy.next = NoSigner /\ p.policy.recovery = NoSigner
    /\ NoSigner \notin Signers
    /\ Anchors \cap Methods = {}
    /\ MaxSequence \in Nat /\ Skew \in Nat /\ MaxTime \in Nat \ {0} /\ MaxInflight \in Nat
    /\ "absent" \notin Domains /\ "legacy" \notin Domains
    \* no version and no digest is the only one there can be
    /\ \A v \in Versions : \E w \in Versions : w # v
    /\ \A x \in Digests : \E y \in Digests : y # x

VARIABLES
    now,            \* the local clock
    inflight,       \* validated calls waiting for the connection lock
    packages,       \* packages[d]: the trust_packages row of d
    rows,           \* rows[i]: the row of item i in its table
    sync_state,     \* what an applied package writes into sync_state
    audit_log,      \* the trust_package_applied rows, in commit order
    applied         \* history: content of the package last committed for d

vars == <<now, inflight, packages, rows, sync_state, audit_log, applied>>

Request == [package : Packages, imported : Times]

\* TrustPackageProvenance, without the domain it is stored under.
Provenance ==
    [sequence : Nat, version : Versions, digest : Digests, created : Times,
     expires : Times \cup {Null}, signer : Signers, imported : Times]

\* A table row that may be missing, or a column that may be NULL, is a set
\* with at most one element. Legacy rows have no provenance.
Row == [owner : Domains \cup {"absent", "legacy"}, provenance : SUBSET Provenance]
Absent == [owner |-> "absent", provenance |-> {}]
Legacy == [owner |-> "legacy", provenance |-> {}]

\* A trust_packages row: provenance and the committed signer policy.
Stored ==
    [provenance : Provenance, next : Signers \cup {NoSigner},
     recovery : Signers \cup {NoSigner}]

Roles == {"bootstrap", "current", "next", "recovery"}
AuditRow == [domain : Domains, sequence : Nat, signer : Signers, role : Roles]

SyncState == [synced : Times \cup {Null}, version : SUBSET Versions,
              updated : Times \cup {Null}]

Owned(d) == {i \in Items : rows[i].owner = d}

-----------------------------------------------------------------------------
(* Validation.                                                             *)

\* validate_trust_package_signer_policy
SignerPolicyValid(policy) ==
    policy.given => policy.next # policy.recovery

\* The time window of validate_open_badge_package
TimesValid(created, expires, imported, t) ==
    /\ created <= imported + Skew
    /\ created <= t + Skew
    /\ imported <= t + Skew
    /\ created < expires
    /\ imported <= expires
    /\ t <= expires

\* validate_trust_package at time t
PackageValid(p, imported, t) ==
    /\ p.wellformed
    /\ p.sequence > 0 /\ p.sequence <= MaxSequence
    /\ TimesValid(p.created, p.expires, imported, t)

\* validate_stored_trust_package_signer_policy
StoredPolicyValid(row) ==
    IF row.recovery = NoSigner
    THEN row.next = NoSigner
    ELSE IF row.next = NoSigner
         THEN row.provenance.signer # row.recovery
         ELSE row.next \notin {row.provenance.signer, row.recovery}

\* Mutant of RelationshipsValid: a recovery signer need not authorise a
\* next operational signer.
RelationshipsWithoutSuccessor(policy, signer, signer_is_recovery) ==
    /\ policy.next # signer
    /\ policy.recovery = signer => signer_is_recovery

\* Mutant of RelationshipsValid: signer_is_recovery is not consulted.
RelationshipsOperationalOnly(policy, signer, signer_is_recovery) ==
    /\ policy.next # signer
    /\ policy.recovery # signer

\* validate_trust_package_signer_relationships
RelationshipsValid(policy, signer, signer_is_recovery) ==
    /\ policy.next # signer
    /\ policy.recovery = signer => signer_is_recovery
    /\ signer_is_recovery => policy.next # NoSigner

\* signer_role; a signer without a role is refused.
SignerRole(row, signer) ==
    IF signer = row.provenance.signer THEN "current"
    ELSE IF signer = row.next THEN "next"
    ELSE IF signer = row.recovery THEN "recovery"
    ELSE "unauthorised"

\* Mutant of Admissible: the stored recovery signer is not compared.
AdmissibleAnyRecovery(row, p) ==
    /\ StoredPolicyValid(row)
    /\ p.sequence > row.provenance.sequence
    /\ SignerRole(row, p.signer) # "unauthorised"
    /\ IF p.policy.given
       THEN RelationshipsValid(p.policy, p.signer, p.signer = row.recovery)
       ELSE SignerRole(row, p.signer) = "current"
    /\ p.version # row.provenance.version
    /\ p.digest # row.provenance.digest
    /\ row.provenance.expires # Null
    /\ p.created > row.provenance.created

\* Mutant of Admissible: an equal creation time passes.
AdmissibleSameTime(row, p) ==
    /\ StoredPolicyValid(row)
    /\ p.sequence > row.provenance.sequence
    /\ SignerRole(row, p.signer) # "unauthorised"
    /\ IF p.policy.given
       THEN /\ IF row.recovery # NoSigner
               THEN p.policy.recovery = row.recovery
               ELSE SignerRole(row, p.signer) = "current"
            /\ RelationshipsValid(p.policy, p.signer, p.signer = row.recovery)
       ELSE SignerRole(row, p.signer) = "current"
    /\ p.version # row.provenance.version
    /\ p.digest # row.provenance.digest
    /\ row.provenance.expires # Null
    /\ p.created >= row.provenance.created

\* The checks of apply_trust_package_internal against the domain's present
\* row: anything else is a rollback, a replay, a conflict, a signer change
\* or a stored row that fails closed.
Admissible(row, p) ==
    LET role == SignerRole(row, p.signer) IN
    /\ StoredPolicyValid(row)
    /\ p.sequence > row.provenance.sequence
    /\ role # "unauthorised"
    /\ IF p.policy.given
       THEN /\ IF row.recovery # NoSigner
               THEN p.policy.recovery = row.recovery
               ELSE role = "current"
            /\ RelationshipsValid(p.policy, p.signer, p.signer = row.recovery)
       ELSE role = "current"
    /\ p.version # row.provenance.version
    /\ p.digest # row.provenance.digest
    /\ row.provenance.expires # Null
    /\ p.created > row.provenance.created

\* The first package of a domain.
BootstrapValid(p) ==
    p.policy.given => RelationshipsValid(p.policy, p.signer, FALSE)

\* Ids of the package that another domain or a legacy write owns once the
\* domain's own rows are deleted.
Conflicting(p) == {i \in p.content : rows[i].owner \notin {p.domain, "absent"}}

Acceptable(p) ==
    /\ packages[p.domain] = {} => BootstrapValid(p)
    /\ \A row \in packages[p.domain] : Admissible(row, p)
    /\ Conflicting(p) = {}

-----------------------------------------------------------------------------
(* The calls.                                                              *)

\* The part of an apply call before the connection lock is taken.
Submit(p, imported) ==
    /\ Cardinality(inflight) < MaxInflight
    /\ SignerPolicyValid(p.policy)
    /\ PackageValid(p, imported, now)
    /\ inflight' = inflight \cup {[package |-> p, imported |-> imported]}
    /\ UNCHANGED <<now, packages, rows, sync_state, audit_log, applied>>

ProvenanceOf(r) ==
    [sequence |-> r.package.sequence, version |-> r.package.version,
     digest |-> r.package.digest, created |-> r.package.created,
     expires |-> r.package.expires, signer |-> r.package.signer,
     imported |-> r.imported]

\* The row an accepted package leaves: its own policy, or, through the
\* legacy call, the policy already committed.
NewStored(r) ==
    LET p == r.package IN
    IF p.policy.given \/ packages[p.domain] = {}
    THEN {[provenance |-> ProvenanceOf(r), next |-> p.policy.next,
           recovery |-> p.policy.recovery]}
    ELSE {[provenance |-> ProvenanceOf(r), next |-> row.next,
           recovery |-> row.recovery] : row \in packages[p.domain]}

\* Mutant of NewRow: the delete is not restricted to the domain.
NewRowAllDeleted(r, i) ==
    IF i \in r.package.content
    THEN [owner |-> r.package.domain, provenance |-> {ProvenanceOf(r)}]
    ELSE Absent

\* The deletes and inserts of the domain's records.
NewRow(r, i) ==
    IF i \in r.package.content
    THEN [owner |-> r.package.domain, provenance |-> {ProvenanceOf(r)}]
    ELSE IF rows[i].owner = r.package.domain THEN Absent ELSE rows[i]

\* signer_role as the audit entry records it.
AuditRole(p) ==
    IF packages[p.domain] = {} THEN "bootstrap"
    ELSE SignerRole(CHOOSE row \in packages[p.domain] : TRUE, p.signer)

\* The transaction of apply_trust_package_internal, committed.
Apply(r) ==
    LET p == r.package IN
    /\ r \in inflight
    /\ Acceptable(p)
    /\ inflight' = inflight \ {r}
    /\ packages' = [packages EXCEPT ![p.domain] = NewStored(r)]
    /\ rows' = [i \in Items |-> NewRow(r, i)]
    /\ sync_state' = [synced |-> p.created, version |-> {p.version},
                      updated |-> r.imported]
    /\ audit_log' = Append(audit_log,
                           [domain |-> p.domain, sequence |-> p.sequence,
                            signer |-> p.signer, role |-> AuditRole(p)])
    /\ applied' = [applied EXCEPT ![p.domain] = p.content]
    /\ UNCHANGED now

\* An early return inside the transaction rolls all of it back.
Refuse(r) ==
    /\ r \in inflight
    /\ ~Acceptable(r.package)
    /\ inflight' = inflight \ {r}
    /\ UNCHANGED <<now, packages, rows, sync_state, audit_log, applied>>

\* store_trust_anchor, store_open_badge_key: refused on a governed row.
StoreLegacy(i) ==
    /\ rows[i].owner \in {"absent", "legacy"}
    /\ rows' = [rows EXCEPT ![i] = Legacy]
    /\ UNCHANGED <<now, inflight, packages, sync_state, audit_log, applied>>

\* The process stops: calls that wait for the lock are gone, an open
\* transaction is rolled back, committed rows stay.
Crash ==
    /\ inflight # {}
    /\ inflight' = {}
    /\ UNCHANGED <<now, packages, rows, sync_state, audit_log, applied>>

Tick ==
    /\ now < MaxTime
    /\ now' = now + 1
    /\ UNCHANGED <<inflight, packages, rows, sync_state, audit_log, applied>>

\* A fresh database, or one migrated from the pre-release table
\* open_badge_trust_packages, whose rows carry no expiry and no policy.
Migrated(p) ==
    [provenance |-> [ProvenanceOf([package |-> p, imported |-> p.created])
                        EXCEPT !.expires = Null],
     next |-> NoSigner, recovery |-> NoSigner]

Init ==
    /\ now = 1
    /\ inflight = {}
    /\ sync_state = [synced |-> Null, version |-> {}, updated |-> Null]
    /\ audit_log = <<>>
    /\ \E old \in SUBSET {p \in Packages : ~p.policy.given} :
          /\ \A p, q \in old : p # q => p.domain # q.domain /\ p.content \cap q.content = {}
          /\ \A p \in old : p.sequence > 0 /\ p.sequence <= MaxSequence
          /\ packages = [d \in Domains |-> {Migrated(p) : p \in {q \in old : q.domain = d}}]
          /\ applied = [d \in Domains |->
                           UNION {p.content \cap Methods : p \in {q \in old : q.domain = d}}]
          /\ rows = [i \in Items |->
                        IF \E p \in old : i \in p.content \cap Methods
                        THEN LET p == CHOOSE p \in old : i \in p.content
                             IN  [owner |-> p.domain, provenance |-> {Migrated(p).provenance}]
                        ELSE Absent]

Next ==
    \/ \E p \in Packages, imported \in Times : Submit(p, imported)
    \/ \E r \in inflight : Apply(r) \/ Refuse(r)
    \/ \E i \in Items : StoreLegacy(i)
    \/ Crash
    \/ Tick

Spec == Init /\ [][Next]_vars

-----------------------------------------------------------------------------
(* Reads.                                                                  *)

\* load_open_badge_package_provenance: the row of a domain as a read sees it.
Loadable(row) ==
    LET v == row.provenance IN
    /\ StoredPolicyValid(row)
    /\ v.expires # Null
    /\ v.sequence > 0
    /\ TimesValid(v.created, v.expires, v.imported, now)

\* StoredProvenance::decode and the validation of a governed record.
Decodable(v) ==
    /\ v.expires # Null
    /\ TimesValid(v.created, v.expires, v.imported, now)

\* check_package_states: the record agrees with its domain's package row.
AgreesWithState(d, v) ==
    \E row \in packages[d] : Loadable(row) /\ row.provenance = v

\* get_trust_anchor_records, get_open_badge_trust_records: one governed
\* record that does not decode or disagrees fails the read of the table.
ReadSucceeds(table) ==
    \A i \in table : rows[i].owner \in Domains =>
        \A v \in rows[i].provenance :
            Decodable(v) /\ AgreesWithState(rows[i].owner, v)

-----------------------------------------------------------------------------
(* Properties.                                                             *)

\* Every variable holds a value of its table: one trust_packages row per
\* domain, at most one provenance per trust record.
TypeOK ==
    /\ now \in Times
    /\ inflight \subseteq Request
    /\ packages \in [Domains -> SUBSET Stored]
    /\ \A d \in Domains : \A r1, r2 \in packages[d] : r1 = r2
    /\ rows \in [Items -> Row]
    /\ sync_state \in SyncState
    /\ audit_log \in Seq(AuditRow)
    /\ applied \in [Domains -> SUBSET Items]

\* The committed signer policy always satisfies the checks that the next
\* apply and every read make of it, so no accepted package bricks its domain.
PoliciesStayValid ==
    \A d \in Domains : \A row \in packages[d] : StoredPolicyValid(row)

\* What a signer of a domain can still publish: a package one sequence on,
\* made at time t and handed in at once.
Renewal(row, t, signer, policy, version, digest) ==
    [domain |-> "any", sequence |-> row.provenance.sequence + 1, version |-> version,
     digest |-> digest, created |-> t, expires |-> t + 1, signer |-> signer,
     policy |-> policy, content |-> {}, wellformed |-> TRUE]

\* The first moment to come at which a newer package of the row can be made.
Later(row) == IF row.provenance.created > now THEN row.provenance.created + 1 ELSE now + 1

\* The policies a caller can hand in: none at all, or one with a recovery signer.
ValidPolicies ==
    {q \in Policy : SignerPolicyValid(q)
                    /\ IF q.given THEN q.recovery # NoSigner ELSE q.next = NoSigner /\ q.recovery = NoSigner}

\* After any history, the current signer, an authorised next signer and the
\* recovery signer each have a package that passes validation and that the
\* domain accepts, at a moment still to come: rotation and recovery (the
\* with_signer_policy contract) are never a dead end, until the row holds the
\* largest sequence there is; validate_open_badge_package refuses the next.
NeverLockedOut ==
    \A d \in Domains : \A row \in packages[d] :
        row.provenance.expires # Null /\ row.provenance.sequence < MaxSequence =>
            \A signer \in {row.provenance.signer, row.next, row.recovery} \ {NoSigner} :
                \E version \in Versions \ {row.provenance.version},
                   digest \in Digests \ {row.provenance.digest}, policy \in ValidPolicies :
                    LET p == Renewal(row, Later(row), signer, policy, version, digest)
                    IN  PackageValid(p, p.created, p.created) /\ Admissible(row, p)

\* A domain governs exactly the records of the package it last committed,
\* each with that package's provenance: replacement leaves no old record
\* behind, loses no new one, and takes none from another domain.
GovernedSetExact ==
    \A d \in Domains :
        /\ Owned(d) = applied[d]
        /\ \A i \in Owned(d) : rows[i].provenance = {row.provenance : row \in packages[d]}

\* A governed read fails only on time: while every committed package has an
\* expiry and is inside its window, both tables can be read.
ReadsFailOnlyOnTime ==
    (\A d \in Domains : \A row \in packages[d] :
        /\ row.provenance.expires # Null
        /\ TimesValid(row.provenance.created, row.provenance.expires,
                      row.provenance.imported, now))
    => ReadSucceeds(Anchors) /\ ReadSucceeds(Methods)

\* Two entries of one domain with none of that domain between them.
Successive(j, k) ==
    /\ j < k
    /\ audit_log[j].domain = audit_log[k].domain
    /\ \A m \in j + 1 .. k - 1 : audit_log[m].domain # audit_log[j].domain

\* The newest entry of its domain.
Newest(k) == \A m \in DOMAIN audit_log : m > k => audit_log[m].domain # audit_log[k].domain

\* The audit log tells the domain's story: sequences strictly rise, a role
\* other than "current" marks exactly the changes of signer, and the newest
\* entry is the committed package, whatever callers raced or crashed.
AuditFaithful ==
    /\ \A j, k \in DOMAIN audit_log : Successive(j, k) =>
          /\ audit_log[j].sequence < audit_log[k].sequence
          /\ audit_log[k].role = "current" <=> audit_log[k].signer = audit_log[j].signer
    /\ \A k \in DOMAIN audit_log : Newest(k) =>
          \A row \in packages[audit_log[k].domain] :
              /\ row.provenance.sequence = audit_log[k].sequence
              /\ row.provenance.signer = audit_log[k].signer

\* The store stays usable: after any rotation and recovery every signer of the
\* domain can still publish a package it would accept, unless the domain stands
\* at the largest sequence of all; a governed read fails only on time, and the
\* audit log tells what was committed, whatever callers raced or crashed
\* (database.rs, apply_trust_package_with_signer_policy and the governed reads).
StaysUsable == NeverLockedOut /\ ReadsFailOnlyOnTime /\ AuditFaithful

\* A committed row changes only to one with a higher sequence and a later
\* creation time, and is never removed: no reordered, replayed or racing
\* package rolls a domain back.
RowsAdvance ==
    [][\A d \in Domains : \A old \in packages[d] :
          /\ packages'[d] # {}
          /\ \A new \in packages'[d] : new # old =>
                /\ new.provenance.sequence > old.provenance.sequence
                /\ new.provenance.created > old.provenance.created]_vars

\* Control of a domain passes only to the signer the committed row names as
\* next or recovery, and a recovery signer, once committed, never changes.
SignerLineage ==
    [][\A d \in Domains : \A old \in packages[d], new \in packages'[d] :
          /\ new.provenance.signer \in {old.provenance.signer, old.next, old.recovery}
          /\ old.recovery # NoSigner => new.recovery = old.recovery]_vars

\* A step that touches a governed record is the commit of a package of the
\* record's own domain: no legacy write, no other domain and no crash does.
DomainsIsolated ==
    [][\A i \in Items : rows[i].owner \in Domains /\ rows'[i] # rows[i] =>
          packages'[rows[i].owner] # packages[rows[i].owner]]_vars

=============================================================================
