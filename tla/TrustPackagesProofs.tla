------------------------- MODULE TrustPackagesProofs -------------------------
(***************************************************************************)
(* Proofs about TrustPackages, for any set of packages, domains and signers.*)
(***************************************************************************)
EXTENDS TrustPackages, TLAPS

\* Calls that wait for the lock passed the checks made before it.
RequestsValidated ==
    \A r \in inflight : SignerPolicyValid(r.package.policy) /\ r.package.sequence > 0

\* No committed package has the sequence that validation refuses.
SequencesPositive ==
    \A d \in Domains : \A row \in packages[d] : row.provenance.sequence > 0

IInv ==
    /\ TypeOK
    /\ RequestsValidated
    /\ SequencesPositive
    /\ PoliciesStayValid
    /\ GovernedSetExact

-----------------------------------------------------------------------------
(* What the pieces of a commit are.                                        *)

\* The provenance a request stores is a provenance.
LEMMA ProvenanceTyped ==
    ASSUME NEW r \in Request
    PROVE  /\ ProvenanceOf(r) \in Provenance
           /\ r.package \in Packages /\ r.package \in Package
           /\ r.package.domain \in Domains
           /\ r.package.content \subseteq Items
           /\ ProvenanceOf(r).signer = r.package.signer
  BY TrustAssumption DEF Request, Package, Provenance, ProvenanceOf

\* A committed row is one row, of the right type, with the request's
\* provenance.
LEMMA NewStoredTyped ==
    ASSUME TypeOK, NEW r \in Request
    PROVE  /\ NewStored(r) \subseteq Stored
           /\ NewStored(r) # {}
           /\ \A row \in NewStored(r) : row.provenance = ProvenanceOf(r)
           /\ \A x, y \in NewStored(r) : x = y
  <1> DEFINE p == r.package
             Renewed(row) == [provenance |-> ProvenanceOf(r), next |-> row.next,
                              recovery |-> row.recovery]
  <1>1. /\ ProvenanceOf(r) \in Provenance /\ p \in Package /\ p.domain \in Domains
    BY ProvenanceTyped
  <1>2. packages[p.domain] \subseteq Stored
    BY <1>1 DEF TypeOK
  <1>3. CASE p.policy.given \/ packages[p.domain] = {}
    <2>1. NewStored(r) = {[provenance |-> ProvenanceOf(r), next |-> p.policy.next,
                           recovery |-> p.policy.recovery]}
      BY <1>3 DEF NewStored
    <2>2. p.policy.next \in Signers \cup {NoSigner} /\ p.policy.recovery \in Signers \cup {NoSigner}
      BY <1>1 DEF Package, Policy
    <2> QED
      BY ONLY <1>1, <2>1, <2>2 DEF Stored
  <1>4. CASE ~(p.policy.given \/ packages[p.domain] = {})
    <2>1. NewStored(r) = {Renewed(row) :
                             row \in packages[p.domain]}
      BY <1>4 DEF NewStored
    <2>2. \A row \in packages[p.domain] :
             /\ Renewed(row) \in Stored
             /\ Renewed(row).provenance = ProvenanceOf(r)
      BY <1>1, <1>2 DEF Stored
    <2>3. \A x, y \in packages[p.domain] : x = y
      BY <1>1 DEF TypeOK
    <2> QED
      BY ONLY <1>4, <2>1, <2>2, <2>3
  <1> QED
    BY <1>3, <1>4

\* What a committed row says of its signers keeps the policy checks of the
\* next apply satisfied.
LEMMA NewStoredValid ==
    ASSUME TypeOK, PoliciesStayValid, NEW r \in Request,
           SignerPolicyValid(r.package.policy), Acceptable(r.package),
           NEW row \in NewStored(r)
    PROVE  StoredPolicyValid(row)
  <1> DEFINE p == r.package
  <1>1. /\ p \in Packages /\ p \in Package /\ p.domain \in Domains
        /\ ProvenanceOf(r).signer = p.signer
    BY ProvenanceTyped
  <1>2. p.signer \in Signers /\ p.policy \in Policy /\ p.policy.given \in BOOLEAN
    BY <1>1 DEF Package, Policy
  <1>3. p.policy.given => p.policy.recovery # NoSigner
    BY <1>1, TrustAssumption
  <1>3a. ~p.policy.given => p.policy.next = NoSigner /\ p.policy.recovery = NoSigner
    BY <1>1, TrustAssumption
  <1>3b. NoSigner \notin Signers
    BY TrustAssumption
  <1>4. CASE p.policy.given \/ packages[p.domain] = {}
    <2>1. /\ row.provenance.signer = p.signer
          /\ row.next = p.policy.next /\ row.recovery = p.policy.recovery
      BY <1>1, <1>4 DEF NewStored
    <2>2. CASE ~p.policy.given
      BY <2>1, <2>2, <1>3a DEF StoredPolicyValid
    <2>3. CASE p.policy.given
      <3>1. row.recovery # NoSigner /\ row.next # row.recovery
        BY <2>1, <2>3, <1>3 DEF SignerPolicyValid
      <3>2. row.next # p.signer /\ (row.next = NoSigner => row.recovery # p.signer)
        <4>1. CASE packages[p.domain] = {}
          BY <2>1, <2>3, <4>1 DEF Acceptable, BootstrapValid, RelationshipsValid
        <4>2. CASE packages[p.domain] # {}
          <5>1. PICK old \in packages[p.domain] : Admissible(old, p)
            BY <4>2 DEF Acceptable
          <5>2. RelationshipsValid(p.policy, p.signer, p.signer = old.recovery)
            BY <5>1, <2>3 DEF Admissible
          <5>3. old.recovery # NoSigner => p.policy.recovery = old.recovery
            BY <5>1, <2>3 DEF Admissible
          <5> QED
            BY ONLY <5>2, <5>3, <2>1, <1>2, <1>3b DEF RelationshipsValid
        <4> QED
          BY <4>1, <4>2
      <3> QED
        BY ONLY <3>1, <3>2, <2>1 DEF StoredPolicyValid
    <2> QED
      BY <2>2, <2>3
  <1>5. CASE ~(p.policy.given \/ packages[p.domain] = {})
    <2>1. PICK old \in packages[p.domain] :
             row = [provenance |-> ProvenanceOf(r), next |-> old.next,
                    recovery |-> old.recovery]
      BY <1>5 DEF NewStored
    <2>2. Admissible(old, p) /\ StoredPolicyValid(old)
      BY <2>1, <1>1 DEF Acceptable, PoliciesStayValid
    <2>3. SignerRole(old, p.signer) = "current"
      BY <2>2, <1>5 DEF Admissible
    <2>4. p.signer = old.provenance.signer
      BY <2>3 DEF SignerRole
    <2> QED
      BY ONLY <2>1, <2>2, <2>4, <1>1 DEF StoredPolicyValid
  <1> QED
    BY <1>4, <1>5

\* The record rows after a commit.
LEMMA NewRowTyped ==
    ASSUME TypeOK, NEW r \in Request, NEW i \in Items
    PROVE  NewRow(r, i) \in Row
  <1>1. ProvenanceOf(r) \in Provenance /\ r.package.domain \in Domains
    BY ProvenanceTyped
  <1>2. rows[i] \in Row
    BY DEF TypeOK
  <1>3. Absent \in Row
    BY DEF Absent, Row
  <1>4. [owner |-> r.package.domain, provenance |-> {ProvenanceOf(r)}] \in Row
    BY <1>1 DEF Row
  <1> QED
    BY <1>2, <1>3, <1>4 DEF NewRow

\* An accepted package has a role to record.
LEMMA AuditRoleTyped ==
    ASSUME TypeOK, NEW r \in Request, Acceptable(r.package)
    PROVE  AuditRole(r.package) \in Roles
  <1> DEFINE p == r.package
             old == CHOOSE row \in packages[p.domain] : TRUE
  <1>1. CASE packages[p.domain] = {}
    BY <1>1 DEF AuditRole, Roles
  <1>2. CASE packages[p.domain] # {}
    <2>1. old \in packages[p.domain]
      BY <1>2
    <2>2. SignerRole(old, p.signer) # "unauthorised"
      BY <2>1 DEF Acceptable, Admissible
    <2>3. SignerRole(old, p.signer) \in Roles
      BY <2>2 DEF SignerRole, Roles
    <2> QED
      BY <1>2, <2>3 DEF AuditRole
  <1> QED
    BY <1>1, <1>2

\* A commit leaves the domain exactly the package's records, all with the
\* committed provenance, and touches no other domain's.
LEMMA CommitExact ==
    ASSUME TypeOK, GovernedSetExact, NEW r \in Request, Apply(r)
    PROVE  GovernedSetExact'
  <1> DEFINE p == r.package
  <1>1. /\ p.domain \in Domains /\ p.content \subseteq Items
    BY ProvenanceTyped
  <1>2. /\ rows' = [i \in Items |-> NewRow(r, i)]
        /\ applied' = [applied EXCEPT ![p.domain] = p.content]
        /\ packages' = [packages EXCEPT ![p.domain] = NewStored(r)]
        /\ Conflicting(p) = {}
    BY DEF Apply, Acceptable
  <1>3. /\ applied \in [Domains -> SUBSET Items] /\ packages \in [Domains -> SUBSET Stored]
    BY DEF TypeOK
  <1>4. "absent" \notin Domains
    BY TrustAssumption
  <1>5. \A i \in p.content : rows[i].owner \in {p.domain, "absent"}
    BY <1>2 DEF Conflicting
  <1> SUFFICES ASSUME NEW d \in Domains
               PROVE  /\ Owned(d)' = applied'[d]
                      /\ \A i \in Owned(d)' :
                           rows'[i].provenance = {row.provenance : row \in packages'[d]}
    BY DEF GovernedSetExact
  <1>6. Owned(d)' = {i \in Items : NewRow(r, i).owner = d}
    BY <1>2 DEF Owned
  <1>7. CASE d = p.domain
    <2>1. \A i \in Items : NewRow(r, i).owner = d <=> i \in p.content
      BY <1>7, <1>4, <1>1 DEF NewRow, Absent
    <2>2. Owned(d)' = p.content
      BY <2>1, <1>6, <1>1
    <2>3. applied'[d] = p.content /\ packages'[d] = NewStored(r)
      BY <1>1, <1>2, <1>3, <1>7
    <2>4. {row.provenance : row \in NewStored(r)} = {ProvenanceOf(r)}
      BY NewStoredTyped
    <2>5. \A i \in p.content : rows'[i].provenance = {ProvenanceOf(r)}
      BY <1>1, <1>2 DEF NewRow
    <2> QED
      BY <2>2, <2>3, <2>4, <2>5
  <1>8. CASE d # p.domain
    <2>1. \A i \in Items : /\ NewRow(r, i).owner = d <=> rows[i].owner = d
                           /\ NewRow(r, i).owner = d => NewRow(r, i) = rows[i]
      BY <1>4, <1>5, <1>8 DEF NewRow, Absent
    <2>2. Owned(d)' = Owned(d)
      BY <2>1, <1>6 DEF Owned
    <2>3. applied'[d] = applied[d] /\ packages'[d] = packages[d]
      BY <1>1, <1>2, <1>3, <1>8
    <2>4. \A i \in Owned(d) : rows'[i] = rows[i]
      BY <2>1, <1>2 DEF Owned
    <2> QED
      BY <2>2, <2>3, <2>4 DEF GovernedSetExact
  <1> QED
    BY <1>7, <1>8

-----------------------------------------------------------------------------
(* The inductive invariant.                                                *)

\* Fresh and migrated databases satisfy the invariant.
LEMMA InitInv == Init => IInv
  <1> SUFFICES ASSUME Init PROVE IInv
    OBVIOUS
  <1>1. PICK old \in SUBSET {p \in Packages : ~p.policy.given} :
          /\ \A p, q \in old : p # q => p.domain # q.domain /\ p.content \cap q.content = {}
          /\ \A p \in old : p.sequence > 0
          /\ packages = [d \in Domains |-> {Migrated(p) : p \in {q \in old : q.domain = d}}]
          /\ applied = [d \in Domains |->
                           UNION {p.content \cap Methods : p \in {q \in old : q.domain = d}}]
          /\ rows = [i \in Items |->
                        IF \E p \in old : i \in p.content \cap Methods
                        THEN [owner |-> (CHOOSE p \in old : i \in p.content).domain,
                              provenance |-> {Migrated(CHOOSE p \in old : i \in p.content).provenance}]
                        ELSE Absent]
    BY DEF Init
  <1> DEFINE Home(i) == CHOOSE p \in old : i \in p.content
  <1>2. \A p \in old : p \in Package
    BY TrustAssumption
  <1>3. \A p \in old : /\ Migrated(p) \in Stored
                       /\ Migrated(p).next = NoSigner /\ Migrated(p).recovery = NoSigner
    <2> SUFFICES ASSUME NEW p \in old
                 PROVE  /\ Migrated(p) \in Stored
                        /\ Migrated(p).next = NoSigner /\ Migrated(p).recovery = NoSigner
      OBVIOUS
    <2>1. p \in Package
      BY <1>2
    <2> QED
      BY <2>1 DEF Migrated, ProvenanceOf, Stored, Provenance, Package
  <1>4. \A i \in Items : (\E p \in old : i \in p.content \cap Methods) =>
          /\ Home(i) \in old /\ i \in Home(i).content
          /\ \A p \in old : i \in p.content => p = Home(i)
    BY <1>1
  <1>5. TypeOK
    <2>1. now \in Times
      BY TrustAssumption DEF Init, Times
    <2>2. inflight \subseteq Request /\ sync_state \in SyncState
      BY DEF Init, SyncState
    <2>3. audit_log \in Seq(AuditRow)
      <3>1. audit_log = <<>>
        BY DEF Init
      <3> QED
        BY ONLY <3>1
    <2>4. packages \in [Domains -> SUBSET Stored]
      BY <1>1, <1>3
    <2>5. \A d \in Domains : \A x, y \in packages[d] : x = y
      BY <1>1
    <2>6. applied \in [Domains -> SUBSET Items]
      BY <1>1 DEF Items
    <2>7. rows \in [Items -> Row]
      <3> SUFFICES ASSUME NEW i \in Items PROVE rows[i] \in Row
        BY <1>1
      <3>1. CASE \E p \in old : i \in p.content \cap Methods
        <4>1. Home(i) \in old
          BY <1>4, <3>1
        <4>2. rows[i] = [owner |-> Home(i).domain, provenance |-> {Migrated(Home(i)).provenance}]
          BY <3>1, <1>1
        <4>3. Home(i).domain \in Domains
          BY <4>1, <1>2 DEF Package
        <4>4. Migrated(Home(i)).provenance \in Provenance
          BY <4>1, <1>3 DEF Stored
        <4> QED
          BY ONLY <4>2, <4>3, <4>4 DEF Row
      <3>2. CASE ~\E p \in old : i \in p.content \cap Methods
        <4>1. rows[i] = Absent
          BY <3>2, <1>1
        <4> QED
          BY ONLY <4>1 DEF Absent, Row
      <3> QED
        BY <3>1, <3>2
    <2> QED
      BY <2>1, <2>2, <2>3, <2>4, <2>5, <2>6, <2>7 DEF TypeOK
  <1>6. RequestsValidated
    BY DEF Init, RequestsValidated
  <1>6a. SequencesPositive
    <2>1. \A p \in old : Migrated(p).provenance.sequence = p.sequence
      BY <1>2 DEF Migrated, ProvenanceOf, Package
    <2> QED
      BY <1>1, <2>1 DEF SequencesPositive
  <1>7. PoliciesStayValid
    BY <1>1, <1>3 DEF PoliciesStayValid, StoredPolicyValid
  <1>8. GovernedSetExact
    <2> SUFFICES ASSUME NEW d \in Domains
                 PROVE  /\ Owned(d) = applied[d]
                        /\ \A i \in Owned(d) :
                             rows[i].provenance = {row.provenance : row \in packages[d]}
      BY DEF GovernedSetExact
    <2>1. "absent" \notin Domains
      BY TrustAssumption
    <2>2. \A i \in Items : rows[i].owner = d <=>
             \E p \in old : p.domain = d /\ i \in p.content \cap Methods
      <3> SUFFICES ASSUME NEW i \in Items
                   PROVE  rows[i].owner = d <=>
                             \E p \in old : p.domain = d /\ i \in p.content \cap Methods
        OBVIOUS
      <3>1. CASE \E p \in old : i \in p.content \cap Methods
        <4>1. rows[i].owner = Home(i).domain
          BY <3>1, <1>1
        <4> QED
          BY <4>1, <3>1, <1>4
      <3>2. CASE ~\E p \in old : i \in p.content \cap Methods
        <4>1. rows[i].owner = "absent"
          BY <3>2, <1>1 DEF Absent
        <4> QED
          BY <4>1, <3>2, <2>1
      <3> QED
        BY <3>1, <3>2
    <2>3. applied[d] = {i \in Items : \E p \in old : p.domain = d /\ i \in p.content \cap Methods}
      BY <1>1 DEF Items
    <2>4. Owned(d) = applied[d]
      BY <2>2, <2>3 DEF Owned
    <2>5. ASSUME NEW i \in Owned(d)
          PROVE  rows[i].provenance = {row.provenance : row \in packages[d]}
      <3>1. i \in Items /\ rows[i].owner = d
        BY DEF Owned
      <3>2. PICK p \in old : p.domain = d /\ i \in p.content \cap Methods
        BY <2>2, <3>1
      <3>3. p = Home(i)
        BY <3>1, <3>2, <1>4
      <3>4. rows[i].provenance = {Migrated(p).provenance}
        BY <3>1, <3>2, <3>3, <1>1
      <3>5. {q \in old : q.domain = d} = {p}
        BY <3>2, <1>1
      <3>6. packages[d] = {Migrated(p)}
        BY <3>5, <1>1
      <3> QED
        BY ONLY <3>4, <3>6
    <2> QED
      BY <2>4, <2>5
  <1> QED
    BY <1>5, <1>6, <1>6a, <1>7, <1>8 DEF IInv

\* Every call, crash and tick preserves the invariant.
LEMMA StepInv == IInv /\ [Next]_vars => IInv'
  <1> SUFFICES ASSUME IInv, [Next]_vars PROVE IInv'
    OBVIOUS
  <1> USE DEF IInv
  <1>1. ASSUME NEW p \in Packages, NEW imported \in Times, Submit(p, imported) PROVE IInv'
    <2>1. [package |-> p, imported |-> imported] \in Request
      BY DEF Request
    <2>2. inflight' = inflight \cup {[package |-> p, imported |-> imported]}
      BY <1>1 DEF Submit
    <2>3. UNCHANGED <<now, packages, rows, sync_state, audit_log, applied>>
      BY <1>1 DEF Submit
    <2>4. TypeOK'
      BY <2>1, <2>2, <2>3 DEF TypeOK
    <2>5. RequestsValidated'
      BY <1>1, <2>2 DEF Submit, RequestsValidated, SignerPolicyValid, PackageValid
    <2> QED
      BY <2>3, <2>4, <2>5 DEF SequencesPositive, PoliciesStayValid, GovernedSetExact, Owned
  <1>2. ASSUME NEW r \in inflight, Apply(r) PROVE IInv'
    <2> DEFINE p == r.package
    <2>1. r \in Request
      BY DEF TypeOK
    <2>2. /\ p \in Package /\ p.domain \in Domains /\ p.content \subseteq Items
      BY <2>1, ProvenanceTyped
    <2>3. /\ inflight' = inflight \ {r}
          /\ now' = now
          /\ packages' = [packages EXCEPT ![p.domain] = NewStored(r)]
          /\ rows' = [i \in Items |-> NewRow(r, i)]
          /\ sync_state' = [synced |-> p.created, version |-> {p.version}, updated |-> r.imported]
          /\ audit_log' = Append(audit_log, [domain |-> p.domain, sequence |-> p.sequence,
                                             signer |-> p.signer, role |-> AuditRole(p)])
          /\ applied' = [applied EXCEPT ![p.domain] = p.content]
          /\ Acceptable(p)
      BY <1>2 DEF Apply
    <2>4. TypeOK'
      <3>1. now' \in Times /\ inflight' \subseteq Request
        BY <2>3 DEF TypeOK
      <3>2. packages' \in [Domains -> SUBSET Stored]
        BY <2>1, <2>2, <2>3, NewStoredTyped DEF TypeOK
      <3>3. \A d \in Domains : \A x, y \in packages'[d] : x = y
        BY <2>1, <2>2, <2>3, NewStoredTyped DEF TypeOK
      <3>4. rows' \in [Items -> Row]
        BY <2>1, <2>3, NewRowTyped
      <3>5. sync_state' \in SyncState
        BY <2>1, <2>2, <2>3 DEF SyncState, Package, Request
      <3>6. audit_log' \in Seq(AuditRow)
        <4>1. AuditRole(p) \in Roles
          BY <2>1, <2>3, AuditRoleTyped
        <4>2. [domain |-> p.domain, sequence |-> p.sequence, signer |-> p.signer,
               role |-> AuditRole(p)] \in AuditRow
          BY <2>2, <4>1 DEF AuditRow, Package
        <4>3. audit_log \in Seq(AuditRow)
          BY DEF TypeOK
        <4> QED
          BY ONLY <2>3, <4>2, <4>3
      <3>7. applied' \in [Domains -> SUBSET Items]
        BY <2>2, <2>3 DEF TypeOK
      <3> QED
        BY <3>1, <3>2, <3>3, <3>4, <3>5, <3>6, <3>7 DEF TypeOK
    <2>5. RequestsValidated'
      BY <2>3 DEF RequestsValidated, SignerPolicyValid
    <2>5a. SequencesPositive'
      <3>1. \A row \in NewStored(r) : row.provenance.sequence = p.sequence
        <4>1. \A row \in NewStored(r) : row.provenance = ProvenanceOf(r)
          BY <2>1, NewStoredTyped
        <4>2. ProvenanceOf(r).sequence = p.sequence
          BY DEF ProvenanceOf
        <4> QED
          BY ONLY <4>1, <4>2
      <3>2. p.sequence > 0
        BY <1>2 DEF RequestsValidated
      <3>3. packages \in [Domains -> SUBSET Stored]
        BY DEF TypeOK
      <3> QED
        BY <3>1, <3>2, <3>3, <2>2, <2>3 DEF SequencesPositive
    <2>6. PoliciesStayValid'
      <3> SUFFICES ASSUME NEW d \in Domains, NEW row \in packages'[d]
                   PROVE  StoredPolicyValid(row)
        BY DEF PoliciesStayValid, StoredPolicyValid
      <3>1. CASE d = p.domain
        <4>1. row \in NewStored(r)
          BY <3>1, <2>2, <2>3 DEF TypeOK
        <4>2. SignerPolicyValid(p.policy)
          BY <1>2 DEF RequestsValidated
        <4> QED
          BY <4>1, <4>2, <2>1, <2>3, NewStoredValid
      <3>2. CASE d # p.domain
        BY <3>2, <2>2, <2>3 DEF TypeOK, PoliciesStayValid
      <3> QED
        BY <3>1, <3>2
    <2>7. GovernedSetExact'
      BY <1>2, <2>1, CommitExact
    <2> QED
      BY <2>4, <2>5, <2>5a, <2>6, <2>7
  <1>3. ASSUME NEW r \in inflight, Refuse(r) PROVE IInv'
    BY <1>3 DEF Refuse, TypeOK, RequestsValidated, SignerPolicyValid, SequencesPositive,
                PoliciesStayValid, StoredPolicyValid, GovernedSetExact, Owned
  <1>4. ASSUME NEW i \in Items, StoreLegacy(i) PROVE IInv'
    <2>1. /\ rows' = [rows EXCEPT ![i] = Legacy] /\ rows[i].owner \in {"absent", "legacy"}
          /\ UNCHANGED <<now, inflight, packages, sync_state, audit_log, applied>>
      BY <1>4 DEF StoreLegacy
    <2>2. "absent" \notin Domains /\ "legacy" \notin Domains
      BY TrustAssumption
    <2>3. Legacy \in Row
      BY DEF Legacy, Row
    <2>4. TypeOK'
      BY <2>1, <2>3 DEF TypeOK
    <2>5. \A d \in Domains : Owned(d)' = Owned(d) /\ \A j \in Owned(d) : rows'[j] = rows[j]
      BY <2>1, <2>2 DEF Owned, TypeOK, Legacy
    <2>6. GovernedSetExact'
      BY <2>1, <2>5 DEF GovernedSetExact
    <2> QED
      BY <2>1, <2>4, <2>6 DEF RequestsValidated, SignerPolicyValid, SequencesPositive,
                              PoliciesStayValid, StoredPolicyValid
  <1>5. CASE Crash
    BY <1>5 DEF Crash, TypeOK, RequestsValidated, SignerPolicyValid, SequencesPositive,
                PoliciesStayValid, StoredPolicyValid, GovernedSetExact, Owned
  <1>6. CASE Tick
    <2>1. now' \in Times
      BY <1>6, TrustAssumption DEF Tick, TypeOK, Times
    <2>2. UNCHANGED <<inflight, packages, rows, sync_state, audit_log, applied>>
      BY <1>6 DEF Tick
    <2> QED
      BY <2>1, <2>2 DEF TypeOK, RequestsValidated, SignerPolicyValid, SequencesPositive,
                PoliciesStayValid, StoredPolicyValid, GovernedSetExact, Owned
  <1>7. CASE UNCHANGED vars
    BY <1>7 DEF vars, TypeOK, RequestsValidated, SignerPolicyValid, SequencesPositive,
                PoliciesStayValid, StoredPolicyValid, GovernedSetExact, Owned
  <1> QED
    BY <1>1, <1>2, <1>3, <1>4, <1>5, <1>6, <1>7 DEF Next

\* The invariant holds in every state.
THEOREM Invariance == Spec => []IInv
  BY InitInv, StepInv, PTL DEF Spec

-----------------------------------------------------------------------------
(* The properties.                                                         *)

\* Every table keeps its shape.
THEOREM TypeCorrect == Spec => []TypeOK
  <1>1. IInv => TypeOK
    BY DEF IInv
  <1> QED
    BY <1>1, Invariance, PTL

\* No history of accepted packages stores a signer policy that the next
\* apply or a read would reject.
THEOREM PoliciesCorrect == Spec => []PoliciesStayValid
  <1>1. IInv => PoliciesStayValid
    BY DEF IInv
  <1> QED
    BY <1>1, Invariance, PTL

\* A domain's records are always exactly those of its last package.
THEOREM GovernedSetCorrect == Spec => []GovernedSetExact
  <1>1. IInv => GovernedSetExact
    BY DEF IInv
  <1> QED
    BY <1>1, Invariance, PTL

\* A step that changes a package row is the commit of a package that the
\* old row admits.
LEMMA OnlyCommits ==
    ASSUME IInv, [Next]_vars, NEW d \in Domains, packages'[d] # packages[d]
    PROVE  \E r \in Request :
              /\ Apply(r) /\ r.package.domain = d
              /\ packages'[d] = NewStored(r)
              /\ \A old \in packages[d] : Admissible(old, r.package)
  <1>1. PICK r \in inflight : Apply(r)
    BY DEF Next, vars, Submit, Refuse, StoreLegacy, Crash, Tick
  <1>2. r \in Request /\ packages \in [Domains -> SUBSET Stored]
    BY DEF IInv, TypeOK
  <1>3. /\ packages' = [packages EXCEPT ![r.package.domain] = NewStored(r)]
        /\ Acceptable(r.package)
    BY <1>1 DEF Apply
  <1>4. r.package.domain \in Domains
    BY <1>2, ProvenanceTyped
  <1>5. r.package.domain = d
    BY <1>2, <1>3, <1>4
  <1> QED
    BY <1>1, <1>2, <1>3, <1>5 DEF Acceptable

\* No reordered, replayed or racing package rolls a domain back.
THEOREM AdvanceCorrect == Spec => RowsAdvance
  <1> DEFINE Advance ==
        \A d \in Domains : \A old \in packages[d] :
          /\ packages'[d] # {}
          /\ \A new \in packages'[d] : new # old =>
                /\ new.provenance.sequence > old.provenance.sequence
                /\ new.provenance.created > old.provenance.created
  <1>1. IInv /\ [Next]_vars => Advance
    <2> SUFFICES ASSUME IInv, [Next]_vars, NEW d \in Domains, NEW old \in packages[d]
                 PROVE  /\ packages'[d] # {}
                        /\ \A new \in packages'[d] : new # old =>
                              /\ new.provenance.sequence > old.provenance.sequence
                              /\ new.provenance.created > old.provenance.created
      OBVIOUS
    <2>1. CASE packages'[d] = packages[d]
      BY <2>1 DEF IInv, TypeOK
    <2>2. CASE packages'[d] # packages[d]
      <3>1. PICK r \in Request : /\ packages'[d] = NewStored(r)
                                 /\ Admissible(old, r.package)
        BY <2>2, OnlyCommits
      <3>2. /\ r.package.sequence > old.provenance.sequence
            /\ r.package.created > old.provenance.created
        BY <3>1 DEF Admissible
      <3>3. NewStored(r) # {} /\ \A new \in NewStored(r) : new.provenance = ProvenanceOf(r)
        BY NewStoredTyped DEF IInv
      <3> QED
        BY <3>1, <3>2, <3>3 DEF ProvenanceOf
    <2> QED
      BY <2>1, <2>2
  <1> QED
    BY <1>1, Invariance, PTL DEF Spec, RowsAdvance

\* Only an authorised signer takes over, and recovery is stable.
THEOREM LineageCorrect == Spec => SignerLineage
  <1> DEFINE Lineage ==
        \A d \in Domains : \A old \in packages[d], new \in packages'[d] :
          /\ new.provenance.signer \in {old.provenance.signer, old.next, old.recovery}
          /\ old.recovery # NoSigner => new.recovery = old.recovery
  <1>1. IInv /\ [Next]_vars => Lineage
    <2> SUFFICES ASSUME IInv, [Next]_vars, NEW d \in Domains,
                        NEW old \in packages[d], NEW new \in packages'[d]
                 PROVE  /\ new.provenance.signer \in {old.provenance.signer, old.next, old.recovery}
                        /\ old.recovery # NoSigner => new.recovery = old.recovery
      OBVIOUS
    <2>1. CASE packages'[d] = packages[d]
      BY <2>1 DEF IInv, TypeOK
    <2>2. CASE packages'[d] # packages[d]
      <3>1. PICK r \in Request : /\ packages'[d] = NewStored(r)
                                 /\ r.package.domain = d
                                 /\ Admissible(old, r.package)
        BY <2>2, OnlyCommits
      <3>2. new.provenance = ProvenanceOf(r)
        BY <3>1, NewStoredTyped DEF IInv
      <3>3. SignerRole(old, r.package.signer) # "unauthorised"
        BY <3>1 DEF Admissible
      <3>4. r.package.signer \in {old.provenance.signer, old.next, old.recovery}
        BY <3>3 DEF SignerRole
      <3>5. new.provenance.signer = r.package.signer
        BY <3>2 DEF ProvenanceOf
      <3>6. ASSUME old.recovery # NoSigner PROVE new.recovery = old.recovery
        <4>1. CASE r.package.policy.given
          <5>1. new.recovery = r.package.policy.recovery
            BY <3>1, <4>1 DEF NewStored
          <5>2. r.package.policy.recovery = old.recovery
            BY <3>1, <3>6, <4>1 DEF Admissible
          <5> QED
            BY <5>1, <5>2
        <4>2. CASE ~r.package.policy.given
          <5>1. PICK x \in packages[d] : new.recovery = x.recovery
            BY <3>1, <4>2 DEF NewStored
          <5>2. x = old
            BY <5>1 DEF IInv, TypeOK
          <5> QED
            BY <5>1, <5>2
        <4> QED
          BY <4>1, <4>2
      <3> QED
        BY <3>4, <3>5, <3>6
    <2> QED
      BY <2>1, <2>2
  <1> QED
    BY <1>1, Invariance, PTL DEF Spec, SignerLineage

\* Governed records change only with their own domain's package.
THEOREM IsolationCorrect == Spec => DomainsIsolated
  <1> DEFINE Isolated ==
        \A i \in Items : rows[i].owner \in Domains /\ rows'[i] # rows[i] =>
            packages'[rows[i].owner] # packages[rows[i].owner]
  <1>1. IInv /\ [Next]_vars => Isolated
    <2> SUFFICES ASSUME IInv, [Next]_vars, NEW i \in Items,
                        rows[i].owner \in Domains, rows'[i] # rows[i]
                 PROVE  packages'[rows[i].owner] # packages[rows[i].owner]
      OBVIOUS
    <2>1. "absent" \notin Domains /\ "legacy" \notin Domains
      BY TrustAssumption
    <2>2. ASSUME NEW j \in Items, StoreLegacy(j) PROVE rows'[i] = rows[i]
      BY <2>1, <2>2 DEF StoreLegacy, IInv, TypeOK
    <2>3. PICK r \in inflight : Apply(r)
      BY <2>2 DEF Next, vars, Submit, Refuse, Crash, Tick
    <2>4. r \in Request /\ r.package.domain \in Domains
      BY ProvenanceTyped DEF IInv, TypeOK
    <2>5. rows'[i] = NewRow(r, i) /\ Conflicting(r.package) = {}
          /\ packages' = [packages EXCEPT ![r.package.domain] = NewStored(r)]
          /\ Acceptable(r.package)
      BY <2>3 DEF Apply, Acceptable
    <2>6. rows[i].owner = r.package.domain
      BY <2>1, <2>5 DEF NewRow, Conflicting
    <2>7. packages'[rows[i].owner] = NewStored(r)
      BY <2>4, <2>5, <2>6 DEF IInv, TypeOK
    <2>8. PICK new \in NewStored(r) : new.provenance = ProvenanceOf(r)
      BY <2>4, NewStoredTyped DEF IInv
    <2>9. ASSUME NEW old \in packages[rows[i].owner]
          PROVE  old.provenance.sequence # new.provenance.sequence
      <3>1. /\ r.package.sequence > old.provenance.sequence
        BY <2>5, <2>6 DEF Acceptable, Admissible
      <3>2. new.provenance.sequence = r.package.sequence
        BY <2>8 DEF ProvenanceOf
      <3>3. old.provenance.sequence \in Nat /\ r.package.sequence \in Nat
        BY <2>4, ProvenanceTyped DEF IInv, TypeOK, Stored, Provenance, Package
      <3> QED
        BY ONLY <3>1, <3>2, <3>3
    <2> QED
      BY <2>7, <2>8, <2>9
  <1> QED
    BY <1>1, Invariance, PTL DEF Spec, DomainsIsolated

\* A governed read has no reason to fail but the clock.
THEOREM ReadsCorrect == Spec => []ReadsFailOnlyOnTime
  <1>1. IInv => ReadsFailOnlyOnTime
    <2> SUFFICES ASSUME IInv,
                        \A d \in Domains : \A row \in packages[d] :
                          /\ row.provenance.expires # Null
                          /\ TimesValid(row.provenance.created, row.provenance.expires,
                                        row.provenance.imported, now),
                        NEW i \in Items, rows[i].owner \in Domains,
                        NEW v \in rows[i].provenance
                 PROVE  /\ v.expires # Null
                        /\ TimesValid(v.created, v.expires, v.imported, now)
                        /\ \E row \in packages[rows[i].owner] :
                              Loadable(row) /\ row.provenance = v
      BY DEF ReadsFailOnlyOnTime, ReadSucceeds, Decodable, AgreesWithState, Items
    <2>1. i \in Owned(rows[i].owner)
      BY DEF Owned
    <2>2. rows[i].provenance = {row.provenance : row \in packages[rows[i].owner]}
      BY <2>1 DEF IInv, GovernedSetExact
    <2>3. PICK row \in packages[rows[i].owner] : row.provenance = v
      BY <2>2
    <2>4. StoredPolicyValid(row) /\ row.provenance.sequence > 0
      BY DEF IInv, PoliciesStayValid, SequencesPositive
    <2> QED
      BY <2>3, <2>4 DEF Loadable
  <1> QED
    BY <1>1, Invariance, PTL

-----------------------------------------------------------------------------
(* Rotation and the audit log.                                             *)

\* Whoever may publish for a domain has a package that the domain would take:
\* the current signer without a policy, the next signer by naming nobody
\* after it, the recovery signer by handing back to the current one.
LEMMA SignerHasRenewal ==
    ASSUME NEW row \in Stored, StoredPolicyValid(row), row.provenance.expires # Null,
           row.provenance.sequence < MaxSequence, now \in Nat,
           NEW signer \in {row.provenance.signer, row.next, row.recovery} \ {NoSigner}
    PROVE  \E version \in Versions \ {row.provenance.version},
              digest \in Digests \ {row.provenance.digest}, policy \in ValidPolicies :
                LET p == Renewal(row, Later(row), signer, policy, version, digest)
                IN  PackageValid(p, p.created, p.created) /\ Admissible(row, p)
  <1> DEFINE v == row.provenance
             Publishable(policy) ==
                IF policy.given
                THEN /\ IF row.recovery # NoSigner THEN policy.recovery = row.recovery
                        ELSE SignerRole(row, signer) = "current"
                     /\ RelationshipsValid(policy, signer, signer = row.recovery)
                ELSE SignerRole(row, signer) = "current"
  <1>1. /\ v.version \in Versions /\ v.digest \in Digests /\ v.signer \in Signers
        /\ v.sequence \in Nat /\ v.created \in Nat
        /\ row.next \in Signers \cup {NoSigner} /\ row.recovery \in Signers \cup {NoSigner}
    BY DEF Stored, Provenance, Times
  <1>2. PICK version \in Versions : version # v.version
    BY <1>1, TrustAssumption
  <1>3. PICK digest \in Digests : digest # v.digest
    BY <1>1, TrustAssumption
  <1>4. SignerRole(row, signer) # "unauthorised"
    BY DEF SignerRole
  <1>5. NoSigner \notin Signers
    BY TrustAssumption
  <1>6. \E policy \in ValidPolicies : Publishable(policy)
    <2>1. CASE signer = v.signer
      <3> DEFINE none == [given |-> FALSE, next |-> NoSigner, recovery |-> NoSigner]
      <3>1. none \in ValidPolicies
        BY DEF ValidPolicies, Policy, SignerPolicyValid
      <3>2. Publishable(none)
        BY <2>1 DEF SignerRole
      <3> QED
        BY <3>1, <3>2
    <2>2. CASE signer # v.signer /\ signer = row.next /\ signer # row.recovery
      <3> DEFINE last == [given |-> TRUE, next |-> NoSigner, recovery |-> row.recovery]
      <3>1. row.recovery # NoSigner
        BY <2>2 DEF StoredPolicyValid
      <3>2. last \in ValidPolicies
        BY <1>1, <3>1 DEF ValidPolicies, Policy, SignerPolicyValid
      <3>3. Publishable(last)
        BY <2>2, <3>1 DEF RelationshipsValid
      <3> QED
        BY <3>2, <3>3
    <2>3. CASE signer # v.signer /\ signer = row.recovery
      <3> DEFINE back == [given |-> TRUE, next |-> v.signer, recovery |-> row.recovery]
      <3>1. back \in ValidPolicies
        BY <1>1, <1>5, <2>3 DEF ValidPolicies, Policy, SignerPolicyValid
      <3>2. Publishable(back)
        BY <1>1, <1>5, <2>3 DEF RelationshipsValid
      <3> QED
        BY <3>1, <3>2
    <2> QED
      BY <2>1, <2>2, <2>3
  <1>7. PICK policy \in ValidPolicies : Publishable(policy)
    BY <1>6
  <1> DEFINE p == Renewal(row, Later(row), signer, policy, version, digest)
  <1>8. /\ p.sequence = v.sequence + 1 /\ p.created = Later(row) /\ p.expires = Later(row) + 1
        /\ p.wellformed
        /\ p.signer = signer /\ p.policy = policy
        /\ p.version = version /\ p.digest = digest
    BY DEF Renewal
  <1>9. p.sequence > v.sequence /\ p.created > v.created
    BY <1>1, <1>8 DEF Later
  <1>11. PackageValid(p, p.created, p.created)
    <2>1. Later(row) \in Nat /\ MaxSequence \in Nat /\ Skew \in Nat
      BY <1>1, TrustAssumption DEF Later
    <2>2. p.sequence > 0 /\ p.sequence <= MaxSequence
      BY <1>1, <1>8, <2>1
    <2>3. TimesValid(p.created, p.expires, p.created, p.created)
      <3> HIDE DEF p
      <3> QED
        BY <1>8, <2>1 DEF TimesValid
    <2> QED
      BY <1>8, <2>2, <2>3 DEF PackageValid
  <1>10. Admissible(row, p)
    <2> HIDE DEF p
    <2> QED
      BY <1>2, <1>3, <1>4, <1>7, <1>8, <1>9 DEF Admissible
  <1> QED
    BY <1>2, <1>3, <1>10, <1>11

\* An audited domain has a package row.
AuditedHaveRows == \A k \in DOMAIN audit_log : packages[audit_log[k].domain] # {}

\* A commit adds the entry that continues its domain's story.
LEMMA CommitAudited ==
    ASSUME TypeOK, AuditFaithful, AuditedHaveRows, NEW r \in Request, Apply(r)
    PROVE  AuditFaithful' /\ AuditedHaveRows'
  <1> DEFINE p == r.package
             n == Len(audit_log)
             entry == [domain |-> p.domain, sequence |-> p.sequence, signer |-> p.signer,
                       role |-> AuditRole(p)]
  <1>1. /\ p.domain \in Domains /\ packages \in [Domains -> SUBSET Stored]
        /\ audit_log \in Seq(AuditRow) /\ n \in Nat /\ DOMAIN audit_log = 1 .. n
    BY ProvenanceTyped DEF TypeOK
  <1>2. /\ audit_log' = Append(audit_log, entry) /\ Acceptable(p)
        /\ packages' = [packages EXCEPT ![p.domain] = NewStored(r)]
    BY DEF Apply
  <1>3. /\ DOMAIN audit_log' = 1 .. n + 1
        /\ \A k \in 1 .. n : audit_log'[k] = audit_log[k]
        /\ audit_log'[n + 1] = entry
    <2> HIDE DEF entry
    <2> QED
      BY <1>1, <1>2
  <1>4. \A k \in 1 .. n : audit_log[k].domain \in Domains
    <2>1. \A k \in 1 .. n : audit_log[k] \in AuditRow
      BY ONLY <1>1
    <2> QED
      BY ONLY <2>1 DEF AuditRow
  <1>5. /\ NewStored(r) # {}
        /\ \A row \in NewStored(r) : row.provenance.sequence = p.sequence /\ row.provenance.signer = p.signer
    <2>1. NewStored(r) # {} /\ \A row \in NewStored(r) : row.provenance = ProvenanceOf(r)
      BY NewStoredTyped
    <2>2. ProvenanceOf(r).sequence = p.sequence /\ ProvenanceOf(r).signer = p.signer
      BY DEF ProvenanceOf
    <2> QED
      BY ONLY <2>1, <2>2
  <1>6. AuditedHaveRows'
    BY <1>1, <1>2, <1>3, <1>4, <1>5 DEF AuditedHaveRows
  <1>7. ASSUME NEW k \in 1 .. n + 1, Newest(k)', NEW row \in packages'[audit_log'[k].domain]
        PROVE  /\ row.provenance.sequence = audit_log'[k].sequence
               /\ row.provenance.signer = audit_log'[k].signer
    <2>1. CASE k = n + 1
      BY <2>1, <1>1, <1>2, <1>3, <1>5
    <2>2. CASE k \in 1 .. n
      <3>1. audit_log[k].domain # p.domain
        BY <2>2, <1>1, <1>3, <1>7 DEF Newest
      <3>2. Newest(k)
        BY <2>2, <1>1, <1>3, <1>7 DEF Newest
      <3>3. row \in packages[audit_log[k].domain]
        BY <2>2, <3>1, <1>1, <1>2, <1>3, <1>4, <1>7
      <3>4. \A old \in packages[audit_log[k].domain] :
              /\ old.provenance.sequence = audit_log[k].sequence
              /\ old.provenance.signer = audit_log[k].signer
        BY <2>2, <3>2, <1>1 DEF AuditFaithful
      <3>5. audit_log'[k] = audit_log[k]
        BY <2>2, <1>1, <1>3
      <3> QED
        BY ONLY <3>3, <3>4, <3>5
    <2> QED
      BY <2>1, <2>2, <1>1
  <1>8. ASSUME NEW j \in 1 .. n + 1, NEW k \in 1 .. n + 1, Successive(j, k)'
        PROVE  /\ audit_log'[j].sequence < audit_log'[k].sequence
               /\ audit_log'[k].role = "current" <=> audit_log'[k].signer = audit_log'[j].signer
    <2>0. j \in 1 .. n /\ j < k
      BY <1>8, <1>1 DEF Successive
    <2>1. CASE k \in 1 .. n
      <3>1. Successive(j, k)
        BY <2>0, <2>1, <1>1, <1>3, <1>8 DEF Successive
      <3> QED
        BY <2>0, <2>1, <3>1, <1>1, <1>3 DEF AuditFaithful
    <2>2. CASE k = n + 1
      <3>1. audit_log[j].domain = p.domain /\ Newest(j)
        BY <2>0, <2>2, <1>1, <1>3, <1>8 DEF Successive, Newest
      <3>2. PICK old \in packages[p.domain] : old = CHOOSE row \in packages[p.domain] : TRUE
        BY <2>0, <3>1, <1>1 DEF AuditedHaveRows
      <3>3. old.provenance.sequence = audit_log[j].sequence /\ old.provenance.signer = audit_log[j].signer
        BY <2>0, <3>1, <3>2, <1>1 DEF AuditFaithful
      <3>4. Admissible(old, p)
        BY <3>2, <1>2 DEF Acceptable
      <3>5. old.provenance.sequence \in Nat /\ p.sequence \in Nat
        BY <3>2, <1>1, ProvenanceTyped DEF Stored, Provenance, Package
      <3>6. audit_log[j].sequence < p.sequence
        BY ONLY <3>3, <3>4, <3>5 DEF Admissible
      <3>7. AuditRole(p) = SignerRole(old, p.signer)
        BY <3>2 DEF AuditRole
      <3>8. SignerRole(old, p.signer) = "current" <=> p.signer = old.provenance.signer
        BY DEF SignerRole
      <3> QED
        BY <2>0, <2>2, <1>3, <3>3, <3>6, <3>7, <3>8
    <2> QED
      BY <2>1, <2>2, <1>1
  <1> QED
    BY <1>3, <1>6, <1>7, <1>8 DEF AuditFaithful

\* The store stays usable: no signer is locked out below the largest sequence,
\* governed reads fail only on time, and the audit log is the history of what
\* was committed (database.rs).
THEOREM UsableCorrect == Spec => []StaysUsable
  <1>1. Init => AuditFaithful /\ AuditedHaveRows
    BY DEF Init, AuditFaithful, AuditedHaveRows
  <1>2. IInv /\ AuditFaithful /\ AuditedHaveRows /\ [Next]_vars => AuditFaithful' /\ AuditedHaveRows'
    <2> SUFFICES ASSUME IInv, AuditFaithful, AuditedHaveRows, [Next]_vars
                 PROVE  AuditFaithful' /\ AuditedHaveRows'
      OBVIOUS
    <2>1. CASE \E r \in inflight : Apply(r)
      BY <2>1, CommitAudited DEF IInv, TypeOK
    <2>2. CASE UNCHANGED <<packages, audit_log>>
      BY <2>2 DEF AuditFaithful, AuditedHaveRows, Successive, Newest
    <2> QED
      BY <2>1, <2>2 DEF Next, vars, Submit, Refuse, StoreLegacy, Crash, Tick
  <1>3. IInv => NeverLockedOut
    <2> SUFFICES ASSUME IInv, NEW d \in Domains, NEW row \in packages[d],
                        row.provenance.expires # Null, row.provenance.sequence < MaxSequence,
                        NEW signer \in {row.provenance.signer, row.next, row.recovery} \ {NoSigner}
                 PROVE  \E version \in Versions \ {row.provenance.version},
                           digest \in Digests \ {row.provenance.digest}, policy \in ValidPolicies :
                             LET p == Renewal(row, Later(row), signer, policy, version, digest)
                             IN  PackageValid(p, p.created, p.created) /\ Admissible(row, p)
      BY DEF NeverLockedOut
    <2>1. row \in Stored /\ StoredPolicyValid(row) /\ now \in Nat
      BY DEF IInv, TypeOK, PoliciesStayValid, Times
    <2> QED
      BY <2>1, SignerHasRenewal
  <1> QED
    BY <1>1, <1>2, <1>3, Invariance, ReadsCorrect, PTL DEF Spec, StaysUsable

=============================================================================
