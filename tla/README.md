# TLA+ verification of marty-core

marty-core is a Rust workspace of credential libraries: they issue, present and
verify mobile documents, passports, badges and other credentials, and keep the
trust material that verification needs. Some of it keeps state between calls,
runs concurrently or must survive failures; there a schedule or a crash decides
whether the code is right. Most of it is pure: parsers, checks and decisions
whose correctness shows only over a sequence of calls by several parties (an
issuer, a holder, a verifier, somebody in between). Both are modelled here: the
first as processes, the second as the protocol the calls make up, with what
travels between them lost, repeated, delayed, exchanged or changed.

## Inventory

### Parts with state of their own

| Part | State | Operations | Interacts with | What is hard |
|---|---|---|---|---|
| ES256 batch signing, `marty-oid4vci/src/signing_batch.rs` | frozen signer identity; shared claim counter, stop flag, first panic; per-worker results | open a scope, sign a batch (prepare, check identity, spawn workers, claim, sign, join, re-check, validate, assemble) | the caller's signer (may fail, panic or drift), scoped OS threads | worker interleavings, refused threads, panics, one answer for every schedule |
| Trust packages, `marty-secure-storage/src/database.rs`, `database/provenance.rs`, `migrations.rs` | package, anchor and badge-key rows, sync metadata, audit rows in SQLite | apply a package (with or without signer policy), legacy stores, governed reads, migration | publishers, several callers of one connection, the clock | replayed, reordered, racing packages; signer rotation and recovery; crash before commit |
| Offline event queue, `marty-secure-storage/src/database.rs` | queue rows and one status row | queue, fetch, acknowledge or fail a batch, remove one | delivery clients and their server | overlapping clients, crash between acceptance and acknowledgement, lost answers |
| mdoc session, `marty-iso18013/src/protocol.rs`, `session.rs` | session state, encryption state, key agreement, each behind a `tokio` `RwLock`; a deadline | establish, send, receive, public_key, state, terminate | tasks sharing the session; callers that drop futures | three locks in different orders, checks before an await, expiry during a call |
| mdoc channel, `marty-iso18013/src/transport/session_channel.rs` | a session and its transport | connect, send, receive, close | the peer over BLE, NFC or HTTPS | loss, duplication, reordering, reflection, half-done sends, counter exhaustion |
| Signer agent, `marty-test-wallet/src/signer_ipc.rs`, `bin/marty-test-signer-agent.rs` | replay cache of nonces | build, send, verify a request; sign; answer | wallet processes, a KMS | timeouts racing late answers, restarts, the clock, a full cache |
| Chip messaging, `marty-verification/src/chip_io` | session keys, send sequence counter | BAC and PACE handshakes, protected READ BINARY | a chip over a reader | late answers of earlier sessions, counters drifting apart |
| OCSP client, `marty-crypto/src/ocsp.rs` | response cache | check | responders over HTTP | racing checks, stale, foreign and forged answers |
| Trust registries and feeds, `marty-verification/src/trust_anchor`, `pkd` | list of anchors and an index by jurisdiction; an access token | add, remove, clear, synchronise | AAMVA, ICAO and EU lists | positions in the index after a removal, a feed that fails half way |
| Registry synchronisation, `marty-verification/src/trust_sync.rs` | accepted state, token, pages so far | request, page, finish, revalidate, schedule | a registry that publishes meanwhile, caches | pages of different states in one synchronisation, a client that stops between pages |
| Storage opening, `marty-secure-storage` | database key, schema version | open, migrate | OS keychain, a second process | crash between steps, two processes at once |

### Protocols of pure operations

| Part | Operations | What is hard |
|---|---|---|
| OID4VCI issuance (`issuer.rs`, `wallet.rs`, `proof.rs`) | discovery, code grant with PKCE, nonces, holder proofs, credential request | another client and another issuer see codes, challenges and proofs |
| SD-JWT (`formats/sd_jwt.rs`, `wallet_sd_jwt.rs`) | prepare, disclose, bind, verify | presentations taken apart and recombined |
| OpenID4VP and Presentation Exchange (`verifier.rs`, `wallet.rs`, `presentation_request.rs`) | request, submission, evaluation, VP token, ZK challenge | two query languages for one request, indices of a mixed submission, late and repeated answers |
| Certificate chains and CRLs (`verification/chain.rs`, `marty-crypto/src/crl.rs`, `certificate.rs`) | validate a chain, add and build CRLs | namesakes, over-long paths, late or missing revocation data |
| Certificate building (`cert_builder.rs`) | self-signed, issued, requested | what each profile and key type allows |
| Passports (`issuance`, `verification/emrtd.rs`, `active_authentication.rs`, ...) | issue signers, personalise, inspect | copied chips, replayed answers, signers that expire |
| Zones, seals, travel credentials (`mrz`, `vds_nc`, `dtc`) | write, read, check status | check digits, stale evidence |
| Mobile documents (`formats/mdoc.rs`, `selective.rs`, `mdoc`, `verification/mdl.rs`) | prepare, digest, sign, select, check | digests of a batch out of order, changed or mixed items |
| Verifiable credentials and badges (`jwt_vc.rs`, `vcdm.rs`, `open_badges`) | draft, sign elsewhere, verify, cache status lists | caches that outlive what was signed |
| Device keys, attestation, EAC (`device_auth.rs`, `key_attestation.rs`, `eac.rs`) | register, rotate, challenge, attest | a challenge answered after the key was rotated or revoked |
| Keys, tokens, hashes, DIDs (`marty-crypto`, `jwk`, `jose.rs`, `marty-didcomm`) | store, read, sign, encrypt, derive, resolve | a key read back as another, block boundaries, which key of a document may be used |
| Metadata, links, remote signing, logins (`discovery.rs`, `metadata.rs`, `wallet_input.rs`, `remote_credential.rs`, `lti.rs`, `oidc.rs`) | plan, resolve, build; open a link; check a launch | a host that resolves between plan and build, nested links |
| Policies, evidence, governance, flows (`policy`, `evidence_*.rs`, `governance.rs`, `flow.rs`) | decide, project, reconcile, authorise, resume, step | facts out of order, a document changed under a session, submitted graphs |
| Status lists (`marty-status`) | set, get, pack, unpack | widths, byte boundaries |

### What makes each part correct

- *Signing*: each job reaches the signer at most once; the answer depends on the
  batch and not on the schedule; a panic is never swallowed; every batch ends.
- *Trust packages*: a domain never goes back, governs exactly the records of its
  last package, passes only to signers it has named, and short of the largest
  sequence always has one that can continue it; a read fails for no other reason
  than time.
- *Queue*: an event stays until the server has it; batches leave whole or not at
  all; the queue drains.
- *Session and channels*: secrets are gone when Terminated can be read and unused
  after it; every call returns; messages arrive in order and exactly once;
  vectors are never repeated; a file read from a chip is the file on the chip.
- *Signer agent*: a request is signed at most once while the agent runs; nobody
  is kept waiting by a silent connection.
- *Issuance and presentation*: grants and credentials go to the wallet that asked
  and proved its key to this issuer; a verifier accepts what was made for its
  transaction and gets what it asked for, no more.
- *Certificates and registries*: only what an anchor's authority issued is
  accepted; a revocation the data shows is never overlooked; an index agrees with
  its list, and each entry of a copy is one the publisher had.
- *Documents*: a document is accepted exactly if it is genuine, current and, where
  the code asks for it, held by its holder.
- *Decisions*: what is allowed follows from verified facts nothing has replaced,
  under every rule in force, and what follows is allowed.

## Modules and how they correspond to the code

`PROJECT.json` maps the definitions to their lines; a helper whose lines lie inside
those of the operation that uses it has no entry of its own. Actions are named after the
operation they model. Throughout, a signature is the key with what it signs, a
digest is what it digests, an encryption what opens it; encodings are left out
unless a property is about them.

**Signing.** `SigningBatchData` has the inputs, the *fate* of each (good, refused
in preparation, failing or panicking in the signer, bad signature, failing in
assembly) and the error precedence of `PreparedSigningBatch::prepare`.
`SigningContract` is the abstract promise: jobs are called at most once, in any
order, and one answer is given. `SigningBatch` is `ConcurrentEs256SignerScope`:
the calling thread is worker 0, `Spawn` may be refused for any thread, `Claim`
is the critical section of `ConcurrentExecutionState::claim`, a panic unwinds in
two steps between which other workers run, `Join` collects in spawn order,
`Recheck` compares the identity and judges the results. `SerialSigning` is the
default `Es256SignerScope`. Both implement `SigningContract`.

**Storage.** In `TrustPackages` a call is `Submit` (everything before the
connection lock is taken, so the clock may move on) and then `Apply` or `Refuse`
(one immediate transaction, atomic because SQLite rolls an open one back). Calls
with and without a signer policy are one action, since the code runs both
through `apply_trust_package_internal`. `MaxSequence` is the largest sequence the
database's `i64` holds; `validate_open_badge_package` refuses a larger one, so a
domain that stands at it is the one that nobody can move on. `Init` is an empty database or one the
migration has built from pre-release rows. Reads are the predicate
`ReadSucceeds`. In `OfflineQueue` each operation is one transaction; `Stamp` is the
part of the batch operations before the lock, where the time is read. Clients,
their server and crashes are external.

**Sessions and channels.** A step of `MdlSession` is what a task does between two
awaits. The state and agreement locks are variables because they are held across
awaits; the encryption lock never is, so its critical sections are steps.
`Cancel` drops a future: guards are released, what was written stays.
`MdlChannel` composes two peers; its wire is a set that only grows, and any
ciphertext of it may be delivered at any time or never. `ChipMessaging` has the
reader's end of BAC and the compatibility PACE exchange, a chip, and a wire of
the same kind; the byte forms of commands, data objects and padding are computed
with a small byte and block. `SignerIpc` has callers, the agent's loop that takes
one connection at a time, its replay cache, repeated frames, restarts and a
clock that may be set back.

**Certificates.** `CertificateBuilder` makes certificates. `CertificateChains`
validates paths while CRLs and OCSP answers arrive, signed by the authority or by
a responder it appointed, with or without a `nextUpdate`, and judged with the
clock skew; a path length counts for the issuers in the chain, not for configured
ones that are not sent along, as in the code. `OcspClient` is two checks racing
through the cache. `TrustAnchors` has the registries with the AAMVA, ICAO and EU
clients; codes are looked up in upper case and filed as they came, so that an
anchor filed under another spelling is held and not found. `TrustSync` is the
paged synchronisation: each page is of the registry's state at that moment, and
only a sequence that goes down ends it. `StatusLists` is the bit packing.

**Issuance and presentation.** `Issuance` composes wallet, issuer engine and proof
check with another client and another issuer; the host that stores sessions is
external. `SdJwt` follows a credential from preparation to verification.
`PresentationExchange` has submissions and their evaluation, JSON documents being
sets of leaves; `VpTransactions` the requests in both query languages, links, VP
tokens and ZK challenges: a request object may leave any member out, which the
link then supplies, and whoever makes a token declares the keys in it.
`Discovery` is what an issuer publishes, the links a
wallet opens, credentials prepared for a remote signer, and LTI and OIDC logins.

**Documents.** `Passports`, `TravelDocuments`, `MobileDocuments` and
`VerifiableCredentials` each go from the issuer through somebody who may change,
copy, delay or mix to the verifier. The first and third build on
`CertificateBuilder`. Signers, digest executors and devices are external, since the
local issuing functions are compiled for tests only. A travel credential may be
changed in any field, also in ways `normalize_record` undoes. The issuer's chain of
a mobile document is judged as `verify_issuer_trust` does: names, keyCertSign, path
lengths and a signer that is no authority; a last certificate that is its own
issuer must be a root or come with a pinned signer, any other one needs a root
that issued it.

**Keys.** `Keys` (files, raw forms, JWKs, JWS, JWE, remote signers), `SecretHash`
(incremental hashing, HMAC, HKDF, PBKDF2, the concatenation KDF with scaled-down
blocks), `DeviceKeys` (registrations, attestations, and EAC sessions, whose messages
carry no direction), `DidComm`. What is done with a private key is its holder's, who
is external.

**Decisions.** `Policies` is the service kernel with the older evaluator projected
onto it, `Evidence` facts, heads and approvals, `Governance` documents
and sessions, `Flow` graphs and statuses.

**Proof modules.** `SigningBatchProofs` and `TrustPackagesProofs` extend the module
they are about. `MdlProofs` extends `MdlSession` and instantiates `MdlChannel`; the
run `channels` checks the channel in it. `RevocationProofs`, `ProtocolProofs` and
`DecisionProofs` extend `MCRevocation`, `MCProtocols` and `MCDecisions`, which
instantiate the components they cover; their theorems are about the components' own
specifications or about the choice between them, and hold for any constants.
`OfflineQueue` and `SignerIpc` end with their own proofs.

**MC modules.** `MCSigning`, `MCTrustPackages`, `MCProtocols`,
`MCCredentials`, `MCRevocation`, `MCDocuments` and `MCDecisions` give the constants
their values. Those that bring several components into one run pick one of them
in the initial state; the properties named `...Hold`, `...Fit` and the like are the
conjunction of that component's own properties, each stated and explained in its
module.

## Runs

| Run | Instance | Shows |
|---|---|---|
| `signing` | up to 3 jobs of every fate on 3 workers, refused threads, drift; the serial scope on the same batches | at most one call per job, one answer for every schedule, both scopes implement `SigningContract`, every batch ends |
| `trust_packages` | one domain under 54 packages (3 signers, 6 policies, 3 sequences); two domains wanting the same records, 2 calls at once, 4 clock values, skew 1 | policies stay valid, nobody is locked out short of the largest sequence, control passes only as announced, replacement is exact, rows advance, reads fail only on time, the audit log is true |
| `offline_queue` | 3 events, 2 clients, batches of 2, one failure or crash | nothing lost, whole batches, the queue empties |
| `mdl_session` | 2 tasks, counters up to 2, with and without dropped futures | secrets, deadline, termination; every call returns |
| `channels` | 2 messages and counters up to 3 between mdoc peers | unique vectors, ordered exactly-once delivery |
| `mdl_channel_doc` | 1 message, counter up to 1 | expected violation, see below |
| `signer_ipc` | 3 callers (one with another key), cache of 2, one repeated or silent connection, restart or clock set back | one signature per request while the agent keeps running; every connection is taken |
| `protocols` | 2 PKCE verifiers and nonces; requests of 1 and 2 credentials and 2 OpenID4VP transactions; 2 SD-JWT issuers, holders and audiences; governance documents that change; graphs of 3 steps and transitions; 2 handshakes beyond the first and 4 start counters with a chip | grants and bindings, both queries ask alike, answers belong to their transaction, SD-JWTs show what their holder chose, resumption is authorised, no step repeats, faithful reads, command and answer bytes of every length read back as written |
| `credentials` | 6 key types; hashes of up to 13 units; DIDs; metadata and links up to 3 wrappers | keys kept, offers that can be followed, remote and platform checks that hold |
| `revocation` | 13 certificates, genuine and not, under 4 configurations, with 2 CRLs or OCSP answers, a delegated responder among them; 2 concurrent OCSP checks; 2 anchors under codes in both cases; 3 sequences of a registry in pages of 1; lists of every width | only issued chains are accepted, revocations surface, registries find what they hold, copies hold what was published, statuses do not touch each other |
| `documents` | 2 signers, 2 passports, 3 days; zones of each format over 6 kinds of characters; travel credentials with any field changed; 2 documents in a request, chains through an authority below a root, pinned and not; orders for nobody; lists that live 2 days | documents are accepted just when genuine |
| `decisions` | up to 2 credentials against every limit, list and constraint of a policy; 3 facts in any order; definitions of 1 to 3 descriptors with optional, filtered, repeated and ZK fields | decisions are justified, approvals rest on current facts, answers fit their definition |

**Why the bounds are enough.** Three jobs on three workers let one worker fail,
one panic and one succeed in every order, with another not started. Three
sequences are a bootstrap, a change of signer and a change back. Two domains and
two concurrent calls are what it takes for a race over one record. Three events
and a batch of two give overlapping batches of exactly the maximum size. Two
tasks put one inside a lock and one in front of it, and a task's calls can be
repeated without end. Counters reach their limit in every run that has them, one
validity period is shorter than the clock in every run that has one, and every
actor that may be confused with another (issuer, holder, key, nonce,
transaction) is there twice. `Explored` in `Passports` keeps apart dimensions that
do not interact: changed chips and active authentication on the first day and
without revocation lists, which neither reads. `MaxTime`, `MaxInflight`,
`MaxTroubles`, `MaxExtra`, `MaxPosts`, `Horizon` and the like bound the environment
only.

Deadlock is checked for `signing`, `mdl_session` and `mdl_channel_doc`. Elsewhere the
system really may stop: after the last package, with an empty queue, when the
clock is at its bound or when a document has been read.

**Fairness.** `SigningBatch!FairSpec` and `MCSigning!ScopesSpec`: weak fairness of each thread; the
operating system schedules threads, and the code waits for signer calls without
a timeout, so a signer that never returns is excluded. `OfflineQueue!FairSpec`:
each client keeps running its cycle; failed uploads and crashes are bounded by
`MaxTroubles`, since a server that refuses for ever never empties a queue.
`MdlSession!FairSpec`: strong fairness of each task, because tokio's `RwLock`
queues its waiters in order, so a lock released again and again is granted.
`SignerIpc!Spec`: weak fairness of the agent's loop, whose every wait has a
timeout. Nothing is assumed of drift, deadlines, cancellation, callers or
transports, nor anywhere else.

**A disagreement with the documentation.** `session_channel.rs` says that any
send or receive failure terminates the session. `send` returns the error of
`send_encrypted` at once, so a message over the size limit or an exhausted
counter leaves the session established. `mdl_channel_doc` shows the two-step
history. The channel's guarantees (`channels`) do not depend on it: no counter is
consumed by a refused send.

## Proofs

The theorems hold for every value of the constants that satisfies the module's
`ASSUME`s (`MCProtocols`, `MCRevocation` and `MCDecisions` assume what the components
they instantiate need, and TLC evaluates it on their instances): any batch, worker
limit, set of packages, domains, clients, events, messages, certificates, feeds,
policies, facts, definitions, graphs, and any width of bytes and counters.

What is computed element by element is written as a recursive function, not with
`RECURSIVE`. The library's induction theorems cannot be instantiated here, so such a
function is reasoned about through a least counterexample: a set of numbers that is
not empty has a least element (`Least`, from `WFMin`), so a set with 0 that is closed
under the successor up to `n` holds everything up to `n` (`UpTo`). That the recursion
has a solution is proved first, by giving one for each length.

- **`SigningBatchProofs`**: type correctness, `SignedAtMostOnce`,
  `JoinedBeforeReturn`, `PanicSurfaces`, `ScheduleIndependent`, and the refinements
  of `SigningContract` by the concurrent and by the serial scope. The invariant
  adds that exactly the jobs below the counter were called (`CallsFollowCounter`),
  that a worker in the signer holds a claimed job (`JobsClaimed`), which workers
  can be running in each phase of the caller (`PoolShape`) and that a panic is
  either on its way or recorded (`PanicTracked`). `JoinedBeforeReturn` is not
  inductive alone: it needs that every running worker has a handle still to be
  joined. For the answer, a second invariant says where the result of each called
  job is (still with its worker, or collected) and that short of a panic none is
  missing when the results are judged; the lowest failing ordinal is then the
  batch's own. The refinement maps every step of threads, counter and joins to a
  signer call, the return, or a stutter; the serial scope stops only at the job
  that decides the answer.
- **`TrustPackagesProofs`**: type correctness, `PoliciesStayValid`,
  `GovernedSetExact`, `RowsAdvance`, `SignerLineage`, `DomainsIsolated`, and
  `StaysUsable`, that is `NeverLockedOut`, `ReadsFailOnlyOnTime` and `AuditFaithful`.
  The invariant adds what the checks before the lock established about waiting
  calls (`RequestsValidated`), without which a committed policy could be invalid,
  and that committed sequences are positive. `NeverLockedOut` is shown by giving
  the package that each signer of a domain could send next, which exists
  while the row's sequence is below the largest; it needs that there
  is more than one version and more than one digest (`TrustAssumption`). The audit
  log needs that every committed row is in it.
- **`OfflineQueue`**: `NothingLost`, `StatusConsistent`, `WholeBatches`. The
  invariant adds that the batch of a client that was told "accepted" has been
  received, which is what makes removing it safe.
- **`MdlProofs`**: of the session, type correctness with the width of the counters,
  `TerminatedIsCleared`, and `NoUseAfterEnd` as an action property. The invariant
  says which guards a task holds between which awaits, what the state is under
  the guard, that nothing was derived before establishment, and what the steps of
  a termination have cleared so far. After the deadline the only install that can
  still follow starts from counters that are zero. Of the channel,
  `InOrderExactlyOnce`, `VectorsUsedOnce`, `FailedReceiveIsFinal`: the
  invariant adds that a receive counter is the number of messages delivered
  and that a channel with a failed receive is closed. With unique vectors, the
  ciphertext that authenticates is the next message sent.
- **`SignerIpc`**: `SteadySignsOnce` and the bound of the replay cache. A nonce that
  was signed is in the cache, or its request is too old ever to be accepted again
  (`CachedOrStale`): the pruning of `ReplayCache::accept` and the freshness window
  use the same limits, and a steady clock does not go back.
- **`RevocationProofs`**: `OnlyIssuedAccepted`: a chain that validates is signed by
  owned keys from end to end. Were it not, the break nearest the anchor would be
  the signature of an authority whose key is not owned; such an authority exists
  only below a path length of zero, which the chain check counts
  (`NoneBelowZero`) unless the one with that path length is configured and not in the
  chain, the case the property excepts (`PathLengthUncounted`). Assumed
  (`AuthorityAssumption`): what an operator configures as anchor or intermediate is
  an authority, since `validate_chain` checks constraints only of the certificates in
  the chain, and authorities, configured or not, certify no key but another
  authority's as an authority unless a path length of zero rules it out.
  `RevocationSurfaces` of the whole run, that is of chains and
  of the caching OCSP client. Lists and answers tell of every revocation made
  before they were (`ListsTell`, `AnswersTell`), a responder that is accepted is the
  authority or one it appointed (`ResponderIsNotForeign`), and an answer is accepted
  no longer than `LongestList` after it was made, with or without a `nextUpdate`
  (`GoodByAnswer`); what the client holds is honest and
  what it returns was in time when it was looked at (`Held`, `InTime`), although
  old responses come again and slow calls overwrite the cache. Assumed of the
  parties (`CertificateAssumption`, `AnchorAssumption`, `DelegateAssumption`,
  `ResponderAssumption`): an authority's and its delegated responders' keys are not
  the forger's, and no end-entity certificate is configured as an anchor.
  `StatusesIndependent` for status lists of any
  size: the invariant covers the whole capacity of the bytes, with zeros beyond
  the end, because a list may come back with a larger size in as many bytes; per
  width, a write changes only its own place of a byte. `RegistryFaithful`, in two
  halves. A registry finds what it holds and an update reports what it did:
  its index is the one its list would be given anew (`Indexed`), which each way of
  filling it keeps (`WalkFinds` for the walk over a feed, the lemmas on `InOrder` for
  the positions under one jurisdiction), and the outcome of the last feed is found
  under its names (`OutcomeFound`). The first is of the IACA and CSCA registries, whose
  lookups use the code in upper case; the EU registry's `remove_anchor` leaves its
  index as it was, and of it only the second is claimed. Of a synchronised copy, each
  entry is what the publisher had of it at a sequence from that of the first page to
  that of the last (`StoredFaithful`): every page tells what the publisher had at its own
  sequence (`Tells`), sequences do not go down, and what no page names has not changed
  since the state the token started from (`PagesTell`), whatever the publisher changes
  between two pages. Where all pages are of one state the copy is that state. Assumed
  (`SyncAssumption`, `FeedAssumption`): a registry has finitely many ids, a page holds at
  least one entry, feeds are sequences of entries in the form their parsers give
  them, and upper case of upper case is the same.
- **`ProtocolProofs`**:
  - `GrantsHold`: the wallet's verifier stays hidden. Its sessions carry only the
    hash, nobody's challenge is the verifier itself, and the server it talks to
    is the issuer's (`VerifierHidden`, `WalletAtHome`).
  - `BindingsHold`: a proof under the wallet's key is one the wallet made for this
    issuer's audience (`WalletProof`), so a relayed one is refused.
  - `BoundToTransaction`: posted answers match the request the wallet understood
    (`PostsMatch`), what a fetched request object says wins over its link, member by
    member (`FetchedObjectWins`), the signature is checked with the first key the
    token declares, and a used ZK challenge stays used (`ZkUsed`). That this key is
    the holder's of a credential is not what `verify_vp_token` shows, and not claimed.
  - `SdJwtsHold`: hidden is exactly what was selected and is there, also when the
    selection repeats a name (`HiddenIsSelected`, from the existence of a first
    place), a credential is what its issuer was asked for (`CredentialsAsAsked`), and
    every key binding hashes the presentation it was made for (`ShownAsPrepared`),
    so of what is recombined only the original passes.
  - `ResumedIsAuthorised`: a document in force has passed `parse_governance`, and what
    `resume` returns is that document's word, whatever the snapshot says.
  - `NoStepTwice`: validation keeps the steps that can be peeled off from the end of
    the graph. `Peeled` is written as the least set closed under that rule, of
    which it follows that no peeled step is ahead of itself (`PeeledIsAcyclic`); in a
    trail every later step is ahead of every earlier one.
  - `QueriesAgree`: whatever is built agrees (`ArtifactsAgree`). Each entry of the
    definition and of the DCQL query comes from one requirement and asks for its
    format, type and claims (`EntryAgrees`, `ClaimsAgree`); the formats selected of a
    wallet's list are all of one family (`SelectedOfOneFamily`), so that the one format
    a DCQL entry names stands for them. Assumed (`RequirementAssumption`): what
    requirements and wallets list are sequences.
  - `ReadIsFaithful`: an authentic response answers a command with the
    session's keys at its counter (`Answered`), keys of two handshakes differ
    because the reader's nonce does (`Fresh`), and the command at the counter is
    the next one to be read (`Latest`); the commands still to come begin where the
    bytes read end and cover the rest (`Covers`, from `CommandsCover`).
  - `WireFormsHold`: the invariant says what the bytes are at each step (`WireInv`).
    `DecodeEncode` shows that `from_bytes` reads what `to_bytes` writes in each of the
    short and extended forms; `TlvReads` that an object is read where it starts,
    with one, two or three length bytes; `ObjectsDefined` that a message has a list of
    objects, since each starts after the one before (`NextGoesOn`); `UnpadPad` that
    padding is undone; and `CutIsBroken` that the last object, cut short, is none.
    Assumed (`WireAssumption`, which 256, 8 and 65511 satisfy): a byte is even and
    above 4, a MAC's length is one byte, and the largest data, padded, leaves
    room for the objects around it, which is what `MAX_BAC_COMMAND_DATA_BYTES` is for.
- **`DecisionProofs`**:
  - `DecisionsJustified`: an answer is to the request that was asked
    (`AnswerIsToRequest`). A candidate without errors fits under the reference
    definition, and one that fits has none, claim constraints, formats, issuer lists,
    ages and revocation grace included (`NoErrorsFit`, from a lemma for each group of
    errors); the same for the presentation as a whole (`NoWholeErrors`). So what the
    kernel allows satisfies its requirements and alternatives, and a request that has
    all that and no conflicting claims is allowed. The disclosure the older evaluator
    computes is enough, and it agrees through its projection. Assumed
    (`PolicyAssumption`, `RequestAssumption`, `LegacyAssumption`): lists are finite, ages
    and days are numbers.
  - `ApprovalBacked`: a plan was made on facts that arrived, and one that
    approves on facts read afresh had them allowed (`PlanRestsOnFacts`). The heads
    that `current_heads` folds out of the facts, in any order of arrival, are those
    nothing has superseded. Assumed (`FactAssumption`): the times
    and ids of facts are numbers.
  - `AnswersFit`: what passed was judged on the definition it was asked with
    (`AnswerIsJudged`); a structure that is valid maps each descriptor once, and the
    fields and the limit on disclosure are looked up where the mapping leads.
    Assumed (`ExchangeAssumption`): the types of definitions, chains of
    mappings and leaves.

Only model-checked:

- liveness (`Terminates`, `Drains`, `CallsReturn`, `ConnectionsServed`), which is out of
  the prover's reach;
- `OffersHold`, whose module `Discovery` has `RECURSIVE` operators (links within
  links), which a module with a theorem cannot reach, and `KeysAreKept`, which the
  same run checks;
- the properties of documents (`TravelDocumentsHold`, `MobileDocumentsHold`,
  `VerifiableCredentialsHold`), which relate what one reader accepts to what an
  issuer made in a world whose documents are given by the instance.

## Worth a reader's attention

Behaviour met while modelling. The models have it where they cover the code; it
breaks none of the properties.

- Signing and storage: a domain whose sequence is `i64::MAX` takes no further package
  (`database.rs:1557`); a nonce accepted before an agent restart is accepted again
  within the clock skew (`signer_ipc.rs:212`); two processes that find no key each
  store one (`keychain.rs:77`); a domain migrated without an expiry refuses
  every later package (`database.rs:588`); `update_sync_state` replaces the
  whole row (`database.rs:1082`); a `terminate` dropped at its first await leaves
  Terminated visible until another call clears the keys (`protocol.rs:416`).
- Passports and zones: data groups 17 to 20 can be personalised
  (`issuance/mod.rs:285`) and the parser refuses them (`sod.rs:205`); an integrity
  report may be valid and carry an algorithm error (`passport_integrity.rs:267`); a
  TD3 zone may have `<` as a check digit (`mrz/parser.rs:217`); a travel credential
  whose date has an unknown form is not checked against it (`dtc/mod.rs:1195`).
- Mobile documents: a digest that is wrong under the right identity is signed as it
  came (`mdoc.rs:961`); a pinned signer certificate sent without its root is refused
  unless it is its own issuer (`authentication.rs:497`); a validity below one day
  becomes zero (`mdoc.rs:1092`); EdDSA and ES384 documents can be prepared and are
  refused when checked (`authentication.rs:397`); a signer certificate of the builder's end-entity
  profile also has nonRepudiation, and the check wants digitalSignature alone
  (`mdl.rs:94`).
- Credentials and DIDs: a badge issued to nobody is refused as a badge
  (`jwt_vc.rs:327`, `:452`), and a JWT credential that says nothing, or whose
  subject is not its holder, is refused by the verifier; a holder key given for
  remote preparation need have nothing to do with the subject
  (`remote_credential.rs:600`); an Open Badge 2 whose `verification` was added after
  signing differs from its payload (`ob2.rs:332`); a credential issued to expire at
  once never verifies (`vcdm.rs:1329`); the methods of a `did:peer:0` document keep
  their `did:key` ids (`did_resolver.rs:522`), and those of `did:peer:2` are named by
  the first 16 characters of the key (`:554`); an EAC message sent back to its sender
  is accepted in its place (`eac.rs:373`).
- Registries: a CSCA filed under a code not in upper case is never found
  (`csca.rs:81`), a directory of lower-case file names among them; the EU registry's
  removal leaves its index (`eudi.rs:368`); pages of rising sequences are merged into a
  copy that need not have been the publisher's at any one moment
  (`trust_sync.rs:736`); the AAMVA token is fetched once and never renewed
  (`aamva_dts.rs:152`); withdrawn EU services are taken (`eudi_lotl.rs:301`); one
  expired stored entry stops every later synchronisation (`trust_sync.rs:806`).
- Certificates and logins: the path length of a configured anchor or intermediate
  that is not sent along is not counted (`chain.rs:579`); an engine whose types have
  no format offers a default configuration that it refuses to issue
  (`metadata.rs:219`); `build_signed_by` takes a key that need not belong to
  the issuer's certificate (`cert_builder.rs:411`); a platform's host is resolved
  again after it was checked (`lti.rs:294`); of two JWKs with one `kid` the first is
  used (`lti.rs:652`).

## Plan

1. The documents' invariants as theorems: what an issuer made, followed to what a
   reader accepts, for any documents.
2. An abstract first-in first-out link that `MdlChannel` implements.
3. `StorageOpening`: keychain, schema, migration and version row with crashes and
   a second process.
4. The pre-authorized grant, self-issued identities and the remaining caches of
   the registries.

## Not modelled

- Storage opening beyond what migration leaves in the trust tables, and the
  history and license rows: single statements under the connection lock.
- The test wallet's command line, transports' own I/O and the thin mdoc
  applications; `MdlChannel` takes any behaviour of a transport.
- BBS signatures, biometrics and zero-knowledge proofs: numerical or algebraic
  code over native runtimes. Where a protocol uses a proof, the protocol is
  modelled (`VpTransactions`).
- Self-issued identities, error construction, bindings, adapters and shared types.
- Encodings and cryptographic primitives, except the byte forms `ChipMessaging`,
  `StatusLists`, `SecretHash` and `TravelDocuments` compute. Code compiled for tests
  only (the full PACE session, local issuing functions) is not modelled either.
