------------------------------ MODULE MCProtocols ------------------------------
(* Protocols of several messages, one per behaviour. An issuance with two      *)
(* verifiers, two nonces and keys of two types. OpenID4VP transactions with    *)
(* two nonces, links that mix up parameters, and a clock that may go back.     *)
(* SD-JWT credentials with selections that repeat a name, name a missing claim *)
(* or a managed one, presented to two audiences and recombined on the way.     *)
(* Verification sessions governed by a document that changes under them, and   *)
(* flows over submitted graphs. A passport chip read over BAC or PACE, where   *)
(* of the ranges one is shorter than two commands and one beyond the           *)
(* addressable offsets and two of the four first counters are close to the     *)
(* limit, and commands on their way through the encodings.                     *)
EXTENDS Issuance, TLC

CONSTANTS
    Inputs, Params, Carried, DeclaredKeys, Namespaces, Leeway, TokenLife, NonceMaxAge, MaxPosts, Horizon,      \* VpTransactions
    Issuers, Holders, Audiences, Challenges, ClaimNames, Selections, Window,
    MaxCredentials, MaxShown,                                                           \* SdJwt
    GovernanceDocuments, ApiKeys, GovernedRequests,                                     \* Governance
    Steps, Outcomes, Graphs, MaxSteps, MaxTransitions,                                  \* Flow
    Runs, Half, Chunk, Capacity, Reads, Byte, Block, MaxBacData, Les                    \* ChipMessaging

VARIABLES
    topic,                                                                              \* what this behaviour is about
    clock, artifacts, link, parsed, posts, accepted, challenges, zkProofs, confirmed,   \* VpTransactions
    day, requests, credentials, shown, taken,                                           \* SdJwt
    document, frozen, verified,                                                         \* Governance
    graph, step, status, trail,                                                         \* Flow
    proto, handshake, session, chip, drawn, auths, cmds, resps, todo, got, range, apdu  \* ChipMessaging

OneInput == {[requirements |-> <<[id |-> "a", formats |-> <<"jwt_vc">>, type |-> "mdl", vct |-> None, doctype |-> None,
                                 claims |-> <<>>, mdoc |-> <<>>]>>, wallet_formats |-> <<"jwt_vc">>]}

Vp == INSTANCE VpTransactions WITH now <- clock, proofs <- zkProofs
One == INSTANCE VpTransactions WITH now <- clock, proofs <- zkProofs, Inputs <- OneInput
Sd == INSTANCE SdJwt WITH Verifiers <- Audiences, Nonces <- Challenges, Names <- ClaimNames, now <- day, accepted <- taken
Governed == INSTANCE Governance WITH Documents <- GovernanceDocuments, Keys <- ApiKeys,
                                     Requests <- GovernedRequests
Flows == INSTANCE Flow
Chip == INSTANCE ChipMessaging

ASSUME DurationAssumption == Vp!TransactionAssumption
ASSUME InputAssumption == Vp!RequirementAssumption
ASSUME SelectionAssumption == Sd!SdJwtAssumption
ASSUME GraphAssumption == Flows!FlowAssumption
ASSUME LimitAssumption == Chip!ChipAssumption
ASSUME WireLimits == Chip!WireAssumption

vpVars == <<clock, artifacts, link, parsed, posts, accepted, challenges, zkProofs, confirmed>>
sdVars == <<day, requests, credentials, shown, taken>>
governanceVars == <<document, frozen, verified>>
flowVars == <<graph, step, status, trail>>
chipVars == <<proto, handshake, session, chip, drawn, auths, cmds, resps, todo, got, range, apdu>>

NoGovernance == document = None /\ frozen = None /\ verified = Governed!Nothing
NoFlow == graph = None /\ step = None /\ status = None /\ trail = <<>>

MCInit ==
    /\ Init /\ Vp!Init /\ Sd!Init /\ Chip!Init
    /\ \/ topic = "issuance" /\ NoGovernance /\ NoFlow
       \/ topic \in {"build", "token", "zk", "sd-jwt"} /\ NoGovernance /\ NoFlow
       \/ topic \in {"chip", "wire"} /\ NoGovernance /\ NoFlow
       \/ topic = "governance" /\ Governed!Init /\ NoFlow
       \/ topic = "flow" /\ NoGovernance /\ Flows!Init
    /\ topic \notin {"chip"} => proto = "bac"

MCNext ==
    /\ \/ topic = "issuance" /\ Next /\ UNCHANGED <<vpVars, sdVars, governanceVars, flowVars, chipVars>>
       \/ topic = "build" /\ Vp!Publish /\ UNCHANGED <<vars, sdVars, governanceVars, flowVars, chipVars>>
       \/ topic = "token" /\ One!VpNext /\ UNCHANGED <<vars, sdVars, governanceVars, flowVars, chipVars>>
       \/ topic = "zk" /\ Vp!ZkNext /\ UNCHANGED <<vars, sdVars, governanceVars, flowVars, chipVars>>
       \/ topic = "sd-jwt" /\ Sd!Next /\ UNCHANGED <<vars, vpVars, governanceVars, flowVars, chipVars>>
       \/ topic = "governance" /\ Governed!Next /\ UNCHANGED <<vars, vpVars, sdVars, flowVars, chipVars>>
       \/ topic = "flow" /\ Flows!Next /\ UNCHANGED <<vars, vpVars, sdVars, governanceVars, chipVars>>
       \/ /\ topic = "chip" /\ (Chip!ReaderStep \/ Chip!ChipStep)
          /\ UNCHANGED <<vars, vpVars, sdVars, governanceVars, flowVars>>
       \/ topic = "wire" /\ Chip!WireStep /\ UNCHANGED <<vars, vpVars, sdVars, governanceVars, flowVars>>
    /\ UNCHANGED topic

MCSpec == MCInit /\ [][MCNext]_<<topic, vars, vpVars, sdVars, governanceVars, flowVars, chipVars>>

\* The two query languages of one request ask for the same credentials and
\* claims (verifier.rs, build_presentation_artifacts).
QueriesAgree == Vp!QueriesAgree

\* What is accepted for a transaction was made for it, whichever link led
\* there, and a ZK proof counts once, in time (verifier.rs, wallet.rs).
BoundToTransaction == Vp!BoundToTransaction

\* Claims stay hidden until their holder shows them, a verifier accepts what it
\* was shown and its issuer certified, and what a wallet prepares is accepted
\* (formats/sd_jwt.rs, wallet_sd_jwt.rs).
SdJwtsHold == Sd!HiddenUntilShown /\ Sd!AcceptedAsShown /\ Sd!PreparedIsAccepted

\* A session resumed from its snapshot has only rights its client still has
\* (governance.rs).
ResumedIsAuthorised == Governed!ResumedIsAuthorised

\* A flow that validated never takes one step twice (flow.rs).
NoStepTwice == Flows!NoStepTwice

\* What has been read from the chip is a beginning of the range asked for, and
\* all of it once no command is left: no response is taken for another
\* command's or from another session, however responses are delayed or
\* repeated; the keys of a BAC session are those of a chip that answered this
\* handshake; and a rejected response costs nothing, the chip's answer to the
\* last command is still accepted after it (chip_io, BacSession and
\* build_read_binary_commands).
ReadIsFaithful == Chip!ReadIsFaithful /\ Chip!SessionIsShared /\ Chip!AnswerStaysAcceptable

\* Every command and every answer is read off the wire as it was put on it, at
\* every length of its data and of its objects (chip_io, ApduCommand,
\* push_ber_tlv and next_ber_tlv, protect_command and unprotect_response).
WireFormsHold == Chip!WireFormsHold

-----------------------------------------------------------------------------
(* Issuance.                                                                *)

MCAlgs == [k \in {"wallet", "stranger"} |-> IF k = "wallet" THEN "ES256" ELSE "EdDSA"]
MCHolderKid == <<"did", "wallet">>

\* Proofs of the other client that name the wallet's key, its own, or both.
MCHeaders ==
    {h \in [typ : {TRUE}, kid : {None, <<"0">>, <<"did", "wallet">>}, jwk : {None, "wallet", "stranger"},
            secret : {FALSE}, attestation : {None, <<"wallet">>, <<"wallet", "stranger">>},
            iss : {None, <<"did", "wallet">>}] :
        h.kid = None \/ h.jwk = None}

Perms == Permutations(Verifiers) \cup Permutations(Nonces)

(* Requirements of a verifier, and links.                                   *)
Claim(name, required) == [name |-> name, required |-> required]
Needed(id, formats, type, vct_, claims, mdoc) ==
    [id |-> id, formats |-> formats, type |-> type, vct |-> vct_, doctype |-> None, claims |-> claims, mdoc |-> mdoc]
Mapping(names) == [n \in names |-> <<"ns", n>>]
Wanted == {Needed(i, <<f>>, t, vct, c, m) :
              i \in {None, "a"}, f \in {"mdoc", "vc+sd-jwt", "jwt_vc", "odd"}, t \in {None, "open_badge", "mdl"},
              vct \in {None, "urn"}, c \in {<<Claim("x", TRUE), Claim("y", FALSE)>>, <<Claim("x", FALSE)>>},
              m \in {Mapping({"x", "y"}), Mapping({"y"})}}
MCInputs ==
    {[requirements |-> rs, wallet_formats |-> <<"jwt_vc_json", "mso_mdoc", "dc+sd-jwt", "sd_jwt_vc">>] :
        rs \in {<<r>> : r \in Wanted}
              \cup {<<Needed("a", <<"mdoc">>, "mdl", None, <<Claim("x", FALSE)>>, Mapping({"x"})), r>> :
                        r \in {s \in Wanted : s.type = "mdl" /\ s.vct = None}}}
Inline(keys, n) ==
    [k \in keys |-> CASE k = "client_id" -> "other" [] k \in {"response_uri", "redirect_uri"} -> "elsewhere"
                       [] OTHER -> n]
\* Objects that say all, that name no response_uri or no DCQL query of their
\* own, and one that leaves the nonce to the link.
MCCarried ==
    {{"client_id", "nonce", "response_uri", "dcql_query"},
     {"client_id", "nonce", "redirect_uri", "presentation_definition"},
     {"client_id", "response_uri", "dcql_query"}}
\* The holder's tokens, one under a key of somebody else beside the holder's
\* confirmation key, and one that another signed.
Keys(header, cnf, sub, signer) == [header |-> header, cnf |-> cnf, sub |-> sub, signer |-> signer]
MCDeclared ==
    {Keys(None, "holder", None, "holder"), Keys("other", "holder", None, "other"),
     Keys(None, None, "holder", "other"), Keys(None, None, None, "holder")}
MCParams ==
    {("request_uri" :> u) @@ Inline(ks, m) : u \in [for : Nonces, carries : MCCarried], m \in Nonces,
        ks \in {{"state"}, {"nonce", "client_id", "response_uri"}, {"nonce", "redirect_uri", "dcql_query"}}}
    \cup {("client_id" :> c) @@ ("response_uri" :> "verifier") @@ Inline({"nonce", "dcql_query"} \cup ks, n) :
              c \in {"verifier", "other"}, n \in Nonces, ks \in {{}, {"state"}}}
    \cup {k :> u : k \in {"presentation_definition_uri", "link"}, u \in [for : Nonces, carries : MCCarried]}
    \cup {"nonce" :> n : n \in Nonces} \cup {"dcql_query" :> "garbled"}

(* What an issuer is asked to hide.                                         *)
MCSelections == {<<>>, <<"a", "a", "b">>, <<"b">>, <<"vct">>}

(* Governance: documents that differ in what a policy says.                 *)
Digest(content) == <<"sha256", content>>
AllPurposes == {"verification.session.create", "verification.direct", "verification.vds-nc"}
PolicyProfile(org, verifier, checks) ==
    LET content == [verifier |-> verifier, definition |-> Digest("d"), checks |-> checks] IN
    [org |-> org, id |-> "p", version |-> 1, digest |-> Digest(content), content |-> content]
TrustProfile(org, issuers) ==
    LET content == [issuers |-> issuers, fallback |-> FALSE] IN
    [org |-> org, id |-> "t", version |-> 1, digest |-> Digest(content), content |-> content]
Client(id, key, org, purposes) ==
    [id |-> id, key |-> Digest(key), org |-> org,
     purposes |-> [u \in purposes |-> [policy |-> "p", trust |-> "t"]]]
AllChecks ==
    <<"presentation.structure", "presentation.proof", "credential.proof", "issuer.trust", "credential.status",
      "holder.binding", "transaction.binding", "claim.constraints">>
VdsChecks == SubSeq(AllChecks, 3, 4)
MCGovernanceDocuments ==
    {[component |-> [id |-> "marty-credentials", adapter |-> "verification-service"],
      policies |-> <<PolicyProfile("A", v, c), PolicyProfile("B", v, AllChecks)>>,
      trust |-> <<TrustProfile("A", i), TrustProfile("B", <<1>>)>>,
      clients |-> <<Client("c1", "k1", org, u), Client("c2", "k2", "B", AllPurposes)>>] :
        v \in {"v1", "v2"}, c \in {AllChecks, VdsChecks}, i \in {<<1, 2>>, <<2, 1>>, <<2>>},
        org \in {"A", "B"}, u \in {AllPurposes, {"verification.vds-nc"}}}
MCGovernedRequests == {[verifier |-> v, definition |-> d] : v \in {"v1", "v2"}, d \in {"d", "e"}}

(* Flows: graphs of up to three transitions over three steps.               *)
Arrows == {[from |-> x, outcome |-> o, to |-> y] : x, y \in {"a", "b", "c"}, o \in {"success", "failure"}}
MCGraphs ==
    {[entry |-> "a", steps |-> s, transitions |-> <<[from |-> "a", outcome |-> "success", to |-> "b"]>> \o t] :
        s \in {<<"a", "b", "c">>, <<"a", "b">>, <<"b", "c">>, <<"a", "b", "a">>},
        t \in UNION {[1 .. n -> Arrows] : n \in 0 .. 2}}

MCReads == {<<1, 3>>, <<0, 0>>, <<6, 4>>}
=============================================================================
