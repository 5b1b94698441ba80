----------------------------- MODULE MCCredentials -----------------------------
(* Instances for TLC, one part per behaviour. The keys credentials rest on: a  *)
(* device's, those read, written and used for tokens, what is hashed and       *)
(* derived, and the keys messages between DIDs are sealed to; and what an      *)
(* issuer publishes of itself and how a wallet comes to it.                    *)
EXTENDS Integers, Sequences, FiniteSets, TLC

CONSTANTS
    None,
    LastMoment, Grace, ChallengeLife, AttestationAge, StatusAge, MaxCounter,                        \* DeviceKeys
    Types, MaxExtensions, MaxJson,                                                                  \* Keys
    MaxMessage, MaxOutput, MaxBlocks,                                                               \* SecretHash
    MaxDepth, MaxSize, MaxRecipients,                                                               \* DidComm
    MaxWrapperDepth, MaxWraps                                                                       \* Discovery

VARIABLES
    part,                                                       \* what this behaviour is about
    topic, answer, verdict,                                     \* of a part about keys
    moment, keys, active, challenges, policy, revoked, eac,     \* DeviceKeys
    origin, misnamed, secret, public, token, session,           \* Keys
    hash, fed, output,                                          \* SecretHash
    config, served, who, docs, envelope,                        \* DidComm
    matter, given, plan, resolved, published, got               \* Discovery

Devices == INSTANCE DeviceKeys WITH MaxAge <- AttestationAge
KeyUse == INSTANCE Keys
Hashing == INSTANCE SecretHash WITH MaxCounter <- MaxBlocks
Dids == INSTANCE DidComm
Offers == INSTANCE Discovery

deviceVars == <<moment, keys, active, challenges, policy, revoked, eac>>
keyVars == <<origin, misnamed, secret, public, token, session>>
hashVars == <<hash, fed, output>>
didVars == <<config, served, who, docs, envelope>>
offerVars == <<matter, given, plan, resolved, published, got>>

\* The state of a part about keys in a behaviour about another
Unused == "unused"
NoDevice == moment = Unused /\ keys = Unused /\ active = Unused /\ challenges = Unused /\ policy = Unused /\ revoked = Unused /\ eac = Unused
NoKey == origin = Unused /\ misnamed = Unused /\ secret = Unused /\ public = Unused /\ token = Unused /\ session = Unused
NoHash == hash = Unused /\ fed = Unused /\ output = Unused
NoDid == config = Unused /\ served = Unused /\ who = Unused /\ docs = Unused /\ envelope = Unused
NoOffer == matter = Unused /\ given = Unused /\ plan = Unused /\ resolved = Unused /\ published = Unused /\ got = Unused

MCInit ==
    \/ part = "device" /\ Devices!Init /\ NoKey /\ NoHash /\ NoDid /\ NoOffer
    \/ part = "keys" /\ KeyUse!Init /\ answer = Unused /\ NoDevice /\ NoHash /\ NoDid /\ NoOffer
    \/ part = "hash" /\ Hashing!Init /\ topic = Unused /\ verdict = Unused /\ NoDevice /\ NoKey /\ NoDid /\ NoOffer
    \/ part = "did" /\ Dids!Init /\ topic = Unused /\ verdict = Unused /\ NoDevice /\ NoKey /\ NoHash /\ NoOffer
    \/ /\ part = "offers" /\ Offers!Init /\ topic = Unused /\ answer = Unused /\ verdict = Unused
       /\ NoDevice /\ NoKey /\ NoHash /\ NoDid

MCNext ==
    /\ \/ part = "device" /\ Devices!Next /\ UNCHANGED <<keyVars, hashVars, didVars, offerVars>>
       \/ part = "keys" /\ KeyUse!Next /\ UNCHANGED <<answer, deviceVars, hashVars, didVars, offerVars>>
       \/ part = "hash" /\ Hashing!Next /\ UNCHANGED <<topic, verdict, deviceVars, keyVars, didVars, offerVars>>
       \/ part = "did" /\ Dids!Next /\ UNCHANGED <<topic, verdict, deviceVars, keyVars, hashVars, offerVars>>
       \/ part = "offers" /\ Offers!Next /\ UNCHANGED <<topic, answer, verdict, deviceVars, keyVars, hashVars, didVars>>
    /\ UNCHANGED part
MCSpec == MCInit /\ [][MCNext]_<<part, topic, answer, verdict, deviceVars, keyVars, hashVars, didVars, offerVars>>

\* Device keys stay in use only as their rotation allows, and a challenge counts
\* for the key and the purpose it was made for; attestations count only under
\* the policy; messages of an EAC session are read under the numbers they were
\* sent with (device_auth.rs, key_attestation.rs, eac.rs).
DevicesHold == part = "device" => Devices!DeviceKeysHold /\ Devices!AttestationsHold /\ Devices!EacInOrder

\* A message is taken for a sender's only if a key of the sender's own document
\* sealed it, and a document only for the DID it is of (marty-didcomm).
DidMessagesHold == part = "did" => Dids!MessagesHold

\* Keys stay themselves through every document they are kept in, and what they
\* sign, seal or open is found good for them alone, between DIDs and for devices
\* too (marty-crypto; jwk/); hashes, HMACs and derived keys are those of their
\* definitions however the message is cut up (secret_hash.rs).
KeysAreKept ==
    /\ part = "keys" => KeyUse!KeysHold
    /\ part = "hash" => Hashing!DigestsRight
    /\ DevicesHold /\ DidMessagesHold

\* A tenant's metadata is built of every policy its plan asked for and demands
\* what they demand, what an issuer offers it issues, and a wallet opens the
\* offer its link carries; a launch or login counts only with a token of the
\* platform it is for (discovery.rs, metadata.rs, wallet_input.rs,
\* remote_credential.rs, lti.rs, oidc.rs).
OffersHold == part = "offers" => Offers!DiscoveryHolds

=============================================================================
