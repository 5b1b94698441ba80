------------------------------ MODULE MCDocuments ------------------------------
(* Instances of the document modules for TLC, one of them per behaviour:      *)
(* electronic passports, machine readable zones, visible seals and digital    *)
(* travel credentials, mobile documents, and verifiable credentials.          *)
EXTENDS Passports

VARIABLES
    topic,
    moment,                                      \* the time of the other three
    paper, held, reading,                        \* TravelDocuments
    order, prepared, issued, response, verdict,  \* MobileDocuments
    ordered, draft, shown, asserted, cached, finding   \* VerifiableCredentials

travelVars == <<paper, held, reading>>
mobileVars == <<order, prepared, issued, response, verdict>>
credentialVars == <<ordered, draft, shown, asserted, cached, finding>>
allVars == <<topic, moment, vars, travelVars, mobileVars, credentialVars>>

CONSTANTS Characters, StatusLife, Day, MaxRequests, ListLife
Travel == INSTANCE TravelDocuments WITH LastMoment <- 3
Mobile == INSTANCE MobileDocuments WITH LastMoment <- 4
Credentials == INSTANCE VerifiableCredentials WITH LastMoment <- 3, verdict <- finding

Idle == \* the variables of the other topics at their first values
    /\ topic # "passports" => Init /\ registry = {Authority(1)}
    /\ topic # "travel" => paper = Travel!NoPaper /\ held = Travel!NoPaper /\ reading = Travel!NoReading
    /\ topic # "mobile" => order = <<>> /\ prepared = <<>> /\ issued = {} /\ response = Mobile!Nothing /\ verdict = Mobile!Nothing
    /\ topic # "credentials" => /\ ordered = {} /\ draft = Credentials!Nothing /\ shown = Credentials!Nothing
                                /\ asserted = [i \in 1 .. 2 |-> Credentials!Never]
                                /\ cached = {} /\ finding = Credentials!Nothing
MCInit ==
    \/ topic = "passports" /\ Init /\ moment = 0 /\ Idle
    \/ topic = "travel" /\ Travel!Init /\ Idle
    \/ topic = "mobile" /\ Mobile!Init /\ Idle
    \/ topic = "credentials" /\ Credentials!Init /\ Idle
MCNext ==
    \/ topic = "passports" /\ Next /\ UNCHANGED <<topic, moment, travelVars, mobileVars, credentialVars>>
    \/ topic = "travel" /\ Travel!Next /\ UNCHANGED <<topic, vars, mobileVars, credentialVars>>
    \/ topic = "mobile" /\ Mobile!Next /\ UNCHANGED <<topic, vars, travelVars, credentialVars>>
    \/ topic = "credentials" /\ Credentials!Next /\ UNCHANGED <<topic, vars, travelVars, mobileVars>>
MCSpec == MCInit /\ [][MCNext]_allVars

\* Travel documents. A passport is found genuine only if a state in the registry
\* vouches for its signer and every group it carries is the one signed, what the
\* issuer makes is found genuine, and the reports say so (verification/emrtd.rs,
\* issuance/mod.rs, passport_integrity.rs, active_authentication.rs). A machine
\* readable zone, a visible seal or a digital travel credential is read as what
\* was written and accepted only as issued and while valid (mrz/,
\* formats/vds_nc.rs, dtc/mod.rs).
TravelDocumentsHold ==
    /\ topic = "passports" => GenuineOnly /\ MadeIsAccepted /\ ReportsHold
    /\ topic = "travel" => Travel!TravelDocumentsHold

\* A mobile document is assembled of its own digests in whatever order they
\* come, and a response counts for its elements only if their issuer signed
\* them and the device answered this request (formats/mdoc.rs,
\* mdoc/authentication.rs, verification/mdl.rs).
MobileDocumentsHold == topic = "mobile" => Mobile!MobileDocumentsHold

\* A credential or badge is accepted only as its issuer signed it, for the
\* holder it was issued to and while its status is known to be good (vcdm.rs,
\* formats/jwt_vc.rs, open_badges/).
VerifiableCredentialsHold == topic = "credentials" => Credentials!VerifiableCredentialsHold
===============================================================================
