------------------------------ MODULE Governance ------------------------------
(***************************************************************************)
(* Verification governance (governance.rs): a registered document binds    *)
(* API clients, per purpose, to a verification policy and a trust profile  *)
(* of their organisation.  A session freezes what it was authorised with,  *)
(* and a later request resumes it under whatever document is in force then.*)
(***************************************************************************)
EXTENDS Integers, FiniteSets, Sequences

CONSTANTS
    None,
    Documents,      \* the governance documents an operator may install
    Keys,           \* API keys callers present
    Requests        \* [verifier, definition] a session asks to verify

ALL_PRESENTATION_CHECKS ==
    {"presentation.structure", "presentation.proof", "credential.proof", "issuer.trust",
     "credential.status", "holder.binding", "transaction.binding", "claim.constraints"}
VDS_CHECKS == {"credential.proof", "issuer.trust"}
Purposes == {"verification.session.create", "verification.direct", "verification.vds-nc"}

\* A digest identifies the content it was computed from.
canonical_digest(content) == <<"sha256", content>>

required_checks(purpose) ==
    IF purpose = "verification.vds-nc" THEN VDS_CHECKS ELSE ALL_PRESENTATION_CHECKS
require_purpose_checks(purpose, checks) == required_checks(purpose) \subseteq checks

validate_component(component) ==
    component.id = "marty-credentials" /\ component.adapter = "verification-service"

\* The checks of a policy are a list: known ones, each once.
validate_policy(p) ==
    /\ p.content.checks # <<>>
    /\ \A k \in DOMAIN p.content.checks : p.content.checks[k] \in ALL_PRESENTATION_CHECKS
    /\ \A j, k \in DOMAIN p.content.checks : p.content.checks[j] = p.content.checks[k] => j = k
    /\ p.digest = canonical_digest(p.content)
Checks(p) == {p.content.checks[k] : k \in DOMAIN p.content.checks}

\* Trusted issuers are strictly ascending; no fallback to public DIDs.
validate_trust(t) ==
    /\ t.content.issuers # <<>>
    /\ \A k \in 1 .. Len(t.content.issuers) - 1 : t.content.issuers[k] < t.content.issuers[k + 1]
    /\ ~t.content.fallback
    /\ t.digest = canonical_digest(t.content)

Of(profiles, org, id) == {k \in DOMAIN profiles : profiles[k].org = org /\ profiles[k].id = id}
Unique(ids) == \A j, k \in DOMAIN ids : ids[j] = ids[k] => j = k

\* parse_governance: every reference of every client resolves inside the
\* client's organisation, to a policy with the checks its purpose demands.
parse_governance(g) ==
    /\ validate_component(g.component)
    /\ g.policies # <<>> /\ g.trust # <<>> /\ g.clients # <<>>
    /\ \A k \in DOMAIN g.policies : validate_policy(g.policies[k])
    /\ Unique([k \in DOMAIN g.policies |-> <<g.policies[k].org, g.policies[k].id>>])
    /\ \A k \in DOMAIN g.trust : validate_trust(g.trust[k])
    /\ Unique([k \in DOMAIN g.trust |-> <<g.trust[k].org, g.trust[k].id>>])
    /\ Unique([k \in DOMAIN g.clients |-> g.clients[k].id])
    /\ Unique([k \in DOMAIN g.clients |-> g.clients[k].key])
    /\ \A c \in {g.clients[k] : k \in DOMAIN g.clients} :
          /\ DOMAIN c.purposes # {} /\ DOMAIN c.purposes \subseteq Purposes
          /\ \A u \in DOMAIN c.purposes :
                /\ Of(g.trust, c.org, c.purposes[u].trust) # {}
                /\ Of(g.policies, c.org, c.purposes[u].policy) # {}
                /\ \A k \in Of(g.policies, c.org, c.purposes[u].policy) :
                      require_purpose_checks(u, Checks(g.policies[k]))

\* snapshot: the client, its organisation and the profiles with their content.
snapshot(g, client, purpose) ==
    LET grant == client.purposes[purpose]
        policy == g.policies[CHOOSE k \in Of(g.policies, client.org, grant.policy) : TRUE]
        trust == g.trust[CHOOSE k \in Of(g.trust, client.org, grant.trust) : TRUE] IN
    [client |-> client.id, purpose |-> purpose, org |-> client.org, policy |-> policy,
     trust |-> trust, component |-> g.component]

\* authorize: the client whose key digest matches, or no answer.
authorize(g, key, purpose) ==
    LET matched == {k \in DOMAIN g.clients : g.clients[k].key = canonical_digest(key)} IN
    IF matched = {} \/ purpose \notin Purposes THEN None
    ELSE LET client == g.clients[CHOOSE k \in matched : TRUE] IN
         IF purpose \in DOMAIN client.purposes THEN snapshot(g, client, purpose) ELSE None

\* parse_snapshot: a stored snapshot is checked like a document.
parse_snapshot(s) ==
    /\ validate_component(s.component)
    /\ validate_policy(s.policy) /\ validate_trust(s.trust)
    /\ s.purpose \in Purposes /\ require_purpose_checks(s.purpose, Checks(s.policy))

\* Mutant of resume: the profiles are compared by id only.
ResumeById(g, s) ==
    LET matched == {k \in DOMAIN g.clients : g.clients[k].id = s.client} IN
    IF matched = {} \/ ~parse_snapshot(s) THEN None
    ELSE LET client == g.clients[CHOOSE k \in matched : TRUE] IN
         IF \/ client.org # s.org \/ s.purpose \notin DOMAIN client.purposes
            \/ client.purposes[s.purpose].policy # s.policy.id
            \/ client.purposes[s.purpose].trust # s.trust.id
         THEN None ELSE s

\* resume: the client is still registered for the organisation and purpose,
\* with the same profiles down to their content.
resume(g, s) ==
    LET matched == {k \in DOMAIN g.clients : g.clients[k].id = s.client} IN
    IF matched = {} \/ ~parse_snapshot(s) THEN None
    ELSE LET client == g.clients[CHOOSE k \in matched : TRUE] IN
         IF \/ client.org # s.org \/ s.purpose \notin DOMAIN client.purposes
            \/ client.purposes[s.purpose].policy # s.policy.id
            \/ client.purposes[s.purpose].trust # s.trust.id
         THEN None
         ELSE LET expected == snapshot(g, client, s.purpose) IN
              IF s.policy = expected.policy /\ s.trust = expected.trust THEN expected ELSE None

require_governance_purpose(s, purpose) ==
    s.purpose = purpose /\ require_purpose_checks(purpose, Checks(s.policy))

validate_governance_request(s, request) ==
    /\ request.verifier = s.policy.content.verifier
    /\ canonical_digest(request.definition) = s.policy.content.definition

-----------------------------------------------------------------------------
VARIABLES
    document,       \* the document in force
    frozen,         \* the snapshot a session holds, or None
    verified        \* the last request that was let through: with what, under which document

vars == <<document, frozen, verified>>

Nothing == [under |-> None, as |-> None, request |-> None]

Init == document \in {g \in Documents : parse_governance(g)} /\ frozen = None /\ verified = Nothing

\* The operator installs another document; an invalid one is refused.
Install ==
    /\ \E g \in Documents : parse_governance(g) /\ document' = g
    /\ UNCHANGED <<frozen, verified>>

Authorize ==
    /\ frozen = None
    /\ \E key \in Keys, purpose \in Purposes :
          authorize(document, key, purpose) # None /\ frozen' = authorize(document, key, purpose)
    /\ UNCHANGED <<document, verified>>

\* A held session is resumed under the present document, and the request is
\* validated against what it was resumed with.
Resume ==
    /\ frozen # None
    /\ LET current == resume(document, frozen) IN
       IF current = None THEN frozen' = None /\ verified' = Nothing
       ELSE \E request \in Requests, purpose \in Purposes :
              /\ frozen' = current
              /\ verified' = IF require_governance_purpose(current, purpose)
                                /\ validate_governance_request(current, request)
                             THEN [under |-> document, as |-> current, request |-> request]
                             ELSE Nothing
    /\ UNCHANGED document

Next == Install \/ Authorize \/ Resume

Spec == Init /\ [][Next]_vars

\* Whatever was let through was authorised at that moment: some client of the
\* document in force may use that purpose, the policy and trust profile are
\* its organisation's and say what the document says, with every check its
\* purpose demands and the verifier and definition that were asked for
\* (governance.rs, resume).
ResumedIsAuthorised ==
    verified # Nothing =>
        LET g == verified.under
            s == verified.as IN
        \E k \in DOMAIN g.clients :
            LET c == g.clients[k] IN
            /\ c.id = s.client /\ c.org = s.org /\ s.policy.org = c.org /\ s.trust.org = c.org
            /\ s.purpose \in DOMAIN c.purposes
            /\ \E p \in DOMAIN g.policies : g.policies[p] = s.policy /\ s.policy.id = c.purposes[s.purpose].policy
            /\ \E t \in DOMAIN g.trust : g.trust[t] = s.trust /\ s.trust.id = c.purposes[s.purpose].trust
            /\ required_checks(s.purpose) \subseteq Checks(s.policy)
            /\ verified.request.verifier = s.policy.content.verifier
            /\ canonical_digest(verified.request.definition) = s.policy.content.definition
===============================================================================
