----------------------------- MODULE MCDecisions -----------------------------
(* Policies and evidence on small instances; Presentation Exchange with     *)
(* definitions of one and two descriptors, with optional, filtered,         *)
(* repeated and ZK fields.                                                  *)
EXTENDS Policies

CONSTANTS Facts, Cases, Conditions, MaxFacts, Unsupported, Definitions, Credentials, Proofs, Submissions, Payloads, Values
VARIABLES
    topic,                                                  \* which component a run is about
    case, log, policy, transaction, receipt, last,          \* evidence
    stage, definition, submission, payload, verdict         \* Presentation Exchange

evidence == <<case, log, policy, transaction, receipt, last>>
exchange == <<stage, definition, submission, payload, verdict>>

E == INSTANCE Evidence
Pe == INSTANCE PresentationExchange
ASSUME FactAssumption == E!EvidenceTyped
ASSUME ExchangeAssumption == Pe!ExchangeTyped

NoEvidence == case = None /\ log = <<>> /\ policy = None /\ transaction = None /\ receipt = None /\ last = None
NoExchange == stage = "none" /\ definition = None /\ submission = None /\ payload = None /\ verdict = Pe!NotChecked
NoPolicy == asked = None /\ answer = None

MCInit ==
    \/ topic = "policy" /\ Init /\ NoEvidence /\ NoExchange
    \/ topic = "evidence" /\ E!Init /\ NoPolicy /\ NoExchange
    \/ topic = "exchange" /\ Pe!Init /\ NoPolicy /\ NoEvidence

MCNext ==
    /\ \/ topic = "policy" /\ Next /\ UNCHANGED <<evidence, exchange>>
       \/ topic = "evidence" /\ E!Next /\ UNCHANGED <<vars, exchange>>
       \/ topic = "exchange" /\ Pe!Next /\ UNCHANGED <<vars, evidence>>
    /\ UNCHANGED topic

MCSpec == MCInit /\ [][MCNext]_<<topic, vars, evidence, exchange>>

\* What a policy allows the credentials justify, and the least disclosure the
\* evaluator computes is enough for it (policy/service.rs, policy/disclosure.rs).
DecisionsJustified == topic = "policy" => AllowIsJustified /\ DisclosureSuffices

\* An approved transaction is backed by the facts in force when it was decided
\* (evidence_policy.rs, evidence_reconciliation.rs).
ApprovalBacked == topic = "evidence" => E!ApprovalBacked

\* A presentation passes only if it answers every descriptor and shows nothing
\* that was not asked for where disclosure is limited; and every mapping the
\* wallet makes leads to the credential of its own descriptor (verifier.rs,
\* verify_presentation; wallet.rs, build_zk_presentation).
AnswersFit == topic = "exchange" => Pe!AnswersEveryDescriptor /\ Pe!NothingUnasked /\ Pe!PointsAtItsCredential

-----------------------------------------------------------------------------
(* Service requests: two credentials that may disagree, a requirement with  *)
(* its own age limit under a policy with another, and an alternative.       *)

Value(text, number, born) == [kind |-> "text", text |-> text, number |-> number, born |-> born]
Credential(id, templates, claims, issued, not_revoked) ==
    [id |-> id, templates |-> templates, format |-> "mdoc", claims |-> claims, issuer |-> "state",
     signed |-> TRUE, trusted |-> id = 1, level |-> id, compliance |-> IF id = 1 THEN {} ELSE {"audited"},
     accreditations |-> {"iso"}, issued |-> issued, checked |-> 8, not_revoked |-> not_revoked]
Licence == {Credential(1, {"mdl"}, ("name" :> Value(n, None, None)) @@ ("birth" :> Value("d", None, 1)), i, s) :
               n \in {"x", "y"}, i \in {3, 7, 11}, s \in {"yes", "no", "unknown"}}
Passports == {Credential(2, {"pid", "mdl"}, "name" :> Value("x", None, None), 6, "yes")}
Constraint(name, type, value) == [name |-> name, type |-> type, value |-> value, items |-> {"x"}, language |-> {"x"}]
Asked(name, required, constraints) == [name |-> name, required |-> required, constraints |-> constraints]
Requirement(k, template, claims, max_age) ==
    [id |-> <<"r", k>>, template |-> template, required |-> TRUE, format |-> "mso-mdoc", claims |-> claims,
     trust |-> FALSE, max_age |-> max_age, fresh |-> FALSE]
Holder(required) ==
    [required |-> required, methods |-> {"device_key"}, profiles |-> {}, challenge |-> required,
     audience |-> FALSE, replay |-> FALSE, max_age |-> 2]
PolicyOf(requirements, alternatives, age, live, trust, holder) ==
    [requirements |-> requirements, alternatives |-> alternatives, trust |-> trust, holder |-> Holder(holder),
     freshness |-> [max_age |-> age, not_revoked |-> live, grace |-> None], issuer |-> None,
     issuers |-> {}, single |-> FALSE, proof |-> FALSE]
ClaimLists == {<<>>, <<Asked("name", TRUE, <<Constraint("name", "InSet", Value("x", None, None))>>)>>,
               <<Asked("birth", FALSE, <<Constraint("birth", "AgeOver", Value("d", 2, None))>>), Asked("name", TRUE, <<>>)>>}
PolicySets ==
    {PolicyOf(<<Requirement(1, "mdl", claims, age)>>, <<>>, limit, live, trust, holder) :
        claims \in ClaimLists, age \in {None, 8}, limit \in {None, 4}, live, trust, holder \in BOOLEAN}
    \cup {PolicyOf(<<Requirement(1, "pid", claims, None)>>,
                   <<[id |-> <<"alt", 1>>, min |-> least,
                      requirements |-> <<Requirement(2, "mdl", claims, 5), Requirement(3, "pid", claims, None)>>]>>,
                   limit, FALSE, trust, FALSE) :
            claims \in ClaimLists, least \in {1, 2, 3}, limit \in {None, 4}, trust \in BOOLEAN}
\* One policy with one more demand each: of the issuer, the format, the status,
\* a claim, the proof, the binding and the number of credentials.
Base == PolicyOf(<<Requirement(1, "mdl", <<>>, None)>>, <<>>, None, TRUE, FALSE, TRUE)
Issuers(level, compliance, accreditations) == [level |-> level, compliance |-> compliance, accreditations |-> accreditations]
Unsigned == [Credential(4, {"mdl"}, "name" :> Value("z", None, None), None, "yes") EXCEPT !.signed = FALSE]
Undated == Credential(3, {"mdl"}, "name" :> Value("x", None, None), None, "yes")
DemandingSets ==
    {[Base EXCEPT !.issuer = i] : i \in {Issuers(2, {}, {}), Issuers(None, {"audited"}, {"iso"}), Issuers(None, {}, {"other"})}}
    \cup {[Base EXCEPT !.requirements[1].format = f] : f \in {None, "jwt-vc"}}
    \cup {[Base EXCEPT !.freshness.grace = g] : g \in {1, 2}}
    \cup {[Base EXCEPT !.requirements[1].claims = <<Asked("birth", FALSE, <<Constraint(n, "Presence", None)>>)>>] : n \in {"birth", "name"}}
    \cup {[Base EXCEPT !.requirements[1].fresh = TRUE], [Base EXCEPT !.proof = TRUE], [Base EXCEPT !.single = TRUE], [Base EXCEPT !.freshness = None],
           [Base EXCEPT !.issuers = {"other"}], [Base EXCEPT !.holder.profiles = {"dpop"}], [Base EXCEPT !.holder.audience = TRUE], [Base EXCEPT !.holder.replay = TRUE],
           [Base EXCEPT !.requirements[1].required = FALSE], [Base EXCEPT !.requirements = [n \in 1 .. 4 |-> Requirement(n, "mdl", <<>>, None)]],
           [Base EXCEPT !.requirements[1].claims = <<Asked("name", FALSE, <<>>), Asked("birth", FALSE, <<>>), Asked("a", FALSE, <<>>)>>]}
Crowded == [Undated EXCEPT !.claims = [n \in {"a", "b", "c", "name"} |-> Value("x", None, None)]]
Holdings == {{l} : l \in Licence} \cup {{l} \cup Passports : l \in Licence}
                \cup {Passports, {Undated}, {Unsigned} \cup Passports, {Crowded}, {Undated, Unsigned} \cup Passports}
\* A request in order, and the requests with one respect of it changed
Usual(p, held) ==
    [policy |-> p, credentials |-> held, day |-> 10, presented |-> TRUE, bound |-> TRUE, method |-> "device_key", profile |-> "dpop",
     challenge |-> TRUE, audience |-> TRUE, replay |-> TRUE, proved |-> 9, external |-> "allowed", count |-> None]
Unusual(q) ==
    {q, [q EXCEPT !.presented = FALSE], [q EXCEPT !.bound = FALSE], [q EXCEPT !.method = "did"], [q EXCEPT !.profile = None],
     [q EXCEPT !.challenge = FALSE], [q EXCEPT !.audience = FALSE], [q EXCEPT !.replay = FALSE]}
    \cup {[q EXCEPT !.proved = d] : d \in {None, 7, 11}} \cup {[q EXCEPT !.count = n] : n \in {1, 3}}
    \cup {[q EXCEPT !.external = "unevaluated"], [q EXCEPT !.day = 13]}
DemandingRequests == UNION {Unusual(Usual(p, held)) : p \in DemandingSets, held \in Holdings}
MCServiceRequests ==
    DemandingRequests \cup
    [policy : PolicySets,
     credentials : {{}, Passports} \cup {{l} : l \in Licence} \cup {{l} \cup Passports : l \in Licence},
     day : {10}, presented : {FALSE}, bound : BOOLEAN, method : {"device_key"}, profile : {None},
     challenge : {TRUE}, audience : {FALSE}, replay : {FALSE}, proved : {9},
     external : {"absent", "denied"}, count : {None}]

(* Legacy policies: claims a derived predicate may stand in for.            *)
Wanted(type, name, value, predicate) == [type |-> type, name |-> name, value |-> value, predicate |-> predicate]
ClaimValue(name) == Value("true", None, None)
MCLegacyRequests ==
    {[policy |-> [neutral_policy EXCEPT !.required = r, !.holder = h, !.max_age = a, !.single = TRUE,
                                        !.derived = "birth" :> "over18"],
      input |-> [neutral_input EXCEPT !.types = {"mdl"}, !.claims = [n \in c |-> ClaimValue(n)],
                                      !.issued = 3, !.proved = 9, !.day = 10, !.bound = b, !.count = k]] :
        r \in {<<>>, <<Wanted("mdl", "birth", None, TRUE)>>, <<Wanted("mdl", "birth", None, FALSE), Wanted("mdl", "name", None, TRUE)>>,
               <<Wanted("mdl", "birth", None, TRUE), Wanted("mdl", "birth", ClaimValue("birth"), TRUE)>>,
               <<Wanted("pid", "name", None, FALSE)>>},
        h \in {"none", "device_key"}, a \in {None, 5}, c \in SUBSET {"birth", "over18", "name"},
        b \in BOOLEAN, k \in {1, 2}}

(* Evidence: a completion, its later withdrawal, and a score.               *)
NoScope == [k \in {} |-> None]
Fact(id, key, type, state, effective, observed, assertion) ==
    [id |-> id, key |-> key, provider |-> "canvas", type |-> type, requirement |-> None, scope |-> NoScope,
     assertion |-> assertion, status |-> state, method |-> "lti", source |-> "lms", effective |-> effective,
     observed |-> observed, created |-> observed]
Spelt(exact, folded, number) == [exact |-> exact, folded |-> folded, number |-> number, parts |-> {exact}]
Mark(n) == [kind |-> "number", v |-> n, text |-> Spelt(ToString(n), ToString(n), n)]
Said(exact, folded, number) == [kind |-> "text", v |-> exact, text |-> Spelt(exact, folded, number)]
Yes == [kind |-> "bool", v |-> TRUE, text |-> Spelt("True", "true", None)]
Completion == "canvas.course_completion"
MCFacts ==
    {Fact(1, 1, Completion, "VERIFIED", 2, 5, "done" :> Yes), Fact(2, 1, Completion, "REVOKED", 4, 4, "done" :> Yes),
     Fact(3, 5, "score", "VERIFIED", None, 3, ("score" :> Mark(70)) @@ ("roles" :> Said("Learner", "learner", None))), Fact(4, 5, "score", "VERIFIED", None, 6, "score" :> Said("40", "40", 40)),
     Fact(5, None, Completion, "VERIFIED", None, 1, [k \in {} |-> Yes])}
Need(type, rule, required) ==
    [id |-> None, provider |-> None, source |-> None, type |-> type, method |-> None, scope |-> NoScope,
     rule |-> rule, required |-> required, auto |-> FALSE]
Named(flags, scores, texts) == [form |-> "named", flags |-> flags, scores |-> scores, texts |-> texts]
Nothing == [k \in {} |-> FALSE]
Scored(is, n) == [is |-> is, path |-> <<"assertion", "score">>, of |-> Mark(n)]
NotBelow(n) == [is |-> "not", of |-> Scored("<", n)]
Between(n, m) == [is |-> "all", of |-> <<Scored(">=", n), [is |-> "any", of |-> <<Scored("<=", m), Scored("eq", 100)>>]>>]
MCConditions ==
    {Scored(">=", 60), Scored("<", 60), Scored("<=", 90), Scored("eq", 100), NotBelow(60), Between(60, 90), Between(60, 90).of[2]}
OnPath(condition) == [form |-> "path", condition |-> condition]
MCCases ==
    {[requirements |-> r, binding |-> None, template |-> t, policy_set |-> p, auto |-> FALSE] :
        r \in {{}, {Need("score", OnPath(Between(60, 90)), TRUE)}, {Need("score", OnPath(NotBelow(60)), FALSE)},
               {Need(Completion, Named("done" :> TRUE, Nothing, Nothing), TRUE), Need("score", Named(Nothing, "score" :> {<<">=", Mark(50)>>}, "roles" :> {Said("LEARNER", "learner", None)}), TRUE)}},
        t \in {None, "set"},
        p \in {None, [status |-> "ACTIVE", type |-> "CUSTOM",
                      policies |-> <<[text |-> "permit", enabled |-> TRUE], [text |-> "forbid", enabled |-> FALSE]>>]}}

(* Presentation definitions, what a wallet holds, and what another may send. *)
Num(n) == [kind |-> "number", v |-> n]
Arr(S) == [kind |-> "array", v |-> S]
MCValues == {Num(1), Num(2), [kind |-> "string", v |-> "x"], Arr({Num(1)}), Arr({Num(2)})}

Field(paths, optional, zk, filter) == [paths |-> paths, optional |-> optional, zk |-> zk, filter |-> filter]
Filters == {None, [type |-> "integer", minimum |-> 2, title |-> "t"], [contains |-> [const |-> Num(1)], type |-> "array"],
            [enum |-> {Num(1), Num(2)}, maximum |-> 1], [odd |-> 1]}
Plain == Field(<<<<"a">>>>, FALSE, FALSE, None)
FieldSets ==
    {<<>>, <<Plain, Field(<<<<"b">>, <<"c">>>>, TRUE, FALSE, None)>>, <<Field(<<Unsupported>>, TRUE, FALSE, None)>>,
     <<Field(<<<<"a">>>>, FALSE, TRUE, None)>>}
    \cup {<<Field(<<<<"c">>, <<"a">>>>, o, FALSE, f)>> : o \in BOOLEAN, f \in Filters}

FormatSets == {None, [f \in {"dc+sd-jwt", "mso_mdoc"} |-> FALSE], [f \in {"dc+sd-jwt"} |-> TRUE]}
Descriptors == {[id |-> i, formats |-> m, limit |-> l, fields |-> fs] :
                i \in {"d1"}, m \in FormatSets, l \in {None, "required", "odd"}, fs \in FieldSets}
Second(i) == [id |-> i, formats |-> None, limit |-> None, fields |-> <<Plain>>]
ZkOne == [id |-> "d3", formats |-> None, limit |-> None, fields |-> <<Field(<<<<"a">>>>, FALSE, TRUE, None)>>]
MCDefinitions ==
    {[id |-> "q", descriptors |-> ds] :
        ds \in {<<d>> : d \in Descriptors} \cup {<<Second("d1"), Second("d2")>>, <<Second("d1"), Second("d1")>>,
                <<ZkOne, Second("d1"), Second("d2")>>, <<Second("d2"), ZkOne, Second("d1")>>, <<>>}}

Leaf(p, x) == [path |-> p, value |-> x]
Held(format, x) == [format |-> format, leaves |-> {Leaf(<<"a">>, x), Leaf(<<"b", "x">>, Num(1))}]
MCCredentials == {[i \in S |-> Held("dc+sd-jwt", IF i = "d1" THEN Num(1) ELSE Num(2))] : S \in SUBSET {"d1", "d2"}}
MCProofs == {{}, {"d3"}}

Chain(i, f, p) == <<[id |-> i, format |-> f, path |-> p]>>
Nested(i, f, p) == <<[id |-> "d1", format |-> "jwt_vp", path |-> <<>>], [id |-> i, format |-> f, path |-> p]>>
MCSubmissions ==
    {[definition |-> q, map |-> m] : q \in {"q", "other"},
        m \in {<<Chain("d1", f, p)>> : f \in {"dc+sd-jwt", "mso_mdoc", ""}, p \in {<<>>, <<"vc">>, Unsupported}}
              \cup {<<Nested(i, "dc+sd-jwt", <<"vc">>)>> : i \in {"d1", "d2"}}
              \cup {<<Chain("d1", "dc+sd-jwt", <<"vc">>), Chain(i, "dc+sd-jwt", p)>> : i \in {"d1", "d2"}, p \in {<<>>, <<"vc">>}}
              \cup {<<>>}}
MCPayloads == {{Leaf(<<"vc", n>>, x) : n \in S} : S \in SUBSET {"a", "b"}, x \in {Num(1), Num(2), Arr({Num(1)})}}
=============================================================================
