------------------------------- MODULE Evidence -------------------------------
(***************************************************************************)
(* Applications approved on external evidence (evidence_policy.rs and      *)
(* evidence_reconciliation.rs).  Facts about an applicant arrive in any    *)
(* order; the newest fact of a logical key is its head, the heads are held *)
(* against the requirements, an approval policy decides, and a             *)
(* reconciliation plan says what to do with the decision.                  *)
(*                                                                         *)
(* A JSON value is [kind, v, text]: text is how py_string writes it, as    *)
(* [exact, folded, number, parts], with its lower-case form, the number it *)
(* spells (or None) and the texts it contains.                             *)
(***************************************************************************)
EXTENDS Integers, FiniteSetsExt, SequencesExt

CONSTANTS
    None,
    Facts,          \* the facts that may arrive
    Cases,          \* [requirements, binding, template, policy_set, auto]
    Conditions,     \* the conditions of rules, with all their parts
    MaxFacts        \* how many facts arrive at most

\* Facts and rules are what JSON can say: times and ids are ordered.
EvidenceTyped ==
    /\ \A f \in Facts : /\ f.effective \in Nat \cup {None}
                       /\ f.observed \in Nat /\ f.created \in Nat /\ f.id \in Nat
    /\ MaxFacts \in Nat

-----------------------------------------------------------------------------
(* Values, as Python would see them.                                       *)

Written(exact, folded, number, parts) == [exact |-> exact, folded |-> folded, number |-> number, parts |-> parts]
NoText == Written("", "", None, {""})
Null == [kind |-> "null", v |-> 0, text |-> Written("None", "none", None, {"None"})]
truthy(value) ==
    CASE value.kind = "null" -> FALSE
      [] value.kind = "bool" -> value.v
      [] value.kind = "number" -> value.v # 0
      [] value.kind = "text" -> value.v # ""
      [] value.kind = "list" -> value.v # <<>>

py_equal(left, right) ==
    IF left.kind = right.kind THEN left.v = right.v
    ELSE /\ {left.kind, right.kind} = {"bool", "number"}
         /\ LET flag == IF left.kind = "bool" THEN left.v ELSE right.v
                number == IF left.kind = "bool" THEN right.v ELSE left.v IN
            number = IF flag THEN 1 ELSE 0

\* A missing or falsy value is written as the empty text.
py_string_or_empty(value) == IF value = None \/ ~truthy(value) THEN NoText ELSE value.text

\* A number, or the one a text spells
numeric_value(value) ==
    CASE value.kind = "number" -> value.v
      [] value.kind = "text" -> value.text.number
      [] OTHER -> None
NumberOf(value) == IF value = None THEN None ELSE numeric_value(value)

\* Numbers are compared by the signs that a comparison allows.
Sign(a, b) == IF a < b THEN -1 ELSE IF a = b THEN 0 ELSE 1
compare_numbers(actual, expected, signs) ==
    /\ NumberOf(actual) # None /\ numeric_value(expected) # None
    /\ Sign(NumberOf(actual), numeric_value(expected)) \in signs

Field(map, key) == IF key \in DOMAIN map THEN map[key] ELSE None

\* fact_path_value: a path is a part of the fact and a key in it.
fact_path_value(fact, path) ==
    Field(CASE path[1] = "assertion" -> fact.assertion
            [] path[1] = "scope" -> fact.scope, path[2])

\* path_condition_satisfied: what a condition on one path asks of its value.
leaf_satisfied(fact, c) ==
    LET actual == fact_path_value(fact, c.path)
        value == IF actual = None THEN Null ELSE actual IN
    CASE c.is = "exists" -> value # Null
      [] c.is = "truthy" -> truthy(value)
      [] c.is = "falsy" -> ~truthy(value)
      [] c.is = "eq" -> py_equal(value, c.of)
      [] c.is = "neq" -> ~py_equal(value, c.of)
      [] c.is = ">=" -> compare_numbers(actual, c.of, {0, 1})
      [] c.is = ">" -> compare_numbers(actual, c.of, {1})
      [] c.is = "<=" -> compare_numbers(actual, c.of, {-1, 0})
      [] c.is = "<" -> compare_numbers(actual, c.of, {-1})
      [] c.is = "in" -> \E k \in DOMAIN c.of : py_equal(value, c.of[k])
      [] c.is = "contains" -> \/ value.kind = "list" /\ \E k \in DOMAIN value.v : py_equal(value.v[k], c.of)
                              \/ value.kind = "text" /\ c.of.text.exact \in value.text.parts
      [] OTHER -> FALSE

\* ... and conditions nest through all, any and not.
path_condition_satisfied(fact, condition) ==
    LET satisfied[c \in Conditions] ==
            CASE c.is = "all" -> \A k \in DOMAIN c.of : satisfied[c.of[k]]
              [] c.is = "any" -> \E k \in DOMAIN c.of : satisfied[c.of[k]]
              [] c.is = "not" -> ~satisfied[c.of]
              [] OTHER -> leaf_satisfied(fact, c)
    IN satisfied[condition]

\* comparison_satisfied: every operator of the rule must hold, and one must
\* be there.
Signs == (">=" :> {0, 1}) @@ (">" :> {1}) @@ ("<=" :> {-1, 0}) @@ ("<" :> {-1}) @@ ("==" :> {0})
comparison_satisfied(actual, rule) ==
    rule # {} /\ \A r \in rule : compare_numbers(actual, r[2], Signs[r[1]])

\* string_rule_satisfied: one of the expected texts, in a list or alone, in
\* whatever case.
string_rule_satisfied(actual, expected) ==
    \E e \in expected :
        IF actual # None /\ actual.kind = "list"
        THEN \E k \in DOMAIN actual.v : actual.v[k].text.folded = e.text.folded
        ELSE py_string_or_empty(actual).folded = py_string_or_empty(e).folded

\* A rule is absent, a path condition, or flags, scores and texts by name.
\* A rule that names nothing known is not satisfied.
pass_rule_satisfied(fact, rule) ==
    CASE rule.form = "none" -> TRUE
      [] rule.form = "path" -> path_condition_satisfied(fact, rule.condition)
      [] rule.form = "named" ->
            /\ DOMAIN rule.flags \cup DOMAIN rule.scores \cup DOMAIN rule.texts # {}
            /\ \A k \in DOMAIN rule.flags :
                  LET shown == Field(fact.assertion, k) IN
                  (shown # None /\ truthy(shown)) = rule.flags[k]
            /\ \A k \in DOMAIN rule.scores :
                  comparison_satisfied(Field(fact.assertion, k), rule.scores[k])
            /\ \A k \in DOMAIN rule.texts :
                  string_rule_satisfied(Field(fact.assertion, k), rule.texts[k])

-----------------------------------------------------------------------------
(* The heads, and the requirements they satisfy.                           *)

\* fact_order: effective time, observation, creation, id.
fact_order(fact) ==
    <<IF fact.effective = None THEN fact.observed ELSE fact.effective,
      fact.observed, fact.created, fact.id>>
Later(a, b) ==
    \E k \in 1 .. 4 : a[k] > b[k] /\ \A j \in 1 .. k - 1 : a[j] = b[j]

\* A fact without a key is kept under its id, which may be another's key.
LogicalKey(fact) == IF fact.key = None THEN fact.id ELSE fact.key

\* One pass of the loop of current_heads: a fact takes the place of the head of
\* its key if it is later.
Kept(heads, fact) ==
    LET old == {h \in heads : LogicalKey(h) = LogicalKey(fact)} IN
    IF \A h \in old : Later(fact_order(fact), fact_order(h)) THEN (heads \ old) \cup {fact} ELSE heads

\* Mutant of current_heads: the fact that arrived last is the head.
LastArrived(facts) ==
    {f \in Range(facts) : \E k \in DOMAIN facts : /\ facts[k] = f
                         /\ \A j \in k + 1 .. Len(facts) : LogicalKey(facts[j]) # LogicalKey(f)}

\* current_heads: one pass over the facts as they arrived.
current_heads(facts) ==
    LET heads[k \in 0 .. Len(facts)] == IF k = 0 THEN {} ELSE Kept(heads[k - 1], facts[k])
    IN heads[Len(facts)]

\* The last head by observation, creation and id.
LatestHead(heads) ==
    CHOOSE f \in heads : \A g \in heads :
        ~Later(<<g.observed, g.created, g.id, 0>>, <<f.observed, f.created, f.id, 0>>)

fact_verified(fact) == fact.status = "VERIFIED"

scope_matches(actual, expected) ==
    \A k \in DOMAIN expected :
        \/ expected[k] = Null
        \/ py_string_or_empty(Field(actual, k)).exact = py_string_or_empty(expected[k]).exact

requirement_identity_matches(fact, r) ==
    /\ r.provider = None \/ fact.provider = r.provider
    /\ r.source = None \/ fact.source = r.source
    /\ r.type = None \/ fact.type = r.type

fact_satisfies_requirement(fact, r) ==
    /\ r.id # None /\ fact.requirement # None => fact.requirement = r.id
    /\ requirement_identity_matches(fact, r)
    /\ r.method = None \/ fact.method = r.method
    /\ scope_matches(fact.scope, r.scope)
    /\ fact_verified(fact)
    /\ pass_rule_satisfied(fact, r.rule)

\* Without any requirement, completing the course is the requirement.
DefaultRequirement ==
    [id |-> None, provider |-> None, source |-> None, type |-> "canvas.course_completion",
     method |-> None, scope |-> [k \in {} |-> Null], rule |-> [form |-> "none"], required |-> TRUE,
     auto |-> FALSE]

\* Requirements that are all optional never count as satisfied.
summarize_requirements(requirements, heads) ==
    LET required == {r \in requirements : r.required}
        effective == IF requirements = {} THEN {DefaultRequirement} ELSE required
        satisfied == {r \in effective : \E f \in heads : fact_satisfies_requirement(f, r)} IN
    [count |-> Cardinality(effective), satisfied |-> Cardinality(satisfied),
     all |-> effective # {} /\ satisfied = effective,
     scope |-> \A r \in effective : DOMAIN r.scope # {} =>
                  \E f \in heads : requirement_identity_matches(f, r) /\ scope_matches(f.scope, r.scope)]

ContextOf(case, heads, summary) ==
    [status |-> IF heads = {} THEN "UNVERIFIED" ELSE LatestHead(heads).status,
     scope |-> summary.scope, all |-> summary.all,
     enough |-> summary.satisfied >= summary.count,
     auto_issue |-> summary.all /\ (case.auto \/ \E r \in case.requirements : r.auto)]
build_context(case, heads) == ContextOf(case, heads, summarize_requirements(case.requirements, heads))

-----------------------------------------------------------------------------
(* The approval policy.  Cedar is external: a forbid overrides every       *)
(* permit, and a text that does not parse authorises nothing.              *)

BundledPermits(context) ==
    context.status = "VERIFIED" /\ context.scope /\ context.all /\ context.enough
BundledForbids(context) == context.status # "VERIFIED" \/ ~context.scope

is_authorized(texts, context) ==
    /\ "malformed" \notin texts
    /\ "forbid" \notin texts
    /\ "bundled" \in texts => ~BundledForbids(context)
    /\ "permit" \in texts \/ ("bundled" \in texts /\ BundledPermits(context))

\* normalize_cedar_policy_text: the texts of the policies not disabled.
normalize_cedar_policy_text(policies) ==
    {policies[k].text : k \in {j \in DOMAIN policies : policies[j].enabled # FALSE}} \ {""}

\* The binding's policy set goes before the template's.
PolicySetId(case) == IF case.binding # None THEN case.binding ELSE case.template

Judged(case, context) ==
    LET set == case.policy_set
        decision(engine, allowed) == [engine |-> engine, allowed |-> allowed, auto |-> context.auto_issue] IN
    IF PolicySetId(case) = None THEN decision("cedar", is_authorized({"bundled"}, context))
    ELSE IF set = None THEN decision("policy_set_unavailable", FALSE)
    ELSE IF set.status # "ACTIVE" THEN decision("policy_set_inactive", FALSE)
    ELSE IF set.type \notin {"APPROVAL_RULES", "CUSTOM"} THEN decision("policy_set_wrong_type", FALSE)
    ELSE LET texts == normalize_cedar_policy_text(set.policies) IN
         IF texts = {} THEN decision("policy_set_empty", FALSE)
         ELSE decision("cedar", is_authorized(texts, context))
evaluate(case, log) == Judged(case, build_context(case, current_heads(log)))

-----------------------------------------------------------------------------
(* Reconciliation.                                                         *)

\* reconciliation_plan: what to do with a decision, fresh or recorded.
reconciliation_plan(policy, fresh, transaction, issue_on_permit, dry_run) ==
    CASE ~policy.allowed -> "policy_denied"
      [] policy.allowed /\ transaction = "pending" -> "issuance_transaction_already_pending"
      [] policy.allowed /\ transaction # "pending" /\ ~issue_on_permit ->
            "policy_permitted_issue_disabled"
      [] policy.allowed /\ transaction # "pending" /\ issue_on_permit /\ dry_run ->
            "would_create_or_refresh_issuance_transaction"
      [] OTHER -> IF fresh THEN "approval_issuance_succeeded"
                  ELSE "approval_issuance_recovered_from_policy_permit"
Approves(action) ==
    action \in {"approval_issuance_succeeded", "approval_issuance_recovered_from_policy_permit"}

\* stale_receipt_reasons: why a receipt has to be reconciled again.
stale_receipt_reasons(receipt, application) ==
    IF ~receipt.names_application THEN {"receipt_missing_application_id"}
    ELSE IF application = None THEN {"receipt_application_missing"}
    ELSE LET policy == IF receipt.policy # None THEN receipt.policy ELSE application.policy IN
         (IF receipt.names_facts THEN {} ELSE {"receipt_without_evidence_fact_metadata"})
         \cup (IF policy = None THEN {"receipt_without_policy_decision"}
               ELSE IF policy.allowed /\ ~receipt.transaction /\ ~application.transaction
               THEN {"policy_permit_without_issuance_transaction"} ELSE {})

-----------------------------------------------------------------------------
(* An application over time.  The service that stores it is external: it   *)
(* records the decision, and creates the transaction after an approval; it *)
(* may stop in between.                                                    *)

VARIABLES
    case,           \* the application's requirements and policies
    log,            \* the facts, in the order they arrived
    policy,         \* the recorded decision, or None
    transaction,    \* "none", "pending" or "expired"
    receipt,        \* what the last reconciliation left behind
    last            \* the last plan, and the facts it was made on

vars == <<case, log, policy, transaction, receipt, last>>

NoReceipt == [names_application |-> FALSE, names_facts |-> FALSE, policy |-> None, transaction |-> FALSE]

Init ==
    /\ case \in Cases
    /\ log = <<>> /\ policy = None /\ transaction = "none"
    /\ receipt = NoReceipt
    /\ last = [action |-> "none", fresh |-> FALSE, log |-> <<>>]

FactArrives ==
    /\ Len(log) < MaxFacts
    /\ \E f \in Facts \ Range(log) : log' = Append(log, f)
    /\ UNCHANGED <<case, policy, transaction, receipt, last>>

\* One reconciliation; the process may stop before the transaction exists.
Reconcile(fresh, decided) ==
    /\ \E issue_on_permit, dry_run, stops \in BOOLEAN :
          LET action == reconciliation_plan(decided, fresh, transaction, issue_on_permit, dry_run)
              creates == Approves(action) /\ ~stops IN
          /\ policy' = decided
          /\ transaction' = IF creates THEN "pending" ELSE transaction
          /\ receipt' = [names_application |-> TRUE, names_facts |-> log # <<>>, policy |-> decided,
                         transaction |-> creates]
          /\ last' = [action |-> action, fresh |-> fresh, log |-> log]
    /\ UNCHANGED <<case, log>>

\* The stale receipts are picked up again with the recorded decision.
Recover ==
    /\ "policy_permit_without_issuance_transaction"
          \in stale_receipt_reasons(receipt, [policy |-> policy, transaction |-> transaction = "pending"])
    /\ policy # None
    /\ Reconcile(FALSE, policy)

TransactionExpires ==
    /\ transaction = "pending"
    /\ transaction' = "expired"
    /\ UNCHANGED <<case, log, policy, receipt, last>>

Next == FactArrives \/ Reconcile(TRUE, evaluate(case, log)) \/ Recover \/ TransactionExpires

\* Under the bundled policy an approval made on freshly read facts is backed
\* by them: there are required requirements, and each is satisfied by a
\* verified fact that no later fact of its key has replaced, whatever the
\* order of arrival (evidence_policy.rs, current_heads).
Superseded(f, log_) ==
    \E g \in Range(log_) : LogicalKey(g) = LogicalKey(f) /\ Later(fact_order(g), fact_order(f))
Backed(r, log_) ==
    \E f \in Range(log_) : ~Superseded(f, log_) /\ fact_satisfies_requirement(f, r)
ApprovalBacked ==
    Approves(last.action) /\ last.fresh /\ PolicySetId(case) = None =>
        LET asked == IF case.requirements = {} THEN {DefaultRequirement}
                     ELSE {r \in case.requirements : r.required} IN
        /\ asked # {}
        /\ \A r \in asked : Backed(r, last.log)
        /\ \A f \in Range(last.log) : ~Superseded(f, last.log) /\ ~fact_verified(f) =>
              \E g \in Range(last.log) : ~Superseded(g, last.log) /\ fact_verified(g) /\ g.observed >= f.observed
===============================================================================
