-------------------------- MODULE PresentationExchange --------------------------
(***************************************************************************)
(* Presentation Exchange in marty-oid4vci: the wallet builds a submission  *)
(* for a presentation definition (wallet.rs) and the verifier evaluates    *)
(* definition, submission and decoded payload (verifier.rs). A JSON        *)
(* document is the set of its leaves, each a path with a value; a path     *)
(* that the evaluator's JSONPath subset does not cover is Unsupported.     *)
(***************************************************************************)
EXTENDS Integers, Sequences, FiniteSets, SequencesExt

CONSTANTS
    None,
    Unsupported,    \* a JSONPath outside the subset
    Definitions,    \* presentation definitions a verifier may ask with
    Credentials,    \* the wallet's holdings: functions from descriptor ids to credentials
    Proofs,         \* sets of descriptor ids the wallet has a ZK proof for
    Submissions,    \* submissions that other wallets may send
    Payloads,       \* payloads that other wallets may send
    Values          \* JSON values leaves may have

\* A value is a scalar or an array of scalars: [kind, v].
\* A field is [paths, optional, zk, filter], a descriptor
\* [id, formats, limit, fields], a definition [id, descriptors]; a mapping is a
\* chain of [id, format, path], a submission [definition, map]. formats maps an
\* accepted format to whether an algorithm is demanded with it.

\* A path is a list, and so are chains and descriptors; a leaf is a path and
\* a value.
IsList(list) == list \in Seq(ToSet(list))
LeavesTyped(leaves) == \A l \in leaves : IsList(l.path) /\ l = [path |-> l.path, value |-> l.value]
ChainTyped(chain) ==
    IsList(chain) /\ \A k \in DOMAIN chain : chain[k].path # Unsupported => IsList(chain[k].path)
ExchangeTyped ==
    /\ \A d \in Definitions :
          /\ IsList(d.descriptors)
          /\ \A e \in ToSet(d.descriptors) : \A f \in ToSet(e.fields) : \A p \in ToSet(f.paths) :
                p # Unsupported => IsList(p)
    /\ \A s \in Submissions : \A chain \in ToSet(s.map) : ChainTyped(chain)
    /\ None \notin Payloads /\ \A p \in Payloads : LeavesTyped(p)
    /\ \A held \in Credentials : \A i \in DOMAIN held : LeavesTyped(held[i].leaves)

VARIABLES
    stage,          \* "asked", "answered", "judged"
    definition,
    submission,
    payload,        \* leaves of the decoded payload, or None
    verdict         \* [structure, constraints]: statuses of the evidence

vars == <<stage, definition, submission, payload, verdict>>

NotChecked == [structure |-> "not_checked", constraints |-> "not_checked"]

Init ==
    /\ stage = "asked"
    /\ definition \in Definitions
    /\ submission = None /\ payload = None
    /\ verdict = NotChecked

-----------------------------------------------------------------------------
(* The wallet.                                                             *)

SubmissionFor(entries) == [definition |-> definition.id, map |-> entries]
Entry(id, format, path) == <<[id |-> id, format |-> format, path |-> path]>>

\* infer_format, "jwt_vc_json" when it cannot tell
FormatOf(held, id) == IF id \in DOMAIN held THEN held[id].format ELSE "jwt_vc_json"

\* The leaves of credential c when it is the value at path.
Under(path, c) == {[path |-> path \o l.path, value |-> l.value] : l \in c.leaves}

\* The credentials of the descriptors at the indices K make one list: its
\* length when descriptor k is reached is the index of the credential of k.
Position(K, k) == Cardinality({j \in K : j < k})
Listed(K, held) ==
    UNION {Under(<<"vc", Position(K, k)>>, held[definition.descriptors[k].id]) : k \in K}

\* build_presentation_submission: every descriptor is mapped to the root.
Build(held) ==
    /\ stage = "asked"
    /\ stage' = "answered"
    /\ submission' = SubmissionFor([k \in DOMAIN definition.descriptors |->
            LET d == definition.descriptors[k] IN Entry(d.id, FormatOf(held, d.id), <<>>)])
    /\ payload' = Listed({k \in DOMAIN definition.descriptors : definition.descriptors[k].id \in DOMAIN held}, held)
    /\ UNCHANGED <<definition, verdict>>

HasZk(d) == \E k \in DOMAIN d.fields : d.fields[k].zk

\* The descriptors that put a credential into the presentation.
Carried(held) ==
    {k \in DOMAIN definition.descriptors :
        ~HasZk(definition.descriptors[k]) /\ definition.descriptors[k].id \in DOMAIN held}

\* What build_zk_presentation makes: each credential at its index, each proof
\* under its descriptor's id; a descriptor without either has no entry.
ZkEntry(k, held) ==
    LET d == definition.descriptors[k] IN
    IF HasZk(d) THEN Entry(d.id, "zk_mdoc", <<"zk_proofs", d.id>>)
    ELSE Entry(d.id, FormatOf(held, d.id), <<"vc", Position(Carried(held), k)>>)
ZkSubmission(held) ==
    SubmissionFor([k \in {j \in DOMAIN definition.descriptors : HasZk(definition.descriptors[j])} \cup Carried(held) |->
        ZkEntry(k, held)])
ZkPayload(held) == Listed(Carried(held), held)

\* build_zk_presentation: without a required proof there is no presentation.
BuildZk(held, proven) ==
    /\ stage = "asked"
    /\ \A d \in ToSet(definition.descriptors) : HasZk(d) => d.id \in proven
    /\ stage' = "answered"
    /\ submission' = ZkSubmission(held) /\ payload' = ZkPayload(held)
    /\ UNCHANGED <<definition, verdict>>

\* Any other wallet.
Answer(s, p) ==
    /\ stage = "asked"
    /\ stage' = "answered"
    /\ submission' = s /\ payload' = p
    /\ UNCHANGED <<definition, verdict>>

-----------------------------------------------------------------------------
(* The verifier.                                                           *)

Supported(path) == path # Unsupported

\* validate_descriptor_map_chain
ChainValid(chain, id) ==
    \A k \in DOMAIN chain : chain[k].id = id /\ chain[k].format # "" /\ Supported(chain[k].path)

EntriesOf(s, id) == {k \in DOMAIN s.map : s.map[k][1].id = id}

\* Mutant of StructureValid: duplicate mappings are not noticed.
StructureValidFirst(d, s) ==
    /\ d.descriptors # <<>> /\ s.map # <<>> /\ s.definition = d.id
    /\ \A k \in DOMAIN d.descriptors :
        LET e == d.descriptors[k] IN
        /\ EntriesOf(s, e.id) # {}
        /\ LET chain == s.map[Min(EntriesOf(s, e.id))] IN
           ChainValid(chain, e.id) /\ (e.formats # None => Last(chain).format \in DOMAIN e.formats)

\* verify_presentation_structure: descriptors and mappings name each other
\* exactly once, and each mapping ends in an accepted format.
StructureValid(d, s) ==
    /\ d.descriptors # <<>> /\ s.map # <<>> /\ s.definition = d.id
    /\ \A j, k \in DOMAIN d.descriptors : d.descriptors[j].id = d.descriptors[k].id => j = k
    /\ \A k \in DOMAIN s.map : /\ EntriesOf(s, s.map[k][1].id) = {k}
                               /\ \E e \in ToSet(d.descriptors) : e.id = s.map[k][1].id
    /\ \A k \in DOMAIN d.descriptors :
        LET e == d.descriptors[k] IN
        \E j \in EntriesOf(s, e.id) :
            /\ ChainValid(s.map[j], e.id)
            /\ e.formats # None => Last(s.map[j]).format \in DOMAIN e.formats

\* json_path_get: the subtree at a path (empty: nothing there).
At(doc, path) ==
    {[path |-> SubSeq(l.path, Len(path) + 1, Len(l.path)), value |-> l.value] :
        l \in {m \in doc : IsPrefix(path, m.path)}}

\* descriptor_map_get follows the whole chain.
Located(doc, chain) == At(doc, FlattenSeq([k \in DOMAIN chain |-> chain[k].path]))

Annotations == {"$schema", "$id", "$comment", "title", "description", "default", "examples", "readOnly", "writeOnly"}

\* apply_json_schema_filter on a scalar. A pattern and a format are the texts
\* they admit; an annotation is ignored, an unknown keyword rejects.
ScalarSatisfies(x, f) ==
    \A w \in DOMAIN f :
        CASE w = "type" -> x.kind = f[w] \/ (f[w] = "integer" /\ x.kind = "number")
          [] w = "const" -> x = f[w]
          [] w = "enum" -> x \in f[w]
          [] w = "minimum" -> x.kind = "number" /\ x.v >= f[w]
          [] w = "maximum" -> x.kind = "number" /\ x.v <= f[w]
          [] w \in {"pattern", "format"} -> x.kind = "string" /\ x.v \in f[w]
          [] w \in Annotations -> TRUE
          [] OTHER -> FALSE

\* ... and on an array, some element of which must satisfy "contains".
Satisfies(x, f) ==
    /\ ScalarSatisfies(x, [w \in DOMAIN f \ {"contains"} |-> f[w]])
    /\ "contains" \in DOMAIN f =>
        x.kind = "array" /\ \E y \in x.v : ScalarSatisfies(y, f["contains"])

\* The first path of a field that leads anywhere, as a set of at most one.
Matched(doc, field) ==
    LET hits == {k \in DOMAIN field.paths : At(doc, field.paths[k]) # {}}
    IN {field.paths[k] : k \in {j \in hits : \A i \in hits : j <= i}}

\* The value at a path: a leaf's, or an object.
ValueAt(doc, p) ==
    IF \E l \in At(doc, p) : l.path = <<>> THEN (CHOOSE l \in At(doc, p) : l.path = <<>>).value
    ELSE [kind |-> "object", v |-> {}]

\* A field is met when it asks for no ZK proof, all its paths are supported,
\* and a value is found that passes the filter, or none and it is optional.
FieldMet(doc, field) ==
    /\ ~field.zk /\ field.paths # <<>>
    /\ \A k \in DOMAIN field.paths : Supported(field.paths[k])
    /\ Matched(doc, field) = {} => field.optional
    /\ field.filter # None => \A p \in Matched(doc, field) : Satisfies(ValueAt(doc, p), field.filter)

\* is_selective_disclosure_format
SelectiveFormats == {"dc+sd-jwt", "vc+sd-jwt", "spruce-vc+sd-jwt", "sd_jwt", "sd-jwt"}

\* contains_only_selected_values
OnlySelected(doc, fields) ==
    \A l \in doc : \E k \in DOMAIN fields : \E p \in Matched(doc, fields[k]) : IsPrefix(p, l.path)

\* The evaluation of one descriptor in verify_presentation.
DescriptorMet(e, chain, doc) ==
    /\ e.formats # None => ~e.formats[Last(chain).format]
    /\ Located(doc, chain) # {}
    /\ e.limit \in {None, "preferred", "required"}
    /\ \A k \in DOMAIN e.fields : FieldMet(Located(doc, chain), e.fields[k])
    /\ e.limit = "required" => /\ Last(chain).format \in SelectiveFormats
                               /\ OnlySelected(Located(doc, chain), e.fields)

ConstraintsMet(d, s, doc) ==
    /\ doc # None
    /\ \A k \in DOMAIN d.descriptors :
        LET e == d.descriptors[k] IN
        DescriptorMet(e, s.map[CHOOSE j \in EntriesOf(s, e.id) : TRUE], doc)

\* verify_presentation
Judge ==
    /\ stage = "answered"
    /\ stage' = "judged"
    /\ verdict' = IF ~StructureValid(definition, submission)
                  THEN [structure |-> "failed", constraints |-> "not_checked"]
                  ELSE [structure |-> "passed",
                        constraints |-> IF ConstraintsMet(definition, submission, payload)
                                        THEN "passed" ELSE "failed"]
    /\ UNCHANGED <<definition, submission, payload>>

Next ==
    \/ \E held \in Credentials : Build(held)
    \/ \E held \in Credentials, proven \in Proofs : BuildZk(held, proven)
    \/ \E s \in Submissions, p \in Payloads \cup {None} : Answer(s, p)
    \/ Judge

Spec == Init /\ [][Next]_vars

-----------------------------------------------------------------------------
(* Properties.                                                             *)

Valid == stage = "judged" /\ verdict.constraints = "passed"

\* The verdict is well formed: constraints are judged only when the structure
\* passed.
TypeOK ==
    /\ stage \in {"asked", "answered", "judged"}
    /\ verdict.structure \in {"not_checked", "passed", "failed"}
    /\ verdict.constraints # "not_checked" => verdict.structure = "passed"
    /\ stage # "asked" => submission # None

\* A presentation is valid only when each descriptor has one mapping of its
\* own, and what that mapping leads to has every field the descriptor does not
\* call optional (verifier.rs, verify_presentation).
AnswersEveryDescriptor ==
    Valid => \A e \in ToSet(definition.descriptors) :
        /\ Cardinality({k \in DOMAIN submission.map : submission.map[k][1].id = e.id}) = 1
        /\ \E k \in DOMAIN submission.map :
            /\ submission.map[k][1].id = e.id
            /\ \A f \in ToSet(e.fields) : f.optional \/
                \E p \in ToSet(f.paths), l \in payload :
                    IsPrefix(FlattenSeq([j \in DOMAIN submission.map[k] |-> submission.map[k][j].path]) \o p, l.path)

\* Where a descriptor requires limited disclosure, everything its mapping
\* leads to was asked for by one of its fields.
NothingUnasked ==
    Valid => \A e \in ToSet(definition.descriptors), chain \in ToSet(submission.map) :
        e.limit = "required" /\ chain[1].id = e.id =>
            \A l \in Located(payload, chain) : \E f \in ToSet(e.fields) : \E p \in ToSet(f.paths) : IsPrefix(p, l.path)

\* A mapping that build_zk_presentation makes leads to the credential of its
\* own descriptor, whichever other descriptors are answered by proofs or not
\* at all.
PointsAtItsCredential ==
    stage = "asked" => \A held \in Credentials : \A chain \in ToSet(ZkSubmission(held).map) :
        chain[1].format # "zk_mdoc" => Located(ZkPayload(held), chain) = held[chain[1].id].leaves

=============================================================================
