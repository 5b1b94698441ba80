--------------------------------- MODULE Flow ---------------------------------
(***************************************************************************)
(* Verification flows (flow.rs): the status machine of a flow instance,    *)
(* the validation of a flow graph and the choice of the next step.  The    *)
(* instance itself is stored by the caller: it moves with the outcomes     *)
(* that steps report.                                                      *)
(***************************************************************************)
EXTENDS Integers, FiniteSetsExt, SequencesExt

CONSTANTS
    None,
    Steps,          \* step ids
    Outcomes,       \* outcomes a step can report
    Graphs,         \* [entry, steps, transitions] graphs that are submitted
    MaxSteps, MaxTransitions        \* MAX_STEPS, MAX_TRANSITIONS

\* What the proofs need of the graphs: steps and transitions are lists.
FlowAssumption ==
    \A g \in Graphs :
        /\ g.steps \in Seq(Steps)
        /\ g.transitions \in Seq([from : Steps, to : Steps, outcome : Outcomes])

Waiting == {"awaiting_wallet", "awaiting_approval", "awaiting_evidence"}
Terminal == {"completed", "failed", "cancelled", "expired"}
Statuses == {"created", "pending", "in_progress"} \cup Waiting \cup Terminal

can_transition_to(from, to) ==
    to \in CASE from = "created" -> {"pending", "in_progress", "cancelled"}
             [] from = "pending" -> {"in_progress", "cancelled"}
             [] from = "in_progress" -> Waiting \cup Terminal
             [] from = "awaiting_wallet" -> {"in_progress", "cancelled", "expired"}
             [] from = "awaiting_approval" -> {"in_progress", "failed", "cancelled"}
             [] from = "awaiting_evidence" -> {"in_progress", "cancelled", "expired"}
             [] from \in Terminal -> {}

\* evaluate_transition: staying is a no-op, anything else must be allowed.
evaluate_transition(from, to) ==
    [allowed |-> from = to \/ can_transition_to(from, to), no_op |-> from = to,
     terminal |-> to \in Terminal]

Declared(graph) == Range(graph.steps)
Successors(graph, step) ==
    {graph.transitions[k].to : k \in {j \in DOMAIN graph.transitions : graph.transitions[j].from = step}}

\* The frontier search from the entry step.
Reachable(graph) ==
    LET grow[n \in Nat] ==
            IF n = 0 THEN {graph.entry}
            ELSE grow[n - 1] \cup UNION {Successors(graph, s) : s \in grow[n - 1]} IN
    grow[Len(graph.steps)]

\* Mutant of Peeled: every step that something leads out of is taken.
PeeledLoosely(graph) == {s \in Declared(graph) : Successors(graph, s) # {s}}

\* The topological pass takes a step once all steps before it were: what it
\* takes is in every set that has each step whose predecessors it has.
Peeled(graph) ==
    LET before(step) == {s \in Declared(graph) : step \in Successors(graph, s)}
        closed == {X \in SUBSET Declared(graph) : \A s \in Declared(graph) : before(s) \subseteq X => s \in X} IN
    {s \in Declared(graph) : \A X \in closed : s \in X}

validate_graph(graph) ==
    /\ graph.steps # <<>> /\ Len(graph.steps) <= MaxSteps
    /\ Len(graph.transitions) <= MaxTransitions
    /\ \A j, k \in DOMAIN graph.steps : graph.steps[j] = graph.steps[k] => j = k
    /\ graph.entry \in Declared(graph)
    /\ \A k \in DOMAIN graph.transitions :
          {graph.transitions[k].from, graph.transitions[k].to} \subseteq Declared(graph)
    /\ \A j, k \in DOMAIN graph.transitions :
          /\ graph.transitions[j].from = graph.transitions[k].from
          /\ graph.transitions[j].outcome = graph.transitions[k].outcome
          => j = k
    /\ Reachable(graph) = Declared(graph)
    /\ Peeled(graph) = Declared(graph)

\* select_next_step: the first transition for the outcome, if there is one.
select_next_step(graph, step, outcome) ==
    LET fits == {k \in DOMAIN graph.transitions :
                    graph.transitions[k].from = step /\ graph.transitions[k].outcome = outcome} IN
    IF fits = {} THEN None ELSE graph.transitions[Min(fits)].to

-----------------------------------------------------------------------------
VARIABLES
    graph,
    step,           \* the step the instance is at, or None
    status,         \* FlowInstanceStatus
    trail           \* history: the steps taken

vars == <<graph, step, status, trail>>

Init == graph \in Graphs /\ step = None /\ status = "created" /\ trail = <<>>

\* The caller moves the instance as evaluate_transition allows.
Move ==
    /\ \E to \in Statuses : evaluate_transition(status, to).allowed /\ ~evaluate_transition(status, to).no_op
                              /\ status' = to
    /\ UNCHANGED <<graph, step, trail>>

Enter ==
    /\ status = "in_progress" /\ step = None
    /\ validate_graph(graph)
    /\ step' = graph.entry
    /\ trail' = <<graph.entry>>
    /\ UNCHANGED <<graph, status>>

\* A step reports an outcome; without a transition for it the flow is over.
Report ==
    /\ status = "in_progress" /\ step # None
    /\ validate_graph(graph)
    /\ \E outcome \in Outcomes :
          LET to == select_next_step(graph, step, outcome) IN
          IF to # None
          THEN step' = to /\ trail' = Append(trail, to) /\ UNCHANGED status
          ELSE status' = "completed" /\ UNCHANGED <<step, trail>>
    /\ UNCHANGED graph

Next == Move \/ Enter \/ Report

Spec == Init /\ [][Next]_vars

\* In a graph that was accepted no step is ever taken twice, whatever the steps
\* report (flow.rs, validate_graph: "flow graph must be acyclic").
NoStepTwice == \A j, k \in DOMAIN trail : trail[j] = trail[k] => j = k
===============================================================================
