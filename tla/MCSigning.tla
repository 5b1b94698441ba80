------------------------------ MODULE MCSigning ------------------------------
(* The two signing scopes on the same batches: a caller uses the concurrent  *)
(* scope or the serial one, which shares its state but starts no worker.     *)
(* Up to three jobs on at most three workers, with every combination of      *)
(* fates on distinct routes, and every combination of routes for good inputs.*)
EXTENDS SigningBatch

VARIABLE scope      \* which scope the caller has chosen

Serial == INSTANCE SerialSigning

MCRoutes == 1 .. 3

DistinctRoutes(n) == {[i \in 1 .. n |-> [route |-> i, fate |-> f[i]]] : f \in [1 .. n -> Fates]}
AnyRoutes == {[i \in 1 .. 3 |-> [route |-> r[i], fate |-> "good"]] : r \in [1 .. 3 -> MCRoutes]}

MCBatches == {<<>>} \cup DistinctRoutes(1) \cup DistinctRoutes(2) \cup DistinctRoutes(3) \cup AnyRoutes

ScopesInit == Init /\ scope \in {"concurrent", "serial"}

ScopesNext ==
    \/ scope = "concurrent" /\ Next /\ UNCHANGED scope
    \/ /\ scope = "serial"
       /\ Serial!Next
       /\ UNCHANGED <<scope, spawning, handles, pc, job, local, execution>>

\* The threads of the concurrent scope are scheduled, and so is the caller of
\* the serial one; nothing is assumed of the drifting metadata.
SerialStep ==
    /\ scope = "serial"
    /\ \/ Serial!NewScope \/ Serial!Prepare \/ Serial!CheckIdentity \/ Serial!Sign
       \/ Serial!SignReturns \/ Serial!Finish
    /\ UNCHANGED <<scope, spawning, handles, pc, job, local, execution>>

ScopesSpec ==
    /\ ScopesInit /\ [][ScopesNext]_<<vars, scope>>
    /\ WF_vars(scope = "concurrent" /\ CallerStep)
    /\ \A w \in Worker : WF_vars(scope = "concurrent" /\ WorkerStep(w))
    /\ WF_vars(SerialStep)

===============================================================================
