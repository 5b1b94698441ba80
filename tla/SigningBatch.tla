----------------------------- MODULE SigningBatch -----------------------------
(***************************************************************************)
(* The concurrent ES256 signing scope of marty-oid4vci/src/signing_batch.rs:*)
(* one caller freezes a signer identity, prepares a whole batch, runs a    *)
(* bounded pool of scoped worker threads that claim jobs from one shared   *)
(* counter, joins all of them, re-checks the identity and reports one      *)
(* deterministic answer.                                                   *)
(***************************************************************************)
EXTENDS SigningBatchData, FiniteSets

CONSTANTS
    Identities,     \* signer metadata: algorithm, issuer, kid and public JWK
    ValidIdentities,\* the ones FrozenSignerIdentity::validate accepts
    Authorized,     \* max_concurrent_signing_workers of the signer
    Ceiling         \* MAX_CONCURRENT_SIGNING_WORKERS

ASSUME PoolAssumption ==
    /\ Authorized \in Nat \ {0}
    /\ Ceiling \in Nat \ {0}
    /\ ValidIdentities \subseteq Identities

VARIABLES
    batch,          \* the caller's inputs
    signer,         \* the signer's present metadata (may drift at any time)
    identity,       \* the FrozenSignerIdentity of the scope
    phase,          \* where the calling thread is
    spawning,       \* how many workers the spawn loop has gone through
    handles,        \* join handles, in spawn order
    pc,             \* pc[w]: where worker w is
    job,            \* job[w]: the ordinal worker w is signing
    local,          \* local[w]: the results vector of worker w
    results,        \* the results the caller has collected
    next_ordinal, stopped, first_panic,   \* ConcurrentExecutionStateInner
    calls,          \* history: how often each job was given to the signer
    verdict         \* what the call returned or unwound with

execution == <<next_ordinal, stopped, first_panic>>
vars == <<batch, signer, identity, phase, spawning, handles, pc, job, local,
          results, execution, calls, verdict>>

\* Thread 0 is the caller, which is always one of the workers; one thread
\* more than the signer authorised exists, so that a pool over its limit
\* would show.
Caller == 0
Worker == 0 .. Authorized

Outcomes == {"Signature", "Garbage", "Failed"}
Result == [job : Nat, outcome : Outcomes]

Phases == {"new", "ready", "prepared", "spawn", "work", "join", "recheck", "done"}
WorkerStates == {"unstarted", "claim", "sign", "unwind", "finished"}

worker_limit == IF Authorized < Ceiling THEN Authorized ELSE Ceiling
worker_count == IF worker_limit < Len(batch) THEN worker_limit ELSE Len(batch)

Init ==
    /\ batch \in Batches
    /\ signer \in Identities
    /\ identity = signer
    /\ phase = "new"
    /\ spawning = 1
    /\ handles = <<>>
    /\ pc = [w \in Worker |-> "unstarted"]
    /\ job = [w \in Worker |-> 0]
    /\ local = [w \in Worker |-> <<>>]
    /\ results = <<>>
    /\ next_ordinal = 1
    /\ stopped = FALSE
    /\ first_panic = 0
    /\ calls = [i \in Ordinals(batch) |-> 0]
    /\ verdict = Pending

Answer(v) == phase' = "done" /\ verdict' = v

pool == <<spawning, handles, pc, job, local, results, execution, calls>>

-----------------------------------------------------------------------------
(* The caller before any worker runs.                                      *)

\* ConcurrentEs256SignerScope::new
NewScope ==
    /\ phase = "new"
    /\ identity' = signer
    /\ IF signer \in ValidIdentities
       THEN phase' = "ready" /\ UNCHANGED verdict
       ELSE Answer(BatchError("InvalidScope"))
    /\ UNCHANGED <<batch, signer, pool>>

\* validate_unique_routes and PreparedSigningBatch::prepare
Prepare ==
    /\ phase = "ready"
    /\ IF Preflight(batch) = Credentials
       THEN phase' = "prepared" /\ UNCHANGED verdict
       ELSE Answer(Preflight(batch))
    /\ UNCHANGED <<batch, signer, identity, pool>>

\* The metadata check before execution.  An empty batch starts no worker.
CheckIdentity ==
    /\ phase = "prepared"
    /\ IF signer # identity
       THEN Answer(BatchError("SignerMetadataChanged"))
       ELSE /\ phase' = IF batch = <<>> THEN "recheck" ELSE "spawn"
            /\ UNCHANGED verdict
    /\ UNCHANGED <<batch, signer, identity, pool>>

\* One turn of the spawn loop; the operating system may refuse the thread.
Spawn ==
    /\ phase = "spawn"
    /\ spawning < worker_count
    /\ spawning' = spawning + 1
    /\ \/ /\ handles' = Append(handles, spawning)
          /\ pc' = [pc EXCEPT ![spawning] = "claim"]
       \/ UNCHANGED <<handles, pc>>
    /\ UNCHANGED <<batch, signer, identity, phase, job, local, results,
                   execution, calls, verdict>>

\* The caller enters its own worker boundary.
BecomeWorker ==
    /\ phase = "spawn"
    /\ spawning >= worker_count
    /\ phase' = "work"
    /\ pc' = [pc EXCEPT ![Caller] = "claim"]
    /\ UNCHANGED <<batch, signer, identity, spawning, handles, job, local,
                   results, execution, calls, verdict>>

-----------------------------------------------------------------------------
(* A worker: execute_concurrent_signing_worker inside its boundary.        *)

callerState == <<batch, signer, identity, phase, spawning, handles, results, verdict>>

\* ConcurrentExecutionState::claim returns Some: the worker takes the job
\* under the mutex and hands it to the signer.
Claim(w) ==
    /\ pc[w] = "claim"
    /\ ~stopped
    /\ next_ordinal <= Len(batch)
    /\ job' = [job EXCEPT ![w] = next_ordinal]
    /\ next_ordinal' = next_ordinal + 1
    /\ calls' = [calls EXCEPT ![next_ordinal] = @ + 1]
    /\ pc' = [pc EXCEPT ![w] = "sign"]
    /\ UNCHANGED <<callerState, local, stopped, first_panic>>

\* Mutant of ClaimNone: a worker only leaves once dispatch was stopped.
ClaimNoneOnlyWhenStopped(w) ==
    /\ pc[w] = "claim"
    /\ stopped
    /\ pc' = [pc EXCEPT ![w] = "finished"]
    /\ UNCHANGED <<callerState, job, local, execution, calls>>

\* claim returns None: the worker's loop ends and it hands in its results.
ClaimNone(w) ==
    /\ pc[w] = "claim"
    /\ stopped \/ next_ordinal > Len(batch)
    /\ pc' = [pc EXCEPT ![w] = "finished"]
    /\ UNCHANGED <<callerState, job, local, execution, calls>>

OutcomeOf(fate) == CASE fate = "failing"   -> "Failed"
                     [] fate = "malformed" -> "Garbage"
                     [] OTHER              -> "Signature"

\* Mutant of SignReturns: a failed call is retried.
SignReturnsRetrying(w) ==
    /\ pc[w] = "sign"
    /\ batch[job[w]].fate # "panicking"
    /\ IF batch[job[w]].fate = "failing"
       THEN /\ calls' = [calls EXCEPT ![job[w]] = @ + 1]
            /\ UNCHANGED <<local, pc>>
       ELSE /\ local' = [local EXCEPT ![w] =
                           Append(@, [job |-> job[w], outcome |-> OutcomeOf(batch[job[w]].fate)])]
            /\ pc' = [pc EXCEPT ![w] = "claim"]
            /\ UNCHANGED calls
    /\ UNCHANGED <<callerState, job, execution>>

\* sign returns, Ok or Err; either way the worker keeps claiming.
SignReturns(w) ==
    /\ pc[w] = "sign"
    /\ batch[job[w]].fate # "panicking"
    /\ local' = [local EXCEPT ![w] =
                   Append(@, [job |-> job[w], outcome |-> OutcomeOf(batch[job[w]].fate)])]
    /\ pc' = [pc EXCEPT ![w] = "claim"]
    /\ UNCHANGED <<callerState, job, execution, calls>>

\* sign panics: the worker unwinds to its boundary, dropping its results.
\* Until it takes the mutex in record_panic the others keep claiming.
SignPanics(w) ==
    /\ pc[w] = "sign"
    /\ batch[job[w]].fate = "panicking"
    /\ local' = [local EXCEPT ![w] = <<>>]
    /\ pc' = [pc EXCEPT ![w] = "unwind"]
    /\ UNCHANGED <<callerState, job, execution, calls>>

\* record_panic: stop dispatch, keep the first payload, return no results.
RecordPanic(w) ==
    /\ pc[w] = "unwind"
    /\ stopped' = TRUE
    /\ first_panic' = IF first_panic = 0 THEN job[w] ELSE first_panic
    /\ pc' = [pc EXCEPT ![w] = "finished"]
    /\ UNCHANGED <<callerState, job, local, next_ordinal, calls>>

WorkerStep(w) == Claim(w) \/ ClaimNone(w) \/ SignReturns(w) \/ SignPanics(w) \/ RecordPanic(w)

-----------------------------------------------------------------------------
(* The caller after its own share of the work.                             *)

afterWork == <<batch, signer, identity, spawning, pc, job, local, execution, calls>>

\* The caller's boundary has returned; its results come first.
BeginJoin ==
    /\ phase = "work"
    /\ pc[Caller] = "finished"
    /\ phase' = "join"
    /\ results' = local[Caller]
    /\ UNCHANGED <<afterWork, handles, verdict>>

\* join blocks until that worker's boundary has returned.
Join ==
    /\ phase = "join"
    /\ handles # <<>>
    /\ pc[Head(handles)] = "finished"
    /\ results' = results \o local[Head(handles)]
    /\ handles' = Tail(handles)
    /\ UNCHANGED <<afterWork, phase, verdict>>

\* take_first_panic and resume_unwind, or the ordinary return of execute.
LeaveScope ==
    /\ phase = "join"
    /\ handles = <<>>
    /\ IF first_panic # 0
       THEN Answer(Unwind(first_panic))
       ELSE phase' = "recheck" /\ UNCHANGED verdict
    /\ UNCHANGED <<afterWork, handles, results>>

\* validate_executor_results and assemble_credentials on what was collected:
\* the envelope must be a bijection with the jobs before any outcome is read.
Positions(i) == {p \in 1 .. Len(results) : results[p].job = i}
Bijective == /\ Len(results) = Len(batch)
             /\ \A i \in Ordinals(batch) : Positions(i) # {}
At(i) == results[Lowest(Positions(i))].outcome
Reported(outcome) == {i \in Ordinals(batch) : At(i) = outcome}

\* Mutant of validate_executor_results: the first failure in completion order.
FirstFailureCollected ==
    IF ~Bijective THEN BatchError("InvalidExecutorResults")
    ELSE IF Reported("Failed") # {}
         THEN ItemError("ExecutorFailed",
                results[Lowest({p \in 1 .. Len(results) : results[p].outcome = "Failed"})].job)
         ELSE IF Reported("Garbage") # {}
              THEN ItemError("InvalidSignature", Lowest(Reported("Garbage")))
              ELSE Credentials

validate_executor_results ==
    IF ~Bijective THEN BatchError("InvalidExecutorResults")
    ELSE IF Reported("Failed") # {}
         THEN ItemError("ExecutorFailed", Lowest(Reported("Failed")))
         ELSE IF Reported("Garbage") # {}
              THEN ItemError("InvalidSignature", Lowest(Reported("Garbage")))
              ELSE Credentials

assemble_credentials ==
    IF With(batch, {"unassembled"}) # {}
    THEN ItemError("AssemblyFailed", Lowest(With(batch, {"unassembled"})))
    ELSE Credentials

Recheck ==
    /\ phase = "recheck"
    /\ Answer(IF signer # identity
              THEN BatchError("SignerMetadataChanged")
              ELSE IF validate_executor_results = Credentials
                   THEN assemble_credentials
                   ELSE validate_executor_results)
    /\ UNCHANGED <<batch, signer, identity, pool>>

-----------------------------------------------------------------------------
(* The environment: a signer whose reported metadata changes although its  *)
(* contract says it does not.                                              *)
Drift ==
    /\ phase # "done"
    /\ \E id \in Identities \ {signer} : signer' = id
    /\ UNCHANGED <<batch, identity, phase, verdict, pool>>

Returned == phase = "done" /\ UNCHANGED vars

CallerStep == NewScope \/ Prepare \/ CheckIdentity \/ Spawn \/ BecomeWorker
                \/ BeginJoin \/ Join \/ LeaveScope \/ Recheck

Next == CallerStep \/ (\E w \in Worker : WorkerStep(w)) \/ Drift \/ Returned

Spec == Init /\ [][Next]_vars

\* Threads are scheduled and signer calls return or panic (the code puts no
\* timeout on them); nothing is assumed of the drifting metadata.
FairSpec == Spec /\ WF_vars(CallerStep) /\ \A w \in Worker : WF_vars(WorkerStep(w))

-----------------------------------------------------------------------------
(* Properties.                                                             *)

\* Every variable holds a value of its type; the claim counter stays within
\* one past the batch.
TypeOK ==
    /\ batch \in Batches
    /\ signer \in Identities /\ identity \in Identities
    /\ phase \in Phases
    /\ spawning \in 1 .. Authorized + 1
    /\ handles \in Seq(Worker)
    /\ pc \in [Worker -> WorkerStates]
    /\ job \in [Worker -> 0 .. Len(batch)]
    /\ local \in [Worker -> Seq(Result)]
    /\ results \in Seq(Result)
    /\ next_ordinal \in 1 .. Len(batch) + 1
    /\ stopped \in BOOLEAN
    /\ first_panic \in 0 .. Len(batch)
    /\ calls \in [Ordinals(batch) -> Nat]
    /\ verdict \in Verdicts(batch)

\* No job is handed to the signer twice, whatever the workers' interleaving:
\* claim increments the shared counter under the mutex and nothing retries.
SignedAtMostOnce == \A i \in Ordinals(batch) : calls[i] <= 1

\* When the call returns or unwinds no worker is still running: the signer
\* borrow and the prepared payloads outlive every signer call.
JoinedBeforeReturn ==
    phase \in {"recheck", "done"} => \A w \in Worker : pc[w] \in {"unstarted", "finished"}

\* The answer does not depend on the schedule: short of drift and panics it
\* is the one the batch alone determines, at the lowest affected ordinal.
ScheduleIndependent ==
    verdict.tag \in {"ok", "err"} =>
        \/ verdict \in {BatchError("InvalidScope"), BatchError("SignerMetadataChanged")}
        \/ Preflight(batch) # Credentials /\ verdict = Preflight(batch)
        \/ Preflight(batch) = Credentials /\ verdict = Judgement(batch)

\* A panic is never swallowed: once a panicking job was called, the batch can
\* only end by unwinding with the payload of a job that panicked, even if
\* other jobs failed or the metadata drifted meanwhile.
PanicSurfaces ==
    (phase = "done" /\ \E i \in With(batch, {"panicking"}) : calls[i] > 0)
        => \E i \in With(batch, {"panicking"}) : calls[i] > 0 /\ verdict = Unwind(i)

\* Every batch comes to an answer.
Terminates == <>(phase = "done")

\* The scope implements the contract its callers are given.
Contract == INSTANCE SigningContract WITH batch <- batch, calls <- calls, verdict <- verdict
ImplementsContract == Contract!Spec

=============================================================================
