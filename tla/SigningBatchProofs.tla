------------------------- MODULE SigningBatchProofs -------------------------
(***************************************************************************)
(* Safety of the concurrent signing scope for every batch, every worker    *)
(* limit and every set of signer identities.                               *)
(***************************************************************************)
EXTENDS SigningBatch, FiniteSetTheorems, NaturalsInduction, TLAPS

-----------------------------------------------------------------------------
(* The inductive invariant.                                                *)

\* The counter and the calls agree: exactly the jobs below next_ordinal were
\* handed out, each once.
CallsFollowCounter ==
    \A i \in Ordinals(batch) : calls[i] = IF i < next_ordinal THEN 1 ELSE 0

\* A worker inside the signer, or unwinding from it, holds a claimed job, and
\* it unwinds only from a job that panics.
JobsClaimed ==
    \A w \in Worker :
        /\ pc[w] \in {"sign", "unwind"} => job[w] \in Ordinals(batch) /\ calls[job[w]] > 0
        /\ pc[w] = "unwind" => batch[job[w]].fate = "panicking"

Running(w) == pc[w] \in {"claim", "sign", "unwind"}
Held(w) == \E k \in 1 .. Len(handles) : handles[k] = w

\* Where the caller is tells which workers can be running: none before the
\* spawn loop and none after the joins; in between, only the caller itself
\* and workers whose handle the caller still has to join.
PoolShape ==
    /\ phase \in {"new", "ready", "prepared"} =>
          /\ next_ordinal = 1 /\ first_panic = 0
          /\ \A w \in Worker : pc[w] = "unstarted"
    /\ phase \in {"spawn", "work", "join"} =>
          \A w \in Worker \ {Caller} : Running(w) => Held(w)
    /\ phase = "spawn" => \A w \in Worker : w = Caller \/ w >= spawning => pc[w] = "unstarted"
    /\ phase = "join" => pc[Caller] = "finished"
    /\ phase \in {"recheck", "done"} =>
          \A w \in Worker : pc[w] \in {"unstarted", "finished"}

\* A panicking job that was called is still on its way to record_panic, or
\* some panic was recorded; a recorded panic is one of a job that was called.
PanicTracked ==
    /\ \A i \in With(batch, {"panicking"}) :
          calls[i] > 0 => \/ first_panic # 0
                          \/ \E w \in Worker : pc[w] \in {"sign", "unwind"} /\ job[w] = i
    /\ first_panic # 0 => first_panic \in With(batch, {"panicking"}) /\ calls[first_panic] > 0
    /\ phase = "recheck" => first_panic = 0
    /\ phase # "done" => verdict = Pending

IInv == /\ TypeOK
        /\ CallsFollowCounter
        /\ JobsClaimed
        /\ PoolShape
        /\ PanicTracked
        /\ PanicSurfaces

-----------------------------------------------------------------------------
(* Facts about the data.                                                   *)

LessThan == {ss \in Nat \X Nat : ss[1] < ss[2]}

\* A nonempty set of naturals has a least element, and Lowest picks it: the
\* "lowest affected ordinal" of every batch error exists.
LEMMA LowestInSet ==
    ASSUME NEW S, S \subseteq Nat, S # {}
    PROVE  Lowest(S) \in S /\ \A j \in S : Lowest(S) <= j
<1>1. OpToRel(<, Nat) = LessThan
  BY Zenon DEF OpToRel, LessThan
<1>2. \E x \in S : \A y \in S : <<y, x>> \notin LessThan
  BY <1>1, WFMin, NatLessThanWellFounded, Zenon
<1>3. PICK x \in S : \A y \in S : <<y, x>> \notin LessThan
  BY <1>2
<1>4. ASSUME NEW y \in S PROVE x <= y
  <2>1. x \in Nat /\ y \in Nat
    OBVIOUS
  <2>2. <<y, x>> \in Nat \X Nat /\ <<y, x>> \notin LessThan
    BY <1>3, <2>1
  <2>3. ~ (<<y, x>>[1] < <<y, x>>[2])
    BY <2>2, Zenon DEF LessThan
  <2> QED BY <2>1, <2>3
<1> QED BY <1>4 DEF Lowest

\* The errors a batch can end with are well formed: each names an ordinal of
\* that batch.
LEMMA ErrorsTyped ==
    ASSUME NEW b \in Batches
    PROVE  /\ Len(b) \in Nat
           /\ \A k \in ErrorKinds : BatchError(k) \in Verdicts(b)
           /\ \A k \in ErrorKinds : \A i \in Ordinals(b) : ItemError(k, i) \in Verdicts(b)
           /\ \A i \in Ordinals(b) : Unwind(i) \in Verdicts(b)
           /\ Credentials \in Verdicts(b)
           /\ Pending \in Verdicts(b)
<1>1. b \in Seq(Input)
  BY BatchesAssumption
<1>2. Len(b) \in Nat
  BY <1>1
<1> QED
  BY <1>2 DEF BatchError, ItemError, Unwind, Credentials, Pending, Verdicts, Ordinals, ErrorKinds

\* The verdict of the checks before signing is a verdict.
LEMMA PreflightTyped ==
    ASSUME NEW b \in Batches
    PROVE  Preflight(b) \in Verdicts(b)
<1>1. /\ Len(b) \in Nat
      /\ DuplicatedFirst(b) \subseteq Nat /\ DuplicatedFirst(b) \subseteq Ordinals(b)
      /\ With(b, {"unpreparable"}) \subseteq Nat /\ With(b, {"unpreparable"}) \subseteq Ordinals(b)
  BY ErrorsTyped DEF DuplicatedFirst, With, Ordinals
<1>2. CASE DuplicatedFirst(b) # {}
  <2>1. Lowest(DuplicatedFirst(b)) \in Ordinals(b)
    BY <1>1, <1>2, LowestInSet
  <2> QED BY <1>2, <2>1, ErrorsTyped DEF Preflight, ErrorKinds
<1>3. CASE DuplicatedFirst(b) = {} /\ With(b, {"unpreparable"}) # {}
  <2>1. Lowest(With(b, {"unpreparable"})) \in Ordinals(b)
    BY <1>1, <1>3, LowestInSet
  <2> QED BY <1>3, <2>1, ErrorsTyped DEF Preflight, ErrorKinds
<1>4. CASE DuplicatedFirst(b) = {} /\ With(b, {"unpreparable"}) = {}
  BY <1>4, ErrorsTyped DEF Preflight
<1> QED BY <1>2, <1>3, <1>4

\* So are the answers computed from the collected results.
LEMMA FinalAnswerTyped ==
    ASSUME TypeOK
    PROVE  /\ validate_executor_results \in Verdicts(batch)
           /\ assemble_credentials \in Verdicts(batch)
<1>1. batch \in Batches /\ Len(batch) \in Nat
  BY ErrorsTyped DEF TypeOK
<1>2. \A o : Reported(o) \subseteq Nat /\ Reported(o) \subseteq Ordinals(batch)
  BY <1>1 DEF Reported, Ordinals
<1>3. With(batch, {"unassembled"}) \subseteq Nat /\ With(batch, {"unassembled"}) \subseteq Ordinals(batch)
  BY <1>1 DEF With, Ordinals
<1>4. \A o : Reported(o) # {} => Lowest(Reported(o)) \in Ordinals(batch)
  BY <1>2, LowestInSet
<1>5. With(batch, {"unassembled"}) # {} => Lowest(With(batch, {"unassembled"})) \in Ordinals(batch)
  BY <1>3, LowestInSet
<1>6. validate_executor_results \in Verdicts(batch)
  BY <1>1, <1>4, ErrorsTyped DEF validate_executor_results, ErrorKinds
<1>7. assemble_credentials \in Verdicts(batch)
  BY <1>1, <1>5, ErrorsTyped DEF assemble_credentials, ErrorKinds
<1> QED BY <1>6, <1>7

-----------------------------------------------------------------------------
(* The invariant holds initially ...                                       *)

\* The invariant holds before the call begins.
LEMMA InitIInv == Init => IInv
<1> SUFFICES ASSUME Init PROVE IInv
  OBVIOUS
<1>1. batch \in Batches /\ Len(batch) \in Nat /\ Pending \in Verdicts(batch)
  BY ErrorsTyped DEF Init
<1>2. Authorized \in Nat \ {0} /\ Caller \in Worker
  BY PoolAssumption DEF Caller, Worker
<1>3. TypeOK
  <2>1. <<>> \in Seq(Result) /\ <<>> \in Seq(Worker)
    OBVIOUS
  <2>2. local \in [Worker -> Seq(Result)] /\ results \in Seq(Result) /\ handles \in Seq(Worker)
    BY <2>1 DEF Init
  <2>3. spawning \in 1 .. Authorized + 1 /\ next_ordinal \in 1 .. Len(batch) + 1
    BY <1>1, <1>2 DEF Init
  <2>4. job \in [Worker -> 0 .. Len(batch)] /\ calls \in [Ordinals(batch) -> Nat]
    BY <1>1 DEF Init
  <2>5. pc \in [Worker -> WorkerStates] /\ stopped \in BOOLEAN /\ phase \in Phases
    BY Zenon DEF Init, WorkerStates, Phases
  <2> QED BY <1>1, <2>2, <2>3, <2>4, <2>5 DEF Init, TypeOK
<1>4. CallsFollowCounter
  BY <1>1 DEF Init, CallsFollowCounter, Ordinals
<1>5. JobsClaimed /\ PoolShape
  BY DEF Init, JobsClaimed, PoolShape
<1>6. PanicTracked /\ PanicSurfaces
  BY DEF Init, PanicTracked, PanicSurfaces, With
<1> QED BY <1>3, <1>4, <1>5, <1>6 DEF IInv

\* Every step of the caller, a worker or the metadata keeps the types.
LEMMA StepTypeOK ==
    ASSUME TypeOK, JobsClaimed, PanicTracked, [Next]_vars
    PROVE  TypeOK'
<1> USE DEF TypeOK, Phases, WorkerStates, Ordinals, execution
<1>1. batch \in Batches /\ Len(batch) \in Nat /\ Authorized \in Nat \ {0} /\ Caller \in Worker
  BY ErrorsTyped, PoolAssumption DEF Caller, Worker
<1>2. /\ BatchError("InvalidScope") \in Verdicts(batch)
      /\ BatchError("SignerMetadataChanged") \in Verdicts(batch)
      /\ Preflight(batch) \in Verdicts(batch)
      /\ \A i \in Ordinals(batch) : Unwind(i) \in Verdicts(batch)
  BY <1>1, ErrorsTyped, PreflightTyped DEF ErrorKinds
<1>3. CASE NewScope
  BY <1>3, <1>2, PoolAssumption DEF NewScope, Answer, pool
<1>4. CASE Prepare
  BY <1>4, <1>2 DEF Prepare, Answer, pool
<1>5. CASE CheckIdentity
  BY <1>5, <1>2 DEF CheckIdentity, Answer, pool
<1>6. CASE Spawn
  <2>1. spawning \in Worker /\ spawning + 1 \in 1 .. Authorized + 1
    BY <1>6, <1>1, PoolAssumption DEF Spawn, worker_count, worker_limit, Worker
  <2>2. Append(handles, spawning) \in Seq(Worker)
    BY <2>1
  <2>3. [pc EXCEPT ![spawning] = "claim"] \in [Worker -> WorkerStates]
    BY <2>1
  <2>4. handles' \in Seq(Worker) /\ pc' \in [Worker -> WorkerStates]
    BY <1>6, <2>2, <2>3 DEF Spawn
  <2> QED BY <1>6, <2>1, <2>4 DEF Spawn
<1>7. CASE BecomeWorker
  BY <1>7, <1>1 DEF BecomeWorker
<1>8. ASSUME NEW w \in Worker, WorkerStep(w) PROVE TypeOK'
  <2>1. CASE Claim(w)
    <3>1. next_ordinal \in Ordinals(batch) /\ next_ordinal + 1 \in 1 .. Len(batch) + 1
      BY <2>1, <1>1 DEF Claim
    <3>2. calls' \in [Ordinals(batch) -> Nat]
      <4>0. calls \in [Ordinals(batch) -> Nat]
        BY DEF TypeOK
      <4>1. calls[next_ordinal] + 1 \in Nat
        BY ONLY <3>1, <4>0
      <4> QED BY <2>1, <3>1, <4>1 DEF Claim
    <3>3. job' \in [Worker -> 0 .. Len(batch)] /\ pc' \in [Worker -> WorkerStates]
      BY <2>1, <3>1, <1>1 DEF Claim
    <3> QED BY <2>1, <3>1, <3>2, <3>3 DEF Claim, callerState
  <2>2. CASE ClaimNone(w)
    BY <2>2 DEF ClaimNone, callerState
  <2>3. CASE SignReturns(w)
    <3>1. [job |-> job[w], outcome |-> OutcomeOf(batch[job[w]].fate)] \in Result
      BY <1>1 DEF Result, OutcomeOf, Outcomes
    <3>2. local' \in [Worker -> Seq(Result)]
      BY <2>3, <3>1 DEF SignReturns
    <3> QED BY <2>3, <3>2 DEF SignReturns, callerState
  <2>4. CASE SignPanics(w)
    <3>1. <<>> \in Seq(Result)
      OBVIOUS
    <3> QED BY <2>4, <3>1 DEF SignPanics, callerState
  <2>5. CASE RecordPanic(w)
    BY <2>5 DEF RecordPanic, callerState
  <2> QED BY <1>8, <2>1, <2>2, <2>3, <2>4, <2>5 DEF WorkerStep
<1>9. CASE BeginJoin
  BY <1>9, <1>1 DEF BeginJoin, afterWork
<1>10. CASE Join
  <2>1. Head(handles) \in Worker /\ Tail(handles) \in Seq(Worker)
    BY <1>10 DEF Join
  <2>2. results' \in Seq(Result)
    BY <1>10, <2>1 DEF Join
  <2> QED BY <1>10, <2>1, <2>2 DEF Join, afterWork
<1>11. CASE LeaveScope
  <2>1. first_panic # 0 => Unwind(first_panic) \in Verdicts(batch)
    BY <1>2
  <2> QED BY <1>11, <2>1 DEF LeaveScope, afterWork, Answer
<1>12. CASE Recheck
  BY <1>12, <1>2, FinalAnswerTyped DEF Recheck, Answer, pool
<1>13. CASE Drift
  BY <1>13 DEF Drift, pool
<1>14. CASE UNCHANGED vars
  BY <1>14 DEF vars
<1> QED
  BY <1>3, <1>4, <1>5, <1>6, <1>7, <1>8, <1>9, <1>10, <1>11, <1>12, <1>13, <1>14
  DEF Next, CallerStep, Returned

\* The claim counter and the calls move together.
LEMMA StepCalls ==
    ASSUME TypeOK, CallsFollowCounter, [Next]_vars
    PROVE  /\ CallsFollowCounter'
           /\ batch' = batch
           /\ \A i \in Ordinals(batch) : calls[i] > 0 => calls'[i] > 0
<1>1. CASE UNCHANGED <<batch, next_ordinal, calls>>
  BY <1>1 DEF CallsFollowCounter, Ordinals
<1>2. ASSUME NEW w \in Worker, Claim(w)
      PROVE  /\ CallsFollowCounter'
             /\ batch' = batch
             /\ \A i \in Ordinals(batch) : calls[i] > 0 => calls'[i] > 0
  <2>1. /\ batch' = batch
        /\ next_ordinal' = next_ordinal + 1
        /\ calls' = [calls EXCEPT ![next_ordinal] = @ + 1]
        /\ next_ordinal \in Nat
        /\ calls \in [Ordinals(batch) -> Nat]
        /\ next_ordinal \in Ordinals(batch)
    BY <1>2 DEF Claim, callerState, TypeOK, Ordinals
  <2>2. calls[next_ordinal] = 0
    BY <2>1 DEF CallsFollowCounter, Ordinals
  <2>3. \A i \in Ordinals(batch) : calls'[i] = IF i = next_ordinal THEN 1 ELSE calls[i]
    BY <2>1, <2>2
  <2> QED BY <2>1, <2>3 DEF CallsFollowCounter, Ordinals
<1>3. \/ UNCHANGED <<batch, next_ordinal, calls>>
      \/ \E w \in Worker : Claim(w)
  BY DEF Next, CallerStep, WorkerStep, Returned, vars, pool, callerState, afterWork, execution,
         NewScope, Prepare, CheckIdentity, Spawn, BecomeWorker, ClaimNone, SignReturns,
         SignPanics, RecordPanic, BeginJoin, Join, LeaveScope, Recheck, Drift
<1> QED BY <1>1, <1>2, <1>3

\* A worker in the signer holds a job that was claimed.
LEMMA StepJobsClaimed ==
    ASSUME TypeOK, CallsFollowCounter, JobsClaimed, [Next]_vars
    PROVE  JobsClaimed'
<1> SUFFICES ASSUME NEW v \in Worker
             PROVE  /\ (pc[v] \in {"sign", "unwind"})' =>
                          (job[v] \in Ordinals(batch) /\ calls[job[v]] > 0)'
                    /\ (pc[v] = "unwind")' => (batch[job[v]].fate = "panicking")'
  BY DEF JobsClaimed
<1> USE DEF JobsClaimed
<1>1. CASE pc'[v] = pc[v] /\ job'[v] = job[v]
  BY <1>1, StepCalls
<1>2. CASE pc'[v] \notin {"sign", "unwind"}
  BY <1>2
<1>3. CASE Claim(v)
  <2>1. /\ pc'[v] = "sign" /\ job'[v] = next_ordinal /\ batch' = batch
        /\ next_ordinal \in Ordinals(batch)
        /\ calls' = [calls EXCEPT ![next_ordinal] = @ + 1]
        /\ calls \in [Ordinals(batch) -> Nat]
    BY <1>3 DEF Claim, callerState, TypeOK, Ordinals
  <2>2. calls'[next_ordinal] > 0
    BY ONLY <2>1
  <2> QED BY <2>1, <2>2
<1>4. CASE SignPanics(v)
  BY <1>4 DEF SignPanics, callerState, TypeOK
<1>5. \/ pc'[v] = pc[v] /\ job'[v] = job[v]
      \/ pc'[v] \notin {"sign", "unwind"}
      \/ Claim(v)
      \/ SignPanics(v)
  <2>1. pc \in [Worker -> WorkerStates] /\ job \in [Worker -> 0 .. Len(batch)]
    BY DEF TypeOK
  <2>2. CASE UNCHANGED <<pc, job>>
    BY <2>2
  <2>3. CASE Spawn \/ BecomeWorker
    BY <2>1, <2>3 DEF Spawn, BecomeWorker
  <2>4. ASSUME NEW w \in Worker, WorkerStep(w), w # v
        PROVE  pc'[v] = pc[v] /\ job'[v] = job[v]
    BY <2>1, <2>4 DEF WorkerStep, Claim, ClaimNone, SignReturns, SignPanics, RecordPanic
  <2>5. CASE WorkerStep(v)
    BY <2>1, <2>5 DEF WorkerStep, ClaimNone, SignReturns, RecordPanic
  <2>6. \/ UNCHANGED <<pc, job>> \/ Spawn \/ BecomeWorker \/ \E w \in Worker : WorkerStep(w)
    BY DEF Next, CallerStep, Returned, vars, pool, afterWork, NewScope, Prepare, CheckIdentity,
           BeginJoin, Join, LeaveScope, Recheck, Drift
  <2> QED BY <2>2, <2>3, <2>4, <2>5, <2>6
<1> QED BY <1>1, <1>2, <1>3, <1>4, <1>5

\* Which workers run follows the phase of the caller.
LEMMA StepPoolShape ==
    ASSUME TypeOK, PoolShape, PanicTracked, [Next]_vars
    PROVE  PoolShape'
<1> USE DEF PoolShape, Running, Held
<1>1. /\ pc \in [Worker -> WorkerStates] /\ handles \in Seq(Worker) /\ Caller \in Worker
      /\ phase \in Phases
  BY PoolAssumption DEF TypeOK, Caller, Worker
<1>2. CASE NewScope \/ Prepare
  BY <1>1, <1>2 DEF NewScope, Prepare, Answer, pool, execution
<1>3. CASE CheckIdentity
  BY <1>1, <1>3 DEF CheckIdentity, Answer, pool, execution
<1>4. CASE Spawn
  <2>1. spawning \in Worker /\ spawning # Caller
    BY <1>4, PoolAssumption, ErrorsTyped DEF Spawn, TypeOK, worker_count, worker_limit, Worker, Caller
  <2>2. CASE UNCHANGED <<handles, pc>>
    <3>1. Worker \subseteq Int
      BY PoolAssumption DEF Worker
    <3> QED BY <1>4, <2>1, <2>2, <3>1 DEF Spawn
  <2>3. CASE handles' = Append(handles, spawning) /\ pc' = [pc EXCEPT ![spawning] = "claim"]
    <3>1. /\ Len(handles') = Len(handles) + 1
          /\ handles'[Len(handles) + 1] = spawning
          /\ \A k \in 1 .. Len(handles) : handles'[k] = handles[k]
          /\ Len(handles) \in Nat
      BY <1>1, <2>1, <2>3
    <3>2. \A w \in Worker : w # spawning => pc'[w] = pc[w]
      BY <1>1, <2>3
    <3>3. \E k \in 1 .. Len(handles') : handles'[k] = spawning
      <4>1. Len(handles) + 1 \in 1 .. Len(handles')
        BY <3>1
      <4> QED BY <3>1, <4>1
    <3>4. ASSUME NEW w \in Worker, Held(w) PROVE Held(w)'
      BY <3>1, <3>4
    <3>5. \A w \in Worker \ {Caller} : Running(w)' => Held(w)'
      BY <1>4, <3>2, <3>3, <3>4 DEF Spawn
    <3>6. \A w \in Worker : w = Caller \/ w >= spawning + 1 => w # spawning /\ pc'[w] = "unstarted"
      <4>1. Worker \subseteq Int
        BY PoolAssumption DEF Worker
      <4> QED BY <1>4, <2>1, <3>2, <4>1 DEF Spawn
    <3> QED BY <1>1, <1>4, <2>1, <3>5, <3>6 DEF Spawn
  <2> QED BY <1>4, <2>2, <2>3 DEF Spawn
<1>5. CASE BecomeWorker
  BY <1>1, <1>5 DEF BecomeWorker
<1>6. ASSUME NEW w \in Worker, WorkerStep(w) PROVE PoolShape'
  <2>1. Running(w) /\ UNCHANGED <<phase, handles, spawning>>
    BY <1>6 DEF WorkerStep, Claim, ClaimNone, SignReturns, SignPanics, RecordPanic, callerState
  <2>2. \A v \in Worker : v # w => pc'[v] = pc[v]
    BY <1>1, <1>6 DEF WorkerStep, Claim, ClaimNone, SignReturns, SignPanics, RecordPanic
  <2>3. phase \in {"spawn", "work", "join"} /\ (w = Caller => phase = "work")
    BY <1>1, <2>1 DEF Phases
  <2>4. \A v \in Worker \ {Caller} : Running(v)' => Held(v)'
    BY <2>1, <2>2, <2>3
  <2>5. /\ phase = "join" => pc'[Caller] = pc[Caller]
        /\ phase = "spawn" =>
              \A v \in Worker : v = Caller \/ v >= spawning => pc'[v] = "unstarted"
    BY <1>1, <2>1, <2>2, <2>3
  <2> QED BY <2>1, <2>3, <2>4, <2>5
<1>7. CASE BeginJoin
  BY <1>7 DEF BeginJoin, afterWork
<1>8. CASE Join
  <2>1. /\ Head(handles) = handles[1] /\ Len(handles) \in Nat /\ Len(handles) >= 1
        /\ Len(Tail(handles)) = Len(handles) - 1
        /\ \A k \in 1 .. Len(Tail(handles)) : Tail(handles)[k] = handles[k + 1]
    BY <1>1, <1>8 DEF Join
  <2>2. ASSUME NEW w \in Worker, w # Head(handles), Held(w) PROVE Held(w)'
    <3>1. PICK k \in 1 .. Len(handles) : handles[k] = w
      BY <2>2
    <3>2. k - 1 \in 1 .. Len(Tail(handles)) /\ Tail(handles)[k - 1] = w
      BY <2>1, <2>2, <3>1
    <3> QED BY <1>8, <3>2 DEF Join
  <2>3. \A w \in Worker \ {Caller} : Running(w)' => Held(w)'
    BY <1>8, <2>2 DEF Join, afterWork
  <2> QED BY <1>8, <2>3 DEF Join, afterWork
<1>9. CASE LeaveScope
  <2>1. \A w \in Worker : ~Running(w)
    BY <1>9 DEF LeaveScope
  <2>2. \A w \in Worker : pc[w] \in {"unstarted", "finished"}
    BY <1>1, <2>1 DEF WorkerStates
  <2> QED BY <1>9, <2>2 DEF LeaveScope, afterWork, Answer
<1>10. CASE Recheck
  BY <1>10 DEF Recheck, Answer, pool
<1>11. CASE Drift
  BY <1>11 DEF Drift, pool, execution
<1>12. CASE UNCHANGED vars
  BY <1>12 DEF vars, execution
<1> QED
  BY <1>2, <1>3, <1>4, <1>5, <1>6, <1>7, <1>8, <1>9, <1>10, <1>11, <1>12
  DEF Next, CallerStep, Returned

\* A panic is on its way or recorded, never dropped.
LEMMA StepPanics ==
    ASSUME TypeOK, CallsFollowCounter, JobsClaimed, PoolShape, PanicTracked, PanicSurfaces,
           [Next]_vars
    PROVE  PanicTracked' /\ PanicSurfaces'
<1> USE DEF PanicTracked, PanicSurfaces, With
<1>1. /\ batch' = batch
      /\ pc \in [Worker -> WorkerStates] /\ job \in [Worker -> 0 .. Len(batch)]
      /\ calls \in [Ordinals(batch) -> Nat]
      /\ Len(batch) \in Nat
  BY StepCalls, ErrorsTyped DEF TypeOK
\* before the pool runs nothing was called, so an early answer hides no panic
<1>2. CASE phase \in {"new", "ready", "prepared"} /\ UNCHANGED <<calls, first_panic>>
             /\ (phase' # "done" => verdict' = verdict) 
  <2>1. \A i \in Ordinals(batch) : calls[i] = 0
    BY <1>1, <1>2 DEF CallsFollowCounter, PoolShape, Ordinals
  <2> QED BY <1>1, <1>2, <2>1 DEF PoolShape
<1>3. CASE UNCHANGED <<phase, calls, first_panic, pc, job, verdict>>
  BY <1>1, <1>3
<1>4. CASE Spawn \/ BecomeWorker
  <2>1. UNCHANGED <<calls, first_panic, job, verdict>> /\ phase' # "done" /\ phase' # "recheck" /\ phase # "done"
    BY <1>4 DEF Spawn, BecomeWorker, execution
  <2>2. ASSUME NEW w \in Worker, pc[w] \in {"sign", "unwind"} PROVE pc'[w] = pc[w]
    <3>1. CASE BecomeWorker
      BY <1>1, <2>2, <3>1 DEF BecomeWorker, PoolShape
    <3>2. CASE Spawn
      <4>1. w # spawning
        <5>1. w \in Int /\ spawning \in Int
          BY PoolAssumption DEF TypeOK, Worker
        <5> QED BY <2>2, <3>2, <5>1 DEF Spawn, PoolShape
      <4> QED BY <1>1, <3>2, <4>1 DEF Spawn
    <3> QED BY <1>4, <3>1, <3>2
  <2> QED BY <1>1, <2>1, <2>2
<1>5. ASSUME NEW w \in Worker, WorkerStep(w) PROVE PanicTracked' /\ PanicSurfaces'
  <2>1. /\ UNCHANGED <<phase, verdict>> /\ phase # "done" /\ phase # "recheck"
        /\ \A v \in Worker : v # w => pc'[v] = pc[v] /\ job'[v] = job[v]
    <3>1. UNCHANGED <<phase, verdict>> /\ pc[w] \notin {"unstarted", "finished"}
      BY <1>5 DEF WorkerStep, Claim, ClaimNone, SignReturns, SignPanics, RecordPanic, callerState
    <3>2. \A v \in Worker : v # w => pc'[v] = pc[v] /\ job'[v] = job[v]
      BY <1>1, <1>5 DEF WorkerStep, Claim, ClaimNone, SignReturns, SignPanics, RecordPanic
    <3> QED BY <3>1, <3>2 DEF PoolShape
  <2>2. CASE Claim(w)
    <3>1. /\ first_panic' = first_panic /\ pc'[w] = "sign" /\ job'[w] = next_ordinal
          /\ pc[w] = "claim" /\ next_ordinal \in Ordinals(batch)
          /\ calls' = [calls EXCEPT ![next_ordinal] = @ + 1]
      BY <1>1, <2>2 DEF Claim, TypeOK, Ordinals
    <3>2. \A i \in Ordinals(batch) : i # next_ordinal => calls'[i] = calls[i]
      BY ONLY <1>1, <3>1
    <3>3. \A i \in Ordinals(batch) : calls[i] > 0 => calls'[i] > 0
      BY StepCalls
    <3>4. ASSUME NEW i \in With(batch, {"panicking"}), calls'[i] > 0
          PROVE  \/ first_panic' # 0
                 \/ \E v \in Worker : pc'[v] \in {"sign", "unwind"} /\ job'[v] = i
      <4>1. CASE i = next_ordinal
        BY <3>1, <4>1
      <4>2. CASE i # next_ordinal
        BY <2>1, <3>1, <3>2, <3>4, <4>2
      <4> QED BY <4>1, <4>2
    <3> QED BY <1>1, <2>1, <3>1, <3>3, <3>4
  <2>3. CASE ClaimNone(w) \/ SignReturns(w)
    <3>1. /\ UNCHANGED <<first_panic, calls, job>>
          /\ pc[w] \in {"sign", "unwind"} => batch[job[w]].fate # "panicking"
      BY <2>3 DEF ClaimNone, SignReturns, execution
    <3> QED BY <1>1, <2>1, <3>1
  <2>4. CASE SignPanics(w)
    <3>1. UNCHANGED <<first_panic, calls, job>> /\ pc'[w] = "unwind"
      BY <1>1, <2>4 DEF SignPanics, execution
    <3> QED BY <1>1, <2>1, <3>1
  <2>5. CASE RecordPanic(w)
    <3>1. /\ UNCHANGED <<calls, job>>
          /\ pc[w] = "unwind" /\ batch[job[w]].fate = "panicking"
          /\ job[w] \in Ordinals(batch) /\ calls[job[w]] > 0
          /\ first_panic' = IF first_panic = 0 THEN job[w] ELSE first_panic
      BY <2>5 DEF RecordPanic, JobsClaimed
    <3>2. first_panic' # 0
      BY <1>1, <3>1 DEF Ordinals
    <3> QED BY <1>1, <2>1, <3>1, <3>2
  <2> QED BY <1>5, <2>2, <2>3, <2>4, <2>5 DEF WorkerStep
<1>6. CASE BeginJoin \/ Join
  <2>1. UNCHANGED <<calls, first_panic, pc, job, verdict>> /\ phase' = "join" /\ phase # "done"
    BY <1>6 DEF BeginJoin, Join, afterWork, execution
  <2> QED BY <1>1, <2>1
\* all workers are joined: a called panicking job has been recorded
<1>7. CASE LeaveScope
  <2>1. /\ UNCHANGED <<calls, first_panic, pc, job>>
        /\ IF first_panic # 0 THEN phase' = "done" /\ verdict' = Unwind(first_panic)
                              ELSE phase' = "recheck" /\ UNCHANGED verdict
        /\ phase = "join" /\ handles = <<>>
    BY <1>7 DEF LeaveScope, afterWork, execution, Answer
  <2> QED BY <1>1, <2>1
<1>8. CASE Recheck
  <2>1. /\ UNCHANGED <<calls, first_panic, pc, job>> /\ phase' = "done" /\ phase = "recheck"
    BY <1>8 DEF Recheck, pool, execution, Answer
  <2>2. \A i \in With(batch, {"panicking"}) : ~ (calls[i] > 0)
    BY <2>1 DEF PoolShape
  <2> QED BY <1>1, <2>1, <2>2
<1> QED
  <2>1. CASE NewScope \/ Prepare \/ CheckIdentity
    BY <1>2, <2>1 DEF NewScope, Prepare, CheckIdentity, pool, execution, Answer
  <2>2. CASE Drift \/ UNCHANGED vars
    BY <1>3, <2>2 DEF Drift, pool, execution, vars
  <2> QED
    BY <1>4, <1>5, <1>6, <1>7, <1>8, <2>1, <2>2 DEF Next, CallerStep, Returned

-----------------------------------------------------------------------------

\* Every step keeps the invariant.
LEMMA NextIInv == IInv /\ [Next]_vars => IInv'
  BY StepTypeOK, StepCalls, StepJobsClaimed, StepPoolShape, StepPanics DEF IInv

\* The invariant holds in every state.
LEMMA Invariance == Spec => []IInv
<1>1. Init => IInv
  BY InitIInv
<1>2. IInv /\ [Next]_vars => IInv'
  BY NextIInv
<1> QED BY <1>1, <1>2, PTL DEF Spec

\* Type correctness of the scope, the pool and the execution state.
THEOREM TypeCorrect == Spec => []TypeOK
<1>1. IInv => TypeOK
  BY DEF IInv
<1> QED BY <1>1, Invariance, PTL

\* No job is handed to the signer twice, for any number of jobs and workers.
THEOREM AtMostOnceCorrect == Spec => []SignedAtMostOnce
<1>1. IInv => SignedAtMostOnce
  BY DEF IInv, CallsFollowCounter, SignedAtMostOnce
<1> QED BY <1>1, Invariance, PTL

\* No worker outlives the call that started it.
THEOREM JoinedCorrect == Spec => []JoinedBeforeReturn
<1>1. IInv => JoinedBeforeReturn
  BY DEF IInv, PoolShape, JoinedBeforeReturn
<1> QED BY <1>1, Invariance, PTL

\* A signer panic reaches the caller, whatever else happened to the batch.
THEOREM PanicCorrect == Spec => []PanicSurfaces
<1>1. IInv => PanicSurfaces
  BY DEF IInv
<1> QED BY <1>1, Invariance, PTL

-----------------------------------------------------------------------------
(* The envelope of results: no result is lost or doubled on its way from a *)
(* worker's vector to the caller.                                          *)

Jobs(s) == {s[p].job : p \in 1 .. Len(s)}

\* A results vector answers each of its jobs once, with what the signer did.
Answers(b, r) ==
    r.job \in Ordinals(b) /\ r.outcome = OutcomeOf(b[r.job].fate) /\ b[r.job].fate # "panicking"
Sound(b, s) ==
    /\ \A p, q \in 1 .. Len(s) : s[p].job = s[q].job => p = q
    /\ \A p \in 1 .. Len(s) : Answers(b, s[p])

InFlight(w) == pc[w] \in {"sign", "unwind"}

\* Workers whose vector the caller has not collected yet.
Unjoined(w) == Held(w) \/ (w = Caller /\ phase \notin {"join", "recheck", "done"})

\* The handles name different workers, none of them the caller.
HandlesOnce ==
    /\ \A k, l \in 1 .. Len(handles) : handles[k] = handles[l] => k = l
    /\ \A k \in 1 .. Len(handles) : handles[k] # Caller /\ handles[k] < spawning

\* A job is in one place: inside one signer call, or in one vector.
OnePlace ==
    /\ Sound(batch, results) /\ \A w \in Worker : Sound(batch, local[w])
    /\ \A i \in Jobs(results) : i < next_ordinal
    /\ \A w \in Worker : \A i \in Jobs(local[w]) : i < next_ordinal
    /\ \A w, v \in Worker : w # v => Jobs(local[w]) \cap Jobs(local[v]) = {}
    /\ \A w \in Worker : Unjoined(w) => Jobs(local[w]) \cap Jobs(results) = {}
    /\ \A w \in Worker : InFlight(w) =>
          /\ job[w] \notin Jobs(results)
          /\ \A v \in Worker : job[w] \notin Jobs(local[v]) /\ (InFlight(v) /\ job[v] = job[w] => v = w)

\* Where a claimed job can be found.
Found(i) ==
    \/ i \in Jobs(results)
    \/ \E w \in Worker : Unjoined(w) /\ i \in Jobs(local[w])
    \/ \E w \in Worker : pc[w] = "sign" /\ job[w] = i

\* While nothing has panicked, every claimed job is somewhere.
NothingLost ==
    first_panic = 0 /\ (\A w \in Worker : pc[w] # "unwind") =>
        \A i \in Ordinals(batch) : i < next_ordinal => Found(i)

\* Where the caller is tells what it has prepared and collected.
Progress ==
    /\ phase \notin {"new", "ready", "done"} => Preflight(batch) = Credentials
    /\ phase \in {"new", "ready", "prepared"} => handles = <<>>
    /\ phase \in {"new", "ready", "prepared", "spawn", "work"} => results = <<>>
    /\ stopped => first_panic # 0
    /\ \A w \in Worker : pc[w] = "finished" => first_panic # 0 \/ next_ordinal = Len(batch) + 1
    /\ phase = "recheck" => handles = <<>> /\ next_ordinal = Len(batch) + 1

Collected == HandlesOnce /\ OnePlace /\ NothingLost /\ Progress

-----------------------------------------------------------------------------
(* Results vectors.                                                        *)

\* A new vector is empty.
LEMMA EmptySound == \A b : Sound(b, <<>>) /\ Jobs(<<>>) = {}
BY DEF Sound, Jobs

\* results.push of a job that is not in the vector yet.
LEMMA AppendSound ==
    ASSUME NEW b, NEW s \in Seq(Result), NEW r \in Result,
           Sound(b, s), Answers(b, r), r.job \notin Jobs(s)
    PROVE  Sound(b, Append(s, r)) /\ Jobs(Append(s, r)) = Jobs(s) \cup {r.job}
<1> DEFINE t == Append(s, r)
<1>1. /\ Len(s) \in Nat /\ Len(t) = Len(s) + 1 /\ t[Len(s) + 1] = r
      /\ \A p \in 1 .. Len(s) : t[p] = s[p]
    OBVIOUS
<1>2. \A p \in 1 .. Len(t) : p \in 1 .. Len(s) \/ p = Len(s) + 1
    BY <1>1
<1>3. \A p \in 1 .. Len(s) : s[p].job # r.job
    BY DEF Jobs
<1> HIDE DEF t
<1>4. Sound(b, t)
    BY <1>1, <1>2, <1>3 DEF Sound
<1>5. Jobs(t) = Jobs(s) \cup {r.job}
  <2>1. \A p \in 1 .. Len(t) : t[p].job \in Jobs(s) \cup {r.job}
    BY <1>1, <1>2 DEF Jobs
  <2>2. \A p \in 1 .. Len(s) : p \in 1 .. Len(t) /\ t[p].job = s[p].job
    BY <1>1
  <2>3. Len(s) + 1 \in 1 .. Len(t)
    BY <1>1
  <2> QED
    BY <1>1, <2>1, <2>2, <2>3 DEF Jobs
<1> QED
    BY <1>4, <1>5 DEF t

\* The caller extends its vector by the one of a joined worker.
LEMMA ConcatSound ==
    ASSUME NEW b, NEW s \in Seq(Result), NEW t \in Seq(Result),
           Sound(b, s), Sound(b, t), Jobs(s) \cap Jobs(t) = {}
    PROVE  Sound(b, s \o t) /\ Jobs(s \o t) = Jobs(s) \cup Jobs(t)
<1> DEFINE u == s \o t
<1>1. /\ Len(s) \in Nat /\ Len(t) \in Nat /\ Len(u) = Len(s) + Len(t)
      /\ \A p \in 1 .. Len(s) : u[p] = s[p]
      /\ \A p \in 1 .. Len(u) : p > Len(s) => u[p] = t[p - Len(s)]
    OBVIOUS
<1> HIDE DEF u
<1>2. \A p \in 1 .. Len(u) :
          \/ p \in 1 .. Len(s) /\ u[p] = s[p]
          \/ p > Len(s) /\ p - Len(s) \in 1 .. Len(t) /\ u[p] = t[p - Len(s)]
    BY <1>1
<1>3. \A p \in 1 .. Len(s), q \in 1 .. Len(t) : s[p].job # t[q].job
    BY DEF Jobs
<1>4. Sound(b, u)
  <2>1. \A p \in 1 .. Len(u) : Answers(b, u[p])
    BY <1>2 DEF Sound
  <2>2. ASSUME NEW p \in 1 .. Len(u), NEW q \in 1 .. Len(u), u[p].job = u[q].job PROVE p = q
    <3>1. CASE p \in 1 .. Len(s) /\ q \in 1 .. Len(s)
      BY <1>1, <2>2, <3>1 DEF Sound
    <3>2. CASE p > Len(s) /\ q > Len(s)
      <4>1. /\ p - Len(s) \in 1 .. Len(t) /\ q - Len(s) \in 1 .. Len(t)
            /\ t[p - Len(s)].job = t[q - Len(s)].job
        BY <1>1, <1>2, <2>2, <3>2
      <4>2. p - Len(s) = q - Len(s)
        BY <4>1 DEF Sound
      <4> QED
        BY <1>1, <4>2
    <3> QED
      BY <1>1, <1>2, <1>3, <2>2, <3>1, <3>2
  <2> QED
    BY <2>1, <2>2 DEF Sound
<1>5. Jobs(u) = Jobs(s) \cup Jobs(t)
  <2>1. \A p \in 1 .. Len(u) : u[p].job \in Jobs(s) \cup Jobs(t)
    BY <1>2 DEF Jobs
  <2>2. \A p \in 1 .. Len(s) : p \in 1 .. Len(u) /\ u[p].job = s[p].job
    BY <1>1
  <2>3. \A p \in 1 .. Len(t) : p + Len(s) \in 1 .. Len(u) /\ u[p + Len(s)].job = t[p].job
    BY <1>1
  <2>4. Jobs(s) \subseteq Jobs(u)
    BY <2>2 DEF Jobs
  <2>5. Jobs(t) \subseteq Jobs(u)
    <3> SUFFICES ASSUME NEW q \in 1 .. Len(t) PROVE t[q].job \in Jobs(u)
      BY DEF Jobs
    <3> QED
      BY <2>3 DEF Jobs
  <2>6. Jobs(u) \subseteq Jobs(s) \cup Jobs(t)
    BY <2>1 DEF Jobs
  <2> QED
    BY <2>4, <2>5, <2>6
<1> QED
    BY <1>4, <1>5 DEF u

-----------------------------------------------------------------------------
(* Each step keeps the envelope together.                                  *)

\* spawn appends handles of increasing workers, join removes the first.
LEMMA StepHandlesOnce ==
    ASSUME TypeOK, HandlesOnce, [Next]_vars
    PROVE  HandlesOnce'
<1> USE DEF HandlesOnce
<1>0. handles \in Seq(Worker) /\ spawning \in Nat /\ spawning > 0
    BY PoolAssumption DEF TypeOK
<1>1. /\ handles \in Seq(Worker) /\ spawning \in Nat /\ spawning > 0
      /\ \A k \in 1 .. Len(handles) : handles[k] \in Int
  <2>1. \A k \in 1 .. Len(handles) : handles[k] \in Worker
    BY ONLY <1>0
  <2>2. \A w \in Worker : w \in Int
    BY PoolAssumption DEF Worker
  <2> QED
    BY ONLY <1>0, <2>1, <2>2
<1>2. CASE UNCHANGED <<handles, spawning>>
    BY <1>2
<1>3. CASE Spawn
  <2>1. CASE UNCHANGED handles
    BY <1>1, <1>3, <2>1 DEF Spawn
  <2>2. CASE handles' = Append(handles, spawning)
    <3>1. /\ Len(handles) \in Nat /\ Len(handles') = Len(handles) + 1
          /\ handles'[Len(handles) + 1] = spawning
          /\ \A k \in 1 .. Len(handles) : handles'[k] = handles[k]
      BY <1>1, <2>2
    <3>2. spawning' = spawning + 1
      BY <1>3 DEF Spawn
    <3> QED
      BY <1>1, <3>1, <3>2 DEF Caller
  <2> QED
    BY <1>3, <2>1, <2>2 DEF Spawn
<1>4. CASE Join
  <2>1. /\ Len(handles) \in Nat /\ Len(Tail(handles)) = Len(handles) - 1
        /\ \A k \in 1 .. Len(Tail(handles)) : Tail(handles)[k] = handles[k + 1]
        /\ handles' = Tail(handles) /\ spawning' = spawning
    BY <1>1, <1>4 DEF Join, afterWork
  <2> QED
    BY <2>1
<1> QED
    BY <1>2, <1>3, <1>4
    DEF Next, CallerStep, WorkerStep, Returned, vars, pool, callerState, afterWork,
        NewScope, Prepare, CheckIdentity, BecomeWorker, Claim, ClaimNone, SignReturns,
        SignPanics, RecordPanic, BeginJoin, LeaveScope, Recheck, Drift

\* A worker inside the signer holds a job below the shared counter.
LEMMA ClaimedBelow ==
    ASSUME TypeOK, CallsFollowCounter, JobsClaimed, NEW w \in Worker, InFlight(w)
    PROVE  job[w] \in Ordinals(batch) /\ job[w] < next_ordinal
BY DEF JobsClaimed, InFlight, CallsFollowCounter

\* A running worker is one the caller has not collected.
LEMMA RunningUnjoined ==
    ASSUME TypeOK, PoolShape, NEW w \in Worker, Running(w)
    PROVE  Unjoined(w) /\ phase \in {"spawn", "work", "join"}
BY DEF PoolShape, Unjoined, Running, TypeOK, Phases

\* A job moves from the counter into one call, from there into that worker's
\* vector, and with the whole vector to the caller.
LEMMA StepOnePlace ==
    ASSUME IInv, HandlesOnce, OnePlace, Progress, [Next]_vars
    PROVE  OnePlace'
<1>0. /\ TypeOK /\ batch' = batch /\ next_ordinal \in Nat
      /\ local \in [Worker -> Seq(Result)] /\ results \in Seq(Result)
      /\ pc \in [Worker -> WorkerStates] /\ job \in [Worker -> 0 .. Len(batch)]
      /\ handles \in Seq(Worker) /\ Caller \in Worker
  <2>1. batch' = batch
    BY StepCalls DEF IInv
  <2>2. Caller \in Worker
    BY PoolAssumption DEF Caller, Worker
  <2> QED
    BY <2>1, <2>2, ErrorsTyped DEF IInv, TypeOK
<1>1. \A w \in Worker : InFlight(w) => job[w] \in Ordinals(batch) /\ job[w] < next_ordinal
    BY <1>0, ClaimedBelow DEF IInv
\* nothing is claimed, written or collected
<1>2. ASSUME UNCHANGED <<results, local, next_ordinal, job>>,
             \A w \in Worker : InFlight(w)' => InFlight(w),
             \A w \in Worker : Unjoined(w)' => Unjoined(w) \/ results = <<>>
      PROVE  OnePlace'
    BY <1>0, <1>2, EmptySound DEF OnePlace
<1>3. ASSUME NEW w \in Worker, Claim(w) PROVE OnePlace'
  <2>1. /\ UNCHANGED <<results, local, handles, phase>>
        /\ next_ordinal' = next_ordinal + 1
        /\ job' = [job EXCEPT ![w] = next_ordinal] /\ pc' = [pc EXCEPT ![w] = "sign"]
    BY <1>3 DEF Claim, callerState
  <2>2. \A v \in Worker : Unjoined(v)' <=> Unjoined(v)
    BY <2>1 DEF Unjoined, Held
  <2>3. \A v \in Worker : v # w => (InFlight(v)' <=> InFlight(v)) /\ job'[v] = job[v]
    BY <1>0, <2>1 DEF InFlight
  <2>4. InFlight(w)' /\ job'[w] = next_ordinal
    BY <1>0, <2>1 DEF InFlight
  <2>5. /\ \A i \in Jobs(results) : i \in Nat /\ i < next_ordinal
        /\ \A v \in Worker : \A i \in Jobs(local[v]) : i \in Nat /\ i < next_ordinal
    <3>1. \A s : Sound(batch, s) => \A i \in Jobs(s) : i \in Nat
      BY <1>0, ErrorsTyped DEF Jobs, Sound, Answers, Ordinals
    <3> QED
      BY <1>0, <3>1 DEF OnePlace
  <2>6. /\ \A i \in Jobs(results) : i < next_ordinal + 1 /\ i # next_ordinal
        /\ \A v \in Worker : \A i \in Jobs(local[v]) : i < next_ordinal + 1 /\ i # next_ordinal
    BY <1>0, <2>5
  <2>7. \A v \in Worker : InFlight(v) => job[v] # next_ordinal
    BY <1>0, <1>1
  <2> QED
    BY <1>0, <2>1, <2>2, <2>3, <2>4, <2>6, <2>7 DEF OnePlace
<1>4. ASSUME NEW w \in Worker, SignReturns(w) PROVE OnePlace'
  <2> DEFINE r == [job |-> job[w], outcome |-> OutcomeOf(batch[job[w]].fate)]
  <2>1. /\ UNCHANGED <<results, handles, phase, next_ordinal, job>>
        /\ local' = [local EXCEPT ![w] = Append(local[w], r)]
        /\ pc' = [pc EXCEPT ![w] = "claim"] /\ InFlight(w)
        /\ batch[job[w]].fate # "panicking"
    BY <1>4 DEF SignReturns, callerState, execution, InFlight
  <2>2. \A v \in Worker : Unjoined(v)' <=> Unjoined(v)
    BY <2>1 DEF Unjoined, Held
  <2>3. ~InFlight(w)' /\ \A v \in Worker : v # w => (InFlight(v)' <=> InFlight(v))
    BY <1>0, <2>1 DEF InFlight
  <2>4. r \in Result /\ Answers(batch, r)
    BY <1>0, <1>1, <2>1 DEF Result, Answers, OutcomeOf, Outcomes, Ordinals
  <2>5. Sound(batch, local'[w]) /\ Jobs(local'[w]) = Jobs(local[w]) \cup {job[w]}
    <3>1. local'[w] = Append(local[w], r) /\ local[w] \in Seq(Result)
      BY <1>0, <2>1
    <3>2. Sound(batch, local[w]) /\ r.job = job[w] /\ r.job \notin Jobs(local[w])
      BY <2>1 DEF OnePlace
    <3> HIDE DEF r
    <3> QED
      BY <2>4, <3>1, <3>2, AppendSound
  <2>6. \A v \in Worker : v # w => local'[v] = local[v]
    BY <1>0, <2>1
  <2>7. job[w] < next_ordinal
    BY <1>1, <2>1
  <2> HIDE DEF r
  <2>8. /\ job[w] \notin Jobs(results)
        /\ \A v \in Worker : job[w] \notin Jobs(local[v])
        /\ \A v \in Worker : InFlight(v) /\ v # w => job[v] # job[w]
    BY <2>1 DEF OnePlace
  <2>9. /\ results' = results /\ next_ordinal' = next_ordinal /\ job' = job /\ batch' = batch
        /\ Jobs(local'[w]) = Jobs(local[w]) \cup {job[w]}
        /\ \A v \in Worker : v # w => Jobs(local'[v]) = Jobs(local[v])
    BY <1>0, <2>1, <2>5, <2>6
  <2>10. Sound(batch, results)' /\ \A v \in Worker : Sound(batch, local[v])'
    BY <2>5, <2>6, <2>9 DEF OnePlace
  <2>11. /\ \A i \in Jobs(results') : i < next_ordinal'
         /\ \A v \in Worker : \A i \in Jobs(local'[v]) : i < next_ordinal'
    BY <2>7, <2>9 DEF OnePlace
  <2>12. /\ \A u, v \in Worker : u # v => Jobs(local'[u]) \cap Jobs(local'[v]) = {}
         /\ \A v \in Worker : Unjoined(v)' => Jobs(local'[v]) \cap Jobs(results') = {}
    <3>0. \A u, v \in Worker : u # v => Jobs(local[u]) \cap Jobs(local[v]) = {}
      BY DEF OnePlace
    <3>1. ASSUME NEW u \in Worker, NEW v \in Worker, u # v, NEW i,
                 i \in Jobs(local'[u]), i \in Jobs(local'[v])
          PROVE  FALSE
      <4>1. CASE u # w /\ v # w
        BY ONLY <3>0, <3>1, <4>1, <2>9
      <4>2. CASE u = w \/ v = w
        BY ONLY <3>0, <3>1, <4>2, <2>8, <2>9
      <4> QED
        BY <4>1, <4>2
    <3>2. ASSUME NEW v \in Worker, Unjoined(v)', NEW i, i \in Jobs(local'[v]), i \in Jobs(results')
          PROVE  FALSE
      BY <3>2, <2>2, <2>8, <2>9 DEF OnePlace
    <3> QED
      BY <3>1, <3>2
  <2>13. \A u \in Worker : InFlight(u)' =>
           /\ job'[u] \notin Jobs(results')
           /\ \A v \in Worker :
                 job'[u] \notin Jobs(local'[v]) /\ (InFlight(v)' /\ job'[v] = job'[u] => v = u)
    BY <2>3, <2>8, <2>9 DEF OnePlace
  <2> QED
    BY ONLY <2>10, <2>11, <2>12, <2>13, Zenon DEF OnePlace
<1>5. ASSUME NEW w \in Worker, SignPanics(w) PROVE OnePlace'
  <2>1. /\ UNCHANGED <<results, handles, phase, next_ordinal, job>>
        /\ local' = [local EXCEPT ![w] = <<>>]
        /\ pc' = [pc EXCEPT ![w] = "unwind"] /\ InFlight(w)
    BY <1>5 DEF SignPanics, callerState, execution, InFlight
  <2>2. \A v \in Worker : Unjoined(v)' <=> Unjoined(v)
    BY <2>1 DEF Unjoined, Held
  <2>3. \A v \in Worker : InFlight(v)' <=> InFlight(v)
    BY <1>0, <2>1 DEF InFlight
  <2>4. Sound(batch, local'[w]) /\ Jobs(local'[w]) = {}
    BY <1>0, <2>1, EmptySound
  <2>5. \A v \in Worker : v # w => local'[v] = local[v]
    BY <1>0, <2>1
  <2> QED
    BY <1>0, <2>1, <2>2, <2>3, <2>4, <2>5 DEF OnePlace
<1>6. CASE BeginJoin
  <2>1. /\ UNCHANGED <<local, handles, next_ordinal, job, pc>> /\ results' = local[Caller]
        /\ phase' = "join"
    BY <1>6 DEF BeginJoin, afterWork, execution
  <2>2. \A v \in Worker : Unjoined(v)' => Unjoined(v) /\ v # Caller
    BY <2>1 DEF Unjoined, Held, HandlesOnce
  <2> QED
    BY <1>0, <2>1, <2>2 DEF OnePlace, InFlight
<1>7. CASE Join
  <2> DEFINE h == Head(handles)
  <2>1. /\ UNCHANGED <<local, next_ordinal, job, pc, phase>> /\ results' = results \o local[h]
        /\ handles' = Tail(handles) /\ handles # <<>> /\ phase = "join"
    BY <1>7 DEF Join, afterWork, execution
  <2>2. /\ h \in Worker /\ h = handles[1] /\ Len(handles) \in Nat /\ Len(handles) >= 1
        /\ Len(Tail(handles)) = Len(handles) - 1
        /\ \A k \in 1 .. Len(Tail(handles)) : Tail(handles)[k] = handles[k + 1]
    BY <1>0, <2>1
  <2>3. Unjoined(h)
    BY <2>2 DEF Unjoined, Held
  <2>4. ASSUME NEW v \in Worker, Unjoined(v)' PROVE Unjoined(v) /\ v # h
    <3>1. PICK k \in 1 .. Len(Tail(handles)) : Tail(handles)[k] = v
      BY <2>1, <2>4 DEF Unjoined, Held
    <3>2. k + 1 \in 1 .. Len(handles) /\ 1 \in 1 .. Len(handles) /\ k + 1 # 1 /\ handles[k + 1] = v
      BY <2>2, <3>1
    <3> QED
      BY <2>2, <3>2 DEF HandlesOnce, Unjoined, Held
  <2>5. Sound(batch, results') /\ Jobs(results') = Jobs(results) \cup Jobs(local[h])
    <3>1. /\ Sound(batch, results) /\ Sound(batch, local[h]) /\ Jobs(results) \cap Jobs(local[h]) = {}
          /\ local[h] \in Seq(Result)
      BY <1>0, <2>2, <2>3 DEF OnePlace
    <3>2. results \in Seq(Result) /\ results' = results \o local[h]
      BY <1>0, <2>1
    <3> HIDE DEF h
    <3>3. Sound(batch, results \o local[h]) /\ Jobs(results \o local[h]) = Jobs(results) \cup Jobs(local[h])
      BY ONLY <3>1, <3>2, ConcatSound
    <3> QED
      BY ONLY <3>2, <3>3
  <2> HIDE DEF h
  <2> QED
    BY <1>0, <2>1, <2>2, <2>4, <2>5 DEF OnePlace, InFlight
<1> QED
  <2>1. CASE NewScope \/ Prepare \/ CheckIdentity
    <3>1. UNCHANGED <<results, local, next_ordinal, job, pc, handles>> /\ results = <<>>
      BY <2>1 DEF NewScope, Prepare, CheckIdentity, pool, execution, Progress
    <3> QED
      BY <1>2, <3>1 DEF InFlight
  <2>2. CASE Spawn \/ BecomeWorker
    <3>1. /\ UNCHANGED <<results, local, next_ordinal, job>> /\ results = <<>>
          /\ \E v : pc' = pc \/ pc' = [pc EXCEPT ![v] = "claim"]
      BY <2>2 DEF Spawn, BecomeWorker, execution, Progress
    <3>2. \A w \in Worker : InFlight(w)' => InFlight(w)
      BY <1>0, <3>1 DEF InFlight
    <3> QED
      BY <1>2, <3>1, <3>2
  <2>3. ASSUME NEW w \in Worker, ClaimNone(w) \/ RecordPanic(w) PROVE OnePlace'
    <3>1. /\ UNCHANGED <<results, local, next_ordinal, job, handles, phase>>
          /\ pc' = [pc EXCEPT ![w] = "finished"]
      BY <2>3 DEF ClaimNone, RecordPanic, callerState, execution
    <3>2. \A v \in Worker : InFlight(v)' => InFlight(v)
      BY <1>0, <3>1 DEF InFlight
    <3>3. \A v \in Worker : Unjoined(v)' => Unjoined(v)
      BY <3>1 DEF Unjoined, Held
    <3> QED
      BY <1>2, <3>1, <3>2, <3>3
  <2>4. CASE LeaveScope \/ Recheck \/ Drift \/ UNCHANGED vars
    <3>1. /\ UNCHANGED <<results, local, next_ordinal, job, handles, pc>>
          /\ phase' = phase \/ phase' \in {"recheck", "done"}
      BY <2>4 DEF LeaveScope, Recheck, Drift, vars, pool, afterWork, execution, Answer
    <3>2. \A v \in Worker : Unjoined(v)' => Unjoined(v)
      BY <3>1 DEF Unjoined, Held
    <3> QED
      BY <1>2, <3>1, <3>2 DEF InFlight
  <2> QED
    BY <1>3, <1>4, <1>5, <1>6, <1>7, <2>1, <2>2, <2>3, <2>4
    DEF Next, CallerStep, WorkerStep, Returned

\* A result leaves a place only for the next one, and is dropped only by a
\* worker that unwinds.
LEMMA StepNothingLost ==
    ASSUME IInv, HandlesOnce, OnePlace, NothingLost, Progress, [Next]_vars
    PROVE  NothingLost'
<1>0. /\ TypeOK /\ batch' = batch /\ next_ordinal \in Nat /\ Len(batch) \in Nat
      /\ local \in [Worker -> Seq(Result)] /\ results \in Seq(Result)
      /\ pc \in [Worker -> WorkerStates] /\ job \in [Worker -> 0 .. Len(batch)]
      /\ handles \in Seq(Worker) /\ Caller \in Worker
  <2>1. batch' = batch
    BY StepCalls DEF IInv
  <2>2. Caller \in Worker
    BY PoolAssumption DEF Caller, Worker
  <2> QED
    BY <2>1, <2>2, ErrorsTyped DEF IInv, TypeOK
<1>1. NothingLost' =
        (first_panic' = 0 /\ (\A w \in Worker : pc'[w] # "unwind") =>
            \A i \in Ordinals(batch) : i < next_ordinal' => Found(i)')
    BY <1>0 DEF NothingLost
\* nothing is claimed and no panic went away: what was found is still found
<1>2. ASSUME next_ordinal' = next_ordinal,
             first_panic' = 0 => first_panic = 0,
             first_panic' = 0 => \A w \in Worker : pc[w] = "unwind" => pc'[w] = "unwind",
             \A i \in Ordinals(batch) : Found(i) => Found(i)'
      PROVE  NothingLost'
    BY <1>1, <1>2 DEF NothingLost
<1>3. ASSUME NEW w \in Worker, Claim(w) PROVE NothingLost'
  <2>1. /\ UNCHANGED <<results, local, handles, phase, first_panic>>
        /\ next_ordinal' = next_ordinal + 1 /\ pc[w] = "claim"
        /\ job' = [job EXCEPT ![w] = next_ordinal] /\ pc' = [pc EXCEPT ![w] = "sign"]
    BY <1>3 DEF Claim, callerState
  <2>2. \A v \in Worker : Unjoined(v)' <=> Unjoined(v)
    BY <2>1 DEF Unjoined, Held
  <2>3. /\ pc'[w] = "sign" /\ job'[w] = next_ordinal
        /\ \A v \in Worker : v # w => pc'[v] = pc[v] /\ job'[v] = job[v]
    BY <1>0, <2>1
  <2>4. \A i : Found(i) => Found(i)'
    BY <2>1, <2>2, <2>3 DEF Found
  <2>5. \A i : i = next_ordinal => Found(i)'
    BY <2>1, <2>3 DEF Found
  <2>6. \A i \in Ordinals(batch) : i < next_ordinal + 1 => i < next_ordinal \/ i = next_ordinal
    BY <1>0 DEF Ordinals
  <2>7. (\A v \in Worker : pc'[v] # "unwind") => \A v \in Worker : pc[v] # "unwind"
    BY <2>1, <2>3
  <2> QED
    BY <1>1, <2>1, <2>4, <2>5, <2>6, <2>7 DEF NothingLost
<1>4. ASSUME NEW w \in Worker, SignReturns(w) PROVE NothingLost'
  <2> DEFINE r == [job |-> job[w], outcome |-> OutcomeOf(batch[job[w]].fate)]
  <2>1. /\ UNCHANGED <<results, handles, phase, next_ordinal, job, first_panic>>
        /\ local' = [local EXCEPT ![w] = Append(local[w], r)]
        /\ pc' = [pc EXCEPT ![w] = "claim"] /\ pc[w] = "sign"
    BY <1>4 DEF SignReturns, callerState, execution
  <2>2. \A v \in Worker : Unjoined(v)' <=> Unjoined(v)
    BY <2>1 DEF Unjoined, Held
  <2>3. \A v \in Worker : v # w => pc'[v] = pc[v] /\ local'[v] = local[v]
    BY <1>0, <2>1
  <2>4. Unjoined(w)
    BY <1>0, <2>1, RunningUnjoined DEF IInv, Running
  <2>5. job[w] \in Jobs(local'[w]) /\ Jobs(local[w]) \subseteq Jobs(local'[w])
    <3>1. local'[w] = Append(local[w], r) /\ local[w] \in Seq(Result) /\ r.job = job[w]
      BY <1>0, <2>1
    <3>2. Len(local[w]) \in Nat /\ Len(local'[w]) = Len(local[w]) + 1
      BY <3>1
    <3>3. /\ local'[w][Len(local[w]) + 1].job = job[w]
          /\ \A p \in 1 .. Len(local[w]) : local'[w][p] = local[w][p]
      BY <3>1
    <3>4. Len(local[w]) + 1 \in 1 .. Len(local'[w])
      BY <3>2
    <3>5. \A p \in 1 .. Len(local[w]) : p \in 1 .. Len(local'[w])
      BY <3>2
    <3> QED
      BY <3>3, <3>4, <3>5 DEF Jobs
  <2>6. \A i \in Ordinals(batch) : Found(i) => Found(i)'
    BY <2>1, <2>2, <2>3, <2>4, <2>5 DEF Found
  <2> QED
    BY <1>2, <2>1, <2>3, <2>6
\* the worker's vector is dropped, and the panic is on its way
<1>5. ASSUME NEW w \in Worker, SignPanics(w) PROVE NothingLost'
  <2>1. pc'[w] = "unwind"
    BY <1>0, <1>5 DEF SignPanics
  <2> QED
    BY <1>1, <2>1
<1>6. ASSUME NEW w \in Worker, RecordPanic(w) PROVE NothingLost'
  <2>1. job[w] \in Ordinals(batch) /\ (first_panic' = first_panic \/ first_panic' = job[w])
        /\ (first_panic = 0 => first_panic' = job[w])
    BY <1>6 DEF RecordPanic, IInv, JobsClaimed
  <2>2. first_panic' # 0
    BY <1>0, <2>1 DEF Ordinals
  <2> QED
    BY <1>1, <2>2
<1>7. CASE BeginJoin
  <2>1. /\ UNCHANGED <<local, handles, next_ordinal, job, pc, first_panic>>
        /\ results' = local[Caller] /\ results = <<>>
    BY <1>7 DEF BeginJoin, afterWork, execution, Progress
  <2>2. \A v \in Worker : Unjoined(v) => Unjoined(v)' \/ v = Caller
    BY <2>1 DEF Unjoined, Held
  <2>3. \A i \in Ordinals(batch) : Found(i) => Found(i)'
    BY <1>0, <2>1, <2>2, EmptySound DEF Found
  <2> QED
    BY <1>2, <2>1, <2>3
<1>8. CASE Join
  <2> DEFINE h == Head(handles)
  <2>1. /\ UNCHANGED <<local, next_ordinal, job, pc, phase, first_panic>>
        /\ results' = results \o local[h]
        /\ handles' = Tail(handles) /\ handles # <<>> /\ phase = "join"
    BY <1>8 DEF Join, afterWork, execution
  <2>2. /\ h \in Worker /\ h = handles[1] /\ Len(handles) \in Nat /\ Len(handles) >= 1
        /\ Len(Tail(handles)) = Len(handles) - 1
        /\ \A k \in 1 .. Len(Tail(handles)) : Tail(handles)[k] = handles[k + 1]
    BY <1>0, <2>1
  <2>3. Unjoined(h)
    BY <2>2 DEF Unjoined, Held
  <2>4. ASSUME NEW v \in Worker, Unjoined(v), v # h PROVE Unjoined(v)'
    <3>1. PICK k \in 1 .. Len(handles) : handles[k] = v
      BY <2>1, <2>4 DEF Unjoined, Held
    <3>2. k - 1 \in 1 .. Len(Tail(handles)) /\ Tail(handles)[k - 1] = v
      BY <2>2, <2>4, <3>1
    <3> QED
      BY <2>1, <3>2 DEF Unjoined, Held
  <2>5. Sound(batch, results') /\ Jobs(results') = Jobs(results) \cup Jobs(local[h])
    <3>1. /\ Sound(batch, results) /\ Sound(batch, local[h]) /\ Jobs(results) \cap Jobs(local[h]) = {}
          /\ local[h] \in Seq(Result)
      BY <1>0, <2>2, <2>3 DEF OnePlace
    <3>2. results \in Seq(Result) /\ results' = results \o local[h]
      BY <1>0, <2>1
    <3> HIDE DEF h
    <3>3. Sound(batch, results \o local[h]) /\ Jobs(results \o local[h]) = Jobs(results) \cup Jobs(local[h])
      BY ONLY <3>1, <3>2, ConcatSound
    <3> QED
      BY ONLY <3>2, <3>3
  <2> HIDE DEF h
  <2>6. \A i \in Ordinals(batch) : Found(i) => Found(i)'
    BY <2>1, <2>2, <2>4, <2>5 DEF Found
  <2> QED
    BY <1>2, <2>1, <2>6
<1> QED
  <2>1. CASE NewScope \/ Prepare \/ CheckIdentity
    <3>1. next_ordinal' = next_ordinal /\ next_ordinal = 1
      BY <2>1 DEF NewScope, Prepare, CheckIdentity, pool, execution, IInv, PoolShape
    <3>2. \A i \in Ordinals(batch) : ~ (i < 1)
      BY <1>0 DEF Ordinals
    <3> QED
      BY <1>1, <3>1, <3>2
  <2>2. CASE Spawn
    <3>1. UNCHANGED <<results, local, next_ordinal, job, first_panic, phase>> /\ phase = "spawn"
      BY <2>2 DEF Spawn, execution
    <3>2. \A w \in Worker : pc[w] \in {"sign", "unwind"} => pc'[w] = pc[w]
      <4>1. ASSUME NEW w \in Worker, pc[w] \in {"sign", "unwind"} PROVE w # spawning
        <5>1. w \in Int /\ spawning \in Int
          BY <1>0, PoolAssumption DEF TypeOK, Worker
        <5> QED
          BY <3>1, <4>1, <5>1 DEF IInv, PoolShape
      <4> QED
        BY <1>0, <2>2, <4>1 DEF Spawn
    <3>3. ASSUME NEW w \in Worker, Unjoined(w) PROVE Unjoined(w)'
      <4>1. CASE handles' = handles
        BY <3>1, <3>3, <4>1 DEF Unjoined, Held
      <4>2. CASE handles' = Append(handles, spawning)
        <5>1. /\ Len(handles) \in Nat /\ Len(handles') = Len(handles) + 1
              /\ \A k \in 1 .. Len(handles) : handles'[k] = handles[k]
          BY <1>0, <4>2
        <5> QED
          BY <3>1, <3>3, <5>1 DEF Unjoined, Held
      <4> QED
        BY <2>2, <4>1, <4>2 DEF Spawn
    <3>4. \A i \in Ordinals(batch) : Found(i) => Found(i)'
      BY <3>1, <3>2, <3>3 DEF Found
    <3> QED
      BY <1>2, <3>1, <3>2, <3>4
  <2>3. CASE BecomeWorker
    <3>1. /\ UNCHANGED <<results, local, next_ordinal, job, first_panic, handles>> /\ phase = "spawn"
          /\ phase' = "work" /\ pc' = [pc EXCEPT ![Caller] = "claim"]
      BY <2>3 DEF BecomeWorker, execution
    <3>2. \A w \in Worker : pc[w] \in {"sign", "unwind"} => pc'[w] = pc[w]
      BY <1>0, <3>1 DEF IInv, PoolShape
    <3>3. \A w \in Worker : Unjoined(w) => Unjoined(w)'
      BY <3>1 DEF Unjoined, Held
    <3>4. \A i \in Ordinals(batch) : Found(i) => Found(i)'
      BY <3>1, <3>2, <3>3 DEF Found
    <3> QED
      BY <1>2, <3>1, <3>2, <3>4
  <2>4. ASSUME NEW w \in Worker, ClaimNone(w) PROVE NothingLost'
    <3>1. /\ UNCHANGED <<results, local, next_ordinal, job, handles, phase, first_panic>>
          /\ pc' = [pc EXCEPT ![w] = "finished"] /\ pc[w] = "claim"
      BY <2>4 DEF ClaimNone, callerState, execution
    <3>2. \A v \in Worker : pc[v] \in {"sign", "unwind"} => pc'[v] = pc[v]
      BY <1>0, <3>1
    <3>3. \A v \in Worker : Unjoined(v) => Unjoined(v)'
      BY <3>1 DEF Unjoined, Held
    <3>4. \A i \in Ordinals(batch) : Found(i) => Found(i)'
      BY <3>1, <3>2, <3>3 DEF Found
    <3> QED
      BY <1>2, <3>1, <3>2, <3>4
  <2>5. CASE LeaveScope \/ Recheck \/ Drift \/ UNCHANGED vars
    <3>1. /\ UNCHANGED <<results, local, next_ordinal, job, handles, pc, first_panic>>
          /\ phase' = phase \/ phase \in {"join", "recheck"}
      BY <2>5 DEF LeaveScope, Recheck, Drift, vars, pool, afterWork, execution, Answer
    <3>2. \A v \in Worker : Unjoined(v) => Unjoined(v)'
      BY <3>1 DEF Unjoined, Held
    <3>3. \A i \in Ordinals(batch) : Found(i) => Found(i)'
      BY <3>1, <3>2 DEF Found
    <3> QED
      BY <1>2, <3>1, <3>3
  <2> QED
    BY <1>3, <1>4, <1>5, <1>6, <1>7, <1>8, <2>1, <2>2, <2>3, <2>4, <2>5
    DEF Next, CallerStep, WorkerStep, Returned

\* The caller's progress: preparation first, then the pool, then the joins.
LEMMA StepProgress ==
    ASSUME IInv, Progress, [Next]_vars
    PROVE  Progress'
<1> USE DEF Progress
<1>0. /\ TypeOK /\ batch' = batch /\ next_ordinal \in 1 .. Len(batch) + 1 /\ Len(batch) \in Nat
      /\ pc \in [Worker -> WorkerStates] /\ phase \in Phases
  <2>1. batch' = batch
    BY StepCalls DEF IInv
  <2> QED
    BY <2>1, ErrorsTyped DEF IInv, TypeOK
<1>1. CASE NewScope \/ Prepare \/ CheckIdentity
  <2>1. /\ UNCHANGED <<handles, results, stopped, first_panic, pc, next_ordinal>>
        /\ next_ordinal = 1 /\ handles = <<>> /\ results = <<>>
        /\ \A w \in Worker : pc[w] = "unstarted"
    BY <1>1 DEF NewScope, Prepare, CheckIdentity, pool, execution, IInv, PoolShape
  <2>2. /\ phase' \in {"ready", "done"} \/ Preflight(batch) = Credentials
        /\ phase' = "recheck" => batch = <<>>
    BY <1>1 DEF NewScope, Prepare, CheckIdentity, Answer
  <2>3. batch = <<>> => Len(batch) = 0
    OBVIOUS
  <2> QED
    BY <1>0, <2>1, <2>2, <2>3
<1>2. CASE Spawn \/ BecomeWorker
  <2>1. /\ UNCHANGED <<results, stopped, first_panic, next_ordinal>>
        /\ phase = "spawn" /\ phase' \in {"spawn", "work"}
        /\ \A w \in Worker : pc'[w] = "finished" => pc[w] = "finished"
    BY <1>0, <1>2 DEF Spawn, BecomeWorker, execution
  <2> QED
    BY <1>0, <2>1
<1>3. ASSUME NEW w \in Worker, WorkerStep(w) PROVE Progress'
  <2>1. UNCHANGED <<phase, handles, results>> /\ phase \in {"spawn", "work", "join"}
    <3>1. UNCHANGED <<phase, handles, results>> /\ Running(w)
      BY <1>3 DEF WorkerStep, Claim, ClaimNone, SignReturns, SignPanics, RecordPanic, callerState, Running
    <3> QED
      BY <1>0, <3>1, RunningUnjoined DEF IInv
  <2>2. /\ stopped' => first_panic' # 0
        /\ \A v \in Worker : pc'[v] = "finished" => first_panic' # 0 \/ next_ordinal' = Len(batch) + 1
    <3>1. CASE Claim(w)
      <4>1. /\ UNCHANGED <<stopped, first_panic>> /\ ~stopped /\ next_ordinal # Len(batch) + 1
            /\ \A v \in Worker : pc'[v] = "finished" => pc[v] = "finished"
        BY <1>0, <3>1 DEF Claim
      <4> QED
        BY <4>1
    <3>2. CASE ClaimNone(w)
      <4>1. UNCHANGED <<stopped, first_panic, next_ordinal>> /\ (stopped \/ next_ordinal = Len(batch) + 1)
        BY <1>0, <3>2 DEF ClaimNone, execution
      <4> QED
        BY <4>1
    <3>3. CASE SignReturns(w) \/ SignPanics(w)
      <4>1. /\ UNCHANGED <<stopped, first_panic, next_ordinal>>
            /\ \A v \in Worker : pc'[v] = "finished" => pc[v] = "finished"
        BY <1>0, <3>3 DEF SignReturns, SignPanics, execution
      <4> QED
        BY <4>1
    <3>4. CASE RecordPanic(w)
      <4>1. job[w] \in Ordinals(batch) /\ first_panic' = IF first_panic = 0 THEN job[w] ELSE first_panic
        BY <3>4 DEF RecordPanic, IInv, JobsClaimed
      <4>2. first_panic' # 0
        BY <1>0, <4>1 DEF Ordinals
      <4> QED
        BY <4>2
    <3> QED
      BY <1>3, <3>1, <3>2, <3>3, <3>4 DEF WorkerStep
  <2> QED
    BY <1>0, <2>1, <2>2
<1>4. CASE BeginJoin \/ Join
  BY <1>0, <1>4 DEF BeginJoin, Join, afterWork, execution
<1>5. CASE LeaveScope
  <2>1. Caller \in Worker
    BY PoolAssumption DEF Caller, Worker
  <2>2. pc[Caller] = "finished"
    BY <1>5 DEF LeaveScope, IInv, PoolShape
  <2> QED
    BY <1>0, <1>5, <2>1, <2>2 DEF LeaveScope, afterWork, execution, Answer
<1>6. CASE Recheck
  BY <1>0, <1>6 DEF Recheck, Answer, pool, execution
<1>7. CASE Drift \/ UNCHANGED vars
  BY <1>0, <1>7 DEF Drift, vars, pool, execution
<1> QED
  BY <1>1, <1>2, <1>3, <1>4, <1>5, <1>6, <1>7 DEF Next, CallerStep, Returned

-----------------------------------------------------------------------------
(* What the caller reads from a complete envelope.                         *)

\* Two intervals in bijection are equally long.
LEMMA SameLength ==
    ASSUME NEW m \in Nat, NEW n \in Nat, ExistsBijection(1 .. m, 1 .. n)
    PROVE  m = n
<1>1. Cardinality(1 .. n) = m
    BY FS_CountingElements
<1>2. Cardinality(1 .. n) = n
    BY FS_Interval
<1> QED
    BY <1>1, <1>2

\* When the caller comes to validate_executor_results every job was called,
\* none panicked and the envelope is a bijection.
LEMMA EnvelopeComplete ==
    ASSUME IInv, Collected, phase = "recheck"
    PROVE  /\ \A i \in Ordinals(batch) : calls[i] = 1
           /\ With(batch, {"panicking"}) = {}
           /\ Bijective
           /\ \A i \in Ordinals(batch) : At(i) = OutcomeOf(batch[i].fate)
<1>0. /\ TypeOK /\ Len(batch) \in Nat /\ results \in Seq(Result) /\ Len(results) \in Nat
      /\ first_panic = 0 /\ next_ordinal = Len(batch) + 1
      /\ \A w \in Worker : pc[w] \in {"unstarted", "finished"}
      /\ \A w \in Worker : ~Unjoined(w)
  <2>1. TypeOK /\ Len(batch) \in Nat /\ results \in Seq(Result) /\ Len(results) \in Nat
    BY ErrorsTyped DEF IInv, TypeOK
  <2>2. handles = <<>> /\ first_panic = 0 /\ next_ordinal = Len(batch) + 1
    BY DEF IInv, PanicTracked, Collected, Progress
  <2>3. \A w \in Worker : ~Unjoined(w)
    BY <2>2 DEF Unjoined, Held
  <2> QED
    BY <2>1, <2>2, <2>3 DEF IInv, PoolShape
<1>1. \A i \in Ordinals(batch) : i < next_ordinal /\ calls[i] = 1
    BY <1>0 DEF IInv, CallsFollowCounter, Ordinals
<1>2. With(batch, {"panicking"}) = {}
    BY <1>0, <1>1 DEF IInv, PanicTracked, With
<1>3. \A i \in Ordinals(batch) : i \in Jobs(results)
    BY <1>0, <1>1 DEF Collected, NothingLost, Found
<1>4. \A i \in Ordinals(batch) : \E p \in 1 .. Len(results) : results[p].job = i
    BY <1>3 DEF Jobs
<1>5. Sound(batch, results)
    BY DEF Collected, OnePlace
<1>6. Bijective
  <2> DEFINE f == [p \in 1 .. Len(results) |-> results[p].job]
  <2>1. f \in [1 .. Len(results) -> 1 .. Len(batch)]
    BY <1>5 DEF Sound, Answers, Ordinals
  <2>2. \A p, q \in 1 .. Len(results) : f[p] = f[q] => p = q
    BY <1>5 DEF Sound
  <2>3. \A i \in 1 .. Len(batch) : \E p \in 1 .. Len(results) : f[p] = i
    BY <1>4 DEF Ordinals
  <2> HIDE DEF f
  <2>4. Len(results) = Len(batch)
    <3>1. Len(results) \in Nat /\ Len(batch) \in Nat
      BY <1>0
    <3>2. f \in Bijection(1 .. Len(results), 1 .. Len(batch))
      BY ONLY <2>1, <2>2, <2>3 DEF Bijection, Injection, Surjection, IsInjective
    <3>3. ExistsBijection(1 .. Len(results), 1 .. Len(batch))
      BY ONLY <3>2 DEF ExistsBijection
    <3> QED
      BY ONLY <3>1, <3>3, SameLength
  <2> QED
    BY <1>4, <2>4 DEF Bijective, Positions
<1>7. ASSUME NEW i \in Ordinals(batch) PROVE At(i) = OutcomeOf(batch[i].fate)
  <2>1. Positions(i) \subseteq Nat /\ Positions(i) # {}
    BY <1>0, <1>4 DEF Positions
  <2>2. Lowest(Positions(i)) \in Positions(i)
    BY <2>1, LowestInSet
  <2> QED
    BY <1>5, <2>2 DEF At, Positions, Sound, Answers
<1> QED
    BY <1>1, <1>2, <1>6, <1>7

\* The two passes over the envelope report what the batch determines: the
\* lowest failing ordinal, else the lowest malformed, else the assembler's.
LEMMA EnvelopeJudged ==
    ASSUME IInv, Collected, phase = "recheck"
    PROVE  Judgement(batch) = IF validate_executor_results = Credentials
                              THEN assemble_credentials ELSE validate_executor_results
<1>1. /\ Bijective
      /\ \A i \in Ordinals(batch) : At(i) = OutcomeOf(batch[i].fate)
    BY EnvelopeComplete
<1>2. Reported("Failed") = With(batch, {"failing"})
    BY <1>1 DEF Reported, With, OutcomeOf
<1>3. Reported("Garbage") = With(batch, {"malformed"})
    BY <1>1 DEF Reported, With, OutcomeOf
<1> QED
    BY <1>1, <1>2, <1>3
    DEF Judgement, validate_executor_results, assemble_credentials, Credentials, ItemError

\* Every answer of the caller is the one the batch alone determines.
LEMMA StepSchedule ==
    ASSUME IInv, Collected, ScheduleIndependent, [Next]_vars
    PROVE  ScheduleIndependent'
<1>1. batch' = batch
    BY StepCalls DEF IInv
<1>2. CASE verdict' = verdict
    BY <1>1, <1>2 DEF ScheduleIndependent
<1>3. CASE NewScope \/ Prepare \/ CheckIdentity
    BY <1>1, <1>2, <1>3 DEF NewScope, Prepare, CheckIdentity, Answer, ScheduleIndependent
<1>4. CASE LeaveScope
    BY <1>2, <1>4 DEF LeaveScope, Answer, Unwind, ScheduleIndependent
<1>5. CASE Recheck
  <2>1. Preflight(batch) = Credentials
    BY <1>5 DEF Recheck, Collected, Progress
  <2>2. verdict' \in {BatchError("SignerMetadataChanged"), Judgement(batch)}
    BY <1>5, EnvelopeJudged DEF Recheck, Answer
  <2> QED
    BY <1>1, <2>1, <2>2 DEF ScheduleIndependent
<1> QED
    BY <1>2, <1>3, <1>4, <1>5
    DEF Next, CallerStep, WorkerStep, Returned, vars, callerState, Spawn, BecomeWorker, Claim, ClaimNone,
        SignReturns, SignPanics, RecordPanic, BeginJoin, Join, Drift

\* Nothing is claimed or collected when the scope is made.
LEMMA InitCollected == Init => Collected /\ ScheduleIndependent
<1> SUFFICES ASSUME Init PROVE Collected /\ ScheduleIndependent
    OBVIOUS
<1>1. HandlesOnce
    BY DEF Init, HandlesOnce
<1>2. OnePlace
  <2>1. /\ results = <<>> /\ \A w \in Worker : local[w] = <<>> /\ ~InFlight(w)
    BY DEF Init, InFlight
  <2> QED
    BY <2>1, EmptySound DEF OnePlace
<1>3. NothingLost
  <2>1. next_ordinal = 1 /\ Len(batch) \in Nat
    BY ErrorsTyped DEF Init
  <2> QED
    BY <2>1 DEF NothingLost, Ordinals
<1>4. Progress
    BY DEF Init, Progress
<1>5. ScheduleIndependent
    BY DEF Init, ScheduleIndependent, Pending
<1> QED
    BY <1>1, <1>2, <1>3, <1>4, <1>5 DEF Collected

\* Together with what the workers have collected so far, the answer stays the
\* one the batch determines.
LEMMA CollectedInvariance == Spec => [](IInv /\ Collected /\ ScheduleIndependent)
<1>1. IInv /\ Collected /\ ScheduleIndependent /\ [Next]_vars => (Collected /\ ScheduleIndependent)'
    BY StepHandlesOnce, StepOnePlace, StepNothingLost, StepProgress, StepSchedule DEF Collected, IInv
<1> QED
    BY <1>1, InitCollected, Invariance, PTL DEF Spec

\* Whatever order the workers claim, sign and finish in, and however many they
\* are: short of drift and panics sign_batch_concurrently ends with the answer
\* that the batch alone determines, at the lowest affected caller ordinal.
THEOREM ScheduleIndependenceCorrect == Spec => []ScheduleIndependent
    BY CollectedInvariance, PTL

-----------------------------------------------------------------------------
(* The concurrent scope implements the contract.                           *)

\* The contract speaks of the same data.
LEMMA SameData ==
    /\ \A b : Contract!Preflight(b) = Preflight(b)
    /\ \A b : Contract!Judgement(b) = Judgement(b)
    /\ \A b, F : Contract!With(b, F) = With(b, F)
    /\ \A b : Contract!Ordinals(b) = Ordinals(b)
    /\ \A k : Contract!BatchError(k) = BatchError(k)
    /\ \A i : Contract!Unwind(i) = Unwind(i)
    /\ Contract!Credentials = Credentials
    /\ Contract!Pending = Pending
BY DEF Contract!Preflight, Preflight, Contract!Judgement, Judgement, Contract!With, With,
       Contract!Ordinals, Ordinals, Contract!BatchError, BatchError, Contract!Unwind, Unwind,
       Contract!Credentials, Credentials, Contract!Pending, Pending, Contract!ItemError, ItemError,
       Contract!Lowest, Lowest, Contract!DuplicatedFirst, DuplicatedFirst

\* A batch is submitted with no call made and no answer given.
LEMMA ContractInit == Init => Contract!Init
BY SameData DEF Init, Contract!Init

\* claim is the contract's signer call, an answer its return, and everything
\* else is invisible to the caller.
LEMMA ContractStep ==
    ASSUME IInv, Collected, [Next]_vars
    PROVE  [Contract!Next]_(Contract!vars)
<1>0. batch' = batch /\ TypeOK /\ Len(batch) \in Nat
    BY StepCalls, ErrorsTyped DEF IInv, TypeOK
<1>1. CASE UNCHANGED <<batch, calls, verdict>>
    BY <1>1 DEF Contract!vars
<1>2. ASSUME NEW w \in Worker, Claim(w) PROVE Contract!Next
  <2> DEFINE i == next_ordinal
  <2>1. i \in Ordinals(batch) /\ calls \in [Ordinals(batch) -> Nat]
    BY <1>0, <1>2 DEF Claim, TypeOK, Ordinals
  <2>2. calls[i] = 0
    BY <2>1 DEF IInv, CallsFollowCounter, Ordinals
  <2>3. calls' = [calls EXCEPT ![i] = 1]
    BY <1>2, <2>1, <2>2 DEF Claim
  <2>4. verdict = Pending /\ Preflight(batch) = Credentials
    BY <1>0, <1>2, RunningUnjoined DEF Claim, Running, IInv, PanicTracked, Collected, Progress
  <2>5. UNCHANGED <<batch, verdict>>
    BY <1>2 DEF Claim, callerState
  <2>6. Contract!Call(i)
    BY <2>2, <2>3, <2>4, <2>5, SameData DEF Contract!Call
  <2> QED
    BY <2>1, <2>6, SameData DEF Contract!Next
<1>3. ASSUME phase # "done", UNCHANGED <<batch, calls>>,
             verdict' \in Contract!EarlyAnswers \cup Contract!CompleteAnswers \cup Contract!Panics
      PROVE  Contract!Next
  <2>1. verdict = Contract!Pending
    BY <1>3, SameData DEF IInv, PanicTracked
  <2> QED
    BY <1>3, <2>1 DEF Contract!Next, Contract!Return
<1>4. CASE NewScope \/ Prepare \/ CheckIdentity
  <2>1. UNCHANGED <<batch, calls>> /\ next_ordinal = 1 /\ phase # "done"
    BY <1>4 DEF NewScope, Prepare, CheckIdentity, pool, IInv, PoolShape
  <2>2. \A i \in Ordinals(batch) : calls[i] = 0
    BY <1>0, <2>1 DEF IInv, CallsFollowCounter, Ordinals
  <2>3. \/ verdict' = verdict
        \/ verdict' \in {BatchError("InvalidScope"), BatchError("SignerMetadataChanged")}
        \/ verdict' = Preflight(batch) /\ Preflight(batch) # Credentials
    BY <1>4 DEF NewScope, Prepare, CheckIdentity, Answer
  <2>4. verdict' = verdict \/ verdict' \in Contract!EarlyAnswers
    BY <2>2, <2>3, SameData DEF Contract!EarlyAnswers, Contract!Uncalled
  <2> QED
    BY <1>1, <1>3, <2>1, <2>4
<1>5. CASE LeaveScope
  <2>1. UNCHANGED <<batch, calls>> /\ phase # "done"
    BY <1>5 DEF LeaveScope, afterWork
  <2>2. verdict' = verdict \/ (first_panic # 0 /\ verdict' = Unwind(first_panic))
    BY <1>5 DEF LeaveScope, Answer
  <2>3. first_panic # 0 =>
            first_panic \in With(batch, {"panicking"}) /\ calls[first_panic] = 1
    BY DEF IInv, PanicTracked, CallsFollowCounter, With
  <2>4. verdict' = verdict \/ verdict' \in Contract!Panics
    BY <2>2, <2>3, SameData DEF Contract!Panics
  <2> QED
    BY <1>1, <1>3, <2>1, <2>4
<1>6. CASE Recheck
  <2>1. UNCHANGED <<batch, calls>> /\ phase = "recheck" /\ phase # "done"
    BY <1>6 DEF Recheck, pool
  <2>2. verdict' \in {BatchError("SignerMetadataChanged"), Judgement(batch)}
    BY <1>6, <2>1, EnvelopeJudged DEF Recheck, Answer
  <2>3. Preflight(batch) = Credentials
    BY <2>1 DEF Collected, Progress
  <2>4. verdict' \in Contract!CompleteAnswers
    BY <2>1, <2>2, <2>3, EnvelopeComplete, SameData DEF Contract!CompleteAnswers, Contract!AllCalled
  <2> QED
    BY <1>3, <2>1, <2>4
<1> QED
    BY <1>1, <1>2, <1>4, <1>5, <1>6
    DEF Next, CallerStep, WorkerStep, Returned, vars, callerState, afterWork, pool, Spawn, BecomeWorker,
        ClaimNone, SignReturns, SignPanics, RecordPanic, BeginJoin, Join, Drift

\* The concurrent scope is an implementation of what its callers are promised:
\* every step of threads, mutex and joins is a signer call, the return of the
\* batch or nothing at all to the caller, for every batch, worker limit and
\* signer.
THEOREM RefinesContract == Spec => ImplementsContract
    BY ContractInit, ContractStep, CollectedInvariance, PTL DEF ImplementsContract, Contract!Spec, Spec

-----------------------------------------------------------------------------
(* So does the serial scope, which shares the caller's state.              *)

Serial == INSTANCE SerialSigning

\* The serial scope speaks of the same data.
LEMMA SerialData ==
    /\ \A b : Serial!Preflight(b) = Preflight(b)
    /\ \A b, F : Serial!With(b, F) = With(b, F)
    /\ \A b : Serial!Ordinals(b) = Ordinals(b)
    /\ \A k : Serial!BatchError(k) = BatchError(k)
    /\ \A k, i : Serial!ItemError(k, i) = ItemError(k, i)
    /\ \A i : Serial!Unwind(i) = Unwind(i)
    /\ \A S : Serial!Lowest(S) = Lowest(S)
    /\ Serial!Credentials = Credentials
    /\ Serial!Pending = Pending
BY DEF Serial!Preflight, Preflight, Serial!With, With, Serial!Ordinals, Ordinals,
       Serial!BatchError, BatchError, Serial!ItemError, ItemError, Serial!Unwind, Unwind,
       Serial!Lowest, Lowest, Serial!Credentials, Credentials, Serial!Pending, Pending,
       Serial!DuplicatedFirst, DuplicatedFirst

\* Jobs are called in caller order, each once; the ones before the present one
\* have returned, and their outcomes are in the caller's vector.
Called(i) == i <= Len(results) \/ (phase = "signing" /\ i = Len(results) + 1)
SerialInv ==
    /\ batch \in Batches
    /\ results \in Seq(BOOLEAN) /\ Len(results) <= Len(batch)
    /\ calls \in [Ordinals(batch) -> Nat]
    /\ phase # "done" => \A i \in Ordinals(batch) : calls[i] = IF Called(i) THEN 1 ELSE 0
    /\ phase = "signing" => Len(results) < Len(batch)
    /\ \A i \in 1 .. Len(results) : /\ results[i] <=> batch[i].fate # "malformed"
                                    /\ batch[i].fate \notin {"failing", "panicking"}
    /\ phase \in {"new", "ready", "prepared"} => results = <<>>
    /\ phase \in {"prepared", "sign", "signing"} => Preflight(batch) = Credentials
    /\ phase # "done" => verdict = Pending

\* A step of the executor's loop.
LEMMA SerialStep == SerialInv /\ [Serial!Next]_(Serial!vars) => SerialInv'
<1>0. SUFFICES ASSUME SerialInv, [Serial!Next]_(Serial!vars), Len(batch) \in Nat, Len(results) \in Nat
               PROVE  SerialInv'
    BY ErrorsTyped DEF SerialInv
<1> USE SerialData DEF SerialInv, Serial!Answer
<1>1. CASE Serial!NewScope
    BY <1>0, <1>1 DEF Serial!NewScope, Called
<1>2. CASE Serial!Prepare
    BY <1>0, <1>2 DEF Serial!Prepare, Called
<1>3. CASE Serial!CheckIdentity
    BY <1>0, <1>3 DEF Serial!CheckIdentity, Called
<1>4. CASE Serial!Sign
  <2> DEFINE n == Len(results) + 1
  <2>1. /\ n \in Ordinals(batch) /\ calls[n] = 0 /\ phase = "sign" /\ phase' = "signing"
        /\ calls' = [calls EXCEPT ![n] = calls[n] + 1] /\ UNCHANGED <<batch, results, verdict>>
    BY <1>0, <1>4 DEF Serial!Sign, Called, Ordinals
  <2>2. /\ calls' \in [Ordinals(batch) -> Nat]
        /\ \A i \in Ordinals(batch) : calls'[i] = IF i = n THEN 1 ELSE calls[i]
    BY <1>0, <2>1
  <2>3. \A i \in Ordinals(batch) : Called(i)' <=> Called(i) \/ i = n
    BY <2>1 DEF Called
  <2>4. \A i \in Ordinals(batch) : calls'[i] = IF Called(i)' THEN 1 ELSE 0
    BY <1>0, <2>1, <2>2, <2>3
  <2>5. Len(results) < Len(batch)
    BY <1>4 DEF Serial!Sign
  <2> QED
    BY <1>0, <2>1, <2>2, <2>4, <2>5
<1>5. CASE Serial!SignReturns
  <2> DEFINE n == Len(results) + 1
  <2>1. /\ phase = "signing" /\ UNCHANGED <<batch, calls>> /\ Len(results) < Len(batch)
    BY <1>0, <1>5 DEF Serial!SignReturns
  <2>2. CASE phase' = "done" /\ UNCHANGED results
    BY <1>0, <2>1, <2>2
  <2>3. CASE /\ results' = Append(results, batch[n].fate # "malformed") /\ phase' = "sign"
             /\ UNCHANGED verdict /\ batch[n].fate \notin {"failing", "panicking"}
    <3>1. (batch[n].fate # "malformed") \in BOOLEAN
      OBVIOUS
    <3>2. /\ results' \in Seq(BOOLEAN) /\ Len(results') = n
          /\ results'[n] = (batch[n].fate # "malformed")
          /\ \A i \in 1 .. Len(results) : results'[i] = results[i]
      BY <1>0, <2>3, <3>1
    <3>3. \A i \in Ordinals(batch) : Called(i)' <=> Called(i)
      BY <1>0, <2>1, <2>3, <3>2 DEF Called, Ordinals
    <3>4. \A i \in 1 .. Len(results') : i \in 1 .. Len(results) \/ i = n
      BY <1>0, <3>2
    <3>5. \A i \in 1 .. Len(results') : /\ results'[i] <=> batch[i].fate # "malformed"
                                        /\ batch[i].fate \notin {"failing", "panicking"}
      BY <1>0, <2>3, <3>2, <3>4
    <3>6. Len(results') <= Len(batch)
      BY <1>0, <2>1, <3>2
    <3> QED
      BY <1>0, <2>1, <2>3, <3>2, <3>3, <3>5, <3>6
  <2> QED
    BY <1>5, <2>2, <2>3 DEF Serial!SignReturns
<1>6. CASE Serial!Finish
    BY <1>0, <1>6 DEF Serial!Finish
<1>7. CASE Serial!Drift
    BY <1>0, <1>7 DEF Serial!Drift, Called
<1>8. CASE UNCHANGED Serial!vars
    BY <1>0, <1>8 DEF Serial!vars, Called
<1> QED
    BY <1>0, <1>1, <1>2, <1>3, <1>4, <1>5, <1>6, <1>7, <1>8 DEF Serial!Next, Serial!Returned

\* The first failure in caller order decides; without one the vector tells the
\* lowest malformed signature.
LEMMA SerialJudged ==
    ASSUME SerialInv
    PROVE  /\ phase = "signing" /\ batch[Len(results) + 1].fate = "failing" =>
                 /\ Judgement(batch) = ItemError("ExecutorFailed", Len(results) + 1)
                 /\ With(batch, {"failing"}) # {} /\ Lowest(With(batch, {"failing"})) = Len(results) + 1
           /\ Len(results) = Len(batch) =>
                 /\ With(batch, {"failing"}) = {} /\ With(batch, {"panicking"}) = {}
                 /\ Serial!Malformed = With(batch, {"malformed"})
<1>0. Len(batch) \in Nat /\ Len(results) \in Nat
    BY ErrorsTyped DEF SerialInv
<1>1. ASSUME phase = "signing", batch[Len(results) + 1].fate = "failing"
      PROVE  /\ Judgement(batch) = ItemError("ExecutorFailed", Len(results) + 1)
             /\ With(batch, {"failing"}) # {} /\ Lowest(With(batch, {"failing"})) = Len(results) + 1
  <2> DEFINE F == With(batch, {"failing"})
  <2>1. Len(results) + 1 \in F
    BY <1>0, <1>1 DEF With, Ordinals, SerialInv
  <2>2. \A i \in F : i >= Len(results) + 1
    BY <1>0 DEF With, Ordinals, SerialInv
  <2>3. F \subseteq Nat
    BY <1>0 DEF With, Ordinals
  <2> HIDE DEF F
  <2>4. Lowest(F) = Len(results) + 1
    <3>1. Lowest(F) \in F /\ \A j \in F : Lowest(F) <= j
      BY <2>1, <2>3, LowestInSet
    <3>2. Lowest(F) \in Nat /\ Lowest(F) <= Len(results) + 1 /\ Lowest(F) >= Len(results) + 1
      BY <2>1, <2>2, <2>3, <3>1
    <3> QED
      BY <1>0, <3>2
  <2> QED
    BY <2>1, <2>4 DEF F, Judgement
<1>2. ASSUME Len(results) = Len(batch)
      PROVE  /\ With(batch, {"failing"}) = {} /\ With(batch, {"panicking"}) = {}
             /\ Serial!Malformed = With(batch, {"malformed"})
    BY <1>2 DEF With, Ordinals, SerialInv, Serial!Malformed
<1> QED
    BY <1>1, <1>2

\* Handing a job over is the contract's call; the answers are its returns.
LEMMA SerialContractStep ==
    ASSUME SerialInv, [Serial!Next]_(Serial!vars)
    PROVE  [Contract!Next]_(Contract!vars)
<1>0. Len(batch) \in Nat /\ Len(results) \in Nat
    BY ErrorsTyped DEF SerialInv
<1> USE SerialData, SameData
<1>1. CASE UNCHANGED <<batch, calls, verdict>>
    BY <1>1 DEF Contract!vars
<1>2. CASE Serial!Sign
  <2> DEFINE i == Len(results) + 1
  <2>1. i \in Ordinals(batch) /\ calls \in [Ordinals(batch) -> Nat] /\ calls[i] = 0
    BY <1>0, <1>2 DEF Serial!Sign, SerialInv, Called, Ordinals
  <2>2. calls' = [calls EXCEPT ![i] = 1]
    BY <1>2, <2>1 DEF Serial!Sign
  <2>3. Contract!Call(i)
    BY <1>2, <2>1, <2>2 DEF Contract!Call, Serial!Sign, SerialInv
  <2> QED
    BY <2>1, <2>3 DEF Contract!Next
<1>3. ASSUME phase # "done", UNCHANGED <<batch, calls>>,
             verdict' \in Contract!EarlyAnswers \cup Contract!CompleteAnswers \cup Contract!FirstFailure
                            \cup Contract!Panics
      PROVE  Contract!Next
    BY <1>3 DEF Contract!Next, Contract!Return, SerialInv
<1>4. CASE Serial!NewScope \/ Serial!Prepare \/ Serial!CheckIdentity
  <2>1. UNCHANGED <<batch, calls>> /\ results = <<>> /\ phase \in {"new", "ready", "prepared"}
    BY <1>4 DEF Serial!NewScope, Serial!Prepare, Serial!CheckIdentity, SerialInv
  <2>2. \A i \in Ordinals(batch) : calls[i] = 0
    BY <1>0, <2>1 DEF SerialInv, Called, Ordinals
  <2>3. \/ verdict' = verdict
        \/ verdict' \in {BatchError("InvalidScope"), BatchError("SignerMetadataChanged")}
        \/ verdict' = Preflight(batch) /\ Preflight(batch) # Credentials
    BY <1>4 DEF Serial!NewScope, Serial!Prepare, Serial!CheckIdentity, Serial!Answer
  <2>4. verdict' = verdict \/ verdict' \in Contract!EarlyAnswers
    BY <2>2, <2>3 DEF Contract!EarlyAnswers, Contract!Uncalled
  <2> QED
    BY <1>1, <1>3, <2>1, <2>4
<1>5. CASE Serial!SignReturns
  <2> DEFINE n == Len(results) + 1
  <2>1. /\ phase = "signing" /\ UNCHANGED <<batch, calls>> /\ n \in Ordinals(batch) /\ calls[n] = 1
        /\ Preflight(batch) = Credentials
        /\ \A i \in 1 .. n : calls[i] = 1
    BY <1>0, <1>5 DEF Serial!SignReturns, SerialInv, Called, Ordinals
  <2>2. CASE batch[n].fate = "failing"
    <3>1. verdict' = Judgement(batch) /\ With(batch, {"failing"}) # {} /\ Lowest(With(batch, {"failing"})) = n
      BY <1>5, <2>1, <2>2, SerialJudged DEF Serial!SignReturns, Serial!Answer
    <3>2. Contract!Lowest(With(batch, {"failing"})) = n
      BY <3>1 DEF Contract!Lowest, Lowest
    <3> QED
      BY <1>3, <2>1, <3>1, <3>2 DEF Contract!FirstFailure
  <2>3. CASE batch[n].fate = "panicking"
    <3>1. verdict' = Unwind(n) /\ n \in With(batch, {"panicking"})
      BY <1>5, <2>1, <2>3 DEF Serial!SignReturns, Serial!Answer, With
    <3> QED
      BY <1>3, <2>1, <3>1 DEF Contract!Panics
  <2>4. CASE batch[n].fate \notin {"failing", "panicking"}
    BY <1>1, <1>5, <2>4 DEF Serial!SignReturns
  <2> QED
    BY <2>2, <2>3, <2>4
<1>6. CASE Serial!Finish
  <2>1. UNCHANGED <<batch, calls>> /\ phase = "sign" /\ Len(results) = Len(batch)
    BY <1>6 DEF Serial!Finish
  <2>2. /\ With(batch, {"failing"}) = {} /\ With(batch, {"panicking"}) = {}
        /\ Serial!Malformed = With(batch, {"malformed"})
    BY <2>1, SerialJudged
  <2>3. verdict' = Judgement(batch)
    BY <1>6, <2>2 DEF Serial!Finish, Serial!Answer, Judgement
  <2>4. Preflight(batch) = Credentials /\ \A i \in Ordinals(batch) : calls[i] = 1
    BY <1>0, <2>1 DEF SerialInv, Called, Ordinals
  <2> QED
    BY <1>3, <2>1, <2>2, <2>3, <2>4 DEF Contract!CompleteAnswers, Contract!AllCalled
<1> QED
    BY <1>1, <1>2, <1>4, <1>5, <1>6 DEF Serial!Next, Serial!Returned, Serial!vars, Serial!Drift

\* The serial scope gives its callers the same contract, for every batch and
\* signer: it may stop at the failing job that decides the answer.
THEOREM SerialRefinesContract == Serial!Spec => ImplementsContract
<1>1. Serial!Init => SerialInv /\ Contract!Init
  <2> SUFFICES ASSUME Serial!Init PROVE SerialInv /\ Contract!Init
    OBVIOUS
  <2>1. /\ batch \in Batches /\ Len(batch) \in Nat /\ results = <<>> /\ Len(results) = 0
        /\ calls = [i \in Ordinals(batch) |-> 0] /\ verdict = Pending /\ phase = "new"
    BY ErrorsTyped, SerialData DEF Serial!Init
  <2>2. results \in Seq(BOOLEAN) /\ calls \in [Ordinals(batch) -> Nat]
    BY <2>1
  <2>3. \A i \in Ordinals(batch) : calls[i] = IF Called(i) THEN 1 ELSE 0
    BY <2>1 DEF Called, Ordinals
  <2> QED
    BY <2>1, <2>2, <2>3, SameData DEF SerialInv, Contract!Init
<1> QED
    BY <1>1, SerialStep, SerialContractStep, PTL DEF ImplementsContract, Contract!Spec, Serial!Spec

=============================================================================
