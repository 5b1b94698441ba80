---------------------------- MODULE SerialSigning ----------------------------
(***************************************************************************)
(* The default serial scope, Es256SignerScope: the same pipeline without   *)
(* workers.  The first signer error ends the batch at its ordinal, a panic *)
(* unwinds through the caller, and the metadata is checked once, before    *)
(* the first call.                                                         *)
(***************************************************************************)
EXTENDS SigningBatchData

CONSTANTS Identities, ValidIdentities

VARIABLES
    batch, signer, identity,
    phase,      \* "new", "ready", "prepared", "sign", "signing" or "done"
    results,    \* the outcomes so far: job i's is at position i
    calls,      \* history: how often each job was given to the signer
    verdict

vars == <<batch, signer, identity, phase, results, calls, verdict>>

Init ==
    /\ batch \in Batches
    /\ signer \in Identities
    /\ identity = signer
    /\ phase = "new"
    /\ results = <<>>
    /\ calls = [i \in Ordinals(batch) |-> 0]
    /\ verdict = Pending

Answer(v) == phase' = "done" /\ verdict' = v

\* Es256SignerScope::new
NewScope ==
    /\ phase = "new"
    /\ identity' = signer
    /\ IF signer \in ValidIdentities
       THEN phase' = "ready" /\ UNCHANGED verdict
       ELSE Answer(BatchError("InvalidScope"))
    /\ UNCHANGED <<batch, signer, results, calls>>

Prepare ==
    /\ phase = "ready"
    /\ IF Preflight(batch) = Credentials
       THEN phase' = "prepared" /\ UNCHANGED verdict
       ELSE Answer(Preflight(batch))
    /\ UNCHANGED <<batch, signer, identity, results, calls>>

\* Mutant of CheckIdentity: the drift is noticed after the first signer call.
CheckIdentityLate ==
    /\ phase = "prepared"
    /\ IF signer # identity
       THEN /\ Answer(BatchError("SignerMetadataChanged"))
            /\ calls' = [i \in Ordinals(batch) |-> IF i = 1 THEN 1 ELSE 0]
       ELSE phase' = "sign" /\ UNCHANGED <<verdict, calls>>
    /\ UNCHANGED <<batch, signer, identity, results>>

CheckIdentity ==
    /\ phase = "prepared"
    /\ IF signer # identity
       THEN Answer(BatchError("SignerMetadataChanged"))
       ELSE phase' = "sign" /\ UNCHANGED verdict
    /\ UNCHANGED <<batch, signer, identity, results, calls>>

\* SerialSigningExecutor::execute hands the next job to the signer ...
Sign ==
    /\ phase = "sign"
    /\ Len(results) < Len(batch)
    /\ calls' = [calls EXCEPT ![Len(results) + 1] = @ + 1]
    /\ phase' = "signing"
    /\ UNCHANGED <<batch, signer, identity, results, verdict>>

\* ... and goes on, fails or unwinds with what it gets back.
SignReturns ==
    /\ phase = "signing"
    /\ LET i == Len(results) + 1 IN
         CASE batch[i].fate = "failing"   -> /\ Answer(ItemError("ExecutorFailed", i))
                                             /\ UNCHANGED results
           [] batch[i].fate = "panicking" -> Answer(Unwind(i)) /\ UNCHANGED results
           [] OTHER -> /\ results' = Append(results, batch[i].fate # "malformed")
                       /\ phase' = "sign"
                       /\ UNCHANGED verdict
    /\ UNCHANGED <<batch, signer, identity, calls>>

\* The executor is done: validate_executor_results and assemble_credentials.
Malformed == {i \in 1 .. Len(results) : ~results[i]}

Finish ==
    /\ phase = "sign"
    /\ Len(results) = Len(batch)
    /\ Answer(IF Malformed # {} THEN ItemError("InvalidSignature", Lowest(Malformed))
              ELSE IF With(batch, {"unassembled"}) # {}
                   THEN ItemError("AssemblyFailed", Lowest(With(batch, {"unassembled"})))
                   ELSE Credentials)
    /\ UNCHANGED <<batch, signer, identity, results, calls>>

Drift ==
    /\ phase # "done"
    /\ \E id \in Identities \ {signer} : signer' = id
    /\ UNCHANGED <<batch, identity, phase, results, calls, verdict>>

Returned == phase = "done" /\ UNCHANGED vars

Next == NewScope \/ Prepare \/ CheckIdentity \/ Sign \/ SignReturns
          \/ Finish \/ Drift \/ Returned

Spec == Init /\ [][Next]_vars

-----------------------------------------------------------------------------
\* The serial scope gives its callers the same contract as the concurrent one.
Contract == INSTANCE SigningContract WITH batch <- batch, calls <- calls, verdict <- verdict
ImplementsContract == Contract!Spec

=============================================================================
