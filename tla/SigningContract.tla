--------------------------- MODULE SigningContract ---------------------------
(***************************************************************************)
(* What a caller of sign_batch / sign_batch_concurrently is promised,      *)
(* without threads, claims or result envelopes: which signer calls may     *)
(* happen, and which answer the batch may end with after them.  Both the   *)
(* serial and the concurrent scope are shown to implement it.              *)
(***************************************************************************)
EXTENDS SigningBatchData

VARIABLES
    batch,      \* the submitted inputs
    calls,      \* calls[i]: how often job i was handed to CredentialSigner::sign
    verdict     \* Pending until the batch returns or unwinds

vars == <<batch, calls, verdict>>

Init ==
    /\ batch \in Batches
    /\ calls = [i \in Ordinals(batch) |-> 0]
    /\ verdict = Pending

\* One signer call.  It needs a fully prepared batch, and a job that was
\* never handed to the signer before: nothing is retried.
Call(i) ==
    /\ verdict = Pending
    /\ Preflight(batch) = Credentials
    /\ calls[i] = 0
    /\ calls' = [calls EXCEPT ![i] = 1]
    /\ UNCHANGED <<batch, verdict>>

Uncalled == \A i \in Ordinals(batch) : calls[i] = 0
AllCalled == \A i \in Ordinals(batch) : calls[i] = 1

\* Before any signer call: a scope, identity or preparation error.
EarlyAnswers ==
    IF Uncalled
    THEN {BatchError("InvalidScope"), BatchError("SignerMetadataChanged")}
            \cup ({Preflight(batch)} \ {Credentials})
    ELSE {}

\* After every job was called and none panicked: drift, or the one answer
\* the batch determines.
CompleteAnswers ==
    IF Preflight(batch) = Credentials /\ AllCalled /\ With(batch, {"panicking"}) = {}
    THEN {BatchError("SignerMetadataChanged"), Judgement(batch)}
    ELSE {}

\* A serial scope may stop at the failing job that decides the answer.
FirstFailure ==
    IF /\ Preflight(batch) = Credentials
       /\ With(batch, {"failing"}) # {}
       /\ \A i \in 1 .. Lowest(With(batch, {"failing"})) : calls[i] = 1
    THEN {Judgement(batch)}
    ELSE {}

\* A panic surfaces as the panic of a job that was called.
Panics == {Unwind(i) : i \in {j \in With(batch, {"panicking"}) : calls[j] = 1}}

Return ==
    /\ verdict = Pending
    /\ verdict' \in EarlyAnswers \cup CompleteAnswers \cup FirstFailure \cup Panics
    /\ UNCHANGED <<batch, calls>>

Next == (\E i \in Ordinals(batch) : Call(i)) \/ Return

Spec == Init /\ [][Next]_vars
=============================================================================
