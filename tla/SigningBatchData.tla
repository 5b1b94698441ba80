-------------------------- MODULE SigningBatchData --------------------------
(***************************************************************************)
(* What both signing scopes of marty-oid4vci/src/signing_batch.rs share:   *)
(* the caller-ordered batch, the error a batch can end with, and the       *)
(* deterministic precedence of those errors.                               *)
(*                                                                         *)
(* An input is its caller-supplied route and its fate: the first stage of  *)
(* the pipeline that will fail on it, or "good".  Claims, payloads and     *)
(* signature bytes are abstracted to that fate.  Ordinals are 1-based      *)
(* (the code counts from 0).                                               *)
(***************************************************************************)
EXTENDS Integers, Sequences

CONSTANTS
    Routes,     \* SigningRouteId values
    Batches     \* the batches a caller may submit: sequences of inputs

\* "unpreparable": canonical preparation rejects the claims;
\* "failing"     : CredentialSigner::sign returns Err;
\* "panicking"   : CredentialSigner::sign panics;
\* "malformed"   : sign returns bytes that are no P1363 ES256 signature;
\* "unassembled" : the assembler rejects the validated signature.
Fates == {"good", "unpreparable", "failing", "panicking", "malformed", "unassembled"}

Input == [route : Routes, fate : Fates]

ASSUME BatchesAssumption == Batches \subseteq Seq(Input)

-----------------------------------------------------------------------------
(* SigningBatchError and the Ok value.  Ordinal 0 is "batch-wide".         *)

ErrorKinds == {"InvalidScope", "DuplicateRoute", "PreparationFailed", "SignerMetadataChanged",
               "ExecutorFailed", "InvalidExecutorResults", "InvalidSignature",
               "AssemblyFailed"}

BatchError(kind)      == [tag |-> "err", kind |-> kind, ordinal |-> 0]
ItemError(kind, i)    == [tag |-> "err", kind |-> kind, ordinal |-> i]
Credentials           == [tag |-> "ok",  kind |-> "Credentials", ordinal |-> 0]
Unwind(i)             == [tag |-> "panic", kind |-> "Panic", ordinal |-> i]
Pending               == [tag |-> "pending", kind |-> "None", ordinal |-> 0]

Ordinals(batch) == 1 .. Len(batch)

Verdicts(batch) == [tag : {"pending", "ok", "err", "panic"},
                    kind : ErrorKinds \cup {"None", "Credentials", "Panic"},
                    ordinal : 0 .. Len(batch)]

\* The ordinals of a batch whose input has one of the given fates.
With(batch, fates) == {i \in Ordinals(batch) : batch[i].fate \in fates}

Lowest(S) == CHOOSE i \in S : \A j \in S : i <= j

\* validate_unique_routes: the first ordinals of the routes that occur again.
DuplicatedFirst(batch) ==
    {i \in Ordinals(batch) :
        /\ \A j \in 1 .. (i - 1) : batch[j].route # batch[i].route
        /\ \E j \in (i + 1) .. Len(batch) : batch[j].route = batch[i].route}

\* Every prerequisite of the first signing call, in the code's order:
\* unique routes, then preparation of every item.
Preflight(batch) ==
    IF DuplicatedFirst(batch) # {}
    THEN ItemError("DuplicateRoute", Lowest(DuplicatedFirst(batch)))
    ELSE IF With(batch, {"unpreparable"}) # {}
         THEN ItemError("PreparationFailed", Lowest(With(batch, {"unpreparable"})))
         ELSE Credentials

\* What the batch must end with once every job was signed without a panic:
\* backend failures first, then signature form, then assembly, each at the
\* lowest caller ordinal.
Judgement(batch) ==
    IF With(batch, {"failing"}) # {}
    THEN ItemError("ExecutorFailed", Lowest(With(batch, {"failing"})))
    ELSE IF With(batch, {"malformed"}) # {}
         THEN ItemError("InvalidSignature", Lowest(With(batch, {"malformed"})))
         ELSE IF With(batch, {"unassembled"}) # {}
              THEN ItemError("AssemblyFailed", Lowest(With(batch, {"unassembled"})))
              ELSE Credentials

=============================================================================
