----------------------------- MODULE OfflineQueue -----------------------------
(***************************************************************************)
(* The durable event queue of marty-secure-storage/src/database.rs and the *)
(* delivery cycle its operations are made for: fetch the oldest events,    *)
(* upload them, acknowledge or record the failure of exactly that batch.   *)
(* Several clients share the one connection; each operation is a           *)
(* transaction under the connection lock, stamped with a time read before  *)
(* the lock. The clients and the server they upload to are not part of the *)
(* repository.                                                             *)
(***************************************************************************)
EXTENDS Integers, FiniteSets, TLAPS

CONSTANTS
    Events, Clients,
    Limit,          \* the limit a client passes to get_pending_events
    MaxBatch,       \* MAX_QUEUE_BATCH_SIZE
    MaxTime,        \* bound on the clock
    MaxTroubles     \* bound on failed uploads and crashes together

ASSUME QueueAssumption ==
    /\ Limit \in Nat \ {0}
    /\ MaxBatch \in Nat \ {0}
    /\ MaxTime \in Nat \ {0} /\ MaxTroubles \in Nat
    /\ IsFiniteSet(Events)

Null == 0
Times == 0 .. MaxTime
Phases == {"idle", "sending", "accepted", "failed", "acking", "failing"}

VARIABLES
    now,            \* the wall clock
    queue,          \* ids in offline_queue
    created,        \* created_at of each event
    retry_count,    \* retry_count of each event
    queue_state,    \* the offline_queue_state row
    phase, batch, stamp,    \* each client: step of its cycle, batch, time read
    queued,         \* history: events ever queued
    received,       \* history: events the server has accepted
    troubles        \* failed uploads and crashes so far

client == <<phase, batch, stamp>>
vars == <<now, queue, created, retry_count, queue_state, phase, batch, stamp,
          queued, received, troubles>>

Init ==
    /\ now = 1
    /\ queue = {}
    /\ created = [e \in Events |-> Null]
    /\ retry_count = [e \in Events |-> 0]
    /\ queue_state = [attempt |-> Null, success |-> Null, failed |-> FALSE]
    /\ phase = [c \in Clients |-> "idle"]
    /\ batch = [c \in Clients |-> {}]
    /\ stamp = [c \in Clients |-> Null]
    /\ queued = {}
    /\ received = {}
    /\ troubles = 0

-----------------------------------------------------------------------------
(* The operations of the storage.                                          *)

\* queue_event: a fresh id, the time read under the lock.
queue_event(e) ==
    /\ e \notin queued
    /\ queue' = queue \cup {e}
    /\ queued' = queued \cup {e}
    /\ created' = [created EXCEPT ![e] = now]
    /\ UNCHANGED <<now, retry_count, queue_state, client, received, troubles>>

\* ORDER BY created_at ASC LIMIT ?, with ties in any order.
Oldest(S) ==
    /\ S \subseteq queue
    /\ Cardinality(S) = (IF Cardinality(queue) < Limit THEN Cardinality(queue) ELSE Limit)
    /\ \A x \in S, y \in queue \ S : created[x] <= created[y]

\* Mutant of get_pending_events: fetched events leave the queue at once.
FetchAndRemove(c) ==
    /\ phase[c] = "idle" /\ queue # {}
    /\ \E S \in SUBSET queue :
          /\ Oldest(S)
          /\ batch' = [batch EXCEPT ![c] = S]
          /\ queue' = queue \ S
    /\ phase' = [phase EXCEPT ![c] = "sending"]
    /\ UNCHANGED <<now, created, retry_count, queue_state, stamp,
                   queued, received, troubles>>

get_pending_events(c) ==
    /\ phase[c] = "idle" /\ queue # {}
    /\ \E S \in SUBSET queue : Oldest(S) /\ batch' = [batch EXCEPT ![c] = S]
    /\ phase' = [phase EXCEPT ![c] = "sending"]
    /\ UNCHANGED <<now, queue, created, retry_count, queue_state, stamp,
                   queued, received, troubles>>

\* Mutant of ValidBatch: a batch of exactly the maximum size is refused.
ValidBatchBelow(S) == S # {} /\ Cardinality(S) < MaxBatch

\* validate_queue_batch, on the distinct ids a fetch returns
ValidBatch(S) == S # {} /\ Cardinality(S) <= MaxBatch

\* The part of both batch operations before the lock: validation, then the
\* time. An invalid batch ends the cycle.
Stamp(c, from, to) ==
    /\ phase[c] = from
    /\ IF ValidBatch(batch[c])
       THEN /\ phase' = [phase EXCEPT ![c] = to]
            /\ stamp' = [stamp EXCEPT ![c] = now]
            /\ UNCHANGED batch
       ELSE /\ phase' = [phase EXCEPT ![c] = "idle"]
            /\ batch' = [batch EXCEPT ![c] = {}]
            /\ UNCHANGED stamp
    /\ UNCHANGED <<now, queue, created, retry_count, queue_state, queued,
                   received, troubles>>

\* The client is done with its batch.
EndCycle(c) ==
    /\ phase' = [phase EXCEPT ![c] = "idle"]
    /\ batch' = [batch EXCEPT ![c] = {}]
    /\ stamp' = [stamp EXCEPT ![c] = Null]

\* Mutant of acknowledge_queue_batch: missing ids are skipped.
AcknowledgePresent(c) ==
    /\ phase[c] = "acking"
    /\ queue' = queue \ batch[c]
    /\ queue_state' = [attempt |-> stamp[c], success |-> stamp[c], failed |-> FALSE]
    /\ EndCycle(c)
    /\ UNCHANGED <<now, created, retry_count, queued, received, troubles>>

\* acknowledge_queue_batch: a missing id rolls the transaction back.
acknowledge_queue_batch(c) ==
    /\ phase[c] = "acking"
    /\ IF batch[c] \subseteq queue
       THEN /\ queue' = queue \ batch[c]
            /\ queue_state' = [attempt |-> stamp[c], success |-> stamp[c],
                               failed |-> FALSE]
       ELSE UNCHANGED <<queue, queue_state>>
    /\ EndCycle(c)
    /\ UNCHANGED <<now, created, retry_count, queued, received, troubles>>

\* record_queue_batch_failure: likewise all or nothing.
record_queue_batch_failure(c) ==
    /\ phase[c] = "failing"
    /\ IF batch[c] \subseteq queue
       THEN /\ retry_count' = [e \in Events |->
                                 retry_count[e] + (IF e \in batch[c] THEN 1 ELSE 0)]
            /\ queue_state' = [queue_state EXCEPT !.attempt = stamp[c], !.failed = TRUE]
       ELSE UNCHANGED <<retry_count, queue_state>>
    /\ EndCycle(c)
    /\ UNCHANGED <<now, queue, created, queued, received, troubles>>

\* remove_queued_event: one event the server accepted, whatever the batch.
remove_queued_event(c, e) ==
    /\ phase[c] = "accepted" /\ e \in batch[c]
    /\ queue' = queue \ {e}
    /\ batch' = [batch EXCEPT ![c] = @ \ {e}]
    /\ phase' = [phase EXCEPT ![c] = IF batch[c] = {e} THEN "idle" ELSE @]
    /\ UNCHANGED <<now, created, retry_count, queue_state, stamp, queued,
                   received, troubles>>

-----------------------------------------------------------------------------
(* The clients, the server, the clock.                                     *)

\* The server accepts the batch and the client learns it.
UploadAccepted(c) ==
    /\ phase[c] = "sending"
    /\ received' = received \cup batch[c]
    /\ phase' = [phase EXCEPT ![c] = "accepted"]
    /\ UNCHANGED <<now, queue, created, retry_count, queue_state, batch, stamp,
                   queued, troubles>>

\* The upload fails as the client sees it: refused, or accepted with the
\* answer lost.
UploadFailed(c) ==
    /\ phase[c] = "sending" /\ troubles < MaxTroubles
    /\ received' \in {received, received \cup batch[c]}
    /\ phase' = [phase EXCEPT ![c] = "failed"]
    /\ troubles' = troubles + 1
    /\ UNCHANGED <<now, queue, created, retry_count, queue_state, batch, stamp, queued>>

\* The client stops anywhere in its cycle and starts over.
Crash(c) ==
    /\ phase[c] # "idle" /\ troubles < MaxTroubles
    /\ EndCycle(c)
    /\ troubles' = troubles + 1
    /\ UNCHANGED <<now, queue, created, retry_count, queue_state, queued, received>>

Tick ==
    /\ now < MaxTime
    /\ now' = now + 1
    /\ UNCHANGED <<queue, created, retry_count, queue_state, client, queued,
                   received, troubles>>

Acknowledge(c) ==
    Stamp(c, "accepted", "acking") \/ acknowledge_queue_batch(c)
RecordFailure(c) ==
    Stamp(c, "failed", "failing") \/ record_queue_batch_failure(c)
Cycle(c) ==
    get_pending_events(c) \/ UploadAccepted(c) \/ Acknowledge(c) \/ RecordFailure(c)

Next ==
    \/ \E e \in Events : queue_event(e)
    \/ \E c \in Clients : Cycle(c) \/ UploadFailed(c) \/ Crash(c)
    \/ \E c \in Clients, e \in Events : remove_queued_event(c, e)
    \/ Tick

Spec == Init /\ [][Next]_vars

\* Each client keeps running its cycle; uploads fail only MaxTroubles times.
FairSpec == Spec /\ \A c \in Clients : WF_vars(Cycle(c))

-----------------------------------------------------------------------------
(* Properties.                                                             *)

\* Every row and every client holds a value of its type.
TypeOK ==
    /\ now \in Times
    /\ queue \subseteq Events
    /\ created \in [Events -> Times]
    /\ retry_count \in [Events -> Nat]
    /\ queue_state \in [attempt : Times, success : Times, failed : BOOLEAN]
    /\ phase \in [Clients -> Phases]
    /\ batch \in [Clients -> SUBSET Events]
    /\ stamp \in [Clients -> Times]
    /\ queued \subseteq Events
    /\ received \subseteq Events
    /\ troubles \in Nat

\* An event that was queued is in the queue until the server has accepted it:
\* no crash, lost answer, failed batch or overlapping client loses one.
NothingLost == queued \subseteq queue \cup received

\* The status a user reads is one story: while no error is shown, the last
\* attempt is the last success, also when clients commit out of stamp order.
StatusConsistent == ~queue_state.failed => queue_state.attempt = queue_state.success

\* A batch leaves the queue whole or not at all, and only for the client
\* whose batch it is: an acknowledgement that overlaps one already made
\* removes nothing.
WholeBatches ==
    [][\A c \in Clients : phase[c] = "acking" /\ phase'[c] = "idle" =>
          queue \ queue' \in {{}, batch[c]}]_vars

\* Every queued event is delivered and leaves the queue, although clients
\* overlap, crash and refuse each other's acknowledgements.
Drains == \A e \in Events : e \in queue ~> e \notin queue

-----------------------------------------------------------------------------
(* Proofs, for every value of the constants.                               *)

\* A batch on its way to an acknowledgement has been accepted.
AcceptedBatches ==
    \A c \in Clients : phase[c] \in {"accepted", "acking"} => batch[c] \subseteq received

IInv == TypeOK /\ AcceptedBatches /\ NothingLost /\ StatusConsistent

\* An empty database satisfies the invariant.
LEMMA InitInv == Init => IInv
  <1> SUFFICES ASSUME Init PROVE IInv
    OBVIOUS
  <1>1. TypeOK
    BY QueueAssumption DEF Init, TypeOK, Times, Null, Phases
  <1>2. AcceptedBatches /\ NothingLost /\ StatusConsistent
    BY DEF Init, AcceptedBatches, NothingLost, StatusConsistent
  <1> QED
    BY <1>1, <1>2 DEF IInv

\* Types are preserved.
LEMMA StepType == TypeOK /\ [Next]_vars => TypeOK'
  <1> SUFFICES ASSUME TypeOK, [Next]_vars PROVE TypeOK'
    OBVIOUS
  <1> USE DEF TypeOK, Phases
  <1>0. Null \in Times
    BY QueueAssumption DEF Null, Times
  <1>0a. ASSUME NEW c \in Clients, EndCycle(c)
         PROVE  phase' \in [Clients -> Phases] /\ batch' \in [Clients -> SUBSET Events]
                /\ stamp' \in [Clients -> Times]
    BY <1>0, <1>0a DEF EndCycle
  <1>1. ASSUME NEW e \in Events, queue_event(e) PROVE TypeOK'
    BY <1>1 DEF queue_event, client
  <1>2. ASSUME NEW c \in Clients, get_pending_events(c) PROVE TypeOK'
    BY <1>2 DEF get_pending_events
  <1>3. ASSUME NEW c \in Clients, UploadAccepted(c) PROVE TypeOK'
    BY <1>3 DEF UploadAccepted
  <1>4. ASSUME NEW c \in Clients, NEW from, NEW to \in Phases, Stamp(c, from, to)
        PROVE  TypeOK'
    BY <1>4 DEF Stamp
  <1>5. ASSUME NEW c \in Clients, acknowledge_queue_batch(c) PROVE TypeOK'
    <2>1. stamp[c] \in Times
      OBVIOUS
    <2>2. queue' \subseteq Events
      BY <1>5 DEF acknowledge_queue_batch
    <2>3. queue_state' \in [attempt : Times, success : Times, failed : BOOLEAN]
      <3>1. [attempt |-> stamp[c], success |-> stamp[c], failed |-> FALSE]
               \in [attempt : Times, success : Times, failed : BOOLEAN]
        BY <2>1, Zenon
      <3>2. queue_state' \in {queue_state,
                             [attempt |-> stamp[c], success |-> stamp[c], failed |-> FALSE]}
        BY <1>5, Zenon DEF acknowledge_queue_batch
      <3>3. queue_state \in [attempt : Times, success : Times, failed : BOOLEAN]
        BY DEF TypeOK
      <3> QED
        BY ONLY <3>1, <3>2, <3>3, Zenon
    <2> QED
      BY <1>0a, <1>5, <2>2, <2>3 DEF acknowledge_queue_batch
  <1>6. ASSUME NEW c \in Clients, record_queue_batch_failure(c) PROVE TypeOK'
    <2>1. retry_count' \in [Events -> Nat]
      BY <1>6 DEF record_queue_batch_failure
    <2>2. queue_state' \in [attempt : Times, success : Times, failed : BOOLEAN]
      <3>1. queue_state \in [attempt : Times, success : Times, failed : BOOLEAN] /\ stamp[c] \in Times
        BY DEF TypeOK
      <3>2. \/ queue_state' = queue_state
            \/ queue_state' = [queue_state EXCEPT !.attempt = stamp[c], !.failed = TRUE]
        BY <1>6, Zenon DEF record_queue_batch_failure
      <3> QED
        BY ONLY <3>1, <3>2
    <2> QED
      BY <1>0a, <1>6, <2>1, <2>2 DEF record_queue_batch_failure
  <1>7. ASSUME NEW c \in Clients, UploadFailed(c) PROVE TypeOK'
    BY <1>7 DEF UploadFailed
  <1>8. ASSUME NEW c \in Clients, Crash(c) PROVE TypeOK'
    BY <1>0a, <1>8 DEF Crash
  <1>9. ASSUME NEW c \in Clients, NEW e \in Events, remove_queued_event(c, e) PROVE TypeOK'
    BY <1>9 DEF remove_queued_event
  <1>10. CASE Tick
    BY <1>10, QueueAssumption DEF Tick, client, Times
  <1>11. CASE UNCHANGED vars
    BY <1>11 DEF vars
  <1> QED
    BY <1>1, <1>2, <1>3, <1>4, <1>5, <1>6, <1>7, <1>8, <1>9, <1>10, <1>11
    DEF Next, Cycle, Acknowledge, RecordFailure

\* Each operation keeps accepted batches, the events and the status.
LEMMA StepRest == IInv /\ [Next]_vars => (AcceptedBatches /\ NothingLost /\ StatusConsistent)'
  <1> SUFFICES ASSUME IInv, [Next]_vars
               PROVE  (AcceptedBatches /\ NothingLost /\ StatusConsistent)'
    OBVIOUS
  <1> USE DEF IInv, TypeOK, AcceptedBatches, NothingLost, StatusConsistent
  <1>1. ASSUME NEW e \in Events, queue_event(e)
        PROVE  (AcceptedBatches /\ NothingLost /\ StatusConsistent)'
    BY <1>1 DEF queue_event, client
  <1>2. ASSUME NEW c \in Clients, get_pending_events(c)
        PROVE  (AcceptedBatches /\ NothingLost /\ StatusConsistent)'
    BY <1>2 DEF get_pending_events
  <1>3. ASSUME NEW c \in Clients, UploadAccepted(c)
        PROVE  (AcceptedBatches /\ NothingLost /\ StatusConsistent)'
    BY <1>3 DEF UploadAccepted
  <1>4. ASSUME NEW c \in Clients, Acknowledge(c)
        PROVE  (AcceptedBatches /\ NothingLost /\ StatusConsistent)'
    <2>1. CASE Stamp(c, "accepted", "acking")
      BY <2>1 DEF Stamp
    <2>2. CASE acknowledge_queue_batch(c)
      <3>1. AcceptedBatches'
        BY <2>2 DEF acknowledge_queue_batch, EndCycle
      <3>2. NothingLost'
        BY <2>2 DEF acknowledge_queue_batch
      <3>3. StatusConsistent'
        BY <2>2 DEF acknowledge_queue_batch
      <3> QED
        BY <3>1, <3>2, <3>3
    <2> QED
      BY <1>4, <2>1, <2>2 DEF Acknowledge
  <1>5. ASSUME NEW c \in Clients, RecordFailure(c)
        PROVE  (AcceptedBatches /\ NothingLost /\ StatusConsistent)'
    <2>1. CASE Stamp(c, "failed", "failing")
      BY <2>1 DEF Stamp
    <2>2. CASE record_queue_batch_failure(c)
      <3>1. AcceptedBatches'
        BY <2>2 DEF record_queue_batch_failure, EndCycle
      <3>2. NothingLost'
        BY <2>2 DEF record_queue_batch_failure
      <3>3. StatusConsistent'
        BY <2>2 DEF record_queue_batch_failure
      <3> QED
        BY <3>1, <3>2, <3>3
    <2> QED
      BY <1>5, <2>1, <2>2 DEF RecordFailure
  <1>6. ASSUME NEW c \in Clients, UploadFailed(c)
        PROVE  (AcceptedBatches /\ NothingLost /\ StatusConsistent)'
    BY <1>6 DEF UploadFailed
  <1>7. ASSUME NEW c \in Clients, Crash(c)
        PROVE  (AcceptedBatches /\ NothingLost /\ StatusConsistent)'
    BY <1>7 DEF Crash, EndCycle
  <1>8. ASSUME NEW c \in Clients, NEW e \in Events, remove_queued_event(c, e)
        PROVE  (AcceptedBatches /\ NothingLost /\ StatusConsistent)'
    BY <1>8 DEF remove_queued_event
  <1>9. CASE Tick
    BY <1>9 DEF Tick, client
  <1>10. CASE UNCHANGED vars
    BY <1>10 DEF vars
  <1> QED
    BY <1>1, <1>2, <1>3, <1>4, <1>5, <1>6, <1>7, <1>8, <1>9, <1>10 DEF Next, Cycle

\* The invariant holds in every state.
THEOREM Invariance == Spec => []IInv
  <1>1. IInv /\ [Next]_vars => IInv'
    BY StepType, StepRest DEF IInv
  <1> QED
    BY InitInv, <1>1, PTL DEF Spec

\* No queued event is lost before the server has it.
THEOREM NothingLostCorrect == Spec => []NothingLost
  <1>1. IInv => NothingLost
    BY DEF IInv
  <1> QED
    BY <1>1, Invariance, PTL

\* The status row always tells one story.
THEOREM StatusCorrect == Spec => []StatusConsistent
  <1>1. IInv => StatusConsistent
    BY DEF IInv
  <1> QED
    BY <1>1, Invariance, PTL

\* An acknowledgement removes its whole batch or nothing.
THEOREM WholeBatchesCorrect == Spec => WholeBatches
  <1> DEFINE Whole ==
        \A c \in Clients : phase[c] = "acking" /\ phase'[c] = "idle" =>
            queue \ queue' \in {{}, batch[c]}
  <1>1. IInv /\ [Next]_vars => Whole
    <2> SUFFICES ASSUME IInv, [Next]_vars, NEW c \in Clients,
                        phase[c] = "acking", phase'[c] = "idle"
                 PROVE  queue \ queue' \in {{}, batch[c]}
      OBVIOUS
    <2> USE DEF IInv, TypeOK
    <2>1. ASSUME queue \subseteq queue' PROVE queue \ queue' \in {{}, batch[c]}
      BY <2>1
    <2>2. ASSUME NEW o \in Clients, acknowledge_queue_batch(o)
          PROVE  queue \ queue' \in {{}, batch[c]}
      <3>1. o = c
        BY <2>2 DEF acknowledge_queue_batch, EndCycle
      <3>2. CASE batch[c] \subseteq queue
        <4>1. queue' = queue \ batch[c]
          BY <2>2, <3>1, <3>2 DEF acknowledge_queue_batch
        <4>2. queue \ queue' = batch[c]
          BY <4>1, <3>2
        <4> QED
          BY <4>2
      <3>3. CASE ~(batch[c] \subseteq queue)
        BY <2>1, <2>2, <3>1, <3>3 DEF acknowledge_queue_batch
      <3> QED
        BY <3>2, <3>3
    <2>3. ASSUME NEW o \in Clients, NEW e \in Events, remove_queued_event(o, e)
          PROVE  FALSE
      BY <2>3 DEF remove_queued_event
    <2>4. ASSUME NEW o \in Clients, \/ get_pending_events(o) \/ UploadAccepted(o)
                                    \/ Stamp(o, "accepted", "acking")
                                    \/ RecordFailure(o) \/ UploadFailed(o) \/ Crash(o)
          PROVE  queue' = queue
      BY <2>4 DEF get_pending_events, UploadAccepted, Stamp, RecordFailure,
                  record_queue_batch_failure, UploadFailed, Crash
    <2>5. ASSUME NEW e \in Events, queue_event(e) PROVE queue \subseteq queue'
      BY <2>5 DEF queue_event
    <2>6. ASSUME Tick \/ UNCHANGED vars PROVE queue' = queue
      BY <2>6 DEF Tick, vars
    <2> QED
      BY <2>1, <2>2, <2>3, <2>4, <2>5, <2>6 DEF Next, Cycle, Acknowledge
  <1> QED
    BY <1>1, Invariance, PTL DEF Spec, WholeBatches

=============================================================================
