------------------------------ MODULE MdlSession ------------------------------
(***************************************************************************)
(* One ISO 18013-5 Session (marty-iso18013/src/protocol.rs) used by several *)
(* tasks at once. Its state, its SessionEncryption and its key agreement   *)
(* are behind three RwLocks; a step of this model is what a task does      *)
(* between two awaits. The encryption lock is never held across an await,  *)
(* so it needs no variable: its critical sections are single steps.        *)
(***************************************************************************)
EXTENDS Integers

CONSTANTS
    Tasks,
    NoTask,         \* no task holds the lock
    MaxCounter      \* u32::MAX of the message counters

ASSUME SessionAssumption ==
    /\ MaxCounter \in Nat \ {0}
    /\ NoTask \notin Tasks

States == {"Engagement", "Established", "Terminated"}
Roles == {"Device", "Reader"}

VARIABLES
    role,           \* which peer this session is
    careful,        \* whether no caller ever drops a future at an await
    expired,        \* has the monotonic deadline passed
    state,          \* SessionState
    keys,           \* is the SessionEncryption present
    send_counter, receive_counter,
    private_key, peer_key,      \* SessionKeyAgreement: what it retains
    state_lock, ka_lock,        \* the task that holds the lock for writing
    pc,             \* pc[t]: where task t is
    closed          \* history: some terminate or expiry has completed

counters == <<send_counter, receive_counter>>
agreement == <<private_key, peer_key>>
settings == <<role, careful>>
vars == <<settings, expired, state, keys, counters, agreement, state_lock, ka_lock, pc, closed>>

Calls == {"establish", "send", "receive", "public_key", "state"}
Points == {"idle", "terminate", "clear_keys", "clear_agreement",
           "establish_state", "establish_agree", "establish_install",
           "establish_expired", "send_state", "send_encrypt",
           "receive_state", "receive_decrypt", "public_key_state",
           "public_key_read", "state_read"}

At(t, point) == pc[t] = point
Goto(t, point) == pc' = [pc EXCEPT ![t] = point]

\* new_for_role: the agreement holds the ephemeral key, no keys yet.
Init ==
    /\ role \in Roles /\ careful \in BOOLEAN
    /\ expired = FALSE
    /\ state = "Engagement"
    /\ keys = FALSE
    /\ send_counter = 0 /\ receive_counter = 0
    /\ private_key = TRUE /\ peer_key = FALSE
    /\ state_lock = NoTask /\ ka_lock = NoTask
    /\ pc = [t \in Tasks |-> "idle"]
    /\ closed = FALSE

-----------------------------------------------------------------------------
(* ensure_not_expired, terminate and expire_session.                       *)

AfterCheck ==
    [establish |-> "establish_state", send |-> "send_state", receive |-> "receive_state",
     public_key |-> "public_key_state", state |-> "state_read"]

\* Every call but terminate starts with ensure_not_expired.
Call(t, call) ==
    /\ At(t, "idle")
    /\ Goto(t, IF expired THEN "terminate" ELSE AfterCheck[call])
    /\ UNCHANGED <<settings, expired, state, keys, counters, agreement, state_lock,
                   ka_lock, closed>>

CallTerminate(t) ==
    /\ At(t, "idle")
    /\ Goto(t, "terminate")
    /\ UNCHANGED <<settings, expired, state, keys, counters, agreement, state_lock,
                   ka_lock, closed>>

\* state.write(): the lock is kept until the end of the call.
Terminate(t) ==
    /\ At(t, "terminate") /\ state_lock = NoTask
    /\ state_lock' = t
    /\ state' = "Terminated"
    /\ Goto(t, "clear_keys")
    /\ UNCHANGED <<settings, expired, keys, counters, agreement, ka_lock, closed>>

ClearKeys(t) ==
    /\ At(t, "clear_keys")
    /\ keys' = FALSE
    /\ Goto(t, "clear_agreement")
    /\ UNCHANGED <<settings, expired, state, counters, agreement, state_lock, ka_lock, closed>>

\* Mutant of ClearAgreement: only the key pair is dropped.
ClearAgreementKeyOnly(t) ==
    /\ At(t, "clear_agreement") /\ ka_lock = NoTask
    /\ private_key' = FALSE
    /\ state_lock' = NoTask
    /\ closed' = TRUE
    /\ Goto(t, "idle")
    /\ UNCHANGED <<settings, expired, state, keys, counters, peer_key, ka_lock>>

\* clear_private_state, then the call returns.
ClearAgreement(t) ==
    /\ At(t, "clear_agreement") /\ ka_lock = NoTask
    /\ private_key' = FALSE /\ peer_key' = FALSE
    /\ state_lock' = NoTask
    /\ closed' = TRUE
    /\ Goto(t, "idle")
    /\ UNCHANGED <<settings, expired, state, keys, counters, ka_lock>>

-----------------------------------------------------------------------------
(* establish: state.write, then key_agreement.write, then encryption.write. *)

\* The state must be Engagement; a reader accepts only the engaged device key.
EstablishState(t) ==
    /\ At(t, "establish_state") /\ state_lock = NoTask
    /\ \E matches \in BOOLEAN :
          IF state = "Engagement" /\ (role = "Reader" => matches)
          THEN state_lock' = t /\ Goto(t, "establish_agree")
          ELSE UNCHANGED state_lock /\ Goto(t, "idle")
    /\ UNCHANGED <<settings, expired, state, keys, counters, agreement, ka_lock, closed>>

\* The peer key is not a P-256 point: nothing is stored.
EstablishBadPeer(t) ==
    /\ At(t, "establish_agree") /\ ka_lock = NoTask
    /\ state_lock' = NoTask
    /\ Goto(t, "idle")
    /\ UNCHANGED <<settings, expired, state, keys, counters, agreement, ka_lock, closed>>

\* The peer key is stored; the private key was used up by an earlier call,
\* or is used up now and the transcript or the derivation fails.
EstablishFails(t) ==
    /\ At(t, "establish_agree") /\ ka_lock = NoTask
    /\ peer_key' = TRUE /\ private_key' = FALSE
    /\ state_lock' = NoTask
    /\ Goto(t, "idle")
    /\ UNCHANGED <<settings, expired, state, keys, counters, ka_lock, closed>>

\* Agreement succeeds. Past the deadline everything is dropped again.
EstablishAgree(t) ==
    /\ At(t, "establish_agree") /\ ka_lock = NoTask
    /\ private_key
    /\ private_key' = FALSE
    /\ IF expired
       THEN /\ peer_key' = FALSE
            /\ state' = "Terminated"
            /\ Goto(t, "establish_expired")
            /\ UNCHANGED ka_lock
       ELSE /\ peer_key' = TRUE
            /\ ka_lock' = t
            /\ Goto(t, "establish_install")
            /\ UNCHANGED state
    /\ UNCHANGED <<settings, expired, keys, counters, state_lock, closed>>

EstablishExpired(t) ==
    /\ At(t, "establish_expired")
    /\ keys' = FALSE
    /\ state_lock' = NoTask
    /\ closed' = TRUE
    /\ Goto(t, "idle")
    /\ UNCHANGED <<settings, expired, state, counters, agreement, ka_lock>>

EstablishInstall(t) ==
    /\ At(t, "establish_install")
    /\ keys' = TRUE
    /\ send_counter' = 0 /\ receive_counter' = 0
    /\ state' = "Established"
    /\ state_lock' = NoTask /\ ka_lock' = NoTask
    /\ Goto(t, "idle")
    /\ UNCHANGED <<settings, expired, agreement, closed>>

-----------------------------------------------------------------------------
(* send_encrypted and receive_encrypted: the state lock is released before *)
(* the encryption lock is taken.                                           *)

\* The state must be Established and the message within its limit.
ReadState(t, from, to) ==
    /\ At(t, from) /\ state_lock = NoTask
    /\ \E oversized \in BOOLEAN :
          Goto(t, IF state = "Established" /\ ~oversized THEN to ELSE "idle")
    /\ UNCHANGED <<settings, expired, state, keys, counters, agreement, state_lock,
                   ka_lock, closed>>

\* Mutant of LateUse: the call starts over instead of expiring the session.
LateUseRetried(t) ==
    /\ expired
    /\ Goto(t, IF At(t, "send_encrypt") THEN "send_state" ELSE "receive_state")
    /\ UNCHANGED <<settings, expired, state, keys, counters, agreement, state_lock, ka_lock, closed>>

\* Under the encryption lock: past the deadline the keys go first, then the
\* rest through expire_session.
LateUse(t) ==
    /\ expired
    /\ keys' = FALSE
    /\ Goto(t, "terminate")
    /\ UNCHANGED <<settings, expired, state, counters, agreement, state_lock, ka_lock, closed>>

\* Mutant of Encrypt: the check made at the start of the call is enough.
EncryptUnchecked(t) ==
    /\ At(t, "send_encrypt")
    /\ send_counter' = IF keys /\ send_counter < MaxCounter
                       THEN send_counter + 1 ELSE send_counter
    /\ Goto(t, "idle")
    /\ UNCHANGED <<settings, expired, state, keys, receive_counter, agreement,
                   state_lock, ka_lock, closed>>

\* SessionEncryption::encrypt; without keys or with the counter used up the
\* call fails and changes nothing.
Encrypt(t) ==
    /\ At(t, "send_encrypt")
    /\ \/ LateUse(t)
       \/ /\ ~expired
          /\ send_counter' = IF keys /\ send_counter < MaxCounter
                             THEN send_counter + 1 ELSE send_counter
          /\ Goto(t, "idle")
          /\ UNCHANGED <<settings, expired, state, keys, receive_counter, agreement,
                         state_lock, ka_lock, closed>>

\* SessionEncryption::decrypt; a message that does not authenticate leaves
\* the counter where it is.
Decrypt(t) ==
    /\ At(t, "receive_decrypt")
    /\ \/ LateUse(t)
       \/ /\ ~expired
          /\ \E authentic \in BOOLEAN :
                receive_counter' = IF keys /\ authentic /\ receive_counter < MaxCounter
                                   THEN receive_counter + 1 ELSE receive_counter
          /\ Goto(t, "idle")
          /\ UNCHANGED <<settings, expired, state, keys, send_counter, agreement,
                         state_lock, ka_lock, closed>>

-----------------------------------------------------------------------------
(* public_key and state.                                                   *)

PublicKeyState(t) ==
    /\ At(t, "public_key_state") /\ state_lock = NoTask
    /\ Goto(t, IF state = "Terminated" THEN "idle" ELSE "public_key_read")
    /\ UNCHANGED <<settings, expired, state, keys, counters, agreement, state_lock,
                   ka_lock, closed>>

\* The read guard is dropped before expire_session takes the locks.
PublicKeyRead(t) ==
    /\ At(t, "public_key_read") /\ ka_lock = NoTask
    /\ Goto(t, IF expired THEN "terminate" ELSE "idle")
    /\ UNCHANGED <<settings, expired, state, keys, counters, agreement, state_lock,
                   ka_lock, closed>>

StateRead(t) ==
    /\ At(t, "state_read") /\ state_lock = NoTask
    /\ Goto(t, "idle")
    /\ UNCHANGED <<settings, expired, state, keys, counters, agreement, state_lock,
                   ka_lock, closed>>

\* A caller drops the future while it awaits: its guards are released, what
\* it wrote stays.
Cancel(t) ==
    /\ ~careful /\ ~At(t, "idle")
    /\ state_lock' = IF state_lock = t THEN NoTask ELSE state_lock
    /\ ka_lock' = IF ka_lock = t THEN NoTask ELSE ka_lock
    /\ Goto(t, "idle")
    /\ UNCHANGED <<settings, expired, state, keys, counters, agreement, closed>>

DeadlinePasses ==
    /\ ~expired
    /\ expired' = TRUE
    /\ UNCHANGED <<settings, state, keys, counters, agreement, state_lock, ka_lock, pc, closed>>

\* The steps of a call that has been made.
Continue(t) ==
    \/ Terminate(t) \/ ClearKeys(t) \/ ClearAgreement(t)
    \/ EstablishState(t) \/ EstablishBadPeer(t) \/ EstablishFails(t)
    \/ EstablishAgree(t) \/ EstablishExpired(t) \/ EstablishInstall(t)
    \/ ReadState(t, "send_state", "send_encrypt") \/ Encrypt(t)
    \/ ReadState(t, "receive_state", "receive_decrypt") \/ Decrypt(t)
    \/ PublicKeyState(t) \/ PublicKeyRead(t) \/ StateRead(t)

Next ==
    \/ \E t \in Tasks : Continue(t) \/ CallTerminate(t) \/ Cancel(t)
    \/ \E t \in Tasks, call \in Calls : Call(t, call)
    \/ DeadlinePasses

Spec == Init /\ [][Next]_vars

\* The runtime polls every woken task and tokio's RwLock is fair: a task that
\* waits for a lock which is released again and again gets it.
FairSpec == Spec /\ \A t \in Tasks : SF_vars(Continue(t))

-----------------------------------------------------------------------------
(* Properties.                                                             *)

\* Every variable holds a value of its type; a counter never leaves u32.
TypeOK ==
    /\ role \in Roles /\ careful \in BOOLEAN /\ expired \in BOOLEAN /\ state \in States
    /\ keys \in BOOLEAN /\ private_key \in BOOLEAN /\ peer_key \in BOOLEAN
    /\ send_counter \in 0 .. MaxCounter /\ receive_counter \in 0 .. MaxCounter
    /\ state_lock \in Tasks \cup {NoTask} /\ ka_lock \in Tasks \cup {NoTask}
    /\ pc \in [Tasks -> Points] /\ closed \in BOOLEAN

\* As long as no caller drops a future, whoever can read Terminated from the state finds no session keys, no
\* private key and no peer key left in memory.
TerminatedIsCleared ==
    careful /\ state = "Terminated" /\ state_lock = NoTask => ~keys /\ ~private_key /\ ~peer_key

\* Once a terminate or an expiry has completed, nothing is encrypted or
\* decrypted any more and the session is not established again, whatever
\* calls were under way; nor are the keys used after the deadline, although
\* the check at the start of a call may be long past when the lock is granted.
NoUseAfterEnd ==
    [][/\ expired => counters' = counters
       /\ closed => counters' = counters /\ state' = "Terminated" /\ ~keys']_vars

\* Every call returns: no order of the three locks makes tasks wait for each
\* other or for themselves.
CallsReturn == \A t \in Tasks : pc[t] # "idle" ~> pc[t] = "idle"

=============================================================================
