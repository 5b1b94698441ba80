------------------------------- MODULE SignerIpc -------------------------------
(***************************************************************************)
(* The local signer agent of marty-test-wallet: calls of request_signature *)
(* (src/signer_ipc.rs) connect to one agent (src/bin/                      *)
(* marty-test-signer-agent.rs) that takes connections one at a time,       *)
(* checks the request, asks a remote KMS and answers. A frame may be       *)
(* delivered again on another connection; a caller may have given up when  *)
(* its request is read; the agent may be restarted.                        *)
(***************************************************************************)
EXTENDS Integers, Sequences, FiniteSets, FiniteSetTheorems, TLAPS

CONSTANTS
    Calls,          \* calls of request_signature; each makes one fresh nonce
    Allowed,        \* the calls for the agent's allowed key
    NoCall,
    Skew,           \* MAX_CLOCK_SKEW_SECONDS
    Patience,       \* the timeout of request_signature
    MaxEntries,     \* MAX_REPLAY_ENTRIES
    Faults,         \* which of "restart", "setback" may happen
    MaxTime,        \* bound on the clock
    MaxExtra        \* bound on repeated frames, bad connections and faults

ASSUME IpcAssumption ==
    /\ Allowed \subseteq Calls /\ NoCall \notin Calls
    /\ Skew \in Nat /\ Patience \in Nat /\ MaxEntries \in Nat \ {0}
    /\ MaxTime \in Nat \ {0} /\ MaxExtra \in Nat
    /\ Faults \subseteq {"restart", "setback"}

Times == 1 .. MaxTime
Never == 0          \* no entry in the replay cache

\* A connection: a request frame, whose caller may still be waiting at its
\* other end, or something that is no valid request.
Unusable == [call |-> NoCall, original |-> FALSE]
Connection == [call : Calls, original : BOOLEAN] \cup {Unusable}

VARIABLES
    now,            \* the wall clock both processes read
    client,         \* client[c]: where the call is, or what it returned
    issued,         \* issued[c]: the timestamp in its request
    backlog,        \* connections the listener has not accepted
    agent,          \* what the loop of main is doing
    serving,        \* the connection it is doing it for
    accepted,       \* ReplayCache: issued_at of the nonces in it
    signed,         \* history: how often the KMS signed for the call
    extra,          \* repeated frames, bad connections and faults so far
    steady          \* the agent keeps running on a clock that only advances

vars == <<now, client, issued, backlog, agent, serving, accepted, signed, extra>>

Outcomes == {"signature", "timeout", "error"}

Init ==
    /\ now = 1
    /\ client = [c \in Calls |-> "idle"]
    /\ issued = [c \in Calls |-> Never]
    /\ backlog = <<>>
    /\ agent = "accept"
    /\ serving = Unusable
    /\ accepted = [c \in Calls |-> Never]
    /\ signed = [c \in Calls |-> 0]
    /\ extra = 0
    /\ steady \in BOOLEAN

-----------------------------------------------------------------------------
(* The caller.                                                             *)

\* build_request, connect and write_json_frame
RequestSignature(c) ==
    /\ client[c] = "idle"
    /\ client' = [client EXCEPT ![c] = "waiting"]
    /\ issued' = [issued EXCEPT ![c] = now]
    /\ backlog' = Append(backlog, [call |-> c, original |-> TRUE])
    /\ UNCHANGED <<now, agent, serving, accepted, signed, extra>>

\* The timeout fires; what was written stays with the agent.
GiveUp(c) ==
    /\ client[c] = "waiting" /\ now >= issued[c] + Patience
    /\ client' = [client EXCEPT ![c] = "timeout"]
    /\ UNCHANGED <<now, issued, backlog, agent, serving, accepted, signed, extra>>

-----------------------------------------------------------------------------
(* The agent's loop.                                                       *)

Waiting == serving # Unusable /\ serving.original /\ client[serving.call] = "waiting"

\* The agent drops the connection: a caller still waiting reads its end.
Drop ==
    /\ agent' = "accept"
    /\ serving' = Unusable
    /\ client' = IF Waiting THEN [client EXCEPT ![serving.call] = "error"] ELSE client

Accept ==
    /\ agent = "accept" /\ backlog # <<>>
    /\ agent' = "receive"
    /\ serving' = Head(backlog)
    /\ backlog' = Tail(backlog)
    /\ UNCHANGED <<now, client, issued, accepted, signed, extra>>

\* Mutant of ReceiveUnusable: the read has no timeout.
ReceiveUnusableHangs ==
    /\ agent = "receive" /\ serving = Unusable
    /\ UNCHANGED vars

\* receive_request on a connection that sends nothing, breaks, or carries a
\* frame that is malformed or does not authenticate.
ReceiveUnusable ==
    /\ agent = "receive" /\ serving = Unusable
    /\ Drop
    /\ UNCHANGED <<now, issued, backlog, accepted, signed, extra>>

\* The freshness check of verify_request: the timestamps differ by at most
\* the skew, in either direction.
Fresh(c) == now - issued[c] <= Skew /\ issued[c] - now <= Skew

\* Mutant of Retained: entries are kept for less than the window.
RetainedShorter ==
    [c \in Calls |-> IF accepted[c] # Never /\ now - accepted[c] < Skew
                     THEN accepted[c] ELSE Never]

\* The retain of ReplayCache::accept
Retained ==
    [c \in Calls |-> IF accepted[c] # Never /\ now - accepted[c] <= Skew
                     THEN accepted[c] ELSE Never]
Entries(cache) == {c \in Calls : cache[c] # Never}

\* verify_request refuses: stale, in the cache, or the cache is full. The
\* cache is pruned once the request is fresh.
VerifyRefuses ==
    /\ agent = "receive" /\ serving # Unusable
    /\ LET c == serving.call IN
       IF Fresh(c)
       THEN /\ c \in Entries(Retained) \/ Cardinality(Entries(Retained)) >= MaxEntries
            /\ accepted' = Retained
       ELSE UNCHANGED accepted
    /\ Drop
    /\ UNCHANGED <<now, issued, backlog, signed, extra>>

VerifyAccepts ==
    /\ agent = "receive" /\ serving # Unusable
    /\ LET c == serving.call IN
       /\ Fresh(c)
       /\ c \notin Entries(Retained)
       /\ Cardinality(Entries(Retained)) < MaxEntries
       /\ accepted' = [Retained EXCEPT ![c] = issued[c]]
    /\ agent' = "sign"
    /\ UNCHANGED <<now, client, issued, backlog, serving, signed, extra>>

\* sign_bound without a signature: the key is not the agent's, or the KMS is
\* unavailable, refuses, answers garbage or too late; it may have signed.
SignFails ==
    /\ agent = "sign"
    /\ \/ UNCHANGED signed
       \/ /\ serving.call \in Allowed
          /\ signed' = [signed EXCEPT ![serving.call] = @ + 1]
    /\ Drop
    /\ UNCHANGED <<now, issued, backlog, accepted, extra>>

Sign ==
    /\ agent = "sign"
    /\ serving.call \in Allowed
    /\ signed' = [signed EXCEPT ![serving.call] = @ + 1]
    /\ agent' = "respond"
    /\ UNCHANGED <<now, client, issued, backlog, serving, accepted, extra>>

\* send_response, and verify_response in a caller that still waits: only the
\* connection of the original request has one.
Respond ==
    /\ agent = "respond"
    /\ agent' = "accept"
    /\ serving' = Unusable
    /\ client' = IF Waiting THEN [client EXCEPT ![serving.call] = "signature"] ELSE client
    /\ UNCHANGED <<now, issued, backlog, accepted, signed, extra>>

\* Writing the response breaks off.
RespondFails ==
    /\ agent = "respond"
    /\ Drop
    /\ UNCHANGED <<now, issued, backlog, accepted, signed, extra>>

-----------------------------------------------------------------------------
(* The environment.                                                        *)

Trouble == extra < MaxExtra /\ extra' = extra + 1

\* A frame already written arrives once more on a connection of its own.
Repeat(c) ==
    /\ Trouble
    /\ client[c] # "idle"
    /\ backlog' = Append(backlog, [call |-> c, original |-> FALSE])
    /\ UNCHANGED <<now, client, issued, agent, serving, accepted, signed>>

ConnectUnusable ==
    /\ Trouble
    /\ backlog' = Append(backlog, Unusable)
    /\ UNCHANGED <<now, client, issued, agent, serving, accepted, signed>>

\* The agent process stops and is started again: its connections and the
\* replay cache are gone.
Restart ==
    /\ Trouble /\ ~steady /\ "restart" \in Faults
    /\ client' = [c \in Calls |-> IF client[c] = "waiting" THEN "error" ELSE client[c]]
    /\ backlog' = <<>>
    /\ agent' = "accept"
    /\ serving' = Unusable
    /\ accepted' = [c \in Calls |-> Never]
    /\ UNCHANGED <<now, issued, signed>>

\* The wall clock is set back.
SetBack ==
    /\ Trouble /\ ~steady /\ "setback" \in Faults
    /\ now > 1
    /\ now' = now - 1
    /\ UNCHANGED <<client, issued, backlog, agent, serving, accepted, signed>>

Tick ==
    /\ now < MaxTime
    /\ now' = now + 1
    /\ UNCHANGED <<client, issued, backlog, agent, serving, accepted, signed, extra>>

\* receive_request and the KMS call have timeouts: each step of the loop ends.
AgentStep ==
    \/ Accept \/ ReceiveUnusable \/ VerifyRefuses \/ VerifyAccepts
    \/ SignFails \/ Sign \/ Respond \/ RespondFails

Next ==
    /\ \/ AgentStep
       \/ \E c \in Calls : RequestSignature(c) \/ GiveUp(c) \/ Repeat(c)
       \/ ConnectUnusable \/ Restart \/ SetBack \/ Tick
    /\ UNCHANGED steady

\* The agent's runtime runs its loop.
Spec == Init /\ [][Next]_<<vars, steady>> /\ WF_vars(AgentStep)

-----------------------------------------------------------------------------
(* Properties.                                                             *)

\* Every variable holds a value of its type.
TypeOK ==
    /\ now \in Times
    /\ client \in [Calls -> {"idle", "waiting"} \cup Outcomes]
    /\ issued \in [Calls -> Times \cup {Never}]
    /\ backlog \in Seq(Connection)
    /\ agent \in {"accept", "receive", "sign", "respond"}
    /\ serving \in Connection
    /\ accepted \in [Calls -> Times \cup {Never}]
    /\ signed \in [Calls -> Nat]
    /\ extra \in Nat

\* ReplayCache::accept never holds more than MAX_REPLAY_ENTRIES nonces.
CacheBounded == IsFiniteSet(Entries(accepted)) /\ Cardinality(Entries(accepted)) <= MaxEntries

\* "The agent rejects stale, replayed, missing-MAC, and wrong-MAC requests"
\* (README.md:30-31): while the agent keeps running the KMS signs at most once
\* for a request, however often its frame arrives, although the replay cache
\* forgets it once it is stale; only for its own key; and a caller returns a
\* signature only if one was made for its own request.
SteadySignsOnce ==
    \A c \in Calls : /\ steady => signed[c] <= 1
                     /\ signed[c] > 0 => c \in Allowed
                     /\ client[c] = "signature" => signed[c] > 0

\* One connection at a time, and one that says nothing holds up the others
\* only until its timeout: every connection is taken in the end and every
\* call returns, by an answer, the end of its connection or its own timeout.
ConnectionsServed ==
    /\ []<>(agent = "accept" /\ backlog = <<>>)
    /\ \A c \in Calls : client[c] = "waiting" ~> client[c] \in Outcomes

-----------------------------------------------------------------------------
(* SteadySignsOnce for any calls, window and cache size: its strengthening.*)

\* A connection that carries a request carries one that was made.
Requested(connection) == connection # Unusable => client[connection.call] # "idle"

\* What is queued, in the cache or signed was requested; on a clock that only
\* advances no request comes from the future.
FramesRequested ==
    /\ \A k \in 1 .. Len(backlog) : Requested(backlog[k])
    /\ Requested(serving)
    /\ agent \in {"sign", "respond"} => serving # Unusable
    /\ \A c \in Calls : /\ client[c] = "idle" => signed[c] = 0
                        /\ client[c] # "idle" => issued[c] \in Times

\* A request that is being signed or has been is in the cache, or is stale
\* and stays so: this is what makes a bounded cache enough.
CachedOrStale ==
    steady => \A c \in Calls :
        signed[c] > 0 \/ (agent \in {"sign", "respond"} /\ serving.call = c) =>
            accepted[c] = issued[c] \/ now - issued[c] > Skew

\* The request at the KMS has not been signed before; one being answered has.
SignedWhenAnswered ==
    /\ steady /\ agent = "sign" => signed[serving.call] = 0
    /\ agent = "respond" => signed[serving.call] > 0

IInv == TypeOK /\ FramesRequested /\ CachedOrStale /\ SignedWhenAnswered /\ SteadySignsOnce

\* Every step of the callers, the agent and the environment keeps the types.
LEMMA TypeStep == TypeOK /\ [Next]_<<vars, steady>> => TypeOK'
<1> USE IpcAssumption DEF TypeOK, Times, Never, Outcomes, Connection, Unusable
<1>0. SUFFICES ASSUME TypeOK, [Next]_<<vars, steady>> PROVE TypeOK'
    OBVIOUS
<1>1. CASE Accept
    BY <1>0, <1>1 DEF Accept
<1>2. CASE ReceiveUnusable
    BY <1>0, <1>2 DEF ReceiveUnusable, Drop, Waiting
<1>3. CASE VerifyRefuses
    BY <1>0, <1>3 DEF VerifyRefuses, Drop, Waiting, Fresh, Entries, Retained
<1>4. CASE VerifyAccepts
    BY <1>0, <1>4 DEF VerifyAccepts, Fresh, Entries, Retained
<1>5. CASE SignFails
    BY <1>0, <1>5 DEF SignFails, Drop, Waiting
<1>6. CASE Sign
    BY <1>0, <1>6 DEF Sign
<1>7. CASE Respond
    BY <1>0, <1>7 DEF Respond, Waiting
<1>8. CASE RespondFails
    BY <1>0, <1>8 DEF RespondFails, Drop, Waiting
<1>9. ASSUME NEW c \in Calls, RequestSignature(c) PROVE TypeOK'
    BY <1>0, <1>9 DEF RequestSignature
<1>10. ASSUME NEW c \in Calls, GiveUp(c) PROVE TypeOK'
    BY <1>0, <1>10 DEF GiveUp
<1>11. ASSUME NEW c \in Calls, Repeat(c) PROVE TypeOK'
    BY <1>0, <1>11 DEF Repeat, Trouble
<1>12. CASE ConnectUnusable
    BY <1>0, <1>12 DEF ConnectUnusable, Trouble
<1>13. CASE Restart
    BY <1>0, <1>13 DEF Restart, Trouble
<1>14. CASE SetBack
    BY <1>0, <1>14 DEF SetBack, Trouble
<1>15. CASE Tick
    BY <1>0, <1>15 DEF Tick
<1>16. CASE UNCHANGED <<vars, steady>>
    BY <1>0, <1>16 DEF vars
<1> QED
    BY <1>0, <1>1, <1>2, <1>3, <1>4, <1>5, <1>6, <1>7, <1>8, <1>9, <1>10, <1>11, <1>12, <1>13, <1>14, <1>15, <1>16 DEF Next, AgentStep

\* What a connection can be.
LEMMA Connections ==
    /\ Unusable \in Connection
    /\ \A x \in Connection : x # Unusable => x.call \in Calls
    /\ \A c \in Calls, o \in BOOLEAN : [call |-> c, original |-> o] \in Connection
BY IpcAssumption DEF Connection, Unusable

\* Only requests that were made travel, whatever is repeated or dropped.
LEMMA FramesStep == TypeOK /\ FramesRequested /\ [Next]_<<vars, steady>> => FramesRequested'
<1> USE IpcAssumption DEF FramesRequested, Requested, Never
<1>0. SUFFICES ASSUME TypeOK, FramesRequested, TypeOK', [Next]_<<vars, steady>> PROVE FramesRequested'
    BY TypeStep
<1> USE Connections DEF TypeOK, Outcomes
<1>1. CASE Accept
    BY <1>0, <1>1 DEF Accept
<1>2. CASE ReceiveUnusable
    BY <1>0, <1>2 DEF ReceiveUnusable, Drop, Waiting
<1>3. CASE VerifyRefuses
    BY <1>0, <1>3 DEF VerifyRefuses, Drop, Waiting, Fresh, Entries, Retained
<1>4. CASE VerifyAccepts
    BY <1>0, <1>4 DEF VerifyAccepts, Fresh, Entries, Retained
<1>5. CASE SignFails
    BY <1>0, <1>5 DEF SignFails, Drop, Waiting
<1>6. CASE Sign
    BY <1>0, <1>6 DEF Sign
<1>7. CASE Respond
    BY <1>0, <1>7 DEF Respond, Waiting
<1>8. CASE RespondFails
    BY <1>0, <1>8 DEF RespondFails, Drop, Waiting
<1>9. ASSUME NEW c \in Calls, RequestSignature(c) PROVE FramesRequested'
    BY <1>0, <1>9 DEF RequestSignature
<1>10. ASSUME NEW c \in Calls, GiveUp(c) PROVE FramesRequested'
    BY <1>0, <1>10 DEF GiveUp
<1>11. ASSUME NEW c \in Calls, Repeat(c) PROVE FramesRequested'
    BY <1>0, <1>11 DEF Repeat, Trouble
<1>12. CASE ConnectUnusable
    BY <1>0, <1>12 DEF ConnectUnusable, Trouble
<1>13. CASE Restart
    BY <1>0, <1>13 DEF Restart, Trouble
<1>14. CASE SetBack
    BY <1>0, <1>14 DEF SetBack, Trouble
<1>15. CASE Tick
    BY <1>0, <1>15 DEF Tick
<1>16. CASE UNCHANGED <<vars, steady>>
    BY <1>0, <1>16 DEF vars
<1> QED
    BY <1>0, <1>1, <1>2, <1>3, <1>4, <1>5, <1>6, <1>7, <1>8, <1>9, <1>10, <1>11, <1>12, <1>13, <1>14, <1>15, <1>16 DEF Next, AgentStep

\* A second acceptance needs a fresh request that is not in the cache, and one
\* that was signed is in the cache for as long as it is fresh.
LEMMA SignedStep == IInv /\ [Next]_<<vars, steady>> => IInv'
<1> DEFINE Signing == CachedOrStale /\ SignedWhenAnswered /\ SteadySignsOnce
<1> USE IpcAssumption, Connections
        DEF FramesRequested, Requested, CachedOrStale, SignedWhenAnswered, SteadySignsOnce, Never, Times
<1>0. SUFFICES ASSUME TypeOK, FramesRequested, Signing, TypeOK', steady' = steady,
                      [Next]_<<vars, steady>>
               PROVE Signing'
    BY TypeStep, FramesStep, Zenon DEF IInv, Next
<1> USE DEF TypeOK, Outcomes
<1>1. CASE Accept
    BY <1>0, <1>1 DEF Accept
<1>2. CASE ReceiveUnusable
    BY <1>0, <1>2 DEF ReceiveUnusable, Drop, Waiting
<1>3. CASE VerifyRefuses
    BY <1>0, <1>3 DEF VerifyRefuses, Drop, Waiting, Fresh, Entries, Retained
<1>4. CASE VerifyAccepts
  <2> DEFINE r == serving.call
  <2>1. /\ r \in Calls /\ issued[r] \in Times /\ Fresh(r) /\ r \notin Entries(Retained)
        /\ accepted' = [Retained EXCEPT ![r] = issued[r]]
        /\ UNCHANGED <<now, client, issued, serving, signed>> /\ agent' = "sign"
    BY <1>0, <1>4 DEF VerifyAccepts
  <2>2. steady => signed[r] = 0
    <3> SUFFICES ASSUME steady, signed[r] > 0 PROVE FALSE
      BY <1>0, <2>1
    <3>1. accepted[r] = issued[r]
      BY <1>0, <2>1 DEF Fresh
    <3>2. Retained[r] = issued[r]
      BY <2>1, <3>1 DEF Fresh, Retained
    <3> QED
      BY <2>1, <3>2 DEF Entries
  <2>3. ASSUME steady, NEW c \in Calls, c # r, signed[c] > 0
        PROVE  accepted'[c] = issued[c] \/ now - issued[c] > Skew
    <3>1. issued[c] \in Times /\ (accepted[c] = issued[c] \/ now - issued[c] > Skew)
      BY <1>0, <2>3
    <3>2. accepted'[c] = Retained[c]
      BY <2>1, <2>3 DEF Retained
    <3> QED
      BY <1>0, <2>3, <3>1, <3>2 DEF Retained
  <2>4. accepted'[r] = issued[r]
    BY <2>1 DEF Retained
  <2> QED
    BY <1>0, <2>1, <2>2, <2>3, <2>4
<1>5. CASE SignFails
    BY <1>0, <1>5 DEF SignFails, Drop, Waiting
<1>6. CASE Sign
    BY <1>0, <1>6 DEF Sign
<1>7. CASE Respond
    BY <1>0, <1>7 DEF Respond, Waiting
<1>8. CASE RespondFails
    BY <1>0, <1>8 DEF RespondFails, Drop, Waiting
<1>9. ASSUME NEW c \in Calls, RequestSignature(c) PROVE Signing'
    BY <1>0, <1>9 DEF RequestSignature
<1>10. ASSUME NEW c \in Calls, GiveUp(c) PROVE Signing'
    BY <1>0, <1>10 DEF GiveUp
<1>11. ASSUME NEW c \in Calls, Repeat(c) PROVE Signing'
    BY <1>0, <1>11 DEF Repeat, Trouble
<1>12. CASE ConnectUnusable
    BY <1>0, <1>12 DEF ConnectUnusable, Trouble
<1>13. CASE Restart
    BY <1>0, <1>13 DEF Restart, Trouble
<1>14. CASE SetBack
    BY <1>0, <1>14 DEF SetBack, Trouble
<1>15. CASE Tick
    BY <1>0, <1>15 DEF Tick
<1>16. CASE UNCHANGED <<vars, steady>>
    BY <1>0, <1>16 DEF vars
<1> QED
    BY <1>0, <1>1, <1>2, <1>3, <1>4, <1>5, <1>6, <1>7, <1>8, <1>9, <1>10,
       <1>11, <1>12, <1>13, <1>14, <1>15, <1>16 DEF Next, AgentStep

\* The agent starts with an empty cache and nothing is signed.
LEMMA InitHolds == Init => IInv
BY IpcAssumption, Connections
   DEF Init, IInv, TypeOK, FramesRequested, Requested, CachedOrStale, SignedWhenAnswered,
       SteadySignsOnce, Times, Never

\* For any calls, freshness window, cache size and connections: while the agent
\* keeps running on a clock that only advances, the KMS signs at most once for a
\* request however often its frame arrives, only for the agent's own key, and no
\* caller of request_signature gets a signature nobody made for it.
THEOREM SteadySignsOnceCorrect == Spec => []SteadySignsOnce
<1>1. IInv => SteadySignsOnce
    BY DEF IInv
<1> QED
    BY InitHolds, SignedStep, <1>1, PTL DEF Spec

\* Pruning only removes entries, and an entry is added only below the bound.
LEMMA CacheStep == TypeOK /\ CacheBounded /\ [Next]_<<vars, steady>> => CacheBounded'
<1>0. SUFFICES ASSUME TypeOK, CacheBounded, [Next]_<<vars, steady>> PROVE CacheBounded'
    OBVIOUS
<1>1. /\ Entries(Retained) \subseteq Entries(accepted)
      /\ IsFiniteSet(Entries(Retained))
      /\ Cardinality(Entries(Retained)) <= Cardinality(Entries(accepted))
  <2>1. Entries(Retained) \subseteq Entries(accepted)
    BY DEF Entries, Retained
  <2> QED
    BY <1>0, <2>1, FS_Subset DEF CacheBounded
<1>2. /\ Cardinality(Entries(accepted)) \in Nat
      /\ Cardinality(Entries(Retained)) \in Nat
    BY <1>0, <1>1, FS_CardinalityType DEF CacheBounded
<1>3. ASSUME accepted' = Retained PROVE CacheBounded'
    BY <1>0, <1>1, <1>2, <1>3, IpcAssumption DEF CacheBounded, Entries
<1>4. CASE VerifyRefuses
    BY <1>0, <1>3, <1>4 DEF VerifyRefuses, CacheBounded, Entries
<1>5. CASE VerifyAccepts
  <2> DEFINE c == serving.call
  <2>1. Entries(accepted)' \subseteq Entries(Retained) \cup {c}
    BY <1>5 DEF VerifyAccepts, Entries, Retained
  <2>2. c \notin Entries(Retained) /\ Cardinality(Entries(Retained)) < MaxEntries
    BY <1>5 DEF VerifyAccepts
  <2>3. /\ IsFiniteSet(Entries(Retained) \cup {c})
        /\ Cardinality(Entries(Retained) \cup {c}) = Cardinality(Entries(Retained)) + 1
    BY <1>1, <2>2, FS_AddElement
  <2>4. /\ IsFiniteSet(Entries(accepted)')
        /\ Cardinality(Entries(accepted)') <= Cardinality(Entries(Retained) \cup {c})
        /\ Cardinality(Entries(accepted)') \in Nat
    BY <2>1, <2>3, FS_Subset, FS_CardinalityType
  <2> QED
    BY <1>2, <2>2, <2>3, <2>4, IpcAssumption DEF CacheBounded
<1>6. CASE Restart
  <2>1. Entries(accepted)' = {}
    BY <1>6 DEF Restart, Entries
  <2> QED
    BY <2>1, FS_EmptySet, IpcAssumption DEF CacheBounded
<1>7. CASE UNCHANGED accepted
    BY <1>0, <1>7 DEF CacheBounded, Entries
<1> QED
    BY <1>0, <1>4, <1>5, <1>6, <1>7
    DEF Next, AgentStep, Accept, ReceiveUnusable, SignFails, Sign, Respond, RespondFails,
        RequestSignature, GiveUp, Repeat, ConnectUnusable, SetBack, Tick, vars

\* ReplayCache::accept keeps at most MAX_REPLAY_ENTRIES nonces, however many
\* requests arrive within the freshness window.
THEOREM CacheBoundCorrect == Spec => []CacheBounded
<1>1. Init => CacheBounded
  <2>1. Init => Entries(accepted) = {}
    BY DEF Init, Entries
  <2> QED
    BY <2>1, FS_EmptySet, IpcAssumption DEF CacheBounded
<1>2. IInv => TypeOK
    BY DEF IInv
<1> QED
    BY InitHolds, SignedStep, CacheStep, <1>1, <1>2, PTL DEF Spec

=============================================================================
