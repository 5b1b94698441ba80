------------------------------- MODULE MdlProofs -------------------------------
(***************************************************************************)
(* For any number of tasks and any counter width: what MdlSession promises *)
(* about secrets and keys holds, whatever the interleaving of the calls at *)
(* their awaits and whichever futures are dropped; and what MdlChannel     *)
(* promises about messages holds over any transport.                       *)
(***************************************************************************)
EXTENDS MdlSession, Sequences, TLAPS

\* Where a task holds the write guard of the state.
Holding == {"clear_keys", "clear_agreement", "establish_agree", "establish_install",
            "establish_expired"}
Ending == {"clear_keys", "clear_agreement", "establish_expired"}
Establishing == {"establish_agree", "establish_install"}

\* Guards are held exactly between the awaits that take and release them.
GuardsHeld ==
    \A t \in Tasks : /\ state_lock = t <=> pc[t] \in Holding
                     /\ ka_lock = t <=> pc[t] = "establish_install"

\* Under the guard the state is what the task read or wrote.
StateUnderGuard ==
    \A t \in Tasks : /\ pc[t] \in Ending => state = "Terminated"
                     /\ pc[t] \in Establishing => state = "Engagement"

\* Before establishment there are no keys, and no counter has moved.
EngagementIsFresh ==
    state = "Engagement" => ~keys /\ send_counter = 0 /\ receive_counter = 0

\* What the steps of terminate and of a late establish have dropped so far.
ClearedSoFar ==
    \A t \in Tasks : /\ pc[t] = "clear_agreement" => ~keys
                     /\ pc[t] = "establish_expired" => ~private_key /\ ~peer_key

\* A completed termination or expiry is final.
ClosedForGood == closed => state = "Terminated" /\ ~keys

Guarded == TypeOK /\ GuardsHeld /\ StateUnderGuard
IInv ==
    /\ Guarded
    /\ EngagementIsFresh /\ ClearedSoFar /\ ClosedForGood /\ TerminatedIsCleared

-----------------------------------------------------------------------------
(* The invariant is inductive: one step per step of a task.                *)

\* A call that passed ensure_not_expired holds no guard yet.
LEMMA CallTarget ==
    \A call \in Calls : AfterCheck[call] \in
        Points \ ({"idle", "terminate", "clear_agreement"} \cup Holding)
BY DEF AfterCheck, Calls, Points, Holding

\* Every step of a call keeps the types, the width of the counters included.
LEMMA TypeStep == TypeOK /\ [Next]_vars => TypeOK'
<1> USE SessionAssumption DEF TypeOK, Points, States, At, Goto, counters, agreement, settings
<1>0. SUFFICES ASSUME TypeOK, [Next]_vars PROVE TypeOK'
    OBVIOUS
<1>1. ASSUME NEW t \in Tasks, Terminate(t) PROVE TypeOK'
    BY <1>0, <1>1 DEF Terminate
<1>2. ASSUME NEW t \in Tasks, ClearKeys(t) PROVE TypeOK'
    BY <1>0, <1>2 DEF ClearKeys
<1>3. ASSUME NEW t \in Tasks, ClearAgreement(t) PROVE TypeOK'
    BY <1>0, <1>3 DEF ClearAgreement
<1>4. ASSUME NEW t \in Tasks, EstablishState(t) PROVE TypeOK'
    BY <1>0, <1>4 DEF EstablishState
<1>5. ASSUME NEW t \in Tasks, EstablishBadPeer(t) PROVE TypeOK'
    BY <1>0, <1>5 DEF EstablishBadPeer
<1>6. ASSUME NEW t \in Tasks, EstablishFails(t) PROVE TypeOK'
    BY <1>0, <1>6 DEF EstablishFails
<1>7. ASSUME NEW t \in Tasks, EstablishAgree(t) PROVE TypeOK'
    BY <1>0, <1>7 DEF EstablishAgree
<1>8. ASSUME NEW t \in Tasks, EstablishExpired(t) PROVE TypeOK'
    BY <1>0, <1>8 DEF EstablishExpired
<1>9. ASSUME NEW t \in Tasks, EstablishInstall(t) PROVE TypeOK'
    BY <1>0, <1>9 DEF EstablishInstall
<1>10. ASSUME NEW t \in Tasks, ReadState(t, "send_state", "send_encrypt") PROVE TypeOK'
    BY <1>0, <1>10 DEF ReadState
<1>11. ASSUME NEW t \in Tasks, ReadState(t, "receive_state", "receive_decrypt") PROVE TypeOK'
    BY <1>0, <1>11 DEF ReadState
<1>12. ASSUME NEW t \in Tasks, Encrypt(t) PROVE TypeOK'
    <2>1. CASE LateUse(t)
        BY <1>0, <1>12, <2>1 DEF Encrypt, LateUse
    <2>2. CASE ~LateUse(t)
        <3>1. send_counter' \in 0 .. MaxCounter
            BY <1>0, <1>12, <2>2 DEF Encrypt
        <3>2. QED
            BY <1>0, <1>12, <2>2, <3>1 DEF Encrypt
    <2>3. QED
        BY <2>1, <2>2
<1>13. ASSUME NEW t \in Tasks, Decrypt(t) PROVE TypeOK'
    <2>1. CASE LateUse(t)
        BY <1>0, <1>13, <2>1 DEF Decrypt, LateUse
    <2>2. CASE ~LateUse(t)
        <3>1. receive_counter' \in 0 .. MaxCounter
            BY <1>0, <1>13, <2>2 DEF Decrypt
        <3>2. QED
            BY <1>0, <1>13, <2>2, <3>1 DEF Decrypt
    <2>3. QED
        BY <2>1, <2>2
<1>14. ASSUME NEW t \in Tasks, PublicKeyState(t) PROVE TypeOK'
    BY <1>0, <1>14 DEF PublicKeyState
<1>15. ASSUME NEW t \in Tasks, PublicKeyRead(t) PROVE TypeOK'
    BY <1>0, <1>15 DEF PublicKeyRead
<1>16. ASSUME NEW t \in Tasks, StateRead(t) PROVE TypeOK'
    BY <1>0, <1>16 DEF StateRead
<1>17. ASSUME NEW t \in Tasks, CallTerminate(t) PROVE TypeOK'
    BY <1>0, <1>17 DEF CallTerminate
<1>18. ASSUME NEW t \in Tasks, Cancel(t) PROVE TypeOK'
    BY <1>0, <1>18 DEF Cancel
<1>19. ASSUME NEW t \in Tasks, NEW call \in Calls, Call(t, call) PROVE TypeOK'
    BY <1>0, <1>19, CallTarget DEF Call
<1>20. CASE DeadlinePasses
    BY <1>0, <1>20 DEF DeadlinePasses
<1>21. CASE UNCHANGED vars
    BY <1>0, <1>21 DEF vars
<1> QED
    BY <1>0, <1>1, <1>2, <1>3, <1>4, <1>5, <1>6, <1>7, <1>8, <1>9, <1>10,
       <1>11, <1>12, <1>13, <1>14, <1>15, <1>16, <1>17, <1>18, <1>19, <1>20, <1>21 DEF Next, Continue

\* A write guard of the state or of the key agreement has one owner, and while
\* it is held no other task moves the state.
LEMMA GuardedStep == Guarded /\ [Next]_vars => Guarded'
<1> USE SessionAssumption DEF GuardsHeld, StateUnderGuard, Holding, Ending, Establishing,
        At, Goto, counters, agreement, settings
<1>0. SUFFICES ASSUME TypeOK, GuardsHeld, StateUnderGuard, [Next]_vars, TypeOK'
               PROVE (GuardsHeld /\ StateUnderGuard)'
    BY TypeStep DEF Guarded
<1> USE DEF TypeOK
<1>1. ASSUME NEW t \in Tasks, Terminate(t) PROVE (GuardsHeld /\ StateUnderGuard)'
    BY <1>0, <1>1 DEF Terminate
<1>2. ASSUME NEW t \in Tasks, ClearKeys(t) PROVE (GuardsHeld /\ StateUnderGuard)'
    BY <1>0, <1>2 DEF ClearKeys
<1>3. ASSUME NEW t \in Tasks, ClearAgreement(t) PROVE (GuardsHeld /\ StateUnderGuard)'
    BY <1>0, <1>3 DEF ClearAgreement
<1>4. ASSUME NEW t \in Tasks, EstablishState(t) PROVE (GuardsHeld /\ StateUnderGuard)'
    BY <1>0, <1>4 DEF EstablishState
<1>5. ASSUME NEW t \in Tasks, EstablishBadPeer(t) PROVE (GuardsHeld /\ StateUnderGuard)'
    BY <1>0, <1>5 DEF EstablishBadPeer
<1>6. ASSUME NEW t \in Tasks, EstablishFails(t) PROVE (GuardsHeld /\ StateUnderGuard)'
    BY <1>0, <1>6 DEF EstablishFails
<1>7. ASSUME NEW t \in Tasks, EstablishAgree(t) PROVE (GuardsHeld /\ StateUnderGuard)'
    BY <1>0, <1>7 DEF EstablishAgree
<1>8. ASSUME NEW t \in Tasks, EstablishExpired(t) PROVE (GuardsHeld /\ StateUnderGuard)'
    BY <1>0, <1>8 DEF EstablishExpired
<1>9. ASSUME NEW t \in Tasks, EstablishInstall(t) PROVE (GuardsHeld /\ StateUnderGuard)'
    BY <1>0, <1>9 DEF EstablishInstall
<1>10. ASSUME NEW t \in Tasks, ReadState(t, "send_state", "send_encrypt") PROVE (GuardsHeld /\ StateUnderGuard)'
    BY <1>0, <1>10 DEF ReadState
<1>11. ASSUME NEW t \in Tasks, ReadState(t, "receive_state",
"receive_decrypt") PROVE (GuardsHeld /\ StateUnderGuard)'
    BY <1>0, <1>11 DEF ReadState
<1>12. ASSUME NEW t \in Tasks, Encrypt(t) PROVE (GuardsHeld /\ StateUnderGuard)'
    BY <1>0, <1>12 DEF Encrypt, LateUse
<1>13. ASSUME NEW t \in Tasks, Decrypt(t) PROVE (GuardsHeld /\ StateUnderGuard)'
    BY <1>0, <1>13 DEF Decrypt, LateUse
<1>14. ASSUME NEW t \in Tasks, PublicKeyState(t) PROVE (GuardsHeld /\ StateUnderGuard)'
    BY <1>0, <1>14 DEF PublicKeyState
<1>15. ASSUME NEW t \in Tasks, PublicKeyRead(t) PROVE (GuardsHeld /\ StateUnderGuard)'
    BY <1>0, <1>15 DEF PublicKeyRead
<1>16. ASSUME NEW t \in Tasks, StateRead(t) PROVE (GuardsHeld /\ StateUnderGuard)'
    BY <1>0, <1>16 DEF StateRead
<1>17. ASSUME NEW t \in Tasks, CallTerminate(t) PROVE (GuardsHeld /\ StateUnderGuard)'
    BY <1>0, <1>17 DEF CallTerminate
<1>18. ASSUME NEW t \in Tasks, Cancel(t) PROVE (GuardsHeld /\ StateUnderGuard)'
    BY <1>0, <1>18 DEF Cancel
<1>19. ASSUME NEW t \in Tasks, NEW call \in Calls, Call(t, call) PROVE (GuardsHeld /\ StateUnderGuard)'
    BY <1>0, <1>19, CallTarget DEF Call
<1>20. CASE DeadlinePasses
    BY <1>0, <1>20 DEF DeadlinePasses
<1>21. CASE UNCHANGED vars
    BY <1>0, <1>21 DEF vars
<1> QED
    BY <1>0, <1>1, <1>2, <1>3, <1>4, <1>5, <1>6, <1>7, <1>8, <1>9, <1>10,
       <1>11, <1>12, <1>13, <1>14, <1>15, <1>16, <1>17, <1>18, <1>19, <1>20, <1>21 DEF Next, Continue

\* What a call has dropped stays dropped until a session is established, and
\* none is established after the end.
LEMMA ClearedStep == IInv /\ [Next]_vars => IInv'
<1> DEFINE Cleared == EngagementIsFresh /\ ClearedSoFar /\ ClosedForGood /\ TerminatedIsCleared
<1> USE SessionAssumption DEF EngagementIsFresh, ClearedSoFar, ClosedForGood, TerminatedIsCleared,
        At, Goto, counters, agreement, settings
<1>0. SUFFICES ASSUME TypeOK, GuardsHeld, StateUnderGuard, Cleared, [Next]_vars, Guarded'
               PROVE Cleared'
    BY GuardedStep DEF IInv, Guarded
<1> USE DEF Guarded, TypeOK, GuardsHeld, StateUnderGuard, Holding, Ending, Establishing
<1>1. ASSUME NEW t \in Tasks, Terminate(t) PROVE Cleared'
    BY <1>0, <1>1 DEF Terminate
<1>2. ASSUME NEW t \in Tasks, ClearKeys(t) PROVE Cleared'
    BY <1>0, <1>2 DEF ClearKeys
<1>3. ASSUME NEW t \in Tasks, ClearAgreement(t) PROVE Cleared'
    BY <1>0, <1>3 DEF ClearAgreement
<1>4. ASSUME NEW t \in Tasks, EstablishState(t) PROVE Cleared'
    BY <1>0, <1>4 DEF EstablishState
<1>5. ASSUME NEW t \in Tasks, EstablishBadPeer(t) PROVE Cleared'
    BY <1>0, <1>5 DEF EstablishBadPeer
<1>6. ASSUME NEW t \in Tasks, EstablishFails(t) PROVE Cleared'
    BY <1>0, <1>6 DEF EstablishFails
<1>7. ASSUME NEW t \in Tasks, EstablishAgree(t) PROVE Cleared'
    BY <1>0, <1>7 DEF EstablishAgree
<1>8. ASSUME NEW t \in Tasks, EstablishExpired(t) PROVE Cleared'
    BY <1>0, <1>8 DEF EstablishExpired
<1>9. ASSUME NEW t \in Tasks, EstablishInstall(t) PROVE Cleared'
    BY <1>0, <1>9 DEF EstablishInstall
<1>10. ASSUME NEW t \in Tasks, ReadState(t, "send_state", "send_encrypt") PROVE Cleared'
    BY <1>0, <1>10 DEF ReadState
<1>11. ASSUME NEW t \in Tasks, ReadState(t, "receive_state", "receive_decrypt") PROVE Cleared'
    BY <1>0, <1>11 DEF ReadState
<1>12. ASSUME NEW t \in Tasks, Encrypt(t) PROVE Cleared'
    BY <1>0, <1>12 DEF Encrypt, LateUse
<1>13. ASSUME NEW t \in Tasks, Decrypt(t) PROVE Cleared'
    BY <1>0, <1>13 DEF Decrypt, LateUse
<1>14. ASSUME NEW t \in Tasks, PublicKeyState(t) PROVE Cleared'
    BY <1>0, <1>14 DEF PublicKeyState
<1>15. ASSUME NEW t \in Tasks, PublicKeyRead(t) PROVE Cleared'
    BY <1>0, <1>15 DEF PublicKeyRead
<1>16. ASSUME NEW t \in Tasks, StateRead(t) PROVE Cleared'
    BY <1>0, <1>16 DEF StateRead
<1>17. ASSUME NEW t \in Tasks, CallTerminate(t) PROVE Cleared'
    BY <1>0, <1>17 DEF CallTerminate
<1>18. ASSUME NEW t \in Tasks, Cancel(t) PROVE Cleared'
    BY <1>0, <1>18 DEF Cancel
<1>19. ASSUME NEW t \in Tasks, NEW call \in Calls, Call(t, call) PROVE Cleared'
    BY <1>0, <1>19, CallTarget DEF Call
<1>20. CASE DeadlinePasses
    BY <1>0, <1>20 DEF DeadlinePasses
<1>21. CASE UNCHANGED vars
    BY <1>0, <1>21 DEF vars
<1> QED
    BY <1>0, <1>1, <1>2, <1>3, <1>4, <1>5, <1>6, <1>7, <1>8, <1>9, <1>10,
       <1>11, <1>12, <1>13, <1>14, <1>15, <1>16, <1>17, <1>18, <1>19, <1>20, <1>21 DEF Next, Continue

\* new_for_role holds no guard and no keys.
LEMMA InitHolds == Init => IInv
<1> SUFFICES ASSUME Init PROVE IInv
    OBVIOUS
<1> USE SessionAssumption DEF Init
<1>1. TypeOK
  <2>1. 0 \in 0 .. MaxCounter
    OBVIOUS
  <2>2. pc \in [Tasks -> Points]
    BY DEF Points
  <2> QED
    BY <2>1, <2>2, Zenon DEF TypeOK, States
<1>2. GuardsHeld /\ StateUnderGuard
    BY DEF GuardsHeld, StateUnderGuard, Holding, Ending, Establishing
<1>3. EngagementIsFresh /\ ClearedSoFar /\ ClosedForGood /\ TerminatedIsCleared
    BY DEF EngagementIsFresh, ClearedSoFar, ClosedForGood, TerminatedIsCleared
<1> QED
    BY <1>1, <1>2, <1>3 DEF IInv, Guarded

-----------------------------------------------------------------------------
(* What the session promises.                                              *)

\* The strengthening of TerminatedIsCleared holds in every reachable state.
THEOREM Inductive == Spec => []IInv
BY InitHolds, ClearedStep, PTL DEF Spec

\* Whatever the calls and their interleaving, each variable keeps its type and
\* the message counters of SessionEncryption never leave u32.
THEOREM TypeCorrect == Spec => []TypeOK
<1>1. IInv => TypeOK
    BY DEF IInv, Guarded
<1> QED
    BY Inductive, <1>1, PTL

\* As long as no caller drops a future, whoever reads Terminated through the
\* state lock finds the secrets of terminate and expire_session gone.
THEOREM TerminatedSessionIsCleared == Spec => []TerminatedIsCleared
<1>1. IInv => TerminatedIsCleared
    BY DEF IInv
<1> QED
    BY Inductive, <1>1, PTL

\* After a completed terminate or expiry no counter moves and no keys come
\* back; past the deadline no counter moves either, since the only install that
\* can still follow starts from counters that are zero.
THEOREM SessionEndIsFinal == Spec => NoUseAfterEnd
<1> DEFINE Final == /\ expired => counters' = counters
                    /\ closed => counters' = counters /\ state' = "Terminated" /\ ~keys'
<1>1. ASSUME IInv, Next PROVE Final
  <2>0. /\ closed => state = "Terminated" /\ ~keys
        /\ \A t \in Tasks : pc[t] \in Establishing =>
              ~closed /\ send_counter = 0 /\ receive_counter = 0
    BY <1>1 DEF IInv, Guarded, StateUnderGuard, EngagementIsFresh, ClosedForGood
  <2> USE DEF At, counters, agreement, settings, Establishing
  <2>1. ASSUME NEW t \in Tasks, Terminate(t) PROVE Final
      BY <2>0, <2>1 DEF Terminate
  <2>2. ASSUME NEW t \in Tasks, ClearKeys(t) PROVE Final
      BY <2>0, <2>2 DEF ClearKeys
  <2>3. ASSUME NEW t \in Tasks, ClearAgreement(t) PROVE Final
      BY <2>0, <2>3 DEF ClearAgreement
  <2>4. ASSUME NEW t \in Tasks, EstablishState(t) PROVE Final
      BY <2>0, <2>4 DEF EstablishState
  <2>5. ASSUME NEW t \in Tasks, EstablishBadPeer(t) PROVE Final
      BY <2>0, <2>5 DEF EstablishBadPeer
  <2>6. ASSUME NEW t \in Tasks, EstablishFails(t) PROVE Final
      BY <2>0, <2>6 DEF EstablishFails
  <2>7. ASSUME NEW t \in Tasks, EstablishAgree(t) PROVE Final
      BY <2>0, <2>7 DEF EstablishAgree
  <2>8. ASSUME NEW t \in Tasks, EstablishExpired(t) PROVE Final
      BY <2>0, <2>8 DEF EstablishExpired
  <2>9. ASSUME NEW t \in Tasks, EstablishInstall(t) PROVE Final
      BY <2>0, <2>9 DEF EstablishInstall
  <2>10. ASSUME NEW t \in Tasks, ReadState(t, "send_state", "send_encrypt") PROVE Final
      BY <2>0, <2>10 DEF ReadState
  <2>11. ASSUME NEW t \in Tasks, ReadState(t, "receive_state", "receive_decrypt") PROVE Final
      BY <2>0, <2>11 DEF ReadState
  <2>12. ASSUME NEW t \in Tasks, Encrypt(t) PROVE Final
      BY <2>0, <2>12 DEF Encrypt, LateUse
  <2>13. ASSUME NEW t \in Tasks, Decrypt(t) PROVE Final
      BY <2>0, <2>13 DEF Decrypt, LateUse
  <2>14. ASSUME NEW t \in Tasks, PublicKeyState(t) PROVE Final
      BY <2>0, <2>14 DEF PublicKeyState
  <2>15. ASSUME NEW t \in Tasks, PublicKeyRead(t) PROVE Final
      BY <2>0, <2>15 DEF PublicKeyRead
  <2>16. ASSUME NEW t \in Tasks, StateRead(t) PROVE Final
      BY <2>0, <2>16 DEF StateRead
  <2>17. ASSUME NEW t \in Tasks, CallTerminate(t) PROVE Final
      BY <2>0, <2>17 DEF CallTerminate
  <2>18. ASSUME NEW t \in Tasks, Cancel(t) PROVE Final
      BY <2>0, <2>18 DEF Cancel
  <2>19. ASSUME NEW t \in Tasks, NEW call \in Calls, Call(t, call) PROVE Final
      BY <2>0, <2>19 DEF Call
  <2>20. CASE DeadlinePasses
      BY <2>0, <2>20 DEF DeadlinePasses
  <2>21. QED
      BY <1>1, <2>1, <2>2, <2>3, <2>4, <2>5, <2>6, <2>7, <2>8, <2>9, <2>10,
         <2>11, <2>12, <2>13, <2>14, <2>15, <2>16, <2>17, <2>18, <2>19, <2>20 DEF Next, Continue
<1>2. IInv /\ [Next]_vars => [Final]_vars
    BY <1>1
<1> QED
    BY Inductive, <1>2, PTL DEF Spec, NoUseAfterEnd

-----------------------------------------------------------------------------
(* Two peers' channels, for any messages; the counters have the session's  *)
(* width.                                                                  *)

CONSTANT Messages
VARIABLES status, late, sends, receives, wire, sent, delivered, result, refused
Channel == INSTANCE MdlChannel WITH expired <- late, send_counter <- sends, receive_counter <- receives

\* What a receive returns is the beginning of what the peer has sent, over any
\* transport (session_channel.rs, SessionChannel::receive).
InOrderExactlyOnce == Channel!InOrderExactlyOnce

\* No initialisation vector protects two messages of one direction (session.rs,
\* SessionEncryption::encrypt).
VectorsUsedOnce == Channel!VectorsUsedOnce

\* The channels alone, while the tasks of the session above do nothing.
ChannelsSpec ==
    /\ Channel!Init /\ Init /\ role = "Device" /\ careful = TRUE
    /\ [][Channel!Next /\ UNCHANGED vars]_<<Channel!vars, vars>>

\* A receive counter is the number of messages delivered.
ReceivesCounted == \A e \in Channel!Peers : receives[e] = Len(delivered[e])

\* A channel whose receive has failed is closed.
RefusedClosed == \A e \in refused : status[e] = "Terminated"

ChannelInv ==
    /\ Channel!TypeOK
    /\ Channel!VectorsUsedOnce
    /\ ReceivesCounted
    /\ Channel!InOrderExactlyOnce
    /\ RefusedClosed

\* Before anything is sent the invariant holds.
LEMMA ChannelInit == Channel!Init => ChannelInv
  <1> SUFFICES ASSUME Channel!Init PROVE ChannelInv
    OBVIOUS
  <1>1. sent \in [Channel!Peers -> Seq(Messages)] /\ delivered \in [Channel!Peers -> Seq(Messages)]
    <2>1. <<>> \in Seq(Messages)
      OBVIOUS
    <2> QED
      BY <2>1 DEF Channel!Init
  <1>2. Channel!TypeOK
    BY <1>1, SessionAssumption DEF Channel!Init, Channel!TypeOK, Channel!Counter
  <1>3. \A e \in Channel!Peers : Len(sent[e]) = 0 /\ Len(delivered[e]) = 0
    BY DEF Channel!Init
  <1>4. Channel!Peers = {"Device", "Reader"} /\ \A e \in Channel!Peers : Channel!Peer(e) \in Channel!Peers
    BY DEF Channel!Peers, Channel!Peer
  <1> QED
    BY <1>2, <1>3, <1>4 DEF Channel!Init, ChannelInv, Channel!VectorsUsedOnce, ReceivesCounted,
                            Channel!InOrderExactlyOnce, RefusedClosed

\* Encrypting appends one message under a fresh counter.
LEMMA EncryptInv ==
    ASSUME ChannelInv, NEW e \in Channel!Peers, NEW m \in Messages, Channel!Encrypt(e, m),
           wire' \in {wire, wire \cup {Channel!Sealed(e, m)}},
           UNCHANGED <<late, receives, delivered, refused>>
    PROVE  /\ sends' \in [Channel!Peers -> Channel!Counter]
           /\ sent' \in [Channel!Peers -> Seq(Messages)]
           /\ wire' \subseteq Channel!Ciphertext
           /\ Channel!VectorsUsedOnce' /\ Channel!InOrderExactlyOnce'
  <1>1. /\ sent \in [Channel!Peers -> Seq(Messages)] /\ delivered \in [Channel!Peers -> Seq(Messages)]
        /\ sends \in [Channel!Peers -> Channel!Counter] /\ wire \subseteq Channel!Ciphertext
    BY DEF ChannelInv, Channel!TypeOK
  <1>2. /\ sends' = [sends EXCEPT ![e] = sends[e] + 1]
        /\ sent' = [sent EXCEPT ![e] = Append(sent[e], m)]
        /\ sends[e] < MaxCounter
    BY DEF Channel!Encrypt
  <1>3. sends[e] + 1 \in Channel!Counter /\ sends[e] \in Nat
    BY <1>1, <1>2, SessionAssumption DEF Channel!Counter
  <1>4. sends[e] = Len(sent[e])
    BY DEF ChannelInv, Channel!VectorsUsedOnce
  <1>5. sent' \in [Channel!Peers -> Seq(Messages)]
    BY <1>1, <1>2
  <1>6. /\ sent'[e] = Append(sent[e], m)
        /\ Len(sent'[e]) = Len(sent[e]) + 1
        /\ sent'[e][Len(sent[e]) + 1] = m
        /\ \A i \in 1 .. Len(sent[e]) : sent'[e][i] = sent[e][i]
    BY <1>1, <1>2
  <1>7. \A d \in Channel!Peers : d # e => sent'[d] = sent[d]
    BY <1>1, <1>2
  <1>8. \A d \in Channel!Peers : /\ Len(sent[d]) \in Nat /\ Len(sent'[d]) \in Nat
                         /\ Len(sent[d]) <= Len(sent'[d])
                         /\ \A i \in 1 .. Len(sent[d]) : sent'[d][i] = sent[d][i]
    <2> SUFFICES ASSUME NEW d \in Channel!Peers
                 PROVE  /\ Len(sent[d]) \in Nat /\ Len(sent'[d]) \in Nat
                        /\ Len(sent[d]) <= Len(sent'[d])
                        /\ \A i \in 1 .. Len(sent[d]) : sent'[d][i] = sent[d][i]
      OBVIOUS
    <2>1. Len(sent[d]) \in Nat
      BY ONLY <1>1, d \in Channel!Peers
    <2>2. CASE d = e
      BY ONLY <2>1, <2>2, <1>6
    <2>3. CASE d # e
      BY ONLY <2>1, <2>3, <1>7, d \in Channel!Peers
    <2> QED
      BY ONLY <2>2, <2>3
  <1>9. Channel!Sealed(e, m) \in Channel!Ciphertext
    BY <1>3 DEF Channel!Sealed, Channel!Ciphertext
  <1>10. Channel!VectorsUsedOnce'
    <2>1. \A d \in Channel!Peers : sends'[d] = Len(sent'[d])
      BY <1>1, <1>2, <1>4, <1>6, <1>7 DEF ChannelInv, Channel!VectorsUsedOnce
    <2>2. ASSUME NEW c \in wire'
          PROVE  /\ c.counter \in 1 .. Len(sent'[c.from])
                 /\ c.message = sent'[c.from][c.counter]
      <3>1. CASE c \in wire
        <4>1. c.from \in Channel!Peers
          BY <3>1, <1>1 DEF Channel!Ciphertext
        <4>2. c.counter \in 1 .. Len(sent[c.from]) /\ c.message = sent[c.from][c.counter]
          BY <3>1 DEF ChannelInv, Channel!VectorsUsedOnce
        <4> QED
          BY <4>1, <4>2, <1>8
      <3>2. CASE c = Channel!Sealed(e, m)
        <4>1. c.from = e /\ c.counter = Len(sent[e]) + 1 /\ c.message = m
          BY <3>2, <1>4 DEF Channel!Sealed
        <4> QED
          BY <4>1, <1>3, <1>4, <1>6
      <3> QED
        BY <3>1, <3>2
    <2> QED
      BY <2>1, <2>2 DEF Channel!VectorsUsedOnce
  <1>11. Channel!InOrderExactlyOnce'
    <2> SUFFICES ASSUME NEW d \in Channel!Peers
                 PROVE  /\ Len(delivered[d]) <= Len(sent'[Channel!Peer(d)])
                        /\ \A i \in 1 .. Len(delivered[d]) : delivered[d][i] = sent'[Channel!Peer(d)][i]
      BY DEF Channel!InOrderExactlyOnce
    <2>1. Channel!Peer(d) \in Channel!Peers
      BY DEF Channel!Peer, Channel!Peers
    <2>2. /\ Len(delivered[d]) <= Len(sent[Channel!Peer(d)])
          /\ \A i \in 1 .. Len(delivered[d]) : delivered[d][i] = sent[Channel!Peer(d)][i]
      BY DEF ChannelInv, Channel!InOrderExactlyOnce
    <2>3. Len(delivered[d]) \in Nat
      BY <1>1
    <2> QED
      BY <2>1, <2>2, <2>3, <1>8
  <1> QED
    BY <1>1, <1>2, <1>3, <1>5, <1>9, <1>10, <1>11

\* An authentic ciphertext is the peer's next message.
LEMMA ReceiveInv ==
    ASSUME ChannelInv, NEW e \in Channel!Peers, NEW c \in wire, Channel!Receive(e, c)
    PROVE  ChannelInv'
  <1>1. /\ sent \in [Channel!Peers -> Seq(Messages)] /\ delivered \in [Channel!Peers -> Seq(Messages)]
        /\ receives \in [Channel!Peers -> Channel!Counter] /\ wire \subseteq Channel!Ciphertext
        /\ Channel!Peer(e) \in Channel!Peers
    BY DEF ChannelInv, Channel!TypeOK, Channel!Peer, Channel!Peers
  <1>2. /\ receives' = [receives EXCEPT ![e] = c.counter]
        /\ delivered' = [delivered EXCEPT ![e] = Append(delivered[e], c.message)]
        /\ result' = [result EXCEPT ![e] = "ok"]
        /\ c.from = Channel!Peer(e) /\ c.counter = receives[e] + 1
        /\ UNCHANGED <<status, late, sends, wire, sent, refused>>
    BY DEF Channel!Receive, Channel!Authentic, Channel!Return
  <1>3. c.counter \in Channel!Counter /\ c.message \in Messages
    BY <1>1 DEF Channel!Ciphertext
  <1>4. receives[e] = Len(delivered[e]) /\ Len(delivered[e]) \in Nat
    BY <1>1 DEF ChannelInv, ReceivesCounted
  <1>5. /\ c.counter \in 1 .. Len(sent[Channel!Peer(e)])
        /\ c.message = sent[Channel!Peer(e)][c.counter]
    BY <1>2 DEF ChannelInv, Channel!VectorsUsedOnce
  <1>6. delivered' \in [Channel!Peers -> Seq(Messages)]
    BY <1>1, <1>2, <1>3
  <1>7. /\ delivered'[e] = Append(delivered[e], c.message)
        /\ Len(delivered'[e]) = Len(delivered[e]) + 1
        /\ delivered'[e][Len(delivered[e]) + 1] = c.message
        /\ \A i \in 1 .. Len(delivered[e]) : delivered'[e][i] = delivered[e][i]
    BY <1>1, <1>2, <1>3
  <1>8. \A d \in Channel!Peers : d # e => delivered'[d] = delivered[d]
    BY <1>1, <1>2
  <1>9. Channel!TypeOK'
    <2>1. receives' \in [Channel!Peers -> Channel!Counter] /\ result' \in [Channel!Peers -> {"none", "ok",
    "error"}]
      BY <1>1, <1>2, <1>3 DEF ChannelInv, Channel!TypeOK
    <2> QED
      BY <2>1, <1>2, <1>6 DEF ChannelInv, Channel!TypeOK
  <1>10. ReceivesCounted'
    BY <1>1, <1>2, <1>4, <1>7, <1>8 DEF ChannelInv, ReceivesCounted
  <1>11. Channel!InOrderExactlyOnce'
    <2> SUFFICES ASSUME NEW d \in Channel!Peers
                 PROVE  /\ Len(delivered'[d]) <= Len(sent[Channel!Peer(d)])
                        /\ \A i \in 1 .. Len(delivered'[d]) : delivered'[d][i] = sent[Channel!Peer(d)][i]
      BY <1>2 DEF Channel!InOrderExactlyOnce
    <2>1. /\ Len(delivered[d]) <= Len(sent[Channel!Peer(d)])
          /\ \A i \in 1 .. Len(delivered[d]) : delivered[d][i] = sent[Channel!Peer(d)][i]
      BY DEF ChannelInv, Channel!InOrderExactlyOnce
    <2>2. CASE d # e
      BY <2>1, <2>2, <1>8
    <2>3. CASE d = e
      <3>1. Len(sent[Channel!Peer(e)]) \in Nat
        BY <1>1
      <3> QED
        BY <2>1, <2>3, <3>1, <1>2, <1>4, <1>5, <1>7
    <2> QED
      BY <2>2, <2>3
  <1>12. Channel!VectorsUsedOnce' /\ RefusedClosed'
    BY <1>2 DEF ChannelInv, Channel!VectorsUsedOnce, RefusedClosed
  <1> QED
    BY <1>9, <1>10, <1>11, <1>12 DEF ChannelInv

\* Every call on a channel, and the deadline, preserve the invariant.
LEMMA ChannelStep == ChannelInv /\ [Channel!Next]_Channel!vars => ChannelInv'
  <1> SUFFICES ASSUME ChannelInv, [Channel!Next]_Channel!vars PROVE ChannelInv'
    OBVIOUS
  <1> DEFINE Same == UNCHANGED <<Channel!counters, wire, sent, delivered>>
  <1>0. ASSUME Same, Channel!TypeOK', RefusedClosed' PROVE ChannelInv'
    BY <1>0 DEF Channel!counters, ChannelInv, Channel!VectorsUsedOnce, ReceivesCounted,
                Channel!InOrderExactlyOnce
  <1>1. ASSUME NEW e \in Channel!Peers, Channel!Connect(e) PROVE ChannelInv'
    <2>1. Channel!TypeOK'
      BY <1>1 DEF Channel!Connect, Channel!Close, Channel!Return, Channel!counters, ChannelInv, Channel!TypeOK
    <2>2. RefusedClosed'
      BY <1>1 DEF Channel!Connect, Channel!Close, ChannelInv, Channel!TypeOK, RefusedClosed
    <2> QED
      BY <1>0, <1>1, <2>1, <2>2 DEF Channel!Connect
  <1>2. ASSUME NEW e \in Channel!Peers, Channel!SendRefused(e) PROVE ChannelInv'
    <2>1. Channel!TypeOK'
      BY <1>2 DEF Channel!SendRefused, Channel!Close, Channel!Return, Channel!counters, ChannelInv,
                  Channel!TypeOK
    <2>2. RefusedClosed'
      BY <1>2 DEF Channel!SendRefused, Channel!Close, ChannelInv, Channel!TypeOK, RefusedClosed
    <2> QED
      BY <1>0, <1>2, <2>1, <2>2 DEF Channel!SendRefused
  <1>3. ASSUME NEW e \in Channel!Peers, Channel!ReceiveFails(e) PROVE ChannelInv'
    <2>1. Channel!TypeOK'
      BY <1>3 DEF Channel!ReceiveFails, Channel!Close, Channel!Return, Channel!counters, ChannelInv,
                  Channel!TypeOK
    <2>2. RefusedClosed'
      BY <1>3 DEF Channel!ReceiveFails, Channel!Close, ChannelInv, Channel!TypeOK, RefusedClosed
    <2> QED
      BY <1>0, <1>3, <2>1, <2>2 DEF Channel!ReceiveFails
  <1>4. ASSUME NEW e \in Channel!Peers, Channel!CloseChannel(e) PROVE ChannelInv'
    <2>1. Channel!TypeOK'
      BY <1>4 DEF Channel!CloseChannel, Channel!Close, Channel!Return, Channel!counters, ChannelInv,
                  Channel!TypeOK
    <2>2. RefusedClosed'
      BY <1>4 DEF Channel!CloseChannel, Channel!Close, ChannelInv, Channel!TypeOK, RefusedClosed
    <2> QED
      BY <1>0, <1>4, <2>1, <2>2 DEF Channel!CloseChannel
  <1>5. ASSUME NEW e \in Channel!Peers, Channel!DeadlinePasses(e) PROVE ChannelInv'
    <2>1. Channel!TypeOK'
      BY <1>5 DEF Channel!DeadlinePasses, Channel!counters, ChannelInv, Channel!TypeOK
    <2>2. RefusedClosed'
      BY <1>5 DEF Channel!DeadlinePasses, ChannelInv, RefusedClosed
    <2> QED
      BY <1>0, <1>5, <2>1, <2>2 DEF Channel!DeadlinePasses
  <1>6. ASSUME NEW e \in Channel!Peers, NEW m \in Messages, Channel!Send(e, m) PROVE ChannelInv'
    <2>1. /\ sends' \in [Channel!Peers -> Channel!Counter] /\ sent' \in [Channel!Peers -> Seq(Messages)]
          /\ wire' \subseteq Channel!Ciphertext /\ Channel!VectorsUsedOnce' /\ Channel!InOrderExactlyOnce'
      BY <1>6, EncryptInv DEF Channel!Send
    <2>2. UNCHANGED <<status, late, receives, delivered, refused>>
          /\ result' = [result EXCEPT ![e] = "ok"]
      BY <1>6 DEF Channel!Send, Channel!Return
    <2>3. Channel!TypeOK'
      BY <2>1, <2>2 DEF ChannelInv, Channel!TypeOK
    <2> QED
      BY <2>1, <2>2, <2>3 DEF ChannelInv, ReceivesCounted, RefusedClosed
  <1>7. ASSUME NEW e \in Channel!Peers, NEW m \in Messages, Channel!SendBroken(e, m) PROVE ChannelInv'
    <2>1. /\ sends' \in [Channel!Peers -> Channel!Counter] /\ sent' \in [Channel!Peers -> Seq(Messages)]
          /\ wire' \subseteq Channel!Ciphertext /\ Channel!VectorsUsedOnce' /\ Channel!InOrderExactlyOnce'
      BY <1>7, EncryptInv DEF Channel!SendBroken
    <2>2. /\ UNCHANGED <<late, receives, delivered, refused>>
          /\ status' = [status EXCEPT ![e] = "Terminated"]
          /\ result' = [result EXCEPT ![e] = "error"]
      BY <1>7 DEF Channel!SendBroken, Channel!Return, Channel!Close
    <2>3. Channel!TypeOK'
      BY <2>1, <2>2 DEF ChannelInv, Channel!TypeOK
    <2>4. RefusedClosed'
      BY <2>2 DEF ChannelInv, Channel!TypeOK, RefusedClosed
    <2> QED
      BY <2>1, <2>2, <2>3, <2>4 DEF ChannelInv, ReceivesCounted
  <1>8. ASSUME NEW e \in Channel!Peers, NEW c \in wire, Channel!Receive(e, c) PROVE ChannelInv'
    BY <1>8, ReceiveInv
  <1>9. CASE UNCHANGED Channel!vars
    BY <1>9 DEF Channel!vars, Channel!counters, ChannelInv, Channel!TypeOK, Channel!VectorsUsedOnce,
                ReceivesCounted,
                Channel!InOrderExactlyOnce, RefusedClosed
  <1> QED
    BY <1>1, <1>2, <1>3, <1>4, <1>5, <1>6, <1>7, <1>8, <1>9 DEF Channel!Next

\* The invariant holds in every state.
THEOREM ChannelInductive == Channel!Spec => []ChannelInv
  BY ChannelInit, ChannelStep, PTL DEF Channel!Spec

\* Over any transport, receives return the beginning of what was sent.
THEOREM InOrderCorrect == Channel!Spec => []InOrderExactlyOnce
  <1>1. ChannelInv => InOrderExactlyOnce
    BY DEF ChannelInv, InOrderExactlyOnce
  <1> QED
    BY <1>1, ChannelInductive, PTL

\* No initialisation vector protects two messages of one direction.
THEOREM VectorsCorrect == Channel!Spec => []VectorsUsedOnce
  <1>1. ChannelInv => VectorsUsedOnce
    BY DEF ChannelInv, VectorsUsedOnce
  <1> QED
    BY <1>1, ChannelInductive, PTL

\* A failed receive is the last thing a channel does.
THEOREM FailedReceiveCorrect == Channel!Spec => Channel!FailedReceiveIsFinal
  <1> DEFINE Final == \A e \in refused : delivered'[e] = delivered[e] /\ sent'[e] = sent[e]
  <1>1. ChannelInv /\ [Channel!Next]_Channel!vars => Final
    <2> SUFFICES ASSUME ChannelInv, [Channel!Next]_Channel!vars, NEW e \in refused
                 PROVE  delivered'[e] = delivered[e] /\ sent'[e] = sent[e]
      OBVIOUS
    <2>1. status[e] = "Terminated"
      BY DEF ChannelInv, RefusedClosed
    <2>2. sent \in [Channel!Peers -> Seq(Messages)] /\ delivered \in [Channel!Peers -> Seq(Messages)]
      BY DEF ChannelInv, Channel!TypeOK
    <2>3. ASSUME NEW d \in Channel!Peers, NEW m \in Messages, Channel!Send(d, m) \/ Channel!SendBroken(d, m)
          PROVE  delivered'[e] = delivered[e] /\ sent'[e] = sent[e]
      <3>1. /\ Channel!Encrypt(d, m)
            /\ delivered' = delivered
        BY <2>3 DEF Channel!Send, Channel!SendBroken
      <3>2. d # e /\ sent' = [sent EXCEPT ![d] = Append(sent[d], m)]
        BY <3>1, <2>1 DEF Channel!Encrypt, Channel!Usable
      <3>3. e \in Channel!Peers
        BY DEF ChannelInv, Channel!TypeOK
      <3> QED
        BY ONLY <3>1, <3>2, <3>3, <2>2
    <2>4. ASSUME NEW d \in Channel!Peers, NEW c \in wire, Channel!Receive(d, c)
          PROVE  delivered'[e] = delivered[e] /\ sent'[e] = sent[e]
      BY <2>1, <2>2, <2>4 DEF Channel!Receive, Channel!Usable
    <2> QED
      BY <2>3, <2>4 DEF Channel!Next, Channel!vars, Channel!Connect, Channel!SendRefused,
                        Channel!ReceiveFails, Channel!CloseChannel,
                        Channel!DeadlinePasses
  <1> QED
    BY <1>1, ChannelInductive, PTL DEF Channel!Spec, Channel!FailedReceiveIsFinal

=================================================================================
