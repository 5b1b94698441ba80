------------------------------ MODULE MdlChannel ------------------------------
(***************************************************************************)
(* Two ISO 18013-5 peers, each a SessionChannel                            *)
(* (marty-iso18013/src/transport/session_channel.rs) over an established   *)
(* Session with the directional SessionEncryption of src/session.rs. The   *)
(* transport may lose, duplicate, delay, reorder and reflect ciphertexts   *)
(* and may hand over bytes neither peer sent.                              *)
(***************************************************************************)
EXTENDS Integers, Sequences

CONSTANTS
    Messages,       \* plaintexts within the size limit
    MaxCounter      \* u32::MAX of the message counters, a positive number

Peers == {"Device", "Reader"}
Peer(e) == IF e = "Device" THEN "Reader" ELSE "Device"
Counter == 0 .. MaxCounter

\* A ciphertext authenticates under one key, the sender's direction, and one
\* initialisation vector, the direction marker and the counter.
Ciphertext == [from : Peers, counter : Counter, message : Messages]

VARIABLES
    status,         \* the session behind each channel
    expired,        \* has the session's deadline passed
    send_counter, receive_counter,
    wire,           \* ciphertexts the transport has and may deliver
    sent,           \* history: the messages each peer encrypted, in order
    delivered,      \* history: the messages each receive returned
    result,         \* what the last call on each channel returned
    refused         \* history: peers a receive of which has failed

counters == <<send_counter, receive_counter>>
vars == <<status, expired, counters, wire, sent, delivered, result, refused>>

Init ==
    /\ status = [e \in Peers |-> "Unconnected"]
    /\ expired = [e \in Peers |-> FALSE]
    /\ send_counter = [e \in Peers |-> 0]
    /\ receive_counter = [e \in Peers |-> 0]
    /\ wire = {}
    /\ sent = [e \in Peers |-> <<>>]
    /\ delivered = [e \in Peers |-> <<>>]
    /\ result = [e \in Peers |-> "none"]
    /\ refused = {}

Return(e, r) == result' = [result EXCEPT ![e] = r]
Close(e) == status' = [status EXCEPT ![e] = "Terminated"]
Usable(e) == status[e] = "Established" /\ ~expired[e]

\* SessionChannel::connect; a failure ends the session.
Connect(e) ==
    /\ status[e] = "Unconnected"
    /\ \/ status' = [status EXCEPT ![e] = "Established"] /\ Return(e, "ok")
       \/ Close(e) /\ Return(e, "error")
    /\ UNCHANGED <<expired, counters, wire, sent, delivered, refused>>

-----------------------------------------------------------------------------
(* send                                                                    *)

\* send_encrypted fails and its error is returned at once: the message is
\* too long, the counter is used up, the session is closed or past its
\* deadline. Only the deadline ends the session.
SendRefused(e) ==
    /\ status[e] # "Unconnected"
    /\ IF expired[e] THEN Close(e) ELSE UNCHANGED status
    /\ Return(e, "error")
    /\ UNCHANGED <<expired, counters, wire, sent, delivered, refused>>

\* Mutant of Encrypt: the counter moves only once the transport has taken
\* the ciphertext.
EncryptUncounted(e, m) ==
    /\ Usable(e)
    /\ send_counter[e] < MaxCounter
    /\ send_counter' \in {send_counter, [send_counter EXCEPT ![e] = @ + 1]}
    /\ sent' = [sent EXCEPT ![e] = Append(@, m)]

\* SessionEncryption::encrypt: checked_add, then the counter is in the
\* initialisation vector and advances with the ciphertext.
Encrypt(e, m) ==
    /\ Usable(e)
    /\ send_counter[e] < MaxCounter
    /\ send_counter' = [send_counter EXCEPT ![e] = @ + 1]
    /\ sent' = [sent EXCEPT ![e] = Append(@, m)]

Sealed(e, m) == [from |-> e, counter |-> send_counter[e] + 1, message |-> m]

Send(e, m) ==
    /\ Encrypt(e, m)
    /\ wire' = wire \cup {Sealed(e, m)}
    /\ Return(e, "ok")
    /\ UNCHANGED <<status, expired, receive_counter, delivered, refused>>

\* The transport reports a failure; the bytes may have gone out all the same.
SendBroken(e, m) ==
    /\ Encrypt(e, m)
    /\ wire' \in {wire, wire \cup {Sealed(e, m)}}
    /\ Close(e)
    /\ Return(e, "error")
    /\ UNCHANGED <<expired, receive_counter, delivered, refused>>

-----------------------------------------------------------------------------
(* receive                                                                 *)

\* Mutant of Authentic: any later message of the peer is accepted.
AuthenticLater(e, c) == c.from = Peer(e) /\ c.counter > receive_counter[e]

\* SessionEncryption::decrypt under the expected initialisation vector.
Authentic(e, c) ==
    /\ c.from = Peer(e)
    /\ c.counter = receive_counter[e] + 1

Receive(e, c) ==
    /\ c \in wire
    /\ Usable(e)
    /\ receive_counter[e] < MaxCounter
    /\ Authentic(e, c)
    /\ receive_counter' = [receive_counter EXCEPT ![e] = c.counter]
    /\ delivered' = [delivered EXCEPT ![e] = Append(@, c.message)]
    /\ Return(e, "ok")
    /\ UNCHANGED <<status, expired, send_counter, wire, sent, refused>>

\* The transport fails, or what it hands over is foreign, repeated, early or
\* too long, or the session refuses: the counter stays, the session ends.
ReceiveFails(e) ==
    /\ status[e] # "Unconnected"
    /\ Close(e)
    /\ Return(e, "error")
    /\ refused' = refused \cup {e}
    /\ UNCHANGED <<expired, counters, wire, sent, delivered>>

\* SessionChannel::close: the session ends whatever the transport answers.
CloseChannel(e) ==
    /\ status[e] # "Unconnected"
    /\ Close(e)
    /\ \E r \in {"ok", "error"} : Return(e, r)
    /\ UNCHANGED <<expired, counters, wire, sent, delivered, refused>>

DeadlinePasses(e) ==
    /\ ~expired[e]
    /\ expired' = [expired EXCEPT ![e] = TRUE]
    /\ UNCHANGED <<status, counters, wire, sent, delivered, result, refused>>

Next ==
    \E e \in Peers :
        \/ Connect(e) \/ SendRefused(e) \/ ReceiveFails(e) \/ CloseChannel(e)
        \/ DeadlinePasses(e)
        \/ \E m \in Messages : Send(e, m) \/ SendBroken(e, m)
        \/ \E c \in wire : Receive(e, c)

Spec == Init /\ [][Next]_vars

-----------------------------------------------------------------------------
(* Properties.                                                             *)

\* Every variable holds a value of its type.
TypeOK ==
    /\ status \in [Peers -> {"Unconnected", "Established", "Terminated"}]
    /\ expired \in [Peers -> BOOLEAN]
    /\ send_counter \in [Peers -> Counter]
    /\ receive_counter \in [Peers -> Counter]
    /\ wire \subseteq Ciphertext
    /\ sent \in [Peers -> Seq(Messages)]
    /\ delivered \in [Peers -> Seq(Messages)]
    /\ result \in [Peers -> {"none", "ok", "error"}]
    /\ refused \subseteq Peers

\* What a peer has received is exactly the beginning of what the other has
\* sent: in order, nothing twice, nothing skipped, nothing reflected, over
\* any transport.
InOrderExactlyOnce ==
    \A e \in Peers :
        /\ Len(delivered[e]) <= Len(sent[Peer(e)])
        /\ \A i \in 1 .. Len(delivered[e]) : delivered[e][i] = sent[Peer(e)][i]

\* No initialisation vector protects two messages of one direction: the
\* counter is the number of messages encrypted, and each ciphertext on the
\* wire is the one that was made with its counter.
VectorsUsedOnce ==
    /\ \A e \in Peers : send_counter[e] = Len(sent[e])
    /\ \A c \in wire : /\ c.counter \in 1 .. Len(sent[c.from])
                       /\ c.message = sent[c.from][c.counter]

\* After a receive of a channel has failed, the channel delivers nothing and
\* encrypts nothing more.
FailedReceiveIsFinal ==
    [][\A e \in refused : delivered'[e] = delivered[e] /\ sent'[e] = sent[e]]_vars

\* "Any send/receive failure or explicit close terminates the session"
\* (session_channel.rs:8-9).
AnyFailureTerminates ==
    \A e \in Peers : result[e] = "error" => status[e] = "Terminated"

=============================================================================
