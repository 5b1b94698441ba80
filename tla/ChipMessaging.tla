----------------------------- MODULE ChipMessaging -----------------------------
(***************************************************************************)
(* Reading a file of a passport chip over Basic Access Control or the      *)
(* compatibility PACE exchange (src/chip_io/mod.rs, driven through         *)
(* src/bindings/passport_transport.rs of marty-verification). The reader   *)
(* authenticates, gets session keys and a send sequence counter, and       *)
(* exchanges protected READ BINARY commands. Whatever was sent may be      *)
(* lost, delivered late or delivered again. The chip is external. Keys and *)
(* MACs are modelled by what authenticates: a session key is the           *)
(* contributions it is derived from. The bytes a command takes on the wire *)
(* are followed on their own, with a small byte and a small cipher block.  *)
(***************************************************************************)
EXTENDS Integers, Sequences, FiniteSets

CONSTANTS
    Runs,           \* bound on the nonces each side draws
    Half,           \* values of the counter half taken from one nonce
    Chunk,          \* the largest Le of a READ BINARY command
    Capacity,       \* the offsets READ BINARY can address
    Reads,          \* the <<offset, length>> ranges asked for
    Byte,           \* values of a byte (256): even
    Block,          \* bytes of a cipher block and of a MAC (8)
    MaxBacData,     \* MAX_BAC_COMMAND_DATA_BYTES
    Les             \* the Le values of the commands put on the wire

\* What the proofs need of the constants.
ChipAssumption == Runs \in Nat /\ Half \in Nat \ {0} /\ Chunk \in Nat \ {0} /\ Reads \subseteq Nat \X Nat

Draws == 1 .. Runs
NoNonce == 0
MaxSsc == Half * Half - 1           \* checked_next_ssc stops here
Sscs == 0 .. MaxSsc
\* What a handshake holds: its nonces and what the password key came from.
Secrets == {"document", "other"}
NoHandshake == [ifd |-> NoNonce, ic |-> NoNonce, secret |-> "other"]
Handshakes == [ifd : Draws, ic : Draws \cup {NoNonce}, secret : Secrets]
\* Session keys: the reader's contribution, the nonce and the chip's.
NoKeys == [ifd |-> NoNonce, ic |-> NoNonce, peer |-> NoNonce]
Keys == [ifd : Draws, ic : Draws \cup {NoNonce}, peer : Draws]

\* The first counter of a BAC session: the low half of either nonce.
StartSsc(k) == (k.ic % Half) * Half + (k.ifd % Half)
\* That of a PACE session comes from the hash the keys come from.
PaceSsc(k) == ((k.ic + 3 * k.ifd) * Half + k.peer) % (Half * Half)

\* build_read_binary_commands: the offset and length of each command.
ReadBinaryCommands(offset, length) ==
    [i \in 1 .. (length + Chunk - 1) \div Chunk |->
        LET done == (i - 1) * Chunk IN
        <<offset + done, IF length - done < Chunk THEN length - done ELSE Chunk>>]

\* The chip's file: its bytes are told apart by their offsets.
Bytes(range) == [k \in 1 .. range[2] |-> range[1] + k - 1]

-----------------------------------------------------------------------------
(* Bytes on the apdu. The four header bytes are the same throughout and    *)
(* left out.                                                               *)

NoLe == -1
MaxByte == Byte - 1
MaxWord == Byte * Byte - 1              \* MAX_APDU_DATA_BYTES
Mid == Byte \div 2                      \* 0x80

\* What the proofs about the encodings need of them: a byte is even and tells
\* the forms of a length apart, a MAC's length is one byte, and the largest
\* data, padded, leaves room for the objects around it.
WireAssumption ==
    /\ Byte \in Nat /\ Byte = 2 * Mid /\ Mid > 2
    /\ Block \in 1 .. MaxByte /\ Les \subseteq Nat /\ MaxBacData \in Nat
    /\ (MaxBacData \div Block + 1) * Block + Block + 11 <= MaxWord

Word(v) == <<v \div Byte, v % Byte>>
Value(hi, lo) == hi * Byte + lo
Err == [ok |-> FALSE, data |-> <<>>, le |-> NoLe]
Command(data, le) == [ok |-> TRUE, data |-> data, le |-> le]

\* encode_apdu_command refuses data or an Le beyond two bytes, and a long Le
\* after short data.
Encodable(data, le) ==
    /\ Len(data) <= MaxWord /\ le <= MaxWord
    /\ Len(data) \in 1 .. MaxByte => le <= MaxByte

LcBytes(data) ==
    IF data = <<>> THEN <<>>
    ELSE IF Len(data) <= MaxByte THEN <<Len(data)>> ELSE <<0>> \o Word(Len(data))
LeBytes(data, le) ==
    IF le = NoLe THEN <<>>
    ELSE IF data = <<>> THEN IF le <= MaxByte THEN <<le>> ELSE <<0>> \o Word(le)
    ELSE IF Len(data) <= MaxByte THEN <<le>> ELSE Word(le)

\* What to_bytes appends to the header; no data is as good as empty data.
EncodeApdu(data, le) == LcBytes(data) \o data \o LeBytes(data, le)

\* ApduCommand::from_bytes, short form: a length byte other than zero.
DecodeShort(raw) ==
    LET end == 1 + raw[1] IN
    IF Len(raw) \notin {end, end + 1} THEN Err
    ELSE Command(SubSeq(raw, 2, end), IF Len(raw) > end THEN raw[end + 1] ELSE NoLe)

\* Extended form: a zero and two length bytes.
DecodeExtended(raw) ==
    IF Len(raw) < 3 THEN Err
    ELSE IF Len(raw) = 3 THEN Command(<<>>, Value(raw[2], raw[3]))
    ELSE LET end == 3 + Value(raw[2], raw[3]) IN
         IF Len(raw) \notin {end, end + 2} THEN Err
         ELSE Command(SubSeq(raw, 4, end),
                      IF Len(raw) > end THEN Value(raw[end + 1], raw[end + 2]) ELSE NoLe)

DecodeApdu(raw) ==
    IF raw = <<>> THEN Command(<<>>, NoLe)
    ELSE IF Len(raw) = 1 THEN Command(<<>>, raw[1])
    ELSE IF raw[1] # 0 THEN DecodeShort(raw) ELSE DecodeExtended(raw)

\* Mutant of PushTlv: 0x80 is taken for a length of one byte.
PushTlvShort(tag, value) ==
    <<tag>> \o (IF Len(value) <= Mid THEN <<Len(value)>>
                ELSE IF Len(value) <= MaxByte THEN <<Mid + 1, Len(value)>>
                ELSE <<Mid + 2>> \o Word(Len(value)))
            \o value

\* push_ber_tlv: one length byte up to 0x7f, then 0x81 or 0x82 before it.
PushTlv(tag, value) ==
    <<tag>> \o (IF Len(value) < Mid THEN <<Len(value)>>
                ELSE IF Len(value) <= MaxByte THEN <<Mid + 1, Len(value)>>
                ELSE <<Mid + 2>> \o Word(Len(value)))
            \o value

\* next_ber_tlv at an offset: the tag, the value and where the next one
\* starts; the shortest form of the length is the only one.
NextTlv(raw, at) ==
    LET form == IF at < Len(raw) THEN raw[at + 1] ELSE Byte
        head == IF form < Mid THEN 2 ELSE IF form = Mid + 1 THEN 3 ELSE 4
        size == IF form < Mid THEN form
                ELSE IF form = Mid + 1 THEN raw[at + 2] ELSE Value(raw[at + 2], raw[at + 3])
        fits == /\ form < Mid \/ form \in {Mid + 1, Mid + 2}
                /\ at + head - 1 <= Len(raw)
                /\ form = Mid + 1 => size >= Mid
                /\ form = Mid + 2 => size > MaxByte
                /\ at + head - 1 + size <= Len(raw)
    IN  IF fits
        THEN [ok |-> TRUE, tag |-> raw[at], next |-> at + head + size,
              value |-> SubSeq(raw, at + head, at + head + size - 1)]
        ELSE [ok |-> FALSE, tag |-> 0, next |-> Len(raw) + 1, value |-> <<>>]

\* The data objects of a protected message, in their order.
Objects(raw) ==
    LET from[at \in 1 .. Len(raw) + 1] ==
            IF at > Len(raw) THEN <<>>
            ELSE LET o == NextTlv(raw, at) IN <<o>> \o from[o.next]
    IN  from[1]

\* iso7816_pad: a marker and zeros up to a whole block.
Pad(data) ==
    data \o <<Mid>> \o [i \in 1 .. (Block - ((Len(data) + 1) % Block)) % Block |-> 0]

\* iso7816_unpad: the last byte that is not zero must be the marker.
Unpad(data) ==
    LET last == {i \in 1 .. Len(data) : data[i] # 0 /\ \A j \in i + 1 .. Len(data) : data[j] = 0}
    IN  IF \E i \in last : data[i] = Mid
        THEN Command(SubSeq(data, 1, (CHOOSE i \in last : TRUE) - 1), NoLe)
        ELSE Err

\* The tags of the data objects: cryptogram, Le, status and MAC.
DO87 == 7
DO97 == 6
DO99 == 5
DO8E == 3
Mac == [i \in 1 .. Block |-> 1]

\* What protect_command puts in the data field: an Le of 256 is written as 0.
ProtectedData(data, le) ==
    (IF data = <<>> THEN <<>> ELSE PushTlv(DO87, <<1>> \o Pad(data)))
    \o (IF le = NoLe THEN <<>> ELSE <<DO97, 1, IF le = Byte THEN 0 ELSE le>>)
    \o PushTlv(DO8E, Mac)

\* protect_command's own limits
Protectable(data, le) ==
    /\ Len(data) <= MaxBacData /\ le <= Byte
    /\ Len(ProtectedData(data, le)) <= MaxWord

\* An object unprotect_response knows, in the form it must have.
ObjectFits(o) ==
    /\ o.ok
    /\ \/ o.tag = DO87 /\ Len(o.value) > 1 /\ o.value[1] = 1 /\ (Len(o.value) - 1) % Block = 0
       \/ o.tag = DO99 /\ Len(o.value) = 2
       \/ o.tag = DO8E /\ Len(o.value) = Block

\* unprotect_response: every object once, a status and a MAC among them, in
\* any order; what is left is the data without its padding.
ReadResponse(raw) ==
    LET os == Objects(raw)
        tags == {os[i].tag : i \in 1 .. Len(os)}
        do87 == {i \in 1 .. Len(os) : os[i].tag = DO87}
    IN  IF \/ \E i \in 1 .. Len(os) : ~ObjectFits(os[i])
           \/ Cardinality(tags) # Len(os) \/ ~{DO99, DO8E} \subseteq tags
        THEN Err
        ELSE IF do87 = {} THEN Command(<<>>, NoLe)
        ELSE Unpad(Tail(os[CHOOSE i \in do87 : TRUE].value))

NoWire == [step |-> "none", answer |-> "none", data |-> <<>>, le |-> NoLe, raw |-> <<>>,
           read |-> Err]

VARIABLES
    proto,          \* which session object the application made
    handshake,      \* the handshake begun, or NoHandshake
    session,        \* the BacSession: its keys (or NoKeys) and counter
    chip,           \* the chip's challenge, session and counter
    drawn,          \* how many nonces each side has drawn
    auths,          \* EXTERNAL AUTHENTICATE commands and answers, or the
                    \* public keys of PACE, sent
    cmds, resps,    \* protected commands and responses sent
    todo, got,      \* commands still to be read, bytes read so far
    range,          \* the range being read
    apdu            \* a command on its way through the encodings

vars == <<proto, handshake, session, chip, drawn, auths, cmds, resps, todo, got,
          range, apdu>>

Nothing == <<0, 0>>
NoSession == [keys |-> NoKeys, ssc |-> 0]

Init ==
    /\ proto \in {"bac", "pace"}
    /\ handshake = NoHandshake
    /\ session = NoSession
    /\ chip = [challenge |-> NoNonce, keys |-> NoKeys, ssc |-> 0]
    /\ drawn = [ifd |-> 0, ic |-> 0]
    /\ auths = {} /\ cmds = {} /\ resps = {}
    /\ todo = <<>> /\ got = <<>> /\ range = Nothing
    /\ apdu = NoWire

-----------------------------------------------------------------------------
(* The reader.                                                             *)

\* start_bac on a challenge the chip once sent, with base keys derived from
\* an MRZ: fresh material, no session.
StartBac(ic, secret) ==
    /\ proto = "bac" /\ drawn.ifd < Runs
    /\ drawn' = [drawn EXCEPT !.ifd = @ + 1]
    /\ handshake' = [ifd |-> drawn.ifd + 1, ic |-> ic, secret |-> secret]
    /\ session' = NoSession
    /\ auths' = auths \cup {[from |-> "reader", of |-> handshake']}
    /\ todo' = <<>> /\ got' = <<>> /\ range' = Nothing
    /\ UNCHANGED <<proto, chip, cmds, resps, apdu>>

\* The nonce the password key decrypts: under another password the padding
\* is wrong and nothing changes, or it happens to fit and another nonce
\* comes out.
DecryptedNonce(n, secret) == IF secret = "document" THEN n ELSE NoNonce

\* start_pace
StartPace(n, secret) ==
    /\ proto = "pace" /\ drawn.ifd < Runs
    /\ drawn' = [drawn EXCEPT !.ifd = @ + 1]
    /\ handshake' = [ifd |-> drawn.ifd + 1, secret |-> secret,
                     ic |-> DecryptedNonce(n, secret)]
    /\ session' = NoSession
    /\ auths' = auths \cup {[from |-> "reader", of |-> handshake']}
    /\ todo' = <<>> /\ got' = <<>> /\ range' = Nothing
    /\ UNCHANGED <<proto, chip, cmds, resps, apdu>>

\* What complete compares: the MAC is under the base keys, and both nonces
\* come back, the chip's first. The reader's own command has them in the
\* other order.
Reflected(a) == a.from = "chip" /\ a.of = handshake

\* finish_bac: the handshake is consumed whatever the response is. The chip's
\* contribution is the one in the response.
FinishBac(a) ==
    /\ proto = "bac" /\ handshake # NoHandshake
    /\ handshake' = NoHandshake
    /\ session' = IF Reflected(a)
                  THEN [keys |-> [ifd |-> handshake.ifd, ic |-> handshake.ic,
                                  peer |-> a.of.ic],
                        ssc |-> StartSsc(handshake)]
                  ELSE session
    /\ UNCHANGED <<proto, chip, drawn, auths, cmds, resps, todo, got, range, apdu>>

\* The keys complete derives from the agreed secret and the nonce.
PaceKeys(peer) == [ifd |-> handshake.ifd, ic |-> handshake.ic, peer |-> peer]

\* complete_pace: the handshake is consumed, and any public key completes it;
\* nothing confirms that the chip has the same keys.
FinishPace(a) ==
    /\ proto = "pace" /\ handshake # NoHandshake /\ a.from = "chip"
    /\ handshake' = NoHandshake
    /\ session' = [keys |-> PaceKeys(a.of.ic), ssc |-> PaceSsc(PaceKeys(a.of.ic))]
    /\ UNCHANGED <<proto, chip, drawn, auths, cmds, resps, todo, got, range, apdu>>

\* A response of another length or with a wrong MAC, or no public key.
FinishGarbage ==
    /\ handshake # NoHandshake
    /\ handshake' = NoHandshake
    /\ UNCHANGED <<proto, session, chip, drawn, auths, cmds, resps, todo, got, range,
                   apdu>>

\* The application starts to read a range, if READ BINARY can address it.
StartRead(r) ==
    /\ session.keys # NoKeys /\ todo = <<>>
    /\ r[1] + r[2] <= Capacity
    /\ todo' = ReadBinaryCommands(r[1], r[2])
    /\ got' = <<>>
    /\ range' = r
    /\ UNCHANGED <<proto, apdu, handshake, session, chip, drawn, auths, cmds, resps>>

\* protect_command on the next command, or on the same one again. A command
\* over the limits, and any command once the counter is exhausted, is refused
\* and changes nothing.
Protect ==
    /\ session.keys # NoKeys /\ todo # <<>>
    /\ session.ssc < MaxSsc
    /\ session' = [session EXCEPT !.ssc = @ + 1]
    /\ cmds' = cmds \cup {[keys |-> session.keys, ssc |-> session.ssc + 1,
                           what |-> Head(todo)]}
    /\ UNCHANGED <<proto, apdu, handshake, chip, drawn, auths, resps, todo, got, range>>

\* Mutant of Authentic: the counter is not part of what is compared.
AuthenticAnyCounter(r) == r.keys = session.keys

\* The MAC covers the next counter value under the session's key.
Authentic(r) == r.keys = session.keys /\ r.ssc = session.ssc + 1

\* unprotect_response on an authentic response
Unprotect(r) ==
    /\ session.keys # NoKeys /\ session.ssc < MaxSsc /\ todo # <<>>
    /\ Authentic(r)
    /\ session' = [session EXCEPT !.ssc = @ + 1]
    /\ got' = got \o Bytes(r.what)
    /\ todo' = Tail(todo)
    /\ UNCHANGED <<proto, apdu, handshake, chip, drawn, auths, cmds, resps, range>>

\* unprotect_response on a response that is too long, malformed, of another
\* counter or of another session: an error, and nothing has changed.
UnprotectFails(r) ==
    /\ session.keys # NoKeys
    /\ session.ssc < MaxSsc => ~Authentic(r)
    /\ UNCHANGED vars

-----------------------------------------------------------------------------
(* The chip.                                                               *)

\* SELECT and GET CHALLENGE
ChipChallenge ==
    /\ drawn.ic < Runs
    /\ drawn' = [drawn EXCEPT !.ic = @ + 1]
    /\ chip' = [challenge |-> drawn.ic + 1, keys |-> NoKeys, ssc |-> 0]
    /\ UNCHANGED <<proto, apdu, handshake, session, auths, cmds, resps, todo, got, range>>

\* EXTERNAL AUTHENTICATE on the challenge it sent last, under the keys of
\* its own MRZ; its contribution to the key is as fresh as the challenge.
ChipAuthenticate(a) ==
    /\ proto = "bac" /\ a.from = "reader" /\ a.of.secret = "document"
    /\ a.of.ic = chip.challenge /\ chip.challenge # NoNonce
    /\ chip' = [challenge |-> NoNonce, ssc |-> StartSsc(a.of),
                keys |-> [ifd |-> a.of.ifd, ic |-> a.of.ic, peer |-> a.of.ic]]
    /\ auths' = auths \cup {[from |-> "chip", of |-> a.of]}
    /\ UNCHANGED <<proto, apdu, handshake, session, drawn, cmds, resps, todo, got, range>>

\* The public keys of PACE: the chip answers a reader's with its own, which
\* is as fresh as its nonce, and knows nothing of the reader's password.
ChipAgree(a) ==
    /\ proto = "pace" /\ a.from = "reader" /\ chip.challenge # NoNonce
    /\ LET k == [ifd |-> a.of.ifd, ic |-> chip.challenge, peer |-> chip.challenge]
       IN  chip' = [challenge |-> NoNonce, keys |-> k, ssc |-> PaceSsc(k)]
    /\ auths' = auths \cup {[from |-> "chip", of |->
                   [ifd |-> a.of.ifd, ic |-> chip.challenge, secret |-> "document"]]}
    /\ UNCHANGED <<proto, apdu, handshake, session, drawn, cmds, resps, todo, got, range>>

\* A command with the next counter value is answered with the one after it.
ChipAnswer(c) ==
    /\ c.keys = chip.keys /\ c.ssc = chip.ssc + 1 /\ c.ssc < MaxSsc
    /\ chip' = [chip EXCEPT !.ssc = @ + 2]
    /\ resps' = resps \cup {[keys |-> c.keys, ssc |-> c.ssc + 1, what |-> c.what]}
    /\ UNCHANGED <<proto, apdu, handshake, session, drawn, auths, cmds, todo, got, range>>

\* Any other command: the chip gives up the session, or ignores it.
ChipAbort ==
    /\ chip.keys # NoKeys
    /\ chip' = [chip EXCEPT !.keys = NoKeys, !.ssc = 0]
    /\ UNCHANGED <<proto, apdu, handshake, session, drawn, auths, cmds, resps, todo, got, range>>

-----------------------------------------------------------------------------
(* One command through the encodings: written by the application, read by  *)
(* protect_command's caller, protected, read by the chip, whose answer     *)
(* echoes the data.                                                        *)

Data(n) == [i \in 1 .. n |-> (i * Mid) % Byte]

WriteCommand(n, le) ==
    /\ apdu.step = "none"
    /\ Encodable(Data(n), le)
    /\ apdu' = [apdu EXCEPT !.step = "written", !.data = Data(n), !.le = le,
                !.raw = EncodeApdu(Data(n), le)]

ReadCommand ==
    /\ apdu.step = "written"
    /\ apdu' = [apdu EXCEPT !.step = "read", !.read = DecodeApdu(apdu.raw)]

\* protect_command of the binding: the protected command is encoded with an
\* Le of zero.
ProtectRead ==
    /\ apdu.step = "read"
    /\ apdu.read.ok /\ Protectable(apdu.read.data, apdu.read.le)
    /\ apdu' = [apdu EXCEPT !.step = "protected",
                !.raw = EncodeApdu(ProtectedData(apdu.read.data, apdu.read.le), 0)]

Answers == {"whole", "reordered", "repeated", "no status", "cut"}

\* The chip reads the objects and answers with the data it found, in one of
\* the orders of the objects, or with an answer that lacks or repeats one.
ChipEcho(answer) ==
    /\ apdu.step = "protected"
    /\ LET os == Objects(DecodeApdu(apdu.raw).data)
           cryptogram == IF os[1].tag = DO87 THEN PushTlv(DO87, os[1].value) ELSE <<>>
           status == PushTlv(DO99, <<Mid, 0>>)
           mac == PushTlv(DO8E, Mac)
       IN  apdu' = [apdu EXCEPT !.step = "answered", !.answer = answer, !.raw =
                        CASE answer = "whole"     -> cryptogram \o status \o mac
                          [] answer = "reordered" -> mac \o status \o cryptogram
                          [] answer = "repeated"  -> cryptogram \o status \o status \o mac
                          [] answer = "no status" -> cryptogram \o mac
                          [] answer = "cut"       -> cryptogram \o status \o SubSeq(mac, 1, Block)]

ReadAnswer ==
    /\ apdu.step = "answered"
    /\ apdu' = [apdu EXCEPT !.step = "done", !.read = ReadResponse(apdu.raw)]

WireStep ==
    /\ \/ \E n \in 0 .. MaxWord, le \in Les \cup {NoLe} : WriteCommand(n, le)
       \/ ReadCommand \/ ProtectRead \/ ReadAnswer
       \/ \E a \in Answers : ChipEcho(a)
    /\ UNCHANGED <<proto, handshake, session, chip, drawn, auths, cmds, resps, todo, got,
                   range>>

ReaderStep ==
    \/ \E ic \in 1 .. drawn.ic, secret \in Secrets :
           StartBac(ic, secret) \/ StartPace(ic, secret)
    \/ \E a \in auths : FinishBac(a) \/ FinishPace(a)
    \/ FinishGarbage
    \/ \E r \in Reads : StartRead(r)
    \/ Protect
    \/ \E r \in resps : Unprotect(r) \/ UnprotectFails(r)

ChipStep ==
    \/ ChipChallenge
    \/ \E a \in auths : ChipAuthenticate(a) \/ ChipAgree(a)
    \/ \E c \in cmds : ChipAnswer(c)
    \/ ChipAbort

Next == ReaderStep \/ ChipStep \/ WireStep

Spec == Init /\ [][Next]_vars

-----------------------------------------------------------------------------
(* Properties.                                                             *)

Message == [keys : Keys, ssc : Sscs, what : Nat \X Nat]

\* Every variable holds a value of its type; no counter leaves its range.
TypeOK ==
    /\ proto \in {"bac", "pace"}
    /\ handshake \in Handshakes \cup {NoHandshake}
    /\ session \in [keys : Keys \cup {NoKeys}, ssc : Sscs]
    /\ chip \in [challenge : Draws \cup {NoNonce}, keys : Keys \cup {NoKeys}, ssc : Sscs]
    /\ drawn \in [ifd : 0 .. Runs, ic : 0 .. Runs]
    /\ auths \subseteq [from : {"reader", "chip"}, of : Handshakes]
    /\ cmds \subseteq Message /\ resps \subseteq Message
    /\ todo \in Seq(Nat \X Nat) /\ got \in Seq(Nat)
    /\ range \in Nat \X Nat

\* What has been read is a beginning of the range asked for, and all of it
\* once no command is left: no response is taken for another command's or
\* from another session, however responses are delayed or repeated, and the
\* commands of build_read_binary_commands cover the range without a gap.
ReadIsFaithful ==
    /\ Len(got) <= range[2] /\ got = SubSeq(Bytes(range), 1, Len(got))
    /\ todo = <<>> => Len(got) = range[2]

\* A reader that holds a BAC session shares its key with a chip that answered
\* this very handshake: an answer to an earlier one does not complete it.
SessionIsShared ==
    proto = "bac" /\ session.keys # NoKeys =>
        [from |-> "chip", of |-> [ifd |-> session.keys.ifd, ic |-> session.keys.ic,
                                  secret |-> "document"]] \in auths

\* A rejected response costs nothing: as long as the command is the last one
\* sent, the chip's answer to it is still accepted after any number of
\* responses that were not.
AnswerStaysAcceptable ==
    \A c \in cmds, r \in resps :
        /\ c.keys = session.keys /\ r.keys = c.keys /\ r.ssc = c.ssc + 1
        /\ \A d \in cmds : d.keys = c.keys => d.ssc <= c.ssc
        => session.ssc \in {c.ssc, c.ssc + 1}

\* Every command to_bytes writes is read back as it was; every one within the
\* limits can be protected, and the chip finds in it the data and the Le; an
\* answer is read, in any order of its objects, as the data it carries, and
\* not at all when an object is missing, repeated or cut short.
WireFormsHold ==
    /\ apdu.step = "read" => apdu.read = Command(apdu.data, apdu.le)
    /\ apdu.step = "read" /\ Len(apdu.data) <= MaxBacData /\ apdu.le <= Byte =>
           Protectable(apdu.data, apdu.le)
    /\ apdu.step = "protected" =>
           LET c == DecodeApdu(apdu.raw)
               les == {o \in {Objects(c.data)[i] : i \in DOMAIN Objects(c.data)} : o.tag = DO97}
           IN  /\ c.ok /\ c.le = 0 /\ \A i \in DOMAIN Objects(c.data) : Objects(c.data)[i].ok
               /\ apdu.le = NoLe <=> les = {}
               /\ \A o \in les : o.value = <<apdu.le % Byte>>
    /\ apdu.step = "done" =>
           IF apdu.answer \in {"whole", "reordered"}
           THEN apdu.read = Command(apdu.data, NoLe)
           ELSE ~apdu.read.ok

=============================================================================
