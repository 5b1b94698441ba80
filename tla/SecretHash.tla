------------------------------ MODULE SecretHash ------------------------------
(***************************************************************************)
(* Hashing of secrets in marty-crypto (secret_hash.rs) and the derivations *)
(* built on it (kdf.rs): a hash fed in parts, HMAC, HKDF, PBKDF2 and the   *)
(* concatenation KDF, and what of the secrets stays in memory. The two     *)
(* compression functions are external and free of collisions: a digest is  *)
(* the blocks it was made of. Blocks and digests are scaled down, in the   *)
(* proportions of SHA-256, SHA-384 and SHA-512.                            *)
(***************************************************************************)
EXTENDS Integers, Sequences, SequencesExt, TLC

CONSTANTS
    MaxMessage,     \* bytes fed to a hash at most
    MaxOutput,      \* bytes derived at most
    MaxCounter      \* blocks HKDF's counter allows

VARIABLES
    hash,           \* the hash under way: its memory
    fed,            \* bytes it was fed
    output,         \* the caller's output buffer
    answer          \* the call made and its result

vars == <<hash, fed, output, answer>>

-----------------------------------------------------------------------------
(* Bytes, blocks and digests.                                              *)

Byte(n) == <<"byte", n>>
Bytes(n) == [i \in 1 .. n |-> Byte(i)]
Marker == Byte(128)
Zero == Byte(0)
Zeros(n) == [i \in 1 .. n |-> Zero]
Nothing == [kind |-> "nothing"]
Least(m, n) == IF m < n THEN m ELSE n

\* SecureHashAlgorithm: block_len, digest_len, and the bytes that hold a length
Algorithms == {"sha256", "sha384", "sha512"}
BlockLen(alg) == IF alg = "sha256" THEN 4 ELSE 6
DigestLen(alg) == CASE alg = "sha256" -> 2 [] alg = "sha384" -> 2 [] alg = "sha512" -> 3
LengthLen(alg) == IF alg = "sha256" THEN 1 ELSE 2

\* The compression function (external): a digest's bytes, of the blocks
Digest(alg, blocks) == [i \in 1 .. DigestLen(alg) |-> <<"digest", alg, blocks, i>>]

-----------------------------------------------------------------------------
(* The hash fed in parts.                                                  *)

\* SecureSha256::new, SecureSha512::new
New(alg) == [kind |-> "hash", alg |-> alg, blocks |-> <<>>, buffer |-> <<>>, length |-> 0]

\* update: completes a block begun earlier, hashes whole blocks, keeps the rest.
Update(ctx, data) ==
    LET b == BlockLen(ctx.alg)
        copied == IF ctx.buffer = <<>> THEN 0 ELSE Least(b - Len(ctx.buffer), Len(data))
        filled == ctx.buffer \o SubSeq(data, 1, copied)
        full == Len(filled) = b
        rest == SubSeq(data, copied + 1, Len(data))
        whole == Len(rest) \div b
        tail == SubSeq(rest, whole * b + 1, Len(rest))
    IN [ctx EXCEPT !.blocks = @ \o (IF full THEN <<filled>> ELSE <<>>)
                                \o [i \in 1 .. whole |-> SubSeq(rest, (i - 1) * b + 1, i * b)],
                   !.buffer = IF tail # <<>> THEN tail ELSE IF full THEN <<>> ELSE filled,
                   !.length = @ + Len(data)]

\* finish: a marker, zeros and the length; a block more when the length has no
\* room left in the last one.
Finish(ctx) ==
    LET b == BlockLen(ctx.alg)
        room == b - LengthLen(ctx.alg)
        marked == Append(ctx.buffer, Marker)
        over == Len(marked) > room
        first == IF over THEN <<marked \o Zeros(b - Len(marked))>> ELSE <<>>
        last == IF over THEN <<>> ELSE marked
    IN Digest(ctx.alg, ctx.blocks \o first \o <<last \o Zeros(room - Len(last)) \o <<<<"length", ctx.length>>>>>>)

\* hash_parts and sha256
HashParts(alg, parts) == Finish(FoldLeft(Update, New(alg), parts))

-----------------------------------------------------------------------------
(* HMAC and the derivations.                                               *)

Xor(bytes, pad) == [i \in DOMAIN bytes |-> <<pad, bytes[i]>>]

\* hmac_into: a key longer than a block is hashed, a shorter one filled with
\* zeros.
HmacInto(alg, key, parts) ==
    LET b == BlockLen(alg)
        short == IF Len(key) > b THEN HashParts(alg, <<key>>) ELSE key
        block == short \o Zeros(b - Len(short))
        inner == HashParts(alg, <<Xor(block, "ipad")>> \o parts)
    IN HashParts(alg, <<Xor(block, "opad"), inner>>)

\* hkdf: the expansion, one block for each count; the last one is cut.
Blocks(n, alg) == (n + DigestLen(alg) - 1) \div DigestLen(alg)
Cut(bytes, n) == SubSeq(bytes, 1, n)
Expand(alg, prk, info, count) ==
    LET T[n \in 0 .. count] ==
            IF n = 0 THEN [previous |-> <<>>, written |-> <<>>]
            ELSE LET next == HmacInto(alg, prk, <<T[n - 1].previous, info, <<Byte(n)>>>>)
                 IN [previous |-> next, written |-> T[n - 1].written \o next]
    IN T[count].written
Hkdf(alg, ikm, salt, info, length) ==
    Cut(Expand(alg, HmacInto(alg, salt, <<ikm>>), info, Blocks(length, alg)), length)

\* pbkdf2: the iterations of a block are added to each other.
Iterated(alg, password, salt, block, iterations) ==
    LET U[n \in 1 .. iterations] ==
            IF n = 1 THEN HmacInto(alg, password, <<salt, <<<<"block", block>>>>>>) ELSE HmacInto(alg, password, <<U[n - 1]>>)
    IN [i \in 1 .. DigestLen(alg) |-> <<"sum", {U[n][i] : n \in 1 .. iterations}>>]
Pbkdf2(alg, password, salt, iterations, length) ==
    Cut(FlattenSeq([b \in 1 .. Blocks(length, alg) |-> Iterated(alg, password, salt, b, iterations)]), length)

\* append_length_prefixed
LengthPrefixed(value) == <<<<"length", Len(value)>>>> \o value

\* concat_kdf_sha256
ConcatKdf(secret, id, u, v, length) ==
    LET info == LengthPrefixed(id) \o LengthPrefixed(u) \o LengthPrefixed(v) \o <<<<"bits", length>>>>
    IN Cut(FlattenSeq([c \in 1 .. Blocks(length, "sha256") |-> HashParts("sha256", <<<<Byte(c)>>, secret, info>>)]), length)

-----------------------------------------------------------------------------
(* Calls.                                                                  *)

\* Calls share no state: a behaviour ends with the answer of one.
Answer(a) == answer = Nothing /\ answer' = a

NewHash(alg) ==
    /\ hash = Nothing /\ answer = Nothing
    /\ hash' = New(alg) /\ fed' = 0
    /\ UNCHANGED <<output, answer>>
UpdateHash(n) ==
    /\ hash # Nothing /\ fed + n <= MaxMessage
    /\ hash' = Update(hash, SubSeq(Bytes(MaxMessage), fed + 1, fed + n)) /\ fed' = fed + n
    /\ UNCHANGED <<output, answer>>
FinishHash ==
    /\ hash # Nothing
    /\ Answer([kind |-> "digest", alg |-> hash.alg, message |-> fed, result |-> Finish(hash)])
    /\ hash' = Nothing
    /\ UNCHANGED <<fed, output>>

\* Dropped without its digest: clear
DropHash ==
    /\ hash # Nothing
    /\ hash' = Nothing
    /\ UNCHANGED <<fed, output, answer>>

\* OutputGuard: output that does not fit is wiped before anything is computed,
\* output of a call that failed after.
Guarded(kept, result) == output' = IF kept THEN result ELSE <<>>

\* hmac_with_scratch; ok stands for what the caller does after the computation
HmacWithScratch(alg, key, parts, length, ok) ==
    LET fits == length = DigestLen(alg)
        result == IF fits THEN HmacInto(alg, Bytes(key), parts) ELSE <<>>
    IN /\ hash = Nothing /\ Answer([kind |-> "hmac", alg |-> alg, ok |-> fits /\ ok, key |-> key, message |-> FlattenSeq(parts), length |-> length])
       /\ Guarded(fits /\ ok, result)
       /\ UNCHANGED <<hash, fed>>

\* kdf::hkdf
DeriveHkdf(alg, salt, length, ok) ==
    LET fits == length <= MaxCounter * DigestLen(alg)
        result == IF fits THEN Hkdf(alg, <<Byte(1)>>, salt, <<Byte(2)>>, length) ELSE <<>>
    IN /\ hash = Nothing /\ Answer([kind |-> "hkdf", alg |-> alg, ok |-> fits /\ ok, salt |-> salt, length |-> length])
       /\ Guarded(fits /\ ok, result)
       /\ UNCHANGED <<hash, fed>>

\* kdf::pbkdf2_sha256 and pbkdf2_sha512
DerivePbkdf2(alg, iterations, length) ==
    /\ alg # "sha384" /\ iterations > 0
    /\ hash = Nothing /\ Answer([kind |-> "pbkdf2", alg |-> alg, ok |-> TRUE, iterations |-> iterations, length |-> length])
    /\ Guarded(TRUE, Pbkdf2(alg, <<Byte(1)>>, <<Byte(2)>>, iterations, length))
    /\ UNCHANGED <<hash, fed>>

\* kdf::concat_kdf_sha256
DeriveConcat(id, u, v, length) ==
    LET ok == length > 0
        result == IF ok THEN ConcatKdf(<<Byte(1)>>, id, u, v, length) ELSE <<>>
    IN /\ hash = Nothing /\ Answer([kind |-> "concat", ok |-> ok, inputs |-> <<id, u, v, length>>])
       /\ Guarded(ok, result)
       /\ UNCHANGED <<hash, fed>>

Init == hash = Nothing /\ fed = 0 /\ output = <<>> /\ answer = Nothing

Infos == {<<>>, <<Byte(1)>>, <<Byte(1), Byte(1)>>}
Next ==
    \/ \E a \in Algorithms : NewHash(a)
    \/ \E n \in 0 .. MaxMessage : UpdateHash(n)
    \/ FinishHash \/ DropHash
    \/ \E a \in Algorithms, k \in {0, 1, 4, 5, 6, 7}, p \in {<<>>, <<Bytes(2)>>, <<Bytes(1), <<Byte(2)>>>>, <<Bytes(5)>>},
          n \in 2 .. 3, ok \in BOOLEAN : HmacWithScratch(a, k, p, n, ok)
    \/ \E a \in Algorithms, s \in {<<>>, Zeros(1), Bytes(1)}, n \in 0 .. MaxOutput, ok \in BOOLEAN : DeriveHkdf(a, s, n, ok)
    \/ \E a \in Algorithms, i \in 0 .. 2, n \in 1 .. MaxOutput : DerivePbkdf2(a, i, n)
    \/ \E id \in Infos, u \in Infos, v \in Infos, n \in 0 .. 3 : DeriveConcat(id, u, v, n)

Spec == Init /\ [][Next]_vars

-----------------------------------------------------------------------------
(* Properties.                                                             *)

\* What a message is hashed as: padded to whole blocks, with the fewest zeros
Padded(alg, message) ==
    LET b == BlockLen(alg)
        least == Len(message) + 1 + LengthLen(alg)
        total == b * ((least + b - 1) \div b)
        padded == Append(message, Marker) \o Zeros(total - Len(message) - 1 - LengthLen(alg)) \o <<<<"length", Len(message)>>>>
    IN \* the length stands for all its bytes
       [i \in 1 .. total \div b |-> SubSeq(padded, (i - 1) * b + 1, IF i * b > Len(padded) THEN Len(padded) ELSE i * b)]
HashOf(alg, message) == Digest(alg, Padded(alg, message))

\* HMAC as its standard has it
HmacOf(alg, key, message) ==
    LET k == IF Len(key) > BlockLen(alg) THEN HashOf(alg, key) ELSE key
        block == [i \in 1 .. BlockLen(alg) |-> IF i <= Len(k) THEN k[i] ELSE Zero]
    IN HashOf(alg, Xor(block, "opad") \o HashOf(alg, Xor(block, "ipad") \o message))

\* However a message is cut into parts, its digest is that of the whole, at every
\* length around the boundary of a block; HMAC is that of its standard for keys
\* around the length of a block; HKDF gives the output asked for, a prefix of any
\* longer one; and two concatenation derivations that agree had the same inputs. A call that
\* fails leaves nothing in the output.
DigestsRight ==
    /\ answer.kind = "digest" => answer.result = HashOf(answer.alg, Bytes(answer.message))
    /\ answer.kind = "hmac" /\ answer.ok => output = HmacOf(answer.alg, Bytes(answer.key), answer.message)
    /\ answer.kind \in {"hkdf", "pbkdf2"} /\ answer.ok => Len(output) = answer.length
    /\ answer.kind = "hkdf" /\ answer.ok /\ output # <<>> =>
         LET prk == HmacOf(answer.alg, answer.salt, <<Byte(1)>>)
         IN /\ IsPrefix(Cut(output, Least(Len(output), DigestLen(answer.alg))), HmacOf(answer.alg, prk, <<Byte(2), Byte(1)>>))
            /\ Len(output) = DigestLen(answer.alg) + 1 =>
                 output[Len(output)] = HmacOf(answer.alg, prk, Cut(output, DigestLen(answer.alg)) \o <<Byte(2), Byte(2)>>)[1]
    /\ answer.kind \in {"hmac", "hkdf", "concat"} /\ ~ answer.ok => output = <<>>
    /\ answer.kind = "concat" /\ answer.ok =>
         \A id \in Infos, u \in Infos, v \in Infos, n \in 1 .. 3 :
            ConcatKdf(<<Byte(1)>>, id, u, v, n) = output => answer.inputs = <<id, u, v, n>>

=============================================================================
