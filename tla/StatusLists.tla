------------------------------ MODULE StatusLists ------------------------------
(***************************************************************************)
(* Token status lists and bitstring status lists (src/lib.rs of            *)
(* marty-status): statuses of 1, 2, 4 or 8 bits packed into bytes, the     *)
(* first in the low bits, or single bits, the first in the high bit.       *)
(* Compression and base64 keep the bytes and bound their number.           *)
(***************************************************************************)
EXTENDS Integers, Sequences

CONSTANTS
    Sizes,          \* sizes of lists
    Width,          \* bits of a status, or 0 for a bitstring list
    Written,        \* statuses that are written
    MaxWrites       \* bound on the writes

VARIABLES
    bytes,          \* TokenStatusList.data, BitstringStatusList.data
    size,           \* how many statuses
    bits,           \* bits per status; 0 for a BitstringStatusList
    written,        \* written[i]: the status last set at i, as a reference
    writes

vars == <<bytes, size, bits, written, writes>>

\* token_byte_len and bitstring_byte_len
ByteLen(n, b) == LET per == IF b = 0 THEN 8 ELSE 8 \div b IN (n + per - 1) \div per

\* validate_bits
Init ==
    /\ size \in Sizes
    /\ bits \in Width \cap {0, 1, 2, 4, 8}
    /\ bytes = [k \in 1 .. ByteLen(size, bits) |-> 0]
    /\ written = [i \in 0 .. size - 1 |-> 0]
    /\ writes = 0

Mask == IF bits = 0 THEN 1 ELSE 2 ^ bits - 1

\* The byte of a status and how far it is shifted in it
ByteIndex(i) == IF bits = 0 THEN i \div 8 ELSE i \div (8 \div bits)
\* Mutant of Shift: the width of a status is left out.
ShiftByOne(i) == IF bits = 0 THEN 7 - (i % 8) ELSE i % (8 \div bits)

Shift(i) == IF bits = 0 THEN 7 - (i % 8) ELSE (i % (8 \div bits)) * bits

Get(i) == (bytes[ByteIndex(i) + 1] \div 2 ^ Shift(i)) % (Mask + 1)

\* TokenStatusList::set, revoke and reinstate; a status too large or an index
\* out of range is refused.
Set(i, status) ==
    /\ writes < MaxWrites /\ i < size /\ status <= Mask
    /\ bytes' = [bytes EXCEPT ![ByteIndex(i) + 1] = @ - Get(i) * 2 ^ Shift(i) + status * 2 ^ Shift(i)]
    /\ written' = [written EXCEPT ![i] = status]
    /\ writes' = writes + 1
    /\ UNCHANGED <<size, bits>>

\* to_base64url and from_base64url with the size: read_exact_bounded takes the
\* bytes only if there are exactly as many as the size needs.
Reload(n) ==
    /\ n \in Sizes
    /\ ByteLen(n, bits) = Len(bytes)
    /\ size' = n
    /\ written' = [i \in 0 .. n - 1 |-> IF i < size THEN written[i] ELSE 0]
    /\ UNCHANGED <<bytes, bits, writes>>

Next ==
    \/ \E i \in 0 .. size - 1, s \in Written : Set(i, s)
    \/ \E n \in Sizes : n >= size /\ Reload(n)

Spec == Init /\ [][Next]_vars

\* Every status reads as it was last written, and the others as they were:
\* writes do not reach a neighbour in the byte, at any width, also after the
\* list has been encoded and decoded.
StatusesIndependent == \A i \in 0 .. size - 1 : Get(i) = written[i]
=============================================================================
