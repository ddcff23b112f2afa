-------------------------------- MODULE Bytes -------------------------------
(***************************************************************************)
(* Numbers and buffers (src/src/util.ts).  A buffer is a sequence of       *)
(* bytes, the most significant first.  No number and no buffer that is     *)
(* read as one needs more than four.                                       *)
(***************************************************************************)
EXTENDS Integers, Sequences

\* What an empty buffer reads as: equal to no number, less than none.
NaN == -1

\* Without its last byte.
Shift(n) == n \div 256

\* The numbers of four bytes at most.
Words == {n \in Nat : Shift(Shift(Shift(Shift(n)))) = 0}

\* The bytes that toString(16) writes, with a digit in front of an odd number
\* of them.
int2buffer(n) ==
    LET high == Shift(n)
        higher == Shift(high)
        highest == Shift(higher)
    IN  CASE high = 0 -> <<n>>
          [] high # 0 /\ higher = 0 -> <<high, n % 256>>
          [] higher # 0 /\ highest = 0 -> <<higher, high % 256, n % 256>>
          [] highest # 0 -> <<highest, higher % 256, high % 256, n % 256>>

\* Zeros in front, up to this size; a longer buffer stays as it is.
zfill(buffer, size) ==
    IF Len(buffer) >= size THEN buffer
    ELSE LET pad == size - Len(buffer)
         IN  [k \in 1..size |-> IF k <= pad THEN 0 ELSE buffer[k - pad]]

buffer2int(buffer) ==
    LET byte == zfill(buffer, 4)
    IN  IF buffer = <<>> THEN NaN
        ELSE 256 * (256 * (256 * byte[1] + byte[2]) + byte[3]) + byte[4]

\* toString(16) writes an odd number of digits.
OddDigits(n) == Head(int2buffer(n)) < 16

\* Buffer.from(n.toString(16), 'hex'), which drops a last digit that is alone.
FromHex(n) ==
    IF ~OddDigits(n) THEN int2buffer(n)
    ELSE IF n < 16 THEN <<>> ELSE int2buffer(n \div 16)
=============================================================================
