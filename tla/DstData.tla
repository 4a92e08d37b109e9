------------------------------- MODULE DstData -------------------------------
(***************************************************************************)
(* Reading bits from the bytes of a DST frame (dst_data.c).  A reader is   *)
(* what StrData keeps besides the bytes: the next byte, the byte that is   *)
(* being read, and how many of its bits are left.                          *)
(***************************************************************************)
EXTENDS Integers, Sequences

\* ResetReadingIndex; FillBuffer copies the frame and resets.
StartOfFrame == [ByteCounter |-> 0, BitPosition |-> 0, DataByte |-> 0]

\* 1 << n.
Pow2[n \in Nat] == IF n = 0 THEN 1 ELSE 2 * Pow2[n - 1]

Smaller(a, b) == IF a <= b THEN a ELSE b

\* getbits: n bits, taken from as many bytes as hold them; at the end of the
\* bytes what was put together so far is not used.
getbits(bytes, reader, n) ==
    LET loop[k \in Nat] ==
          IF k = 0 THEN [r |-> reader, x |-> 0, left |-> n, eof |-> FALSE]
          ELSE LET s == loop[k - 1]
                   next == IF s.r.BitPosition > 0 THEN s.r
                           ELSE [ByteCounter |-> s.r.ByteCounter + 1, BitPosition |-> 8,
                                 DataByte |-> bytes[s.r.ByteCounter + 1]]
                   thisbits == Smaller(next.BitPosition, s.left)
                   shift == next.BitPosition - thisbits
               IN IF s.eof \/ s.left = 0 THEN s
                  ELSE IF s.r.BitPosition = 0 /\ s.r.ByteCounter >= Len(bytes)
                  THEN [s EXCEPT !.eof = TRUE, !.r.ByteCounter = @ + 1]
                  ELSE [r |-> [next EXCEPT !.BitPosition = shift],
                        x |-> s.x + ((next.DataByte \div Pow2[shift]) % Pow2[thisbits]) * Pow2[s.left - thisbits],
                        left |-> s.left - thisbits, eof |-> FALSE]
    IN loop[(n + 14) \div 8]

\* FIO_BitGetIntUnsigned and FIO_BitGetChrUnsigned: no bit is no error.
Unsigned(bytes, reader, n) == getbits(bytes, reader, n)

\* FIO_BitGetIntSigned and FIO_BitGetShortSigned: two's complement.
Signed(bytes, reader, n) ==
    LET got == getbits(bytes, reader, n)
    IN [got EXCEPT !.x = IF n > 0 /\ @ >= Pow2[n - 1] THEN @ - Pow2[n] ELSE @]

\* One bit, and the reader that stands before it, for loops that read bit by bit.
BitAt(bytes, i) == (bytes[i \div 8 + 1] \div Pow2[7 - (i % 8)]) % 2
ReaderAt(bytes, i) == [ByteCounter |-> (i + 7) \div 8, BitPosition |-> (8 - (i % 8)) % 8,
                       DataByte |-> IF i = 0 THEN 0 ELSE bytes[(i + 7) \div 8]]

get_in_bitcount(reader) == reader.ByteCounter * 8 - reader.BitPosition
==============================================================================
