------------------------------- MODULE DstFrame -------------------------------
(***************************************************************************)
(* Decoding a DST frame (DST_FramDSTDecode in dst_fram.c): the header is   *)
(* unpacked, then each bit of each channel is predicted by a filter from   *)
(* the bits before it and corrected by a bit of the arithmetic code.       *)
(***************************************************************************)
EXTENDS DstUnpack

CONSTANTS NBITS,         \* overhead bits of the arithmetic decoder
          GROUP          \* taps that one table of partial sums covers (8 in the code)

ASSUME FrameAssumption == NBITS \in Nat \ {0, 1} /\ GROUP \in Nat \ {0}

VARIABLES AC,            \* ACData: its registers and the next bit of the code
          BitNr, ChNr,   \* what is decoded next
          Status,        \* for each channel the last bits, the newest first
          Muxed          \* MuxedDSDdata

decodeVars == <<AC, BitNr, ChNr, Status, Muxed>>
frameVars == <<unpackVars, decodeVars>>

PBITS == AC_BITS
ABITS == PBITS + NBITS
ONE == Pow2[ABITS]
HALF == Pow2[ABITS - 1]
Taps == Pow2[SIZE_CODEDPREDORDER]
Size == (NrOfBitsPerCh * NrOfChannels) \div 8
Silence == [i \in 1..Size |-> 85]
-----------------------------------------------------------------------------
(* The arithmetic decoder.                                                 *)

fs == Len(FH.data)
CodeBit(i) == IF i < fs THEN FH.data[i + 1] ELSE 0

\* LT_ACDecodeBit_Init: the first bit of the code is not used.
ACInit == LET C[i \in 0..ABITS] == IF i = 0 THEN 0 ELSE C[i - 1] * 2 + CodeBit(i)
          IN [A |-> ONE - 1, C |-> C[ABITS], cbptr |-> ABITS + 1]

\* Behind the end of the code come zeros.
Normalise(ac) ==
    LET loop[k \in 0..ABITS] ==
          IF k = 0 THEN ac
          ELSE LET s == loop[k - 1] IN
               IF s.A >= HALF THEN s
               ELSE [A |-> s.A * 2, C |-> s.C * 2 + CodeBit(s.cbptr), cbptr |-> s.cbptr + 1]
    IN loop[ABITS]

\* LT_ACDecodeBit_Decode: A is divided, p parts of it for a zero; the rounding is
\* an "or", so that it is lost when the quotient is odd.
ACDecode(ac, p) ==
    LET quotient == ac.A \div Pow2[PBITS]
        rounding == (ac.A \div Pow2[PBITS - 1]) % 2
        ap == (IF quotient % 2 = 0 THEN quotient + rounding ELSE quotient) * p
        h == ac.A - ap
    IN IF ac.C >= h THEN [bit |-> 0, ac |-> Normalise([ac EXCEPT !.C = @ - h, !.A = ap])]
       ELSE [bit |-> 1, ac |-> Normalise([ac EXCEPT !.A = h])]

\* LT_ACDecodeBit_Flush: all but the last seven bits must have been used; the loop
\* over those never ends early.
ACFlush(ac) == IF ac.cbptr < fs - 7 THEN 0 ELSE 1
-----------------------------------------------------------------------------
(* Prediction.                                                             *)

\* FillTable4Bit: the table of each bit of a channel.
Table4Bit(k, ch) ==
    LET seg == FH[k]
        Start[n \in 1..Segments(ch, k)] ==
            IF n = 1 THEN 0 ELSE Start[n - 1] + seg.Resolution * 8 * seg.SegmentLen[ch][n - 1]
        of(bit) == CHOOSE n \in 1..Segments(ch, k) :
                      Start[n] <= bit /\ (n = Segments(ch, k) \/ bit < Start[n + 1])
    IN [bit \in 0..NrOfBitsPerCh - 1 |-> seg.Table4Segment[ch][of(bit)]]

\* Reverse7LSBs: the low bits of a coefficient in reverse order, plus one.
ReverseLSBs(c) ==
    LET n == AC_BITS - 1
        low == (c + Pow2[SIZE_PREDCOEF]) % Pow2[n]
        rev[i \in 0..n] == IF i = 0 THEN 0 ELSE rev[i - 1] + ((low \div Pow2[i - 1]) % 2) * Pow2[n - i]
    IN rev[n] + 1

Int16(x) == ((x + 32768) % 65536) - 32768

\* LT_InitCoefTablesI and LT_RUN_FILTER_I: sums of GROUP taps, a bit counting as
\* one or minus one, over as many taps as the filter has.
PartialSum(filter, status, table) ==
    LET from == table * GROUP
        k == IF Len(filter) - from > GROUP THEN GROUP ELSE IF Len(filter) < from THEN 0 ELSE Len(filter) - from
        sum[j \in 0..k] == IF j = 0 THEN 0
                           ELSE sum[j - 1] + (status[from + j] * 2 - 1) * filter[from + j]
    IN Int16(sum[k])
Predict(filter, status) ==
    LET tables == Taps \div GROUP
        sum[t \in 0..tables] == IF t = 0 THEN 0 ELSE sum[t - 1] + PartialSum(filter, status, t - 1)
    IN Int16(sum[tables])

\* LT_ACGetPtableIndex: the larger the prediction, the surer it is.
PtableIndex(predict, len) ==
    LET j == (IF predict > 0 THEN predict ELSE -predict) \div Pow2[AC_QSTEP]
    IN IF j >= len THEN len - 1 ELSE j

\* LT_InitStatus: every byte is 0xaa.
StartStatus == [c \in Channels |-> [i \in 1..Taps |-> (i - 1) % 2]]

\* The update of the filter's status.
Shifted(status, bit) == <<bit>> \o SubSeq(status, 1, Taps - 1)
-----------------------------------------------------------------------------
(* A frame.                                                                *)

Init == /\ UnpackInit
        /\ AC = [A |-> 0, C |-> 0, cbptr |-> 0] /\ BitNr = 0 /\ ChNr = 0
        /\ Status = StartStatus /\ Muxed = [i \in 1..Size |-> 0]

Unpack == UnpackDSTframe /\ UNCHANGED decodeVars

\* Only the unpacking: the frame holds what it is decoded to.
Plain == /\ pc = "plain" /\ pc' = "done" /\ Muxed' = FH.data
         /\ UNCHANGED <<bytes, S, FH, at, error, AC, BitNr, ChNr, Status>>

\* Mutant of StartDecoding: the bits of the frame before are not cleared.
StartDecodingStale == /\ pc = "decode" /\ pc' = "bits"
                      /\ AC' = ACDecode(ACInit, ReverseLSBs(FH.filters[1][1])).ac
                      /\ BitNr' = 0 /\ ChNr' = 0
                      /\ Status' = StartStatus
                      /\ UNCHANGED <<bytes, S, FH, at, error, Muxed>>

\* What the frame before left is reset; one bit is decoded and not used.
StartDecoding == /\ pc = "decode" /\ pc' = "bits"
                 /\ AC' = ACDecode(ACInit, ReverseLSBs(FH.filters[1][1])).ac
                 /\ BitNr' = 0 /\ ChNr' = 0
                 /\ Status' = StartStatus /\ Muxed' = [i \in 1..Size |-> 0]
                 /\ UNCHANGED <<bytes, S, FH, at, error>>

NrOfHalfBits(ch) == Len(FH.filters[FH.F.Table4Segment[ch][1] + 1])

DecodeBit ==
    LET predict == Predict(FH.filters[Table4Bit("F", ChNr)[BitNr] + 1], Status[ChNr])
        ptable == FH.ptables[Table4Bit("P", ChNr)[BitNr] + 1]
        p == IF FH.HalfProb[ChNr] = 1 /\ BitNr < NrOfHalfBits(ChNr) THEN Pow2[AC_BITS] \div 2
             ELSE ptable[PtableIndex(predict, Len(ptable)) + 1]
        decoded == ACDecode(AC, p)
        BitVal == IF predict < 0 THEN 1 - decoded.bit ELSE decoded.bit
        byte == (BitNr \div 8) * NrOfChannels + ChNr + 1 IN
    /\ pc = "bits" /\ BitNr < NrOfBitsPerCh
    /\ AC' = decoded.ac
    /\ Muxed' = [Muxed EXCEPT ![byte] = @ + BitVal * Pow2[7 - (BitNr % 8)]]
    /\ Status' = [Status EXCEPT ![ChNr] = Shifted(@, BitVal)]
    /\ ChNr' = (ChNr + 1) % NrOfChannels
    /\ BitNr' = IF ChNr = NrOfChannels - 1 THEN BitNr + 1 ELSE BitNr
    /\ UNCHANGED unpackVars

Flush == /\ pc = "bits" /\ BitNr = NrOfBitsPerCh
         /\ IF ACFlush(AC) = 1 THEN pc' = "done" /\ UNCHANGED error
            ELSE pc' = "failed" /\ error' = "ArithmeticDecoder"
         /\ UNCHANGED <<bytes, S, FH, at, AC, BitNr, ChNr, Status, Muxed>>

\* Whatever went wrong, the frame is silent.
Silent == /\ pc = "failed" /\ pc' = "done" /\ Muxed' = Silence
          /\ UNCHANGED <<bytes, S, FH, at, error, AC, BitNr, ChNr, Status>>

\* The next frame finds what this one left; its tables are counted from none.
NextFrameOf(arriving) ==
    /\ pc \in {"done", "undefined"} /\ pc' = "header"
    /\ bytes' = arriving /\ S' = StartOfFrame /\ error' = "NoError" /\ at' = <<>>
    /\ FH' = [FH EXCEPT !.filters = <<>>, !.ptables = <<>>]
    /\ UNCHANGED decodeVars
NextFrame == NextFrameOf(bytes)

Next == NextFrame \/ Unpack \/ Plain \/ StartDecoding \/ DecodeBit \/ Flush \/ Silent
==============================================================================
