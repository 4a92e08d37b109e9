------------------------------ MODULE DstUnpack ------------------------------
(***************************************************************************)
(* The header of a DST frame (unpack_dst.c): segments, the tables that     *)
(* they use, the prediction filters and the probability tables, read bit   *)
(* by bit.  One action reads one item of the stream, or finds it wrong.    *)
(*                                                                         *)
(* The sizes of conststr.h are constants, so that frames can be small;     *)
(* there, too, a segment of filters has the larger least length, which a   *)
(* channel holds.                                                          *)
(***************************************************************************)
EXTENDS DstData, FiniteSets

CONSTANTS NrOfChannels, MaxFrameLen,
          SIZE_CODEDPREDORDER, SIZE_PREDCOEF, AC_BITS, AC_HISBITS, SIZE_RICEMETHOD, SIZE_RICEM,
          MAXNROF_FSEGS, MAXNROF_PSEGS, MAXNROF_SEGS, MIN_FSEG_LEN, MIN_PSEG_LEN

ASSUME UnpackAssumption ==
    /\ {NrOfChannels, MaxFrameLen, SIZE_CODEDPREDORDER, SIZE_PREDCOEF, AC_BITS, SIZE_RICEMETHOD,
        SIZE_RICEM, MAXNROF_FSEGS, MAXNROF_PSEGS, MAXNROF_SEGS} \subseteq Nat \ {0}
    /\ MAXNROF_FSEGS <= MAXNROF_SEGS /\ MAXNROF_PSEGS <= MAXNROF_SEGS
    /\ AC_HISBITS \in 1..SIZE_PREDCOEF
    /\ MIN_FSEG_LEN \in Nat /\ MIN_PSEG_LEN \in 0..MIN_FSEG_LEN /\ MIN_FSEG_LEN <= MaxFrameLen * 8

VARIABLES bytes,         \* pDSTdata: the frame as it was handed over
          S,             \* its reader
          pc,            \* what is read next
          FH,            \* FrameHdr, with the two code tables
          at,            \* the loop counters of the function that runs
          error          \* what UnpackDSTframe returns

unpackVars == <<bytes, S, pc, FH, at, error>>

Channels == 0..NrOfChannels - 1
MaxNrOfTables == 2 * NrOfChannels
AC_QSTEP == SIZE_PREDCOEF - AC_HISBITS
NrOfBitsPerCh == MaxFrameLen * 8

\* Where the reading stands, for the filters (k = "F") and the probability tables.
AtSegments(k) == IF k = "F" THEN "segments F" ELSE "segments P"
AtSegment(k) == IF k = "F" THEN "segment F" ELSE "segment P"
AtTables(k) == IF k = "F" THEN "tables F" ELSE "tables P"
AtTable(k) == IF k = "F" THEN "table F" ELSE "table P"
AtEntries(k) == IF k = "F" THEN "entries F" ELSE "entries P"

\* DST_InitDecoder and AllocateDecMemory: the arrays for a frame's tables.
Allocated == [F |-> [tables |-> 2 * NrOfChannels, entries |-> Pow2[SIZE_CODEDPREDORDER]],
              P |-> [tables |-> 2 * NrOfChannels, entries |-> Pow2[AC_HISBITS]]]

\* Segment.  SegmentLen and Table4Segment are sequences for each channel, which
\* stand in rows of MAXNROF_SEGS.
NoSegments == [Resolution |-> 1, NrOfTables |-> 0, SegmentLen |-> [c \in Channels |-> <<>>],
               Table4Segment |-> [c \in Channels |-> <<>>]]
NoHeader == [DSTCoded |-> 0, PSameSegAsF |-> 0, PSameMapAsF |-> 0, F |-> NoSegments, P |-> NoSegments,
             filters |-> <<>>, ptables |-> <<>>, HalfProb |-> <<>>, data |-> <<>>]

Segments(ch, k) == Len(FH[k].SegmentLen[ch])

\* The rounded up logarithm: how many bits a number up to x takes.
Log2RoundUp(x) == CHOOSE y \in 0..x : x < Pow2[y] /\ (y = 0 \/ x >= Pow2[y - 1])

\* CCP_CalcInit: the order and the coefficients with which entries are predicted.
FilterMethods == <<<<-8>>, <<-16, 8>>, <<-9, -5, 6>>>>
PtableMethods == <<<<-8>>, <<-16, 8>>, <<-24, 24, -8>>>>

Fail(e) == pc' = "failed" /\ error' = e /\ UNCHANGED <<bytes, S, FH, at>>
\* Past the end of the frame where the code does not look at the result.
Undefined == pc' = "undefined" /\ UNCHANGED <<bytes, S, FH, at, error>>
\* Past the end of a row: of the next channel's, or of NrOfSegments.
Overrun == pc' = "overrun" /\ UNCHANGED <<bytes, S, FH, at, error>>
Go(next, reader) == pc' = next /\ S' = reader /\ UNCHANGED <<bytes, error>>
-----------------------------------------------------------------------------
(* Segments.                                                               *)

MaxNrOfSegs(k) == IF k = "F" THEN MAXNROF_FSEGS ELSE MAXNROF_PSEGS
MinSegLen(k) == IF k = "F" THEN MIN_FSEG_LEN ELSE MIN_PSEG_LEN
Room(k) == MaxFrameLen - MinSegLen(k) \div 8

Segmenting(k, ch, same, resolution) ==
    [ch |-> ch, same |-> same, resolution |-> resolution, lens |-> <<>>, DefinedBits |-> 0, MaxSegSize |-> Room(k)]

\* UnpackDSTframe, and the first bit of ReadSegmentData.
ReadHeaderByte ==
    LET coded == Unsigned(bytes, S, 1)
        stuffing == Unsigned(bytes, coded.r, 7)
        same == Unsigned(bytes, coded.r, 1) IN
    /\ pc = "header"
    /\ IF coded.eof THEN Fail("NegativeBitAllocation")
       ELSE IF coded.x = 0
       THEN IF stuffing.x % 64 # 0 THEN Fail("InvalidStuffingPattern")
            ELSE Go("dsd", stuffing.r) /\ UNCHANGED <<FH, at>>
       ELSE /\ FH' = [FH EXCEPT !.DSTCoded = 1, !.PSameSegAsF = same.x]
            /\ Go("segments F", same.r) /\ UNCHANGED at

\* ReadDSDframe does not look at what the reader returns.
ReadDSDframe ==
    LET size == MaxFrameLen * NrOfChannels IN
    /\ pc = "dsd"
    /\ IF Len(bytes) < S.ByteCounter + size THEN Undefined
       ELSE /\ FH' = [FH EXCEPT !.data = SubSeq(bytes, S.ByteCounter + 1, S.ByteCounter + size)]
            /\ Go("plain", S) /\ UNCHANGED at

\* ReadTableSegmentData, before its loops.
ReadSameSegAllCh(k) ==
    LET same == Unsigned(bytes, S, 1) IN
    /\ pc = AtSegments(k)
    /\ IF same.eof THEN Fail("NegativeBitAllocation")
       ELSE at' = Segmenting(k, 0, same.x = 1, 0) /\ Go(AtSegment(k), same.r) /\ UNCHANGED FH

\* Where the channels share their segments the number is looked at after the bit
\* that says whether there is one more, else before it.
TooManySegments(k) ==
    LET end == Unsigned(bytes, S, 1) IN
    /\ pc = AtSegment(k) /\ Len(at.lens) >= MaxNrOfSegs(k)
    /\ at.same => ~end.eof /\ end.x = 0
    /\ Fail("TooManySegments")

AfterSegments(k) == IF k = "P" THEN "mapping" ELSE IF FH.PSameSegAsF = 1 THEN "copy segments" ELSE "segments P"

\* The last segment is what is left of the channel: its length is not in the stream.
\* Where the channels share their segments it may be one more than the most.
EndOfSegments(k) ==
    LET end == Unsigned(bytes, S, 1)
        lens == Append(at.lens, 0)
        last == at.same \/ at.ch = NrOfChannels - 1 IN
    /\ pc = AtSegment(k) /\ (at.same \/ Len(at.lens) < MaxNrOfSegs(k))
    /\ ~end.eof /\ end.x = 1
    /\ IF Len(at.lens) >= MAXNROF_SEGS THEN Overrun
       ELSE /\ FH' = [FH EXCEPT ![k].SegmentLen = [c \in Channels |-> IF c = at.ch \/ at.same THEN lens ELSE @[c]],
                                ![k].Resolution = IF at.resolution = 0 THEN 1 ELSE at.resolution]
            /\ at' = IF last THEN <<>> ELSE Segmenting(k, at.ch + 1, FALSE, at.resolution)
            /\ Go(IF last THEN AfterSegments(k) ELSE pc, end.r)

\* One segment; the first of all brings the resolution.
NextSegment(k) ==
    LET end == Unsigned(bytes, S, 1)
        resol == IF at.resolution # 0 THEN [end EXCEPT !.x = at.resolution]
                 ELSE Unsigned(bytes, end.r, Log2RoundUp(Room(k)))
        size == Unsigned(bytes, resol.r, Log2RoundUp(at.MaxSegSize \div resol.x))
        bits == resol.x * 8 * size.x IN
    /\ pc = AtSegment(k) /\ (Len(at.lens) < MaxNrOfSegs(k) \/ (at.same /\ end.eof))
    /\ ~end.eof => end.x = 0
    /\ IF end.eof \/ resol.eof THEN Fail("NegativeBitAllocation")
       ELSE IF resol.x \notin 1..Room(k) THEN Fail("InvalidSegmentResolution")
       ELSE IF size.eof THEN Fail("NegativeBitAllocation")
       ELSE IF bits < MinSegLen(k) \/ bits > NrOfBitsPerCh - at.DefinedBits - MinSegLen(k)
       THEN Fail("InvalidSegmentLength")
       ELSE /\ at' = [at EXCEPT !.resolution = resol.x, !.lens = Append(@, size.x),
                                !.DefinedBits = @ + bits, !.MaxSegSize = @ - bits \div 8]
            /\ Go(pc, size.r) /\ UNCHANGED FH

\* CopySegmentData: what is right for filters may be wrong for probability tables.
CopySegmentData ==
    LET all == UNION {{FH.F.SegmentLen[c][i] : i \in 1..Segments(c, "F")} : c \in Channels} IN
    /\ pc = "copy segments"
    /\ IF \E c \in Channels : Segments(c, "F") > MAXNROF_PSEGS THEN Fail("TooManySegments")
       ELSE IF \E n \in all \ {0} : FH.F.Resolution * 8 * n < MIN_PSEG_LEN THEN Fail("InvalidSegmentLength")
       ELSE /\ FH' = [FH EXCEPT !.P.SegmentLen = FH.F.SegmentLen, !.P.Resolution = FH.F.Resolution]
            /\ Go("mapping", S) /\ UNCHANGED at
-----------------------------------------------------------------------------
(* Which segment uses which table: numbers in the order of their first use.*)

ReadSameMapAsF ==
    LET same == Unsigned(bytes, S, 1) IN
    /\ pc = "mapping"
    /\ IF same.eof THEN Fail("NegativeBitAllocation")
       ELSE FH' = [FH EXCEPT !.PSameMapAsF = same.x] /\ Go("tables F", same.r) /\ UNCHANGED at

\* ReadTableMappingData, before its loops: the first segment uses table 0.
ReadSameMapAllCh(k) ==
    LET same == Unsigned(bytes, S, 1) IN
    /\ pc = AtTables(k)
    /\ IF same.eof THEN Fail("NegativeBitAllocation")
       ELSE /\ at' = [ch |-> 0, same |-> same.x = 1, tables |-> <<0>>, CountTables |-> 1]
            /\ Go(AtTable(k), same.r) /\ UNCHANGED FH

\* Mutant of ReadTableNumber: a number beyond the next new one passes.
ReadTableNumberUnchecked(k) ==
    LET number == Unsigned(bytes, S, Log2RoundUp(at.CountTables)) IN
    /\ pc = AtTable(k) /\ Len(at.tables) < Segments(at.ch, k)
    /\ IF number.eof THEN Fail("NegativeBitAllocation")
       ELSE /\ at' = [at EXCEPT !.tables = Append(@, number.x),
                                !.CountTables = IF number.x = @ THEN @ + 1 ELSE @]
            /\ Go(pc, number.r) /\ UNCHANGED FH

ReadTableNumber(k) ==
    LET number == Unsigned(bytes, S, Log2RoundUp(at.CountTables)) IN
    /\ pc = AtTable(k) /\ Len(at.tables) < Segments(at.ch, k)
    /\ IF number.eof THEN Fail("NegativeBitAllocation")
       ELSE IF number.x > at.CountTables THEN Fail("InvalidTableNumber")
       ELSE /\ at' = [at EXCEPT !.tables = Append(@, number.x),
                                !.CountTables = IF number.x = @ THEN @ + 1 ELSE @]
            /\ Go(pc, number.r) /\ UNCHANGED FH

AfterTables(k) == IF k = "P" THEN "half" ELSE IF FH.PSameMapAsF = 1 THEN "copy tables" ELSE "tables P"

EndOfTables(k) ==
    LET last == at.same \/ at.ch = NrOfChannels - 1 IN
    /\ pc = AtTable(k) /\ Len(at.tables) >= Segments(at.ch, k)
    /\ IF at.same /\ \E c \in Channels : Segments(c, k) # Segments(0, k) THEN Fail("InvalidChannelMapping")
       ELSE IF last /\ at.CountTables > MaxNrOfTables THEN Fail("TooManyTables")
       ELSE /\ FH' = [FH EXCEPT ![k].NrOfTables = at.CountTables,
                                ![k].Table4Segment = [c \in Channels |-> IF c = at.ch \/ at.same THEN at.tables ELSE @[c]]]
            /\ at' = IF last THEN <<>> ELSE [at EXCEPT !.ch = @ + 1, !.tables = <<>>]
            /\ Go(IF last THEN AfterTables(k) ELSE pc, S)

CopyMappingData ==
    /\ pc = "copy tables"
    /\ IF \E c \in Channels : Segments(c, "P") # Segments(c, "F") THEN Fail("SegmentNumberMismatch")
       ELSE /\ FH' = [FH EXCEPT !.P.Table4Segment = FH.F.Table4Segment, !.P.NrOfTables = FH.F.NrOfTables]
            /\ Go("half", S) /\ UNCHANGED at

\* The end of ReadMappingData: a bit for each channel.
ReadHalfProb ==
    LET half == Unsigned(bytes, S, NrOfChannels) IN
    /\ pc = "half"
    /\ IF half.eof THEN Fail("NegativeBitAllocation")
       ELSE /\ FH' = [FH EXCEPT !.HalfProb = [c \in Channels |-> (half.x \div Pow2[NrOfChannels - 1 - c]) % 2]]
            /\ at' = <<>> /\ Go("filters", half.r)
-----------------------------------------------------------------------------
(* The filters and the probability tables: entries as they are, or the     *)
(* first ones as they are and the others as the difference to a prediction.*)

\* RiceDecode: zeros up to a one, m bits, and a sign unless the number is 0.
RiceDecode(reader, m) ==
    LET start == get_in_bitcount(reader)
        ends == {k \in 0..Len(bytes) * 8 - start - 1 : BitAt(bytes, start + k) = 1}
        RunLength == CHOOSE k \in ends : \A j \in ends : k <= j
        LSBs == Unsigned(bytes, ReaderAt(bytes, start + RunLength + 1), m)
        Nr == RunLength * Pow2[m] + LSBs.x
        Sign == IF Nr = 0 THEN [LSBs EXCEPT !.x = 0] ELSE Unsigned(bytes, LSBs.r, 1)
    IN IF ends = {} THEN [eof |-> TRUE] ELSE [x |-> IF Sign.x = 1 THEN -Nr ELSE Nr, r |-> Sign.r, eof |-> Sign.eof]

\* What tells filters and probability tables apart.
Coding(k) ==
    IF k = "F"
    THEN [done |-> FH.filters, lengthBits |-> SIZE_CODEDPREDORDER, methods |-> FilterMethods,
          least |-> -Pow2[SIZE_PREDCOEF - 1], most |-> Pow2[SIZE_PREDCOEF - 1] - 1,
          badCoding |-> "InvalidCoefficientCoding", badRange |-> "InvalidCoefficientRange", next |-> "ptables"]
    ELSE [done |-> FH.ptables, lengthBits |-> AC_HISBITS, methods |-> PtableMethods,
          least |-> 1, most |-> Pow2[AC_BITS - 1],
          badCoding |-> "InvalidPtableCoding", badRange |-> "InvalidPtableRange", next |-> "data"]
PlainEntry(k, reader) ==
    IF k = "F" THEN Signed(bytes, reader, SIZE_PREDCOEF)
    ELSE LET got == Unsigned(bytes, reader, AC_BITS - 1) IN [got EXCEPT !.x = @ + 1]

TableOf(k) == IF k = "F" THEN "filters" ELSE "ptables"
Finish(k, entries, reader) ==
    /\ FH' = IF k = "F" THEN [FH EXCEPT !.filters = Append(@, entries)] ELSE [FH EXCEPT !.ptables = Append(@, entries)]
    /\ at' = <<>> /\ Go(TableOf(k), reader)

\* The beginning of a table; a probability table of one entry holds one half.
ReadTableHead(k) ==
    LET length == Unsigned(bytes, S, Coding(k).lengthBits)
        coded == Unsigned(bytes, length.r, 1)
        method == Unsigned(bytes, coded.r, SIZE_RICEMETHOD)
        len == length.x + 1
        plain(n, m) == [len |-> len, plain |-> n, method |-> m, m |-> -1, entries |-> <<>>] IN
    /\ pc = TableOf(k) /\ Len(Coding(k).done) < FH[k].NrOfTables
    /\ IF length.eof THEN Fail("NegativeBitAllocation")
       ELSE IF k = "P" /\ len = 1 THEN Finish(k, <<Pow2[AC_BITS - 1]>>, length.r)
       ELSE IF coded.eof THEN Fail("NegativeBitAllocation")
       ELSE IF coded.x = 0
       THEN at' = plain(len, 0) /\ Go(AtEntries(k), coded.r) /\ UNCHANGED FH
       ELSE IF method.eof THEN Fail("NegativeBitAllocation")
       ELSE IF method.x >= Len(Coding(k).methods) THEN Undefined
       ELSE IF Len(Coding(k).methods[method.x + 1]) >= len THEN Fail(Coding(k).badCoding)
       ELSE /\ at' = plain(Len(Coding(k).methods[method.x + 1]), method.x + 1)
            /\ Go(AtEntries(k), method.r) /\ UNCHANGED FH

ReadPlainEntry(k) ==
    LET entry == PlainEntry(k, S) IN
    /\ pc = AtEntries(k) /\ Len(at.entries) < at.plain
    /\ IF entry.eof THEN Fail("NegativeBitAllocation")
       ELSE at' = [at EXCEPT !.entries = Append(@, entry.x)] /\ Go(pc, entry.r) /\ UNCHANGED FH

\* Between the plain and the predicted entries: the parameter of their code.
ReadRiceM(k) ==
    LET m == Unsigned(bytes, S, SIZE_RICEM) IN
    /\ pc = AtEntries(k) /\ Len(at.entries) = at.plain /\ at.plain < at.len /\ at.m = -1
    /\ IF m.eof THEN Fail("NegativeBitAllocation")
       ELSE at' = [at EXCEPT !.m = m.x] /\ Go(pc, m.r) /\ UNCHANGED FH

\* The sum over the entries before, in eighths, rounded.
Predicted(methods, entries) ==
    LET x[tap \in 0..Len(methods)] ==
            IF tap = 0 THEN 0 ELSE x[tap - 1] + methods[tap] * entries[Len(entries) - tap + 1]
        sum == x[Len(methods)]
    IN IF sum >= 0 THEN -((sum + 4) \div 8) ELSE (3 - sum) \div 8

ReadPredictedEntry(k) ==
    LET code == RiceDecode(S, at.m)
        c == code.x + Predicted(Coding(k).methods[at.method], at.entries) IN
    /\ pc = AtEntries(k) /\ at.m # -1 /\ Len(at.entries) < at.len
    /\ IF code.eof THEN Undefined
       ELSE IF c < Coding(k).least \/ c > Coding(k).most THEN Fail(Coding(k).badRange)
       ELSE at' = [at EXCEPT !.entries = Append(@, c)] /\ Go(pc, code.r) /\ UNCHANGED FH

EndOfTable(k) == /\ pc = AtEntries(k) /\ Len(at.entries) = at.len
                 /\ Finish(k, at.entries, S)

EndOfAllTables(k) == /\ pc = TableOf(k) /\ Len(Coding(k).done) = FH[k].NrOfTables
                     /\ Go(Coding(k).next, S) /\ UNCHANGED <<FH, at>>

ReadFilterCoefSets == \/ ReadTableHead("F") \/ ReadPlainEntry("F") \/ ReadRiceM("F")
                      \/ ReadPredictedEntry("F") \/ EndOfTable("F") \/ EndOfAllTables("F")
ReadProbabilityTables == \/ ReadTableHead("P") \/ ReadPlainEntry("P") \/ ReadRiceM("P")
                         \/ ReadPredictedEntry("P") \/ EndOfTable("P") \/ EndOfAllTables("P")

\* What is left is the arithmetic code, whose first bit is 0.
ReadArithmeticCodedData ==
    LET start == get_in_bitcount(S)
        AData == [i \in 1..Len(bytes) * 8 - start |-> BitAt(bytes, start + i - 1)] IN
    /\ pc = "data"
    /\ IF AData # <<>> /\ AData[1] # 0 THEN Fail("InvalidArithmeticCode")
       ELSE /\ FH' = [FH EXCEPT !.data = AData]
            /\ Go("decode", ReaderAt(bytes, Len(bytes) * 8)) /\ UNCHANGED at

ReadTableSegmentData(k) == ReadSameSegAllCh(k) \/ TooManySegments(k) \/ EndOfSegments(k) \/ NextSegment(k)
ReadTableMappingData(k) == ReadSameMapAllCh(k) \/ ReadTableNumber(k) \/ EndOfTables(k)

UnpackInit == /\ S = StartOfFrame /\ pc = "header" /\ FH = NoHeader
              /\ at = <<>> /\ error = "NoError"

UnpackDSTframe ==
    \/ ReadHeaderByte \/ ReadDSDframe
    \/ ReadTableSegmentData("F") \/ ReadTableSegmentData("P") \/ CopySegmentData
    \/ ReadSameMapAsF \/ ReadTableMappingData("F") \/ ReadTableMappingData("P") \/ CopyMappingData \/ ReadHalfProb
    \/ ReadFilterCoefSets \/ ReadProbabilityTables \/ ReadArithmeticCodedData
==============================================================================
