----------------------------- MODULE DstReference -----------------------------
(***************************************************************************)
(* What a DST frame is, from the side of the encoder, and what the decoder *)
(* must make of it.  Nothing here is in the code, which only decodes: it is*)
(* the definition that DstFrame is checked against.                        *)
(*                                                                         *)
(* A frame has the bits of its channels (dsd) and an encoder's choices: of *)
(* the filters (F) and the probability tables (P) the segments, in units of*)
(* a resolution, without the last, and the table of each segment; which of *)
(* these are shared; the tables; and half, the channels that begin without *)
(* prediction.  damage is what happened to the frame on its way.           *)
(***************************************************************************)
EXTENDS DstFrame

CONSTANT Frames

VARIABLE frame

vars == <<frame, frameVars>>

Ch(c) == c + 1
BitsOf(x, n) == [i \in 1..n |-> (x \div 2^(n - i)) % 2]
TwosComplement(x, n) == BitsOf((x + 2^n) % 2^n, n)
Width(x) == CHOOSE y \in 0..x : x < 2^y /\ \A z \in 0..y - 1 : x >= 2^z
Zeros(n) == [i \in 1..n |-> 0]
Concat(seqs) == LET c[i \in 0..Len(seqs)] == IF i = 0 THEN <<>> ELSE c[i - 1] \o seqs[i] IN c[Len(seqs)]
OnChannels(op(_)) == Concat([i \in 1..NrOfChannels |-> op(i - 1)])

\* The segments of a channel, the resolution before the first of all.
Cuts(k, seg, c, first) ==
    LET before[i \in 0..Len(seg.lens[Ch(c)])] ==
            IF i = 0 THEN Room(k) ELSE before[i - 1] - seg.resolution * seg.lens[Ch(c)][i]
        cut(i) == <<0>> \o (IF i = 1 /\ first THEN BitsOf(seg.resolution, Width(Room(k))) ELSE <<>>)
                  \o BitsOf(seg.lens[Ch(c)][i], Width(before[i - 1] \div seg.resolution))
    IN Concat([i \in 1..Len(seg.lens[Ch(c)]) |-> cut(i)]) \o <<1>>
SegmentBits(k, seg) ==
    IF seg.same THEN <<1>> \o Cuts(k, seg, 0, TRUE)
    ELSE LET OneChannel(c) == Cuts(k, seg, c, \A b \in 0..c - 1 : seg.lens[Ch(b)] = <<>>)
         IN <<0>> \o OnChannels(OneChannel)

\* Table numbers, each with the bits that the numbers before it leave open.
NumberBits(numbers) ==
    LET seen(i) == Cardinality({numbers[j] : j \in 1..i - 1})
    IN Concat([i \in 1..Len(numbers) |-> IF i = 1 THEN <<>> ELSE BitsOf(numbers[i], Width(seen(i)))])
TableBits(seg) == LET Of(c) == seg.tables[Ch(c)]
                  IN IF seg.sameMap THEN <<1>> \o NumberBits(Of(0)) ELSE <<0>> \o NumberBits(OnChannels(Of))

\* A table's entries, plainly or as differences, coded with parameter m.
Rice(x, m) == LET a == IF x < 0 THEN -x ELSE x
              IN Zeros(a \div 2^m) \o <<1>> \o BitsOf(a % 2^m, m)
                 \o (IF x = 0 THEN <<>> ELSE <<IF x < 0 THEN 1 ELSE 0>>)
EntryBits(k, table) ==
    LET plain(x) == IF k = "F" THEN TwosComplement(x, SIZE_PREDCOEF) ELSE BitsOf(x - 1, AC_BITS - 1)
        methods == IF k = "F" THEN FilterMethods ELSE PtableMethods
        order == IF table.method = 0 THEN Len(table.entries) ELSE Len(methods[table.method])
        Sum(i) == LET s[t \in 0..order] ==
                        IF t = 0 THEN 0 ELSE s[t - 1] + methods[table.method][t] * table.entries[i - t]
                  IN s[order]
        difference(i) == table.entries[i] + ((Sum(i) + 4) \div 8)
    IN BitsOf(Len(table.entries) - 1, IF k = "F" THEN SIZE_CODEDPREDORDER ELSE AC_HISBITS)
       \o IF k = "P" /\ Len(table.entries) = 1 THEN <<>>
          ELSE (IF table.method = 0 THEN <<0>> ELSE <<1>> \o BitsOf(table.method - 1, SIZE_RICEMETHOD))
               \o Concat([i \in 1..order |-> plain(table.entries[i])])
               \o IF table.method = 0 THEN <<>>
                  ELSE BitsOf(table.m, SIZE_RICEM)
                       \o Concat([i \in 1..Len(table.entries) - order |-> Rice(difference(i + order), table.m)])

\* The bit before bit n by j + 1, also where the channel has none yet.
Past(dsd, n, j) == IF j < n THEN dsd[n - j] ELSE (j - n) % 2
TableAt(seg, c, n) ==
    LET end[i \in 0..Len(seg.lens[Ch(c)])] ==
            IF i = 0 THEN 0 ELSE end[i - 1] + 8 * seg.resolution * seg.lens[Ch(c)][i]
    IN seg.tables[Ch(c)][1 + Cardinality({i \in 1..Len(seg.lens[Ch(c)]) : end[i] <= n})] + 1
Filtered(f, c, n) ==
    LET coefs == f.filters[TableAt(f.F, c, n)].entries
        s[j \in 0..Len(coefs)] == IF j = 0 THEN 0
                                  ELSE s[j - 1] + coefs[j] * (IF Past(f.dsd[Ch(c)], n, j - 1) = 1 THEN 1 ELSE -1)
    IN s[Len(coefs)]

\* What is coded: whether the prediction is wrong, and the probability of that.
Residuals(f) ==
    LET At(t) ==
          LET n == t \div NrOfChannels
              c == t % NrOfChannels
              x == Filtered(f, c, n)
              sure == (IF x < 0 THEN -x ELSE x) \div 2^AC_QSTEP
              table == f.ptables[TableAt(f.P, c, n)].entries
              start == f.half[Ch(c)] = 1 /\ n < Len(f.filters[f.F.tables[Ch(c)][1] + 1].entries)
          IN [bit |-> (f.dsd[Ch(c)][n + 1] + (IF x < 0 THEN 1 ELSE 0)) % 2,
              p |-> IF start THEN 2^(AC_BITS - 1) ELSE table[1 + Smaller(sure, Len(table) - 1)]]
    IN [t \in 1..NrOfBitsPerCh * NrOfChannels |-> At(t - 1)]

\* The arithmetic code: the low end of the interval, as bits, and its width.
Plus(s, x) ==
    LET n == Len(s)
        carry[i \in 0..n] == IF i = 0 THEN x ELSE (carry[i - 1] + s[n - i + 1]) \div 2
    IN [j \in 1..n |-> (carry[n - j] + s[j]) % 2]
CodeBits(residuals) ==
    LET code[t \in 0..Len(residuals)] ==
          IF t = 0 THEN [low |-> Zeros(ABITS + 1), A |-> ONE - 1]
          ELSE LET before == code[t - 1]
                   q == before.A \div 2^PBITS
                   r == (before.A \div 2^(PBITS - 1)) % 2
                   zero == (q + (IF q % 2 = 0 THEN r ELSE 0)) * residuals[t].p
                   part == IF residuals[t].bit = 0 THEN [low |-> Plus(before.low, before.A - zero), A |-> zero]
                           ELSE [low |-> before.low, A |-> before.A - zero]
                   shift == CHOOSE n \in 0..ABITS : part.A * 2^n >= HALF /\ \A k \in 0..n - 1 : part.A * 2^k < HALF
               IN [low |-> part.low \o Zeros(shift), A |-> part.A * 2^shift]
    IN code[Len(residuals)].low

Bytes(bits) == LET padded == bits \o Zeros((8 - (Len(bits) % 8)) % 8)
                   Byte(i) == LET v[k \in 0..8] == IF k = 0 THEN 0 ELSE 2 * v[k - 1] + padded[8 * (i - 1) + k] IN v[8]
               IN [i \in 1..Len(padded) \div 8 |-> Byte(i)]

\* The channels' bytes take turns.
Interleaved(f) ==
    LET Turn(i) == LET c == (i - 1) % NrOfChannels
                       n == (i - 1) \div NrOfChannels
                   IN SubSeq(f.dsd[Ch(c)], 8 * n + 1, 8 * n + 8)
    IN Bytes(Concat([i \in 1..Size |-> Turn(i)]))

Encoded(f) ==
    IF ~f.coded THEN <<0>> \o Interleaved(f)
    ELSE Bytes(<<1, IF f.sameSeg THEN 1 ELSE 0>>
               \o SegmentBits("F", f.F) \o (IF f.sameSeg THEN <<>> ELSE SegmentBits("P", f.P))
               \o <<IF f.sameTables THEN 1 ELSE 0>>
               \o TableBits(f.F) \o (IF f.sameTables THEN <<>> ELSE TableBits(f.P))
               \o f.half
               \o Concat([i \in 1..Len(f.filters) |-> EntryBits("F", f.filters[i])])
               \o Concat([i \in 1..Len(f.ptables) |-> EntryBits("P", f.ptables[i])])
               \o CodeBits(<<[bit |-> 0, p |-> ReverseLSBs(f.filters[1].entries[1])]>> \o Residuals(f)))

\* What may happen to a frame: it is cut short, or one of its bits turns.
Damaged(encoded, damage) ==
    CASE damage.kind = "none" -> encoded
      [] damage.kind = "cut" -> SubSeq(encoded, 1, Smaller(damage.at, Len(encoded)))
      [] damage.kind = "bit" ->
           LET i == Smaller(damage.at \div 8 + 1, Len(encoded))
               b == 2^(7 - (damage.at % 8))
           IN [encoded EXCEPT ![i] = IF (@ \div b) % 2 = 1 THEN @ - b ELSE @ + b]

\* Whatever happens to a frame, bytes arrive.
ASSUME FramesAssumption == \A f \in Frames : Damaged(Encoded(f), f.damage) \in Seq(0..255)

Start == /\ frame \in Frames
         /\ bytes = Damaged(Encoded(frame), frame.damage)
         /\ Init
Spec == Start /\ [][Next /\ UNCHANGED frame]_vars
-----------------------------------------------------------------------------
(* Properties.                                                             *)

DstTypeOK == /\ pc \in {"done", "undefined", "overrun"} \/ error = "NoError" \/ pc = "failed"
             /\ BitNr \in 0..NrOfBitsPerCh /\ ChNr \in Channels
             /\ Len(Muxed) = Size /\ \A i \in 1..Size : Muxed[i] \in 0..255

\* A frame that arrives as it was sent is decoded to the bits that went into it.
DecodesTheFrame ==
    frame.damage.kind = "none" =>
      /\ pc \notin {"failed", "undefined", "overrun"}
      /\ pc = "done" => error = "NoError" /\ Muxed = Interleaved(frame)

\* Of a frame that does not, what is accepted can be decoded: the segments fit the
\* rows they are kept in and cover the channel, each is long enough, every table
\* that a segment names is there, the entries are as many as there is room for and
\* in their range, and the arithmetic decoder keeps its register between one half
\* and one; a frame that is refused is silent.  The rows are overrun only where all
\* channels share as many coded segments as a row is long.
AcceptedIsDecodable ==
    /\ pc \in {"decode", "bits"} =>
         \A k \in {"F", "P"}, c \in Channels :
           LET lens == FH[k].SegmentLen[c]
               bits[i \in 0..Len(lens) - 1] == IF i = 0 THEN 0 ELSE bits[i - 1] + FH[k].Resolution * 8 * lens[i] IN
           /\ Len(lens) \in 1..MAXNROF_SEGS
           /\ bits[Len(lens) - 1] <= NrOfBitsPerCh - (IF Len(lens) > 1 THEN MinSegLen(k) ELSE 0)
           /\ \A i \in 1..Len(lens) - 1 : FH[k].Resolution * 8 * lens[i] >= MinSegLen(k)
           /\ Len(FH[k].Table4Segment[c]) = Len(lens)
           /\ \A i \in 1..Len(lens) : FH[k].Table4Segment[c][i] < FH[k].NrOfTables
           /\ FH[k].NrOfTables = Len(Coding(k).done) /\ FH[k].NrOfTables <= Allocated[k].tables
           /\ \A t \in 1..Len(Coding(k).done) :
                /\ Len(Coding(k).done[t]) \in 1..Allocated[k].entries
                /\ \A i \in 1..Len(Coding(k).done[t]) : Coding(k).done[t][i] \in Coding(k).least..Coding(k).most
    /\ pc = "overrun" => at.same /\ Len(at.lens) = MAXNROF_SEGS /\ MAXNROF_SEGS \in {MAXNROF_FSEGS, MAXNROF_PSEGS}
    /\ pc = "bits" => AC.A \in HALF..ONE - 1
    /\ pc = "done" /\ error # "NoError" => Muxed = Silence

==============================================================================
