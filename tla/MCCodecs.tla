------------------------------- MODULE MCCodecs -------------------------------
(***************************************************************************)
(* The data formats that the library decodes and the data structures that  *)
(* it keeps its data in: a DST frame, a message of the network protocol,   *)
(* the lists and the chains.  They are checked one at a time: part says    *)
(* which of them runs, and the others stand still.                         *)
(***************************************************************************)
EXTENDS DstReference, KernelLists

VARIABLES part,
          msgPc, sample, wire, whole, got         \* PbMessages

messageVars == <<msgPc, sample, wire, whole, got>>
listVars == <<mem, walk>>
codecsVars == <<part, vars, messageVars, listVars, chain>>
-----------------------------------------------------------------------------
(* DST frames of two channels and three bytes for each: plain ones, and    *)
(* coded ones with one segment for all and with segments and tables of     *)
(* their own for filters, probabilities and channels, whose tables are     *)
(* plain and predicted, also with the method that predicts from more       *)
(* entries than are coded.  One of them meets every error of one bit and   *)
(* every early end.                                                        *)

First == <<0, 1, 1, 0, 1, 0, 0, 1>> \o <<1, 1, 1, 0, 0, 0, 1, 0>> \o <<1, 0, 1, 0, 1, 1, 0, 0>>
Second == <<1, 1, 1, 1, 1, 1, 0, 1>> \o <<0, 0, 0, 0, 0, 0, 0, 0>> \o <<1, 0, 1, 0, 1, 1, 0, 0>>

Segs(same, resolution, lens, sameMap, tables) ==
    [same |-> same, resolution |-> resolution, lens |-> lens, sameMap |-> sameMap, tables |-> tables]
OneSegment == Segs(TRUE, 1, <<<<>>, <<>>>>, TRUE, <<<<0>>, <<0>>>>)
TwoSegments == Segs(TRUE, 1, <<<<1>>, <<1>>>>, TRUE, <<<<0, 1>>, <<0, 1>>>>)
SegmentsApart == Segs(FALSE, 1, <<<<1, 1>>, <<2>>>>, FALSE, <<<<0, 1, 0>>, <<1, 2>>>>)
SegmentsTogether == Segs(TRUE, 1, <<<<1, 1>>, <<1, 1>>>>, TRUE, <<<<0, 1, 0>>, <<0, 1, 0>>>>)
CoarseSegments == Segs(FALSE, 2, <<<<>>, <<1>>>>, FALSE, <<<<0>>, <<0, 1>>>>)

ATable(entries, method, m) == [entries |-> entries, method |-> method, m |-> m]
FilterTables == {ATable(<<-3, 5>>, 0, 0), ATable(<<-3, 2, 1>>, 1, 1), ATable(<<5, -7, 4, -2>>, 2, 2), ATable(<<15>>, 0, 0)}
PTables == {ATable(<<8>>, 0, 0), ATable(<<4, 3, 2>>, 0, 0), ATable(<<8, 6, 5, 3>>, 1, 1)}
SomeTables(n, tables) == {[i \in 1..n |-> IF i = 2 THEN b ELSE a] : a \in tables, b \in tables}

Intact == [kind |-> "none"]
Plainly(damage) == [coded |-> FALSE, dsd |-> <<First, Second>>, damage |-> damage]
Coded(dsd, F, P, same, half, filters, ptables, damage) ==
    [coded |-> TRUE, dsd |-> dsd, F |-> F, P |-> P, sameSeg |-> same, sameTables |-> same, half |-> half,
     filters |-> filters, ptables |-> ptables, damage |-> damage]

Simple == {Coded(<<First, Second>>, OneSegment, OneSegment, TRUE, <<0, 1>>, f, p, Intact) :
              f \in SomeTables(1, FilterTables), p \in SomeTables(1, PTables)}
Mixed == {Coded(<<Second, First>>, TwoSegments, SegmentsApart, FALSE, <<1, 0>>, f, p, Intact) :
              f \in SomeTables(2, FilterTables), p \in SomeTables(3, PTables)}
         \cup {Coded(<<Second, First>>, SegmentsApart, CoarseSegments, FALSE, <<1, 0>>, f, p, Intact) :
                  f \in SomeTables(3, FilterTables), p \in SomeTables(2, PTables)}
\* Probability tables with as many coded segments, shared, as a row of two has places.
Crowded == {Coded(<<First, Second>>, OneSegment, SegmentsTogether, FALSE, <<0, 1>>, f, p, Intact) :
               f \in SomeTables(1, FilterTables), p \in SomeTables(2, PTables)}
Damages == [kind : {"bit"}, at : 0..119] \cup [kind : {"cut"}, at : 0..14]
Victims == {Coded(<<Second, First>>, SegmentsApart, CoarseSegments, FALSE, <<1, 0>>,
                  <<ATable(<<-3, 2, 1>>, 1, 1), ATable(<<15>>, 0, 0), ATable(<<5, -7, 4, -2>>, 2, 2)>>,
                  <<ATable(<<4, 3, 2>>, 0, 0), ATable(<<8, 6, 5, 3>>, 1, 1)>>, damage) : damage \in Damages}
MCFrames == Simple \cup Mixed \cup Crowded \cup Victims \cup {Plainly(Intact)}
            \cup {Plainly(damage) : damage \in [kind : {"bit", "cut"}, at : {0, 3, 4}]}
-----------------------------------------------------------------------------
(* PbMessages: the two messages of the protocol, and one with the other    *)
(* types; long has 16 bits and int 14, so that a value takes three bytes.  *)

Codec == INSTANCE PbCodec WITH LongBits <- 16, IntBits <- 14, SizeMax <- 100000

Resp == Codec!ServerResponse_fields(3)
Req == Codec!ServerRequest_fields
AField(tag, htype, ltype, size, array, sub) == Codec!Field(tag, htype, ltype, size, array, IF htype = "required" THEN 0 ELSE "unset", sub)
Inner == <<AField(1, "required", "svarint", 8, 0, <<>>), AField(2, "optional", "string", 3, 0, <<>>)>>
AllTypes == <<AField(1, "array", "varint", 14, 2, <<>>), AField(2, "array", "string", 3, 2, <<>>),
              AField(3, "optional", "submessage", 0, 0, Inner), AField(4, "optional", "fixed32", 4, 0, <<>>),
              AField(16, "required", "svarint", 16, 0, <<>>), AField(17, "optional", "fixed64", 8, 0, <<>>),
              AField(5, "callback", "varint", 0, 0, <<>>)>>

Sample(fields, msg) == [writer |-> fields, reader |-> fields, msg |-> msg]
Fixed == <<1, 0, 255, 128>>
MCSamples ==
    {Sample(Resp, <<3, result, data>>) : result \in {0, 128, 65535}, data \in {<<>>, <<<<>>>>, <<<<7, 0, 9>>>>, <<<<1, 2, 3, 4>>>>}}
    \cup {Sample(Req, <<300, 16383, count>>) : count \in {1, 128}}
    \cup {Sample(AllTypes, [tag \in {1, 2, 3, 4, 5, 16, 17} |->
                  CASE tag = 1 -> numbers [] tag = 2 -> <<<<65>>, text>> [] tag = 3 -> sub [] tag = 4 -> <<Fixed>>
                    [] tag = 5 -> "unset" [] tag = 16 -> signed [] tag = 17 -> <<Fixed \o Fixed>>]) :
             numbers \in {<<>>, <<200, 3>>, <<1, 2, 3>>}, text \in {<<>>, <<65, 66, 67>>},
             sub \in {<<>>, <<<<255, <<>>>>>>, <<<<1, <<<<65>>>>>>>>}, signed \in {0, 32768, 65535}}

Messages == INSTANCE PbMessages
              WITH LongBits <- 16, IntBits <- 14, SizeMax <- 100000, Samples <- MCSamples,
                   Unknown <- {Codec!pb_encode_tag(0, 9) \o <<200, 1>>}, pc <- msgPc

ASSUME Messages!PbAssumption

\* PbMessages: a message that arrives whole is read as it was written, or refused if
\* there is no room for it or a bytes or string field is there and empty, and what is
\* accepted of one that does not arrive whole was in it.
MessagesAreRight ==
    part = "message" => Messages!MessagesTypeOK /\ Messages!ReadAsWritten /\ Messages!AcceptedIsWhatWasSent
-----------------------------------------------------------------------------
CodecsInit == /\ part \in {"dst", "message", "lists", "chains"}
              /\ frame \in (IF part = "dst" THEN MCFrames ELSE {Plainly(Intact)})
              /\ sample \in (IF part = "message" THEN MCSamples ELSE {CHOOSE s \in MCSamples : TRUE})
              /\ Start /\ Messages!Init /\ Lists!Init /\ Chained!Init

CodecsNext == \/ part = "dst" /\ Next /\ UNCHANGED <<part, frame, messageVars, listVars, chain>>
              \/ part = "message" /\ Messages!Next /\ UNCHANGED <<part, vars, listVars, chain>>
              \/ part = "lists" /\ Lists!Next /\ UNCHANGED <<part, vars, messageVars, chain>>
              \/ part = "chains" /\ Chained!Next /\ UNCHANGED <<part, vars, messageVars, listVars>>

CodecsSpec == CodecsInit /\ [][CodecsNext]_codecsVars

\* DstReference: a frame that arrives as it was sent is decoded to its bits.
FramesAreDecoded == DstTypeOK /\ DecodesTheFrame
==============================================================================
