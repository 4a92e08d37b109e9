------------------------------- MODULE PbCodec -------------------------------
(***************************************************************************)
(* The messages of the network input: pb_encode.c and pb_decode.c, with    *)
(* the streams of sacd_pb_stream.c under them.  A message is a function    *)
(* from the tags of its fields to values; an optional field is a sequence  *)
(* of at most one value.  Every reader returns the stream behind what it   *)
(* read, the value, and whether it succeeded.                              *)
(***************************************************************************)
EXTENDS Integers, Sequences, SequencesExt

CONSTANTS LongBits,      \* the bits of a uint64_t
          IntBits,       \* the bits of a uint32_t
          SizeMax        \* what bytes_left of a socket's stream starts with

PbAssumption == {LongBits, IntBits, SizeMax} \subseteq Nat \ {0} /\ IntBits <= LongBits

\* A value nobody assigned, and the field list of a field that has none.
Unset == "unset"
NoFields == <<>>

WireType == [varint |-> 0, svarint |-> 0, fixed64 |-> 1, fixed32 |-> 5, bytes |-> 2, string |-> 2, submessage |-> 2]
Packable == {"varint", "svarint", "fixed32", "fixed64"}

\* An entry of a pb_field_t array.
Field(tag, htype, ltype, size, array, default, sub) ==
    [tag |-> tag, htype |-> htype, ltype |-> ltype, size |-> size, array |-> array, default |-> default, sub |-> sub]

ServerRequest_fields == <<
    Field(1, "required", "varint", IntBits, 0, Unset, NoFields),
    Field(2, "required", "varint", IntBits, 0, 0, NoFields),
    Field(3, "required", "varint", IntBits, 0, 0, NoFields)>>

ServerResponse_fields(MaxData) == <<
    Field(1, "required", "varint", IntBits, 0, Unset, NoFields),
    Field(2, "required", "varint", LongBits, 0, Unset, NoFields),
    Field(3, "optional", "bytes", MaxData, 0, Unset, NoFields)>>
-----------------------------------------------------------------------------
(* pb_encode.c: the bytes that are written.  Among them stand the writes of *)
(* no bytes, which a buffer takes and at which encoding to a socket fails   *)
(* (socket_send takes 0 for a closed connection).                           *)

NoBytes == -1
ToBuffer(written) == SelectSeq(written, LAMBDA b : b # NoBytes)
Refused(written) == NoBytes \in ToSet(written)
ToSocket(written) == SubSeq(written, 1, SelectInSeq(written, LAMBDA b : b = NoBytes) - 1)

pb_encode_varint(value) ==
    LET groups[v \in 0..value] ==
            IF v < 128 THEN <<v>> ELSE <<128 + (v % 128)>> \o groups[v \div 128]
    IN groups[value]

pb_encode_tag(wiretype, number) == pb_encode_varint(wiretype + (number * 8))
pb_encode_tag_for_field(field) == pb_encode_tag(WireType[field.ltype], field.tag)
pb_encode_string(bytes) == pb_encode_varint(Len(bytes)) \o (IF bytes = <<>> THEN <<NoBytes>> ELSE bytes)
\* The size is found by writing to a stream that only counts.
WithSize(written) == pb_encode_varint(Len(ToBuffer(written))) \o written

\* The sign bit becomes the lowest, over a complemented magnitude.
pb_enc_svarint(field, value) ==
    pb_encode_varint(IF value >= 2^(field.size - 1) THEN (2 * (2^field.size - 1 - value)) + 1 ELSE 2 * value)

RECURSIVE pb_encode(_, _)

pb_enc(field, value) ==
    CASE field.ltype = "varint" -> pb_encode_varint(value)
      [] field.ltype = "svarint" -> pb_enc_svarint(field, value)
      [] field.ltype \in {"fixed32", "fixed64"} -> value
      [] field.ltype \in {"bytes", "string"} -> pb_encode_string(value)
      [] field.ltype = "submessage" -> WithSize(pb_encode(field.sub, value))

\* What Op makes of the items, one behind the other.
Each(items, Op(_)) ==
    LET upto[i \in 0..Len(items)] == IF i = 0 THEN <<>> ELSE upto[i - 1] \o Op(items[i]) IN upto[Len(items)]

encode_array(field, values) ==
    IF values = <<>> THEN <<>>
    ELSE IF field.ltype \in Packable
         THEN pb_encode_tag(2, field.tag) \o WithSize(Each(values, LAMBDA v : pb_enc(field, v)))
         ELSE Each(values, LAMBDA v : pb_encode_tag_for_field(field) \o pb_enc(field, v))

encode_field(field, value) ==
    CASE field.htype = "required" -> pb_encode_tag_for_field(field) \o pb_enc(field, value)
      [] field.htype = "optional" -> Each(value, LAMBDA v : pb_encode_tag_for_field(field) \o pb_enc(field, v))
      [] field.htype = "array" -> encode_array(field, value)
      [] field.htype = "callback" -> <<>>

pb_encode(fields, msg) == Each(fields, LAMBDA f : encode_field(f, msg[f.tag]))
-----------------------------------------------------------------------------
(* Streams: wire is what will still arrive on the socket before it ends.   *)

Stream(wire, left) == [wire |-> wire, left |-> left]
Read(ok, s, v) == [ok |-> ok, s |-> s, v |-> v]
Fail(s) == Read(FALSE, s, Unset)
\* Go on with what was read, unless that failed.
Then(r, Op(_)) == IF r.ok THEN Op(r) ELSE r
Behind(s, n) == Stream(SubSeq(s.wire, n + 1, Len(s.wire)), s.left - n)

pb_istream_from_socket(wire) == Stream(wire, SizeMax)

\* read_callback with a buffer: the end of the connection ends the stream, and so
\* does a read of no bytes, whose 0 from recv is taken for the end.
pb_read(s, n) ==
    IF s.left < n THEN Fail(s)
    ELSE IF n = 0 THEN Fail(Stream(s.wire, 0))
    ELSE IF Len(s.wire) < n THEN Fail(Stream(<<>>, 0))
    ELSE Read(TRUE, Behind(s, n), SubSeq(s.wire, 1, n))

\* read_callback without one: count has gone below zero once all is skipped,
\* and is zero when the last byte does not arrive.
pb_skip(s, n) ==
    IF s.left < n THEN Fail(s)
    ELSE IF Len(s.wire) < n
         THEN LET empty == Stream(<<>>, s.left) IN
              IF Len(s.wire) + 1 = n THEN Read(TRUE, Stream(<<>>, s.left - n), Unset) ELSE Fail(empty)
         ELSE Fail(Stream(SubSeq(s.wire, n + 1, Len(s.wire)), s.left))

MaxGroups == (LongBits + 6) \div 7
Bound(S) == CHOOSE n \in S : \A m \in S : n <= m

\* Bytes of seven bits, the lowest first; the ones at the front of the stream.
Groups(bytes) ==
    LET sum[i \in 0..Len(bytes)] ==
            IF i = 0 THEN 0 ELSE sum[i - 1] + (((bytes[i] % 128) * 2^(7 * (i - 1))) % 2^LongBits)
    IN sum[Len(bytes)]

\* Until a byte below 128, the end of the stream or the 64th bit.
pb_decode_varint(s) ==
    LET most == Bound({Len(s.wire), s.left, MaxGroups})
        ends == {i \in 1..most : s.wire[i] < 128}
    IN IF ends # {} THEN Read(TRUE, Behind(s, Bound(ends)), Groups(SubSeq(s.wire, 1, Bound(ends))))
       ELSE IF most = MaxGroups THEN Fail(Behind(s, most))
       ELSE Fail(Stream(SubSeq(s.wire, most + 1, Len(s.wire)), 0))

Truncated(r, bits) == Then(r, LAMBDA a : [a EXCEPT !.v = @ % 2^bits])
pb_decode_varint32(s) == Truncated(pb_decode_varint(s), IntBits)

pb_skip_varint(s) ==
    LET most == Bound({Len(s.wire), s.left})
        ends == {i \in 1..most : s.wire[i] < 128}
    IN IF ends # {} THEN Read(TRUE, Behind(s, Bound(ends)), Unset)
       ELSE Fail(Stream(SubSeq(s.wire, most + 1, Len(s.wire)), 0))

pb_skip_string(s) == Then(pb_decode_varint32(s), LAMBDA size : pb_skip(size.s, size.v))

skip(s, wiretype) ==
    CASE wiretype = 0 -> pb_skip_varint(s)
      [] wiretype = 1 -> pb_skip(s, 8)
      [] wiretype = 2 -> pb_skip_string(s)
      [] wiretype = 5 -> pb_skip(s, 4)
      [] OTHER -> Fail(s)
-----------------------------------------------------------------------------
(* pb_decode.c: a field, and the fields of a message.                      *)

\* The stream behind the bytes that the length in front of them gives, and as
\* the value the stream of these bytes: both read the same socket.
make_string_substream(s) ==
    Then(pb_decode_varint32(s), LAMBDA size :
         IF size.s.left < size.v THEN Fail(size.s)
         ELSE Read(TRUE, Stream(size.s.wire, size.s.left - size.v), Stream(size.s.wire, size.v)))

\* Op reads the substream; outside it again, where its reads left the socket.
InSubstream(s, Op(_)) ==
    Then(make_string_substream(s), LAMBDA sub : [Op(sub.v) EXCEPT !.s.left = sub.s.left])

pb_dec_varint(s, field) == Truncated(pb_decode_varint(s), field.size)
pb_dec_svarint(s, field) ==
    Then(pb_decode_varint(s), LAMBDA r :
         [r EXCEPT !.v = (IF @ % 2 = 1 THEN 2^LongBits - 1 - (@ \div 2) ELSE @ \div 2) % 2^field.size])

\* As many bytes as the length in front of them says, if there is space for them.
read_at_most(s, space) ==
    Then(pb_decode_varint32(s), LAMBDA size : IF size.v > space THEN Fail(size.s) ELSE pb_read(size.s, size.v))

\* Mutant of pb_dec_bytes: the length is not compared with the space there is.
bytes_unchecked(s, field) == Then(pb_decode_varint32(s), LAMBDA size : pb_read(size.s, size.v))

pb_dec_bytes(s, field) == read_at_most(s, field.size)
\* One byte of the space is for the zero behind the text.
pb_dec_string(s, field) == read_at_most(s, field.size - 1)

RECURSIVE pb_decode(_, _)

pb_dec_submessage(s, field) == InSubstream(s, LAMBDA sub : pb_decode(sub, field.sub))

func(s, field) ==
    CASE field.ltype = "varint" -> pb_dec_varint(s, field)
      [] field.ltype = "svarint" -> pb_dec_svarint(s, field)
      [] field.ltype = "fixed32" -> pb_read(s, 4)
      [] field.ltype = "fixed64" -> pb_read(s, 8)
      [] field.ltype = "bytes" -> pb_dec_bytes(s, field)
      [] field.ltype = "string" -> pb_dec_string(s, field)
      [] field.ltype = "submessage" -> pb_dec_submessage(s, field)

\* A packed array: until its bytes are used up or the array is full.
RECURSIVE packed(_, _, _)
packed(s, field, items) ==
    IF s.left = 0 \/ Len(items) >= field.array THEN Read(s.left = 0, s, items)
    ELSE Then(func(s, field), LAMBDA r : packed(r.s, field, Append(items, r.v)))

decode_array(s, wiretype, field, items) ==
    IF wiretype = 2 /\ field.ltype \in Packable
    THEN InSubstream(s, LAMBDA sub : packed(sub, field, items))
    ELSE IF Len(items) >= field.array THEN Fail(s)
    ELSE Then(func(s, field), LAMBDA r : [r EXCEPT !.v = Append(items, @)])

\* value is what the message has for the field so far.
decode_field(s, wiretype, field, value) ==
    CASE field.htype = "required" -> func(s, field)
      [] field.htype = "optional" -> Then(func(s, field), LAMBDA r : [r EXCEPT !.v = <<@>>])
      [] field.htype = "array" -> decode_array(s, wiretype, field, value)
      [] field.htype = "callback" -> [skip(s, wiretype) EXCEPT !.v = value]

RECURSIVE pb_message_set_to_defaults(_)
pb_message_set_to_defaults(fields) ==
    [tag \in {f.tag : f \in ToSet(fields)} |->
        LET f == CHOOSE f \in ToSet(fields) : f.tag = tag IN
        CASE f.htype \in {"optional", "array"} -> <<>>
          [] f.htype = "callback" -> Unset
          [] f.htype = "required" -> IF f.ltype = "submessage" THEN pb_message_set_to_defaults(f.sub) ELSE f.default]

pb_field_find(fields, tag) == {i \in DOMAIN fields : fields[i].tag = tag}

\* The bits of the fields that were found go round after 32.
CheckRequired(s, fields, msg, seen) ==
    Read(\A i \in DOMAIN fields : fields[i].htype = "required" => (i - 1) % 32 \in seen, s, msg)

\* The loop: a tag of 0 or the end of the stream ends the message.
RECURSIVE decode_fields(_, _, _, _)
decode_found(key, fields, msg, seen, i) ==
    Then(decode_field(key.s, key.v % 8, fields[i], msg[fields[i].tag]), LAMBDA r :
         decode_fields(r.s, fields, [msg EXCEPT ![fields[i].tag] = r.v], seen \cup {(i - 1) % 32}))
decode_key(key, fields, msg, seen) ==
    LET found == pb_field_find(fields, key.v \div 8) IN
    IF ~key.ok THEN IF key.s.left = 0 THEN CheckRequired(key.s, fields, msg, seen) ELSE key
    ELSE IF key.v = 0 THEN CheckRequired(key.s, fields, msg, seen)
    ELSE IF found = {} THEN Then(skip(key.s, key.v % 8), LAMBDA r : decode_fields(r.s, fields, msg, seen))
    ELSE decode_found(key, fields, msg, seen, CHOOSE i \in found : TRUE)
decode_fields(s, fields, msg, seen) ==
    IF s.left = 0 THEN CheckRequired(s, fields, msg, seen)
    ELSE decode_key(pb_decode_varint32(s), fields, msg, seen)

pb_decode(s, fields) == decode_fields(s, fields, pb_message_set_to_defaults(fields), {})
=============================================================================
