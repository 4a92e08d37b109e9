------------------------------ MODULE PbMessages ------------------------------
(***************************************************************************)
(* A message on its way: written by pb_encode, followed by the zero tag    *)
(* that ends it, perhaps disturbed, and read by pb_decode.  A disturbance  *)
(* is a connection that ends early or a field the reader does not know.    *)
(***************************************************************************)
EXTENDS PbCodec

CONSTANTS Samples,       \* records [writer, reader, msg]: the fields of the two sides
          Unknown        \* the encoded fields only a newer server writes

VARIABLES pc, sample, wire, whole, got

vars == <<pc, sample, wire, whole, got>>

Init == pc = "write" /\ sample \in Samples /\ wire = <<>> /\ whole = TRUE /\ got = Fail(Stream(<<>>, 0))

Encoded == pb_encode(sample.writer, sample.msg)

\* Nothing of a message is left for the next one: the same is sent again and again,
\* from a buffer into which it was encoded or as it is encoded.
Write == /\ pc = "write" /\ wire' = Append(ToBuffer(Encoded), 0) /\ whole' = TRUE
         /\ pc' = "sent" /\ got' = Fail(Stream(<<>>, 0)) /\ UNCHANGED sample

\* Encoding to the socket fails: what was written before is on its way, and the
\* caller sends no zero tag.
WriteFails == /\ pc = "write" /\ Refused(Encoded) /\ wire' = ToSocket(Encoded) /\ whole' = FALSE
              /\ pc' = "sent" /\ got' = Fail(Stream(<<>>, 0)) /\ UNCHANGED sample

\* The environment: the server goes away, or is a newer one.
Cut == /\ pc = "sent"
       /\ \E n \in 0..(Len(wire) - 1) : wire' = SubSeq(wire, 1, n)
       /\ pc' = "read" /\ whole' = FALSE /\ UNCHANGED <<sample, got>>
Extend == /\ pc = "sent"
          /\ \E field \in Unknown : wire' = field \o wire
          /\ pc' = "read" /\ UNCHANGED <<sample, whole, got>>
Arrive == pc = "sent" /\ pc' = "read" /\ UNCHANGED <<sample, wire, whole, got>>

Decode == /\ pc = "read"
          /\ got' = pb_decode(pb_istream_from_socket(wire), sample.reader)
          /\ pc' = "write" /\ UNCHANGED <<sample, wire, whole>>

Next == Write \/ WriteFails \/ Cut \/ Extend \/ Arrive \/ Decode

Spec == Init /\ [][Next]_vars
-----------------------------------------------------------------------------
MessagesTypeOK == /\ pc \in {"write", "sent", "read"} /\ sample \in Samples
                  /\ wire \in Seq(0..255) /\ {whole, got.ok} \subseteq BOOLEAN

\* What the reader can take: it has room for it, and no bytes or string is empty.
RECURSIVE Readable(_, _)
Readable(fields, msg) ==
    \A f \in ToSet(fields) :
        LET items == CASE f.htype = "optional" -> msg[f.tag]
                       [] f.htype = "array" -> msg[f.tag]
                       [] f.htype = "required" -> <<msg[f.tag]>>
                       [] f.htype = "callback" -> <<>>
        IN /\ f.htype = "array" => Len(items) <= f.array
           /\ \A i \in DOMAIN items :
                 CASE f.ltype = "bytes" -> Len(items[i]) \in 1..f.size
                   [] f.ltype = "string" -> Len(items[i]) \in 1..f.size - 1
                   [] f.ltype = "submessage" -> Readable(f.sub, items[i])
                   [] OTHER -> TRUE

\* A message that loses nothing but optional fields and the last elements of arrays.
RECURSIVE PartOf(_, _, _)
PartOf(fields, part, msg) ==
    \A f \in ToSet(fields) :
        LET Same(a, b) == IF f.ltype = "submessage" THEN PartOf(f.sub, a, b) ELSE a = b
            x == part[f.tag]  y == msg[f.tag]
        IN CASE f.htype = "required" -> Same(x, y)
             [] f.htype \in {"optional", "array"} -> Len(x) <= Len(y) /\ \A i \in DOMAIN x : Same(x[i], y[i])
             [] f.htype = "callback" -> TRUE

\* A message that arrives whole is read as it was written, up to the zero tag,
\* when the reader has room for it and none of its bytes and strings is there and
\* empty; else it is rejected, never read as another (pb_encode.c, pb_decode.c: the
\* two must agree on tags, lengths and groups).
ReadAsWritten ==
    (pc = "write" /\ whole /\ wire # <<>>) =>
        IF Readable(sample.reader, sample.msg)
        THEN got.ok /\ got.v = sample.msg /\ got.s.wire = <<>> ELSE ~got.ok

\* What is accepted of a connection that ends early has all the required fields
\* as they were sent, and what it has of the others is right: a value of which
\* a part is missing is never taken (pb_decode.c:348-366, 381-390).
AcceptedIsWhatWasSent == (pc = "write" /\ got.ok) => PartOf(sample.reader, got.v, sample.msg) /\ Readable(sample.reader, got.v)
=============================================================================
