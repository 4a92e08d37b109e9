--------------------------------- MODULE Id3 ---------------------------------
(***************************************************************************)
(* The tag of a track: its frames in memory (id3/id3_frame.c and           *)
(* id3_frame_text.c), the bytes they become (id3_write_tag) and the frames *)
(* that are read from such bytes again (id3_tag.c), all behind a pointer   *)
(* to memory; scarletbook_id3_tag_render makes the tag of a track of it.   *)
(*                                                                         *)
(* A byte is a number.  An id takes one byte and a pair of flag bytes one, *)
(* and a number takes SizeBytes.  A size is read syncsafe, Base values a   *)
(* byte, where it is that of a tag, and plain, 2 * Base values a byte,     *)
(* where it is that of a frame; both are written in a third way, syncsafe  *)
(* in the last byte and plain in the others, which agrees with the first   *)
(* below Base^2 and with the second below Base.                            *)
(***************************************************************************)
EXTENDS Integers, Sequences, SequencesExt

CONSTANTS Base, SizeBytes,        \* 128 and 4
          MaxRaw, MaxRead,        \* 1000000, and ID3_FD_BUFSIZE: 8192
          ExtHeader,              \* 10
          TextIds, OtherIds,      \* the ids of framedesc: of text frames, and of others
          UserText, Comment,      \* TXXX, of the first; COMM, of the second
          RenderIds,              \* TIT2, TPE1, TALB, TCON, TYER, TDAT, TRCK
          Discarded,              \* discard_list of id3_alter_file
          Translated,             \* framedesc22: from the old ids to the new
          UnknownId,
          Added, Texts, Numbers,  \* the text frames that callers add, and what they set
          Foreign,                \* the tags of other programs
          Discs,                  \* records with the texts of a disc and of its tracks
          MaxFrames               \* bound: of the tags that are added to and set again

Id3Assumption ==
    /\ {Base, SizeBytes, MaxRaw, MaxRead, ExtHeader, MaxFrames} \subseteq Nat \ {0} /\ SizeBytes > 1
    /\ Base <= MaxRead /\ MaxRead <= MaxRaw
    /\ UserText \in TextIds /\ Comment \in OtherIds /\ TextIds \cap OtherIds = {}
    /\ Added \subseteq TextIds /\ RenderIds \in Seq(TextIds \ {UserText}) /\ Len(RenderIds) = 7
    /\ Discarded \subseteq TextIds \cup OtherIds /\ UnknownId \notin TextIds \cup OtherIds

VARIABLES pc,            \* "closed" or "open"
          header,        \* id3_version, and whether id3_flags tell of an extended header
          frames,        \* the list: id, flags, and data, which fr_data and fr_size tell;
                         \* text is what the frame was set to, if it was
          store,         \* the bytes of a tag
          said,          \* what was written to it, for the properties
          own,           \* it was written here, and the reader should agree with it
          fresh          \* the open tag was read from it, and is unchanged

vars == <<pc, header, frames, store, said, own, fresh>>
stored == <<store, said, own>>

Known == TextIds \cup OtherIds
Padding == 0
Magic == <<73>>
Iso8859 == 0
Untold == <<-1>>
New == [version |-> 3, extended |-> FALSE]
FrameHeader == 2 + SizeBytes
FrameHeader22 == SizeBytes
Frame(id, flags, data, text) == [id |-> id, flags |-> flags, data |-> data, text |-> text]

\* ID3_SET_SIZE28
SizeOf(n) == [i \in 1..SizeBytes |-> IF i = SizeBytes THEN n % Base
                                     ELSE (n \div (Base * (2 * Base)^(SizeBytes - 1 - i))) % (2 * Base)]
Value(digits, base) ==
    LET sum[i \in 0..Len(digits)] == IF i = 0 THEN 0 ELSE (base * sum[i - 1]) + digits[i] IN sum[Len(digits)]

Init == /\ pc = "closed" /\ header = New /\ frames = <<>>
        /\ store = <<>> /\ said = <<>> /\ own = FALSE /\ fresh = FALSE
-----------------------------------------------------------------------------
(* Reading.                                                                *)

\* ID3_FHFLAG_GROUP, _ENCRYPT and _COMPRESS, and the fields that stand before the data
\* of a frame that has them.
Group == 1
Encrypt == 2
Compress == 4
Has(flags, flag) == (flags \div flag) % 2 = 1
id3_frame_extra_headers(flags) ==
    (IF Has(flags, Compress) THEN 4 ELSE 0) + (IF Has(flags, Encrypt) THEN 1 ELSE 0)
      + (IF Has(flags, Group) THEN 1 ELSE 0)

\* Data of a compressed frame are only there after id3_decompress_frame, which
\* without zlib fails.
DataOf(flags, raw) == IF Has(flags, Compress) THEN <<>> ELSE SubSeq(raw, 1 + id3_frame_extra_headers(flags), Len(raw))

Failed == [ok |-> FALSE, frames |-> <<>>]
Prefixed(frame, rest) == [rest EXCEPT !.frames = <<frame>> \o @]

\* The loop of id3_read_tag over id3_read_frame, from each place of the body on.
\* Padding ends it, a frame of unknown id is passed over.
\* Sizes whose highest bit is set, which the int fr_raw_size makes negative, are not
\* met: no size here, written or foreign, has it.
Frames(body, start) ==
    LET size == Len(body)
        from[p \in 0..size] ==
          LET raw == Value(SubSeq(body, p + 2, p + 1 + SizeBytes), 2 * Base)
              flags == body[p + FrameHeader]
              next == p + FrameHeader + raw
          IN IF p = size THEN [ok |-> TRUE, frames |-> <<>>]
             ELSE IF p + FrameHeader > size THEN Failed
             ELSE IF body[p + 1] = Padding THEN [ok |-> TRUE, frames |-> <<>>]
             ELSE IF raw > MaxRaw \/ next > size THEN Failed
             ELSE IF body[p + 1] \notin Known THEN from[next]
             ELSE IF raw > MaxRead THEN Failed
             ELSE Prefixed(Frame(body[p + 1], flags, DataOf(flags, SubSeq(body, p + 1 + FrameHeader, next)), Untold), from[next])
    IN IF start > size THEN Failed ELSE from[start]

\* id3_read_frame_v22: shorter ids and sizes, and no flags.
Frames22(body, start) ==
    LET size == Len(body)
        from[p \in 0..size] ==
          LET raw == Value(SubSeq(body, p + 2, p + SizeBytes), 2 * Base)
              next == p + FrameHeader22 + raw
          IN IF p = size THEN [ok |-> TRUE, frames |-> <<>>]
             ELSE IF p + FrameHeader22 > size THEN Failed
             ELSE IF body[p + 1] = Padding THEN [ok |-> TRUE, frames |-> <<>>]
             ELSE IF next > size THEN Failed
             ELSE IF body[p + 1] \notin DOMAIN Translated THEN from[next]
             ELSE IF raw > MaxRead THEN Failed
             ELSE Prefixed(Frame(Translated[body[p + 1]], 0, SubSeq(body, p + 1 + FrameHeader22, next), Untold), from[next])
    IN IF start > size THEN Failed ELSE from[start]

\* ID3_GET_SIZE28
BodySize(bytes) == Value([i \in 1..SizeBytes |-> bytes[3 + i] % Base], Base)
Body(bytes) == SubSeq(bytes, 4 + SizeBytes, 3 + SizeBytes + BodySize(bytes))
HeaderOf(bytes) == [version |-> bytes[2], extended |-> bytes[3] = 1]

\* An extended header is passed over.
id3_read_tag(bytes) ==
    LET start == IF HeaderOf(bytes).extended THEN ExtHeader ELSE 0
    IN IF SubSeq(bytes, 1, 1) # Magic \/ bytes[2] \notin 2..4 THEN Failed
       ELSE IF bytes[2] = 2 THEN Frames22(Body(bytes), start) ELSE Frames(Body(bytes), start)

\* The string behind the encoding, up to its zero or the two that calloc put behind
\* the data.  A frame of its own text starts with a description.
id3_get_text(frame) ==
    LET string == SubSeq(frame.data, 2, Len(frame.data)) \o <<0, 0>>
        Upto(s) == SubSeq(s, 1, (CHOOSE i \in 1..Len(s) : s[i] = 0 /\ \A j \in 1..i - 1 : s[j] # 0) - 1)
        offset == Len(Upto(string)) + 1
    IN IF frame.id \notin TextIds \/ (frame.id = UserText /\ offset >= Len(frame.data)) THEN Untold
       ELSE IF frame.id = UserText THEN Upto(SubSeq(string, offset + 1, Len(string)))
       ELSE Upto(string)
-----------------------------------------------------------------------------
(* Frames in memory.                                                       *)

TextData(text) == <<Iso8859>> \o text

\* Decimal digits, and a 0 for what is not positive.
NumberText(number) ==
    LET digits[n \in 0..(IF number > 0 THEN number ELSE 0)] ==
            IF n = 0 THEN <<>> ELSE Append(digits[n \div 10], 48 + (n % 10))
    IN IF number > 0 THEN digits[number] ELSE <<48>>

\* The zero behind the comment is not counted, and there is no language.
CommentData(description, comment) == TextData(description) \o <<0>> \o comment

Change == pc = "open" /\ fresh' = FALSE /\ UNCHANGED <<pc, header, stored>>

\* id3_add_frame and the call that gives the new frame its data.
AddText(type, text) ==
    /\ Change /\ Len(frames) < MaxFrames
    /\ frames' = Append(frames, Frame(type, 0, TextData(text), text))
AddNumber(type, number) == AddText(type, NumberText(number))
AddComment(description, comment) ==
    /\ Change /\ Len(frames) < MaxFrames
    /\ frames' = Append(frames, Frame(Comment, 0, CommentData(description, comment), Untold))

\* id3_set_text on a frame there is: the old data go, its flags stay.
SetText(i, text) ==
    /\ Change /\ Len(frames) <= MaxFrames /\ frames[i].id \in TextIds
    /\ frames' = [frames EXCEPT ![i].data = TextData(text), ![i].text = text]

DeleteFrame(i) == Change /\ frames' = RemoveAt(frames, i)

AlterFile == Change /\ frames' = SelectSeq(frames, LAMBDA f : f.id \notin Discarded)
-----------------------------------------------------------------------------
(* Writing.                                                                *)

\* Mutant of FrameBytes: the encoding is not counted.
FrameBytesShort(frame) ==
    <<frame.id>> \o SizeOf(Len(frame.data) - 1) \o <<frame.flags>> \o frame.data

FrameBytes(frame) ==
    <<frame.id>> \o SizeOf(Len(frame.data)) \o <<frame.flags>> \o frame.data

HeaderBytes(head) == <<head.version, IF head.extended THEN 1 ELSE 0>>

id3_write_tag(head, list) ==
    LET body == FlattenSeq([i \in DOMAIN list |-> FrameBytes(list[i])])
    IN Magic \o HeaderBytes(head) \o SizeOf(Len(body)) \o body

\* What the reader of this library finds again: frames as they were before version 2.4,
\* each smaller than Base and together smaller than Base^2, without a flag, and no
\* extended header in front of them.
Agreed(head, list) ==
    /\ head.version \in {3, 4} /\ ~head.extended
    /\ \A i \in DOMAIN list : Len(list[i].data) < Base /\ list[i].flags = 0
    /\ Len(FlattenSeq([i \in DOMAIN list |-> FrameBytes(list[i])])) < Base * Base

WriteTo(head, list) == store' = id3_write_tag(head, list) /\ said' = list /\ own' = Agreed(head, list)

WriteTag == /\ pc = "open" /\ WriteTo(header, frames)
            /\ UNCHANGED <<pc, header, frames, fresh>>
-----------------------------------------------------------------------------
(* Opening and closing.                                                    *)

\* id3_open_mem with nothing to read, and with a tag; one that cannot be read is
\* refused, or begun anew.
Begin == header' = New /\ frames' = <<>> /\ fresh' = FALSE
OpenNew == pc = "closed" /\ pc' = "open" /\ Begin /\ UNCHANGED stored
OpenStore(create) ==
    LET read == id3_read_tag(store) IN
    /\ pc = "closed" /\ store # <<>>
    /\ IF read.ok
       THEN pc' = "open" /\ header' = HeaderOf(store) /\ frames' = read.frames /\ fresh' = TRUE
       ELSE pc' = (IF create THEN "open" ELSE "closed") /\ Begin
    /\ UNCHANGED stored

\* The environment: a tag that another program has written.
TakeForeign == /\ pc = "closed" /\ store' \in Foreign /\ said' = <<>> /\ own' = FALSE
               /\ UNCHANGED <<pc, header, frames, fresh>>

CloseTag == pc = "open" /\ pc' = "closed" /\ Begin /\ UNCHANGED stored
-----------------------------------------------------------------------------
(* scarletbook_id3_tag_render: open, add, write and close.                 *)

\* The first of the texts that the disc has; Untold when it has none of them.
FirstTold(texts) == LET told == SelectSeq(texts, LAMBDA t : t # Untold)
                    IN IF told = <<>> THEN Untold ELSE Head(told)
AlbumTitle(disc) == FirstTold(<<disc.album_title, disc.album_title_phonetic, disc.disc_title, disc.disc_title_phonetic>>)
Artist(disc) == FirstTold(<<AlbumTitle(disc), disc.album_artist, disc.album_artist_phonetic, disc.disc_artist, disc.disc_artist_phonetic>>)

Rendered(disc, track) ==
    LET texts == <<FirstTold(<<disc.title[track], AlbumTitle(disc)>>), FirstTold(<<disc.performer[track], Artist(disc)>>),
                   AlbumTitle(disc), disc.genre[track], disc.year, disc.date, NumberText(track)>>
        told == SelectSeq([i \in 1..7 |-> i], LAMBDA i : texts[i] # Untold)
    IN [n \in DOMAIN told |-> Frame(RenderIds[told[n]], 0, TextData(texts[told[n]]), texts[told[n]])]

Render(disc, track) == /\ pc = "closed" /\ WriteTo(New, Rendered(disc, track))
                       /\ UNCHANGED <<pc, header, frames, fresh>>
-----------------------------------------------------------------------------
Next == \/ \E type \in Added, text \in Texts : AddText(type, text)
        \/ \E type \in Added, number \in Numbers : AddNumber(type, number)
        \/ \E description, comment \in Texts : AddComment(description, comment)
        \/ \E i \in DOMAIN frames, text \in Texts : SetText(i, text)
        \/ \E i \in DOMAIN frames : DeleteFrame(i)
        \/ AlterFile \/ WriteTag \/ OpenNew \/ CloseTag \/ TakeForeign
        \/ \E create \in BOOLEAN : OpenStore(create)
        \/ \E disc \in Discs : \E track \in DOMAIN disc.title : Render(disc, track)
Spec == Init /\ [][Next]_vars
-----------------------------------------------------------------------------
(* Properties.                                                             *)

Id3TypeOK == /\ pc \in {"closed", "open"} /\ header \in [version : 2..4, extended : BOOLEAN]
             /\ \A i \in DOMAIN frames : frames[i].id \in Known /\ frames[i].data \in Seq(Nat)
             /\ store \in Seq(Nat) /\ {own, fresh} \subseteq BOOLEAN

\* However the frames of a tag came about - added, set again, deleted, discarded or
\* read before - reading what was written gives them again, in order, with the
\* texts they were set to (id3_write_tag against id3_read_tag and id3_get_text).
TagIsReadAsWritten ==
    /\ own => id3_read_tag(store).ok
    /\ own /\ fresh =>
         /\ Len(frames) = Len(said)
         /\ \A i \in DOMAIN said :
              /\ frames[i].id = said[i].id /\ frames[i].data = said[i].data
              /\ said[i].text # Untold /\ said[i].id # UserText => id3_get_text(frames[i]) = said[i].text

\* A program that knows none of the frames finds the end of the tag: the size in
\* its header is that of what follows, also with frames this reader misreads, in
\* every tag that is smaller than Base^2, 16 KiB (id3_write_tag, ID3_SET_SIZE28).
SizeTellsTheEnd ==
    LET rest == Len(store) - 3 - SizeBytes
    IN said # <<>> /\ rest < Base * Base => BodySize(store) = rest
==============================================================================
