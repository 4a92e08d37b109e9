---------------------------- MODULE DsdiffWriter ----------------------------
(***************************************************************************)
(* The DSDIFF format's writer (dsdiff.c): the chunks of the header, of the *)
(* sound data and of the footer, with the sizes they declare.              *)
(*                                                                         *)
(* A chunk is [id, size, bytes, parts]: the size it declares, the bytes    *)
(* the writer moves on for it, and the chunks inside.  The file is what    *)
(* was written at its beginning last, the pieces after it, and the footer. *)
(* Sizes are the real ones; texts and tags count with their length.        *)
(***************************************************************************)
EXTENDS Integers, SequencesExt

CONSTANTS Albums,        \* what may be written: see Album
          FrameLens,     \* the lengths of frames
          MaxFrames      \* bound

None == -1               \* a text the disc does not have

\* What the writer is told or reads from the disc.  dsd: dsd_encoded_export;
\* tracks: start and duration, in frames; id3: the size of the rendered tag.
Album == [dsd : BOOLEAN, edit : BOOLEAN, channels : 1..255,
          tracks : Seq([start : Nat, duration : Nat]), track : Nat \ {0},
          performer : Int, title : Int, albumArtist : Int, albumTitle : Int, discTitle : Int,
          id3 : Nat]

DsdiffAssumption ==
    /\ MaxFrames \in Nat /\ FrameLens \subseteq Nat \ {0}
    /\ \A album \in Albums : /\ album \in Album /\ album.track \in DOMAIN album.tracks
                             /\ \A text \in {"performer", "title", "albumArtist", "albumTitle", "discTitle"} :
                                   album[text] >= None

VARIABLES album,         \* the album being written
          state,         \* "closed", "open" and "finished"
          header,        \* the header at the beginning of the file
          body,          \* the pieces behind it: the frames and the pad byte
          footer,        \* the chunks of the footer, when it was written
          index,         \* handle->frame_indexes
          audioSize

vars == <<album, state, header, body, footer, index, audioSize>>

SumOf(widths) == SumFunction(widths)
CEIL_ODD_NUMBER(x) == IF x % 2 = 1 THEN x + 1 ELSE x
-----------------------------------------------------------------------------
(* The packed structures of dsdiff.h, as the widths of their fields.       *)

CHUNK_HEADER_SIZE == SumOf(<<4, 8>>)
FORM_DSD_CHUNK_SIZE == SumOf(<<4, 8, 4>>)
FORMAT_VERSION_CHUNK_SIZE == SumOf(<<4, 8, 4>>)
PROPERTY_CHUNK_SIZE == SumOf(<<4, 8, 4>>)
SAMPLE_RATE_CHUNK_SIZE == SumOf(<<4, 8, 4>>)
CHANNELS_CHUNK_SIZE == SumOf(<<4, 8, 2>>)
COMPRESSION_TYPE_CHUNK_SIZE == SumOf(<<4, 8, 4, 1>>)
LOADSPEAKER_CONFIG_CHUNK_SIZE == SumOf(<<4, 8, 2>>)
DST_FRAME_INFORMATION_CHUNK_SIZE == SumOf(<<4, 8, 4, 2>>)
DST_FRAME_DATA_CHUNK_SIZE == SumOf(<<4, 8>>)
DST_FRAME_INDEX_SIZE == SumOf(<<8, 4>>)
COMMENT_SIZE == SumOf(<<2, 1, 1, 1, 1, 2, 2, 4>>)
COMMENTS_CHUNK_SIZE == SumOf(<<4, 8, 2>>)
EDITED_MASTER_MARKER_CHUNK_SIZE == SumOf(<<4, 8, 2, 1, 1, 4, 4, 2, 2, 2, 4>>)
EDITED_MASTER_ARTIST_CHUNK_SIZE == SumOf(<<4, 8, 4>>)
EDITED_MASTER_TITLE_CHUNK_SIZE == SumOf(<<4, 8, 4>>)

\* The lengths of "not compressed" and "DST Encoded", of "Unknown", and of what the
\* two comments say beside a title.
NOT_COMPRESSED == 14
DST_ENCODED == 11
UNKNOWN == 7
MATERIAL_RIPPED_FROM == 27
VERSION_INFO == 110
-----------------------------------------------------------------------------
(* calculate_header_and_footer.                                            *)

BytesOf(chunks) == SumOf([i \in DOMAIN chunks |-> chunks[i].bytes])

\* A chunk whose header and own fields take fixed bytes.
Chunk(id, fixed, parts) ==
    LET length == fixed + BytesOf(parts)
    IN [id |-> id, size |-> CEIL_ODD_NUMBER(length - CHUNK_HEADER_SIZE),
        bytes |-> CEIL_ODD_NUMBER(length), parts |-> parts]

Properties(a) ==
    <<Chunk("FS", SAMPLE_RATE_CHUNK_SIZE, <<>>),
      Chunk("CHNL", CHANNELS_CHUNK_SIZE + 4 * a.channels, <<>>),
      Chunk("CMPR", COMPRESSION_TYPE_CHUNK_SIZE
                      + (IF a.dsd THEN NOT_COMPRESSED ELSE DST_ENCODED), <<>>),
      Chunk("LSCO", LOADSPEAKER_CONFIG_CHUNK_SIZE, <<>>)>>

\* The sound data chunk, of which the header holds the beginning; its data are
\* the pieces of the body.
FrameInformation(count) ==
    [id |-> "FRTE", size |-> DST_FRAME_INFORMATION_CHUNK_SIZE - CHUNK_HEADER_SIZE,
     bytes |-> DST_FRAME_INFORMATION_CHUNK_SIZE, parts |-> <<>>, frames |-> count]
SoundData(a, audio, count) ==
    IF a.dsd THEN [id |-> "DSD", size |-> CEIL_ODD_NUMBER(audio), bytes |-> CHUNK_HEADER_SIZE, parts |-> <<>>]
    ELSE [id |-> "DST", size |-> CEIL_ODD_NUMBER(audio + DST_FRAME_INFORMATION_CHUNK_SIZE),
          bytes |-> CHUNK_HEADER_SIZE + DST_FRAME_INFORMATION_CHUNK_SIZE,
          parts |-> <<FrameInformation(count)>>]

HeaderChunks(a, audio, count) ==
    <<Chunk("FVER", FORMAT_VERSION_CHUNK_SIZE, <<>>),
      Chunk("PROP", PROPERTY_CHUNK_SIZE, Properties(a)), SoundData(a, audio, count)>>

\* A marker's time; SACD_FRAME_RATE is 75, a frame has 588 * 64 samples.
Time(frames) ==
    LET seconds == frames \div 75 IN
    [hours |-> seconds \div 3600, minutes |-> (seconds % 3600) \div 60, seconds |-> seconds % 60,
     samples |-> (frames % 75) * 588 * 64]

\* add_marker_chunk
Marker(frames, type) ==
    [id |-> "MARK", size |-> CEIL_ODD_NUMBER(EDITED_MASTER_MARKER_CHUNK_SIZE - CHUNK_HEADER_SIZE),
     bytes |-> CEIL_ODD_NUMBER(EDITED_MASTER_MARKER_CHUNK_SIZE), parts |-> <<>>,
     time |-> Time(frames), type |-> type]

Stop(track) == track.start + track.duration

\* The markers of one track: its stop is marked when there is a gap behind it.
TrackMarkers(a, i) ==
    (IF i = 1 THEN <<Marker(0, "PROGRAMSTART")>> ELSE <<>>)
    \o <<Marker(a.tracks[i].start, "TRACKSTART")>>
    \o (IF i = Len(a.tracks) \/ a.tracks[i + 1].start > Stop(a.tracks[i])
        THEN <<Marker(Stop(a.tracks[i]), "TRACKSTOP")>> ELSE <<>>)

Markers(a) ==
    IF a.edit THEN LET upTo[i \in 0..Len(a.tracks)] ==
                          IF i = 0 THEN <<Chunk("EMID", CHUNK_HEADER_SIZE, <<>>)>> ELSE upTo[i - 1] \o TrackMarkers(a, i)
                   IN upTo[Len(a.tracks)]
    ELSE <<Marker(a.tracks[a.track].duration, "INDEX_ENTRY")>>

\* The first text there is, of those the code tries in turn (the phonetic texts
\* and the disc's artist, tried in between, are left out); an edit master has no
\* track's text.
FirstOf(texts) == LET present == {i \in DOMAIN texts : texts[i] # None}
                  IN IF present = {} THEN None ELSE texts[CHOOSE i \in present : \A j \in present : i <= j]
TextChunk(id, fixed, text) == IF text = None THEN <<>> ELSE <<Chunk(id, fixed + text, <<>>)>>
TrackText(a, text) == IF a.edit THEN None ELSE text
Artist(a) == TextChunk("DIAR", EDITED_MASTER_ARTIST_CHUNK_SIZE,
                       FirstOf(<<TrackText(a, a.performer), a.albumArtist, a.albumTitle, a.discTitle>>))
Title(a) == TextChunk("DITI", EDITED_MASTER_TITLE_CHUNK_SIZE,
                      FirstOf(<<TrackText(a, a.title), a.albumTitle, a.discTitle>>))

\* The two comments: where the file comes from and the version of the program.
Comments(a) ==
    LET title == FirstOf(<<a.albumTitle, a.discTitle, UNKNOWN>>)
        general == CEIL_ODD_NUMBER(COMMENT_SIZE + MATERIAL_RIPPED_FROM + title)
        machine == CEIL_ODD_NUMBER(COMMENT_SIZE + VERSION_INFO)
    IN Chunk("COMT", COMMENTS_CHUNK_SIZE + general + machine, <<>>)

Tags(a) == [i \in 1..(IF a.edit THEN Len(a.tracks) ELSE 1) |->
               Chunk("ID3", CHUNK_HEADER_SIZE + a.id3, <<>>)]

SoundIndex(a, frames) ==
    IF a.dsd \/ frames = <<>> THEN <<>>
    ELSE <<[Chunk("DSTI", CHUNK_HEADER_SIZE + Len(frames) * DST_FRAME_INDEX_SIZE, <<>>)
              EXCEPT !.parts = frames]>>

FooterChunks(a, frames) ==
    SoundIndex(a, frames)
    \o <<Chunk("DIIN", CHUNK_HEADER_SIZE, Markers(a) \o Artist(a) \o Title(a)), Comments(a)>>
    \o Tags(a)

\* The form chunk around it all, with the size of the whole file.
HeaderFor(a, audio, frames, count) ==
    LET chunks == HeaderChunks(a, audio, count)
        headerSize == CEIL_ODD_NUMBER(FORM_DSD_CHUNK_SIZE + BytesOf(chunks))
    IN [size |-> headerSize, chunks |-> chunks,
        formSize |-> CEIL_ODD_NUMBER(headerSize + BytesOf(FooterChunks(a, frames)) + audio - CHUNK_HEADER_SIZE)]
-----------------------------------------------------------------------------
Init == /\ album \in Albums /\ state = "closed"
        /\ header = [size |-> 0, chunks |-> <<>>, formSize |-> 0]
        /\ body = <<>> /\ footer = <<>> /\ index = <<>> /\ audioSize = 0

\* dsdiff_create and dsdiff_create_edit_master
Create == /\ state = "closed" /\ state' = "open"
          /\ header' = HeaderFor(album, 0, <<>>, 0)
          /\ UNCHANGED <<album, body, footer, index, audioSize>>

\* The number of frames written: a DSD frame is a piece too.
FrameCount == Len(body)
FilePosition == header.size + BytesOf(body)

\* Mutant of IndexEntry: the frame is indexed where its chunk begins.
IndexEntryOfChunk(len) == [offset |-> FilePosition, length |-> len]

IndexEntry(len) == [offset |-> FilePosition + DST_FRAME_DATA_CHUNK_SIZE, length |-> len]

\* dsdiff_write_frame
WriteFrame(len) ==
    LET piece == IF album.dsd THEN [id |-> "samples", size |-> len, bytes |-> len, parts |-> <<>>]
                 ELSE [id |-> "DSTF", size |-> len,
                       bytes |-> DST_FRAME_DATA_CHUNK_SIZE + CEIL_ODD_NUMBER(len), parts |-> <<>>] IN
    /\ state = "open" /\ Len(body) < MaxFrames
    /\ body' = Append(body, piece)
    /\ index' = IF album.dsd THEN index ELSE Append(index, IndexEntry(len))
    /\ audioSize' = audioSize + piece.bytes
    /\ UNCHANGED <<album, state, header, footer>>

\* dsdiff_close: the audio is made even, the footer appended, and the header
\* written again over the one of create.
Close == LET pad == audioSize % 2
             size == audioSize + pad
             frames == index IN
         /\ state = "open" /\ state' = "finished"
         /\ audioSize' = size
         /\ body' = body \o [i \in 1..pad |-> [id |-> "pad", size |-> 1, bytes |-> 1, parts |-> <<>>]]
         /\ footer' = FooterChunks(album, frames)
         /\ header' = [HeaderFor(album, size, frames, FrameCount) EXCEPT !.size = header.size]
         /\ UNCHANGED <<album, index>>

\* The file is written once more, with a new handle.
NextFile == /\ state = "finished" /\ state' = "closed"
            /\ UNCHANGED album
            /\ header' = [size |-> 0, chunks |-> <<>>, formSize |-> 0]
            /\ body' = <<>> /\ footer' = <<>> /\ index' = <<>> /\ audioSize' = 0

Next == Create \/ Close \/ NextFile \/ \E len \in FrameLens : WriteFrame(len)
Spec == Init /\ [][Next]_vars
-----------------------------------------------------------------------------
(* Properties.                                                             *)

DsdiffTypeOK == /\ album \in Albums /\ state \in {"closed", "open", "finished"}
                /\ Len(body) <= MaxFrames + 1 /\ Len(index) <= MaxFrames
                /\ audioSize = BytesOf(body)

\* What a reader relies on to get from a chunk to the next: the size declared,
\* and a pad byte after an odd one, is what the chunk takes.
Skips(chunk) == chunk.bytes = CHUNK_HEADER_SIZE + CEIL_ODD_NUMBER(chunk.size)
SkipsWithParts(chunk) == Skips(chunk) /\ (chunk.id \in {"PROP", "DIIN"} => \A i \in DOMAIN chunk.parts : Skips(chunk.parts[i]))

FileSize == header.size + BytesOf(body) + BytesOf(footer)
Sound == header.chunks[3]

\* A finished file is read right by its sizes alone: each chunk ends where the
\* next begins, the sound data end at the footer, the form at the end of the
\* file, the new header took the place of the old, and each entry of the index
\* leads to the data of its frame.
FileCanBeRead ==
    state = "finished" =>
        /\ header.size = HeaderFor(album, audioSize, index, FrameCount).size
        /\ header.size = FORM_DSD_CHUNK_SIZE + BytesOf(header.chunks)
        /\ FileSize = CHUNK_HEADER_SIZE + header.formSize
        /\ SkipsWithParts(header.chunks[1]) /\ SkipsWithParts(header.chunks[2])
        /\ CHUNK_HEADER_SIZE + Sound.size = Sound.bytes + BytesOf(body)
        /\ \A i \in DOMAIN footer : SkipsWithParts(footer[i])
        /\ \A i \in DOMAIN body : body[i].id = "DSTF" => Skips(body[i])
        /\ ~album.dsd =>
              /\ Len(index) = Len(body) /\ Sound.parts[1].frames = Len(body)
              /\ \A i \in DOMAIN index :
                    /\ index[i].length = body[i].size
                    /\ index[i].offset = header.size + BytesOf(SubSeq(body, 1, i - 1)) + CHUNK_HEADER_SIZE

\* The time a reader makes of a marker.
FramesOf(time) == ((time.hours * 60 + time.minutes) * 60 + time.seconds) * 75 + time.samples \div (588 * 64)
Diin == footer[CHOOSE i \in DOMAIN footer : footer[i].id = "DIIN"]
IsMark(chunk) == chunk.id = "MARK"
Marked(chunks, type) == {FramesOf(chunks[i].time) : i \in {j \in DOMAIN chunks : IsMark(chunks[j]) /\ chunks[j].type = type}}

\* No track begins before the one before it begins.
InOrder(tracks) == \A i \in DOMAIN tracks : i = 1 \/ tracks[i - 1].start <= tracks[i].start

\* The markers of an edit master whose tracks are in order are in order
\* themselves, within the ranges of their fields, and mark every track's start
\* and each gap between tracks.
MarkersTellTheTracks ==
    state = "finished" /\ album.edit /\ InOrder(album.tracks) =>
        LET chunks == Diin.parts
            tracks == album.tracks IN
        /\ \A i \in DOMAIN chunks : IsMark(chunks[i]) =>
              /\ chunks[i].time.minutes < 60 /\ chunks[i].time.seconds < 60
              /\ \A j \in i..Len(chunks) : IsMark(chunks[j]) => FramesOf(chunks[i].time) <= FramesOf(chunks[j].time)
        /\ Marked(chunks, "TRACKSTART") = {tracks[i].start : i \in DOMAIN tracks}
        /\ Marked(chunks, "TRACKSTOP") = {Stop(tracks[i]) : i \in
              {j \in DOMAIN tracks : \A k \in DOMAIN tracks : k > j => tracks[k].start > Stop(tracks[j])}}
==============================================================================
