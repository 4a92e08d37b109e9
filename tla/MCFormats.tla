------------------------------ MODULE MCFormats ------------------------------
(***************************************************************************)
(* What becomes of the sectors that are read: FrameAssembly on sectors of  *)
(* up to two packets (audio that starts or continues a frame, with two     *)
(* lengths, and padding; frame infos of one or two sectors), the writers   *)
(* of the two formats, and the tag of a track.  They are checked one at a  *)
(* time: part says which of them runs, and the others stand still.         *)
(***************************************************************************)
EXTENDS FrameAssembly

CONSTANTS Channels, Block, FrameLens, MaxFrames,        \* of DsfWriter
          Albums, PieceLens, MaxPieces                  \* of DsdiffWriter

VARIABLES part,
          channelBuffers, blocks, dsfAudioSize, sampleCount, written,      \* DsfWriter
          album, state, header, body, footer, index, audioSize,            \* DsdiffWriter
          tagPc, tagHeader, tagFrames, store, said, own, fresh             \* Id3

dsfVars == <<channelBuffers, blocks, dsfAudioSize, sampleCount, written>>
dsdiffVars == <<album, state, header, body, footer, index, audioSize>>
tagVars == <<tagPc, tagHeader, tagFrames, store, said, own, fresh>>
formatsVars == <<part, vars, dsfVars, dsdiffVars, tagVars>>
-----------------------------------------------------------------------------
(* FrameAssembly                                                           *)

MCPackets == [audio : {TRUE}, start : BOOLEAN, length : {1, 3}]
             \cup {[audio |-> FALSE, start |-> FALSE, length |-> 1]}

Starts(ps) == Len(SelectSeq(ps, LAMBDA p : p.audio /\ p.start))

MCSectors ==
    UNION {{[dst |-> dst, packets |-> ps, infos |-> counts] :
               dst \in BOOLEAN, counts \in [1..Starts(ps) -> {1, 2}]} :
           ps \in UNION {[1..n -> MCPackets] : n \in 1..2}}
-----------------------------------------------------------------------------
(* DsfWriter: two channels, blocks of four bytes, frames that end a block, *)
(* leave bytes over, and have a byte for one channel more than the other.  *)

Dsf == INSTANCE DsfWriter
         WITH buffer <- channelBuffers, audioSize <- dsfAudioSize, frames <- written

ASSUME WriterAssumption == Dsf!DsfAssumption

\* DsfWriter: the blocks come for the channels in turn, and what has left for a
\* channel or is waiting are the bytes of the frames, in order.
BlocksHoldTheChannels == part = "dsf" => Dsf!DsfTypeOK /\ Dsf!BlocksHoldTheChannels
-----------------------------------------------------------------------------
(* DsdiffWriter: DSD and DST, a track or the whole disc, with tracks that  *)
(* follow each other, leave a gap, overlap, and are shorter than a second. *)

Track(start, duration) == [start |-> start, duration |-> duration]
NoText == -1
MCAlbums == {[dsd |-> dsd, edit |-> edit, channels |-> channels, tracks |-> tracks, track |-> 1,
              performer |-> text, title |-> text, albumArtist |-> artist, albumTitle |-> NoText, discTitle |-> 4, id3 |-> tag] :
                dsd \in BOOLEAN, edit \in BOOLEAN, channels \in {2, 5}, text \in {NoText, 3}, artist \in {NoText, 6}, tag \in {10, 11},
                tracks \in {<<Track(150, 400000)>>, <<Track(150, 4650), Track(4800, 75)>>, <<Track(0, 50), Track(4800, 76)>>,
                           <<Track(100, 200), Track(150, 50)>>}}

Dsdiff == INSTANCE DsdiffWriter WITH FrameLens <- PieceLens, MaxFrames <- MaxPieces

ASSUME AlbumsAssumption == Dsdiff!DsdiffAssumption

\* DsdiffWriter: a finished file is read right by the sizes in it alone, from chunk
\* to chunk and from the index to the frames, and the markers of an edit master
\* tell where its tracks begin and end.
FileCanBeRead == part = "dsdiff" => Dsdiff!DsdiffTypeOK /\ Dsdiff!FileCanBeRead /\ Dsdiff!MarkersTellTheTracks
-----------------------------------------------------------------------------
(* Id3: bytes of 8 values where a size is syncsafe.  Tags of others have   *)
(* padding, flags, unknown and older ids, an extended header, a version    *)
(* that is too new, and a frame that is longer than its tag.               *)

ADisc == [title |-> <<<<70>>, <<-1>>>>, performer |-> <<<<-1>>, <<71>>>>, genre |-> <<<<72>>, <<73>>>>,
          year |-> <<74>>, date |-> <<75>>,
          album_title |-> <<80>>, album_title_phonetic |-> <<-1>>, disc_title |-> <<81>>, disc_title_phonetic |-> <<-1>>,
          album_artist |-> <<82>>, album_artist_phonetic |-> <<-1>>, disc_artist |-> <<-1>>, disc_artist_phonetic |-> <<-1>>]
Untitled == [ADisc EXCEPT !.album_title = <<-1>>, !.disc_title = <<-1>>]

MCForeign == {<<73, 3, 0, 1, 4>> \o <<1, 0, 3, 0, 0, 65, 66>> \o <<0, 0, 0, 0, 0>>,
              <<73, 4, 0, 1, 6>> \o <<12, 0, 1, 0, 0>> \o <<11, 0, 4, 1, 9, 0, 65, 66>> \o <<10>>,
              <<73, 2, 0, 1, 4>> \o <<1, 2, 0, 65>> \o <<21, 1, 5>> \o <<20, 2, 0, 66>> \o <<0>>,
              <<73, 3, 1, 1, 7>> \o [i \in 1..10 |-> 0] \o <<1, 0, 1, 0, 0>>,
              <<73, 5, 0, 0, 0>>,
              <<73, 3, 0, 0, 5>> \o <<1, 0, 7, 0, 0>>}

Tag == INSTANCE Id3
         WITH Base <- 8, SizeBytes <- 2, MaxRaw <- 40, MaxRead <- 14, ExtHeader <- 10, TextIds <- 1..9, OtherIds <- {10, 11},
              UserText <- 8, Comment <- 10, RenderIds <- <<1, 2, 3, 4, 5, 6, 7>>, Discarded <- {9, 11},
              Translated <- [id \in {1, 20} |-> IF id = 1 THEN 1 ELSE 10], UnknownId <- 12,
              Added <- {9}, Texts <- {<<65, 66>>, <<65, 66, 67, 68, 69, 70, 71>>}, Numbers <- {12}, Foreign <- MCForeign,
              Discs <- {ADisc, Untitled, [Untitled EXCEPT !.album_artist = <<-1>>]}, MaxFrames <- 2,
              pc <- tagPc, header <- tagHeader, frames <- tagFrames

ASSUME Tag!Id3Assumption

\* Id3: reading a tag that was written gives its frames again, and the size in its
\* header leads behind it.
TagIsReadAsWritten == part = "tag" => Tag!Id3TypeOK /\ Tag!TagIsReadAsWritten /\ Tag!SizeTellsTheEnd
-----------------------------------------------------------------------------
FormatsInit == /\ part \in {"assembly", "dsf", "dsdiff", "tag"}
               /\ Init /\ Dsf!Init /\ Dsdiff!Init /\ Tag!Init
               /\ part # "dsdiff" => album = CHOOSE a \in Albums : TRUE

FormatsNext == \/ part = "assembly" /\ Next /\ UNCHANGED <<part, dsfVars, dsdiffVars, tagVars>>
               \/ part = "dsf" /\ Dsf!Next /\ UNCHANGED <<part, vars, dsdiffVars, tagVars>>
               \/ part = "dsdiff" /\ Dsdiff!Next /\ UNCHANGED <<part, vars, dsfVars, tagVars>>
               \/ part = "tag" /\ Tag!Next /\ UNCHANGED <<part, vars, dsfVars, dsdiffVars>>

FormatsSpec == FormatsInit /\ [][FormatsNext]_formatsVars

\* FrameAssembly: the callback gets exactly the whole frames of the track.
FramesComeWhole == TypeOK /\ DeliversTheWholeFrames
==============================================================================
