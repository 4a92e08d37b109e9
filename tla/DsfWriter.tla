------------------------------ MODULE DsfWriter ------------------------------
(***************************************************************************)
(* The DSF format's writer (dsf.c), as the player's file uses it: frames   *)
(* come with the bytes of the channels in turn and leave as blocks of one  *)
(* channel each, which write_frame puts into the caller's buffer.          *)
(*                                                                         *)
(* A byte is <<frame, index>>; Pad is a zero of a block that was not full, *)
(* Stale what lies behind the end of a frame.  The reversal of the bits of *)
(* a byte is left out.                                                     *)
(***************************************************************************)
EXTENDS Integers, SequencesExt

CONSTANTS Channels,      \* channel_count of the area
          Block,         \* SACD_BLOCK_SIZE_PER_CHANNEL
          FrameLens,     \* the lengths of frames
          MaxFrames      \* bound

\* With fewer bytes than channels the code's loop would not end.
DsfAssumption == /\ Channels \in Nat \ {0} /\ Block \in Nat \ {0} /\ MaxFrames \in Nat
                 /\ \A len \in FrameLens : len \in Nat /\ len >= Channels

VARIABLES buffer,        \* buffer[c]: the bytes from handle->buffer[c] to buffer_ptr[c]
          blocks,        \* history: the blocks given to the caller, [channel, bytes]
          audioSize, sampleCount,
          frames         \* history: the lengths of the frames written

vars == <<buffer, blocks, audioSize, sampleCount, frames>>

Pad == <<0, 0>>
Stale == <<0, 1>>

\* The handle is allocated with zeros.
Init == /\ buffer = [c \in 1..Channels |-> <<>>]
        /\ blocks = <<>> /\ frames = <<>>
        /\ audioSize = 0 /\ sampleCount = 0

\* The sizes of the chunks before the samples, packed: ids are 4 bytes.
SumOf(widths) == FoldLeft(LAMBDA s, w : s + w, 0, widths)
DsdChunkHeader == SumOf(<<4, 8, 8, 8>>)
FmtChunk == SumOf(<<4, 8, 4, 4, 4, 4, 4, 4, 8, 4, 4>>)
DataChunk == SumOf(<<4, 8>>)

ChannelType(count, extraSettings) ==
    CASE count = 5 /\ extraSettings = 3 -> "5 channels"
      [] count = 6 /\ extraSettings = 4 -> "5.1 channels"
      [] OTHER -> "stereo"

\* dsf_create_header: for the player's file the caller has left the size of the
\* track's sectors in header_size, which stands for the size of the data.
Header(size, extraSettings) ==
    LET headerSize == DsdChunkHeader + FmtChunk + DataChunk
    IN [size |-> headerSize, totalFileSize |-> size + headerSize, dataSize |-> size,
        channels |-> Channels, channelType |-> ChannelType(Channels, extraSettings),
        sampleCount |-> size \div (Channels * 8)]

Padded(bytes) == bytes \o [i \in 1..Block - Len(bytes) |-> Pad]

\* The next byte of a frame of length len; a pass over the channels that began
\* within the frame may go beyond its end.
ByteAt(frame, i, len) == IF i <= len THEN <<frame, i>> ELSE Stale

\* Mutant of Turn: buf_ptr advances also when the byte was not taken.
TurnAlwaysAdvances(a, c, len) ==
    IF Len(a.buffer[c]) < Block /\ Len(a.buffer[c]) < len \div Channels
    THEN [a EXCEPT !.buffer[c] = Append(@, ByteAt(Len(frames) + 1, a.next, len)), !.next = @ + 1]
    ELSE [a EXCEPT !.buffer[c] = <<>>, !.samples = @ + Len(a.buffer[c]), !.next = @ + 1,
                   !.out = Append(@, [channel |-> c, bytes |-> Padded(a.buffer[c])])]

\* One turn of the inner loop: the channel takes a byte, or, when its buffer is
\* full or holds a frame's share, gives a block away.
Turn(a, c, len) ==
    IF Len(a.buffer[c]) < Block /\ Len(a.buffer[c]) < len \div Channels
    THEN [a EXCEPT !.buffer[c] = Append(@, ByteAt(Len(frames) + 1, a.next, len)), !.next = @ + 1]
    ELSE [a EXCEPT !.buffer[c] = <<>>, !.samples = @ + Len(a.buffer[c]),
                   !.out = Append(@, [channel |-> c, bytes |-> Padded(a.buffer[c])])]

\* The inner loop: a byte for every channel, or every channel's buffer emptied.
Pass(a, len) ==
    LET turns[c \in 0..Channels] == IF c = 0 THEN a ELSE Turn(turns[c - 1], c, len)
    IN turns[Channels]

\* The outer loop, until the frame is used up.
Spread(len) ==
    LET start == [buffer |-> buffer, next |-> 1, samples |-> 0, out |-> <<>>]
        passes[n \in 0..2 * len] ==
            IF n = 0 THEN start
            ELSE LET a == passes[n - 1] IN IF a.next > len THEN a ELSE Pass(a, len)
    IN passes[2 * len]

\* dsf_write_frame; what it returns is the size of the blocks, which the caller
\* moves on.
WriteFrame(len) ==
    LET a == Spread(len) IN
    /\ Len(frames) < MaxFrames
    /\ buffer' = a.buffer
    /\ blocks' = blocks \o a.out
    /\ audioSize' = audioSize + Block * Len(a.out)
    /\ sampleCount' = sampleCount + a.samples
    /\ frames' = Append(frames, len)

\* The next file: its handle is a new one.
Reopen == /\ Len(frames) = MaxFrames
          /\ buffer' = [c \in 1..Channels |-> <<>>]
          /\ blocks' = <<>> /\ frames' = <<>> /\ audioSize' = 0 /\ sampleCount' = 0

Next == Reopen \/ \E len \in FrameLens : WriteFrame(len)
Spec == Init /\ [][Next]_vars
-----------------------------------------------------------------------------
(* Properties.                                                             *)

DsfTypeOK == /\ \A c \in 1..Channels : Len(buffer[c]) <= Block
             /\ \A i \in DOMAIN blocks : blocks[i].channel \in 1..Channels /\ Len(blocks[i].bytes) = Block
             /\ audioSize = Block * Len(blocks) /\ sampleCount \in Nat
             /\ frames \in Seq(FrameLens)

\* What a channel should have got: of each frame every Channels-th byte.
Share(frame, len, c) ==
    [k \in 1..(len + Channels - 1) \div Channels |-> ByteAt(frame, (k - 1) * Channels + c, len)]
Expected(c) == FlattenSeq([frame \in DOMAIN frames |-> Share(frame, frames[frame], c)])

\* What it got, read as a player does, who finds a channel's blocks by their places.
BlocksOf(c) == [k \in 1..Len(blocks) \div Channels |-> blocks[(k - 1) * Channels + c].bytes]
Given(c) == FlattenSeq(BlocksOf(c)) \o buffer[c]
WithoutPads(s) == FlattenSeq([i \in DOMAIN s |-> IF s[i] = Pad THEN <<>> ELSE <<s[i]>>])

\* The blocks come for the channels in turn, and the bytes of a channel that
\* have left or are waiting are those of the frames, in order, none lost and
\* none of another channel's; only a frame shorter than a block brings padding
\* into the middle; and the samples counted are those in the blocks.
BlocksHoldTheChannels ==
    /\ Len(blocks) % Channels = 0
    /\ \A i \in DOMAIN blocks : blocks[i].channel = ((i - 1) % Channels) + 1
    /\ \A c \in 1..Channels :
          /\ WithoutPads(Given(c)) = Expected(c)
          /\ (\A i \in DOMAIN frames : frames[i] \div Channels >= Block) => Pad \notin ToSet(Given(c))
    /\ sampleCount = Len(WithoutPads(FlattenSeq([i \in DOMAIN blocks |-> blocks[i].bytes])))
==============================================================================
