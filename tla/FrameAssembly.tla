---------------------------- MODULE FrameAssembly ----------------------------
(***************************************************************************)
(* Putting audio frames together from the packets of a track's sectors     *)
(* (scarletbook_process_frames in scarletbook_read.c).                     *)
(*                                                                         *)
(* A sector has a flag that says whether its audio is DST encoded, its     *)
(* packets, and one frame info for each packet that starts a frame.  A     *)
(* frame is the packet that starts it and the audio packets up to the next *)
(* start, in as many sectors as it takes; when the next one starts, or the *)
(* track ends, it is given to the read callback if it is complete.         *)
(***************************************************************************)
EXTENDS Integers, SequencesExt, FiniteSets

CONSTANTS MaxDst,        \* MAX_DST_SIZE, the room for a frame's data
          FrameSize,     \* FRAME_SIZE_64: DSD frames are a multiple of it
          Sectors,       \* the sectors that may be read
          MaxPackets     \* bound: audio packets in one track

ASSUME SizesAssumption == MaxDst \in Nat \ {0} /\ FrameSize \in Nat \ {0} /\ MaxPackets \in Nat

\* A sector has room for as many frame infos as packets.
ASSUME SectorsAssumption ==
    \A sector \in Sectors :
       /\ sector.dst \in BOOLEAN /\ sector.infos \in Seq(Nat)
       /\ sector.packets \in Seq([audio : BOOLEAN, start : BOOLEAN, length : Nat])
       /\ Cardinality({i \in DOMAIN sector.packets : sector.packets[i].audio /\ sector.packets[i].start})
             <= Len(sector.infos)

VARIABLES frame,         \* handle->frame: its data as the packets first..last
          packets,       \* history: the audio packets of the track so far
          delivered,     \* history: what the callback got, as [first, last]
          ended          \* whether the last sector of the track was processed

vars == <<frame, packets, delivered, ended>>

NoFrame == [started |-> FALSE, size |-> 0, dst |-> FALSE, sectorCount |-> 0,
            first |-> 0, last |-> 0]

\* scarletbook_frame_init, at the start of a track
Init == /\ frame = NoFrame
        /\ packets = <<>> /\ delivered = <<>> /\ ended = FALSE

\* Mutant of Deliverable: the packets of a DST frame are not counted.
DeliverableUncounted(f) ==
    f.started /\ f.size > 0 /\ (f.dst \/ f.size % FrameSize = 0)

\* exec_read_callback on the assembly a = [frame, packets, delivered]: a DST
\* frame must have as many packets as its frame info says, a DSD frame the
\* right size.
Deliverable(f) == /\ f.started /\ f.size > 0
                  /\ IF f.dst THEN f.sectorCount = 0 ELSE f.size % FrameSize = 0

ExecReadCallback(a) ==
    IF Deliverable(a.frame)
    THEN [a EXCEPT !.frame.started = FALSE,
                   !.delivered = Append(@, [first |-> a.frame.first, last |-> a.frame.last])]
    ELSE a

\* A frame begins: the one before it is done with.  The frame infos of the
\* sector are used in turn.
StartFrame(a, sector) ==
    LET done == ExecReadCallback(a) IN
    [done EXCEPT !.frame = [started |-> TRUE, size |-> 0, dst |-> sector.dst,
                            sectorCount |-> sector.infos[a.counter],
                            first |-> Len(a.packets) + 1, last |-> Len(a.packets)],
                 !.counter = @ + 1]

\* The packet's data are appended, or the frame is given up: "buffer overflow
\* error, try next frame".
AppendPacket(a, packet) ==
    IF ~a.frame.started THEN a
    ELSE IF a.frame.size + packet.length < MaxDst
    THEN [a EXCEPT !.frame.size = @ + packet.length,
                   !.frame.sectorCount = IF a.frame.dst THEN @ - 1 ELSE @,
                   !.frame.last = Len(a.packets) + 1]
    ELSE [a EXCEPT !.frame.started = FALSE]

\* What happens with one packet; supplementary data and padding are passed over.
TakePacket(a, packet, sector) ==
    IF ~packet.audio THEN a
    ELSE LET begun == IF packet.start THEN StartFrame(a, sector) ELSE a
             count == IF packet.start THEN sector.infos[a.counter] ELSE 0
         IN [AppendPacket(begun, packet) EXCEPT
               !.packets = Append(@, [start |-> packet.start, length |-> packet.length,
                                      dst |-> sector.dst, count |-> count])]

TakePackets(sector) ==
    FoldLeft(LAMBDA a, packet : TakePacket(a, packet, sector),
             [frame |-> frame, packets |-> packets, delivered |-> delivered, counter |-> 1],
             sector.packets)

\* scarletbook_process_frames, a sector at a time; last is last_block.
ProcessSector(sector, last) ==
    LET taken == TakePackets(sector)
        a == IF last THEN ExecReadCallback(taken) ELSE taken IN
    /\ ~ended
    /\ Len(a.packets) <= MaxPackets
    /\ frame' = a.frame /\ packets' = a.packets /\ delivered' = a.delivered
    /\ ended' = last

\* The next track begins.
FrameInit == ended /\ frame' = NoFrame /\ packets' = <<>> /\ delivered' = <<>> /\ ended' = FALSE

Next == FrameInit \/ \E sector \in Sectors, last \in BOOLEAN : ProcessSector(sector, last)

Spec == Init /\ [][Next]_vars
-----------------------------------------------------------------------------
(* Properties.                                                             *)

\* The types of the fields; the count of sectors may fall below zero.
TypeOK == /\ frame.started \in BOOLEAN /\ frame.dst \in BOOLEAN /\ ended \in BOOLEAN
          /\ frame.size \in 0..MaxDst - 1 /\ frame.sectorCount \in Int
          /\ frame.first \in 0..Len(packets) /\ frame.last \in 0..Len(packets)
          /\ \A i \in DOMAIN delivered : delivered[i].last \in delivered[i].first..Len(packets)

SizeOf(i, j) == SumFunctionOnSet([k \in 1..Len(packets) |-> packets[k].length], i..j)

\* The packets i..j are a frame of the track: from a start to before the next.
IsFrame(i, j) == /\ i \in DOMAIN packets /\ packets[i].start /\ i <= j
                 /\ \A k \in i + 1..j : ~packets[k].start
                 /\ IF j = Len(packets) THEN ended ELSE packets[j + 1].start

\* It is whole: it fits and has the packets or the size it should have.
IsWhole(i, j) == /\ SizeOf(i, j) \in 1..MaxDst - 1
                 /\ IF packets[i].dst THEN j - i + 1 = packets[i].count
                    ELSE SizeOf(i, j) % FrameSize = 0

\* The callback gets exactly the whole frames of the track, in order: none
\* twice, none of two frames' packets, none that lost a packet; and a damaged
\* frame does not take the next one with it.
DeliversTheWholeFrames ==
    /\ ToSet(delivered) = {[first |-> f[1], last |-> f[2]] : f \in
          {p \in (1..Len(packets)) \X (1..Len(packets)) : IsFrame(p[1], p[2]) /\ IsWhole(p[1], p[2])}}
    /\ \A i, j \in DOMAIN delivered : i < j => delivered[i].last < delivered[j].first
==============================================================================
