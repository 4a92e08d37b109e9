------------------------------ MODULE DiscInput ------------------------------
(***************************************************************************)
(* Reading sectors of a disc image through the media player's file         *)
(* (the sacd_vfs_input functions of src/SACDFile.cpp, which                *)
(* sacd_input_setup puts behind sacd_read_block_raw).  A byte of the image *)
(* is told from the others by its place, so byte b of the image is b.      *)
(*                                                                         *)
(* Authentication and decryption do nothing for such an image.  The file   *)
(* is the player's: a seek may be refused, a read may fail or be short.    *)
(***************************************************************************)
EXTENDS Integers, SequencesExt

CONSTANTS LsnSize,      \* SACD_LSN_SIZE
          IntRange,     \* INT_MAX + 1
          ImageSize,    \* bytes of the image
          MaxBlocks     \* bound: sectors asked for at once

ASSUME LsnAssumption == LsnSize \in Nat \ {0}
ASSUME IntAssumption == IntRange \in Nat \ {0}
ASSUME ImageAssumption == ImageSize \in Nat /\ MaxBlocks \in Nat \ {0}

VARIABLES pc,
          filePos,             \* where the player's file stands
          request,             \* the position and the blocks of the call
          buffer, result,      \* what was read, and the blocks it returned
          missed               \* history: the file refused to go to the request's
                               \* sectors, and stood elsewhere

vars == <<pc, filePos, request, buffer, result, missed>>

NoRequest == [pos |-> 0, blocks |-> 0]
Sectors == ImageSize \div LsnSize   \* total_sectors

\* What the width of int leaves of n.
Wrapped(n) == ((n + IntRange) % (2 * IntRange)) - IntRange

\* pos * SACD_LSN_SIZE is a product of ints; when it overflows, the build may
\* wrap it or have widened its factors first.
Offsets(pos) == {Wrapped(pos * LsnSize), pos * LsnSize}

Init == /\ pc = "closed" /\ filePos = 0 /\ request = NoRequest
        /\ buffer = <<>> /\ result = 0 /\ missed = FALSE

\* An open that fails leaves everything as it is.
Open == /\ pc = "closed"
        /\ pc' = "open" /\ filePos' = 0
        /\ UNCHANGED <<request, buffer, result, missed>>

Close == /\ pc = "open"
         /\ pc' = "closed" /\ request' = NoRequest /\ buffer' = <<>> /\ result' = 0 /\ missed' = FALSE
         /\ UNCHANGED filePos

\* Mutant of Seek: the file is read on from where it stands.
NoSeek(pos, blocks) ==
    /\ pc = "open"
    /\ pc' = "reading" /\ request' = [pos |-> pos, blocks |-> blocks]
    /\ buffer' = <<>> /\ result' = 0 /\ missed' = FALSE
    /\ UNCHANGED filePos

\* sacd_vfs_input_read is called and seeks.  The file refuses what lies outside of
\* it, and may refuse anything else; the answer is not looked at.
Seek(pos, blocks) ==
    /\ pc = "open"
    /\ pc' = "reading" /\ request' = [pos |-> pos, blocks |-> blocks]
    /\ \E offset \in Offsets(pos), refuses \in BOOLEAN :
          /\ filePos' = IF refuses \/ offset \notin 0..ImageSize THEN filePos ELSE offset
          /\ missed' = (refuses /\ offset \in 0..ImageSize \ {filePos})
    /\ buffer' = <<>> /\ result' = 0

\* It reads as many bytes as the file gives, of which whole sectors count.
ReadBytes ==
    /\ pc = "reading"
    /\ \E bytes \in 0..request.blocks * LsnSize :
          /\ filePos + bytes <= ImageSize
          /\ buffer' = [i \in 1..bytes |-> filePos + i - 1]
          /\ filePos' = filePos + bytes
          /\ result' = bytes \div LsnSize
    /\ pc' = "open"
    /\ UNCHANGED <<request, missed>>

Next == \/ Open \/ Close \/ ReadBytes
        \/ \E pos \in 0..Sectors - 1, blocks \in 1..MaxBlocks : Seek(pos, blocks)

Spec == Init /\ [][Next]_vars
-----------------------------------------------------------------------------
(* Properties.                                                             *)

TypeOK ==
    /\ pc \in {"closed", "open", "reading"} /\ filePos \in 0..ImageSize
    /\ request \in [pos : Nat, blocks : Nat]
    /\ buffer \in Seq(Nat) /\ result \in Nat /\ missed \in BOOLEAN

\* The sectors that a read reports are those that were asked for, and not more:
\* wherever the last read left the file, and however short this one is.  Only a
\* seek that was needed and that the file refused leads to others, which are
\* reported all the same.
ReadsTheBlocksAskedFor ==
    /\ result <= request.blocks
    /\ result * LsnSize <= Len(buffer)
    /\ ~missed => \A i \in 1..result * LsnSize : buffer[i] = request.pos * LsnSize + i - 1
==============================================================================
