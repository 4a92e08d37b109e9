--------------------------- MODULE EncryptedRanges ---------------------------
(***************************************************************************)
(* Which sectors are read together.  The sectors of the two audio areas    *)
(* are encrypted, the others are not, and one batch of sectors is          *)
(* decrypted or not as a whole: it must not cross the border of an area.   *)
(* CSACDFile::Read and processing_thread have the same code for it.        *)
(***************************************************************************)
EXTENDS Integers

CONSTANTS MaxBatch,              \* MAX_PROCESSING_BLOCK_SIZE
          Start1, End1,          \* track_start and track_end of area[0] ...
          Start2, End2           \* ... and of area[1]; 0 when it has no TOC

ASSUME BatchAssumption == MaxBatch \in Nat \ {0}

\* The areas do not overlap; the second one, if there is one, comes later, and
\* no audio lies in sector 0.
ASSUME AreasAssumption ==
    /\ {Start1, End1, Start2, End2} \subseteq Nat
    /\ \/ Start1 = 0 /\ End1 = 0
       \/ 0 < Start1 /\ Start1 <= End1
    /\ \/ Start2 = 0 /\ End2 = 0
       \/ End1 < Start2 /\ Start2 <= End2

InEncryptedArea(lsn) == \/ Start1 # 0 /\ lsn \in Start1..End1
                        \/ Start2 # 0 /\ lsn \in Start2..End2

Least(a, b) == IF a < b THEN a ELSE b

\* Mutant of Batch: an area's last sector is not taken for one of it.
BatchWithoutLast(lsn) ==
    IF lsn < Start1 THEN [size |-> Least(Start1 - lsn, MaxBatch), encrypted |-> FALSE]
    ELSE IF lsn < End1 THEN [size |-> Least(End1 - lsn, MaxBatch), encrypted |-> TRUE]
    ELSE IF lsn < Start2 THEN [size |-> Least(Start2 - lsn, MaxBatch), encrypted |-> FALSE]
    ELSE IF lsn >= Start2 /\ lsn <= End2
         THEN [size |-> Least(End2 + 1 - lsn, MaxBatch), encrypted |-> TRUE]
    ELSE [size |-> MaxBatch, encrypted |-> FALSE]

\* The comparisons are tried in this order; the last case is what is beyond
\* both areas.
Batch(lsn) ==
    IF lsn < Start1 THEN [size |-> Least(Start1 - lsn, MaxBatch), encrypted |-> FALSE]
    ELSE IF lsn <= End1 THEN [size |-> Least(End1 + 1 - lsn, MaxBatch), encrypted |-> TRUE]
    ELSE IF lsn < Start2 THEN [size |-> Least(Start2 - lsn, MaxBatch), encrypted |-> FALSE]
    ELSE IF lsn >= Start2 /\ lsn <= End2
         THEN [size |-> Least(End2 + 1 - lsn, MaxBatch), encrypted |-> TRUE]
    ELSE [size |-> MaxBatch, encrypted |-> FALSE]

\* ... and not beyond the end of the track.
NextBatch(lsn, end) == [Batch(lsn) EXCEPT !.size = Least(end - lsn, @)]
==============================================================================
