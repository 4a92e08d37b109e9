------------------------------ MODULE MCVfsFile ------------------------------
(***************************************************************************)
(* VfsFile on a disc whose sectors 2..5 and 8..10 are encrypted; one track *)
(* covers every border of the areas, the other lies across the first end.  *)
(* The discs are encrypted, with a format that is probed or not, or plain. *)
(* And the buffer behind the reads: RingBuffer with two objects that       *)
(* exchange bytes.  They are checked one at a time: part says which of the *)
(* two runs, and the other stands still.                                   *)
(***************************************************************************)
EXTENDS VfsFile, RingBuffer, TLC

CONSTANT Parts          \* what is checked: the file, the ring buffer

VARIABLE part

playerVars == <<part, vars, ringVars>>

MCFirst == [h \in Handles |-> IF h = "a" THEN 1 ELSE 4]
MCEnd == [h \in Handles |-> IF h = "a" THEN 13 ELSE 6]
MCTagSize == [h \in Handles |-> IF h = "a" THEN 2 ELSE 1]
MCDiscs == {[encrypted |-> TRUE, probed |-> TRUE], [encrypted |-> TRUE, probed |-> FALSE],
            [encrypted |-> FALSE, probed |-> TRUE]}
MCEncryptedDiscs == {[encrypted |-> TRUE, probed |-> FALSE]}

\* The names of the ring buffers and of the bytes do not matter.
Symmetric == Permutations(Rings) \cup Permutations(Bytes)

PlayerInit == part \in Parts /\ Init /\ RingInit
PlayerNext == \/ part = "file" /\ Next /\ UNCHANGED <<part, ringVars>>
              \/ part = "ring" /\ RingNext /\ UNCHANGED <<part, vars>>
PlayerSpec == PlayerInit /\ [][PlayerNext]_playerVars
==============================================================================
