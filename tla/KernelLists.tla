------------------------------ MODULE KernelLists ------------------------------
(***************************************************************************)
(* The two kinds of lists of common/list.h in one place: circular lists    *)
(* and hash chains, with heads and entries of the same names.              *)
(***************************************************************************)
EXTENDS Integers, FiniteSets

CONSTANTS Heads, Nodes, Null, Poison        \* model values

VARIABLES mem, walk,                        \* LinkedList
          chain                             \* HashChain

Lists == INSTANCE LinkedList
Chained == INSTANCE HashChain WITH Chains <- Heads

\* There are finitely many entries, so that every list comes to an end.
ASSUME ListsAssumption == Lists!ListAssumption /\ Chained!ChainAssumption /\ IsFiniteSet(Nodes)

\* LinkedList: every operation does to the pointers what it does to a sequence.
ListsAreSequences == Lists!ListsAreSequences

\* LinkedList and HashChain: the two directions of a list and the loops over it
\* agree, and what points to a node of a chain is what the node points back to.
PointersHoldTogether == /\ Lists!ListTypeOK /\ Lists!PointersAgree
                        /\ Chained!ChainTypeOK /\ Chained!ChainsHoldTogether
==============================================================================
