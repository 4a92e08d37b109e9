----------------------------- MODULE SequenceLists -----------------------------
(***************************************************************************)
(* What list.h promises: a list is a sequence of entries, and each         *)
(* operation does to it what its comment says.  No entry is on two lists.  *)
(***************************************************************************)
EXTENDS SequencesExt

CONSTANTS Heads, Nodes

VARIABLES lists          \* [Heads -> Seq(Nodes)]

Linked == UNION {ToSet(lists[h]) : h \in Heads}

\* s without n, which is in it at most once.
Dropped(s, n) == IF n \in ToSet(s) THEN RemoveAt(s, CHOOSE i \in DOMAIN s : s[i] = n) ELSE s
Without(n) == [h \in Heads |-> Dropped(lists[h], n)]

Init == lists = [h \in Heads |-> <<>>]

\* A stack's and a queue's way to add an entry.
Add(n, h) == n \notin Linked /\ lists' = [lists EXCEPT ![h] = <<n>> \o @]
AddTail(n, h) == n \notin Linked /\ lists' = [lists EXCEPT ![h] = Append(@, n)]

Delete(n) == n \in Linked /\ lists' = Without(n)

\* An entry goes to the front or the end of a list, its own or another.
Move(n, h) == n \in Linked /\ lists' = [Without(n) EXCEPT ![h] = <<n>> \o @]
MoveTail(n, h) == n \in Linked /\ lists' = [Without(n) EXCEPT ![h] = Append(@, n)]

\* A new entry takes an old one's place.
Replace(old, new) ==
    /\ old \in Linked /\ new \notin Linked
    /\ lists' = [h \in Heads |-> ReplaceAll(lists[h], old, new)]

\* All entries of a list go to the front of another.
Splice(h, g) == h # g /\ lists' = [lists EXCEPT ![g] = lists[h] \o @, ![h] = <<>>]

Next == \/ \E n \in Nodes, h \in Heads : Add(n, h) \/ AddTail(n, h) \/ Move(n, h) \/ MoveTail(n, h)
        \/ \E n \in Nodes : Delete(n)
        \/ \E n, m \in Nodes : Replace(n, m)
        \/ \E h, g \in Heads : Splice(h, g)

Spec == Init /\ [][Next]_lists
==============================================================================
