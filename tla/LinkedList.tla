------------------------------ MODULE LinkedList ------------------------------
(***************************************************************************)
(* The circular lists of common/list.h: the frames of an ID3 tag and the   *)
(* ripping queue.  Memory is a function from the cells <<x, field>> of     *)
(* heads and entries to what they point to; an operation takes the memory  *)
(* and returns it as its assignments leave it, in their order.             *)
(***************************************************************************)
EXTENDS SequencesExt, FiniteSets

CONSTANTS Heads, Nodes, Null, Poison

ListAssumption == Heads \cap Nodes = {} /\ {Null, Poison} \cap (Heads \cup Nodes) = {} /\ Null # Poison

VARIABLES mem,           \* the memory
          walk           \* a loop over a list, or NoWalk

vars == <<mem, walk>>

Places == Heads \cup Nodes
Cells == Places \X {"next", "prev"}
next(x) == <<x, "next">>
prev(x) == <<x, "prev">>

\* Assignments, one after the other.
Put(m, writes) ==
    LET after[i \in 0..Len(writes)] ==
            IF i = 0 THEN m ELSE [after[i - 1] EXCEPT ![writes[i][1]] = writes[i][2]]
    IN after[Len(writes)]
-----------------------------------------------------------------------------
(* The operations.                                                         *)

INIT_LIST_HEAD(m, x) == Put(m, <<<<next(x), x>>, <<prev(x), x>>>>)

link_between(m, n, p, q) == Put(m, <<<<prev(q), n>>, <<next(n), q>>, <<prev(n), p>>, <<next(p), n>>>>)
list_add(m, n, h) == link_between(m, n, h, m[next(h)])
list_add_tail(m, n, h) == link_between(m, n, m[prev(h)], h)

\* The variants for lists that are read without a lock assign in another order.
link_between_rcu(m, n, p, q) == Put(m, <<<<next(n), q>>, <<prev(n), p>>, <<prev(q), n>>, <<next(p), n>>>>)
list_add_rcu(m, n, h) == link_between_rcu(m, n, h, m[next(h)])
list_add_tail_rcu(m, n, h) == link_between_rcu(m, n, m[prev(h)], h)

\* Mutant of unlink: the entry behind still points to the removed one.
unlink_one_way(m, p, q) == Put(m, <<<<next(p), q>>>>)

unlink(m, p, q) == Put(m, <<<<prev(q), p>>, <<next(p), q>>>>)
list_del(m, n) == Put(unlink(m, m[prev(n)], m[next(n)]), <<<<next(n), Null>>, <<prev(n), Null>>>>)
list_del_rcu(m, n) == Put(unlink(m, m[prev(n)], m[next(n)]), <<<<prev(n), Poison>>>>)
list_del_init(m, n) == INIT_LIST_HEAD(unlink(m, m[prev(n)], m[next(n)]), n)

list_replace_rcu(m, old, new) ==
    Put(m, <<<<next(new), m[next(old)]>>, <<prev(new), m[prev(old)]>>,
             <<prev(m[next(old)]), new>>, <<next(m[prev(old)]), new>>, <<prev(old), Poison>>>>)

list_move(m, n, h) == list_add(unlink(m, m[prev(n)], m[next(n)]), n, h)
list_move_tail(m, n, h) == list_add_tail(unlink(m, m[prev(n)], m[next(n)]), n, h)

list_empty(m, h) == m[next(h)] = h
list_empty_careful(m, h) == m[next(h)] = h /\ m[prev(h)] = h

splice_after(m, list, head) ==
    LET first == m[next(list)]
        last == m[prev(list)]
        at == m[next(head)]
    IN Put(m, <<<<prev(first), head>>, <<next(head), first>>, <<next(last), at>>, <<prev(at), last>>>>)
\* list_splice leaves the emptied head as it was: its caller must not use it before it is made anew.
list_splice(m, list, head) == IF list_empty(m, list) THEN m ELSE splice_after(m, list, head)
list_splice_init(m, list, head) ==
    IF list_empty(m, list) THEN m ELSE INIT_LIST_HEAD(splice_after(m, list, head), list)
-----------------------------------------------------------------------------
(* What a list holds, read by its pointers in one direction.               *)

Entries(m, h, field) ==
    LET from[k \in 0..Cardinality(Nodes)] ==
            IF k = 0 THEN <<>>
            ELSE LET s == from[k - 1]
                     x == m[<<IF s = <<>> THEN h ELSE Last(s), field>>]
                 IN IF x \in Nodes /\ Len(s) = k - 1 THEN Append(s, x) ELSE s
    IN from[Cardinality(Nodes)]

Forward(h) == Entries(mem, h, "next")
On(n) == \E h \in Heads : n \in ToSet(Forward(h))
-----------------------------------------------------------------------------
(* The callers: an entry is added when it is on no list and removed when   *)
(* it is on one, as the documentation asks.                                *)

NoWalk == [kind |-> "none"]

Init == /\ mem \in {[c \in Cells |-> IF c[1] \in Heads THEN c[1] ELSE Null]}
        /\ walk = NoWalk

Idle == walk = NoWalk /\ UNCHANGED walk
Add(n, h) == Idle /\ ~On(n) /\ mem' \in {list_add(mem, n, h), list_add_rcu(mem, n, h)}
AddTail(n, h) == Idle /\ ~On(n) /\ mem' \in {list_add_tail(mem, n, h), list_add_tail_rcu(mem, n, h)}
Delete(n) == Idle /\ On(n) /\ mem' \in {list_del(mem, n), list_del_rcu(mem, n), list_del_init(mem, n)}
Move(n, h) == Idle /\ On(n) /\ mem' = list_move(mem, n, h)
MoveTail(n, h) == Idle /\ On(n) /\ mem' = list_move_tail(mem, n, h)
Replace(n, new) == Idle /\ On(n) /\ ~On(new) /\ mem' = list_replace_rcu(mem, n, new)
Splice(h, g) == Idle /\ h # g /\ mem' \in {list_splice_init(mem, h, g), INIT_LIST_HEAD(list_splice(mem, h, g), h)}

\* list_for_each and its variants: pos, and for the safe ones the entry after
\* it, read before the body runs.  rest: what it still has to visit.
Step(m, x, field) == m[<<x, field>>]
StartWalk(h, field, safe) ==
    LET pos == Step(mem, h, field) IN
    /\ walk = NoWalk
    /\ walk' = [kind |-> "each", head |-> h, field |-> field, safe |-> safe, pos |-> pos,
                ahead |-> IF safe THEN Step(mem, pos, field) ELSE Null,
                rest |-> IF field = "next" THEN Forward(h) ELSE Reverse(Forward(h))]
    /\ UNCHANGED mem

\* Mutant of NextOf: a safe loop reads the next entry when it goes on.
NextOfLate(w) == Step(mem, w.pos, w.field)

NextOf(w) == IF w.safe THEN w.ahead ELSE Step(mem, w.pos, w.field)

\* One turn: the body of a safe loop may remove the entry it is at.
Visit ==
    /\ walk # NoWalk /\ walk.pos # walk.head
    /\ LET to == NextOf(walk) IN
       walk' = [walk EXCEPT !.pos = to, !.rest = IF @ = <<>> THEN @ ELSE Tail(@),
                            !.ahead = IF walk.safe /\ to \in Places THEN Step(mem, to, walk.field) ELSE Null]
    /\ UNCHANGED mem
DeleteVisited ==
    /\ walk # NoWalk /\ walk.safe /\ walk.pos # walk.head /\ On(walk.pos)
    /\ mem' = list_del(mem, walk.pos)
    /\ UNCHANGED walk
EndWalk == walk # NoWalk /\ walk.pos = walk.head /\ walk' = NoWalk /\ UNCHANGED mem

Next == \/ \E n \in Nodes, h \in Heads : Add(n, h) \/ AddTail(n, h) \/ Move(n, h) \/ MoveTail(n, h)
        \/ \E n \in Nodes : Delete(n)
        \/ \E n, new \in Nodes : Replace(n, new)
        \/ \E h, g \in Heads : Splice(h, g)
        \/ \E h \in Heads, field \in {"next", "prev"}, safe \in BOOLEAN : StartWalk(h, field, safe)
        \/ Visit \/ DeleteVisited \/ EndWalk
Spec == Init /\ [][Next]_vars
-----------------------------------------------------------------------------
(* Properties.                                                             *)

ListTypeOK == mem \in [Cells -> Places \cup {Null, Poison}]

\* The pointers hold together: read backwards a list is what it is forwards, in
\* reverse, a list that looks empty one way does both ways, and a loop visits the
\* entries that were on the list when it began, each once, in order.
PointersAgree ==
    /\ \A h \in Heads : /\ Entries(mem, h, "prev") = Reverse(Forward(h))
                        /\ list_empty(mem, h) = list_empty_careful(mem, h)
                        /\ list_empty(mem, h) = (Forward(h) = <<>>)
    /\ walk # NoWalk => walk.pos = IF walk.rest = <<>> THEN walk.head ELSE Head(walk.rest)

\* The operations do to the pointers what SequenceLists says of sequences.
Sequences == INSTANCE SequenceLists WITH lists <- [h \in Heads |-> Forward(h)]
ListsAreSequences == Sequences!Spec
==============================================================================
