------------------------------ MODULE HashChain ------------------------------
(***************************************************************************)
(* The chains of common/list.h (hlist): a head points to the first node,   *)
(* a node to the next one and back to the cell that points to it.          *)
(***************************************************************************)
EXTENDS Sequences, SequencesExt, FiniteSets

CONSTANTS Chains, Nodes, Null

ChainAssumption == Chains \cap Nodes = {} /\ Null \notin Chains \cup Nodes

VARIABLE chain           \* the memory: a function from Cells

first(h) == <<h, "first">>
next(n) == <<n, "next">>
pprev(n) == <<n, "pprev">>
Links == (Chains \X {"first"}) \cup (Nodes \X {"next"})
Cells == Links \cup (Nodes \X {"pprev"})

Put(m, writes) ==
    LET after[i \in 0..Len(writes)] ==
            IF i = 0 THEN m ELSE [after[i - 1] EXCEPT ![writes[i][1]] = writes[i][2]]
    IN after[Len(writes)]

\* An assignment under "if (n)".
PutIf(n, write) == IF n = Null THEN <<>> ELSE <<write>>
-----------------------------------------------------------------------------
hlist_unhashed(m, n) == m[pprev(n)] = Null
hlist_empty(m, h) == m[first(h)] = Null

detach(m, n) ==
    LET after == m[next(n)] IN
    Put(m, <<<<m[pprev(n)], after>>>> \o PutIf(after, <<pprev(after), m[pprev(n)]>>))

hlist_del(m, n) == Put(detach(m, n), <<<<next(n), Null>>, <<pprev(n), Null>>>>)
hlist_del_rcu(m, n) == Put(detach(m, n), <<<<pprev(n), Null>>>>)
hlist_del_init(m, n) == IF hlist_unhashed(m, n) THEN m ELSE hlist_del(m, n)

hlist_replace_rcu(m, old, new) ==
    LET after == m[next(old)] IN
    Put(m, <<<<next(new), after>>, <<pprev(new), m[pprev(old)]>>>>
           \o PutIf(after, <<pprev(after), next(new)>>)
           \o <<<<m[pprev(old)], new>>, <<pprev(old), Null>>>>)

hlist_add_head(m, n, h) ==
    LET f == m[first(h)] IN
    Put(m, <<<<next(n), f>>>> \o PutIf(f, <<pprev(f), next(n)>>) \o <<<<first(h), n>>, <<pprev(n), first(h)>>>>)
hlist_add_head_rcu(m, n, h) ==
    LET f == m[first(h)] IN
    Put(m, <<<<next(n), f>>, <<pprev(n), first(h)>>>> \o PutIf(f, <<pprev(f), next(n)>>) \o <<<<first(h), n>>>>)

\* Of two arguments the first is the new node in one, the second in the other.
hlist_add_before(m, n, x) ==
    Put(m, <<<<pprev(n), m[pprev(x)]>>, <<next(n), x>>, <<pprev(x), next(n)>>, <<m[pprev(x)], n>>>>)
hlist_add_after(m, x, n) ==
    LET after == m[next(x)] IN
    Put(m, <<<<next(n), after>>, <<next(x), n>>, <<pprev(n), next(x)>>>> \o PutIf(after, <<pprev(after), next(n)>>))
hlist_add_after_rcu(m, x, n) ==
    LET after == m[next(x)] IN
    Put(m, <<<<next(n), after>>, <<pprev(n), next(x)>>, <<next(x), n>>>> \o PutIf(after, <<pprev(after), next(n)>>))

\* What hlist_for_each visits.
Visited(m, h) ==
    LET from[k \in 0..Cardinality(Nodes)] ==
            IF k = 0 THEN <<>>
            ELSE LET s == from[k - 1]
                     x == IF s = <<>> THEN m[first(h)] ELSE m[next(Last(s))]
                 IN IF x = Null \/ Len(s) < k - 1 THEN s ELSE Append(s, x)
    IN from[Cardinality(Nodes)]
-----------------------------------------------------------------------------
\* The nodes are made by INIT_HLIST_NODE, the heads by INIT_HLIST_HEAD.
Init == chain = [c \in Cells |-> Null]

On(n) == \E h \in Chains : n \in ToSet(Visited(chain, h))

AddHead(n, h) == ~On(n) /\ chain' \in {hlist_add_head(chain, n, h), hlist_add_head_rcu(chain, n, h)}
AddBefore(n, x) == ~On(n) /\ On(x) /\ chain' = hlist_add_before(chain, n, x)
AddAfter(n, x) == ~On(n) /\ On(x) /\ chain' \in {hlist_add_after(chain, x, n), hlist_add_after_rcu(chain, x, n)}
Delete(n) == On(n) /\ chain' \in {hlist_del(chain, n), hlist_del_rcu(chain, n), hlist_del_init(chain, n)}
DeleteAgain(n) == ~On(n) /\ chain' = hlist_del_init(chain, n)
Replace(n, new) == On(n) /\ ~On(new) /\ chain' = hlist_replace_rcu(chain, n, new)

Next == \/ \E n \in Nodes, h \in Chains : AddHead(n, h)
        \/ \E n, x \in Nodes : AddBefore(n, x) \/ AddAfter(n, x) \/ Replace(n, x)
        \/ \E n \in Nodes : Delete(n) \/ DeleteAgain(n)
Spec == Init /\ [][Next]_chain
-----------------------------------------------------------------------------
ChainTypeOK == \A c \in Cells : chain[c] \in (IF c \in Links THEN Nodes ELSE Links) \cup {Null}

\* A node is on one chain or hashed nowhere, and points back to the one cell that
\* points to it, so that it can be removed without its head.
ChainsHoldTogether ==
    \A n \in Nodes :
      IF On(n) THEN {c \in Links : chain[c] = n /\ (c[1] \in Chains \/ On(c[1]))} = {chain[pprev(n)]}
               ELSE hlist_unhashed(chain, n)
==============================================================================
