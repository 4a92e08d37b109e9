------------------------------ MODULE SpacePool ------------------------------
(***************************************************************************)
(* A pool of reusable buffers (dstdec/buffer_pool.c), as a value and the   *)
(* operators that its callers apply to it in one critical section.  Module *)
(* BufferPool has the locks inside each operation and shows that they      *)
(* implement these operators.                                              *)
(*                                                                         *)
(* A space is named by the order in which it was made; data[s] is what its *)
(* memory holds.  free is the set of the spaces on the list pool->head: any*)
(* of them may be handed out next, the order of the list is BufferPool's.  *)
(***************************************************************************)
EXTENDS Integers, Sequences

CONSTANT Garbage      \* what a space's memory holds before it is written

NoLimit == -1

\* buffer_pool_create: nothing is made until it is asked for.
EmptyPool(limit) == [limit |-> limit, free |-> {}, data |-> <<>>]

Made(pool) == Len(pool.data)

\* The spaces that buffer_pool_get_space may return: a free one if there is
\* any, else a new one unless the limit is used up; with none it waits.
Available(pool) == IF pool.free # {} THEN pool.free
                   ELSE IF pool.limit # 0 THEN {Made(pool) + 1} ELSE {}

\* The pool that it leaves behind.
AfterGet(pool, space) ==
    IF space \in pool.free
    THEN [pool EXCEPT !.free = @ \ {space}]
    ELSE [pool EXCEPT !.limit = IF @ > 0 THEN @ - 1 ELSE @,
                      !.data = Append(@, Garbage)]

\* buffer_pool_drop_space by the only user of the space.  The memory is left as
\* it is; nobody may rely on that, so it counts as unwritten again.
AfterDrop(pool, space) == [pool EXCEPT !.free = @ \cup {space},
                                       !.data[space] = Garbage]

\* The caller writes into a space it holds.
Fill(pool, space, content) == [pool EXCEPT !.data[space] = content]

\* buffer_pool_free asserts that every space made has come back.
AllReturned(pool) == pool.free = 1..Made(pool)
==============================================================================
