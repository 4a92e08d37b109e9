----------------------------- MODULE SharedPool ------------------------------
(***************************************************************************)
(* What a buffer pool promises to the threads that share it: getting,      *)
(* sharing and dropping a space each happen at one instant.                *)
(***************************************************************************)
EXTENDS SpacePool

CONSTANTS Threads, Limit

VARIABLES pool,
          users       \* users[t] is the set of spaces thread t uses, one at most

vars == <<pool, users>>

Init == pool = EmptyPool(Limit) /\ users = [t \in Threads |-> {}]

Get(t) == /\ users[t] = {}
          /\ \E s \in Available(pool) :
                /\ pool' = AfterGet(pool, s)
                /\ users' = [users EXCEPT ![t] = {s}]

\* One user hands its space to another thread and keeps it.
Share(t, u) == /\ users[t] # {} /\ users[u] = {}
               /\ users' = [users EXCEPT ![u] = users[t]]
               /\ UNCHANGED pool

\* The space is free again when its last user drops it.
Drop(t) == \E s \in users[t] :
              /\ users' = [users EXCEPT ![t] = {}]
              /\ pool' = IF \E u \in Threads \ {t} : s \in users[u]
                         THEN pool ELSE AfterDrop(pool, s)

\* buffer_pool_free, when nobody uses the pool, and buffer_pool_create.
Recreate == /\ \A t \in Threads : users[t] = {}
            /\ pool' = EmptyPool(Limit)
            /\ UNCHANGED users

Next == \/ \E t \in Threads : Get(t) \/ Drop(t)
        \/ \E t, u \in Threads : Share(t, u)
        \/ Recreate

Spec == Init /\ [][Next]_vars
==============================================================================
