----------------------------- MODULE BufferPool ------------------------------
(***************************************************************************)
(* The locks of a buffer pool (dstdec/buffer_pool.c).  The pool has one,   *)
(* have, whose value counts the free spaces; every space has one, use,     *)
(* whose value counts its users.  Getting a space takes have and then use, *)
(* dropping one takes use and then have.                                   *)
(*                                                                         *)
(* A thread is idle or at the place in an operation where it next takes a  *)
(* lock or changes what a lock protects.  The operations may be called by  *)
(* any thread at any time, except that only a user drops or shares a space *)
(* and that the pool is freed when nobody uses it.                         *)
(***************************************************************************)
EXTENDS Integers, SequencesExt

CONSTANTS Threads,
          Limit,        \* buffer_pool_create's limit, -1 for none
          Garbage

ASSUME LimitAssumption == Limit \in Nat \cup {-1} /\ Limit # 0

VARIABLES limit, made, head,          \* the pool's fields; head as its list
          haveValue, haveOwner,       \* the lock have
          useValue, useOwner,         \* the locks use, by space
          pc,
          space                       \* the space a thread uses or works on

vars == <<limit, made, head, haveValue, haveOwner, useValue, useOwner, pc, space>>

NoOne == "no one"
NoSpace == 0

ASSUME ThreadsAssumption == IsFiniteSet(Threads) /\ NoOne \notin Threads

Spaces == 1..Cardinality(Threads)     \* a thread uses one space at a time

Init ==
    /\ limit = Limit /\ made = 0 /\ head = <<>>
    /\ haveValue = 0 /\ haveOwner = NoOne
    /\ useValue = [s \in Spaces |-> 0] /\ useOwner = [s \in Spaces |-> NoOne]
    /\ pc = [t \in Threads |-> "idle"] /\ space = [t \in Threads |-> NoSpace]

Goto(t, place) == pc' = [pc EXCEPT ![t] = place]
-----------------------------------------------------------------------------
(* buffer_pool_get_space                                                   *)

CallGet(t) == /\ pc[t] = "idle" /\ space[t] = NoSpace
              /\ Goto(t, "getPossess")
              /\ UNCHANGED <<limit, made, head, haveValue, haveOwner, useValue,
                             useOwner, space>>

\* Mutant of GetPossess: nobody waits for a space to come back.
GetWithoutWaiting(t) ==
    /\ pc[t] = "getPossess" /\ haveOwner = NoOne
    /\ haveOwner' = t
    /\ Goto(t, "getSpace")
    /\ UNCHANGED <<limit, made, head, haveValue, useValue, useOwner, space>>

\* possess(have), and wait_for gives it back until there is something to get.
GetPossess(t) ==
    /\ pc[t] = "getPossess" /\ haveOwner = NoOne
    /\ limit = 0 => haveValue # 0
    /\ haveOwner' = t
    /\ Goto(t, "getSpace")
    /\ UNCHANGED <<limit, made, head, haveValue, useValue, useOwner, space>>

\* With both locks, the space is pulled from the list; have is twisted.
GetPull(t) ==
    /\ pc[t] = "getSpace" /\ head # <<>>
    /\ useOwner[Head(head)] = NoOne
    /\ space' = [space EXCEPT ![t] = Head(head)]
    /\ useOwner' = [useOwner EXCEPT ![Head(head)] = t]
    /\ head' = Tail(head)
    /\ haveValue' = haveValue - 1 /\ haveOwner' = NoOne
    /\ Goto(t, "getTwist")
    /\ UNCHANGED <<limit, made, useValue>>

GetTwist(t) ==
    /\ pc[t] = "getTwist"
    /\ useValue' = [useValue EXCEPT ![space[t]] = 1]
    /\ useOwner' = [useOwner EXCEPT ![space[t]] = NoOne]
    /\ Goto(t, "idle")
    /\ UNCHANGED <<limit, made, head, haveValue, haveOwner, space>>

\* Nothing available: a new space, unless the assertion limit != 0 fails.
GetMake(t) ==
    /\ pc[t] = "getSpace" /\ head = <<>>
    /\ IF limit = 0
       THEN Goto(t, "assertFailed") /\ UNCHANGED <<limit, made, haveOwner, useValue, space>>
       ELSE /\ limit' = IF limit > 0 THEN limit - 1 ELSE limit
            /\ made' = made + 1
            /\ haveOwner' = NoOne
            /\ space' = [space EXCEPT ![t] = made']
            /\ useValue' = [useValue EXCEPT ![made'] = 1]
            /\ Goto(t, "idle")
    /\ UNCHANGED <<head, haveValue, useOwner>>
-----------------------------------------------------------------------------
(* buffer_pool_use_space, by a user, for a thread that uses none.          *)

\* Mutant of UseSpace: the new user is not counted.
UseUncounted(t, u) ==
    /\ pc[t] = "idle" /\ space[t] # NoSpace
    /\ pc[u] = "idle" /\ space[u] = NoSpace
    /\ useOwner[space[t]] = NoOne
    /\ space' = [space EXCEPT ![u] = space[t]]
    /\ UNCHANGED <<limit, made, head, haveValue, haveOwner, useValue, useOwner, pc>>

UseSpace(t, u) ==
    /\ pc[t] = "idle" /\ space[t] # NoSpace
    /\ pc[u] = "idle" /\ space[u] = NoSpace
    /\ useOwner[space[t]] = NoOne
    /\ useValue' = [useValue EXCEPT ![space[t]] = @ + 1]
    /\ space' = [space EXCEPT ![u] = space[t]]
    /\ UNCHANGED <<limit, made, head, haveValue, haveOwner, useOwner, pc>>
-----------------------------------------------------------------------------
(* buffer_pool_drop_space                                                  *)

DropPossess(t) ==
    /\ pc[t] = "idle" /\ space[t] # NoSpace
    /\ useOwner[space[t]] = NoOne
    /\ useOwner' = [useOwner EXCEPT ![space[t]] = t]
    /\ Goto(t, CASE useValue[space[t]] = 0 -> "assertFailed"
                 [] useValue[space[t]] = 1 -> "dropReturn"
                 [] OTHER -> "dropTwist")
    /\ UNCHANGED <<limit, made, head, haveValue, haveOwner, useValue, space>>

\* The last user puts the space back on the list while it holds its lock.
DropReturn(t) ==
    /\ pc[t] = "dropReturn" /\ haveOwner = NoOne
    /\ head' = <<space[t]>> \o head
    /\ haveValue' = haveValue + 1
    /\ Goto(t, "lastTwist")
    /\ UNCHANGED <<limit, made, haveOwner, useValue, useOwner, space>>

\* Mutant of DropTwist: the last user does not release the space's lock.
DropWithoutRelease(t) ==
    /\ pc[t] \in {"dropTwist", "lastTwist"}
    /\ useValue' = [useValue EXCEPT ![space[t]] = @ - 1]
    /\ useOwner' = IF pc[t] = "dropTwist"
                   THEN [useOwner EXCEPT ![space[t]] = NoOne] ELSE useOwner
    /\ space' = [space EXCEPT ![t] = NoSpace]
    /\ Goto(t, "idle")
    /\ UNCHANGED <<limit, made, head, haveValue, haveOwner>>

DropTwist(t) ==
    /\ pc[t] \in {"dropTwist", "lastTwist"}
    /\ useValue' = [useValue EXCEPT ![space[t]] = @ - 1]
    /\ useOwner' = [useOwner EXCEPT ![space[t]] = NoOne]
    /\ space' = [space EXCEPT ![t] = NoSpace]
    /\ Goto(t, "idle")
    /\ UNCHANGED <<limit, made, head, haveValue, haveOwner>>
-----------------------------------------------------------------------------
(* buffer_pool_free, with its assertion, and a new buffer_pool_create.     *)

Recreate ==
    /\ \A t \in Threads : pc[t] = "idle" /\ space[t] = NoSpace
    /\ IF Len(head) = made
       THEN /\ limit' = Limit /\ made' = 0 /\ head' = <<>> /\ haveValue' = 0
            /\ UNCHANGED pc
       ELSE /\ \E t \in Threads : Goto(t, "assertFailed")
            /\ UNCHANGED <<limit, made, head, haveValue>>
    /\ UNCHANGED <<haveOwner, useValue, useOwner, space>>

Inside(t) == GetPossess(t) \/ GetPull(t) \/ GetTwist(t) \/ GetMake(t)
             \/ DropReturn(t) \/ DropTwist(t)

Next == \/ \E t \in Threads : CallGet(t) \/ DropPossess(t) \/ Inside(t)
        \/ \E t, u \in Threads : UseSpace(t, u)
        \/ Recreate

Spec == Init /\ [][Next]_vars
-----------------------------------------------------------------------------
(* Properties.                                                             *)

TypeOK ==
    /\ limit \in Nat \cup {-1} /\ made \in 0..Cardinality(Threads)
    /\ head \in Seq(Spaces) /\ haveValue \in Nat
    /\ haveOwner \in Threads \cup {NoOne}
    /\ useValue \in [Spaces -> Nat] /\ useOwner \in [Spaces -> Threads \cup {NoOne}]
    /\ pc \in [Threads -> {"idle", "getPossess", "getSpace", "getTwist", "dropReturn",
                           "dropTwist", "lastTwist", "assertFailed"}]
    /\ space \in [Threads -> Spaces \cup {NoSpace}]

\* The assertions hold: a space that is dropped has a user, whoever is let past
\* the limit finds a free space, and a pool that nobody uses has all its spaces.
NoAssertionFails == \A t \in Threads : pc[t] # "assertFailed"

\* The count on which the getters wait is the number of spaces on the list
\* whenever nobody is inside have, and no space is listed twice.
HaveCountsTheList ==
    /\ haveValue = Len(head)
    /\ \A i, j \in DOMAIN head : head[i] = head[j] => i = j

\* The two operations take their two locks in opposite orders, and yet never
\* wait on each other: unless all threads inside an operation wait for a space
\* of a pool that has none left, one of them can go on.
NoLockCycle ==
    (\E t \in Threads : pc[t] \notin {"idle", "getPossess"} \/
                        (pc[t] = "getPossess" /\ (limit # 0 \/ head # <<>>)))
    => \E t \in Threads : ENABLED Inside(t)

\* Each operation appears to happen at one instant.
Abstract == INSTANCE SharedPool WITH
    pool <- [limit |-> limit, free |-> ToSet(head), data |-> [s \in 1..made |-> Garbage]],
    users <- [t \in Threads |-> IF space[t] = NoSpace \/ pc[t] = "lastTwist"
                                THEN {} ELSE {space[t]}]

ActsAtOnce == Abstract!Spec
==============================================================================
