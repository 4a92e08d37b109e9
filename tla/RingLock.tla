------------------------------- MODULE RingLock -------------------------------
(***************************************************************************)
(* The lock of the ring buffer (CMutex and CLockObject in src/Helpers.h).  *)
(* CMutex counts how often its recursive mutex was taken.  A CLockObject   *)
(* of the ring buffer takes it once, and as its scope ends gives back all  *)
(* that its thread has, so a scope inside a scope ends them both.          *)
(*                                                                         *)
(* In this program one thread uses a ring buffer; the lock is modelled for *)
(* any number of them.                                                     *)
(*                                                                         *)
(* m_iLockCount is only touched by the thread that has the mutex, so that  *)
(* taking the mutex and counting it are one step.                          *)
(***************************************************************************)
EXTENDS Integers, FiniteSets

CONSTANTS Threads,
          MaxDepth       \* bound: scopes inside each other

VARIABLES owner, levels,      \* m_mutex: a std::recursive_mutex
          m_iLockCount,
          pc, depth,          \* of each thread: what it does, in how many scopes
          left,               \* how often Clear still calls Unlock
          ended               \* a scope inside the present one has ended

vars == <<owner, levels, m_iLockCount, pc, depth, left, ended>>

NoOne == "no one"

RingLockAssumption == MaxDepth \in Nat \ {0} /\ NoOne \notin Threads

Init == /\ owner = NoOne /\ levels = 0 /\ m_iLockCount = 0
        /\ pc = [t \in Threads |-> "code"] /\ depth = [t \in Threads |-> 0]
        /\ left = [t \in Threads |-> 0] /\ ended = [t \in Threads |-> FALSE]

Goto(t, place) == pc' = [pc EXCEPT ![t] = place]

\* CMutex::Lock: waits unless the mutex is free or the thread's own.
Lock(t) == owner \in {NoOne, t} /\ owner' = t /\ levels' = levels + 1 /\ m_iLockCount' = m_iLockCount + 1

\* One level is counted down and given back.
GiveBack == /\ m_iLockCount' = m_iLockCount - 1 /\ levels' = levels - 1
            /\ owner' = IF levels = 1 THEN NoOne ELSE owner

mutex == <<owner, levels, m_iLockCount>>
-----------------------------------------------------------------------------
\* The constructor of CLockObject.
EnterScope(t) ==
    /\ pc[t] = "code" /\ depth[t] < MaxDepth /\ Lock(t)
    /\ depth' = [depth EXCEPT ![t] = @ + 1]
    /\ ended' = [ended EXCEPT ![t] = FALSE]
    /\ UNCHANGED <<pc, left>>

\* The destructor calls Clear: TryLock, and then Unlock for each level there is.
LeaveScope(t) ==
    /\ pc[t] = "code" /\ depth[t] > 0
    /\ IF owner \in {NoOne, t}
       THEN Lock(t) /\ left' = [left EXCEPT ![t] = m_iLockCount'] /\ Goto(t, "clear")
       ELSE Goto(t, "left") /\ UNCHANGED <<mutex, left>>
    /\ UNCHANGED <<depth, ended>>

\* Unlock takes the mutex first, so that it can tell whether the thread had it.
Unlock(t) == /\ pc[t] = "clear" /\ left[t] > 0 /\ Lock(t)
             /\ left' = [left EXCEPT ![t] = @ - 1]
             /\ Goto(t, "unlock")
             /\ UNCHANGED <<depth, ended>>

\* Mutant of UnlockOwn: the level that was the thread's own is kept.
UnlockOwnKept(t) == /\ pc[t] = "unlock" /\ m_iLockCount >= 2
                    /\ UNCHANGED mutex /\ Goto(t, "unlockLast")
                    /\ UNCHANGED <<depth, left, ended>>

\* Then the level it had, if any, goes back, and the level just taken.
UnlockOwn(t) == /\ pc[t] = "unlock" /\ m_iLockCount >= 2
                /\ GiveBack /\ Goto(t, "unlockLast")
                /\ UNCHANGED <<depth, left, ended>>

UnlockLast(t) == /\ pc[t] = "unlockLast" \/ (pc[t] = "unlock" /\ m_iLockCount < 2)
                 /\ GiveBack /\ Goto(t, "clear")
                 /\ UNCHANGED <<depth, left, ended>>

Cleared(t) == /\ pc[t] = "clear" /\ left[t] = 0
              /\ Goto(t, "left")
              /\ UNCHANGED <<mutex, depth, left, ended>>

\* Behind the scope.
Outside(t) == /\ pc[t] = "left" /\ Goto(t, "code")
              /\ depth' = [depth EXCEPT ![t] = @ - 1]
              /\ ended' = [ended EXCEPT ![t] = depth[t] > 1]
              /\ UNCHANGED <<mutex, left>>

Next == \E t \in Threads : \/ EnterScope(t) \/ LeaveScope(t) \/ Unlock(t)
                           \/ UnlockOwn(t) \/ UnlockLast(t) \/ Cleared(t) \/ Outside(t)

Spec == Init /\ [][Next]_vars
-----------------------------------------------------------------------------
(* Properties.                                                             *)

RingLockTypeOK ==
    /\ owner \in Threads \cup {NoOne} /\ levels \in Nat /\ m_iLockCount \in Nat
    /\ pc \in [Threads -> {"code", "clear", "unlock", "unlockLast", "left"}]
    /\ depth \in [Threads -> 0..MaxDepth] /\ left \in [Threads -> 0..MaxDepth + 1] /\ ended \in [Threads -> BOOLEAN]

\* A thread has the mutex all through its scope unless a scope inside it has
\* ended since; when no thread is in a scope nobody has it; and what Clear gives back
\* are the thread's own levels, however the other threads come in between.
ScopesHoldTheLock ==
    /\ \A t \in Threads : pc[t] = "code" /\ depth[t] > 0 /\ ~ended[t] => owner = t
    /\ (\A t \in Threads : pc[t] = "code" /\ depth[t] = 0) => owner = NoOne
    /\ m_iLockCount = levels /\ (owner = NoOne <=> levels = 0)
==============================================================================
