------------------------------- MODULE MCLocks -------------------------------
(***************************************************************************)
(* What the threads of the program lock and wait for: BufferPool with more *)
(* threads than spaces, launching and joining, and the lock of the ring    *)
(* buffer.  They are checked one at a time: part says which of them runs,  *)
(* and the others stand still.                                             *)
(***************************************************************************)
EXTENDS BufferPool

CONSTANTS Callers, Workers,      \* of Yarn
          Users, MaxDepth       \* of RingLock

VARIABLES part,
          yarnOwner, yarnValue, sleeping, threads, done, yarnPc, ally, launcher,    \* Yarn
          owner, levels, m_iLockCount, lockPc, depth, left, ended                   \* RingLock

yarnVars == <<yarnOwner, yarnValue, sleeping, threads, done, yarnPc, ally, launcher>>
lockVars == <<owner, levels, m_iLockCount, lockPc, depth, left, ended>>
locksVars == <<part, vars, yarnVars, lockVars>>

MCGarbage == "garbage"

Threading == INSTANCE Yarn WITH owner <- yarnOwner, value <- yarnValue, pc <- yarnPc
Lock == INSTANCE RingLock WITH Threads <- Users, pc <- lockPc

ASSUME LocksAssumption == Threading!YarnAssumption /\ Lock!RingLockAssumption
-----------------------------------------------------------------------------
YarnStep(A) == part = "yarn" /\ A /\ UNCHANGED <<part, vars, lockVars>>

LocksInit == part \in {"pool", "yarn", "ring lock"} /\ Init /\ Threading!Init /\ Lock!Init

LocksNext == \/ part = "pool" /\ Next /\ UNCHANGED <<part, yarnVars, lockVars>>
             \/ YarnStep(Threading!Next)
             \/ part = "ring lock" /\ Lock!Next /\ UNCHANGED <<part, vars, yarnVars>>

\* The fairness of Yarn.
LocksSpec == /\ LocksInit /\ [][LocksNext]_locksVars
             /\ \A c \in Callers : WF_locksVars(YarnStep(Threading!Inside(c)))
             /\ \A w \in Workers : WF_locksVars(YarnStep(Threading!Work(w)))
-----------------------------------------------------------------------------
\* BufferPool: the count on which the getters wait is the number of spaces on the
\* list, and so whoever is let past it finds one; no assertion of the code fails.
NoAssertionEverFails == TypeOK /\ HaveCountsTheList /\ NoAssertionFails

\* Yarn: the list has the threads that were launched and not joined, and the value
\* of threads_lock counts those of them that have ended.
ListTellsTheThreads == Threading!YarnTypeOK /\ Threading!ListTellsTheThreads

\* Yarn: a join comes back.
JoinsReturn == Threading!JoinsReturn

\* RingLock: a thread has the mutex all through its scope unless a scope inside it
\* has ended since, and when no thread is in a scope nobody has it.
ScopesHoldTheLock == Lock!RingLockTypeOK /\ Lock!ScopesHoldTheLock
==============================================================================
