--------------------------------- MODULE Yarn ---------------------------------
(***************************************************************************)
(* Launching and joining threads with dstdec/yarn.c.  The threads that run *)
(* or were not joined yet are on a list; threads_lock protects it, and its *)
(* value counts the threads that have ended, for join_all to wait on.      *)
(*                                                                         *)
(* Callers launch and join; whoever launched a thread joins it once, or    *)
(* one of them joins all when no other join is going on (yarn.h).  A step  *)
(* is what happens while threads_lock is held, up to where the lock is     *)
(* given back or another thread is waited for.                             *)
(***************************************************************************)
EXTENDS Integers, SequencesExt

CONSTANTS Callers, Workers

VARIABLES owner, value, sleeping,   \* threads_lock: mutex, value, who waits for a signal
          threads, done,            \* the list, and which of its threads are marked
          pc, ally,                 \* ally: whom a caller launches or joins
          launcher                  \* of each thread, NoOne before its launch

vars == <<owner, value, sleeping, threads, done, pc, ally, launcher>>

NoOne == "no one"

YarnAssumption == Callers \cap Workers = {} /\ NoOne \notin Callers \cup Workers

Init == /\ owner = NoOne /\ value = 0 /\ sleeping = {} /\ threads = <<>> /\ done = {}
        /\ pc = [t \in Callers \cup Workers |-> IF t \in Callers THEN "idle" ELSE "unborn"]
        /\ ally = [c \in Callers |-> NoOne] /\ launcher = [w \in Workers |-> NoOne]

lock == <<owner, value, sleeping>>
list == <<threads, done>>
Goto(t, place) == pc' = [pc EXCEPT ![t] = place]
Without(w) == RemoveFirst(threads, w)
JoiningAll == {"joinAll", "asleep", "joinDone"}
-----------------------------------------------------------------------------
(* launch                                                                  *)

\* possess(threads_lock) and pthread_create: the new thread runs at once.
LaunchCreate(c, w) ==
    /\ pc[c] = "idle" /\ pc[w] = "unborn" /\ owner = NoOne
    /\ owner' = c
    /\ pc' = [pc EXCEPT ![c] = "launched", ![w] = "running"]
    /\ ally' = [ally EXCEPT ![c] = w] /\ launcher' = [launcher EXCEPT ![w] = c]
    /\ UNCHANGED <<value, sleeping, list>>

\* Mutant of LaunchInsert: a thread is put in the place of the list.
LaunchAlone(c) == /\ pc[c] = "launched" /\ owner' = NoOne
                  /\ threads' = <<ally[c]>>
                  /\ Goto(c, "idle") /\ ally' = [ally EXCEPT ![c] = NoOne]
                  /\ UNCHANGED <<value, sleeping, done, launcher>>

LaunchInsert(c) == /\ pc[c] = "launched" /\ owner' = NoOne
                   /\ threads' = <<ally[c]>> \o threads
                   /\ Goto(c, "idle") /\ ally' = [ally EXCEPT ![c] = NoOne]
                   /\ UNCHANGED <<value, sleeping, done, launcher>>
-----------------------------------------------------------------------------
(* ignition: probe returns, reenter announces it, the thread exits.        *)

Return(w) == pc[w] = "running" /\ Goto(w, "reenter")
             /\ UNCHANGED <<lock, list, ally, launcher>>

\* Mutant of Reenter: the signal is forgotten.
ReenterQuietly(w) ==
    /\ pc[w] = "reenter" /\ owner = NoOne
    /\ IF w \in ToSet(threads)
       THEN /\ threads' = <<w>> \o Without(w) /\ done' = done \cup {w}
            /\ value' = value + 1 /\ Goto(w, "leaving")
       ELSE Goto(w, "failed") /\ UNCHANGED <<value, list>>
    /\ UNCHANGED <<owner, sleeping, ally, launcher>>

\* reenter: marked and moved to the head of the list, then twist.
Reenter(w) ==
    /\ pc[w] = "reenter" /\ owner = NoOne
    /\ IF w \in ToSet(threads)
       THEN /\ threads' = <<w>> \o Without(w) /\ done' = done \cup {w}
            /\ value' = value + 1 /\ sleeping' = {} /\ Goto(w, "leaving")
       ELSE Goto(w, "failed") /\ UNCHANGED <<value, sleeping, list>>
    /\ UNCHANGED <<owner, ally, launcher>>

Exit(w) == pc[w] = "leaving" /\ Goto(w, "exited")
           /\ UNCHANGED <<lock, list, ally, launcher>>
-----------------------------------------------------------------------------
(* join, and destruct, which does no more.                                 *)

CallJoin(c, w) == /\ pc[c] = "idle" /\ launcher[w] = c
                  /\ \A d \in Callers : pc[d] \notin JoiningAll
                  /\ Goto(c, "join") /\ ally' = [ally EXCEPT ![c] = w]
                  /\ UNCHANGED <<lock, list, launcher>>

\* pthread_join, before the lock is taken.
JoinWait(c) == /\ pc[c] = "join" /\ pc[ally[c]] = "exited"
               /\ Goto(c, "joined")
               /\ UNCHANGED <<lock, list, ally, launcher>>

\* Removed from the list, counted out, and freed.
Forget(w) == /\ threads' = Without(w) /\ done' = done \ {w}
             /\ launcher' = [launcher EXCEPT ![w] = NoOne]

JoinRemove(c) ==
    /\ pc[c] = "joined" /\ owner = NoOne
    /\ IF ally[c] \in ToSet(threads)
       THEN /\ value' = IF ally[c] \in done THEN value - 1 ELSE value
            /\ Forget(ally[c]) /\ pc' = [pc EXCEPT ![c] = "idle", ![ally[c]] = "joined"]
       ELSE Goto(c, "failed") /\ UNCHANGED <<value, list, launcher>>
    /\ ally' = [ally EXCEPT ![c] = NoOne]
    /\ UNCHANGED <<owner, sleeping>>
-----------------------------------------------------------------------------
(* join_all                                                                *)

CallJoinAll(c) == /\ pc[c] = "idle" /\ owner = NoOne
                  /\ \A d \in Callers : pc[d] \notin JoiningAll \cup {"join", "joined"}
                  /\ owner' = c /\ Goto(c, "joinAll")
                  /\ UNCHANGED <<value, sleeping, list, ally, launcher>>

\* The loop: until the list is empty, wait_for the value not to be 0; the lock is
\* free while it waits, and taken again after the signal.
JoinAllEnd(c) == /\ pc[c] = "joinAll" /\ threads = <<>>
                 /\ owner' = NoOne /\ Goto(c, "idle")
                 /\ UNCHANGED <<value, sleeping, list, ally, launcher>>
JoinAllSleep(c) == /\ pc[c] = "joinAll" /\ threads # <<>> /\ value = 0
                   /\ owner' = NoOne /\ sleeping' = sleeping \cup {c} /\ Goto(c, "asleep")
                   /\ UNCHANGED <<value, list, ally, launcher>>
JoinAllWake(c) == /\ pc[c] = "asleep" /\ c \notin sleeping /\ owner = NoOne
                  /\ owner' = c /\ Goto(c, "joinAll")
                  /\ UNCHANGED <<value, sleeping, list, ally, launcher>>

\* The first thread on the list that is marked.
JoinAllFind(c) ==
    /\ pc[c] = "joinAll" /\ threads # <<>> /\ value # 0
    /\ IF \E w \in ToSet(threads) : w \in done
       THEN /\ ally' = [ally EXCEPT ![c] = threads[SelectInSeq(threads, LAMBDA w : w \in done)]]
            /\ Goto(c, "joinDone")
       ELSE Goto(c, "failed") /\ UNCHANGED ally
    /\ UNCHANGED <<lock, list, launcher>>

\* It is waited for with the lock held, which it does not need any more.
JoinAllRemove(c) == /\ pc[c] = "joinDone" /\ pc[ally[c]] = "exited"
                    /\ value' = value - 1 /\ Forget(ally[c])
                    /\ pc' = [pc EXCEPT ![c] = "joinAll", ![ally[c]] = "joined"]
                    /\ ally' = [ally EXCEPT ![c] = NoOne]
                    /\ UNCHANGED <<owner, sleeping>>
-----------------------------------------------------------------------------
\* Bound: a thread of the same name is launched again when nobody is busy.
Again == /\ threads = <<>> /\ \A c \in Callers : pc[c] = "idle"
         /\ pc' = [t \in Callers \cup Workers |-> IF t \in Callers THEN "idle" ELSE "unborn"]
         /\ UNCHANGED <<lock, list, ally, launcher>>

Inside(c) == \/ LaunchInsert(c) \/ JoinWait(c) \/ JoinRemove(c) \/ JoinAllEnd(c)
             \/ JoinAllSleep(c) \/ JoinAllWake(c) \/ JoinAllFind(c) \/ JoinAllRemove(c)
Work(w) == Return(w) \/ Reenter(w) \/ Exit(w)

Next == \/ \E c \in Callers, w \in Workers : LaunchCreate(c, w) \/ CallJoin(c, w)
        \/ \E c \in Callers : CallJoinAll(c) \/ Inside(c)
        \/ \E w \in Workers : Work(w)
        \/ Again

\* A call is carried on with; what was launched comes to its end.
Fairness == /\ \A c \in Callers : WF_vars(Inside(c))
            /\ \A w \in Workers : WF_vars(Work(w))
Spec == Init /\ [][Next]_vars /\ Fairness
-----------------------------------------------------------------------------
(* Properties.                                                             *)

YarnTypeOK ==
    /\ owner \in Callers \cup {NoOne} /\ value \in Nat /\ sleeping \subseteq Callers
    /\ threads \in Seq(Workers) /\ done \subseteq Workers
    /\ ally \in [Callers -> Workers \cup {NoOne}] /\ launcher \in [Workers -> Callers \cup {NoOne}]
    /\ pc \in [Callers \cup Workers -> {"idle", "launched", "join", "joined", "joinAll", "asleep", "joinDone",
                                        "unborn", "running", "reenter", "leaving", "exited", "failed"}]

\* Whoever takes threads_lock finds on the list, once each, the threads that were
\* launched and not joined, and as its value how many of them have ended: a thread
\* that ends finds itself and join_all finds who has ended, or the process exits.
ListTellsTheThreads ==
    /\ \A t \in Callers \cup Workers : pc[t] # "failed"
    /\ IsInjective(threads)
    /\ owner = NoOne => ToSet(threads) = {w \in Workers : launcher[w] # NoOne}
    /\ value = Cardinality(done) /\ done \subseteq ToSet(threads)

\* A join comes back once the thread has ended, and join_all once all have.
JoinsReturn == \A c \in Callers : pc[c] \in JoiningAll \cup {"join"} ~> pc[c] = "idle"
==============================================================================
