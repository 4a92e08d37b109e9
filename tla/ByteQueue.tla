------------------------------ MODULE ByteQueue ------------------------------
(***************************************************************************)
(* What a ring buffer promises: it is a queue of bytes of a fixed          *)
(* capacity.  An operation does all it is asked or answers FALSE, and the  *)
(* bytes come out in the order in which they went in.                      *)
(***************************************************************************)
EXTENDS Integers, Sequences

CONSTANTS Rings, Bytes, MaxSize

VARIABLES queue,        \* queue[r]: the bytes waiting in r
          capacity,     \* capacity[r], or None before Create
          answer        \* [ok, data] of the last operation

vars == <<queue, capacity, answer>>

None == -1
Room(r) == IF capacity[r] = None THEN 0 ELSE capacity[r] - Len(queue[r])

Answer(ok, data) == answer' = [ok |-> ok, data |-> data]
Refuse == Answer(FALSE, <<>>)
Accept == Answer(TRUE, <<>>)

FirstBytes(q, n) == SubSeq(q, 1, n)
Rest(q, n) == SubSeq(q, n + 1, Len(q))

Init == /\ queue = [r \in Rings |-> <<>>]
        /\ capacity = [r \in Rings |-> None]
        /\ answer = [ok |-> TRUE, data |-> <<>>]

Create(r, size) == /\ capacity[r] = None
                   /\ capacity' = [capacity EXCEPT ![r] = size]
                   /\ Accept /\ UNCHANGED queue

Destroy(r) == /\ capacity' = [capacity EXCEPT ![r] = None]
              /\ queue' = [queue EXCEPT ![r] = <<>>]
              /\ Accept

Clear(r) == /\ queue' = [queue EXCEPT ![r] = <<>>]
            /\ Accept /\ UNCHANGED capacity

Write(r, data) == IF Len(data) <= Room(r)
                  THEN queue' = [queue EXCEPT ![r] = @ \o data] /\ Accept /\ UNCHANGED capacity
                  ELSE Refuse /\ UNCHANGED <<queue, capacity>>

Read(r, n) == IF n <= Len(queue[r])
              THEN /\ Answer(TRUE, FirstBytes(queue[r], n))
                   /\ queue' = [queue EXCEPT ![r] = Rest(@, n)]
                   /\ UNCHANGED capacity
              ELSE Refuse /\ UNCHANGED <<queue, capacity>>

Skip(r, n) == IF n \in 0..Len(queue[r])
              THEN /\ Accept /\ queue' = [queue EXCEPT ![r] = Rest(@, n)]
                   /\ UNCHANGED capacity
              ELSE Refuse /\ UNCHANGED <<queue, capacity>>

\* A ring that has no buffer gets one of just the size that is transferred.
MadeFor(r, n) == IF capacity[r] = None THEN [capacity EXCEPT ![r] = n] ELSE capacity
RoomFor(r, n) == IF capacity[r] = None THEN n ELSE Room(r)

\* Move takes the bytes from r, CopyTo leaves them there.
Move(r, s, n) ==
    /\ r # s /\ capacity' = MadeFor(s, n)
    /\ IF n <= RoomFor(s, n) /\ n <= Len(queue[r])
       THEN Accept /\ queue' = [queue EXCEPT ![s] = @ \o FirstBytes(queue[r], n),
                                             ![r] = Rest(@, n)]
       ELSE Refuse /\ UNCHANGED queue

CopyTo(r, s, n) ==
    /\ r # s /\ capacity' = MadeFor(s, n)
    /\ IF n <= RoomFor(s, n) /\ n <= Len(queue[r])
       THEN Accept /\ queue' = [queue EXCEPT ![s] = @ \o FirstBytes(queue[r], n)]
       ELSE Refuse /\ UNCHANGED queue

\* Replace empties s first, even if r's content turns out not to fit.
Replace(r, s) ==
    LET n == Len(queue[r])
        cap == MadeFor(s, n) IN
    /\ r # s /\ capacity' = cap
    /\ IF n <= cap[s]
       THEN Accept /\ queue' = [queue EXCEPT ![s] = queue[r]]
       ELSE Refuse /\ queue' = [queue EXCEPT ![s] = <<>>]

Next == \/ \E r \in Rings : Destroy(r) \/ Clear(r)
        \/ \E r \in Rings, n \in 0..MaxSize : Create(r, n) \/ Read(r, n)
        \/ \E r \in Rings, n \in -1..MaxSize : Skip(r, n)
        \/ \E r \in Rings, n \in 0..MaxSize : \E data \in [1..n -> Bytes] : Write(r, data)
        \/ \E r, s \in Rings, n \in 0..MaxSize : Move(r, s, n) \/ CopyTo(r, s, n)
        \/ \E r, s \in Rings : CopyTo(r, s, Len(queue[r])) \/ Replace(r, s)

Spec == Init /\ [][Next]_vars
==============================================================================
