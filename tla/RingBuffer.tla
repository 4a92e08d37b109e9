----------------------------- MODULE RingBuffer ------------------------------
(***************************************************************************)
(* CRingBuffer (src/RingBuffer.cpp): the byte buffer between the decrypted *)
(* frames and the reads of the media player.  Each method is one action:   *)
(* the add-on uses a buffer from one thread.  (Module RingLock has the     *)
(* methods' locking.)  A call on its own argument (r.Append(r)) is left    *)
(* out: nothing makes one.                                                 *)
(***************************************************************************)
EXTENDS Integers, Sequences

CONSTANTS Rings,        \* the ring buffer objects
          Bytes,        \* what a cell may hold once written
          MaxSize,      \* bound: sizes of buffers and transfers
          Garbage       \* what new char[size] leaves in a cell

ASSUME SizeAssumption == MaxSize \in Nat
ASSUME GarbageAssumption == Garbage \notin Bytes

VARIABLES ring,         \* ring[r]: the members of object r
          answer        \* what the last call returned

ringVars == <<ring, answer>>

\* m_buffer is nullptr until Create; its cells are counted from 0.
NullRing == [null |-> TRUE, buffer |-> <<>>, size |-> 0,
             readPtr |-> 0, writePtr |-> 0, fillCount |-> 0]

Smaller(a, b) == IF a < b THEN a ELSE b

\* Mutant of Advance: a pointer that reaches the end stays there.
AdvanceToEnd(b, ptr, n) == IF n + ptr > b.size THEN n - (b.size - ptr) ELSE ptr + n

\* A pointer of b after n bytes: past the end it wraps, at the end it is 0.
Advance(b, ptr, n) ==
    LET moved == IF n + ptr > b.size THEN n - (b.size - ptr) ELSE ptr + n
    IN IF moved = b.size THEN 0 ELSE moved

\* The n bytes from readPtr on, the ones beyond the end from cell 0 on.
Peek(b, n) ==
    LET chunk == Smaller(n, b.size - b.readPtr)
    IN [i \in 1..n |-> IF i <= chunk THEN b.buffer[b.readPtr + i - 1]
                                     ELSE b.buffer[i - chunk - 1]]

\* Mutant of Poke: what is beyond the end begins with the first byte again.
PokeTwice(b, data) ==
    LET n == Len(data)
        chunk == Smaller(n, b.size - b.writePtr)
    IN [c \in 0..b.size - 1 |->
           IF c >= b.writePtr /\ c < b.writePtr + chunk THEN data[c - b.writePtr + 1]
           ELSE IF c < n - chunk THEN data[c + 1]
           ELSE b.buffer[c]]

\* The cells with data copied in from writePtr on, beyond the end from cell 0 on.
Poke(b, data) ==
    LET n == Len(data)
        chunk == Smaller(n, b.size - b.writePtr)
    IN [c \in 0..b.size - 1 |->
           IF c >= b.writePtr /\ c < b.writePtr + chunk THEN data[c - b.writePtr + 1]
           ELSE IF c < n - chunk THEN data[c + chunk + 1]
           ELSE b.buffer[c]]

MaxReadSize(b) == b.fillCount
MaxWriteSize(b) == b.size - b.fillCount

\* What the methods leave in an object.
Created(b, size) == [b EXCEPT !.null = FALSE, !.size = size,
                              !.buffer = [c \in 0..size - 1 |-> Garbage]]
Cleared(b) == [b EXCEPT !.readPtr = 0, !.writePtr = 0, !.fillCount = 0]
Skipped(b, n) == [b EXCEPT !.readPtr = Advance(b, @, n), !.fillCount = @ - n]
Written(b, data) == [b EXCEPT !.buffer = Poke(b, data),
                              !.writePtr = Advance(b, @, Len(data)),
                              !.fillCount = @ + Len(data)]

RingInit == /\ ring = [r \in Rings |-> NullRing]
            /\ answer = [ok |-> TRUE, data |-> <<>>]

Answer(ok, data) == answer' = [ok |-> ok, data |-> data]
Refuse == Answer(FALSE, <<>>)
Accept == Answer(TRUE, <<>>)

\* The callers create a buffer once, or again after Destroy.
Create(r, size) == /\ ring[r].null
                   /\ ring' = [ring EXCEPT ![r] = Created(@, size)]
                   /\ Accept

Destroy(r) == ring' = [ring EXCEPT ![r] = NullRing] /\ Accept

Clear(r) == ring' = [ring EXCEPT ![r] = Cleared(@)] /\ Accept

\* ReadData to memory
ReadData(r, n) ==
    IF n > ring[r].fillCount
    THEN Refuse /\ UNCHANGED ring
    ELSE /\ Answer(TRUE, Peek(ring[r], n))
         /\ ring' = [ring EXCEPT ![r] = Skipped(@, n)]

\* WriteData from memory
WriteData(r, data) ==
    IF Len(data) > MaxWriteSize(ring[r])
    THEN Refuse /\ UNCHANGED ring
    ELSE Accept /\ ring' = [ring EXCEPT ![r] = Written(@, data)]

\* Mutant of SkipBytes: more may be skipped than there is.
SkipAnything(r, n) ==
    IF n < 0 THEN Refuse /\ UNCHANGED ring
    ELSE Accept /\ ring' = [ring EXCEPT ![r] = Skipped(@, n)]

SkipBytes(r, n) ==
    IF n < 0 \/ n > ring[r].fillCount
    THEN Refuse /\ UNCHANGED ring
    ELSE Accept /\ ring' = [ring EXCEPT ![r] = Skipped(@, n)]

\* The source's bytes reach the target in one or two calls of WriteData: up to
\* the end of the source's memory, then from its start.
Transferred(source, target, n) ==
    LET data == Peek(source, n)
        chunk == Smaller(n, source.size - source.readPtr)
        first == Written(target, SubSeq(data, 1, chunk))
    IN IF chunk < n THEN Written(first, SubSeq(data, chunk + 1, n)) ELSE first

Ready(b, n) == IF b.null THEN Created(b, n) ELSE b

\* ReadData(rBuf): r's first n bytes go to s.
ReadInto(r, s, n) ==
    LET target == Ready(ring[s], n) IN
    /\ r # s
    /\ IF n <= MaxWriteSize(target) /\ n <= MaxReadSize(ring[r])
       THEN /\ Accept
            /\ ring' = [ring EXCEPT ![s] = Transferred(ring[r], target, n),
                                    ![r] = Skipped(@, n)]
       ELSE Refuse /\ ring' = [ring EXCEPT ![s] = target]

\* WriteData(rBuf) of s, whose members are object: the source keeps its bytes.
WriteInto(s, object, source, n) ==
    LET target == Ready(object, n) IN
    IF n <= MaxReadSize(source) /\ n <= MaxWriteSize(target)
    THEN Accept /\ ring' = [ring EXCEPT ![s] = Transferred(source, target, n)]
    ELSE Refuse /\ ring' = [ring EXCEPT ![s] = target]

WriteFrom(s, r, n) == r # s /\ WriteInto(s, ring[s], ring[r], n)

Append_(s, r) == r # s /\ WriteInto(s, ring[s], ring[r], MaxReadSize(ring[r]))

Copy(s, r) == r # s /\ WriteInto(s, Cleared(ring[s]), ring[r], MaxReadSize(ring[r]))

RingNext == \/ \E r \in Rings : Destroy(r) \/ Clear(r)
            \/ \E r \in Rings, n \in 0..MaxSize : Create(r, n) \/ ReadData(r, n)
            \/ \E r \in Rings, n \in -1..MaxSize : SkipBytes(r, n)
            \/ \E r \in Rings, n \in 0..MaxSize : \E data \in [1..n -> Bytes] : WriteData(r, data)
            \/ \E r, s \in Rings, n \in 0..MaxSize : ReadInto(r, s, n) \/ WriteFrom(s, r, n)
            \/ \E r, s \in Rings : Append_(s, r) \/ Copy(s, r)

RingSpec == RingInit /\ [][RingNext]_ringVars
-----------------------------------------------------------------------------
(* Properties.                                                             *)

RingObjects == [null : BOOLEAN, size : Nat, readPtr : Nat, writePtr : Nat, fillCount : Nat,
           buffer : UNION {[0..n - 1 -> Bytes \cup {Garbage}] : n \in 0..MaxSize}]

\* Every member keeps its C++ type: nothing goes below zero.
RingTypeOK == /\ ring \in [Rings -> RingObjects]
              /\ answer \in [ok : BOOLEAN, data : Seq(Bytes)]

PtrOK(b, p) == p < b.size \/ (p = 0 /\ b.size = 0)

\* The two pointers lie inside the buffer and are fillCount bytes apart; the
\* free space that m_size - m_fillCount computes on unsigned numbers is real.
PointersAgree ==
    \A r \in Rings : LET b == ring[r] IN
        /\ b.fillCount <= b.size
        /\ PtrOK(b, b.readPtr) /\ PtrOK(b, b.writePtr)
        /\ \/ b.writePtr = b.readPtr + b.fillCount
           \/ b.writePtr = b.readPtr + b.fillCount - b.size

\* The bytes that wait in an object, and how many it has room for in all.
Content(b) == Peek(b, b.fillCount)
CapacityOf(b) == IF b.null THEN -1 ELSE b.size

Contents == [r \in Rings |-> Content(ring[r])]
Capacities == [r \in Rings |-> CapacityOf(ring[r])]

\* A ring buffer is a queue of bytes.
Queue == INSTANCE ByteQueue WITH queue <- Contents, capacity <- Capacities

IsAQueue == Queue!Spec
==============================================================================
