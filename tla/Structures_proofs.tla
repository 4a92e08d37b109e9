-------------------------- MODULE Structures_proofs --------------------------
(***************************************************************************)
(* The structures that data are kept in.  A ring buffer is a queue of      *)
(* bytes, for buffers, transfers and bytes of every size.  First the       *)
(* pointers: they agree with the fill count (PointersAgree).  Then the     *)
(* bytes: what each method leaves in the memory is what the abstract       *)
(* operation leaves in the queue, so that every step of RingBuffer is a    *)
(* step of ByteQueue (IsAQueue), and the types.                            *)
(*                                                                         *)
(* A list of pointers is a sequence: the invariant says of which sequences *)
(* the memory is the image (Holds), and each operation, assignment by      *)
(* assignment, leaves the image of what SequenceLists makes of them.  A    *)
(* loop has what is left of such a sequence before it (WalkOK).  A hash    *)
(* chain mirrors a list that has all the pointers (Mirrors).               *)
(***************************************************************************)
EXTENDS RingBuffer, KernelLists, FiniteSetTheorems, SequenceTheorems, WellFoundedInduction, TLAPS

\* An object has its members, the ones that count are numbers ...
Members(B) == [null : BOOLEAN, buffer : B, size : Nat, readPtr : Nat, writePtr : Nat,
               fillCount : Nat]
HasMembers(b) == \E B : b \in Members(B)

\* ... and its pointers agree.
Agree(b) ==
    /\ b.fillCount <= b.size
    /\ PtrOK(b, b.readPtr) /\ PtrOK(b, b.writePtr)
    /\ \/ b.writePtr = b.readPtr + b.fillCount
       \/ b.writePtr = b.readPtr + b.fillCount - b.size

\* The inductive invariant of one object: one without memory has no size, so
\* that Create finds its pointers at 0.
Sound(b) == HasMembers(b) /\ Agree(b) /\ (b.null => b.size = 0)

IInv == ring = [r \in Rings |-> ring[r]] /\ \A r \in Rings : Sound(ring[r])

-----------------------------------------------------------------------------
(* What the methods leave is sound.                                        *)

LEMMA MembersAreNumbers ==
    ASSUME NEW b, HasMembers(b)
    PROVE  b.size \in Nat /\ b.readPtr \in Nat /\ b.writePtr \in Nat /\ b.fillCount \in Nat
  BY DEF HasMembers, Members

LEMMA NullIsSound == Sound(NullRing)
  <1>1. NullRing \in Members({<<>>})
    BY DEF NullRing, Members
  <1>2. Agree(NullRing) /\ NullRing.size = 0
    BY DEF NullRing, Agree, PtrOK
  <1> QED BY <1>1, <1>2 DEF Sound, HasMembers

LEMMA ClearedIsSound ==
    ASSUME NEW b, Sound(b)
    PROVE  Sound(Cleared(b))
  <1>1. PICK B : b \in Members(B)
    BY DEF Sound, HasMembers
  <1>2. /\ Cleared(b) \in Members(B)
        /\ Cleared(b).size = b.size /\ Cleared(b).null = b.null
        /\ Cleared(b).readPtr = 0 /\ Cleared(b).writePtr = 0 /\ Cleared(b).fillCount = 0
    BY <1>1 DEF Cleared, Members
  <1>3. Agree(Cleared(b))
    BY <1>2, MembersAreNumbers DEF Agree, PtrOK, Sound
  <1> QED BY <1>2, <1>3 DEF Sound, HasMembers

LEMMA CreatedIsSound ==
    ASSUME NEW b, Sound(b), b.null, NEW size \in Nat
    PROVE  Sound(Created(b, size))
  <1> DEFINE cells == [c \in 0..size - 1 |-> Garbage]
  <1>1. PICK B : b \in Members(B)
    BY DEF Sound, HasMembers
  <1>2. b.size = 0 /\ b.fillCount = 0 /\ b.readPtr = 0 /\ b.writePtr = 0
    BY MembersAreNumbers DEF Sound, Agree, PtrOK
  <1>3. Created(b, size) = [b EXCEPT !.null = FALSE, !.size = size, !.buffer = cells]
    BY DEF Created
  <1> HIDE DEF cells
  <1>4. /\ Created(b, size) \in Members({cells})
        /\ Created(b, size).size = size /\ Created(b, size).null = FALSE
        /\ Created(b, size).readPtr = 0 /\ Created(b, size).writePtr = 0
        /\ Created(b, size).fillCount = 0
    BY <1>1, <1>2, <1>3 DEF Members
  <1>5. Agree(Created(b, size))
    BY <1>4 DEF Agree, PtrOK
  <1> QED BY <1>4, <1>5 DEF Sound, HasMembers

LEMMA ReadyIsSound ==
    ASSUME NEW b, Sound(b), NEW n \in Nat
    PROVE  Sound(Ready(b, n))
  BY CreatedIsSound DEF Ready

\* A pointer moves inside the buffer.
LEMMA AdvanceStaysInside ==
    ASSUME NEW b, b.size \in Nat, NEW ptr \in Nat, PtrOK(b, ptr), NEW n \in Nat, n <= b.size
    PROVE  /\ Advance(b, ptr, n) \in Nat
           /\ PtrOK(b, Advance(b, ptr, n))
           /\ \/ Advance(b, ptr, n) = ptr + n
              \/ Advance(b, ptr, n) = ptr + n - b.size
  BY DEF Advance, PtrOK

LEMMA SkippedIsSound ==
    ASSUME NEW b, Sound(b), NEW n \in Nat, n <= b.fillCount
    PROVE  Sound(Skipped(b, n))
  <1> DEFINE to == Advance(b, b.readPtr, n)
  <1>1. PICK B : b \in Members(B)
    BY DEF Sound, HasMembers
  <1>2. /\ b.size \in Nat /\ b.readPtr \in Nat /\ b.writePtr \in Nat /\ b.fillCount \in Nat
        /\ Agree(b) /\ (b.null => b.size = 0)
    BY MembersAreNumbers DEF Sound
  <1>3. /\ to \in Nat /\ PtrOK(b, to)
        /\ to = b.readPtr + n \/ to = b.readPtr + n - b.size
    BY <1>2, AdvanceStaysInside DEF Agree
  <1> DEFINE left == b.fillCount - n
  <1>4. Skipped(b, n) = [b EXCEPT !.readPtr = to, !.fillCount = left] /\ left \in Nat
    BY <1>1, <1>2 DEF Skipped, Members
  <1> HIDE DEF to, left
  <1>5. /\ Skipped(b, n) \in Members(B)
        /\ Skipped(b, n).size = b.size /\ Skipped(b, n).null = b.null
        /\ Skipped(b, n).readPtr = to /\ Skipped(b, n).writePtr = b.writePtr
        /\ Skipped(b, n).fillCount = left
    BY <1>1, <1>3, <1>4 DEF Members
  <1>6. Agree(Skipped(b, n))
    BY <1>2, <1>3, <1>5 DEF Agree, PtrOK, left
  <1> QED BY <1>2, <1>5, <1>6 DEF Sound, HasMembers

LEMMA WrittenIsSound ==
    ASSUME NEW b, Sound(b), NEW data, Len(data) \in Nat, Len(data) <= MaxWriteSize(b)
    PROVE  /\ Sound(Written(b, data))
           /\ MaxWriteSize(Written(b, data)) = MaxWriteSize(b) - Len(data)
  <1> DEFINE n == Len(data)
             to == Advance(b, b.writePtr, n)
             cells == Poke(b, data)
             filled == b.fillCount + n
  <1>1. PICK B : b \in Members(B)
    BY DEF Sound, HasMembers
  <1>2. /\ b.size \in Nat /\ b.readPtr \in Nat /\ b.writePtr \in Nat /\ b.fillCount \in Nat
        /\ Agree(b) /\ (b.null => b.size = 0)
    BY MembersAreNumbers DEF Sound
  <1>3. n \in Nat /\ n <= b.size - b.fillCount /\ n <= b.size /\ filled \in Nat
    BY <1>2 DEF MaxWriteSize
  <1>4. Written(b, data) = [b EXCEPT !.buffer = cells, !.writePtr = to, !.fillCount = filled]
    BY <1>1 DEF Written, Members
  <1> HIDE DEF n, cells, filled
  <1>5. /\ to \in Nat /\ PtrOK(b, to)
        /\ to = b.writePtr + n \/ to = b.writePtr + n - b.size
    BY <1>2, <1>3, AdvanceStaysInside DEF Agree
  <1> HIDE DEF to
  <1>6. /\ Written(b, data) \in Members({cells})
        /\ Written(b, data).size = b.size /\ Written(b, data).null = b.null
        /\ Written(b, data).readPtr = b.readPtr /\ Written(b, data).writePtr = to
        /\ Written(b, data).fillCount = filled
    BY <1>1, <1>3, <1>4, <1>5 DEF Members
  <1>7. Agree(Written(b, data))
    <2>1. filled <= b.size
      BY <1>2, <1>3 DEF filled
    <2>2. b.readPtr < b.size \/ (b.readPtr = 0 /\ b.size = 0)
      BY <1>2 DEF Agree, PtrOK
    <2>3. \/ b.writePtr = b.readPtr + b.fillCount
          \/ b.writePtr = b.readPtr + b.fillCount - b.size
      BY <1>2 DEF Agree
    <2>4. \/ to = b.readPtr + (b.fillCount + n)
          \/ to = b.readPtr + (b.fillCount + n) - b.size
      <3>1. b.fillCount + n <= b.size
        BY <2>1 DEF filled
      <3>2. to = b.writePtr + n \/ to = b.writePtr + n - b.size
        BY <1>5
      <3>3. /\ b.size \in Nat /\ b.readPtr \in Nat /\ b.writePtr \in Nat
            /\ b.fillCount \in Nat /\ n \in Nat /\ to \in Nat
        BY <1>2, <1>3, <1>5
      <3> QED BY <3>1, <3>2, <3>3, <2>2, <2>3, SMTT(60)
    <2> QED BY <2>1, <2>2, <2>4, <1>5, <1>6 DEF Agree, PtrOK, filled
  <1>8. MaxWriteSize(Written(b, data)) = MaxWriteSize(b) - n
    BY <1>2, <1>3, <1>6 DEF MaxWriteSize, filled
  <1> QED BY <1>2, <1>6, <1>7, <1>8 DEF Sound, HasMembers, n

LEMMA PeekIsSequence ==
    ASSUME NEW b, NEW n \in Nat
    PROVE  /\ Peek(b, n) \in Seq({Peek(b, n)[i] : i \in 1..n})
           /\ Len(Peek(b, n)) = n
  BY DEF Peek

LEMMA TransferredIsSound ==
    ASSUME NEW source, Sound(source), NEW target, Sound(target),
           NEW n \in Nat, n <= source.fillCount, n <= MaxWriteSize(target)
    PROVE  Sound(Transferred(source, target, n))
  <1> DEFINE data == Peek(source, n)
             chunk == Smaller(n, source.size - source.readPtr)
             first == Written(target, SubSeq(data, 1, chunk))
  <1>1. chunk \in Nat /\ chunk <= n
    BY MembersAreNumbers DEF Smaller, Sound, Agree, PtrOK
  <1>2. Len(SubSeq(data, 1, chunk)) = chunk /\ Len(SubSeq(data, chunk + 1, n)) = n - chunk
    BY <1>1, PeekIsSequence
  <1>3. MaxWriteSize(target) \in Nat
    BY MembersAreNumbers DEF MaxWriteSize, Sound, Agree
  <1>4. Sound(first) /\ MaxWriteSize(first) = MaxWriteSize(target) - chunk
    <2>1. chunk <= MaxWriteSize(target)
      BY <1>1, <1>3
    <2> QED BY <2>1, <1>1, <1>2, WrittenIsSound
  <1>5. Sound(Written(first, SubSeq(data, chunk + 1, n)))
    <2>1. n - chunk \in Nat /\ n - chunk <= MaxWriteSize(first)
      BY <1>1, <1>3, <1>4
    <2> QED BY <2>1, <1>2, <1>4, WrittenIsSound
  <1> QED BY <1>4, <1>5 DEF Transferred

-----------------------------------------------------------------------------
(* Every call keeps every object sound.                                    *)

LEMMA OneReplaced ==
    ASSUME IInv, NEW r \in Rings, NEW x, Sound(x), ring' = [ring EXCEPT ![r] = x]
    PROVE  IInv'
  <1>1. \A q \in Rings : ring'[q] = IF q = r THEN x ELSE ring[q]
    BY DEF IInv
  <1>2. ring' = [q \in Rings |-> ring'[q]]
    BY DEF IInv
  <1> QED BY <1>1, <1>2 DEF IInv

LEMMA TwoReplaced ==
    ASSUME IInv, NEW s \in Rings, NEW x, Sound(x), NEW r \in Rings, NEW y, Sound(y),
           ring' = [ring EXCEPT ![s] = x, ![r] = y]
    PROVE  IInv'
  <1>1. \A q \in Rings : ring'[q] = IF q = r THEN y ELSE IF q = s THEN x ELSE ring[q]
    BY DEF IInv
  <1>2. ring' = [q \in Rings |-> ring'[q]]
    BY DEF IInv
  <1> QED BY <1>1, <1>2 DEF IInv

\* WriteData of another ring, Append and Copy are calls of it.
LEMMA WriteIntoKeepsIInv ==
    ASSUME IInv, NEW s \in Rings, NEW object, Sound(object), NEW source, Sound(source),
           NEW n \in Nat, WriteInto(s, object, source, n)
    PROVE  IInv'
  <1> DEFINE target == Ready(object, n)
  <1>1. Sound(target)
    BY ReadyIsSound
  <1>2. CASE n <= MaxReadSize(source) /\ n <= MaxWriteSize(target)
    <2>1. ring' = [ring EXCEPT ![s] = Transferred(source, target, n)]
      BY <1>2 DEF WriteInto
    <2>2. Sound(Transferred(source, target, n))
      BY <1>1, <1>2, TransferredIsSound DEF MaxReadSize
    <2> QED BY <2>1, <2>2, OneReplaced
  <1>3. CASE ~(n <= MaxReadSize(source) /\ n <= MaxWriteSize(target))
    <2>1. ring' = [ring EXCEPT ![s] = target]
      BY <1>3 DEF WriteInto
    <2> HIDE DEF target
    <2> QED BY <1>1, <2>1, OneReplaced
  <1> QED BY <1>2, <1>3

LEMMA ReadIntoKeepsIInv ==
    ASSUME IInv, NEW r \in Rings, NEW s \in Rings, NEW n \in Nat, ReadInto(r, s, n)
    PROVE  IInv'
  <1> DEFINE target == Ready(ring[s], n)
  <1>1. Sound(ring[r]) /\ Sound(target) /\ r # s
    BY ReadyIsSound DEF IInv, ReadInto
  <1>2. CASE n <= MaxWriteSize(target) /\ n <= MaxReadSize(ring[r])
    <2>1. ring' = [ring EXCEPT ![s] = Transferred(ring[r], target, n),
                               ![r] = Skipped(ring[r], n)]
      BY <1>1, <1>2 DEF ReadInto, IInv
    <2>2. Sound(Transferred(ring[r], target, n))
      BY <1>1, <1>2, TransferredIsSound DEF MaxReadSize
    <2>3. Sound(Skipped(ring[r], n))
      BY <1>1, <1>2, SkippedIsSound DEF MaxReadSize
    <2> QED BY <2>1, <2>2, <2>3, TwoReplaced
  <1>3. CASE ~(n <= MaxWriteSize(target) /\ n <= MaxReadSize(ring[r]))
    <2>1. ring' = [ring EXCEPT ![s] = target]
      BY <1>3 DEF ReadInto
    <2> HIDE DEF target
    <2> QED BY <1>1, <2>1, OneReplaced
  <1> QED BY <1>2, <1>3

LEMMA StepKeepsIInv == ASSUME IInv, [RingNext]_ringVars PROVE IInv'
  <1> SUFFICES ASSUME RingNext PROVE IInv'
    BY DEF ringVars, IInv
  <1>0. \A r \in Rings : Sound(ring[r]) /\ MaxReadSize(ring[r]) \in Nat
    BY MembersAreNumbers DEF IInv, Sound, MaxReadSize
  <1>1. ASSUME NEW r \in Rings, Destroy(r) PROVE IInv'
    BY <1>1, NullIsSound, OneReplaced DEF Destroy
  <1>2. ASSUME NEW r \in Rings, Clear(r) PROVE IInv'
    <2>1. ring' = [ring EXCEPT ![r] = Cleared(ring[r])]
      BY <1>2 DEF Clear
    <2> QED BY <1>0, <2>1, ClearedIsSound, OneReplaced
  <1>3. ASSUME NEW r \in Rings, NEW n \in 0..MaxSize, Create(r, n) PROVE IInv'
    <2>1. ring' = [ring EXCEPT ![r] = Created(ring[r], n)] /\ ring[r].null
      BY <1>3 DEF Create
    <2>2. Sound(Created(ring[r], n))
      BY <1>0, <2>1, CreatedIsSound
    <2> QED BY <2>1, <2>2, OneReplaced
  <1>4. ASSUME NEW r \in Rings, NEW n \in Nat, n <= ring[r].fillCount,
               ring' = [ring EXCEPT ![r] = Skipped(@, n)]
        PROVE  IInv'
    <2>1. Sound(Skipped(ring[r], n))
      BY <1>0, <1>4, SkippedIsSound
    <2>2. ring' = [ring EXCEPT ![r] = Skipped(ring[r], n)]
      BY <1>4
    <2> QED BY <2>1, <2>2, OneReplaced
  <1>5. ASSUME UNCHANGED ring PROVE IInv'
    BY <1>5 DEF IInv
  <1>6. ASSUME NEW r \in Rings, NEW n \in 0..MaxSize, ReadData(r, n) PROVE IInv'
    <2>1. n \in Nat /\ ring[r].fillCount \in Nat
      BY <1>0 DEF MaxReadSize
    <2>2. CASE n > ring[r].fillCount
      BY <1>5, <1>6, <2>2 DEF ReadData
    <2>3. CASE ~(n > ring[r].fillCount)
      <3>1. ring' = [ring EXCEPT ![r] = Skipped(@, n)]
        BY <1>6, <2>3 DEF ReadData
      <3>2. n <= ring[r].fillCount
        BY <2>1, <2>3
      <3> QED BY <3>1, <3>2, <2>1, <1>4
    <2> QED BY <2>2, <2>3
  <1>7. ASSUME NEW r \in Rings, NEW n \in -1..MaxSize, SkipBytes(r, n) PROVE IInv'
    <2>1. ring[r].fillCount \in Nat /\ n \in Int
      BY <1>0, SizeAssumption DEF MaxReadSize
    <2>2. CASE n < 0 \/ n > ring[r].fillCount
      BY <1>5, <1>7, <2>2 DEF SkipBytes
    <2>3. CASE ~(n < 0 \/ n > ring[r].fillCount)
      <3>1. n \in Nat /\ n <= ring[r].fillCount
        BY <2>1, <2>3
      <3>2. ring' = [ring EXCEPT ![r] = Skipped(@, n)]
        BY <1>7, <2>3 DEF SkipBytes
      <3> QED BY <3>1, <3>2, <1>4
    <2> QED BY <2>2, <2>3
  <1>8. ASSUME NEW r \in Rings, NEW n \in 0..MaxSize, NEW data \in [1..n -> Bytes],
               WriteData(r, data)
        PROVE  IInv'
    <2>1. Len(data) \in Nat
      BY SizeAssumption
    <2>2. MaxWriteSize(ring[r]) \in Int
      BY <1>0, MembersAreNumbers DEF MaxWriteSize, Sound
    <2>3. CASE Len(data) > MaxWriteSize(ring[r])
      BY <1>5, <1>8, <2>3 DEF WriteData
    <2>4. CASE Len(data) <= MaxWriteSize(ring[r])
      <3>1. ring' = [ring EXCEPT ![r] = Written(ring[r], data)]
        BY <1>8, <2>1, <2>2, <2>4 DEF WriteData
      <3>2. Sound(Written(ring[r], data))
        BY <1>0, <2>1, <2>4, WrittenIsSound
      <3> QED BY <3>1, <3>2, OneReplaced
    <2> QED BY <2>1, <2>2, <2>3, <2>4
  <1>9. ASSUME NEW r \in Rings, NEW s \in Rings, NEW n \in 0..MaxSize, ReadInto(r, s, n)
        PROVE  IInv'
    BY <1>9, ReadIntoKeepsIInv, SizeAssumption
  <1>10. ASSUME NEW r \in Rings, NEW s \in Rings, NEW n \in 0..MaxSize, WriteFrom(s, r, n)
         PROVE  IInv'
    BY <1>0, <1>10, WriteIntoKeepsIInv, SizeAssumption DEF WriteFrom
  <1>11. ASSUME NEW r \in Rings, NEW s \in Rings, Append_(s, r) PROVE IInv'
    BY <1>0, <1>11, WriteIntoKeepsIInv DEF Append_
  <1>12. ASSUME NEW r \in Rings, NEW s \in Rings, Copy(s, r) PROVE IInv'
    <2>1. Sound(Cleared(ring[s]))
      BY <1>0, ClearedIsSound
    <2> QED BY <1>0, <1>12, <2>1, WriteIntoKeepsIInv DEF Copy
  <1> QED BY <1>1, <1>2, <1>3, <1>6, <1>7, <1>8, <1>9, <1>10, <1>11, <1>12 DEF RingNext

\* After any sequence of calls, on buffers and with transfers of any size, the
\* pointers of every ring buffer agree with its fill count, so no call reads
\* or writes outside the memory and the free space never goes below zero.
THEOREM PointersAlwaysAgree == RingSpec => []PointersAgree
  <1>1. RingInit => IInv
    BY NullIsSound DEF RingInit, IInv
  <1>2. IInv /\ [RingNext]_ringVars => IInv'
    BY StepKeepsIInv
  <1>3. IInv => PointersAgree
    BY DEF IInv, Sound, Agree, PointersAgree
  <1> QED BY <1>1, <1>2, <1>3, PTL DEF RingSpec

-----------------------------------------------------------------------------
(* The bytes.  Cell(b, k) is where the byte k places behind the read       *)
(* pointer is.                                                             *)

Cell(b, k) == IF b.readPtr + k < b.size THEN b.readPtr + k ELSE b.readPtr + k - b.size

\* The memory has b.size cells, and the bytes that wait were written.
Filled(b) ==
    /\ b.size <= MaxSize
    /\ b.buffer \in [0..b.size - 1 -> Bytes \cup {Garbage}]
    /\ \A k \in 0..b.fillCount - 1 : b.buffer[Cell(b, k)] \in Bytes

Solid(b) == Sound(b) /\ Filled(b)

LEMMA SolidNumbers ==
    ASSUME NEW b, Solid(b)
    PROVE  /\ b.size \in Nat /\ b.readPtr \in Nat /\ b.writePtr \in Nat /\ b.fillCount \in Nat
           /\ b.fillCount <= b.size /\ PtrOK(b, b.readPtr) /\ PtrOK(b, b.writePtr)
           /\ \/ b.writePtr = b.readPtr + b.fillCount
              \/ b.writePtr = b.readPtr + b.fillCount - b.size
           /\ b.null => b.size = 0
  BY MembersAreNumbers DEF Solid, Sound, Agree

\* What Peek copies out are the cells from the read pointer on.
LEMMA PeekedCells ==
    ASSUME NEW b, Solid(b), NEW n \in Nat, n <= b.fillCount
    PROVE  /\ Peek(b, n) \in Seq(Bytes) /\ Len(Peek(b, n)) = n
           /\ \A i \in 1..n : Peek(b, n)[i] = b.buffer[Cell(b, i - 1)]
  <1>1. ASSUME NEW i \in 1..n PROVE Peek(b, n)[i] = b.buffer[Cell(b, i - 1)]
    BY SolidNumbers DEF Peek, Smaller, Cell, PtrOK
  <1>2. ASSUME NEW i \in 1..n PROVE Peek(b, n)[i] \in Bytes
    <2>1. i - 1 \in 0..b.fillCount - 1
      BY SolidNumbers
    <2> QED BY <2>1, <1>1 DEF Solid, Filled
  <1>3. Peek(b, n) = [i \in 1..n |-> Peek(b, n)[i]]
    BY DEF Peek
  <1>4. Peek(b, n) \in [1..n -> Bytes]
    BY <1>2, <1>3
  <1> QED BY <1>1, <1>4

LEMMA ContentCells ==
    ASSUME NEW b, Solid(b)
    PROVE  /\ Content(b) \in Seq(Bytes) /\ Len(Content(b)) = b.fillCount
           /\ \A i \in 1..b.fillCount : Content(b)[i] = b.buffer[Cell(b, i - 1)]
  BY PeekedCells, SolidNumbers DEF Content

\* ReadData's data are the first bytes of the queue.
LEMMA PeekIsFront ==
    ASSUME NEW b, Solid(b), NEW n \in Nat, n <= b.fillCount
    PROVE  Peek(b, n) = SubSeq(Content(b), 1, n)
  <1>1. /\ SubSeq(Content(b), 1, n) \in Seq(Bytes) /\ Len(SubSeq(Content(b), 1, n)) = n
        /\ \A i \in 1..n : SubSeq(Content(b), 1, n)[i] = Content(b)[i]
    BY ContentCells, SolidNumbers
  <1>2. \A i \in 1..n : Content(b)[i] = Peek(b, n)[i]
    BY ContentCells, PeekedCells, SolidNumbers
  <1> QED BY <1>1, <1>2, PeekedCells, SeqEqual

LEMMA EmptyContent ==
    ASSUME NEW b, Solid(b), b.fillCount = 0
    PROVE  Content(b) = <<>>
  BY ContentCells, EmptySeq

LEMMA NullIsSolid == Solid(NullRing) /\ Content(NullRing) = <<>> /\ CapacityOf(NullRing) = -1
  <1>1. NullRing.size = 0 /\ NullRing.buffer = <<>> /\ NullRing.fillCount = 0 /\ NullRing.null
    BY DEF NullRing
  <1>2. Solid(NullRing)
    BY <1>1, NullIsSound, SizeAssumption DEF Solid, Filled
  <1> QED BY <1>1, <1>2, EmptyContent DEF CapacityOf

LEMMA ClearedIsSolid ==
    ASSUME NEW b, Solid(b)
    PROVE  /\ Solid(Cleared(b)) /\ Content(Cleared(b)) = <<>>
           /\ CapacityOf(Cleared(b)) = CapacityOf(b)
           /\ Cleared(b).size = b.size /\ Cleared(b).fillCount = 0 /\ Cleared(b).null = b.null
  <1>1. PICK B : b \in Members(B)
    BY DEF Solid, Sound, HasMembers
  <1>2. /\ Cleared(b).size = b.size /\ Cleared(b).null = b.null
        /\ Cleared(b).buffer = b.buffer /\ Cleared(b).fillCount = 0
    BY <1>1 DEF Cleared, Members
  <1>3. Sound(Cleared(b))
    BY ClearedIsSound DEF Solid
  <1>4. Solid(Cleared(b))
    BY <1>2, <1>3 DEF Solid, Filled
  <1> QED BY <1>2, <1>4, EmptyContent DEF CapacityOf

LEMMA CreatedIsSolid ==
    ASSUME NEW b, Solid(b), b.null, NEW size \in 0..MaxSize
    PROVE  /\ Solid(Created(b, size)) /\ Content(Created(b, size)) = <<>>
           /\ CapacityOf(Created(b, size)) = size
           /\ Created(b, size).size = size /\ Created(b, size).fillCount = 0
           /\ Content(b) = <<>>
  <1> DEFINE cells == [c \in 0..size - 1 |-> Garbage]
  <1>1. PICK B : b \in Members(B)
    BY DEF Solid, Sound, HasMembers
  <1>2. size \in Nat /\ size <= MaxSize /\ b.fillCount = 0
    BY SizeAssumption, SolidNumbers
  <1>3. /\ Created(b, size).size = size /\ Created(b, size).null = FALSE
        /\ Created(b, size).buffer = cells /\ Created(b, size).fillCount = b.fillCount
    BY <1>1 DEF Created, Members
  <1>4. Sound(Created(b, size))
    BY <1>2, CreatedIsSound DEF Solid
  <1>5. Solid(Created(b, size))
    BY <1>2, <1>3, <1>4 DEF Solid, Filled
  <1> QED BY <1>2, <1>3, <1>5, EmptyContent DEF CapacityOf


LEMMA ReadyIsSolid ==
    ASSUME NEW b, Solid(b), NEW n \in 0..MaxSize
    PROVE  /\ Solid(Ready(b, n)) /\ Content(Ready(b, n)) = Content(b)
           /\ CapacityOf(Ready(b, n)) = IF b.null THEN n ELSE CapacityOf(b)
           /\ Ready(b, n).size = IF b.null THEN n ELSE b.size
           /\ Ready(b, n).fillCount = b.fillCount
  <1>1. b.null => b.fillCount = 0
    BY SolidNumbers
  <1> QED BY <1>1, CreatedIsSolid DEF Ready

\* SkipBytes takes the first bytes off the queue.
LEMMA SkippedIsSolid ==
    ASSUME NEW b, Solid(b), NEW n \in Nat, n <= b.fillCount
    PROVE  /\ Solid(Skipped(b, n)) /\ CapacityOf(Skipped(b, n)) = CapacityOf(b)
           /\ Content(Skipped(b, n)) = SubSeq(Content(b), n + 1, Len(Content(b)))
  <1> DEFINE c == Skipped(b, n)
  <1>1. PICK B : b \in Members(B)
    BY DEF Solid, Sound, HasMembers
  <1>2. /\ c.size = b.size /\ c.null = b.null /\ c.buffer = b.buffer
        /\ c.fillCount = b.fillCount - n /\ c.readPtr = Advance(b, b.readPtr, n)
    BY <1>1 DEF Skipped, Members
  <1>3. Sound(c)
    BY SkippedIsSound DEF Solid
  <1> HIDE DEF c
  <1>4. ASSUME NEW k \in 0..b.fillCount - n - 1
        PROVE  Cell(c, k) = Cell(b, n + k) /\ n + k \in 0..b.fillCount - 1
    BY <1>2, SolidNumbers DEF Cell, Advance, PtrOK
  <1>5. Filled(c)
    BY <1>2, <1>4, SolidNumbers DEF Solid, Filled
  <1>6. Solid(c) /\ CapacityOf(c) = CapacityOf(b)
    BY <1>2, <1>3, <1>5 DEF Solid, CapacityOf
  <1>7. Content(c) = SubSeq(Content(b), n + 1, Len(Content(b)))
    <2> DEFINE rest == SubSeq(Content(b), n + 1, b.fillCount)
    <2>1. /\ rest \in Seq(Bytes) /\ Len(rest) = b.fillCount - n
          /\ \A i \in 1..b.fillCount - n : rest[i] = Content(b)[n + i]
      BY ContentCells, SolidNumbers
    <2> HIDE DEF rest
    <2>2. ASSUME NEW i \in 1..b.fillCount - n PROVE Content(c)[i] = rest[i]
      <3>1. i - 1 \in 0..b.fillCount - n - 1 /\ n + i \in 1..b.fillCount /\ n + (i - 1) = (n + i) - 1
        BY SolidNumbers
      <3>2. Content(c)[i] = b.buffer[Cell(b, n + (i - 1))]
        BY <3>1, <1>2, <1>4, <1>6, ContentCells
      <3>3. Content(b)[n + i] = b.buffer[Cell(b, (n + i) - 1)]
        BY <3>1, ContentCells
      <3> QED BY <3>1, <3>2, <3>3, <2>1
    <2>3. Content(c) \in Seq(Bytes) /\ Len(Content(c)) = b.fillCount - n
      BY <1>2, <1>6, ContentCells
    <2>4. Content(c) = rest
      BY <2>1, <2>2, <2>3, SeqEqual
    <2> QED BY <2>4, ContentCells DEF rest
  <1> QED BY <1>6, <1>7 DEF c

\* How far the pointers are apart, how many of the n new bytes fit in before the
\* end, and where the byte k places behind the read pointer is.
Layout(size, read, write, fill, n, chunk, k, cell) ==
    /\ read < size /\ write < size /\ fill + n <= size /\ k < fill + n
    /\ write = read + fill \/ write = read + fill - size
    /\ chunk = IF n < size - write THEN n ELSE size - write
    /\ cell = IF read + k < size THEN read + k ELSE read + k - size

\* Poke leaves the cell alone if its byte waits already, else puts the right new byte there.
Placed(write, fill, n, chunk, k, cell) ==
    /\ k < fill => ~(cell >= write /\ cell < write + chunk) /\ ~(cell < n - chunk)
    /\ ~(k < fill) => \/ /\ cell >= write /\ cell < write + chunk
                         /\ cell - write + 1 = k - fill + 1
                      \/ /\ ~(cell >= write /\ cell < write + chunk)
                         /\ cell < n - chunk /\ cell + chunk + 1 = k - fill + 1

LEMMA NewBytesArePlaced ==
    ASSUME NEW size \in Nat, NEW read \in Nat, NEW write \in Nat, NEW fill \in Nat,
           NEW n \in Nat, NEW chunk \in Int, NEW k \in Nat, NEW cell \in Int,
           Layout(size, read, write, fill, n, chunk, k, cell)
    PROVE  Placed(write, fill, n, chunk, k, cell)
  <1>1. CASE n < size - write
    BY <1>1 DEF Layout, Placed
  <1>2. CASE ~(n < size - write)
    <2>1. chunk = size - write
      BY <1>2 DEF Layout
    <2>2. CASE write = read + fill
      BY <2>1, <2>2, <1>2 DEF Layout, Placed
    <2>3. CASE write = read + fill - size
      BY <2>1, <2>3, <1>2 DEF Layout, Placed
    <2> QED BY <2>2, <2>3 DEF Layout
  <1> QED BY <1>1, <1>2

\* WriteData puts its bytes behind the others.
LEMMA WrittenIsSolid ==
    ASSUME NEW b, Solid(b), NEW data \in Seq(Bytes), Len(data) <= MaxWriteSize(b)
    PROVE  /\ Solid(Written(b, data)) /\ CapacityOf(Written(b, data)) = CapacityOf(b)
           /\ Written(b, data).size = b.size
           /\ MaxWriteSize(Written(b, data)) = MaxWriteSize(b) - Len(data)
           /\ Content(Written(b, data)) = Content(b) \o data
  <1> DEFINE c == Written(b, data)
             n == Len(data)
  <1>1. PICK B : b \in Members(B)
    BY DEF Solid, Sound, HasMembers
  <1>2. /\ c.size = b.size /\ c.null = b.null /\ c.buffer = Poke(b, data)
        /\ c.fillCount = b.fillCount + n /\ c.readPtr = b.readPtr
    BY <1>1 DEF Written, Members
  <1>3. n \in Nat /\ b.fillCount + n <= b.size
    BY SolidNumbers DEF MaxWriteSize
  <1>4. Sound(c) /\ MaxWriteSize(c) = MaxWriteSize(b) - n
    BY WrittenIsSound, <1>3 DEF Solid
  <1> HIDE DEF c, n
  <1>5. ASSUME NEW k \in 0..b.fillCount + n - 1
        PROVE  /\ Cell(c, k) = Cell(b, k) /\ Cell(b, k) \in 0..b.size - 1
               /\ Poke(b, data)[Cell(b, k)] = IF k < b.fillCount THEN b.buffer[Cell(b, k)]
                                              ELSE data[k - b.fillCount + 1]
    <2>0. /\ b.size \in Nat /\ b.readPtr \in Nat /\ b.writePtr \in Nat /\ b.fillCount \in Nat
          /\ k \in Nat /\ k < b.fillCount + n /\ b.size > 0
          /\ b.readPtr < b.size /\ b.writePtr < b.size
      BY <1>3, SolidNumbers DEF PtrOK
    <2>1. Cell(c, k) = Cell(b, k) /\ Cell(b, k) \in 0..b.size - 1
      <3>1. Cell(c, k) = Cell(b, k)
        BY ONLY <1>2 DEF Cell
      <3>2. PICK z \in Nat, r \in Nat : z = b.size /\ r = b.readPtr
        BY <2>0
      <3>3. k \in Nat /\ k < z /\ r < z
        BY ONLY <1>3, <2>0, <3>2, z \in Nat
      <3>4. Cell(b, k) = IF r + k < z THEN r + k ELSE r + k - z
        BY ONLY <3>2 DEF Cell
      <3>5. Cell(b, k) \in 0..z - 1
        BY ONLY <3>3, <3>4, z \in Nat, r \in Nat
      <3> QED BY <3>1, <3>2, <3>5
    <2> DEFINE cell == Cell(b, k)
               chunk == Smaller(n, b.size - b.writePtr)
    <2>2. Poke(b, data)[cell] =
             IF cell >= b.writePtr /\ cell < b.writePtr + chunk THEN data[cell - b.writePtr + 1]
             ELSE IF cell < n - chunk THEN data[cell + chunk + 1]
             ELSE b.buffer[cell]
      BY <2>1 DEF Poke, n
    <2>3. chunk = IF n < b.size - b.writePtr THEN n ELSE b.size - b.writePtr
      BY DEF Smaller
    <2>4. cell = IF b.readPtr + k < b.size THEN b.readPtr + k ELSE b.readPtr + k - b.size
      BY DEF Cell
    <2> HIDE DEF cell, chunk
    <2>5. Placed(b.writePtr, b.fillCount, n, chunk, k, cell)
      <3>1. cell \in Int /\ chunk \in Int
        BY <2>0, <2>3, <2>4, <1>3
      <3>2. b.writePtr = b.readPtr + b.fillCount \/ b.writePtr = b.readPtr + b.fillCount - b.size
        BY SolidNumbers
      <3>3. Layout(b.size, b.readPtr, b.writePtr, b.fillCount, n, chunk, k, cell)
        BY <3>2, <2>0, <2>3, <2>4, <1>3 DEF Layout
      <3> QED BY <3>1, <3>3, <2>0, <1>3, NewBytesArePlaced
    <2>6. CASE k < b.fillCount
      BY <2>1, <2>2, <2>5, <2>6 DEF cell, Placed
    <2>7. CASE ~(k < b.fillCount)
      BY <2>1, <2>2, <2>5, <2>7 DEF cell, Placed
    <2> QED BY <2>1, <2>6, <2>7
  <1>6. ASSUME NEW j \in 1..n PROVE data[j] \in Bytes
    BY DEF n
  <1>7. Filled(c)
    <2>1. Poke(b, data) \in [0..b.size - 1 -> Bytes \cup {Garbage}]
      <3>1. b.buffer \in [0..b.size - 1 -> Bytes \cup {Garbage}]
        BY DEF Solid, Filled
      <3> DEFINE chunk == Smaller(n, b.size - b.writePtr)
                 Value(cell) == IF cell >= b.writePtr /\ cell < b.writePtr + chunk
                                THEN data[cell - b.writePtr + 1]
                                ELSE IF cell < n - chunk THEN data[cell + chunk + 1]
                                ELSE b.buffer[cell]
      <3>2. Poke(b, data) = [cell \in 0..b.size - 1 |-> Value(cell)]
        BY DEF Poke, n
      <3>3. ASSUME NEW cell \in 0..b.size - 1 PROVE Value(cell) \in Bytes \cup {Garbage}
        <4>1. chunk = IF n < b.size - b.writePtr THEN n ELSE b.size - b.writePtr
          BY DEF Smaller
        <4> HIDE DEF chunk
        <4>2. chunk \in Nat /\ chunk <= n
          BY <4>1, <1>3, SolidNumbers DEF PtrOK
        <4>3. CASE cell >= b.writePtr /\ cell < b.writePtr + chunk
          <5>1. cell - b.writePtr + 1 \in 1..n
            BY <4>2, <4>3, <1>3, SolidNumbers
          <5> QED BY <5>1, <4>3, <1>6
        <4>4. CASE ~(cell >= b.writePtr /\ cell < b.writePtr + chunk) /\ cell < n - chunk
          <5>1. cell + chunk + 1 \in 1..n
            BY <4>2, <4>4, <1>3, SolidNumbers
          <5> QED BY <5>1, <4>4, <1>6
        <4>5. CASE ~(cell >= b.writePtr /\ cell < b.writePtr + chunk) /\ ~(cell < n - chunk)
          BY <4>5, <3>1
        <4> QED BY <4>3, <4>4, <4>5
      <3> HIDE DEF Value
      <3> QED BY <3>2, <3>3
    <2>2. ASSUME NEW k \in 0..c.fillCount - 1 PROVE c.buffer[Cell(c, k)] \in Bytes
      <3>1. k \in 0..b.fillCount + n - 1
        BY <1>2, <1>3, SolidNumbers
      <3>2. CASE k < b.fillCount
        BY <3>1, <3>2, <1>2, <1>5, SolidNumbers DEF Solid, Filled
      <3>3. CASE ~(k < b.fillCount)
        <4>1. k - b.fillCount + 1 \in 1..n
          BY <3>1, <3>3, <1>3, SolidNumbers
        <4> QED BY <4>1, <3>1, <3>3, <1>2, <1>5, <1>6
      <3> QED BY <3>2, <3>3
    <2> QED BY <2>1, <2>2, <1>2 DEF Solid, Filled
  <1>8. Solid(c) /\ CapacityOf(c) = CapacityOf(b)
    BY <1>2, <1>4, <1>7 DEF Solid, CapacityOf
  <1>9. Content(c) = Content(b) \o data
    <2>1. /\ Content(b) \in Seq(Bytes) /\ Len(Content(b)) = b.fillCount
          /\ Content(c) \in Seq(Bytes) /\ Len(Content(c)) = b.fillCount + n
      BY <1>2, <1>8, ContentCells
    <2>2. /\ Content(b) \o data \in Seq(Bytes) /\ Len(Content(b) \o data) = b.fillCount + n
          /\ \A i \in 1..b.fillCount + n : (Content(b) \o data)[i] =
                IF i <= b.fillCount THEN Content(b)[i] ELSE data[i - b.fillCount]
      BY <2>1, ConcatProperties DEF n
    <2>3. ASSUME NEW i \in 1..b.fillCount + n PROVE Content(c)[i] = (Content(b) \o data)[i]
      <3>1. i - 1 \in 0..b.fillCount + n - 1 /\ (i - 1) - b.fillCount + 1 = i - b.fillCount
        BY <1>3, SolidNumbers
      <3>2. Content(c)[i] = Poke(b, data)[Cell(b, i - 1)]
        BY <3>1, <1>2, <1>5, <1>8, ContentCells
      <3>3. CASE i <= b.fillCount
        BY <3>1, <3>2, <3>3, <1>5, <2>2, ContentCells, SolidNumbers
      <3>4. CASE ~(i <= b.fillCount)
        <4>1. ~(i - 1 < b.fillCount)
          BY <3>4, SolidNumbers
        <4> QED BY <4>1, <3>1, <3>2, <3>4, <1>5, <2>2
      <3> QED BY <3>3, <3>4
    <2> QED BY <2>1, <2>2, <2>3, SeqEqual
  <1> QED BY <1>2, <1>4, <1>8, <1>9 DEF c, n

\* In two pieces as in one: the bytes of the source arrive in their order.
LEMMA TransferredIsSolid ==
    ASSUME NEW source, Solid(source), NEW target, Solid(target),
           NEW n \in Nat, n <= source.fillCount, n <= MaxWriteSize(target)
    PROVE  /\ Solid(Transferred(source, target, n))
           /\ CapacityOf(Transferred(source, target, n)) = CapacityOf(target)
           /\ Content(Transferred(source, target, n)) = Content(target) \o SubSeq(Content(source), 1, n)
  <1> DEFINE data == Peek(source, n)
             chunk == Smaller(n, source.size - source.readPtr)
             front == SubSeq(data, 1, chunk)
             back == SubSeq(data, chunk + 1, n)
             first == Written(target, front)
  <1>1. data \in Seq(Bytes) /\ Len(data) = n /\ data = SubSeq(Content(source), 1, n)
    BY PeekedCells, PeekIsFront
  <1>2. chunk \in Nat /\ chunk <= n /\ MaxWriteSize(target) \in Nat
    BY SolidNumbers DEF Smaller, MaxWriteSize, PtrOK
  <1>3. Transferred(source, target, n) = IF chunk < n THEN Written(first, back) ELSE first
    BY DEF Transferred
  <1> HIDE DEF data, chunk
  <1>4. /\ front \in Seq(Bytes) /\ Len(front) = chunk /\ back \in Seq(Bytes) /\ Len(back) = n - chunk
        /\ front \o back = data
    <2>1. SubSeq(data, 1, chunk) \o SubSeq(data, chunk + 1, n) = SubSeq(data, 1, n)
      BY <1>1, <1>2, ConcatAdjacentSubSeq
    <2>2. SubSeq(data, 1, n) = data
      BY <1>1, SubSeqFull
    <2> QED BY <2>1, <2>2, <1>1, <1>2
  <1> HIDE DEF front, back
  <1>5. /\ Solid(first) /\ CapacityOf(first) = CapacityOf(target)
        /\ MaxWriteSize(first) = MaxWriteSize(target) - chunk /\ Content(first) = Content(target) \o front
    <2>1. Len(front) <= MaxWriteSize(target)
      BY <1>2, <1>4
    <2> QED BY <2>1, <1>4, WrittenIsSolid
  <1> HIDE DEF first
  <1>6. CASE chunk < n
    <2>1. Len(back) <= MaxWriteSize(first)
      BY <1>2, <1>4, <1>5
    <2>2. /\ Solid(Written(first, back)) /\ CapacityOf(Written(first, back)) = CapacityOf(target)
          /\ Content(Written(first, back)) = (Content(target) \o front) \o back
      BY <2>1, <1>4, <1>5, WrittenIsSolid
    <2>3. (Content(target) \o front) \o back = Content(target) \o (front \o back)
      <3>1. PICK q \in Seq(Bytes), f \in Seq(Bytes), g \in Seq(Bytes) :
               q = Content(target) /\ f = front /\ g = back
        BY <1>4, ContentCells
      <3>2. (q \o f) \o g = q \o (f \o g)
        BY ConcatAssociative
      <3> QED BY <3>1, <3>2
    <2> QED BY <2>2, <2>3, <1>1, <1>3, <1>4, <1>6
  <1>7. CASE ~(chunk < n)
    <2>1. Len(front) = n /\ front = data
      <3>1. chunk = n
        BY <1>2, <1>7
      <3> QED BY <3>1, <1>1, <1>4, SubSeqFull DEF front
    <2> QED BY <2>1, <1>1, <1>3, <1>5, <1>7
  <1> QED BY <1>2, <1>6, <1>7

-----------------------------------------------------------------------------
(* Every call does to the queues what the abstract operation does.         *)

\* The inductive invariant, with what waits in the objects.
FilledInv == IInv /\ \A r \in Rings : Solid(ring[r])

LEMMA ContentsAndCapacities ==
    ASSUME FilledInv
    PROVE  /\ \A r \in Rings :
                 /\ Contents[r] = Content(ring[r]) /\ Contents[r] \in Seq(Bytes)
                 /\ Len(Contents[r]) = ring[r].fillCount
                 /\ ring[r].fillCount \in 0..MaxSize
                 /\ Capacities[r] = CapacityOf(ring[r])
                 /\ Capacities[r] = -1 <=> ring[r].null
                 /\ Queue!Room(r) = MaxWriteSize(ring[r])
           /\ Contents = [r \in Rings |-> Contents[r]]
           /\ Capacities = [r \in Rings |-> Capacities[r]]
  <1>1. ASSUME NEW r \in Rings
        PROVE  /\ Contents[r] = Content(ring[r]) /\ Contents[r] \in Seq(Bytes)
               /\ Len(Contents[r]) = ring[r].fillCount
               /\ ring[r].fillCount \in 0..MaxSize
               /\ Capacities[r] = CapacityOf(ring[r])
               /\ Capacities[r] = -1 <=> ring[r].null
    <2>1. Solid(ring[r]) /\ ring[r].null \in BOOLEAN
      BY DEF FilledInv, Solid, Sound, HasMembers, Members
    <2>2. ring[r].size \in Nat /\ ring[r].fillCount \in Nat /\ ring[r].fillCount <= ring[r].size
          /\ ring[r].size <= MaxSize
      BY <2>1, SolidNumbers DEF Solid, Filled
    <2>3. ring[r].fillCount \in 0..MaxSize
      BY <2>2, SizeAssumption
    <2> QED BY <2>1, <2>2, <2>3, ContentCells DEF Contents, Capacities, CapacityOf
  <1>2. ASSUME NEW r \in Rings PROVE Queue!Room(r) = MaxWriteSize(ring[r])
    BY <1>1, SolidNumbers DEF Queue!Room, Queue!None, FilledInv, CapacityOf, MaxWriteSize
  <1> QED BY <1>1, <1>2 DEF Contents, Capacities

LEMMA OneChanged ==
    ASSUME FilledInv, NEW r \in Rings, NEW x, Solid(x), ring' = [ring EXCEPT ![r] = x]
    PROVE  /\ FilledInv'
           /\ Contents' = [Contents EXCEPT ![r] = Content(x)]
           /\ Capacities' = [Capacities EXCEPT ![r] = CapacityOf(x)]
           /\ Content(x) = Contents[r] => Contents' = Contents
           /\ CapacityOf(x) = Capacities[r] => Capacities' = Capacities
  <1>1. \A q \in Rings : ring'[q] = IF q = r THEN x ELSE ring[q]
    BY DEF FilledInv, IInv
  <1>2. IInv'
    BY OneReplaced DEF FilledInv, Solid
  <1>3. FilledInv'
    BY <1>1, <1>2 DEF FilledInv
  <1>4. /\ Contents' = [q \in Rings |-> IF q = r THEN Content(x) ELSE Contents[q]]
        /\ Capacities' = [q \in Rings |-> IF q = r THEN CapacityOf(x) ELSE Capacities[q]]
    <2>1. PICK new : new = ring'
      OBVIOUS
    <2>2. \A q \in Rings : /\ Content(new[q]) = IF q = r THEN Content(x) ELSE Contents[q]
                           /\ CapacityOf(new[q]) = IF q = r THEN CapacityOf(x) ELSE Capacities[q]
      BY <1>1, <2>1, ContentsAndCapacities
    <2>3. /\ Contents' = [q \in Rings |-> Content(new[q])]
          /\ Capacities' = [q \in Rings |-> CapacityOf(new[q])]
      BY <2>1 DEF Contents, Capacities
    <2>4. Contents' = [q \in Rings |-> IF q = r THEN Content(x) ELSE Contents[q]]
      BY <2>2, <2>3
    <2>5. Capacities' = [q \in Rings |-> IF q = r THEN CapacityOf(x) ELSE Capacities[q]]
      BY <2>2, <2>3
    <2> QED BY <2>4, <2>5
  <1>5. Contents = [q \in Rings |-> Contents[q]] /\ Capacities = [q \in Rings |-> Capacities[q]]
    BY ContentsAndCapacities
  <1>6. /\ Contents' = [Contents EXCEPT ![r] = Content(x)]
        /\ Content(x) = Contents[r] => Contents' = Contents
    BY <1>4, <1>5
  <1>7. /\ Capacities' = [Capacities EXCEPT ![r] = CapacityOf(x)]
        /\ CapacityOf(x) = Capacities[r] => Capacities' = Capacities
    BY <1>4, <1>5
  <1> QED BY <1>3, <1>6, <1>7

\* A step that leaves x in ring s and y in ring r.
Leaves(s, x, r, y) == /\ r # s /\ Solid(x) /\ Solid(y)
                      /\ ring' = [ring EXCEPT ![s] = x, ![r] = y]

LEMMA TwoChanged ==
    ASSUME FilledInv, NEW s \in Rings, NEW r \in Rings, NEW x, NEW y, Leaves(s, x, r, y)
    PROVE  /\ FilledInv'
           /\ Contents' = [Contents EXCEPT ![s] = Content(x), ![r] = Content(y)]
           /\ CapacityOf(y) = Capacities[r] =>
                 Capacities' = [Capacities EXCEPT ![s] = CapacityOf(x)]
  <1>1. \A q \in Rings : ring'[q] = IF q = r THEN y ELSE IF q = s THEN x ELSE ring[q]
    BY DEF FilledInv, IInv, Leaves
  <1>2. IInv'
    BY TwoReplaced DEF FilledInv, Solid, Leaves
  <1>3. FilledInv'
    BY <1>1, <1>2 DEF FilledInv, Leaves
  <1>4. /\ Contents' = [q \in Rings |-> IF q = r THEN Content(y)
                                       ELSE IF q = s THEN Content(x) ELSE Contents[q]]
        /\ Capacities' = [q \in Rings |-> IF q = r THEN CapacityOf(y)
                                         ELSE IF q = s THEN CapacityOf(x) ELSE Capacities[q]]
    <2>1. PICK new : new = ring'
      OBVIOUS
    <2>2. \A q \in Rings : /\ Content(new[q]) = IF q = r THEN Content(y)
                                               ELSE IF q = s THEN Content(x) ELSE Contents[q]
                           /\ CapacityOf(new[q]) = IF q = r THEN CapacityOf(y)
                                                ELSE IF q = s THEN CapacityOf(x) ELSE Capacities[q]
      <3>1. \A q \in Rings : Content(ring[q]) = Contents[q] /\ CapacityOf(ring[q]) = Capacities[q]
        BY ContentsAndCapacities
      <3> TAKE q \in Rings
      <3>2. CASE q = r
        <4>1. new[q] = y
          BY <3>2, <1>1, <2>1
        <4> QED BY <4>1, <3>2
      <3>3. CASE q # r /\ q = s
        <4>1. new[q] = x
          BY <3>3, <1>1, <2>1
        <4> QED BY <4>1, <3>3
      <3>4. CASE q # r /\ q # s
        <4>1. new[q] = ring[q]
          BY <3>4, <1>1, <2>1
        <4> QED BY <4>1, <3>1, <3>4
      <3> QED BY <3>2, <3>3, <3>4
    <2>3. /\ Contents' = [q \in Rings |-> Content(new[q])]
          /\ Capacities' = [q \in Rings |-> CapacityOf(new[q])]
      BY <2>1 DEF Contents, Capacities
    <2>4. Contents' = [q \in Rings |-> IF q = r THEN Content(y)
                                        ELSE IF q = s THEN Content(x) ELSE Contents[q]]
      BY <2>2, <2>3
    <2>5. Capacities' = [q \in Rings |-> IF q = r THEN CapacityOf(y)
                                          ELSE IF q = s THEN CapacityOf(x) ELSE Capacities[q]]
      BY <2>2, <2>3
    <2> QED BY <2>4, <2>5
  <1>5. Contents = [q \in Rings |-> Contents[q]] /\ Capacities = [q \in Rings |-> Capacities[q]]
    BY ContentsAndCapacities
  <1>6. Contents' = [Contents EXCEPT ![s] = Content(x), ![r] = Content(y)]
    BY <1>4, <1>5 DEF Leaves
  <1>7. CapacityOf(y) = Capacities[r] => Capacities' = [Capacities EXCEPT ![s] = CapacityOf(x)]
    BY <1>4, <1>5 DEF Leaves
  <1> QED BY <1>3, <1>6, <1>7

LEMMA NoneChanged ==
    ASSUME FilledInv, UNCHANGED ring
    PROVE  FilledInv' /\ UNCHANGED <<Contents, Capacities>>
  BY DEF FilledInv, IInv, Contents, Capacities

LEMMA DestroyIsQueued == ASSUME FilledInv, NEW r \in Rings, Destroy(r) PROVE FilledInv' /\ Queue!Destroy(r)
  <1>1. ring' = [ring EXCEPT ![r] = NullRing] /\ answer' = [ok |-> TRUE, data |-> <<>>]
    BY DEF Destroy, Accept, Answer
  <1> QED BY <1>1, NullIsSolid, OneChanged DEF Queue!Destroy, Queue!None, Queue!Accept, Queue!Answer

LEMMA ClearIsQueued == ASSUME FilledInv, NEW r \in Rings, Clear(r) PROVE FilledInv' /\ Queue!Clear(r)
  <1>1. ring' = [ring EXCEPT ![r] = Cleared(ring[r])] /\ answer' = [ok |-> TRUE, data |-> <<>>]
    BY DEF Clear, Accept, Answer
  <1>2. /\ Solid(Cleared(ring[r])) /\ Content(Cleared(ring[r])) = <<>>
        /\ CapacityOf(Cleared(ring[r])) = Capacities[r]
    BY ClearedIsSolid, ContentsAndCapacities DEF FilledInv
  <1> QED BY <1>1, <1>2, OneChanged DEF Queue!Clear, Queue!Accept, Queue!Answer

LEMMA CreateIsQueued ==
    ASSUME FilledInv, NEW r \in Rings, NEW n \in 0..MaxSize, Create(r, n)
    PROVE  FilledInv' /\ Queue!Create(r, n)
  <1>1. /\ ring[r].null /\ ring' = [ring EXCEPT ![r] = Created(ring[r], n)]
        /\ answer' = [ok |-> TRUE, data |-> <<>>]
    BY DEF Create, Accept, Answer
  <1>2. /\ Solid(Created(ring[r], n)) /\ Content(Created(ring[r], n)) = Contents[r]
        /\ CapacityOf(Created(ring[r], n)) = n /\ Capacities[r] = -1
    BY <1>1, CreatedIsSolid, ContentsAndCapacities DEF FilledInv
  <1> QED BY <1>1, <1>2, OneChanged DEF Queue!Create, Queue!None, Queue!Accept, Queue!Answer

\* What ReadData and SkipBytes do if there are n bytes.
LEMMA BytesTaken ==
    ASSUME FilledInv, NEW r \in Rings, NEW n \in Nat, n <= ring[r].fillCount,
           ring' = [ring EXCEPT ![r] = Skipped(@, n)]
    PROVE  /\ FilledInv' /\ UNCHANGED Capacities
           /\ Contents' = [Contents EXCEPT ![r] = Queue!Rest(@, n)]
  <1>1. /\ Solid(Skipped(ring[r], n)) /\ CapacityOf(Skipped(ring[r], n)) = Capacities[r]
        /\ Content(Skipped(ring[r], n)) = Queue!Rest(Contents[r], n)
    BY SkippedIsSolid, ContentsAndCapacities DEF FilledInv, Queue!Rest
  <1>2. ring' = [ring EXCEPT ![r] = Skipped(ring[r], n)]
    OBVIOUS
  <1>3. PICK x : x = Skipped(ring[r], n)
    OBVIOUS
  <1>4. Contents' = [Contents EXCEPT ![r] = Content(x)] /\ FilledInv' /\ UNCHANGED Capacities
    BY <1>1, <1>2, <1>3, OneChanged
  <1> QED BY <1>1, <1>3, <1>4

LEMMA ReadIsQueued ==
    ASSUME FilledInv, NEW r \in Rings, NEW n \in 0..MaxSize, ReadData(r, n)
    PROVE  FilledInv' /\ Queue!Read(r, n)
  <1>1. n \in Nat /\ ring[r].fillCount \in Nat /\ Len(Contents[r]) = ring[r].fillCount
    BY ContentsAndCapacities
  <1>2. CASE n > ring[r].fillCount
    <2>1. UNCHANGED ring /\ answer' = [ok |-> FALSE, data |-> <<>>] /\ ~(n <= Len(Contents[r]))
      BY <1>1, <1>2 DEF ReadData, Refuse, Answer
    <2> QED BY <2>1, NoneChanged DEF Queue!Read, Queue!Refuse, Queue!Answer
  <1>3. CASE ~(n > ring[r].fillCount)
    <2>1. /\ ring' = [ring EXCEPT ![r] = Skipped(@, n)]
          /\ answer' = [ok |-> TRUE, data |-> Peek(ring[r], n)]
          /\ n <= ring[r].fillCount
      BY <1>1, <1>3 DEF ReadData, Answer
    <2>2. Peek(ring[r], n) = Queue!FirstBytes(Contents[r], n)
      BY <1>1, <2>1, PeekIsFront, ContentsAndCapacities DEF FilledInv, Queue!FirstBytes
    <2> QED BY <1>1, <2>1, <2>2, BytesTaken DEF Queue!Read, Queue!Answer
  <1> QED BY <1>2, <1>3

LEMMA SkipIsQueued ==
    ASSUME FilledInv, NEW r \in Rings, NEW n \in -1..MaxSize, SkipBytes(r, n)
    PROVE  FilledInv' /\ Queue!Skip(r, n)
  <1>1. n \in Int /\ ring[r].fillCount \in Nat /\ Len(Contents[r]) = ring[r].fillCount
    BY ContentsAndCapacities, SizeAssumption
  <1>2. CASE n < 0 \/ n > ring[r].fillCount
    <2>1. UNCHANGED ring /\ answer' = [ok |-> FALSE, data |-> <<>>] /\ n \notin 0..Len(Contents[r])
      BY <1>1, <1>2 DEF SkipBytes, Refuse, Answer
    <2> QED BY <2>1, NoneChanged DEF Queue!Skip, Queue!Refuse, Queue!Answer
  <1>3. CASE ~(n < 0 \/ n > ring[r].fillCount)
    <2>1. /\ ring' = [ring EXCEPT ![r] = Skipped(@, n)] /\ answer' = [ok |-> TRUE, data |-> <<>>]
          /\ n \in Nat /\ n <= ring[r].fillCount /\ n \in 0..Len(Contents[r])
      BY <1>1, <1>3 DEF SkipBytes, Accept, Answer
    <2> QED BY <2>1, BytesTaken DEF Queue!Skip, Queue!Accept, Queue!Answer
  <1> QED BY <1>2, <1>3

LEMMA WriteIsQueued ==
    ASSUME FilledInv, NEW r \in Rings, NEW n \in 0..MaxSize, NEW data \in [1..n -> Bytes], WriteData(r, data)
    PROVE  FilledInv' /\ Queue!Write(r, data)
  <1>1. data \in Seq(Bytes) /\ Len(data) \in Nat
    BY SizeAssumption
  <1>2. Queue!Room(r) = MaxWriteSize(ring[r]) /\ MaxWriteSize(ring[r]) \in Int /\ Solid(ring[r])
    BY ContentsAndCapacities, SolidNumbers DEF FilledInv, MaxWriteSize
  <1>3. CASE Len(data) > MaxWriteSize(ring[r])
    <2>1. UNCHANGED ring /\ answer' = [ok |-> FALSE, data |-> <<>>] /\ ~(Len(data) <= Queue!Room(r))
      BY <1>1, <1>2, <1>3 DEF WriteData, Refuse, Answer
    <2> QED BY <2>1, NoneChanged DEF Queue!Write, Queue!Refuse, Queue!Answer
  <1>4. CASE ~(Len(data) > MaxWriteSize(ring[r]))
    <2>1. /\ ring' = [ring EXCEPT ![r] = Written(ring[r], data)]
          /\ answer' = [ok |-> TRUE, data |-> <<>>] /\ Len(data) <= MaxWriteSize(ring[r])
      BY <1>1, <1>2, <1>4 DEF WriteData, Accept, Answer
    <2>2. /\ Solid(Written(ring[r], data)) /\ CapacityOf(Written(ring[r], data)) = Capacities[r]
          /\ Content(Written(ring[r], data)) = Contents[r] \o data
      <3>1. PICK b : b = ring[r]
        OBVIOUS
      <3>2. /\ Solid(Written(b, data)) /\ CapacityOf(Written(b, data)) = CapacityOf(b)
            /\ Content(Written(b, data)) = Content(b) \o data
        BY <1>1, <1>2, <2>1, <3>1, WrittenIsSolid
      <3> QED BY <3>1, <3>2, ContentsAndCapacities
    <2>3. /\ FilledInv' /\ UNCHANGED Capacities
          /\ Contents' = [Contents EXCEPT ![r] = Contents[r] \o data]
      BY <2>1, <2>2, OneChanged
    <2> QED BY <1>2, <2>1, <2>3 DEF Queue!Write, Queue!Accept, Queue!Answer
  <1> QED BY <1>3, <1>4

\* The target that a transfer of n bytes finds or makes.
LEMMA TargetOfTransfer ==
    ASSUME FilledInv, NEW s \in Rings, NEW object, Solid(object),
           CapacityOf(object) = CapacityOf(ring[s]), object.null = ring[s].null, NEW n \in 0..MaxSize
    PROVE  /\ Solid(Ready(object, n)) /\ Content(Ready(object, n)) = Content(object)
           /\ [Capacities EXCEPT ![s] = CapacityOf(Ready(object, n))] = Queue!MadeFor(s, n)
           /\ CapacityOf(Ready(object, n)) = Queue!MadeFor(s, n)[s]
           /\ MaxWriteSize(Ready(object, n)) \in Nat
           /\ MaxWriteSize(Ready(object, n)) = IF ring[s].null THEN n ELSE object.size - object.fillCount
  <1>1. /\ Solid(Ready(object, n)) /\ Content(Ready(object, n)) = Content(object)
        /\ CapacityOf(Ready(object, n)) = IF object.null THEN n ELSE CapacityOf(object)
        /\ Ready(object, n).size = IF object.null THEN n ELSE object.size
        /\ Ready(object, n).fillCount = object.fillCount
    BY ReadyIsSolid
  <1>2. /\ object.size \in Nat /\ object.fillCount \in Nat /\ object.fillCount <= object.size
        /\ object.null => object.size = 0
    BY SolidNumbers
  <1>3. /\ MaxWriteSize(Ready(object, n)) \in Nat
        /\ MaxWriteSize(Ready(object, n)) = IF ring[s].null THEN n ELSE object.size - object.fillCount
    BY <1>1, <1>2 DEF MaxWriteSize
  <1>4. /\ Capacities = [r \in Rings |-> Capacities[r]] /\ Capacities[s] = CapacityOf(object)
        /\ Capacities[s] = -1 <=> object.null
    BY ContentsAndCapacities
  <1>5. /\ [Capacities EXCEPT ![s] = CapacityOf(Ready(object, n))] = Queue!MadeFor(s, n)
        /\ CapacityOf(Ready(object, n)) = Queue!MadeFor(s, n)[s]
    BY <1>1, <1>4 DEF Queue!MadeFor, Queue!None
  <1> QED BY <1>1, <1>3, <1>5


\* ReadData(rBuf) moves bytes from one queue to another.
LEMMA ReadIntoIsQueued ==
    ASSUME FilledInv, NEW r \in Rings, NEW s \in Rings, NEW n \in 0..MaxSize, ReadInto(r, s, n)
    PROVE  FilledInv' /\ Queue!Move(r, s, n)
  <1>1. PICK target : target = Ready(ring[s], n)
    OBVIOUS
  <1>2. /\ Solid(target) /\ Content(target) = Contents[s]
        /\ [Capacities EXCEPT ![s] = CapacityOf(target)] = Queue!MadeFor(s, n)
        /\ MaxWriteSize(target) = Queue!RoomFor(s, n)
    <2>1. /\ Solid(ring[s]) /\ Content(ring[s]) = Contents[s]
          /\ Capacities[s] = -1 <=> ring[s].null
          /\ Queue!Room(s) = ring[s].size - ring[s].fillCount
      BY ContentsAndCapacities DEF FilledInv, MaxWriteSize
    <2> QED BY <1>1, <2>1, TargetOfTransfer DEF Queue!RoomFor, Queue!None
  <1>3. /\ r # s /\ Solid(ring[r]) /\ n \in Nat /\ MaxWriteSize(target) \in Int
        /\ Len(Contents[r]) = ring[r].fillCount /\ Contents[r] = Content(ring[r])
        /\ MaxReadSize(ring[r]) = ring[r].fillCount /\ ring[r].fillCount \in Nat
        /\ Capacities[r] = CapacityOf(ring[r])
    BY <1>2, ContentsAndCapacities, SolidNumbers DEF FilledInv, ReadInto, MaxReadSize, MaxWriteSize
  <1>4. CASE n <= MaxWriteSize(target) /\ n <= MaxReadSize(ring[r])
    <2>1. /\ ring' = [ring EXCEPT ![s] = Transferred(ring[r], target, n), ![r] = Skipped(@, n)]
          /\ answer' = [ok |-> TRUE, data |-> <<>>]
      BY <1>1, <1>4 DEF ReadInto, Accept, Answer
    <2>2. PICK x, y : x = Transferred(ring[r], target, n) /\ y = Skipped(ring[r], n)
      OBVIOUS
    <2>3. /\ Solid(x) /\ CapacityOf(x) = CapacityOf(target)
          /\ Content(x) = Contents[s] \o Queue!FirstBytes(Contents[r], n)
      <3>1. n <= ring[r].fillCount /\ n <= MaxWriteSize(target)
        BY <1>3, <1>4
      <3>2. PICK source : source = ring[r]
        OBVIOUS
      <3>3. Solid(source) /\ Solid(target) /\ n \in Nat /\ n <= source.fillCount
        BY <1>2, <1>3, <3>1, <3>2
      <3>4. /\ Solid(Transferred(source, target, n))
            /\ CapacityOf(Transferred(source, target, n)) = CapacityOf(target)
            /\ Content(Transferred(source, target, n)) = Content(target) \o SubSeq(Content(source), 1, n)
        BY <3>1, <3>3, TransferredIsSolid
      <3> QED BY <3>2, <3>4, <2>2, <1>2, <1>3 DEF Queue!FirstBytes
    <2>4. /\ Solid(y) /\ CapacityOf(y) = Capacities[r] /\ Content(y) = Queue!Rest(Contents[r], n)
      BY <1>3, <1>4, <2>2, SkippedIsSolid DEF Queue!Rest
    <2>5. ring' = [ring EXCEPT ![s] = x, ![r] = y]
      BY <1>3, <2>1, <2>2
    <2>6. /\ FilledInv' /\ Contents' = [Contents EXCEPT ![s] = Content(x), ![r] = Content(y)]
          /\ Capacities' = [Capacities EXCEPT ![s] = CapacityOf(x)]
      <3>1. Leaves(s, x, r, y)
        BY <1>3, <2>3, <2>4, <2>5 DEF Leaves
      <3> QED BY <2>4, <3>1, TwoChanged
    <2>7. Contents' = [Contents EXCEPT ![s] = @ \o Queue!FirstBytes(Contents[r], n),
                                       ![r] = Queue!Rest(@, n)]
      BY <1>3, <2>3, <2>4, <2>6
    <2>8. n <= Queue!RoomFor(s, n) /\ n <= Len(Contents[r])
      BY <1>2, <1>3, <1>4
    <2> QED BY <1>2, <1>3, <2>1, <2>3, <2>6, <2>7, <2>8 DEF Queue!Move, Queue!Accept, Queue!Answer
  <1>5. CASE ~(n <= MaxWriteSize(target) /\ n <= MaxReadSize(ring[r]))
    <2>1. ring' = [ring EXCEPT ![s] = target] /\ answer' = [ok |-> FALSE, data |-> <<>>]
      BY <1>1, <1>5 DEF ReadInto, Refuse, Answer
    <2>2. FilledInv' /\ UNCHANGED Contents /\ Capacities' = Queue!MadeFor(s, n)
      BY <1>2, <2>1, OneChanged
    <2>3. ~(n <= Queue!RoomFor(s, n) /\ n <= Len(Contents[r]))
      BY <1>2, <1>3, <1>5
    <2> QED BY <1>3, <2>1, <2>2, <2>3 DEF Queue!Move, Queue!Refuse, Queue!Answer
  <1> QED BY <1>4, <1>5

\* WriteData(rBuf) appends the source's first bytes to those of its object, if
\* they are there and there is room for them.
Fits(object, r, n) == /\ n <= Len(Contents[r])
                      /\ object.null \/ n <= object.size - object.fillCount

LEMMA WriteIntoIsQueued ==
    ASSUME FilledInv, NEW s \in Rings, NEW object, Solid(object),
           CapacityOf(object) = CapacityOf(ring[s]), object.null = ring[s].null,
           NEW r \in Rings, NEW n \in 0..MaxSize, WriteInto(s, object, ring[r], n)
    PROVE  /\ FilledInv' /\ Capacities' = Queue!MadeFor(s, n)
           /\ \/ /\ Fits(object, r, n) /\ answer' = [ok |-> TRUE, data |-> <<>>]
                 /\ Contents' = [Contents EXCEPT ![s] =
                                    Content(object) \o Queue!FirstBytes(Contents[r], n)]
              \/ /\ ~Fits(object, r, n) /\ answer' = [ok |-> FALSE, data |-> <<>>]
                 /\ Contents' = [Contents EXCEPT ![s] = Content(object)]
  <1>1. PICK target : target = Ready(object, n)
    OBVIOUS
  <1>2. /\ Solid(target) /\ Content(target) = Content(object)
        /\ [Capacities EXCEPT ![s] = CapacityOf(target)] = Queue!MadeFor(s, n)
        /\ MaxWriteSize(target) = IF object.null THEN n ELSE object.size - object.fillCount
    BY <1>1, TargetOfTransfer
  <1>3. /\ Solid(ring[r]) /\ n \in Nat
        /\ Len(Contents[r]) = ring[r].fillCount /\ Contents[r] = Content(ring[r])
        /\ MaxReadSize(ring[r]) = ring[r].fillCount
    BY ContentsAndCapacities, SizeAssumption DEF FilledInv, MaxReadSize
  <1>4. CASE n <= MaxReadSize(ring[r]) /\ n <= MaxWriteSize(target)
    <2>1. /\ ring' = [ring EXCEPT ![s] = Transferred(ring[r], target, n)]
          /\ answer' = [ok |-> TRUE, data |-> <<>>]
      BY <1>1, <1>4 DEF WriteInto, Accept, Answer
    <2>2. PICK x : x = Transferred(ring[r], target, n)
      OBVIOUS
    <2>3. /\ Solid(x) /\ CapacityOf(x) = CapacityOf(target)
          /\ Content(x) = Content(object) \o Queue!FirstBytes(Contents[r], n)
      <3>1. n <= ring[r].fillCount /\ n <= MaxWriteSize(target)
        BY <1>3, <1>4
      <3>2. /\ Solid(Transferred(ring[r], target, n))
            /\ CapacityOf(Transferred(ring[r], target, n)) = CapacityOf(target)
            /\ Content(Transferred(ring[r], target, n)) = Content(target) \o SubSeq(Content(ring[r]), 1, n)
        BY <1>2, <1>3, <3>1, TransferredIsSolid
      <3> QED BY <3>2, <2>2, <1>2, <1>3 DEF Queue!FirstBytes
    <2>4. /\ FilledInv' /\ Contents' = [Contents EXCEPT ![s] = Content(x)]
          /\ Capacities' = [Capacities EXCEPT ![s] = CapacityOf(x)]
      BY <2>1, <2>2, <2>3, OneChanged
    <2>5. Fits(object, r, n)
      BY <1>2, <1>3, <1>4 DEF Fits
    <2> QED BY <1>2, <2>1, <2>3, <2>4, <2>5
  <1>5. CASE ~(n <= MaxReadSize(ring[r]) /\ n <= MaxWriteSize(target))
    <2>1. ring' = [ring EXCEPT ![s] = target] /\ answer' = [ok |-> FALSE, data |-> <<>>]
      BY <1>1, <1>5 DEF WriteInto, Refuse, Answer
    <2>2. /\ FilledInv' /\ Contents' = [Contents EXCEPT ![s] = Content(target)]
          /\ Capacities' = [Capacities EXCEPT ![s] = CapacityOf(target)]
      BY <1>2, <2>1, OneChanged
    <2>3. ~Fits(object, r, n)
      BY <1>2, <1>3, <1>5 DEF Fits
    <2> QED BY <1>2, <2>1, <2>2, <2>3
  <1> QED BY <1>4, <1>5

\* WriteData(rBuf), and Append with all that the source has.
LEMMA CopyIsQueued ==
    ASSUME FilledInv, NEW s \in Rings, NEW r \in Rings, r # s, NEW n \in 0..MaxSize,
           WriteInto(s, ring[s], ring[r], n)
    PROVE  FilledInv' /\ Queue!CopyTo(r, s, n)
  <1>1. /\ Solid(ring[s]) /\ Content(ring[s]) = Contents[s]
        /\ Capacities[s] = -1 <=> ring[s].null
        /\ Queue!Room(s) = ring[s].size - ring[s].fillCount
        /\ Contents = [q \in Rings |-> Contents[q]]
    BY ContentsAndCapacities DEF FilledInv, MaxWriteSize
  <1>2. PICK object : object = ring[s]
    OBVIOUS
  <1>3. /\ FilledInv' /\ Capacities' = Queue!MadeFor(s, n)
        /\ \/ /\ Fits(object, r, n) /\ answer' = [ok |-> TRUE, data |-> <<>>]
              /\ Contents' = [Contents EXCEPT ![s] =
                                 Content(object) \o Queue!FirstBytes(Contents[r], n)]
           \/ /\ ~Fits(object, r, n) /\ answer' = [ok |-> FALSE, data |-> <<>>]
              /\ Contents' = [Contents EXCEPT ![s] = Content(object)]
    <2>1. /\ Solid(object) /\ CapacityOf(object) = CapacityOf(ring[s]) /\ object.null = ring[s].null
          /\ WriteInto(s, object, ring[r], n)
      BY ONLY <1>1, <1>2, WriteInto(s, ring[s], ring[r], n)
    <2> QED BY <2>1, WriteIntoIsQueued, Zenon
  <1>4. Fits(object, r, n) <=> n <= Queue!RoomFor(s, n) /\ n <= Len(Contents[r])
    BY <1>1, <1>2, SizeAssumption DEF Fits, Queue!RoomFor, Queue!None
  <1>5. Content(object) = Contents[s]
    BY <1>1, <1>2
  <1>6. CASE Fits(object, r, n)
    BY <1>3, <1>4, <1>5, <1>6 DEF Queue!CopyTo, Queue!Accept, Queue!Answer
  <1>7. CASE ~Fits(object, r, n)
    <2>1. UNCHANGED Contents /\ answer' = [ok |-> FALSE, data |-> <<>>]
      BY <1>1, <1>3, <1>5, <1>7
    <2> QED BY <1>3, <1>4, <1>7, <2>1 DEF Queue!CopyTo, Queue!Refuse, Queue!Answer
  <1> QED BY <1>6, <1>7

\* Copy clears its object first, also if the source's bytes do not fit.
LEMMA ReplaceIsQueued ==
    ASSUME FilledInv, NEW s \in Rings, NEW r \in Rings, Copy(s, r)
    PROVE  FilledInv' /\ Queue!Replace(r, s)
  <1>1. PICK object, n : object = Cleared(ring[s]) /\ n = Len(Contents[r])
    OBVIOUS
  <1>2. /\ Solid(ring[s]) /\ n = MaxReadSize(ring[r]) /\ n \in 0..MaxSize /\ n \in Nat
        /\ Contents[r] \in Seq(Bytes) /\ CapacityOf(ring[s]) = Capacities[s]
        /\ Capacities[s] = -1 <=> ring[s].null
        /\ Contents = [q \in Rings |-> Contents[q]]
        /\ Capacities = [q \in Rings |-> Capacities[q]]
    BY <1>1, ContentsAndCapacities, SizeAssumption DEF FilledInv, MaxReadSize
  <1>3. /\ Solid(object) /\ Content(object) = <<>> /\ CapacityOf(object) = CapacityOf(ring[s])
        /\ object.null = ring[s].null /\ object.size = ring[s].size /\ object.fillCount = 0
        /\ object.size \in Nat
    <2>1. /\ Solid(object) /\ Content(object) = <<>> /\ CapacityOf(object) = CapacityOf(ring[s])
      BY <1>1, <1>2, ClearedIsSolid
    <2>2. PICK B : ring[s] \in Members(B)
      BY <1>2 DEF Solid, Sound, HasMembers
    <2> QED BY <1>1, <2>1, <2>2, SolidNumbers DEF Cleared, Members
  <1>4. r # s /\ WriteInto(s, object, ring[r], n)
    BY <1>1, <1>2 DEF Copy
  <1>5. /\ FilledInv' /\ Capacities' = Queue!MadeFor(s, n)
        /\ \/ /\ Fits(object, r, n) /\ answer' = [ok |-> TRUE, data |-> <<>>]
              /\ Contents' = [Contents EXCEPT ![s] =
                                 Content(object) \o Queue!FirstBytes(Contents[r], n)]
           \/ /\ ~Fits(object, r, n) /\ answer' = [ok |-> FALSE, data |-> <<>>]
              /\ Contents' = [Contents EXCEPT ![s] = Content(object)]
    <2>1. /\ Solid(object) /\ CapacityOf(object) = CapacityOf(ring[s]) /\ object.null = ring[s].null
          /\ n \in 0..MaxSize /\ WriteInto(s, object, ring[r], n)
      BY <1>2, <1>3, <1>4
    <2> QED BY <2>1, WriteIntoIsQueued
  <1>6. Content(object) \o Queue!FirstBytes(Contents[r], n) = Contents[r]
    BY <1>1, <1>2, <1>3, SubSeqFull, ConcatEmptySeq DEF Queue!FirstBytes
  <1>7. Fits(object, r, n) <=> n <= Queue!MadeFor(s, n)[s]
    <2>1. Queue!MadeFor(s, n)[s] = IF ring[s].null THEN n ELSE object.size
      BY <1>2, <1>3 DEF Queue!MadeFor, Queue!None, CapacityOf
    <2> QED BY <1>1, <1>2, <1>3, <2>1 DEF Fits
  <1>8. CASE Fits(object, r, n)
    BY <1>1, <1>4, <1>5, <1>6, <1>7, <1>8 DEF Queue!Replace, Queue!Accept, Queue!Answer
  <1>9. CASE ~Fits(object, r, n)
    BY <1>1, <1>3, <1>4, <1>5, <1>7, <1>9 DEF Queue!Replace, Queue!Refuse, Queue!Answer
  <1> QED BY <1>8, <1>9

\* Every step is a step of the queue.
LEMMA StepIsQueued ==
    ASSUME FilledInv, [RingNext]_ringVars
    PROVE  FilledInv' /\ [Queue!Next]_(Queue!vars)
  <1>1. CASE UNCHANGED ringVars
    <2>1. UNCHANGED ring /\ UNCHANGED answer
      BY <1>1 DEF ringVars
    <2> QED BY <2>1, NoneChanged DEF Queue!vars
  <1>2. ASSUME NEW r \in Rings, Destroy(r) PROVE FilledInv' /\ Queue!Next
    BY <1>2, DestroyIsQueued DEF Queue!Next
  <1>3. ASSUME NEW r \in Rings, Clear(r) PROVE FilledInv' /\ Queue!Next
    BY <1>3, ClearIsQueued DEF Queue!Next
  <1>4. ASSUME NEW r \in Rings, NEW n \in 0..MaxSize, Create(r, n) PROVE FilledInv' /\ Queue!Next
    BY <1>4, CreateIsQueued DEF Queue!Next
  <1>5. ASSUME NEW r \in Rings, NEW n \in 0..MaxSize, ReadData(r, n) PROVE FilledInv' /\ Queue!Next
    BY <1>5, ReadIsQueued DEF Queue!Next
  <1>6. ASSUME NEW r \in Rings, NEW n \in -1..MaxSize, SkipBytes(r, n) PROVE FilledInv' /\ Queue!Next
    BY <1>6, SkipIsQueued DEF Queue!Next
  <1>7. ASSUME NEW r \in Rings, NEW n \in 0..MaxSize, NEW data \in [1..n -> Bytes], WriteData(r, data)
        PROVE  FilledInv' /\ Queue!Next
    BY <1>7, WriteIsQueued DEF Queue!Next
  <1>8. ASSUME NEW r \in Rings, NEW s \in Rings, NEW n \in 0..MaxSize, ReadInto(r, s, n)
        PROVE  FilledInv' /\ Queue!Next
    BY <1>8, ReadIntoIsQueued DEF Queue!Next
  <1>9. ASSUME NEW r \in Rings, NEW s \in Rings, NEW n \in 0..MaxSize, WriteFrom(s, r, n)
        PROVE  FilledInv' /\ Queue!Next
    BY <1>9, CopyIsQueued DEF WriteFrom, Queue!Next
  <1>10. ASSUME NEW r \in Rings, NEW s \in Rings, Append_(s, r) PROVE FilledInv' /\ Queue!Next
    <2>1. PICK n : n = Len(Contents[r])
      OBVIOUS
    <2>2. n \in 0..MaxSize /\ n = MaxReadSize(ring[r])
      BY <2>1, ContentsAndCapacities DEF MaxReadSize
    <2>3. FilledInv' /\ Queue!CopyTo(r, s, n)
      BY <1>10, <2>2, CopyIsQueued DEF Append_
    <2> QED BY <2>1, <2>3 DEF Queue!Next
  <1>11. ASSUME NEW r \in Rings, NEW s \in Rings, Copy(s, r) PROVE FilledInv' /\ Queue!Next
    BY <1>11, ReplaceIsQueued DEF Queue!Next
  <1> QED BY <1>1, <1>2, <1>3, <1>4, <1>5, <1>6, <1>7, <1>8, <1>9, <1>10, <1>11 DEF RingNext

LEMMA InitIsQueued == RingInit => FilledInv /\ Queue!Init
  <1> SUFFICES ASSUME RingInit PROVE FilledInv /\ Queue!Init
    OBVIOUS
  <1>1. \A r \in Rings : ring[r] = NullRing
    BY DEF RingInit
  <1>2. FilledInv
    BY <1>1, NullIsSolid, NullIsSound DEF RingInit, FilledInv, IInv
  <1>3. Contents = [r \in Rings |-> <<>>] /\ Capacities = [r \in Rings |-> -1]
    BY <1>1, NullIsSolid DEF Contents, Capacities
  <1> QED BY <1>2, <1>3 DEF RingInit, Queue!Init, Queue!None

\* A ring buffer does nothing that a queue of bytes does not do: whatever the
\* calls and the places of the wrap, the bytes come out once and in order.
THEOREM IsQueue == RingSpec => IsAQueue
  <1>1. RingInit => FilledInv /\ Queue!Init
    BY InitIsQueued
  <1>2. FilledInv /\ [RingNext]_ringVars => FilledInv' /\ [Queue!Next]_(Queue!vars)
    BY StepIsQueued
  <1> QED BY <1>1, <1>2, PTL DEF RingSpec, IsAQueue, Queue!Spec

-----------------------------------------------------------------------------
(* The types of the members and of what the calls answer.                  *)

Answers == [ok : BOOLEAN, data : Seq(Bytes)]

LEMMA AnswerIsTyped ==
    ASSUME NEW ok \in BOOLEAN, NEW data \in Seq(Bytes)
    PROVE  [ok |-> ok, data |-> data] \in Answers
  BY DEF Answers

\* Every call answers with bytes that a caller has written.
LEMMA StepKeepsAnswer ==
    ASSUME FilledInv, answer \in Answers, [RingNext]_ringVars
    PROVE  answer' \in Answers
  <1>1. [ok |-> TRUE, data |-> <<>>] \in Answers /\ [ok |-> FALSE, data |-> <<>>] \in Answers
    BY EmptySeq, AnswerIsTyped
  <1>2. ASSUME NEW r \in Rings, NEW n \in 0..MaxSize, ReadData(r, n)
        PROVE  answer' \in Answers
    <2>1. Solid(ring[r]) /\ n \in Nat /\ ring[r].fillCount \in Nat
      BY SolidNumbers, SizeAssumption DEF FilledInv
    <2>2. CASE n > ring[r].fillCount
      BY <1>1, <1>2, <2>2 DEF ReadData, Refuse, Answer
    <2>3. CASE ~(n > ring[r].fillCount)
      <3>1. Peek(ring[r], n) \in Seq(Bytes)
        BY <2>1, <2>3, PeekedCells
      <3>2. answer' = [ok |-> TRUE, data |-> Peek(ring[r], n)]
        BY <1>2, <2>3 DEF ReadData, Answer
      <3> QED BY <3>1, <3>2, AnswerIsTyped
    <2> QED BY <2>2, <2>3
  <1>3. CASE UNCHANGED ringVars
    BY <1>3 DEF ringVars
  <1>4. CASE RingNext /\ \A r \in Rings, n \in 0..MaxSize : ~ReadData(r, n)
    <2>1. answer' = [ok |-> TRUE, data |-> <<>>] \/ answer' = [ok |-> FALSE, data |-> <<>>]
      BY <1>4 DEF RingNext, Destroy, Clear, Create, SkipBytes, WriteData, ReadInto, WriteFrom, Append_, Copy,
                  WriteInto, Accept, Refuse, Answer
    <2> QED BY <1>1, <2>1
  <1> QED BY <1>2, <1>3, <1>4

LEMMA SolidIsRingObject ==
    ASSUME NEW b, Solid(b)
    PROVE  b \in RingObjects
  <1>1. PICK B : b \in Members(B)
    BY DEF Solid, Sound, HasMembers
  <1>2. b.size \in 0..MaxSize /\ b.buffer \in [0..b.size - 1 -> Bytes \cup {Garbage}]
    BY <1>1, SizeAssumption DEF Members, Solid, Filled
  <1>3. b.buffer \in UNION {[0..n - 1 -> Bytes \cup {Garbage}] : n \in 0..MaxSize}
    BY <1>2
  <1> QED BY <1>1, <1>3 DEF Members, RingObjects

\* Whatever the calls, an object's numbers never go below zero, its memory never
\* outgrows what was asked for, and a call never answers with a cell that
\* nothing was written to.
THEOREM TypesHold == RingSpec => []RingTypeOK
  <1> DEFINE TypeInv == FilledInv /\ answer \in Answers
  <1>1. RingInit => TypeInv
    BY InitIsQueued, EmptySeq, AnswerIsTyped DEF RingInit
  <1>2. TypeInv /\ [RingNext]_ringVars => TypeInv'
    BY StepIsQueued, StepKeepsAnswer
  <1>3. TypeInv => RingTypeOK
    <2> SUFFICES ASSUME TypeInv PROVE RingTypeOK
      OBVIOUS
    <2>1. ring = [r \in Rings |-> ring[r]] /\ \A r \in Rings : ring[r] \in RingObjects
      BY SolidIsRingObject DEF FilledInv, IInv
    <2> QED BY <2>1 DEF RingTypeOK, Answers
  <1> HIDE DEF TypeInv
  <1> QED BY <1>1, <1>2, <1>3, PTL DEF RingSpec
------------------------------------------------------------------------------
(* Induction and loops.                                                    *)

\* The provers have no induction, but a set of numbers that is well founded.
LEMMA Induct ==
  ASSUME NEW N, 0 \in N, \A n \in Nat : n \in N => n + 1 \in N
  PROVE  Nat \subseteq N
  <1> DEFINE T == {0..m : m \in Nat \ N}
  <1> SUFFICES ASSUME Nat \ N # {}
               PROVE  FALSE
    OBVIOUS
  <1>1. \A A \in T : A \in FiniteSubsetsOf(Nat)
    <2> SUFFICES ASSUME NEW m \in Nat PROVE 0..m \in FiniteSubsetsOf(Nat)
      OBVIOUS
    <2>1. IsFiniteSet(0..m)
      BY FS_Interval
    <2> QED BY <2>1 DEF FiniteSubsetsOf
  <1>2. T \subseteq FiniteSubsetsOf(Nat) /\ T # {}
    BY <1>1
  <1> HIDE DEF T
  <1>3. PICK A \in T : \A B \in T : ~ (<<B, A>> \in StrictSubsetOrdering(Nat))
    BY <1>2, FS_StrictSubsetOrderingWellFounded, WFMin
  <1> USE DEF T
  <1>4. PICK m \in Nat \ N : A = 0..m
    OBVIOUS
  <1>5. m # 0 /\ m - 1 \in Nat /\ m - 1 \notin N
    BY <1>4
  <1>6. 0..m-1 \in T /\ 0..m-1 \subseteq 0..m /\ 0..m-1 # 0..m
    <2>1. m \in 0..m /\ m \notin 0..m-1
      OBVIOUS
    <2> QED BY <1>5, <2>1
  <1>7. <<0..m-1, A>> \in StrictSubsetOrdering(Nat)
    BY <1>4, <1>6 DEF StrictSubsetOrdering
  <1> QED BY <1>3, <1>6, <1>7

\* f is a loop that begins with a and turns i into F[i] of what was before.
LoopTo(f, a, F, n) == f[0] = a /\ \A i \in 1..n : f[i] = F[i][f[i - 1]]

\* Two loops that do the same agree.
LEMMA LoopsAgree ==
    ASSUME NEW n \in Nat, NEW a, NEW F, NEW f, NEW g, NEW m \in 0..n,
           LoopTo(f, a, F, m), LoopTo(g, a, F, n)
    PROVE  \A i \in 0..m : f[i] = g[i]
  <1> DEFINE N == {i \in Nat : i <= m => f[i] = g[i]}
  <1>1. 0 \in N
    BY DEF LoopTo
  <1>2. ASSUME NEW i \in Nat, i \in N PROVE i + 1 \in N
    <2>1. SUFFICES ASSUME i + 1 <= m PROVE f[i + 1] = g[i + 1]
      OBVIOUS
    <2>2. f[i] = g[i] /\ i + 1 \in 1..m /\ i + 1 \in 1..n /\ (i + 1) - 1 = i
      BY <1>2, <2>1
    <2>3. f[i + 1] = F[i + 1][f[(i + 1) - 1]] /\ g[i + 1] = F[i + 1][g[(i + 1) - 1]]
      BY <2>2 DEF LoopTo
    <2> QED BY <2>2, <2>3
  <1> HIDE DEF N
  <1>3. Nat \subseteq N
    BY <1>1, <1>2, Induct
  <1> QED BY <1>3 DEF N

\* A loop that stays in T exists, for as many turns as are wanted ...
LEMMA LoopUpTo ==
    ASSUME NEW T, NEW a \in T, NEW F \in [Nat -> [T -> T]], NEW n \in Nat
    PROVE  \E f \in [0..n -> T] : LoopTo(f, a, F, n)
  <1> DEFINE N == {i \in Nat : \E f \in [0..i -> T] : LoopTo(f, a, F, i)}
  <1>1. 0 \in N
    <2>1. [i \in 0..0 |-> a] \in [0..0 -> T] /\ LoopTo([i \in 0..0 |-> a], a, F, 0)
      BY DEF LoopTo
    <2> QED BY <2>1
  <1>2. ASSUME NEW i \in Nat, i \in N PROVE i + 1 \in N
    <2>1. PICK f \in [0..i -> T] : LoopTo(f, a, F, i)
      BY <1>2
    <2> DEFINE g == [j \in 0..i + 1 |-> IF j <= i THEN f[j] ELSE F[i + 1][f[i]]]
    <2>2. g \in [0..i + 1 -> T]
      <3>1. F[i + 1] \in [T -> T] /\ f[i] \in T
        OBVIOUS
      <3> QED BY <3>1
    <2>3. g[0] = a
      BY <2>1 DEF LoopTo
    <2>4. ASSUME NEW j \in 1..i + 1 PROVE g[j] = F[j][g[j - 1]]
      <3>1. CASE j <= i
        <4>1. j \in 1..i /\ j - 1 \in 0..i
          BY <3>1
        <4>2. f[j] = F[j][f[j - 1]] /\ g[j] = f[j] /\ g[j - 1] = f[j - 1]
          BY <2>1, <3>1, <4>1 DEF LoopTo
        <4> QED BY <4>2
      <3>2. CASE j = i + 1
        BY <3>2
      <3> QED BY <3>1, <3>2
    <2> HIDE DEF g
    <2>5. LoopTo(g, a, F, i + 1)
      BY <2>3, <2>4 DEF LoopTo
    <2> QED BY <2>2, <2>5
  <1> HIDE DEF N
  <1>3. Nat \subseteq N
    BY <1>1, <1>2, Induct
  <1> QED BY <1>3 DEF N

\* ... and for ever.
LEMMA LoopForEver ==
    ASSUME NEW T, NEW a \in T, NEW F \in [Nat -> [T -> T]]
    PROVE  \E f \in [Nat -> T] : \A n \in Nat : LoopTo(f, a, F, n)
  <1> DEFINE G(n) == CHOOSE f \in [0..n -> T] : LoopTo(f, a, F, n)
             f == [n \in Nat |-> G(n)[n]]
  <1>1. ASSUME NEW n \in Nat PROVE G(n) \in [0..n -> T] /\ LoopTo(G(n), a, F, n)
    BY LoopUpTo
  <1> HIDE DEF G
  <1>2. f \in [Nat -> T]
    BY <1>1
  <1>3. ASSUME NEW n \in Nat PROVE f[n + 1] = F[n + 1][f[n]]
    <2>1. LoopTo(G(n), a, F, n) /\ LoopTo(G(n + 1), a, F, n + 1)
      BY <1>1
    <2>2. G(n)[n] = G(n + 1)[n]
      BY <2>1, LoopsAgree
    <2>3. G(n + 1)[n + 1] = F[n + 1][G(n + 1)[(n + 1) - 1]]
      BY <2>1 DEF LoopTo
    <2>4. (n + 1) - 1 = n
      OBVIOUS
    <2> QED BY <2>2, <2>3, <2>4
  <1>4. f[0] = a
    BY <1>1 DEF LoopTo
  <1> HIDE DEF f
  <1>5. ASSUME NEW n \in Nat, NEW i \in 1..n PROVE f[i] = F[i][f[i - 1]]
    <2>1. i - 1 \in Nat /\ (i - 1) + 1 = i
      OBVIOUS
    <2> QED BY <2>1, <1>3
  <1> QED BY <1>2, <1>4, <1>5 DEF LoopTo

\* The same as a recursive function with domain D.
IsLoop(f, a, F, D) == f = [i \in D |-> IF i = 0 THEN a ELSE F[i][f[i - 1]]]

LEMMA Loop ==
    ASSUME NEW T, NEW a \in T, NEW F \in [Nat -> [T -> T]], NEW n \in Nat
    PROVE  \E f \in [0..n -> T] : IsLoop(f, a, F, 0..n)
  <1>1. PICK f \in [0..n -> T] : LoopTo(f, a, F, n)
    BY LoopUpTo
  <1>2. ASSUME NEW i \in 0..n PROVE f[i] = IF i = 0 THEN a ELSE F[i][f[i - 1]]
    BY <1>1 DEF LoopTo
  <1> QED BY <1>2 DEF IsLoop

LEMMA Loops ==
    ASSUME NEW T, NEW a \in T, NEW F \in [Nat -> [T -> T]]
    PROVE  \E f \in [Nat -> T] : IsLoop(f, a, F, Nat)
  <1>1. PICK f \in [Nat -> T] : \A n \in Nat : LoopTo(f, a, F, n)
    BY LoopForEver
  <1>2. ASSUME NEW i \in Nat PROVE f[i] = IF i = 0 THEN a ELSE F[i][f[i - 1]]
    <2>1. LoopTo(f, a, F, i)
      BY <1>1
    <2> QED BY <2>1 DEF LoopTo
  <1> QED BY <1>2 DEF IsLoop
------------------------------------------------------------------------------
(* Lists of pointers.  L says which entries are on which list; the memory  *)
(* holds L when the pointers of every list make a circle of its head and   *)
(* its entries, in both directions, and no entry is twice on a list.       *)

LNext(m, x) == m[<<x, "next">>]
LPrev(m, x) == m[<<x, "prev">>]

\* The place i of the circle: its head comes before the first and after the last.
At(h, s, i) == IF i \in 1..Len(s) THEN s[i] ELSE h

Circle(m, h, s) ==
    \A i \in 0..Len(s) : /\ LNext(m, At(h, s, i)) = At(h, s, i + 1)
                         /\ LPrev(m, At(h, s, i + 1)) = At(h, s, i)
Apart(L) ==
    \A h, g \in Heads : \A i \in 1..Len(L[h]), j \in 1..Len(L[g]) : L[h][i] = L[g][j] => h = g /\ i = j

Memories == [Lists!Cells -> Lists!Places \cup {Null, Poison}]
OnHeads == [Heads -> Seq(Nodes)]
Circles(m, L) == \A h \in Heads : Circle(m, h, L[h])
Holds(m, L) == m \in Memories /\ L \in OnHeads /\ Apart(L) /\ Circles(m, L)

OnList(L, n) == \E h \in Heads : \E i \in 1..Len(L[h]) : L[h][i] = n

Inserted(s, i, n) == [j \in 1..Len(s) + 1 |-> IF j <= i THEN s[j] ELSE IF j = i + 1 THEN n ELSE s[j - 1]]
Removed(s, i) == [j \in 1..Len(s) - 1 |-> IF j < i THEN s[j] ELSE s[j + 1]]

LEMMA HeadsAreNoNodes == \A h \in Heads, n \in Nodes : h # n
  BY ListsAssumption DEF Lists!ListAssumption

LEMMA EntriesApart ==
    ASSUME NEW L, Apart(L), NEW h \in Heads, NEW g \in Heads, NEW i \in 1..Len(L[h]), NEW j \in 1..Len(L[g]),
           L[h][i] = L[g][j]
    PROVE  h = g /\ i = j
  BY DEF Apart

\* A place of a circle is in no other, and once in its own.
LEMMA PlacesApart ==
    ASSUME NEW L \in OnHeads, Apart(L), NEW h \in Heads, NEW g \in Heads,
           NEW i \in 0..Len(L[h]) + 1, NEW j \in 0..Len(L[g]) + 1, At(h, L[h], i) = At(g, L[g], j)
    PROVE  /\ h = g
           /\ i \in 1..Len(L[h]) \/ j \in 1..Len(L[g]) => i = j
  <1>1. L[h] \in Seq(Nodes) /\ L[g] \in Seq(Nodes) /\ Len(L[h]) \in Nat /\ Len(L[g]) \in Nat
    BY DEF OnHeads
  <1>2. CASE i \in 1..Len(L[h])
    <2>1. L[h][i] \in Nodes
      BY <1>1, <1>2
    <2>2. j \in 1..Len(L[g])
      BY <1>2, <2>1, HeadsAreNoNodes DEF At
    <2> QED BY <1>2, <2>2 DEF At, Apart
  <1>3. CASE i \notin 1..Len(L[h])
    <2>1. j \notin 1..Len(L[g])
      <3> SUFFICES ASSUME j \in 1..Len(L[g]) PROVE FALSE
        OBVIOUS
      <3>1. L[g][j] \in Nodes
        BY <1>1
      <3> QED BY <1>3, <3>1, HeadsAreNoNodes DEF At
    <2> QED BY <1>3, <2>1 DEF At
  <1> QED BY <1>2, <1>3

LEMMA AtIsAPlace ==
    ASSUME NEW L \in OnHeads, NEW h \in Heads, NEW i \in Int
    PROVE  /\ At(h, L[h], i) \in Lists!Places
           /\ i \in 1..Len(L[h]) => At(h, L[h], i) = L[h][i] /\ L[h][i] \in Nodes
           /\ i \notin 1..Len(L[h]) => At(h, L[h], i) = h
  <1>1. L[h] \in Seq(Nodes)
    BY DEF OnHeads
  <1> QED BY <1>1 DEF At, Lists!Places

\* An entry is put between two neighbours.
LEMMA Linking ==
    ASSUME NEW m, NEW L, Holds(m, L), NEW h \in Heads, NEW i \in 0..Len(L[h]), NEW n \in Nodes, ~OnList(L, n),
           NEW m2 \in Memories,
           \A x \in Lists!Places :
              /\ LNext(m2, x) = IF x = n THEN At(h, L[h], i + 1) ELSE IF x = At(h, L[h], i) THEN n ELSE LNext(m, x)
              /\ LPrev(m2, x) = IF x = n THEN At(h, L[h], i) ELSE IF x = At(h, L[h], i + 1) THEN n ELSE LPrev(m, x)
    PROVE  Holds(m2, [L EXCEPT ![h] = Inserted(@, i, n)])
  <1> DEFINE s == L[h]
             t == Inserted(s, i, n)
             K == [L EXCEPT ![h] = t]
  <1>1. L \in OnHeads /\ Apart(L) /\ Circles(m, L)
    BY DEF Holds
  <1>2. s \in Seq(Nodes) /\ Len(s) \in Nat /\ i \in 0..Len(s)
    BY <1>1 DEF OnHeads
  <1>3. t \in Seq(Nodes) /\ Len(t) = Len(s) + 1
    <2>1. t \in [1..Len(s) + 1 -> Nodes]
      BY <1>2 DEF Inserted
    <2> QED BY <2>1, <1>2
  <1>4. K \in OnHeads /\ K[h] = t /\ \A g \in Heads : g # h => K[g] = L[g]
    BY <1>1, <1>3 DEF OnHeads
  <1>5. \A j \in 1..Len(t) : t[j] = IF j <= i THEN s[j] ELSE IF j = i + 1 THEN n ELSE s[j - 1]
    BY <1>2, <1>3 DEF Inserted
  <1>6. \A j \in 0..Len(t) + 1 : At(h, t, j) = IF j <= i THEN At(h, s, j) ELSE IF j = i + 1 THEN n ELSE At(h, s, j - 1)
    <2> TAKE j \in 0..Len(t) + 1
    <2>1. CASE j \in 1..Len(t)
      <3>1. j <= i => j \in 1..Len(s)
        BY <2>1, <1>2
      <3>2. j > i + 1 => j - 1 \in 1..Len(s)
        BY <2>1, <1>2, <1>3
      <3> HIDE DEF t
      <3> QED BY <2>1, <3>1, <3>2, <1>5 DEF At
    <2>2. CASE j = 0
      BY <2>2, <1>2, <1>3 DEF At
    <2>3. CASE j = Len(t) + 1
      <3>1. j > i + 1 /\ j - 1 \notin 1..Len(s) /\ j \notin 1..Len(t)
        BY <2>3, <1>2, <1>3
      <3> HIDE DEF t
      <3> QED BY <3>1 DEF At
    <2> HIDE DEF s, t
    <2>4. j \in 1..Len(t) \/ j = 0 \/ j = Len(t) + 1
      BY <1>2, <1>3
    <2> QED BY <2>1, <2>2, <2>3, <2>4
  <1>7. \A g \in Heads : \A j \in 0..Len(L[g]) + 1 : At(g, L[g], j) # n /\ At(g, L[g], j) \in Lists!Places
    <2> TAKE g \in Heads
    <2> TAKE j \in 0..Len(L[g]) + 1
    <2>1. Len(L[g]) \in Nat
      BY <1>1 DEF OnHeads
    <2> QED BY <2>1, <1>1, AtIsAPlace, HeadsAreNoNodes DEF OnList
  <1> HIDE DEF s, t, K
  <1>8. Apart(K)
    <2> SUFFICES ASSUME NEW f \in Heads, NEW g \in Heads, NEW a \in 1..Len(K[f]), NEW b \in 1..Len(K[g]),
                        K[f][a] = K[g][b]
                 PROVE  f = g /\ a = b
      BY DEF Apart
    <2>1. ASSUME NEW e \in 1..Len(t), NEW q \in Heads, q # h, NEW c \in 1..Len(L[q])
          PROVE  t[e] # L[q][c]
      <3>1. L[q][c] # n
        BY <1>1 DEF OnList
      <3>2. e <= i => e \in 1..Len(s)
        BY <1>2
      <3>3. e > i + 1 => e - 1 \in 1..Len(s)
        BY <1>2, <1>3
      <3> QED BY <2>1, <3>1, <3>2, <3>3, <1>1, <1>5 DEF Apart, s
    <2>2. ASSUME NEW e \in 1..Len(t), NEW c \in 1..Len(t), t[e] = t[c]
          PROVE  e = c
      <3>1. \A k \in 1..Len(t) : /\ k <= i => k \in 1..Len(s)
                                 /\ k > i + 1 => k - 1 \in 1..Len(s)
        BY <1>2, <1>3
      <3>2. \A k \in 1..Len(s) : s[k] # n
        BY <1>1 DEF OnList, s
      <3>3. \A k, l \in 1..Len(s) : s[k] = s[l] => k = l
        BY <1>1 DEF Apart, s
      <3>4. t[e] = IF e <= i THEN s[e] ELSE IF e = i + 1 THEN n ELSE s[e - 1]
        BY <1>5
      <3>5. t[c] = IF c <= i THEN s[c] ELSE IF c = i + 1 THEN n ELSE s[c - 1]
        BY <1>5
      <3>6. \A k \in 1..Len(t) : (t[k] = n) = (k = i + 1)
        <4> TAKE k \in 1..Len(t)
        <4>1. t[k] = IF k <= i THEN s[k] ELSE IF k = i + 1 THEN n ELSE s[k - 1]
          BY <1>5
        <4>2. k <= i => s[k] # n /\ k # i + 1
          BY <3>1, <3>2, <1>2
        <4>3. ~(k <= i) /\ k # i + 1 => k > i + 1
          BY <1>2, <1>3
        <4>4. k > i + 1 => s[k - 1] # n /\ ~(k <= i) /\ k # i + 1
          BY <3>1, <3>2, <1>2, <1>3
        <4> QED BY <4>1, <4>2, <4>3, <4>4, <1>2
      <3>7. CASE e = i + 1 \/ c = i + 1
        BY <2>2, <3>6, <3>7
      <3>8. CASE e # i + 1 /\ c # i + 1
        <4> DEFINE k == IF e <= i THEN e ELSE e - 1
                   l == IF c <= i THEN c ELSE c - 1
        <4>1. k \in 1..Len(s) /\ l \in 1..Len(s)
          BY <3>1, <3>8, <1>2, <1>3
        <4>2. s[k] = s[l]
          BY <2>2, <3>4, <3>5, <3>8
        <4>3. k = l
          BY <4>1, <4>2, <3>3
        <4> QED BY <4>3, <3>8, <1>2, <1>3
      <3> QED BY <3>7, <3>8
    <2>3. CASE f = h /\ g = h
      BY <2>2, <2>3, <1>4
    <2>4. CASE f = h /\ g # h
      BY <2>1, <2>4, <1>4
    <2>5. CASE f # h /\ g = h
      BY <2>1, <2>5, <1>4
    <2>6. CASE f # h /\ g # h
      BY <2>6, <1>1, <1>4 DEF Apart
    <2> QED BY <2>3, <2>4, <2>5, <2>6
  <1> DEFINE p == At(h, L[h], i)
             q == At(h, L[h], i + 1)
  <1>9. \A x \in Lists!Places : x # n => /\ x # p => LNext(m2, x) = LNext(m, x)
                                         /\ x # q => LPrev(m2, x) = LPrev(m, x)
    OBVIOUS
  <1>10. LNext(m2, n) = q /\ LPrev(m2, n) = p /\ LNext(m2, p) = n /\ LPrev(m2, q) = n
    <2>1. p # n /\ q # n /\ p \in Lists!Places /\ q \in Lists!Places
      <3>1. i \in 0..Len(L[h]) + 1 /\ i + 1 \in 0..Len(L[h]) + 1
        BY <1>2 DEF s
      <3> QED BY <3>1, <1>7
    <2>2. n \in Lists!Places
      BY DEF Lists!Places
    <2> QED BY <2>1, <2>2
  <1>11. ASSUME NEW g \in Heads, NEW j \in 0..Len(L[g])
         PROVE  /\ At(g, L[g], j) = p => g = h /\ j = i
                /\ At(g, L[g], j + 1) = q => g = h /\ j = i
    <2>1. Len(L[g]) \in Nat /\ Len(L[h]) \in Nat
      BY <1>1 DEF OnHeads
    <2>2. j \in 0..Len(L[g]) + 1 /\ j + 1 \in 0..Len(L[g]) + 1 /\ i \in 0..Len(L[h]) + 1 /\ i + 1 \in 0..Len(L[h]) + 1
      BY <2>1
    <2>3. ASSUME At(g, L[g], j) = p PROVE g = h /\ j = i
      <3>1. g = h /\ (j \in 1..Len(L[g]) \/ i \in 1..Len(L[h]) => j = i)
        BY <2>2, <2>3, <1>1, PlacesApart
      <3> QED BY <3>1, <2>1
    <2>4. ASSUME At(g, L[g], j + 1) = q PROVE g = h /\ j = i
      <3>1. g = h /\ (j + 1 \in 1..Len(L[g]) \/ i + 1 \in 1..Len(L[h]) => j + 1 = i + 1)
        BY <2>2, <2>4, <1>1, PlacesApart
      <3> QED BY <3>1, <2>1
    <2> QED BY <2>3, <2>4
  <1> HIDE DEF p, q
  <1>12. ASSUME NEW g \in Heads, NEW j \in 0..Len(L[g]), ~(g = h /\ j = i)
         PROVE  /\ LNext(m2, At(g, L[g], j)) = At(g, L[g], j + 1)
                /\ LPrev(m2, At(g, L[g], j + 1)) = At(g, L[g], j)
    <2>1. Len(L[g]) \in Nat
      BY <1>1 DEF OnHeads
    <2>2. j \in 0..Len(L[g]) + 1 /\ j + 1 \in 0..Len(L[g]) + 1
      BY <2>1
    <2>3. At(g, L[g], j) # n /\ At(g, L[g], j + 1) # n /\ At(g, L[g], j) # p /\ At(g, L[g], j + 1) # q
      BY <2>2, <1>7, <1>11, <1>12
    <2>4. /\ LNext(m, At(g, L[g], j)) = At(g, L[g], j + 1)
          /\ LPrev(m, At(g, L[g], j + 1)) = At(g, L[g], j)
      BY <1>1 DEF Circles, Circle
    <2> QED BY <2>2, <2>3, <2>4, <1>7, <1>9
  <1>13. Circle(m2, h, t)
    <2> SUFFICES ASSUME NEW j \in 0..Len(t)
                 PROVE  /\ LNext(m2, At(h, t, j)) = At(h, t, j + 1)
                        /\ LPrev(m2, At(h, t, j + 1)) = At(h, t, j)
      BY DEF Circle
    <2>1. j \in 0..Len(t) + 1 /\ j + 1 \in 0..Len(t) + 1
      BY <1>2, <1>3
    <2>2. CASE j < i
      <3>1. At(h, t, j) = At(h, s, j) /\ At(h, t, j + 1) = At(h, s, j + 1)
        BY <1>6, <2>1, <2>2
      <3>2. j \in 0..Len(L[h]) /\ j # i
        BY <2>2, <1>2 DEF s
      <3> QED BY <3>1, <3>2, <1>12 DEF s
    <2>3. CASE j = i
      <3>1. At(h, t, j) = p /\ At(h, t, j + 1) = n
        BY <1>6, <2>1, <2>3 DEF p, s
      <3> QED BY <3>1, <1>10
    <2>4. CASE j = i + 1
      <3>1. At(h, t, j) = n
        BY <1>6, <2>1, <2>4
      <3>2. At(h, t, j + 1) = At(h, s, (j + 1) - 1) /\ (j + 1) - 1 = i + 1
        BY <1>6, <2>1, <2>4
      <3> QED BY <3>1, <3>2, <1>10 DEF q, s
    <2>5. CASE j > i + 1
      <3>1. At(h, t, j) = At(h, s, j - 1) /\ At(h, t, j + 1) = At(h, s, (j + 1) - 1) /\ (j + 1) - 1 = (j - 1) + 1
        BY <1>6, <2>1, <2>5
      <3>2. j - 1 \in 0..Len(L[h]) /\ j - 1 # i
        BY <2>5, <1>2, <1>3 DEF s
      <3> QED BY <3>1, <3>2, <1>12 DEF s
    <2> QED BY <2>2, <2>3, <2>4, <2>5
  <1>14. Circles(m2, K)
    <2> SUFFICES ASSUME NEW g \in Heads PROVE Circle(m2, g, K[g])
      BY DEF Circles
    <2>1. CASE g = h
      BY <2>1, <1>4, <1>13
    <2>2. CASE g # h
      BY <2>2, <1>4, <1>12 DEF Circle
    <2> QED BY <2>1, <2>2
  <1> QED BY <1>4, <1>8, <1>14 DEF Holds, K, t, s

\* An entry is taken out: its neighbours meet.
LEMMA Unlinking ==
    ASSUME NEW m, NEW L, Holds(m, L), NEW h \in Heads, NEW i \in 1..Len(L[h]), NEW m2 \in Memories,
           \A x \in Lists!Places : x # L[h][i] =>
              /\ LNext(m2, x) = IF x = At(h, L[h], i - 1) THEN At(h, L[h], i + 1) ELSE LNext(m, x)
              /\ LPrev(m2, x) = IF x = At(h, L[h], i + 1) THEN At(h, L[h], i - 1) ELSE LPrev(m, x)
    PROVE  /\ Holds(m2, [L EXCEPT ![h] = Removed(@, i)])
           /\ ~OnList([L EXCEPT ![h] = Removed(@, i)], L[h][i])
  <1> DEFINE s == L[h]
             n == L[h][i]
             t == Removed(s, i)
             K == [L EXCEPT ![h] = t]
  <1>1. L \in OnHeads /\ Apart(L) /\ Circles(m, L)
    BY DEF Holds
  <1>2. s \in Seq(Nodes) /\ Len(s) \in Nat /\ i \in 1..Len(s) /\ n = s[i]
    BY <1>1 DEF OnHeads
  <1>3. t \in Seq(Nodes) /\ Len(t) = Len(s) - 1
    <2>1. \A j \in 1..Len(s) - 1 : j \in 1..Len(s) /\ j + 1 \in 1..Len(s)
      BY <1>2
    <2>2. t \in [1..Len(s) - 1 -> Nodes]
      BY <2>1, <1>2 DEF Removed
    <2>3. Len(s) - 1 \in Nat
      BY <1>2
    <2> QED BY <2>2, <2>3
  <1>4. K \in OnHeads /\ K[h] = t /\ \A g \in Heads : g # h => K[g] = L[g]
    BY <1>1, <1>3 DEF OnHeads
  <1>5. \A j \in 1..Len(t) : /\ t[j] = IF j < i THEN s[j] ELSE s[j + 1]
                             /\ j < i => j \in 1..Len(s)
                             /\ j >= i => j + 1 \in 1..Len(s)
    BY <1>2, <1>3 DEF Removed
  <1>6. \A j \in 0..Len(t) + 1 : At(h, t, j) = IF j < i THEN At(h, s, j) ELSE At(h, s, j + 1)
    <2> TAKE j \in 0..Len(t) + 1
    <2>1. CASE j \in 1..Len(t)
      <3> HIDE DEF t, s
      <3> QED BY <2>1, <1>5 DEF At
    <2>2. CASE j = 0
      BY <2>2, <1>2, <1>3 DEF At
    <2>3. CASE j = Len(t) + 1
      <3>1. j >= i /\ j + 1 \notin 1..Len(s) /\ j \notin 1..Len(t)
        BY <2>3, <1>2, <1>3
      <3> HIDE DEF t, s
      <3> QED BY <3>1, <1>2 DEF At
    <2> HIDE DEF s, t
    <2>4. j \in 1..Len(t) \/ j = 0 \/ j = Len(t) + 1
      BY <1>2, <1>3
    <2> QED BY <2>1, <2>2, <2>3, <2>4
  <1> HIDE DEF s, t, K, n
  <1>7. \A g \in Heads : \A j \in 0..Len(L[g]) + 1 :
           /\ At(g, L[g], j) \in Lists!Places
           /\ ~(g = h /\ j = i) => At(g, L[g], j) # n
    <2> TAKE g \in Heads
    <2> TAKE j \in 0..Len(L[g]) + 1
    <2>1. Len(L[g]) \in Nat
      BY <1>1 DEF OnHeads
    <2>2. At(h, L[h], i) = n /\ i \in 0..Len(L[h]) + 1
      BY <1>2 DEF At, s
    <2>3. At(g, L[g], j) = n => g = h /\ i = j
      BY <2>2, <1>1, PlacesApart
    <2> QED BY <2>1, <2>3, <1>1, AtIsAPlace
  <1>8. Apart(K) /\ ~OnList(K, n)
    <2>1. \A g \in Heads : \A a \in 1..Len(K[g]) : \E c \in 1..Len(L[g]) :
             /\ K[g][a] = L[g][c]
             /\ g = h => c = IF a < i THEN a ELSE a + 1
             /\ g # h => c = a
      <3> TAKE g \in Heads
      <3> TAKE a \in 1..Len(K[g])
      <3>1. CASE g = h
        <4> DEFINE c == IF a < i THEN a ELSE a + 1
        <4>1. a \in 1..Len(t) /\ K[g] = t
          BY <3>1, <1>4
        <4>2. K[g][a] = L[g][c] /\ c \in 1..Len(L[g])
          BY <3>1, <4>1, <1>5 DEF s
        <4> QED BY <3>1, <4>2
      <3>2. CASE g # h
        BY <3>2, <1>4
      <3> QED BY <3>1, <3>2
    <2>2. Apart(K)
      <3> SUFFICES ASSUME NEW f \in Heads, NEW g \in Heads, NEW a \in 1..Len(K[f]), NEW b \in 1..Len(K[g]),
                          K[f][a] = K[g][b]
                   PROVE  f = g /\ a = b
        BY DEF Apart
      <3>1. PICK c \in 1..Len(L[f]) : /\ K[f][a] = L[f][c]
                                      /\ f = h => c = IF a < i THEN a ELSE a + 1
                                      /\ f # h => c = a
        BY <2>1
      <3>2. PICK d \in 1..Len(L[g]) : /\ K[g][b] = L[g][d]
                                      /\ g = h => d = IF b < i THEN b ELSE b + 1
                                      /\ g # h => d = b
        BY <2>1
      <3>3. f = g /\ c = d
        <4>1. L[f][c] = L[g][d]
          BY <3>1, <3>2
        <4>2. f \in Heads /\ g \in Heads /\ c \in 1..Len(L[f]) /\ d \in 1..Len(L[g]) /\ Apart(L)
          BY <1>1
        <4> QED BY <4>1, <4>2, EntriesApart
      <3>4. Len(K[f]) \in Nat /\ Len(K[g]) \in Nat
        BY <1>4 DEF OnHeads
      <3> QED BY <3>1, <3>2, <3>3, <3>4, <1>2
    <2>3. ~OnList(K, n)
      <3> SUFFICES ASSUME NEW g \in Heads, NEW a \in 1..Len(K[g]), K[g][a] = n
                   PROVE  FALSE
        BY DEF OnList
      <3>1. PICK c \in 1..Len(L[g]) : /\ K[g][a] = L[g][c]
                                      /\ g = h => c = IF a < i THEN a ELSE a + 1
        BY <2>1
      <3>2. g = h /\ c = i
        <4>1. L[g][c] = L[h][i]
          BY <3>1 DEF n
        <4> QED BY <4>1, <1>1, EntriesApart
      <3>3. Len(K[g]) \in Nat
        BY <1>4 DEF OnHeads
      <3> QED BY <3>1, <3>2, <3>3, <1>2
    <2> QED BY <2>2, <2>3
  <1> DEFINE p == At(h, L[h], i - 1)
             q == At(h, L[h], i + 1)
  <1>9. \A x \in Lists!Places : x # n => /\ x # p => LNext(m2, x) = LNext(m, x)
                                         /\ x # q => LPrev(m2, x) = LPrev(m, x)
    BY DEF n
  <1>10. LNext(m2, p) = q /\ LPrev(m2, q) = p
    <2>1. p # n /\ q # n /\ p \in Lists!Places /\ q \in Lists!Places
      <3>1. i - 1 \in 0..Len(L[h]) + 1 /\ i + 1 \in 0..Len(L[h]) + 1 /\ i - 1 # i /\ i + 1 # i
        BY <1>2 DEF s
      <3> QED BY <3>1, <1>7
    <2> QED BY <2>1 DEF n
  <1>11. ASSUME NEW g \in Heads, NEW j \in 0..Len(L[g])
         PROVE  /\ At(g, L[g], j) = p => g = h /\ j = i - 1
                /\ At(g, L[g], j + 1) = q => g = h /\ j = i
    <2>1. Len(L[g]) \in Nat /\ Len(L[h]) \in Nat /\ i \in 1..Len(L[h])
      BY <1>1 DEF OnHeads
    <2>2. j \in 0..Len(L[g]) + 1 /\ j + 1 \in 0..Len(L[g]) + 1 /\ i - 1 \in 0..Len(L[h]) + 1 /\ i + 1 \in 0..Len(L[h]) + 1
      BY <2>1
    <2>3. ASSUME At(g, L[g], j) = p PROVE g = h /\ j = i - 1
      <3>1. g = h /\ (j \in 1..Len(L[g]) \/ i - 1 \in 1..Len(L[h]) => j = i - 1)
        BY <2>2, <2>3, <1>1, PlacesApart
      <3> QED BY <3>1, <2>1
    <2>4. ASSUME At(g, L[g], j + 1) = q PROVE g = h /\ j = i
      <3>1. g = h /\ (j + 1 \in 1..Len(L[g]) \/ i + 1 \in 1..Len(L[h]) => j + 1 = i + 1)
        BY <2>2, <2>4, <1>1, PlacesApart
      <3> QED BY <3>1, <2>1
    <2> QED BY <2>3, <2>4
  <1> HIDE DEF p, q
  <1>12. ASSUME NEW g \in Heads, NEW j \in 0..Len(L[g]), ~(g = h /\ j \in {i - 1, i})
         PROVE  /\ LNext(m2, At(g, L[g], j)) = At(g, L[g], j + 1)
                /\ LPrev(m2, At(g, L[g], j + 1)) = At(g, L[g], j)
    <2>1. Len(L[g]) \in Nat /\ i \in Int
      BY <1>1 DEF OnHeads
    <2>2. j \in 0..Len(L[g]) + 1 /\ j + 1 \in 0..Len(L[g]) + 1 /\ (j + 1 = i => j = i - 1)
      BY <2>1
    <2>3. At(g, L[g], j) # n /\ At(g, L[g], j + 1) # n /\ At(g, L[g], j) # p /\ At(g, L[g], j + 1) # q
      BY <2>2, <1>7, <1>11, <1>12
    <2>4. /\ LNext(m, At(g, L[g], j)) = At(g, L[g], j + 1)
          /\ LPrev(m, At(g, L[g], j + 1)) = At(g, L[g], j)
      BY <1>1 DEF Circles, Circle
    <2> QED BY <2>2, <2>3, <2>4, <1>7, <1>9
  <1>13. Circle(m2, h, t)
    <2> SUFFICES ASSUME NEW j \in 0..Len(t)
                 PROVE  /\ LNext(m2, At(h, t, j)) = At(h, t, j + 1)
                        /\ LPrev(m2, At(h, t, j + 1)) = At(h, t, j)
      BY DEF Circle
    <2>1. j \in 0..Len(t) + 1 /\ j + 1 \in 0..Len(t) + 1
      BY <1>2, <1>3
    <2>2. CASE j < i - 1
      <3>1. At(h, t, j) = At(h, s, j) /\ At(h, t, j + 1) = At(h, s, j + 1)
        BY <1>2, <1>6, <2>1, <2>2
      <3>2. j \in 0..Len(L[h]) /\ j \notin {i - 1, i}
        BY <2>2, <1>2 DEF s
      <3> QED BY <3>1, <3>2, <1>12 DEF s
    <2>3. CASE j = i - 1
      <3>1. At(h, t, j) = At(h, s, i - 1) /\ At(h, t, j + 1) = At(h, s, i + 1)
        BY <1>2, <1>6, <2>1, <2>3
      <3> QED BY <3>1, <1>10 DEF p, q, s
    <2>4. CASE j >= i
      <3>1. At(h, t, j) = At(h, s, j + 1) /\ At(h, t, j + 1) = At(h, s, (j + 1) + 1)
        BY <1>2, <1>6, <2>1, <2>4
      <3>2. j + 1 \in 0..Len(L[h]) /\ j + 1 \notin {i - 1, i}
        BY <2>4, <1>2, <1>3 DEF s
      <3> QED BY <3>1, <3>2, <1>12 DEF s
    <2> QED BY <2>2, <2>3, <2>4, <1>2
  <1>14. Circles(m2, K)
    <2> SUFFICES ASSUME NEW g \in Heads PROVE Circle(m2, g, K[g])
      BY DEF Circles
    <2>1. CASE g = h
      BY <2>1, <1>4, <1>13
    <2>2. CASE g # h
      BY <2>2, <1>4, <1>12 DEF Circle
    <2> QED BY <2>1, <2>2
  <1> QED BY <1>4, <1>8, <1>14 DEF Holds, K, t, s, n

\* All entries of a list go to the front of another.
Joined(s, t) == [j \in 1..Len(s) + Len(t) |-> IF j <= Len(s) THEN s[j] ELSE t[j - Len(s)]]

LEMMA Splicing ==
    ASSUME NEW m, NEW L, Holds(m, L), NEW h \in Heads, NEW g \in Heads, h # g, L[h] # <<>>, NEW m2 \in Memories,
           \A x \in Lists!Places :
              /\ LNext(m2, x) = IF x = h THEN h ELSE IF x = L[h][Len(L[h])] THEN At(g, L[g], 1)
                                ELSE IF x = g THEN L[h][1] ELSE LNext(m, x)
              /\ LPrev(m2, x) = IF x = h THEN h ELSE IF x = At(g, L[g], 1) THEN L[h][Len(L[h])]
                                ELSE IF x = L[h][1] THEN g ELSE LPrev(m, x)
    PROVE  Holds(m2, [L EXCEPT ![g] = Joined(L[h], @), ![h] = <<>>])
  <1> DEFINE s == L[h]
             t == L[g]
             u == Joined(s, t)
             a == Len(s)
             K == [L EXCEPT ![g] = Joined(L[h], @), ![h] = <<>>]
  <1>1. L \in OnHeads /\ Apart(L) /\ Circles(m, L)
    BY DEF Holds
  <1>2. s \in Seq(Nodes) /\ t \in Seq(Nodes) /\ a \in Nat /\ Len(t) \in Nat /\ a >= 1
    <2>1. s \in Seq(Nodes) /\ t \in Seq(Nodes) /\ Len(s) \in Nat /\ Len(t) \in Nat
      BY <1>1 DEF OnHeads
    <2>2. Len(s) # 0
      BY <2>1
    <2> QED BY <2>1, <2>2
  <1>3. u \in Seq(Nodes) /\ Len(u) = a + Len(t)
    <2>1. a = Len(s)
      OBVIOUS
    <2> HIDE DEF s, t, a, u
    <2>2. \A j \in 1..a + Len(t) : (j <= a => j \in 1..a) /\ (j > a => j - a \in 1..Len(t)) /\ (j <= a \/ j > a)
      BY <1>2
    <2>3. \A j \in 1..a + Len(t) : (IF j <= a THEN s[j] ELSE t[j - a]) \in Nodes
      <3> TAKE j \in 1..a + Len(t)
      <3>1. j <= a => s[j] \in Nodes
        BY <1>2, <2>1, <2>2
      <3>2. j > a => t[j - a] \in Nodes
        BY <1>2, <2>1, <2>2
      <3> QED BY <3>1, <3>2, <2>2
    <2>4. u = [j \in 1..a + Len(t) |-> IF j <= a THEN s[j] ELSE t[j - a]]
      BY <2>1 DEF Joined, u
    <2>5. u \in [1..a + Len(t) -> Nodes] /\ a + Len(t) \in Nat
      BY <2>3, <2>4, <1>2
    <2> QED BY <2>5
  <1>4. /\ K \in OnHeads /\ K[g] = u /\ K[h] = <<>>
        /\ \A f \in Heads : f # h /\ f # g => K[f] = L[f]
    <2> HIDE DEF u
    <2>1. K = [L EXCEPT ![g] = u, ![h] = <<>>]
      BY DEF u
    <2> HIDE DEF K
    <2>2. <<>> \in Seq(Nodes)
      OBVIOUS
    <2> QED BY <2>1, <2>2, <1>1, <1>3 DEF OnHeads
  <1>5. \A j \in 1..Len(u) : /\ u[j] = IF j <= a THEN s[j] ELSE t[j - a]
                             /\ j <= a => j \in 1..a
                             /\ j > a => j - a \in 1..Len(t)
    <2> TAKE j \in 1..Len(u)
    <2> HIDE DEF s, t
    <2>1. u[j] = IF j <= a THEN s[j] ELSE t[j - a]
      BY <1>3 DEF Joined
    <2> HIDE DEF u, a
    <2>2. j \in 1..a + Len(t)
      BY <1>3
    <2>3. (j <= a => j \in 1..a) /\ (j > a => j - a \in 1..Len(t))
      BY <1>2, <2>2
    <2> QED BY <2>1, <2>3
  <1>6. \A j \in 0..Len(u) + 1 : At(g, u, j) = IF j = 0 THEN g ELSE IF j <= a THEN s[j] ELSE At(g, t, j - a)
    <2> TAKE j \in 0..Len(u) + 1
    <2> HIDE DEF s, t, u, a
    <2>1. CASE j \in 1..Len(u)
      <3>1. u[j] = (IF j <= a THEN s[j] ELSE t[j - a]) /\ (j > a => j - a \in 1..Len(t)) /\ j # 0 /\ (j <= a \/ j > a)
        BY <2>1, <1>2, <1>5
      <3>2. At(g, u, j) = u[j] /\ (j > a => At(g, t, j - a) = t[j - a])
        BY <2>1, <3>1 DEF At
      <3> QED BY <3>1, <3>2, <1>2
    <2>2. CASE j = 0
      BY <2>2, <1>2, <1>3 DEF At
    <2>3. CASE j = Len(u) + 1
      <3>1. j # 0 /\ ~(j <= a) /\ j - a \notin 1..Len(t) /\ j \notin 1..Len(u)
        BY <2>3, <1>2, <1>3
      <3> QED BY <3>1 DEF At
    <2>4. j \in 1..Len(u) \/ j = 0 \/ j = Len(u) + 1
      BY <1>2, <1>3
    <2> QED BY <2>1, <2>2, <2>3, <2>4
  <1>7. Apart(K)
    <2> SUFFICES ASSUME NEW f \in Heads, NEW e \in Heads, NEW b \in 1..Len(K[f]), NEW c \in 1..Len(K[e]),
                        K[f][b] = K[e][c]
                 PROVE  f = e /\ b = c
      BY DEF Apart
    <2>1. \A d \in Heads : \A k \in 1..Len(K[d]) : \E d0 \in Heads : \E k0 \in 1..Len(L[d0]) :
             /\ K[d][k] = L[d0][k0]
             /\ d # h
             /\ d # g => d0 = d /\ k0 = k
             /\ d = g => \/ d0 = h /\ k = k0 /\ k <= a
                         \/ d0 = g /\ k = k0 + a /\ k > a
      <3> TAKE d \in Heads
      <3> TAKE k \in 1..Len(K[d])
      <3> HIDE DEF K, u, a
      <3>1. d # h
        <4> SUFFICES ASSUME d = h PROVE FALSE
          OBVIOUS
        <4>1. Len(K[h]) = 0
          BY <1>4
        <4> QED BY <4>1
      <3>2. CASE d # g
        BY <3>1, <3>2, <1>4
      <3>3. CASE d = g /\ k <= a
        <4>1. k \in 1..Len(u) /\ K[d] = u
          BY <3>3, <1>4
        <4>2. k \in 1..Len(L[h]) /\ u[k] = L[h][k]
          BY <4>1, <3>3, <1>5 DEF a
        <4> QED BY <4>1, <4>2, <3>1, <3>3
      <3>4. CASE d = g /\ k > a
        <4>1. k \in 1..Len(u) /\ K[d] = u
          BY <3>4, <1>4
        <4>2. k - a \in 1..Len(L[g]) /\ u[k] = L[g][k - a] /\ k = (k - a) + a
          BY SMTT(30), <4>1, <3>4, <1>2, <1>3, <1>5
        <4> QED BY <4>1, <4>2, <3>1, <3>4
      <3>5. Len(K[d]) \in Nat
        BY <1>4 DEF OnHeads
      <3> QED BY <3>2, <3>3, <3>4, <3>5, <1>2
    <2> HIDE DEF K, u, a, s, t
    <2>2. PICK f0 \in Heads : \E k0 \in 1..Len(L[f0]) :
             /\ K[f][b] = L[f0][k0]
             /\ f # h
             /\ f # g => f0 = f /\ k0 = b
             /\ f = g => \/ f0 = h /\ b = k0 /\ b <= a
                         \/ f0 = g /\ b = k0 + a /\ b > a
      BY <2>1
    <2>3. PICK b0 \in 1..Len(L[f0]) :
             /\ K[f][b] = L[f0][b0]
             /\ f # h
             /\ f # g => f0 = f /\ b0 = b
             /\ f = g => \/ f0 = h /\ b = b0 /\ b <= a
                         \/ f0 = g /\ b = b0 + a /\ b > a
      BY <2>2
    <2>4. PICK e0 \in Heads : \E k0 \in 1..Len(L[e0]) :
             /\ K[e][c] = L[e0][k0]
             /\ e # h
             /\ e # g => e0 = e /\ k0 = c
             /\ e = g => \/ e0 = h /\ c = k0 /\ c <= a
                         \/ e0 = g /\ c = k0 + a /\ c > a
      BY <2>1
    <2>5. PICK c0 \in 1..Len(L[e0]) :
             /\ K[e][c] = L[e0][c0]
             /\ e # h
             /\ e # g => e0 = e /\ c0 = c
             /\ e = g => \/ e0 = h /\ c = c0 /\ c <= a
                         \/ e0 = g /\ c = c0 + a /\ c > a
      BY <2>4
    <2>6. f0 = e0 /\ b0 = c0
      <3>1. L[f0][b0] = L[e0][c0]
        BY <2>3, <2>5
      <3> QED BY <3>1, <1>1, EntriesApart
    <2> QED BY <2>3, <2>5, <2>6
  <1> HIDE DEF s, t, u, K, a
  <1>8. \A f \in Heads : \A j \in 0..Len(L[f]) + 1 : At(f, L[f], j) \in Lists!Places
    <2> TAKE f \in Heads
    <2> TAKE j \in 0..Len(L[f]) + 1
    <2>1. Len(L[f]) \in Nat
      BY <1>1 DEF OnHeads
    <2> QED BY <2>1, <1>1, AtIsAPlace
  <1> DEFINE q == At(g, t, 1)
  <1>9. /\ At(h, s, 1) = s[1] /\ At(h, s, a) = s[a] /\ At(g, t, 0) = g /\ At(h, s, 0) = h
        /\ 1 \in 0..a + 1 /\ a \in 0..a + 1 /\ 0 \in 0..a + 1 /\ 0 \in 0..Len(t) + 1 /\ 1 \in 0..Len(t) + 1
        /\ 1 \in 1..a /\ a \in 1..a
    BY <1>2 DEF At, a
  <1>10. \A x \in Lists!Places :
              /\ LNext(m2, x) = IF x = h THEN h ELSE IF x = s[a] THEN q ELSE IF x = g THEN s[1] ELSE LNext(m, x)
              /\ LPrev(m2, x) = IF x = h THEN h ELSE IF x = q THEN s[a] ELSE IF x = s[1] THEN g ELSE LPrev(m, x)
    BY DEF s, t, a
  \* Which place of which list is one of those that are written.
  <1>11. ASSUME NEW f \in Heads, NEW j \in 0..Len(L[f]) + 1
         PROVE  /\ At(f, L[f], j) = h => f = h
                /\ At(f, L[f], j) = g => f = g /\ j \notin 1..Len(t)
                /\ At(f, L[f], j) = s[a] => f = h /\ j = a
                /\ At(f, L[f], j) = s[1] => f = h /\ j = 1
                /\ At(f, L[f], j) = q => f = g /\ (j \in 1..Len(t) => j = 1) /\ (Len(t) # 0 => j = 1)
    <2>1. At(f, L[f], j) = At(h, L[h], 0) => f = h
      BY SMTT(30), <1>1, <1>9, PlacesApart DEF s, a
    <2>2. At(f, L[f], j) = At(g, L[g], 0) => f = g /\ (j \in 1..Len(L[f]) => j = 0)
      BY <1>1, <1>9, PlacesApart DEF t
    <2>3. At(f, L[f], j) = At(h, L[h], a) => f = h /\ j = a
      BY <1>1, <1>9, PlacesApart DEF s, a
    <2>4. At(f, L[f], j) = At(h, L[h], 1) => f = h /\ j = 1
      BY <1>1, <1>9, PlacesApart DEF s, a
    <2>5. At(f, L[f], j) = At(g, L[g], 1) => f = g /\ (j \in 1..Len(L[f]) \/ 1 \in 1..Len(L[g]) => j = 1)
      BY <1>1, <1>9, PlacesApart DEF t
    <2>6. Len(t) # 0 => 1 \in 1..Len(t)
      BY <1>2
    <2>7. At(f, L[f], j) = g => f = g /\ j \notin 1..Len(t)
      <3> SUFFICES ASSUME At(f, L[f], j) = g PROVE f = g /\ j \notin 1..Len(t)
        OBVIOUS
      <3>1. f = g /\ (j \in 1..Len(L[g]) => j = 0)
        BY <2>2, <1>9 DEF t
      <3> QED BY <3>1 DEF t
    <2> QED BY <2>1, <2>3, <2>4, <2>5, <2>6, <2>7, <1>9 DEF s, t
  <1> HIDE DEF q
  <1>12. ASSUME NEW f \in Heads, f # h, f # g, NEW j \in 0..Len(L[f])
         PROVE  /\ LNext(m2, At(f, L[f], j)) = At(f, L[f], j + 1)
                /\ LPrev(m2, At(f, L[f], j + 1)) = At(f, L[f], j)
    <2>1. Len(L[f]) \in Nat
      BY <1>1 DEF OnHeads
    <2>2. j \in 0..Len(L[f]) + 1 /\ j + 1 \in 0..Len(L[f]) + 1
      BY <2>1
    <2>3. /\ LNext(m, At(f, L[f], j)) = At(f, L[f], j + 1)
          /\ LPrev(m, At(f, L[f], j + 1)) = At(f, L[f], j)
      BY <1>1 DEF Circles, Circle
    <2>4. At(f, L[f], j) \notin {h, g, s[a]} /\ At(f, L[f], j + 1) \notin {h, q, s[1]}
      BY <2>2, <1>11, <1>12
    <2>5. At(f, L[f], j) \in Lists!Places /\ At(f, L[f], j + 1) \in Lists!Places
      BY <2>2, <1>8
    <2> QED BY <2>3, <2>4, <2>5, <1>10
  <1>13. ASSUME NEW j \in 1..a, j # a
         PROVE  LNext(m2, s[j]) = s[j + 1] /\ LPrev(m2, s[j + 1]) = s[j]
    <2>1. /\ j \in 0..Len(L[h]) /\ j \in 0..Len(L[h]) + 1 /\ j + 1 \in 0..Len(L[h]) + 1
          /\ j + 1 # 1 /\ j + 1 \in 1..a
      BY <1>2, <1>13 DEF a, s
    <2>2. /\ LNext(m, At(h, L[h], j)) = At(h, L[h], j + 1)
          /\ LPrev(m, At(h, L[h], j + 1)) = At(h, L[h], j)
      BY <2>1, <1>1 DEF Circles, Circle
    <2>3. At(h, L[h], j) = s[j] /\ At(h, L[h], j + 1) = s[j + 1]
      BY <2>1 DEF At, s, a
    <2>4. s[j] \notin {h, g, s[a]} /\ s[j + 1] \notin {h, g, q, s[1]}
      <3>1. s[j] \in Nodes /\ s[j + 1] \in Nodes
        BY <2>1, <1>2 DEF a
      <3>2. s[j] # h /\ s[j + 1] # h /\ s[j] # g /\ s[j + 1] # g
        BY <3>1, HeadsAreNoNodes
      <3>3. s[j] # s[a]
        BY <2>1, <2>3, <1>11, <1>13
      <3>4. s[j + 1] # s[1] /\ s[j + 1] # q
        BY <2>1, <2>3, <1>11, <1>13
      <3> QED BY <3>2, <3>3, <3>4
    <2>5. s[j] \in Lists!Places /\ s[j + 1] \in Lists!Places
      BY <2>1, <2>3, <1>8
    <2> QED BY <2>2, <2>3, <2>4, <2>5, <1>10
  <1>14. ASSUME NEW j \in 1..Len(t)
         PROVE  LNext(m2, At(g, t, j)) = At(g, t, j + 1) /\ LPrev(m2, At(g, t, j + 1)) = At(g, t, j)
    <2>1. /\ j \in 0..Len(L[g]) /\ j \in 0..Len(L[g]) + 1 /\ j + 1 \in 0..Len(L[g]) + 1
          /\ j + 1 # 1 /\ Len(t) # 0
      BY <1>2 DEF t
    <2>2. /\ LNext(m, At(g, t, j)) = At(g, t, j + 1)
          /\ LPrev(m, At(g, t, j + 1)) = At(g, t, j)
      BY <2>1, <1>1 DEF Circles, Circle, t
    <2>3. At(g, t, j) \notin {h, g, s[a]}
      BY <2>1, <1>11 DEF t
    <2>4. At(g, t, j + 1) \notin {h, q, s[1]}
      BY <2>1, <1>11 DEF t
    <2>5. At(g, t, j) \in Lists!Places /\ At(g, t, j + 1) \in Lists!Places
      BY <2>1, <1>8 DEF t
    <2> QED BY <2>2, <2>3, <2>4, <2>5, <1>10
  <1>15. LNext(m2, g) = s[1] /\ LPrev(m2, s[1]) = g
    <2>1. g \notin {h, s[a]}
      <3>1. s[a] \in Nodes
        BY <1>2, <1>9 DEF a
      <3> QED BY <3>1, HeadsAreNoNodes
    <2>2. s[1] \notin {h, q}
      <3>1. s[1] \in Nodes
        BY <1>2, <1>9 DEF a
      <3>2. s[1] # q
        BY <1>9, <1>11 DEF s, a
      <3> QED BY <3>1, <3>2, HeadsAreNoNodes
    <2>3. g \in Lists!Places /\ s[1] \in Lists!Places
      BY <1>8, <1>9 DEF Lists!Places, s, a
    <2> QED BY <2>1, <2>2, <2>3, <1>10
  <1>16. LNext(m2, s[a]) = q /\ LPrev(m2, q) = s[a]
    <2>1. s[a] # h
      <3>1. s[a] \in Nodes
        BY <1>2, <1>9 DEF a
      <3> QED BY <3>1, HeadsAreNoNodes
    <2>2. q # h
      BY <1>9, <1>11 DEF q, t
    <2>3. s[a] \in Lists!Places /\ q \in Lists!Places
      BY <1>8, <1>9 DEF q, s, a, t
    <2> QED BY <2>1, <2>2, <2>3, <1>10
  <1>17. Circle(m2, g, u)
    <2> SUFFICES ASSUME NEW j \in 0..Len(u)
                 PROVE  /\ LNext(m2, At(g, u, j)) = At(g, u, j + 1)
                        /\ LPrev(m2, At(g, u, j + 1)) = At(g, u, j)
      BY DEF Circle
    <2>1. j \in 0..Len(u) + 1 /\ j + 1 \in 0..Len(u) + 1 /\ j + 1 # 0
      BY <1>2, <1>3
    <2>2. CASE j = 0
      <3>1. At(g, u, j) = g /\ At(g, u, j + 1) = s[1]
        BY <1>2, <1>6, <2>1, <2>2
      <3> QED BY <3>1, <1>15
    <2>3. CASE j \in 1..a /\ j # a
      <3>1. At(g, u, j) = s[j] /\ At(g, u, j + 1) = s[j + 1]
        BY <1>2, <1>6, <2>1, <2>3
      <3> QED BY <3>1, <2>3, <1>13
    <2>4. CASE j = a
      <3>1. (a + 1) - a = 1 /\ ~(a + 1 <= a)
        BY <1>2
      <3>2. At(g, u, j) = s[a] /\ At(g, u, j + 1) = q
        BY <1>2, <1>6, <2>1, <2>4, <3>1 DEF q
      <3> QED BY <3>2, <1>16
    <2>5. CASE j > a
      <3>1. (j + 1) - a = (j - a) + 1 /\ j # 0 /\ ~(j <= a) /\ ~(j + 1 <= a) /\ j - a \in 1..Len(t)
        BY <1>2, <1>3, <2>5
      <3>2. At(g, u, j) = At(g, t, j - a) /\ At(g, u, j + 1) = At(g, t, (j - a) + 1)
        BY <1>6, <2>1, <3>1
      <3> QED BY <3>1, <3>2, <1>14
    <2> QED BY <2>2, <2>3, <2>4, <2>5, <1>2
  <1>18. Circle(m2, h, <<>>)
    <2>1. LNext(m2, h) = h /\ LPrev(m2, h) = h
      BY <1>10 DEF Lists!Places
    <2>2. \A j \in 0..Len(<<>>) : At(h, <<>>, j) = h /\ At(h, <<>>, j + 1) = h
      BY DEF At
    <2> QED BY <2>1, <2>2 DEF Circle
  <1>19. Circles(m2, K)
    <2> SUFFICES ASSUME NEW f \in Heads PROVE Circle(m2, f, K[f])
      BY DEF Circles
    <2>1. CASE f = g
      BY <2>1, <1>4, <1>17
    <2>2. CASE f = h
      BY <2>2, <1>4, <1>18
    <2>3. CASE f # h /\ f # g
      BY <2>3, <1>4, <1>12 DEF Circle
    <2> QED BY <2>1, <2>2, <2>3
  <1> QED BY <1>4, <1>7, <1>19 DEF Holds, K, u, s, t

------------------------------------------------------------------------------
(* Assignments, one after the other.                                       *)

Values == Lists!Places \cup {Null, Poison}
Assigned(m, c, v) == [m EXCEPT ![c] = v]

LEMMA AssignedIs ==
    ASSUME NEW m \in Memories, NEW c \in Lists!Cells, NEW v \in Values
    PROVE  /\ Assigned(m, c, v) \in Memories
           /\ \A d \in Lists!Cells : Assigned(m, c, v)[d] = IF d = c THEN v ELSE m[d]
  BY DEF Assigned, Memories, Values

LEMMA PutIs ==
    ASSUME NEW m \in Memories, NEW ws \in Seq(Lists!Cells \X Values)
    PROVE  \E g : /\ Lists!Put(m, ws) = g[Len(ws)]
                  /\ g[0] = m
                  /\ \A i \in 1..Len(ws) : g[i] = Assigned(g[i - 1], ws[i][1], ws[i][2])
  <1> DEFINE n == Len(ws)
             F == [i \in Nat |-> [x \in Memories |-> IF i \in 1..n THEN Assigned(x, ws[i][1], ws[i][2]) ELSE x]]
  <1>1. F \in [Nat -> [Memories -> Memories]]
    <2>1. ASSUME NEW i \in 1..n, NEW x \in Memories PROVE Assigned(x, ws[i][1], ws[i][2]) \in Memories
      <3>1. ws[i] \in Lists!Cells \X Values
        OBVIOUS
      <3> QED BY SMTT(30), <3>1, AssignedIs
    <2> QED BY <2>1
  <1>2. n \in Nat
    OBVIOUS
  <1> HIDE DEF F
  <1>3. PICK f \in [0..n -> Memories] : IsLoop(f, m, F, 0..n)
    BY <1>1, <1>2, Loop
  <1>4. f = [i \in 0..n |-> IF i = 0 THEN m ELSE [f[i - 1] EXCEPT ![ws[i][1]] = ws[i][2]]]
    <2>1. ASSUME NEW i \in 0..n
          PROVE  (IF i = 0 THEN m ELSE F[i][f[i - 1]]) = IF i = 0 THEN m ELSE [f[i - 1] EXCEPT ![ws[i][1]] = ws[i][2]]
      <3>1. i # 0 => i \in Nat /\ i \in 1..n /\ f[i - 1] \in Memories
        BY SMTT(30), <1>2
      <3> QED BY <3>1 DEF F, Assigned
    <2> QED BY <1>3, <2>1 DEF IsLoop
  <1> HIDE DEF n
  <1> DEFINE after == CHOOSE g : g = [i \in 0..n |-> IF i = 0 THEN m ELSE [g[i - 1] EXCEPT ![ws[i][1]] = ws[i][2]]]
  <1>5. Lists!Put(m, ws) = after[n]
    BY DEF Lists!Put, n
  <1>6. after = [i \in 0..n |-> IF i = 0 THEN m ELSE [after[i - 1] EXCEPT ![ws[i][1]] = ws[i][2]]]
    BY <1>4
  <1> HIDE DEF after
  <1>7. after[0] = m
    BY <1>2, <1>6
  <1>8. \A i \in 1..n : after[i] = Assigned(after[i - 1], ws[i][1], ws[i][2])
    <2> TAKE i \in 1..n
    <2>1. i \in 0..n /\ i # 0
      BY <1>2
    <2>2. after[i] = [after[i - 1] EXCEPT ![ws[i][1]] = ws[i][2]]
      BY <1>6, <2>1
    <2> QED BY <2>2 DEF Assigned
  <1> QED BY <1>5, <1>7, <1>8 DEF n

LEMMA Put1 ==
    ASSUME NEW m \in Memories, NEW c1 \in Lists!Cells, NEW v1 \in Values
    PROVE  Lists!Put(m, <<<<c1, v1>>>>) = Assigned(m, c1, v1)
  <1> DEFINE ws == <<<<c1, v1>>>>
  <1>1. ws \in Seq(Lists!Cells \X Values) /\ Len(ws) = 1 /\ ws[1][1] = c1 /\ ws[1][2] = v1
    OBVIOUS
  <1> HIDE DEF ws
  <1>2. PICK g : /\ Lists!Put(m, ws) = g[Len(ws)]
                 /\ g[0] = m
                 /\ \A i \in 1..Len(ws) : g[i] = Assigned(g[i - 1], ws[i][1], ws[i][2])
    BY <1>1, PutIs
  <1>3. g[1] = Assigned(g[1 - 1], ws[1][1], ws[1][2])
    BY <1>1, <1>2
  <1> QED BY <1>1, <1>2, <1>3 DEF ws

LEMMA Put2 ==
    ASSUME NEW m \in Memories, NEW c1 \in Lists!Cells, NEW v1 \in Values, NEW c2 \in Lists!Cells, NEW v2 \in Values
    PROVE  Lists!Put(m, <<<<c1, v1>>, <<c2, v2>>>>) = Assigned(Assigned(m, c1, v1), c2, v2)
  <1> DEFINE ws == <<<<c1, v1>>, <<c2, v2>>>>
  <1>1. ws \in Seq(Lists!Cells \X Values) /\ Len(ws) = 2 /\ ws[1] = <<c1, v1>> /\ ws[2] = <<c2, v2>>
    OBVIOUS
  <1> HIDE DEF ws
  <1>2. PICK g : /\ Lists!Put(m, ws) = g[Len(ws)]
                 /\ g[0] = m
                 /\ \A i \in 1..Len(ws) : g[i] = Assigned(g[i - 1], ws[i][1], ws[i][2])
    BY <1>1, PutIs
  <1>3. g[1] = Assigned(g[1 - 1], c1, v1) /\ g[2] = Assigned(g[2 - 1], c2, v2)
    BY <1>1, <1>2
  <1> QED BY <1>1, <1>2, <1>3 DEF ws

LEMMA Put4 ==
    ASSUME NEW m \in Memories, NEW w1 \in Lists!Cells \X Values, NEW w2 \in Lists!Cells \X Values,
           NEW w3 \in Lists!Cells \X Values, NEW w4 \in Lists!Cells \X Values
    PROVE  Lists!Put(m, <<w1, w2, w3, w4>>)
              = Assigned(Assigned(Assigned(Assigned(m, w1[1], w1[2]), w2[1], w2[2]), w3[1], w3[2]), w4[1], w4[2])
  <1> DEFINE ws == <<w1, w2, w3, w4>>
  <1>1. /\ ws \in Seq(Lists!Cells \X Values) /\ Len(ws) = 4
        /\ ws[1] = w1 /\ ws[2] = w2 /\ ws[3] = w3 /\ ws[4] = w4
    OBVIOUS
  <1> HIDE DEF ws
  <1>2. PICK g : /\ Lists!Put(m, ws) = g[Len(ws)]
                 /\ g[0] = m
                 /\ \A i \in 1..Len(ws) : g[i] = Assigned(g[i - 1], ws[i][1], ws[i][2])
    BY <1>1, PutIs
  <1>3. /\ g[1] = Assigned(g[1 - 1], w1[1], w1[2]) /\ g[2] = Assigned(g[2 - 1], w2[1], w2[2])
        /\ g[3] = Assigned(g[3 - 1], w3[1], w3[2]) /\ g[4] = Assigned(g[4 - 1], w4[1], w4[2])
    BY <1>1, <1>2
  <1> QED BY <1>1, <1>2, <1>3 DEF ws

LEMMA Put5 ==
    ASSUME NEW m \in Memories, NEW w1 \in Lists!Cells \X Values, NEW w2 \in Lists!Cells \X Values,
           NEW w3 \in Lists!Cells \X Values, NEW w4 \in Lists!Cells \X Values, NEW w5 \in Lists!Cells \X Values
    PROVE  Lists!Put(m, <<w1, w2, w3, w4, w5>>)
              = Assigned(Assigned(Assigned(Assigned(Assigned(m, w1[1], w1[2]), w2[1], w2[2]), w3[1], w3[2]), w4[1], w4[2]), w5[1], w5[2])
  <1> DEFINE ws == <<w1, w2, w3, w4, w5>>
  <1>1. /\ ws \in Seq(Lists!Cells \X Values) /\ Len(ws) = 5
        /\ ws[1] = w1 /\ ws[2] = w2 /\ ws[3] = w3 /\ ws[4] = w4 /\ ws[5] = w5
    OBVIOUS
  <1> HIDE DEF ws
  <1>2. PICK g : /\ Lists!Put(m, ws) = g[Len(ws)]
                 /\ g[0] = m
                 /\ \A i \in 1..Len(ws) : g[i] = Assigned(g[i - 1], ws[i][1], ws[i][2])
    BY <1>1, PutIs
  <1>3. /\ g[1] = Assigned(g[1 - 1], w1[1], w1[2]) /\ g[2] = Assigned(g[2 - 1], w2[1], w2[2])
        /\ g[3] = Assigned(g[3 - 1], w3[1], w3[2]) /\ g[4] = Assigned(g[4 - 1], w4[1], w4[2])
        /\ g[5] = Assigned(g[5 - 1], w5[1], w5[2])
    BY <1>1, <1>2
  <1> QED BY <1>1, <1>2, <1>3 DEF ws

\* What the pointers are after an assignment to one of them.
LEMMA AssignedNext ==
    ASSUME NEW m \in Memories, NEW y \in Lists!Places, NEW v \in Values
    PROVE  /\ Assigned(m, Lists!next(y), v) \in Memories
           /\ \A x \in Lists!Places : /\ LNext(Assigned(m, Lists!next(y), v), x) = IF x = y THEN v ELSE LNext(m, x)
                                      /\ LPrev(Assigned(m, Lists!next(y), v), x) = LPrev(m, x)
  <1>1. Lists!next(y) = <<y, "next">> /\ <<y, "next">> \in Lists!Cells
    BY DEF Lists!next, Lists!Cells
  <1>2. \A x \in Lists!Places : <<x, "next">> \in Lists!Cells /\ <<x, "prev">> \in Lists!Cells
    BY DEF Lists!Cells
  <1>3. \A x \in Lists!Places : <<x, "prev">> # <<y, "next">> /\ (<<x, "next">> = <<y, "next">>) = (x = y)
    OBVIOUS
  <1>4. /\ Assigned(m, Lists!next(y), v) \in Memories
        /\ \A c \in Lists!Cells : Assigned(m, Lists!next(y), v)[c] = IF c = <<y, "next">> THEN v ELSE m[c]
    BY <1>1, AssignedIs
  <1> QED BY <1>2, <1>3, <1>4 DEF LNext, LPrev

LEMMA AssignedPrev ==
    ASSUME NEW m \in Memories, NEW y \in Lists!Places, NEW v \in Values
    PROVE  /\ Assigned(m, Lists!prev(y), v) \in Memories
           /\ \A x \in Lists!Places : /\ LPrev(Assigned(m, Lists!prev(y), v), x) = IF x = y THEN v ELSE LPrev(m, x)
                                      /\ LNext(Assigned(m, Lists!prev(y), v), x) = LNext(m, x)
  <1>1. Lists!prev(y) = <<y, "prev">> /\ <<y, "prev">> \in Lists!Cells
    BY DEF Lists!prev, Lists!Cells
  <1>2. \A x \in Lists!Places : <<x, "next">> \in Lists!Cells /\ <<x, "prev">> \in Lists!Cells
    BY DEF Lists!Cells
  <1>3. \A x \in Lists!Places : <<x, "next">> # <<y, "prev">> /\ (<<x, "prev">> = <<y, "prev">>) = (x = y)
    OBVIOUS
  <1> QED BY <1>1, <1>2, <1>3, AssignedIs DEF LNext, LPrev

LEMMA CellsOfPlaces ==
    \A x \in Lists!Places : x \in Values /\ Lists!next(x) \in Lists!Cells /\ Lists!prev(x) \in Lists!Cells
  BY DEF Lists!next, Lists!prev, Lists!Cells, Values

------------------------------------------------------------------------------
(* What the operations assign: an entry is linked between two others, or   *)
(* left out by those beside it.                                            *)

Linked(m2, m, n, p, q) ==
    /\ m2 \in Memories
    /\ \A x \in Lists!Places :
          /\ LNext(m2, x) = IF x = n THEN q ELSE IF x = p THEN n ELSE LNext(m, x)
          /\ LPrev(m2, x) = IF x = n THEN p ELSE IF x = q THEN n ELSE LPrev(m, x)
Unlinked(m2, m, n, p, q) ==
    /\ m2 \in Memories
    /\ \A x \in Lists!Places : x # n =>
          /\ LNext(m2, x) = IF x = p THEN q ELSE LNext(m, x)
          /\ LPrev(m2, x) = IF x = q THEN p ELSE LPrev(m, x)

LEMMA LinkBetween ==
    ASSUME NEW m \in Memories, NEW n \in Lists!Places, NEW p \in Lists!Places, NEW q \in Lists!Places, n # p, n # q
    PROVE  /\ Linked(Lists!link_between(m, n, p, q), m, n, p, q)
           /\ Linked(Lists!link_between_rcu(m, n, p, q), m, n, p, q)
  <1>1. Linked(Lists!link_between(m, n, p, q), m, n, p, q)
    <2> DEFINE m1 == Assigned(m, Lists!prev(q), n)
               m2 == Assigned(m1, Lists!next(n), q)
               m3 == Assigned(m2, Lists!prev(n), p)
               m4 == Assigned(m3, Lists!next(p), n)
    <2>1. Lists!link_between(m, n, p, q) = m4
      <3>1. n \in Values /\ p \in Values /\ q \in Values
        BY CellsOfPlaces
      <3>2. /\ Lists!prev(q) \in Lists!Cells /\ Lists!next(n) \in Lists!Cells
            /\ Lists!prev(n) \in Lists!Cells /\ Lists!next(p) \in Lists!Cells
        BY CellsOfPlaces
      <3> DEFINE w1 == <<Lists!prev(q), n>>
                 w2 == <<Lists!next(n), q>>
                 w3 == <<Lists!prev(n), p>>
                 w4 == <<Lists!next(p), n>>
      <3>3. /\ w1 \in Lists!Cells \X Values /\ w2 \in Lists!Cells \X Values
            /\ w3 \in Lists!Cells \X Values /\ w4 \in Lists!Cells \X Values
        BY <3>1, <3>2
      <3>4. m4 = Assigned(Assigned(Assigned(Assigned(m, w1[1], w1[2]), w2[1], w2[2]), w3[1], w3[2]), w4[1], w4[2])
        OBVIOUS
      <3>5. Lists!link_between(m, n, p, q) = Lists!Put(m, <<w1, w2, w3, w4>>)
        BY DEF Lists!link_between
      <3> HIDE DEF m4, w1, w2, w3, w4
      <3> QED BY <3>3, <3>4, <3>5, Put4
    <2>2. /\ m1 \in Memories
          /\ \A x \in Lists!Places : LPrev(m1, x) = (IF x = q THEN n ELSE LPrev(m, x)) /\ LNext(m1, x) = LNext(m, x)
      BY CellsOfPlaces, AssignedPrev
    <2> HIDE DEF m1
    <2>3. /\ m2 \in Memories
          /\ \A x \in Lists!Places : LNext(m2, x) = (IF x = n THEN q ELSE LNext(m1, x)) /\ LPrev(m2, x) = LPrev(m1, x)
      BY <2>2, CellsOfPlaces, AssignedNext
    <2> HIDE DEF m2
    <2>4. /\ m3 \in Memories
          /\ \A x \in Lists!Places : LPrev(m3, x) = (IF x = n THEN p ELSE LPrev(m2, x)) /\ LNext(m3, x) = LNext(m2, x)
      BY <2>3, CellsOfPlaces, AssignedPrev
    <2> HIDE DEF m3
    <2>5. /\ m4 \in Memories
          /\ \A x \in Lists!Places : LNext(m4, x) = (IF x = p THEN n ELSE LNext(m3, x)) /\ LPrev(m4, x) = LPrev(m3, x)
      BY <2>4, CellsOfPlaces, AssignedNext
    <2> HIDE DEF m4
    <2> QED BY <2>1, <2>2, <2>3, <2>4, <2>5 DEF Linked
  <1>2. Linked(Lists!link_between_rcu(m, n, p, q), m, n, p, q)
    <2> DEFINE m1 == Assigned(m, Lists!next(n), q)
               m2 == Assigned(m1, Lists!prev(n), p)
               m3 == Assigned(m2, Lists!prev(q), n)
               m4 == Assigned(m3, Lists!next(p), n)
    <2>1. Lists!link_between_rcu(m, n, p, q) = m4
      <3>1. n \in Values /\ p \in Values /\ q \in Values
        BY CellsOfPlaces
      <3>2. /\ Lists!prev(q) \in Lists!Cells /\ Lists!next(n) \in Lists!Cells
            /\ Lists!prev(n) \in Lists!Cells /\ Lists!next(p) \in Lists!Cells
        BY CellsOfPlaces
      <3> DEFINE w1 == <<Lists!next(n), q>>
                 w2 == <<Lists!prev(n), p>>
                 w3 == <<Lists!prev(q), n>>
                 w4 == <<Lists!next(p), n>>
      <3>3. /\ w1 \in Lists!Cells \X Values /\ w2 \in Lists!Cells \X Values
            /\ w3 \in Lists!Cells \X Values /\ w4 \in Lists!Cells \X Values
        BY <3>1, <3>2
      <3>4. m4 = Assigned(Assigned(Assigned(Assigned(m, w1[1], w1[2]), w2[1], w2[2]), w3[1], w3[2]), w4[1], w4[2])
        OBVIOUS
      <3>5. Lists!link_between_rcu(m, n, p, q) = Lists!Put(m, <<w1, w2, w3, w4>>)
        BY DEF Lists!link_between_rcu
      <3> HIDE DEF m4, w1, w2, w3, w4
      <3> QED BY <3>3, <3>4, <3>5, Put4
    <2>2. /\ m1 \in Memories
          /\ \A x \in Lists!Places : LNext(m1, x) = (IF x = n THEN q ELSE LNext(m, x)) /\ LPrev(m1, x) = LPrev(m, x)
      BY CellsOfPlaces, AssignedNext
    <2> HIDE DEF m1
    <2>3. /\ m2 \in Memories
          /\ \A x \in Lists!Places : LPrev(m2, x) = (IF x = n THEN p ELSE LPrev(m1, x)) /\ LNext(m2, x) = LNext(m1, x)
      BY <2>2, CellsOfPlaces, AssignedPrev
    <2> HIDE DEF m2
    <2>4. /\ m3 \in Memories
          /\ \A x \in Lists!Places : LPrev(m3, x) = (IF x = q THEN n ELSE LPrev(m2, x)) /\ LNext(m3, x) = LNext(m2, x)
      BY <2>3, CellsOfPlaces, AssignedPrev
    <2> HIDE DEF m3
    <2>5. /\ m4 \in Memories
          /\ \A x \in Lists!Places : LNext(m4, x) = (IF x = p THEN n ELSE LNext(m3, x)) /\ LPrev(m4, x) = LPrev(m3, x)
      BY <2>4, CellsOfPlaces, AssignedNext
    <2> HIDE DEF m4
    <2> QED BY <2>1, <2>2, <2>3, <2>4, <2>5 DEF Linked
  <1> QED BY <1>1, <1>2

LEMMA UnlinkWrites ==
    ASSUME NEW m \in Memories, NEW p \in Lists!Places, NEW q \in Lists!Places
    PROVE  LET m2 == Lists!unlink(m, p, q) IN
           /\ m2 \in Memories
           /\ \A x \in Lists!Places : /\ LNext(m2, x) = IF x = p THEN q ELSE LNext(m, x)
                                      /\ LPrev(m2, x) = IF x = q THEN p ELSE LPrev(m, x)
  <1> DEFINE m1 == Assigned(m, Lists!prev(q), p)
             m2 == Assigned(m1, Lists!next(p), q)
  <1>1. Lists!unlink(m, p, q) = m2
    BY CellsOfPlaces, Put2 DEF Lists!unlink
  <1>2. /\ m1 \in Memories
        /\ \A x \in Lists!Places : LPrev(m1, x) = (IF x = q THEN p ELSE LPrev(m, x)) /\ LNext(m1, x) = LNext(m, x)
    BY CellsOfPlaces, AssignedPrev
  <1> HIDE DEF m1
  <1>3. /\ m2 \in Memories
        /\ \A x \in Lists!Places : LNext(m2, x) = (IF x = p THEN q ELSE LNext(m1, x)) /\ LPrev(m2, x) = LPrev(m1, x)
    BY <1>2, CellsOfPlaces, AssignedNext
  <1> HIDE DEF m2
  <1> QED BY <1>1, <1>2, <1>3

LEMMA InitWrites ==
    ASSUME NEW m \in Memories, NEW y \in Lists!Places
    PROVE  LET m2 == Lists!INIT_LIST_HEAD(m, y) IN
           /\ m2 \in Memories
           /\ \A x \in Lists!Places : /\ LNext(m2, x) = IF x = y THEN y ELSE LNext(m, x)
                                      /\ LPrev(m2, x) = IF x = y THEN y ELSE LPrev(m, x)
  <1> DEFINE m1 == Assigned(m, Lists!next(y), y)
             m2 == Assigned(m1, Lists!prev(y), y)
  <1>1. Lists!INIT_LIST_HEAD(m, y) = m2
    BY CellsOfPlaces, Put2 DEF Lists!INIT_LIST_HEAD
  <1>2. /\ m1 \in Memories
        /\ \A x \in Lists!Places : LNext(m1, x) = (IF x = y THEN y ELSE LNext(m, x)) /\ LPrev(m1, x) = LPrev(m, x)
    BY CellsOfPlaces, AssignedNext
  <1> HIDE DEF m1
  <1>3. /\ m2 \in Memories
        /\ \A x \in Lists!Places : LPrev(m2, x) = (IF x = y THEN y ELSE LPrev(m1, x)) /\ LNext(m2, x) = LNext(m1, x)
    BY <1>2, CellsOfPlaces, AssignedPrev
  <1> HIDE DEF m2
  <1> QED BY <1>1, <1>2, <1>3

\* However an entry is removed, only its own two pointers may be anything.
LEMMA DeletesUnlink ==
    ASSUME NEW m \in Memories, NEW n \in Lists!Places, LPrev(m, n) \in Lists!Places, LNext(m, n) \in Lists!Places
    PROVE  /\ Unlinked(Lists!list_del(m, n), m, n, LPrev(m, n), LNext(m, n))
           /\ Unlinked(Lists!list_del_rcu(m, n), m, n, LPrev(m, n), LNext(m, n))
           /\ Unlinked(Lists!list_del_init(m, n), m, n, LPrev(m, n), LNext(m, n))
           /\ Unlinked(Lists!unlink(m, LPrev(m, n), LNext(m, n)), m, n, LPrev(m, n), LNext(m, n))
  <1> DEFINE p == LPrev(m, n)
             q == LNext(m, n)
             m1 == Lists!unlink(m, p, q)
  <1>1. m[Lists!prev(n)] = p /\ m[Lists!next(n)] = q
    BY DEF LNext, LPrev, Lists!prev, Lists!next
  <1>2. /\ m1 \in Memories
        /\ \A x \in Lists!Places : /\ LNext(m1, x) = IF x = p THEN q ELSE LNext(m, x)
                                   /\ LPrev(m1, x) = IF x = q THEN p ELSE LPrev(m, x)
    BY UnlinkWrites
  <1> HIDE DEF p, q, m1
  <1>3. Null \in Values /\ Poison \in Values
    BY DEF Values
  <1>4. Unlinked(Lists!list_del(m, n), m, n, p, q)
    <2> DEFINE m2 == Assigned(m1, Lists!next(n), Null)
               m3 == Assigned(m2, Lists!prev(n), Null)
    <2>1. Lists!list_del(m, n) = m3
      BY <1>1, <1>2, <1>3, CellsOfPlaces, Put2 DEF Lists!list_del, m1
    <2>2. /\ m2 \in Memories
          /\ \A x \in Lists!Places : LNext(m2, x) = (IF x = n THEN Null ELSE LNext(m1, x)) /\ LPrev(m2, x) = LPrev(m1, x)
      BY <1>2, <1>3, AssignedNext
    <2> HIDE DEF m2
    <2>3. /\ m3 \in Memories
          /\ \A x \in Lists!Places : LPrev(m3, x) = (IF x = n THEN Null ELSE LPrev(m2, x)) /\ LNext(m3, x) = LNext(m2, x)
      BY <2>2, <1>3, AssignedPrev
    <2> HIDE DEF m3
    <2> QED BY <2>1, <2>2, <2>3, <1>2 DEF Unlinked
  <1>5. Unlinked(Lists!list_del_rcu(m, n), m, n, p, q)
    <2> DEFINE m2 == Assigned(m1, Lists!prev(n), Poison)
    <2>1. Lists!list_del_rcu(m, n) = m2
      BY <1>1, <1>2, <1>3, CellsOfPlaces, Put1 DEF Lists!list_del_rcu, m1
    <2>2. /\ m2 \in Memories
          /\ \A x \in Lists!Places : LPrev(m2, x) = (IF x = n THEN Poison ELSE LPrev(m1, x)) /\ LNext(m2, x) = LNext(m1, x)
      BY <1>2, <1>3, AssignedPrev
    <2> HIDE DEF m2
    <2> QED BY <2>1, <2>2, <1>2 DEF Unlinked
  <1>6. Unlinked(Lists!list_del_init(m, n), m, n, p, q)
    <2> DEFINE m2 == Lists!INIT_LIST_HEAD(m1, n)
    <2>1. Lists!list_del_init(m, n) = m2
      BY <1>1 DEF Lists!list_del_init, m1
    <2>2. /\ m2 \in Memories
          /\ \A x \in Lists!Places : /\ LNext(m2, x) = IF x = n THEN n ELSE LNext(m1, x)
                                     /\ LPrev(m2, x) = IF x = n THEN n ELSE LPrev(m1, x)
      BY <1>2, InitWrites
    <2> HIDE DEF m2
    <2> QED BY <2>1, <2>2, <1>2 DEF Unlinked
  <1>7. Unlinked(m1, m, n, p, q)
    BY <1>2 DEF Unlinked
  <1> QED BY <1>4, <1>5, <1>6, <1>7 DEF p, q, m1

\* A replacement is a removal and an addition at the same place.
LEMMA ReplaceLinks ==
    ASSUME NEW m \in Memories, NEW n \in Lists!Places, NEW new \in Lists!Places, n # new,
           LPrev(m, n) \in Lists!Places, LNext(m, n) \in Lists!Places,
           n \notin {LPrev(m, n), LNext(m, n)}, new \notin {LPrev(m, n), LNext(m, n)}
    PROVE  LET p == LPrev(m, n)
               q == LNext(m, n)
               mid == Assigned(Lists!unlink(m, p, q), Lists!prev(n), Poison)
           IN /\ Unlinked(mid, m, n, p, q)
              /\ Linked(Lists!list_replace_rcu(m, n, new), mid, new, p, q)
  <1> DEFINE p == LPrev(m, n)
             q == LNext(m, n)
             u == Lists!unlink(m, p, q)
             mid == Assigned(u, Lists!prev(n), Poison)
             m1 == Assigned(m, Lists!next(new), q)
             m2 == Assigned(m1, Lists!prev(new), p)
             m3 == Assigned(m2, Lists!prev(q), new)
             m4 == Assigned(m3, Lists!next(p), new)
             m5 == Assigned(m4, Lists!prev(n), Poison)
  <1>1. m[Lists!prev(n)] = p /\ m[Lists!next(n)] = q /\ Poison \in Values
    BY DEF LNext, LPrev, Lists!prev, Lists!next, Values
  <1>2. /\ u \in Memories
        /\ \A x \in Lists!Places : /\ LNext(u, x) = IF x = p THEN q ELSE LNext(m, x)
                                   /\ LPrev(u, x) = IF x = q THEN p ELSE LPrev(m, x)
    BY UnlinkWrites
  <1>3. p \in Lists!Places /\ q \in Lists!Places /\ n \notin {p, q} /\ new \notin {p, q}
    OBVIOUS
  <1> HIDE DEF p, q, u
  <1>4. /\ mid \in Memories
        /\ \A x \in Lists!Places : LPrev(mid, x) = (IF x = n THEN Poison ELSE LPrev(u, x)) /\ LNext(mid, x) = LNext(u, x)
    BY <1>1, <1>2, AssignedPrev
  <1> HIDE DEF mid
  <1>5. Unlinked(mid, m, n, p, q)
    BY <1>2, <1>4 DEF Unlinked
  <1>6. Lists!list_replace_rcu(m, n, new) = m5
    <2>1. p \in Values /\ q \in Values /\ new \in Values /\ Poison \in Values
      BY <1>1, <1>3, CellsOfPlaces
    <2>2. /\ Lists!prev(q) \in Lists!Cells /\ Lists!next(new) \in Lists!Cells /\ Lists!prev(new) \in Lists!Cells
          /\ Lists!next(p) \in Lists!Cells /\ Lists!prev(n) \in Lists!Cells
      BY <1>3, CellsOfPlaces
    <2> DEFINE w1 == <<Lists!next(new), q>>
               w2 == <<Lists!prev(new), p>>
               w3 == <<Lists!prev(q), new>>
               w4 == <<Lists!next(p), new>>
               w5 == <<Lists!prev(n), Poison>>
    <2>3. /\ w1 \in Lists!Cells \X Values /\ w2 \in Lists!Cells \X Values /\ w3 \in Lists!Cells \X Values
          /\ w4 \in Lists!Cells \X Values /\ w5 \in Lists!Cells \X Values
      BY <2>1, <2>2
    <2>4. m5 = Assigned(Assigned(Assigned(Assigned(Assigned(m, w1[1], w1[2]), w2[1], w2[2]), w3[1], w3[2]), w4[1], w4[2]), w5[1], w5[2])
      OBVIOUS
    <2>5. Lists!list_replace_rcu(m, n, new) = Lists!Put(m, <<w1, w2, w3, w4, w5>>)
      BY <1>1 DEF Lists!list_replace_rcu
    <2> HIDE DEF m5, w1, w2, w3, w4, w5
    <2> QED BY <2>3, <2>4, <2>5, Put5
  <1>7. /\ m1 \in Memories
        /\ \A x \in Lists!Places : LNext(m1, x) = (IF x = new THEN q ELSE LNext(m, x)) /\ LPrev(m1, x) = LPrev(m, x)
    BY <1>3, CellsOfPlaces, AssignedNext
  <1> HIDE DEF m1
  <1>8. /\ m2 \in Memories
        /\ \A x \in Lists!Places : LPrev(m2, x) = (IF x = new THEN p ELSE LPrev(m1, x)) /\ LNext(m2, x) = LNext(m1, x)
    BY <1>3, <1>7, CellsOfPlaces, AssignedPrev
  <1> HIDE DEF m2
  <1>9. /\ m3 \in Memories
        /\ \A x \in Lists!Places : LPrev(m3, x) = (IF x = q THEN new ELSE LPrev(m2, x)) /\ LNext(m3, x) = LNext(m2, x)
    BY <1>3, <1>8, CellsOfPlaces, AssignedPrev
  <1> HIDE DEF m3
  <1>10. /\ m4 \in Memories
         /\ \A x \in Lists!Places : LNext(m4, x) = (IF x = p THEN new ELSE LNext(m3, x)) /\ LPrev(m4, x) = LPrev(m3, x)
    BY <1>3, <1>9, CellsOfPlaces, AssignedNext
  <1> HIDE DEF m4
  <1>11. /\ m5 \in Memories
         /\ \A x \in Lists!Places : LPrev(m5, x) = (IF x = n THEN Poison ELSE LPrev(m4, x)) /\ LNext(m5, x) = LNext(m4, x)
    BY <1>1, <1>10, AssignedPrev
  <1> HIDE DEF m5
  <1>12. Linked(m5, mid, new, p, q)
    <2> SUFFICES ASSUME NEW x \in Lists!Places
                 PROVE  /\ LNext(m5, x) = IF x = new THEN q ELSE IF x = p THEN new ELSE LNext(mid, x)
                        /\ LPrev(m5, x) = IF x = new THEN p ELSE IF x = q THEN new ELSE LPrev(mid, x)
      BY <1>11 DEF Linked
    <2>1. LNext(m5, x) = IF x = p THEN new ELSE IF x = new THEN q ELSE LNext(m, x)
      BY <1>7, <1>8, <1>9, <1>10, <1>11
    <2>2. LPrev(m5, x) = IF x = n THEN Poison ELSE IF x = q THEN new ELSE IF x = new THEN p ELSE LPrev(m, x)
      BY <1>7, <1>8, <1>9, <1>10, <1>11
    <2>3. LNext(mid, x) = (IF x = p THEN q ELSE LNext(m, x))
          /\ LPrev(mid, x) = IF x = n THEN Poison ELSE IF x = q THEN p ELSE LPrev(m, x)
      BY <1>2, <1>4
    <2> QED BY <2>1, <2>2, <2>3, <1>3
  <1> QED BY <1>5, <1>6, <1>12 DEF p, q, u, mid

------------------------------------------------------------------------------
(* What a list holds, read by its pointers, is the sequence.               *)

LEMMA SameCardinality == Lists!Cardinality(Nodes) = Cardinality(Nodes)
  BY DEF Lists!Cardinality, Cardinality

\* A walk along the pointers of a circle meets its entries in order.
LEMMA EntriesFollow ==
    ASSUME NEW m \in Memories, NEW h \in Heads, NEW r \in Seq(Nodes), Len(r) <= Cardinality(Nodes),
           NEW field \in {"next", "prev"},
           \A i \in 0..Len(r) : m[<<At(h, r, i), field>>] = At(h, r, i + 1)
    PROVE  Lists!Entries(m, h, field) = r
  <1> DEFINE n == Cardinality(Nodes)
             onward(s) == m[<<IF s = <<>> THEN h ELSE Lists!Last(s), field>>]
             F == [k \in Nat |-> [s \in Seq(Nodes) |-> IF onward(s) \in Nodes /\ Len(s) = k - 1 THEN Append(s, onward(s)) ELSE s]]
  <1>1. n \in Nat
    BY ListsAssumption, FS_CardinalityType
  <1>2. F \in [Nat -> [Seq(Nodes) -> Seq(Nodes)]]
    <2> HIDE DEF onward
    <2>1. \A k \in Nat, s \in Seq(Nodes) : (IF onward(s) \in Nodes /\ Len(s) = k - 1 THEN Append(s, onward(s)) ELSE s) \in Seq(Nodes)
      OBVIOUS
    <2> QED BY <2>1
  <1>3. <<>> \in Seq(Nodes)
    OBVIOUS
  <1> HIDE DEF F, n
  <1>4. PICK f \in [0..n -> Seq(Nodes)] : IsLoop(f, <<>>, F, 0..n)
    BY <1>1, <1>2, <1>3, Loop
  <1> DEFINE Body(g, k) == IF k = 0 THEN <<>>
                           ELSE LET s == g[k - 1]
                                    x == m[<<IF s = <<>> THEN h ELSE Lists!Last(s), field>>]
                                IN IF x \in Nodes /\ Len(s) = k - 1 THEN Append(s, x) ELSE s
  <1>5. f = [k \in 0..n |-> Body(f, k)]
    <2>1. ASSUME NEW k \in 0..n PROVE (IF k = 0 THEN <<>> ELSE F[k][f[k - 1]]) = Body(f, k)
      <3>1. CASE k = 0
        BY <3>1
      <3>2. CASE k # 0
        <4>1. k \in Nat /\ f[k - 1] \in Seq(Nodes)
          BY <1>1, <3>2
        <4> QED BY <4>1, <3>2 DEF F
      <3> QED BY <3>1, <3>2
    <2> HIDE DEF Body
    <2> QED BY <1>4, <2>1 DEF IsLoop
  <1> DEFINE from == CHOOSE g : g = [k \in 0..n |-> Body(g, k)]
  <1>6. Lists!Entries(m, h, field) = from[n]
    BY SameCardinality DEF Lists!Entries, n
  <1>7. from = [k \in 0..n |-> Body(from, k)]
    <2> HIDE DEF Body
    <2> QED BY <1>5
  <1> HIDE DEF from
  <1> DEFINE Prefix(k) == [j \in 1..(IF k <= Len(r) THEN k ELSE Len(r)) |-> r[j]]
             N == {k \in Nat : k <= n => from[k] = Prefix(k)}
  <1>8. 0 \in N
    <2>1. from[0] = <<>>
      BY <1>1, <1>7
    <2>2. Prefix(0) = <<>>
      OBVIOUS
    <2> QED BY <2>1, <2>2
  <1>9. ASSUME NEW k \in Nat, k \in N PROVE k + 1 \in N
    <2> SUFFICES ASSUME k + 1 <= n PROVE from[k + 1] = Prefix(k + 1)
      OBVIOUS
    <2> DEFINE s == Prefix(k)
               l == IF k <= Len(r) THEN k ELSE Len(r)
    <2>1. from[k] = s
      BY <1>1, <1>9
    <2>2. s \in Seq(Nodes) /\ Len(s) = l /\ l \in 0..Len(r) /\ \A j \in 1..l : s[j] = r[j]
      <3>1. l \in 0..Len(r)
        OBVIOUS
      <3>2. s = [j \in 1..l |-> r[j]]
        OBVIOUS
      <3> HIDE DEF l, s
      <3>3. s \in [1..l -> Nodes]
        BY <3>1, <3>2
      <3> QED BY <3>1, <3>2, <3>3
    <2> HIDE DEF s
    <2>3. (IF s = <<>> THEN h ELSE Lists!Last(s)) = At(h, r, l)
      <3>1. CASE l = 0
        <4>1. s = <<>>
          BY <2>2, <3>1
        <4> HIDE DEF l
        <4> QED BY <3>1, <4>1 DEF At
      <3>2. CASE l # 0
        <4>1. s # <<>> /\ Lists!Last(s) = s[l] /\ l \in 1..Len(r) /\ l \in 1..l
          <5> HIDE DEF l
          <5> QED BY <2>2, <3>2 DEF Lists!Last
        <4> HIDE DEF l
        <4> QED BY <2>2, <4>1 DEF At
      <3> QED BY <3>1, <3>2
    <2>4. onward(s) = At(h, r, l + 1)
      <3> HIDE DEF l
      <3> QED BY <2>2, <2>3
    <2>5. from[k + 1] = IF onward(s) \in Nodes /\ Len(s) = k THEN Append(s, onward(s)) ELSE s
      <3>1. k + 1 \in 0..n /\ k + 1 # 0 /\ (k + 1) - 1 = k
        BY <1>1
      <3>2. from[k + 1] = Body(from, k + 1)
        BY <1>7, <3>1
      <3> HIDE DEF l
      <3> QED BY <2>1, <3>1, <3>2
    <2> HIDE DEF onward
    <2>6. CASE k < Len(r)
      <3>1. l = k /\ k + 1 \in 1..Len(r)
        BY <2>6
      <3>2. onward(s) = r[k + 1] /\ r[k + 1] \in Nodes
        BY <2>4, <3>1 DEF At
      <3>3. from[k + 1] = Append(s, r[k + 1])
        BY <2>2, <2>5, <3>1, <3>2
      <3>4. Prefix(k + 1) = [j \in 1..k + 1 |-> r[j]]
        BY <3>1
      <3>5. Append(s, r[k + 1]) = [j \in 1..k + 1 |-> r[j]]
        <4> DEFINE t == [j \in 1..k + 1 |-> r[j]]
        <4>1. \A j \in 1..k + 1 : j \in 1..Len(r)
          BY <3>1
        <4>2. t \in Seq(Nodes) /\ Len(t) = k + 1
          BY <4>1
        <4>3. Append(s, r[k + 1]) \in Seq(Nodes) /\ Len(Append(s, r[k + 1])) = k + 1
          BY <2>2, <3>1, <3>2
        <4>4. \A j \in 1..k + 1 : Append(s, r[k + 1])[j] = r[j]
          <5> TAKE j \in 1..k + 1
          <5>1. CASE j = k + 1
            BY <5>1, <2>2, <3>1
          <5>2. CASE j # k + 1
            <6>1. j \in 1..k /\ j \in 1..Len(s)
              BY <5>2, <2>2, <3>1
            <6> QED BY <6>1, <2>2, <3>1
          <5> QED BY <5>1, <5>2
        <4> QED BY <4>2, <4>3, <4>4
      <3> QED BY <3>3, <3>4, <3>5
    <2>7. CASE k >= Len(r)
      <3>1. l = Len(r) /\ l + 1 \notin 1..Len(r) /\ ~(k + 1 <= Len(r))
        BY <2>7
      <3>2. onward(s) = h
        BY <2>4, <3>1 DEF At
      <3>3. from[k + 1] = s
        BY <2>5, <3>2, HeadsAreNoNodes
      <3>4. Prefix(k + 1) = Prefix(k)
        BY <2>7
      <3> QED BY <3>3, <3>4 DEF s
    <2> QED BY <2>6, <2>7
  <1> HIDE DEF N
  <1>10. Nat \subseteq N
    BY <1>8, <1>9, Induct
  <1>11. from[n] = Prefix(n)
    BY <1>1, <1>10 DEF N
  <1>12. Prefix(n) = r
    <2>1. Prefix(n) = [j \in 1..Len(r) |-> r[j]]
      BY <1>1 DEF n
    <2>2. r \in [1..Len(r) -> Nodes]
      OBVIOUS
    <2> HIDE DEF Prefix
    <2> QED BY <2>1, <2>2
  <1> QED BY <1>6, <1>11, <1>12

LEMMA RoomForAll ==
    ASSUME NEW L \in OnHeads, Apart(L), NEW h \in Heads
    PROVE  Len(L[h]) <= Cardinality(Nodes)
  <1> DEFINE s == L[h]
  <1>1. s \in [1..Len(s) -> Nodes] /\ Len(s) \in Nat
    BY DEF OnHeads
  <1> HIDE DEF s
  <1>2. IsFiniteSet(1..Len(s)) /\ Cardinality(1..Len(s)) = Len(s)
    <2>1. /\ IsFiniteSet(1..Len(s))
          /\ Cardinality(1..Len(s)) = IF 1 > Len(s) THEN 0 ELSE Len(s) - 1 + 1
      BY SMTT(30), <1>1, FS_Interval
    <2> QED BY <1>1, <2>1
  <1>3. IsFiniteSet(Nodes) /\ Cardinality(Nodes) \in Nat
    BY ListsAssumption, FS_CardinalityType
  <1> SUFFICES ASSUME Cardinality(Nodes) < Cardinality(1..Len(s)) PROVE FALSE
    BY <1>1, <1>2, <1>3 DEF s
  <1>4. PICK i \in 1..Len(s), j \in 1..Len(s) : i # j /\ s[i] = s[j]
    BY <1>1, <1>2, <1>3, FS_PigeonHole
  <1> QED BY <1>4, EntriesApart DEF s

LEMMA EntriesAre ==
    ASSUME NEW m, NEW L, Holds(m, L), NEW h \in Heads
    PROVE  /\ Lists!Entries(m, h, "next") = L[h]
           /\ Lists!Entries(m, h, "prev") = Lists!Reverse(L[h])
  <1> DEFINE s == L[h]
             r == Lists!Reverse(s)
  <1>1. m \in Memories /\ L \in OnHeads /\ Apart(L) /\ Circle(m, h, s)
    BY DEF Holds, Circles
  <1>2. s \in Seq(Nodes) /\ Len(s) \in Nat /\ Len(s) <= Cardinality(Nodes)
    BY <1>1, RoomForAll DEF OnHeads
  <1> HIDE DEF s
  <1>3. Lists!Entries(m, h, "next") = s
    <2>1. \A i \in 0..Len(s) : m[<<At(h, s, i), "next">>] = At(h, s, i + 1)
      BY <1>1 DEF Circle, LNext
    <2> QED BY <1>1, <1>2, <2>1, EntriesFollow
  <1>4. Lists!Entries(m, h, "prev") = r
    <2>1. r = [i \in 1..Len(s) |-> s[(Len(s) - i) + 1]]
      BY DEF Lists!Reverse
    <2> HIDE DEF r
    <2>2. \A i \in 1..Len(s) : (Len(s) - i) + 1 \in 1..Len(s)
      BY <1>2
    <2>3. r \in Seq(Nodes) /\ Len(r) = Len(s)
      <3>1. r \in [1..Len(s) -> Nodes]
        BY <1>2, <2>1, <2>2
      <3> QED BY <1>2, <3>1
    <2>4. \A i \in 0..Len(s) + 1 : At(h, r, i) = At(h, s, (Len(s) - i) + 1)
      <3> TAKE i \in 0..Len(s) + 1
      <3>1. (i \in 1..Len(r)) = ((Len(s) - i) + 1 \in 1..Len(s))
        BY <1>2, <2>3
      <3>2. i \in 1..Len(r) => r[i] = s[(Len(s) - i) + 1]
        BY <2>1, <2>3
      <3> QED BY <3>1, <3>2 DEF At
    <2>5. \A i \in 0..Len(r) : m[<<At(h, r, i), "prev">>] = At(h, r, i + 1)
      <3> TAKE i \in 0..Len(r)
      <3>1. /\ i \in 0..Len(s) + 1 /\ i + 1 \in 0..Len(s) + 1
            /\ Len(s) - i \in 0..Len(s) /\ (Len(s) - (i + 1)) + 1 = Len(s) - i
        BY <1>2, <2>3
      <3>2. LPrev(m, At(h, s, (Len(s) - i) + 1)) = At(h, s, Len(s) - i)
        BY <1>1, <3>1 DEF Circle
      <3>3. At(h, r, i) = At(h, s, (Len(s) - i) + 1) /\ At(h, r, i + 1) = At(h, s, (Len(s) - (i + 1)) + 1)
        BY <2>4, <3>1
      <3> QED BY <3>1, <3>2, <3>3 DEF LPrev
    <2> QED BY <1>1, <1>2, <2>3, <2>5, EntriesFollow
  <1> QED BY <1>3, <1>4 DEF s

------------------------------------------------------------------------------
(* After each operation the memory holds other sequences.                  *)

LEMMA Neighbours ==
    ASSUME NEW m, NEW L, Holds(m, L), NEW h \in Heads, NEW i \in 0..Len(L[h])
    PROVE  /\ LNext(m, At(h, L[h], i)) = At(h, L[h], i + 1)
           /\ LPrev(m, At(h, L[h], i + 1)) = At(h, L[h], i)
  BY DEF Holds, Circles, Circle

\* A new entry goes to the front, or to the end.
LEMMA AddHolds ==
    ASSUME NEW m, NEW L, Holds(m, L), NEW h \in Heads, NEW n \in Nodes, ~OnList(L, n)
    PROVE  /\ Holds(Lists!list_add(m, n, h), [L EXCEPT ![h] = Inserted(@, 0, n)])
           /\ Holds(Lists!list_add_rcu(m, n, h), [L EXCEPT ![h] = Inserted(@, 0, n)])
           /\ Holds(Lists!list_add_tail(m, n, h), [L EXCEPT ![h] = Inserted(@, Len(L[h]), n)])
           /\ Holds(Lists!list_add_tail_rcu(m, n, h), [L EXCEPT ![h] = Inserted(@, Len(L[h]), n)])
  <1>1. m \in Memories /\ L \in OnHeads /\ Len(L[h]) \in Nat /\ n \in Lists!Places /\ h \in Lists!Places
    BY DEF Holds, OnHeads, Lists!Places
  <1>2. ASSUME NEW i \in 0..Len(L[h]), NEW p, NEW q, p = At(h, L[h], i), q = At(h, L[h], i + 1)
        PROVE  /\ Holds(Lists!link_between(m, n, p, q), [L EXCEPT ![h] = Inserted(@, i, n)])
               /\ Holds(Lists!link_between_rcu(m, n, p, q), [L EXCEPT ![h] = Inserted(@, i, n)])
    <2>1. i \in Int /\ i + 1 \in Int
      BY <1>1
    <2>2. p \in Lists!Places /\ q \in Lists!Places
      BY <1>1, <1>2, <2>1, AtIsAPlace
    <2>3. n # p /\ n # q
      BY <1>1, <1>2, <2>1, AtIsAPlace, HeadsAreNoNodes DEF OnList
    <2>4. /\ Linked(Lists!link_between(m, n, p, q), m, n, p, q)
          /\ Linked(Lists!link_between_rcu(m, n, p, q), m, n, p, q)
      BY <1>1, <2>2, <2>3, LinkBetween
    <2>5. ASSUME NEW m2, Linked(m2, m, n, p, q) PROVE Holds(m2, [L EXCEPT ![h] = Inserted(@, i, n)])
      <3>1. /\ m2 \in Memories
            /\ \A x \in Lists!Places :
              /\ LNext(m2, x) = IF x = n THEN At(h, L[h], i + 1) ELSE IF x = At(h, L[h], i) THEN n ELSE LNext(m, x)
              /\ LPrev(m2, x) = IF x = n THEN At(h, L[h], i) ELSE IF x = At(h, L[h], i + 1) THEN n ELSE LPrev(m, x)
        BY <1>2, <2>5 DEF Linked
      <3> QED BY <3>1, Linking
    <2> QED BY <2>4, <2>5
  <1>3. h = At(h, L[h], 0) /\ m[Lists!next(h)] = At(h, L[h], 0 + 1) /\ 0 \in 0..Len(L[h])
    <2>1. h = At(h, L[h], 0) /\ 0 \in 0..Len(L[h])
      BY <1>1 DEF At
    <2> QED BY <2>1, Neighbours DEF LNext, Lists!next
  <1>4. /\ m[Lists!prev(h)] = At(h, L[h], Len(L[h])) /\ h = At(h, L[h], Len(L[h]) + 1)
        /\ Len(L[h]) \in 0..Len(L[h])
    <2>1. h = At(h, L[h], Len(L[h]) + 1) /\ Len(L[h]) \in 0..Len(L[h])
      BY <1>1 DEF At
    <2> QED BY <2>1, Neighbours DEF LPrev, Lists!prev
  <1>5. /\ Holds(Lists!link_between(m, n, h, m[Lists!next(h)]), [L EXCEPT ![h] = Inserted(@, 0, n)])
        /\ Holds(Lists!link_between_rcu(m, n, h, m[Lists!next(h)]), [L EXCEPT ![h] = Inserted(@, 0, n)])
    BY <1>2, <1>3
  <1>6. /\ Holds(Lists!link_between(m, n, m[Lists!prev(h)], h), [L EXCEPT ![h] = Inserted(@, Len(L[h]), n)])
        /\ Holds(Lists!link_between_rcu(m, n, m[Lists!prev(h)], h), [L EXCEPT ![h] = Inserted(@, Len(L[h]), n)])
    BY <1>2, <1>4
  <1> QED BY <1>5, <1>6 DEF Lists!list_add, Lists!list_add_rcu, Lists!list_add_tail, Lists!list_add_tail_rcu

\* An entry of a list has two neighbours, and is none of them.
LEMMA EntryBetween ==
    ASSUME NEW m, NEW L, Holds(m, L), NEW h \in Heads, NEW i \in 1..Len(L[h])
    PROVE  LET n == L[h][i] IN
           /\ n \in Nodes /\ n \in Lists!Places
           /\ LPrev(m, n) = At(h, L[h], i - 1) /\ LNext(m, n) = At(h, L[h], i + 1)
           /\ LPrev(m, n) \in Lists!Places /\ LNext(m, n) \in Lists!Places
           /\ n \notin {LPrev(m, n), LNext(m, n)}
           /\ m[Lists!prev(n)] = LPrev(m, n) /\ m[Lists!next(n)] = LNext(m, n)
  <1> DEFINE n == L[h][i]
  <1>1. L \in OnHeads /\ Apart(L) /\ Len(L[h]) \in Nat
    BY DEF Holds, OnHeads
  <1>2. /\ i - 1 \in 0..Len(L[h]) /\ i \in 0..Len(L[h]) /\ (i - 1) + 1 = i
        /\ i - 1 \in 0..Len(L[h]) + 1 /\ i \in 0..Len(L[h]) + 1 /\ i + 1 \in 0..Len(L[h]) + 1
        /\ i - 1 # i /\ i + 1 # i /\ i - 1 \in Int /\ i + 1 \in Int
    BY <1>1
  <1>3. At(h, L[h], i) = n /\ n \in Nodes
    BY <1>1, AtIsAPlace
  <1>4. LNext(m, n) = At(h, L[h], i + 1) /\ LPrev(m, n) = At(h, L[h], i - 1)
    <2>1. LNext(m, At(h, L[h], i)) = At(h, L[h], i + 1)
      BY <1>2, Neighbours
    <2>2. LPrev(m, At(h, L[h], (i - 1) + 1)) = At(h, L[h], i - 1)
      BY <1>2, Neighbours
    <2> QED BY <1>2, <1>3, <2>1, <2>2
  <1>5. At(h, L[h], i - 1) # n /\ At(h, L[h], i + 1) # n
    BY <1>1, <1>2, <1>3, PlacesApart
  <1>6. At(h, L[h], i - 1) \in Lists!Places /\ At(h, L[h], i + 1) \in Lists!Places
    BY <1>1, <1>2, AtIsAPlace
  <1>7. m[Lists!prev(n)] = LPrev(m, n) /\ m[Lists!next(n)] = LNext(m, n)
    BY DEF LNext, LPrev, Lists!next, Lists!prev
  <1> QED BY <1>3, <1>4, <1>5, <1>6, <1>7 DEF Lists!Places

\* Without the entry i of list h.
Out(L, h, i) == [L EXCEPT ![h] = Removed(@, i)]

LEMMA UnlinkedHolds ==
    ASSUME NEW m, NEW L, Holds(m, L), NEW h \in Heads, NEW i \in 1..Len(L[h]), NEW m2,
           Unlinked(m2, m, L[h][i], LPrev(m, L[h][i]), LNext(m, L[h][i]))
    PROVE  Holds(m2, Out(L, h, i)) /\ ~OnList(Out(L, h, i), L[h][i])
  <1>1. /\ m2 \in Memories
        /\ \A x \in Lists!Places : x # L[h][i] =>
              /\ LNext(m2, x) = IF x = At(h, L[h], i - 1) THEN At(h, L[h], i + 1) ELSE LNext(m, x)
              /\ LPrev(m2, x) = IF x = At(h, L[h], i + 1) THEN At(h, L[h], i - 1) ELSE LPrev(m, x)
    BY EntryBetween DEF Unlinked
  <1> QED BY <1>1, Unlinking DEF Out

LEMMA DeleteHolds ==
    ASSUME NEW m, NEW L, Holds(m, L), NEW h \in Heads, NEW i \in 1..Len(L[h])
    PROVE  /\ Holds(Lists!list_del(m, L[h][i]), Out(L, h, i))
           /\ Holds(Lists!list_del_rcu(m, L[h][i]), Out(L, h, i))
           /\ Holds(Lists!list_del_init(m, L[h][i]), Out(L, h, i))
  <1> DEFINE n == L[h][i]
  <1>1. m \in Memories
    BY DEF Holds
  <1>2. n \in Lists!Places /\ LPrev(m, n) \in Lists!Places /\ LNext(m, n) \in Lists!Places
    BY EntryBetween
  <1> HIDE DEF n
  <1>3. /\ Unlinked(Lists!list_del(m, n), m, n, LPrev(m, n), LNext(m, n))
        /\ Unlinked(Lists!list_del_rcu(m, n), m, n, LPrev(m, n), LNext(m, n))
        /\ Unlinked(Lists!list_del_init(m, n), m, n, LPrev(m, n), LNext(m, n))
    BY <1>1, <1>2, DeletesUnlink
  <1> QED BY <1>3, UnlinkedHolds DEF n

\* An entry moves: it is taken out and put in.
LEMMA MoveHolds ==
    ASSUME NEW m, NEW L, Holds(m, L), NEW g \in Heads, NEW i \in 1..Len(L[g]), NEW h \in Heads
    PROVE  LET K == Out(L, g, i) IN
           /\ Holds(Lists!list_move(m, L[g][i], h), [K EXCEPT ![h] = Inserted(@, 0, L[g][i])])
           /\ Holds(Lists!list_move_tail(m, L[g][i], h), [K EXCEPT ![h] = Inserted(@, Len(K[h]), L[g][i])])
  <1> DEFINE n == L[g][i]
             K == Out(L, g, i)
             u == Lists!unlink(m, LPrev(m, n), LNext(m, n))
  <1>1. m \in Memories
    BY DEF Holds
  <1>2. /\ n \in Nodes /\ n \in Lists!Places /\ LPrev(m, n) \in Lists!Places /\ LNext(m, n) \in Lists!Places
        /\ m[Lists!prev(n)] = LPrev(m, n) /\ m[Lists!next(n)] = LNext(m, n)
    BY EntryBetween
  <1> HIDE DEF n
  <1>3. Unlinked(u, m, n, LPrev(m, n), LNext(m, n))
    BY <1>1, <1>2, DeletesUnlink
  <1> HIDE DEF u
  <1>4. Holds(u, K) /\ ~OnList(K, n)
    BY <1>3, UnlinkedHolds DEF n
  <1> HIDE DEF K
  <1>5. /\ Holds(Lists!list_add(u, n, h), [K EXCEPT ![h] = Inserted(@, 0, n)])
        /\ Holds(Lists!list_add_tail(u, n, h), [K EXCEPT ![h] = Inserted(@, Len(K[h]), n)])
    BY <1>2, <1>4, AddHolds
  <1>6. Lists!list_move(m, n, h) = Lists!list_add(u, n, h) /\ Lists!list_move_tail(m, n, h) = Lists!list_add_tail(u, n, h)
    BY <1>2 DEF Lists!list_move, Lists!list_move_tail, u
  <1> QED BY <1>5, <1>6 DEF n, K

LEMMA RemovedIs ==
    ASSUME NEW s \in Seq(Nodes), NEW i \in 1..Len(s)
    PROVE  /\ Removed(s, i) \in Seq(Nodes) /\ Len(Removed(s, i)) = Len(s) - 1
           /\ \A j \in 1..Len(s) - 1 : Removed(s, i)[j] = IF j < i THEN s[j] ELSE s[j + 1]
  <1>1. Len(s) \in Nat /\ Len(s) - 1 \in Nat
    OBVIOUS
  <1>2. \A j \in 1..Len(s) - 1 : j \in 1..Len(s) /\ j + 1 \in 1..Len(s)
    OBVIOUS
  <1>3. Removed(s, i) = [j \in 1..Len(s) - 1 |-> IF j < i THEN s[j] ELSE s[j + 1]]
    BY DEF Removed
  <1>4. Removed(s, i) \in [1..Len(s) - 1 -> Nodes]
    BY <1>2, <1>3
  <1> QED BY <1>1, <1>3, <1>4

\* A new entry takes the place of an old one.
LEMMA ReplaceHolds ==
    ASSUME NEW m, NEW L, Holds(m, L), NEW h \in Heads, NEW i \in 1..Len(L[h]), NEW new \in Nodes, ~OnList(L, new)
    PROVE  Holds(Lists!list_replace_rcu(m, L[h][i], new), [L EXCEPT ![h] = [@ EXCEPT ![i] = new]])
  <1> DEFINE n == L[h][i]
             s == L[h]
             t == Removed(s, i)
             K == Out(L, h, i)
             p == LPrev(m, n)
             q == LNext(m, n)
             mid == Assigned(Lists!unlink(m, p, q), Lists!prev(n), Poison)
             m2 == Lists!list_replace_rcu(m, n, new)
  <1>1. m \in Memories /\ L \in OnHeads /\ Apart(L) /\ s \in Seq(Nodes) /\ Len(s) \in Nat /\ i \in 1..Len(s)
    BY DEF Holds, OnHeads
  <1>2. /\ n \in Nodes /\ n \in Lists!Places /\ p \in Lists!Places /\ q \in Lists!Places
        /\ p = At(h, s, i - 1) /\ q = At(h, s, i + 1) /\ n \notin {p, q}
    BY EntryBetween
  <1>3. new # n /\ new \notin {p, q} /\ new \in Lists!Places
    <2>1. i - 1 \in Int /\ i + 1 \in Int
      BY <1>1
    <2>2. At(h, L[h], i - 1) # new /\ At(h, L[h], i + 1) # new
      BY <2>1, <1>1, AtIsAPlace, HeadsAreNoNodes DEF OnList
    <2> QED BY <1>2, <2>2 DEF OnList, Lists!Places
  <1> HIDE DEF n, p, q
  <1>4. Unlinked(mid, m, n, p, q) /\ Linked(m2, mid, new, p, q)
    BY <1>1, <1>2, <1>3, ReplaceLinks DEF p, q
  <1> HIDE DEF mid, m2
  <1>5. Holds(mid, K)
    BY <1>4, UnlinkedHolds DEF n, p, q
  <1>6. K \in OnHeads /\ K[h] = t
    BY <1>1, <1>5 DEF Holds, Out, OnHeads
  <1>7. t \in Seq(Nodes) /\ Len(t) = Len(s) - 1 /\ \A j \in 1..Len(s) - 1 : t[j] = IF j < i THEN s[j] ELSE s[j + 1]
    BY <1>1, RemovedIs
  <1>8. ~OnList(K, new)
    <2> SUFFICES ASSUME NEW g \in Heads, NEW j \in 1..Len(K[g]), K[g][j] = new PROVE FALSE
      BY DEF OnList
    <2>1. CASE g # h
      <3>1. K[g] = L[g]
        BY <2>1, <1>1 DEF Out, OnHeads
      <3> QED BY <3>1 DEF OnList
    <2>2. CASE g = h
      <3>1. j \in 1..Len(s) - 1 /\ t[j] = new
        BY <2>2, <1>6, <1>7
      <3>2. t[j] = s[j] \/ t[j] = s[j + 1]
        BY <3>1, <1>7
      <3>3. j \in 1..Len(s) /\ j + 1 \in 1..Len(s)
        BY <3>1, <1>1
      <3> QED BY <3>1, <3>2, <3>3 DEF OnList
    <2> QED BY <2>1, <2>2
  <1> HIDE DEF s, t, K
  <1>9. i - 1 \in 0..Len(K[h]) /\ p = At(h, K[h], i - 1) /\ q = At(h, K[h], (i - 1) + 1)
    <2>1. i - 1 \in 0..Len(t) /\ (i - 1) + 1 = i
      BY <1>1, <1>7
    <2>2. At(h, t, i - 1) = At(h, s, i - 1)
      <3>1. CASE i - 1 \in 1..Len(t)
        <4>1. i - 1 \in 1..Len(s) /\ i - 1 < i /\ i - 1 \in 1..Len(s) - 1
          BY <3>1, <1>1, <1>7
        <4> QED BY <3>1, <4>1, <1>7 DEF At
      <3>2. CASE i - 1 \notin 1..Len(t)
        <4>1. i - 1 \notin 1..Len(s)
          BY <2>1, <3>2, <1>1, <1>7
        <4> QED BY <3>2, <4>1 DEF At
      <3> QED BY <3>1, <3>2
    <2>3. At(h, t, i) = At(h, s, i + 1)
      <3>1. CASE i \in 1..Len(t)
        <4>1. i + 1 \in 1..Len(s) /\ ~(i < i) /\ i \in 1..Len(s) - 1
          BY <3>1, <1>1, <1>7
        <4> QED BY <3>1, <4>1, <1>7 DEF At
      <3>2. CASE i \notin 1..Len(t)
        <4>1. i + 1 \notin 1..Len(s)
          BY <3>2, <1>1, <1>7
        <4> QED BY <3>2, <4>1 DEF At
      <3> QED BY <3>1, <3>2
    <2> QED BY <2>1, <2>2, <2>3, <1>2, <1>6
  <1>10. Holds(m2, [K EXCEPT ![h] = Inserted(@, i - 1, new)])
    <2>1. /\ m2 \in Memories
          /\ \A x \in Lists!Places :
              /\ LNext(m2, x) = IF x = new THEN At(h, K[h], (i - 1) + 1) ELSE IF x = At(h, K[h], i - 1) THEN new ELSE LNext(mid, x)
              /\ LPrev(m2, x) = IF x = new THEN At(h, K[h], i - 1) ELSE IF x = At(h, K[h], (i - 1) + 1) THEN new ELSE LPrev(mid, x)
      BY <1>4, <1>9 DEF Linked
    <2> QED BY <1>5, <1>8, <1>9, <2>1, Linking
  <1>11. Inserted(t, i - 1, new) = [s EXCEPT ![i] = new]
    <2>1. Inserted(t, i - 1, new) = [j \in 1..Len(s) |-> IF j <= i - 1 THEN t[j] ELSE IF j = (i - 1) + 1 THEN new ELSE t[j - 1]]
      <3>1. Len(t) + 1 = Len(s)
        BY <1>1, <1>7
      <3> QED BY <3>1 DEF Inserted
    <2>2. s \in [1..Len(s) -> Nodes]
      BY <1>1
    <2>3. ASSUME NEW j \in 1..Len(s)
          PROVE  (IF j <= i - 1 THEN t[j] ELSE IF j = (i - 1) + 1 THEN new ELSE t[j - 1]) = IF j = i THEN new ELSE s[j]
      <3>1. CASE j <= i - 1
        <4>1. j \in 1..Len(s) - 1 /\ j < i /\ j # i
          BY <3>1, <1>1
        <4> QED BY <3>1, <4>1, <1>7
      <3>2. CASE j = i
        <4>1. ~(j <= i - 1) /\ j = (i - 1) + 1
          BY <3>2, <1>1
        <4> QED BY <3>2, <4>1
      <3>3. CASE j > i
        <4>1. j - 1 \in 1..Len(s) - 1 /\ ~(j - 1 < i) /\ (j - 1) + 1 = j /\ j # i /\ ~(j <= i - 1) /\ j # (i - 1) + 1
          BY <3>3, <1>1
        <4> QED BY <4>1, <1>7
      <3> QED BY <3>1, <3>2, <3>3, <1>1
    <2>4. [s EXCEPT ![i] = new] = [j \in 1..Len(s) |-> IF j = i THEN new ELSE s[j]]
      BY <2>2
    <2> QED BY <2>1, <2>3, <2>4
  <1>12. [K EXCEPT ![h] = Inserted(@, i - 1, new)] = [L EXCEPT ![h] = [@ EXCEPT ![i] = new]]
    <2>1. [K EXCEPT ![h] = Inserted(@, i - 1, new)] = [K EXCEPT ![h] = [s EXCEPT ![i] = new]]
      BY <1>6, <1>11
    <2>2. L = [g \in Heads |-> L[g]] /\ K = [L EXCEPT ![h] = t]
      BY <1>1 DEF OnHeads, K, Out, s, t
    <2>3. [K EXCEPT ![h] = [s EXCEPT ![i] = new]] = [L EXCEPT ![h] = [s EXCEPT ![i] = new]]
      BY <2>2
    <2> QED BY <2>1, <2>3 DEF s
  <1> QED BY <1>10, <1>12 DEF m2, n

LEMMA SameHolds ==
    ASSUME NEW m, NEW L, Holds(m, L), NEW m2 \in Memories,
           \A x \in Lists!Places : LNext(m2, x) = LNext(m, x) /\ LPrev(m2, x) = LPrev(m, x)
    PROVE  Holds(m2, L)
  <1>1. L \in OnHeads /\ Circles(m, L)
    BY DEF Holds
  <1>2. \A h \in Heads : \A i \in 0..Len(L[h]) : At(h, L[h], i) \in Lists!Places /\ At(h, L[h], i + 1) \in Lists!Places
    <2> TAKE h \in Heads
    <2> TAKE i \in 0..Len(L[h])
    <2>1. i \in Int /\ i + 1 \in Int
      BY <1>1 DEF OnHeads
    <2> QED BY <1>1, <2>1, AtIsAPlace
  <1>3. Circles(m2, L)
    BY <1>1, <1>2 DEF Circles, Circle
  <1> QED BY <1>3 DEF Holds

\* With the entries of list h in front of those of g.
Poured(L, h, g) == [L EXCEPT ![g] = Joined(L[h], @), ![h] = <<>>]

LEMMA SpliceHolds ==
    ASSUME NEW m, NEW L, Holds(m, L), NEW h \in Heads, NEW g \in Heads, h # g
    PROVE  /\ Holds(Lists!list_splice_init(m, h, g), Poured(L, h, g))
           /\ Holds(Lists!INIT_LIST_HEAD(Lists!list_splice(m, h, g), h), Poured(L, h, g))
  <1> DEFINE s == L[h]
             t == L[g]
             a == Len(s)
  <1>1. /\ m \in Memories /\ L \in OnHeads /\ Apart(L)
        /\ s \in Seq(Nodes) /\ t \in Seq(Nodes) /\ a \in Nat /\ Len(t) \in Nat
        /\ h \in Lists!Places /\ g \in Lists!Places
    BY DEF Holds, OnHeads, Lists!Places
  <1>2. LNext(m, h) = At(h, s, 1) /\ LPrev(m, h) = At(h, s, a) /\ LNext(m, g) = At(g, t, 1)
    <2>1. LNext(m, At(h, s, 0)) = At(h, s, 0 + 1) /\ LPrev(m, At(h, s, a + 1)) = At(h, s, a)
      BY <1>1, Neighbours
    <2>2. LNext(m, At(g, t, 0)) = At(g, t, 0 + 1)
      BY <1>1, Neighbours
    <2>3. At(h, s, 0) = h /\ At(g, t, 0) = g /\ At(h, s, a + 1) = h
      BY <1>1 DEF At
    <2> QED BY <2>1, <2>2, <2>3
  <1>3. m[Lists!next(h)] = LNext(m, h) /\ m[Lists!prev(h)] = LPrev(m, h) /\ m[Lists!next(g)] = LNext(m, g)
    BY DEF LNext, LPrev, Lists!next, Lists!prev
  <1> HIDE DEF s, t, a
  <1>4. CASE s = <<>>
    <2>1. Lists!list_empty(m, h)
      <3>1. At(h, s, 1) = h
        BY <1>4 DEF At
      <3> QED BY <1>2, <1>3, <3>1 DEF Lists!list_empty
    <2>2. Poured(L, h, g) = L
      <3>1. Joined(s, t) = t
        <4>1. Len(s) = 0
          BY <1>4
        <4>2. Joined(s, t) = [j \in 1..0 + Len(t) |-> IF j <= 0 THEN s[j] ELSE t[j - 0]]
          BY <4>1 DEF Joined
        <4>3. \A j \in 1..0 + Len(t) : (IF j <= 0 THEN s[j] ELSE t[j - 0]) = t[j]
          BY <1>1
        <4>4. t = [j \in 1..0 + Len(t) |-> t[j]]
          BY <1>1
        <4> QED BY <4>2, <4>3, <4>4
      <3>2. Poured(L, h, g) = [L EXCEPT ![g] = t, ![h] = s]
        BY <1>4, <3>1 DEF Poured, s, t
      <3> QED BY <1>1, <3>2 DEF s, t, OnHeads
    <2>3. Lists!list_splice_init(m, h, g) = m /\ Lists!list_splice(m, h, g) = m
      BY <2>1 DEF Lists!list_splice_init, Lists!list_splice
    <2> DEFINE m2 == Lists!INIT_LIST_HEAD(m, h)
    <2>4. /\ m2 \in Memories
          /\ \A x \in Lists!Places : /\ LNext(m2, x) = IF x = h THEN h ELSE LNext(m, x)
                                     /\ LPrev(m2, x) = IF x = h THEN h ELSE LPrev(m, x)
      BY <1>1, InitWrites
    <2>5. LNext(m, h) = h /\ LPrev(m, h) = h
      <3>1. At(h, s, 1) = h /\ At(h, s, a) = h
        BY <1>4 DEF At, a
      <3> QED BY <1>2, <3>1
    <2> HIDE DEF m2
    <2>6. Holds(m2, L)
      BY <2>4, <2>5, SameHolds
    <2> QED BY <2>2, <2>3, <2>6 DEF m2
  <1>5. CASE s # <<>>
    <2> DEFINE first == s[1]
               last == s[a]
               onward == At(g, t, 1)
               m1 == Assigned(m, Lists!prev(first), g)
               m2 == Assigned(m1, Lists!next(g), first)
               m3 == Assigned(m2, Lists!next(last), onward)
               m4 == Assigned(m3, Lists!prev(onward), last)
               m5 == Lists!INIT_LIST_HEAD(m4, h)
    <2>1. a \in 1..a /\ 1 \in 1..a
      <3>1. a # 0
        BY <1>1, <1>5 DEF a
      <3> QED BY <1>1, <3>1
    <2>2. At(h, s, 1) = first /\ At(h, s, a) = last /\ first \in Nodes /\ last \in Nodes /\ first \in Lists!Places /\ last \in Lists!Places
      BY <1>1, <2>1 DEF At, a, Lists!Places
    <2>3. onward \in Lists!Places
      BY <1>1, AtIsAPlace DEF t
    <2> HIDE DEF first, last, onward
    <2>4. ~Lists!list_empty(m, h)
      BY <1>2, <1>3, <2>2, HeadsAreNoNodes DEF Lists!list_empty
    <2>5. Lists!splice_after(m, h, g) = m4
      <3>1. g \in Values /\ first \in Values /\ onward \in Values /\ last \in Values
        BY <1>1, <2>2, <2>3, CellsOfPlaces
      <3>2. /\ Lists!prev(first) \in Lists!Cells /\ Lists!next(g) \in Lists!Cells
            /\ Lists!next(last) \in Lists!Cells /\ Lists!prev(onward) \in Lists!Cells
        BY <1>1, <2>2, <2>3, CellsOfPlaces
      <3> DEFINE w1 == <<Lists!prev(first), g>>
                 w2 == <<Lists!next(g), first>>
                 w3 == <<Lists!next(last), onward>>
                 w4 == <<Lists!prev(onward), last>>
      <3>3. /\ w1 \in Lists!Cells \X Values /\ w2 \in Lists!Cells \X Values
            /\ w3 \in Lists!Cells \X Values /\ w4 \in Lists!Cells \X Values
        BY <3>1, <3>2
      <3>4. m4 = Assigned(Assigned(Assigned(Assigned(m, w1[1], w1[2]), w2[1], w2[2]), w3[1], w3[2]), w4[1], w4[2])
        OBVIOUS
      <3>5. m[Lists!next(h)] = first /\ m[Lists!prev(h)] = last /\ m[Lists!next(g)] = onward
        BY <1>2, <1>3, <2>2 DEF onward
      <3>6. Lists!splice_after(m, h, g) = Lists!Put(m, <<w1, w2, w3, w4>>)
        BY <3>5 DEF Lists!splice_after
      <3> HIDE DEF m4, w1, w2, w3, w4
      <3> QED BY <1>1, <3>3, <3>4, <3>6, Put4
    <2>6. /\ m1 \in Memories
          /\ \A x \in Lists!Places : LPrev(m1, x) = (IF x = first THEN g ELSE LPrev(m, x)) /\ LNext(m1, x) = LNext(m, x)
      BY <1>1, <2>2, CellsOfPlaces, AssignedPrev
    <2> HIDE DEF m1
    <2>7. /\ m2 \in Memories
          /\ \A x \in Lists!Places : LNext(m2, x) = (IF x = g THEN first ELSE LNext(m1, x)) /\ LPrev(m2, x) = LPrev(m1, x)
      BY <1>1, <2>2, <2>6, CellsOfPlaces, AssignedNext
    <2> HIDE DEF m2
    <2>8. /\ m3 \in Memories
          /\ \A x \in Lists!Places : LNext(m3, x) = (IF x = last THEN onward ELSE LNext(m2, x)) /\ LPrev(m3, x) = LPrev(m2, x)
      BY <2>2, <2>3, <2>7, CellsOfPlaces, AssignedNext
    <2> HIDE DEF m3
    <2>9. /\ m4 \in Memories
          /\ \A x \in Lists!Places : LPrev(m4, x) = (IF x = onward THEN last ELSE LPrev(m3, x)) /\ LNext(m4, x) = LNext(m3, x)
      BY <2>2, <2>3, <2>8, CellsOfPlaces, AssignedPrev
    <2> HIDE DEF m4
    <2>10. /\ m5 \in Memories
           /\ \A x \in Lists!Places : /\ LNext(m5, x) = IF x = h THEN h ELSE LNext(m4, x)
                                      /\ LPrev(m5, x) = IF x = h THEN h ELSE LPrev(m4, x)
      BY <1>1, <2>9, InitWrites
    <2> HIDE DEF m5
    <2>11. \A x \in Lists!Places :
              /\ LNext(m5, x) = IF x = h THEN h ELSE IF x = last THEN onward ELSE IF x = g THEN first ELSE LNext(m, x)
              /\ LPrev(m5, x) = IF x = h THEN h ELSE IF x = onward THEN last ELSE IF x = first THEN g ELSE LPrev(m, x)
      BY <2>6, <2>7, <2>8, <2>9, <2>10
    <2>12. Holds(m5, Poured(L, h, g))
      <3>1. \A x \in Lists!Places :
              /\ LNext(m5, x) = IF x = h THEN h ELSE IF x = L[h][Len(L[h])] THEN At(g, L[g], 1)
                                ELSE IF x = g THEN L[h][1] ELSE LNext(m, x)
              /\ LPrev(m5, x) = IF x = h THEN h ELSE IF x = At(g, L[g], 1) THEN L[h][Len(L[h])]
                                ELSE IF x = L[h][1] THEN g ELSE LPrev(m, x)
        BY <2>11 DEF last, onward, first, s, t, a
      <3>2. L[h] # <<>>
        BY <1>5 DEF s
      <3> QED BY <2>10, <3>1, <3>2, Splicing DEF Poured
    <2>13. /\ Lists!list_splice_init(m, h, g) = m5
           /\ Lists!INIT_LIST_HEAD(Lists!list_splice(m, h, g), h) = m5
      BY <2>4, <2>5 DEF Lists!list_splice_init, Lists!list_splice, m5
    <2> QED BY <2>12, <2>13
  <1> QED BY <1>4, <1>5

------------------------------------------------------------------------------
(* These are the ones that SequenceLists says.                             *)

LEMMA SequenceIs ==
    ASSUME NEW q \in Seq(Nodes), NEW l, Len(q) = l
    PROVE  q = [j \in 1..l |-> q[j]]
  OBVIOUS

\* What the list operations do, in the words of SequenceLists.
LEMMA AsSequences ==
    ASSUME NEW s \in Seq(Nodes), NEW t \in Seq(Nodes), NEW n \in Nodes
    PROVE  /\ Inserted(s, 0, n) = <<n>> \o s
           /\ Inserted(s, Len(s), n) = Append(s, n)
           /\ Joined(s, t) = s \o t
           /\ \A i \in 1..Len(s) : Removed(s, i) = Lists!Sequences!RemoveAt(s, i)
  <1>1. Len(s) \in Nat /\ Len(t) \in Nat /\ s \in [1..Len(s) -> Nodes] /\ t \in [1..Len(t) -> Nodes]
    OBVIOUS
  <1>2. Inserted(s, 0, n) = <<n>> \o s
    <2>1. Inserted(s, 0, n) = [j \in 1..Len(s) + 1 |-> IF j <= 0 THEN s[j] ELSE IF j = 0 + 1 THEN n ELSE s[j - 1]]
      BY DEF Inserted
    <2>2. <<n>> \o s = [j \in 1..1 + Len(s) |-> IF j <= 1 THEN n ELSE s[j - 1]]
      BY <1>1
    <2>3. 1 + Len(s) = Len(s) + 1
      BY <1>1
    <2>4. \A j \in 1..Len(s) + 1 : (IF j <= 0 THEN s[j] ELSE IF j = 0 + 1 THEN n ELSE s[j - 1]) = IF j <= 1 THEN n ELSE s[j - 1]
      BY <1>1
    <2> QED BY <2>1, <2>2, <2>3, <2>4
  <1>3. Inserted(s, Len(s), n) = Append(s, n)
    <2>1. Inserted(s, Len(s), n) = [j \in 1..Len(s) + 1 |-> IF j <= Len(s) THEN s[j] ELSE IF j = Len(s) + 1 THEN n ELSE s[j - 1]]
      BY DEF Inserted
    <2> DEFINE u == Append(s, n)
    <2>4. u \in Seq(Nodes) /\ Len(u) = Len(s) + 1 /\ \A j \in 1..Len(s) + 1 : u[j] = IF j = Len(s) + 1 THEN n ELSE s[j]
      BY <1>1
    <2>5. u = [j \in 1..Len(s) + 1 |-> u[j]]
      BY <2>4, SequenceIs
    <2> HIDE DEF u
    <2>2. u = [j \in 1..Len(s) + 1 |-> IF j = Len(s) + 1 THEN n ELSE s[j]]
      BY <2>4, <2>5
    <2>3. \A j \in 1..Len(s) + 1 : (IF j <= Len(s) THEN s[j] ELSE IF j = Len(s) + 1 THEN n ELSE s[j - 1]) = IF j = Len(s) + 1 THEN n ELSE s[j]
      BY <1>1
    <2> QED BY <2>1, <2>2, <2>3 DEF u
  <1>4. Joined(s, t) = s \o t
    <2> DEFINE u == s \o t
    <2>1. u \in Seq(Nodes) /\ Len(u) = Len(s) + Len(t) /\ \A j \in 1..Len(s) + Len(t) : u[j] = IF j <= Len(s) THEN s[j] ELSE t[j - Len(s)]
      BY <1>1
    <2>2. u = [j \in 1..Len(s) + Len(t) |-> u[j]]
      BY <2>1, SequenceIs
    <2> HIDE DEF u
    <2>3. u = [j \in 1..Len(s) + Len(t) |-> IF j <= Len(s) THEN s[j] ELSE t[j - Len(s)]]
      BY <2>1, <2>2
    <2> QED BY <2>3 DEF Joined, u
  <1>5. ASSUME NEW i \in 1..Len(s) PROVE Removed(s, i) = Lists!Sequences!RemoveAt(s, i)
    <2> DEFINE u == SubSeq(s, 1, i - 1)
               v == SubSeq(s, i + 1, Len(s))
    <2>1. u \in Seq(Nodes) /\ Len(u) = i - 1 /\ \A j \in 1..i - 1 : u[j] = s[j]
      <3>1. \A j \in 1..i - 1 : j \in 1..Len(s)
        BY <1>1
      <3> QED BY <1>1, <3>1
    <2>2. v \in Seq(Nodes) /\ Len(v) = Len(s) - i /\ \A j \in 1..Len(s) - i : v[j] = s[i + j]
      <3>1. \A j \in i + 1..Len(s) : j \in 1..Len(s)
        BY <1>1
      <3>2. v = [j \in 1..Len(s) - i |-> s[i + j]]
        BY <1>1
      <3>3. \A j \in 1..Len(s) - i : i + j \in 1..Len(s)
        BY <1>1
      <3>4. Len(s) - i \in Nat
        BY <1>1
      <3> HIDE DEF v
      <3>5. v \in [1..Len(s) - i -> Nodes]
        BY <1>1, <3>2, <3>3
      <3> QED BY <3>2, <3>4, <3>5
    <2>3. Lists!Sequences!RemoveAt(s, i) = u \o v
      BY DEF Lists!Sequences!RemoveAt
    <2> HIDE DEF u, v
    <2>4. Len(u) + Len(v) = Len(s) - 1
      BY <1>1, <2>1, <2>2
    <2>5. u \o v = [j \in 1..Len(s) - 1 |-> IF j <= i - 1 THEN u[j] ELSE v[j - (i - 1)]]
      <3> DEFINE w == u \o v
      <3>1. w \in Seq(Nodes) /\ Len(w) = Len(s) - 1
        <4>1. u \in Seq(Nodes) /\ v \in Seq(Nodes)
          BY <2>1, <2>2
        <4>2. w \in Seq(Nodes) /\ Len(w) = Len(u) + Len(v)
          BY <4>1
        <4> QED BY <4>2, <2>4
      <3>2. \A j \in 1..Len(u) + Len(v) : w[j] = IF j <= Len(u) THEN u[j] ELSE v[j - Len(u)]
        BY <2>1, <2>2
      <3>3. \A j \in 1..Len(s) - 1 : w[j] = IF j <= i - 1 THEN u[j] ELSE v[j - (i - 1)]
        BY <3>2, <2>1, <2>4
      <3>4. w = [j \in 1..Len(s) - 1 |-> w[j]]
        BY <3>1, SequenceIs
      <3> HIDE DEF w
      <3>5. w = [j \in 1..Len(s) - 1 |-> IF j <= i - 1 THEN u[j] ELSE v[j - (i - 1)]]
        BY <3>3, <3>4
      <3> QED BY <3>5 DEF w
    <2>6. ASSUME NEW j \in 1..Len(s) - 1
          PROVE  (IF j <= i - 1 THEN u[j] ELSE v[j - (i - 1)]) = IF j < i THEN s[j] ELSE s[j + 1]
      <3>1. CASE j < i
        BY <3>1, <1>1, <2>1
      <3>2. CASE j >= i
        <4>1. j - (i - 1) \in 1..Len(s) - i /\ i + (j - (i - 1)) = j + 1 /\ ~(j <= i - 1) /\ ~(j < i)
          BY <3>2, <1>1
        <4>2. v[j - (i - 1)] = s[i + (j - (i - 1))]
          BY <2>2, <4>1
        <4> QED BY <4>1, <4>2
      <3> QED BY <3>1, <3>2, <1>1
    <2>7. Removed(s, i) = [j \in 1..Len(s) - 1 |-> IF j < i THEN s[j] ELSE s[j + 1]]
      BY DEF Removed
    <2> QED BY <2>3, <2>5, <2>6, <2>7
  <1> QED BY <1>2, <1>3, <1>4, <1>5

LEMMA AsReplaceAll ==
    ASSUME NEW s \in Seq(Nodes), NEW i \in 1..Len(s), NEW new, \A j \in 1..Len(s) : s[j] = s[i] => j = i
    PROVE  [s EXCEPT ![i] = new] = Lists!Sequences!ReplaceAll(s, s[i], new)
  <1>1. [s EXCEPT ![i] = new] = [j \in 1..Len(s) |-> IF j = i THEN new ELSE s[j]]
    BY SequenceIs
  <1>2. \A j \in 1..Len(s) : (IF j = i THEN new ELSE s[j]) = IF s[j] = s[i] THEN new ELSE s[j]
    OBVIOUS
  <1> QED BY <1>1, <1>2 DEF Lists!Sequences!ReplaceAll

\* What is read from the pointers, as they are and as a step leaves them.
LEMMA ListsRead ==
    ASSUME NEW L, Holds(mem, L)
    PROVE  /\ [h \in Heads |-> Lists!Forward(h)] = L
           /\ \A n : Lists!On(n) = OnList(L, n)
           /\ \A n : (n \in Lists!Sequences!Linked) = OnList(L, n)
  <1>1. \A h \in Heads : Lists!Forward(h) = L[h]
    BY EntriesAre DEF Lists!Forward
  <1>2. L \in OnHeads
    BY DEF Holds
  <1>3. [h \in Heads |-> Lists!Forward(h)] = L
    BY <1>1, <1>2 DEF OnHeads
  <1>4. \A h \in Heads : DOMAIN L[h] = 1..Len(L[h])
    BY <1>2 DEF OnHeads
  <1>5. \A n : Lists!On(n) = OnList(L, n)
    BY <1>1, <1>4 DEF Lists!On, OnList, Lists!ToSet
  <1>6. ASSUME NEW n PROVE (n \in Lists!Sequences!Linked) = OnList(L, n)
    <2>1. Lists!Sequences!Linked = UNION {Lists!Sequences!ToSet(L[h]) : h \in Heads}
      BY <1>3 DEF Lists!Sequences!Linked
    <2>2. ASSUME n \in Lists!Sequences!Linked PROVE OnList(L, n)
      <3>1. PICK Elts \in {Lists!Sequences!ToSet(L[h]) : h \in Heads} : n \in Elts
        BY <2>1, <2>2
      <3>2. PICK h \in Heads : n \in Lists!Sequences!ToSet(L[h])
        BY <3>1
      <3> QED BY <3>2, <1>4 DEF OnList, Lists!Sequences!ToSet
    <2>3. ASSUME OnList(L, n) PROVE n \in Lists!Sequences!Linked
      <3>1. PICK h \in Heads : \E i \in 1..Len(L[h]) : L[h][i] = n
        BY <2>3 DEF OnList
      <3>2. n \in Lists!Sequences!ToSet(L[h])
        BY <3>1, <1>4 DEF Lists!Sequences!ToSet
      <3> QED BY <2>1, <3>2
    <2>4. (n \in Lists!Sequences!Linked) \in BOOLEAN /\ OnList(L, n) \in BOOLEAN
      BY DEF OnList
    <2> QED BY <2>2, <2>3, <2>4
  <1> QED BY <1>3, <1>5, <1>6

LEMMA ListsReadNext ==
    ASSUME NEW K, Holds(mem', K)
    PROVE  [h \in Heads |-> Lists!Forward(h)]' = K
  <1>1. \A h \in Heads : Lists!Forward(h)' = K[h]
    BY EntriesAre DEF Lists!Forward
  <1>2. K \in OnHeads
    BY DEF Holds
  <1> QED BY <1>1, <1>2 DEF OnHeads

LEMMA WithoutIs ==
    ASSUME NEW L, Holds(mem, L), NEW h \in Heads, NEW i \in 1..Len(L[h])
    PROVE  Lists!Sequences!Without(L[h][i]) = Out(L, h, i)
  <1> DEFINE n == L[h][i]
  <1>1. L \in OnHeads /\ Apart(L) /\ [g \in Heads |-> Lists!Forward(g)] = L
    BY ListsRead DEF Holds
  <1>2. \A g \in Heads : L[g] \in Seq(Nodes) /\ DOMAIN L[g] = 1..Len(L[g])
    BY <1>1 DEF OnHeads
  <1>3. Lists!Sequences!Without(n) = [g \in Heads |-> Lists!Sequences!Dropped(L[g], n)]
    BY <1>1 DEF Lists!Sequences!Without
  <1>4. Lists!Sequences!Dropped(L[h], n) = Removed(L[h], i)
    <2>1. n \in Lists!Sequences!ToSet(L[h])
      BY <1>2 DEF Lists!Sequences!ToSet
    <2>2. \A j \in DOMAIN L[h] : L[h][j] = n => j = i
      BY <1>1, <1>2, EntriesApart
    <2>3. i \in DOMAIN L[h] /\ L[h][i] = n
      BY <1>2
    <2>4. (CHOOSE j \in DOMAIN L[h] : L[h][j] = n) = i
      BY <2>2, <2>3
    <2>5. n \in Nodes
      BY <1>2
    <2>6. Removed(L[h], i) = Lists!Sequences!RemoveAt(L[h], i)
      BY <1>2, <2>5, AsSequences
    <2> HIDE DEF n
    <2> QED BY <2>1, <2>4, <2>6 DEF Lists!Sequences!Dropped
  <1>5. \A g \in Heads : g # h => Lists!Sequences!Dropped(L[g], n) = L[g]
    <2> SUFFICES ASSUME NEW g \in Heads, g # h PROVE n \notin Lists!Sequences!ToSet(L[g])
      BY DEF Lists!Sequences!Dropped
    <2> SUFFICES ASSUME n \in Lists!Sequences!ToSet(L[g]) PROVE FALSE
      OBVIOUS
    <2>1. PICK j \in 1..Len(L[g]) : L[g][j] = L[h][i]
      BY <1>2 DEF Lists!Sequences!ToSet
    <2> QED BY <2>1, <1>1, EntriesApart
  <1> HIDE DEF n
  <1>6. Lists!Sequences!Without(n) = [L EXCEPT ![h] = Removed(L[h], i)]
    BY <1>1, <1>3, <1>4, <1>5 DEF OnHeads
  <1> QED BY <1>6 DEF Out, n

\* Each operation on the pointers is the one on the sequences.
SeqStep(K) == Holds(mem', K) /\ (Lists!Sequences!Next \/ [h \in Heads |-> Lists!Forward(h)]' = [h \in Heads |-> Lists!Forward(h)])

LEMMA AddStep ==
    ASSUME NEW L, Holds(mem, L), NEW n \in Nodes, NEW h \in Heads, Lists!Add(n, h) \/ Lists!AddTail(n, h)
    PROVE  \E K : SeqStep(K)
  <1>1. L \in OnHeads /\ L[h] \in Seq(Nodes)
    BY DEF Holds, OnHeads
  <1>2. ~OnList(L, n) /\ n \notin Lists!Sequences!Linked /\ [g \in Heads |-> Lists!Forward(g)] = L
    BY ListsRead DEF Lists!Add, Lists!AddTail
  <1>3. CASE Lists!Add(n, h)
    <2> DEFINE K == [L EXCEPT ![h] = Inserted(@, 0, n)]
    <2>1. Holds(mem', K)
      <3>1. Holds(Lists!list_add(mem, n, h), K) /\ Holds(Lists!list_add_rcu(mem, n, h), K)
        BY <1>2, AddHolds
      <3> QED BY <1>3, <3>1 DEF Lists!Add
    <2>2. K = [L EXCEPT ![h] = <<n>> \o @]
      BY <1>1, AsSequences
    <2> HIDE DEF K
    <2>3. [g \in Heads |-> Lists!Forward(g)]' = K
      BY <2>1, ListsReadNext
    <2>4. Lists!Sequences!Add(n, h)
      BY <1>2, <2>2, <2>3 DEF Lists!Sequences!Add
    <2> QED BY <2>1, <2>4 DEF Lists!Sequences!Next, SeqStep
  <1>4. CASE Lists!AddTail(n, h)
    <2> DEFINE K == [L EXCEPT ![h] = Inserted(@, Len(L[h]), n)]
    <2>1. Holds(mem', K)
      <3>1. Holds(Lists!list_add_tail(mem, n, h), K) /\ Holds(Lists!list_add_tail_rcu(mem, n, h), K)
        BY <1>2, AddHolds
      <3> QED BY <1>4, <3>1 DEF Lists!AddTail
    <2>2. K = [L EXCEPT ![h] = Append(@, n)]
      BY <1>1, AsSequences
    <2> HIDE DEF K
    <2>3. [g \in Heads |-> Lists!Forward(g)]' = K
      BY <2>1, ListsReadNext
    <2>4. Lists!Sequences!AddTail(n, h)
      BY <1>2, <2>2, <2>3 DEF Lists!Sequences!AddTail
    <2> QED BY <2>1, <2>4 DEF Lists!Sequences!Next, SeqStep
  <1> QED BY <1>3, <1>4

LEMMA DeleteStep ==
    ASSUME NEW L, Holds(mem, L), NEW n \in Nodes, Lists!On(n),
           mem' \in {Lists!list_del(mem, n), Lists!list_del_rcu(mem, n), Lists!list_del_init(mem, n)}
    PROVE  \E K : SeqStep(K)
  <1>1. OnList(L, n) /\ n \in Lists!Sequences!Linked
    BY ListsRead
  <1>2. PICK h \in Heads : \E i \in 1..Len(L[h]) : L[h][i] = n
    BY <1>1 DEF OnList
  <1>3. PICK i \in 1..Len(L[h]) : L[h][i] = n
    BY <1>2
  <1> DEFINE K == Out(L, h, i)
  <1>4. Holds(mem', K)
    BY <1>3, DeleteHolds
  <1>5. Lists!Sequences!Without(n) = K
    BY <1>3, WithoutIs
  <1> HIDE DEF K
  <1>6. [g \in Heads |-> Lists!Forward(g)]' = K
    BY <1>4, ListsReadNext
  <1>7. Lists!Sequences!Delete(n)
    BY <1>1, <1>5, <1>6 DEF Lists!Sequences!Delete
  <1> QED BY <1>4, <1>7 DEF Lists!Sequences!Next, SeqStep

LEMMA MoveStep ==
    ASSUME NEW L, Holds(mem, L), NEW n \in Nodes, NEW h \in Heads, Lists!Move(n, h) \/ Lists!MoveTail(n, h)
    PROVE  \E K : SeqStep(K)
  <1>1. OnList(L, n) /\ n \in Lists!Sequences!Linked
    BY ListsRead DEF Lists!Move, Lists!MoveTail
  <1>2. PICK g \in Heads : \E i \in 1..Len(L[g]) : L[g][i] = n
    BY <1>1 DEF OnList
  <1>3. PICK i \in 1..Len(L[g]) : L[g][i] = n
    BY <1>2
  <1> DEFINE M == Out(L, g, i)
  <1>4. Lists!Sequences!Without(n) = M
    BY <1>3, WithoutIs
  <1>5. M \in OnHeads /\ M[h] \in Seq(Nodes)
    <2>1. M \in OnHeads
      BY DeleteHolds DEF Holds
    <2> QED BY <2>1 DEF OnHeads
  <1>6. /\ Holds(Lists!list_move(mem, n, h), [M EXCEPT ![h] = Inserted(@, 0, n)])
        /\ Holds(Lists!list_move_tail(mem, n, h), [M EXCEPT ![h] = Inserted(@, Len(M[h]), n)])
    BY <1>3, MoveHolds
  <1> HIDE DEF M
  <1>7. CASE Lists!Move(n, h)
    <2> DEFINE K == [M EXCEPT ![h] = Inserted(@, 0, n)]
    <2>1. Holds(mem', K)
      BY <1>6, <1>7 DEF Lists!Move
    <2>2. K = [M EXCEPT ![h] = <<n>> \o @]
      BY <1>5, AsSequences
    <2> HIDE DEF K
    <2>3. [f \in Heads |-> Lists!Forward(f)]' = K
      BY <2>1, ListsReadNext
    <2>4. Lists!Sequences!Move(n, h)
      BY <1>1, <1>4, <2>2, <2>3 DEF Lists!Sequences!Move
    <2> QED BY <2>1, <2>4 DEF Lists!Sequences!Next, SeqStep
  <1>8. CASE Lists!MoveTail(n, h)
    <2> DEFINE K == [M EXCEPT ![h] = Inserted(@, Len(M[h]), n)]
    <2>1. Holds(mem', K)
      BY <1>6, <1>8 DEF Lists!MoveTail
    <2>2. K = [M EXCEPT ![h] = Append(@, n)]
      BY <1>5, AsSequences
    <2> HIDE DEF K
    <2>3. [f \in Heads |-> Lists!Forward(f)]' = K
      BY <2>1, ListsReadNext
    <2>4. Lists!Sequences!MoveTail(n, h)
      BY <1>1, <1>4, <2>2, <2>3 DEF Lists!Sequences!MoveTail
    <2> QED BY <2>1, <2>4 DEF Lists!Sequences!Next, SeqStep
  <1> QED BY <1>7, <1>8

LEMMA ReplaceStep ==
    ASSUME NEW L, Holds(mem, L), NEW n \in Nodes, NEW new \in Nodes, Lists!Replace(n, new)
    PROVE  \E K : SeqStep(K)
  <1>1. /\ OnList(L, n) /\ n \in Lists!Sequences!Linked /\ ~OnList(L, new) /\ new \notin Lists!Sequences!Linked
        /\ [g \in Heads |-> Lists!Forward(g)] = L
    BY ListsRead DEF Lists!Replace
  <1>2. PICK h \in Heads : \E i \in 1..Len(L[h]) : L[h][i] = n
    BY <1>1 DEF OnList
  <1>3. PICK i \in 1..Len(L[h]) : L[h][i] = n
    BY <1>2
  <1> DEFINE K == [L EXCEPT ![h] = [@ EXCEPT ![i] = new]]
  <1>4. Holds(mem', K)
    <2>1. mem' = Lists!list_replace_rcu(mem, L[h][i], new)
      BY <1>3 DEF Lists!Replace
    <2> QED BY <1>1, <2>1, ReplaceHolds
  <1>5. L \in OnHeads /\ Apart(L) /\ \A g \in Heads : L[g] \in Seq(Nodes)
    BY DEF Holds, OnHeads
  <1>6. [L[h] EXCEPT ![i] = new] = Lists!Sequences!ReplaceAll(L[h], n, new)
    <2>1. \A j \in 1..Len(L[h]) : L[h][j] = n => j = i
      BY <1>3, <1>5, EntriesApart
    <2>2. L[h] \in Seq(Nodes)
      BY <1>5
    <2>3. i \in 1..Len(L[h]) /\ \A j \in 1..Len(L[h]) : L[h][j] = L[h][i] => j = i
      BY <1>3, <2>1
    <2>4. [L[h] EXCEPT ![i] = new] = Lists!Sequences!ReplaceAll(L[h], L[h][i], new)
      <3> DEFINE s == L[h]
      <3>1. s \in Seq(Nodes) /\ i \in 1..Len(s) /\ \A j \in 1..Len(s) : s[j] = s[i] => j = i
        BY <2>2, <2>3
      <3> HIDE DEF s
      <3>2. [s EXCEPT ![i] = new] = Lists!Sequences!ReplaceAll(s, s[i], new)
        BY <3>1, AsReplaceAll
      <3> QED BY <3>2 DEF s
    <2> QED BY <1>3, <2>4
  <1>7. \A g \in Heads : g # h => L[g] = Lists!Sequences!ReplaceAll(L[g], n, new)
    <2> SUFFICES ASSUME NEW g \in Heads, g # h PROVE L[g] = Lists!Sequences!ReplaceAll(L[g], n, new)
      OBVIOUS
    <2>1. \A j \in 1..Len(L[g]) : L[g][j] # n
      BY <1>3, <1>5, EntriesApart
    <2>2. L[g] = [j \in 1..Len(L[g]) |-> L[g][j]]
      BY <1>5, SequenceIs
    <2> QED BY <2>1, <2>2 DEF Lists!Sequences!ReplaceAll
  <1>8. K = [g \in Heads |-> Lists!Sequences!ReplaceAll(L[g], n, new)]
    BY <1>5, <1>6, <1>7 DEF OnHeads
  <1> HIDE DEF K
  <1>9. [g \in Heads |-> Lists!Forward(g)]' = K
    BY <1>4, ListsReadNext
  <1>10. Lists!Sequences!Replace(n, new)
    BY <1>1, <1>8, <1>9 DEF Lists!Sequences!Replace
  <1> QED BY <1>4, <1>10 DEF Lists!Sequences!Next, SeqStep

LEMMA SpliceStep ==
    ASSUME NEW L, Holds(mem, L), NEW h \in Heads, NEW g \in Heads, Lists!Splice(h, g)
    PROVE  \E K : SeqStep(K)
  <1> DEFINE K == Poured(L, h, g)
  <1>1. Holds(mem', K) /\ h # g
    BY SpliceHolds DEF Lists!Splice
  <1>2. L \in OnHeads /\ L[h] \in Seq(Nodes) /\ L[g] \in Seq(Nodes)
    BY DEF Holds, OnHeads
  <1>3. K = [L EXCEPT ![g] = L[h] \o @, ![h] = <<>>]
    <2>1. Joined(L[h], L[g]) = L[h] \o L[g]
      <3>1. \A n \in Nodes : Joined(L[h], L[g]) = L[h] \o L[g]
        BY <1>2, AsSequences
      <3>2. CASE Nodes = {}
        <4>1. Len(L[h]) = 0 /\ Len(L[g]) = 0 /\ L[h] = <<>> /\ L[g] = <<>>
          BY <1>2, <3>2
        <4> QED BY <4>1 DEF Joined
      <3> QED BY <3>1, <3>2
    <2> QED BY <1>2, <2>1 DEF Poured, OnHeads
  <1> HIDE DEF K
  <1>4. [f \in Heads |-> Lists!Forward(f)]' = K
    BY <1>1, ListsReadNext
  <1>5. [f \in Heads |-> Lists!Forward(f)] = L
    BY ListsRead
  <1>6. Lists!Sequences!Splice(h, g)
    BY <1>1, <1>3, <1>4, <1>5 DEF Lists!Sequences!Splice
  <1> QED BY <1>1, <1>6 DEF Lists!Sequences!Next, SeqStep

LEMMA WalkStep ==
    ASSUME NEW L, Holds(mem, L), mem' = mem
    PROVE  \E K : SeqStep(K)
  <1>1. [h \in Heads |-> Lists!Forward(h)] = L
    BY ListsRead
  <1>2. Holds(mem', L)
    OBVIOUS
  <1>3. [h \in Heads |-> Lists!Forward(h)]' = L
    BY <1>2, ListsReadNext
  <1> QED BY <1>1, <1>2, <1>3 DEF SeqStep

LEMMA ListsStep ==
    ASSUME NEW L, Holds(mem, L), [Lists!Next]_(Lists!vars)
    PROVE  \E K : SeqStep(K)
  <1>1. CASE UNCHANGED Lists!vars
    BY <1>1, WalkStep DEF Lists!vars
  <1>2. ASSUME NEW n \in Nodes, NEW h \in Heads,
               Lists!Add(n, h) \/ Lists!AddTail(n, h) \/ Lists!Move(n, h) \/ Lists!MoveTail(n, h)
        PROVE  \E K : SeqStep(K)
    BY <1>2, AddStep, MoveStep
  <1>3. ASSUME NEW n \in Nodes, Lists!Delete(n) PROVE \E K : SeqStep(K)
    BY <1>3, DeleteStep DEF Lists!Delete
  <1>4. ASSUME NEW n \in Nodes, NEW new \in Nodes, Lists!Replace(n, new) PROVE \E K : SeqStep(K)
    BY <1>4, ReplaceStep
  <1>5. ASSUME NEW h \in Heads, NEW g \in Heads, Lists!Splice(h, g) PROVE \E K : SeqStep(K)
    BY <1>5, SpliceStep
  <1>6. ASSUME NEW h \in Heads, NEW field \in {"next", "prev"}, NEW safe \in BOOLEAN, Lists!StartWalk(h, field, safe)
        PROVE  \E K : SeqStep(K)
    BY <1>6, WalkStep DEF Lists!StartWalk
  <1>7. CASE Lists!Visit
    BY <1>7, WalkStep DEF Lists!Visit
  <1>8. CASE Lists!EndWalk
    BY <1>8, WalkStep DEF Lists!EndWalk
  <1>9. CASE Lists!DeleteVisited
    <2>1. walk.pos \in Nodes
      <3>1. OnList(L, walk.pos)
        BY <1>9, ListsRead DEF Lists!DeleteVisited
      <3>2. L \in OnHeads
        BY DEF Holds
      <3> QED BY <3>1, <3>2 DEF OnList, OnHeads
    <2> QED BY <1>9, <2>1, DeleteStep DEF Lists!DeleteVisited
  <1> QED BY <1>1, <1>2, <1>3, <1>4, <1>5, <1>6, <1>7, <1>8, <1>9 DEF Lists!Next

LEMMA ListsBegin ==
    ASSUME Lists!Init
    PROVE  Holds(mem, [h \in Heads |-> <<>>]) /\ Lists!Sequences!Init
  <1> DEFINE L == [h \in Heads |-> <<>>]
  <1>1. mem = [c \in Lists!Cells |-> IF c[1] \in Heads THEN c[1] ELSE Null]
    BY DEF Lists!Init
  <1>2. mem \in Memories
    <2>1. \A c \in Lists!Cells : c[1] \in Lists!Places
      BY DEF Lists!Cells
    <2> QED BY <1>1, <2>1 DEF Memories
  <1>3. L \in OnHeads
    <2>1. <<>> \in Seq(Nodes)
      OBVIOUS
    <2> QED BY <2>1 DEF OnHeads
  <1>4. \A h \in Heads : LNext(mem, h) = h /\ LPrev(mem, h) = h
    BY <1>1 DEF LNext, LPrev, Lists!Cells, Lists!Places
  <1>5. \A h \in Heads : L[h] = <<>>
    OBVIOUS
  <1> HIDE DEF L
  <1>6. Apart(L)
    BY <1>5 DEF Apart
  <1>7. Circles(mem, L)
    <2> SUFFICES ASSUME NEW h \in Heads, NEW i \in 0..Len(L[h])
                 PROVE  /\ LNext(mem, At(h, L[h], i)) = At(h, L[h], i + 1)
                        /\ LPrev(mem, At(h, L[h], i + 1)) = At(h, L[h], i)
      BY DEF Circles, Circle
    <2>1. At(h, L[h], i) = h /\ At(h, L[h], i + 1) = h
      BY <1>5 DEF At
    <2> QED BY <2>1, <1>4
  <1>8. Holds(mem, L)
    BY <1>2, <1>3, <1>6, <1>7 DEF Holds
  <1>9. [h \in Heads |-> Lists!Forward(h)] = L
    BY <1>8, ListsRead
  <1> QED BY <1>8, <1>9 DEF Lists!Sequences!Init, L

\* The inductive invariant of the lists.
ListsInv == \E L \in OnHeads : Holds(mem, L)

\* LinkedList: whatever is done to any number of lists, the pointers are those of
\* sequences without repetition.
THEOREM ListsImplementSequences == Lists!Spec => ListsAreSequences
  <1>1. Lists!Init => ListsInv /\ Lists!Sequences!Init
    <2> SUFFICES ASSUME Lists!Init PROVE ListsInv /\ Lists!Sequences!Init
      OBVIOUS
    <2>1. Holds(mem, [h \in Heads |-> <<>>]) /\ Lists!Sequences!Init
      BY ListsBegin
    <2> QED BY <2>1 DEF ListsInv, Holds
  <1>2. ListsInv /\ [Lists!Next]_(Lists!vars) => ListsInv' /\ [Lists!Sequences!Next]_[h \in Heads |-> Lists!Forward(h)]
    <2> SUFFICES ASSUME ListsInv, [Lists!Next]_(Lists!vars)
                 PROVE  ListsInv' /\ [Lists!Sequences!Next]_[h \in Heads |-> Lists!Forward(h)]
      OBVIOUS
    <2>1. PICK L \in OnHeads : Holds(mem, L)
      BY DEF ListsInv
    <2>2. PICK K : SeqStep(K)
      BY <2>1, ListsStep
    <2>3. K \in OnHeads /\ Holds(mem', K)
      BY <2>2 DEF SeqStep, Holds
    <2> QED BY <2>2, <2>3 DEF SeqStep, ListsInv
  <1> QED BY <1>1, <1>2, PTL DEF Lists!Spec, ListsAreSequences, Lists!ListsAreSequences, Lists!Sequences!Spec

------------------------------------------------------------------------------
(* Loops over a list.                                                      *)

\* The entries of a list in the order in which a loop meets them.
InOrder(L, h, field) == IF field = "next" THEN L[h] ELSE Lists!Reverse(L[h])
Rest(d, k) == [j \in 1..Len(d) - k |-> d[k + j]]

LEMMA OrderIs ==
    ASSUME NEW m, NEW L, Holds(m, L), NEW h \in Heads, NEW field \in {"next", "prev"}
    PROVE  LET d == InOrder(L, h, field) IN
           /\ d \in Seq(Nodes) /\ Len(d) = Len(L[h])
           /\ \A i \in 0..Len(d) : m[<<At(h, d, i), field>>] = At(h, d, i + 1)
           /\ \A i \in 1..Len(d) : d[i] = IF field = "next" THEN L[h][i] ELSE L[h][(Len(d) - i) + 1]
           /\ \A i \in 1..Len(d), j \in 1..Len(d) : d[i] = d[j] => i = j
           /\ \A i \in 1..Len(d) : OnList(L, d[i])
           /\ Lists!Entries(m, h, field) = d
  <1> DEFINE s == L[h]
             r == Lists!Reverse(s)
  <1>1. m \in Memories /\ L \in OnHeads /\ Apart(L) /\ Circle(m, h, s)
    BY DEF Holds, Circles
  <1>2. s \in Seq(Nodes) /\ Len(s) \in Nat /\ \A i, j \in 1..Len(s) : s[i] = s[j] => i = j
    BY <1>1, EntriesApart DEF OnHeads
  <1>3. \A i \in 1..Len(s) : OnList(L, s[i])
    BY DEF OnList
  <1> HIDE DEF s
  <1>4. CASE field = "next"
    <2>1. InOrder(L, h, field) = s
      BY <1>4 DEF InOrder, s
    <2>2. \A i \in 0..Len(s) : m[<<At(h, s, i), field>>] = At(h, s, i + 1)
      BY <1>1, <1>4 DEF Circle, LNext
    <2>3. Lists!Entries(m, h, field) = s
      BY <1>4, EntriesAre DEF s
    <2> QED BY <2>1, <2>2, <2>3, <1>2, <1>3, <1>4 DEF s
  <1>5. CASE field = "prev"
    <2>1. r = [i \in 1..Len(s) |-> s[(Len(s) - i) + 1]] /\ InOrder(L, h, field) = r
      BY <1>5 DEF Lists!Reverse, InOrder, s
    <2> HIDE DEF r
    <2>2. \A i \in 1..Len(s) : (Len(s) - i) + 1 \in 1..Len(s)
      BY <1>2
    <2>3. r \in Seq(Nodes) /\ Len(r) = Len(s)
      <3>1. r \in [1..Len(s) -> Nodes]
        BY <1>2, <2>1, <2>2
      <3> QED BY <1>2, <3>1
    <2>4. \A i \in 0..Len(s) + 1 : At(h, r, i) = At(h, s, (Len(s) - i) + 1)
      <3> TAKE i \in 0..Len(s) + 1
      <3>1. (i \in 1..Len(r)) = ((Len(s) - i) + 1 \in 1..Len(s))
        BY <1>2, <2>3
      <3>2. i \in 1..Len(r) => r[i] = s[(Len(s) - i) + 1]
        BY <2>1, <2>3
      <3> QED BY <3>1, <3>2 DEF At
    <2>5. \A i \in 0..Len(r) : m[<<At(h, r, i), field>>] = At(h, r, i + 1)
      <3> TAKE i \in 0..Len(r)
      <3>1. /\ i \in 0..Len(s) + 1 /\ i + 1 \in 0..Len(s) + 1
            /\ Len(s) - i \in 0..Len(s) /\ (Len(s) - (i + 1)) + 1 = Len(s) - i
        BY <1>2, <2>3
      <3>2. LPrev(m, At(h, s, (Len(s) - i) + 1)) = At(h, s, Len(s) - i)
        BY <1>1, <3>1 DEF Circle
      <3>3. At(h, r, i) = At(h, s, (Len(s) - i) + 1) /\ At(h, r, i + 1) = At(h, s, (Len(s) - (i + 1)) + 1)
        BY <2>4, <3>1
      <3> QED BY <3>1, <3>2, <3>3, <1>5 DEF LPrev
    <2>6. \A i, j \in 1..Len(r) : r[i] = r[j] => i = j
      <3> SUFFICES ASSUME NEW i \in 1..Len(r), NEW j \in 1..Len(r), r[i] = r[j] PROVE i = j
        OBVIOUS
      <3>1. s[(Len(s) - i) + 1] = s[(Len(s) - j) + 1]
        BY <2>1, <2>3
      <3>2. (Len(s) - i) + 1 = (Len(s) - j) + 1
        BY <3>1, <1>2, <2>2, <2>3
      <3> QED BY <3>2, <1>2, <2>3
    <2>7. Lists!Entries(m, h, field) = r
      BY <1>5, EntriesAre DEF r, s
    <2>8. \A i \in 1..Len(r) : r[i] = s[(Len(r) - i) + 1] /\ OnList(L, r[i])
      BY <1>3, <2>1, <2>2, <2>3
    <2>9. field # "next"
      BY <1>5
    <2> QED BY <2>1, <2>3, <2>5, <2>6, <2>7, <2>8, <2>9 DEF s
  <1> QED BY <1>4, <1>5

LEMMA RestIs ==
    ASSUME NEW d \in Seq(Nodes), NEW k \in 0..Len(d)
    PROVE  /\ Rest(d, k) \in Seq(Nodes) /\ Len(Rest(d, k)) = Len(d) - k
           /\ \A j \in 1..Len(d) - k : Rest(d, k)[j] = d[k + j] /\ k + j \in 1..Len(d)
           /\ (Rest(d, k) = <<>>) = (k = Len(d))
           /\ k < Len(d) => Tail(Rest(d, k)) = Rest(d, k + 1)
           /\ Rest(d, 0) = d
  <1>1. Len(d) \in Nat /\ Len(d) - k \in Nat
    OBVIOUS
  <1>2. \A j \in 1..Len(d) - k : k + j \in 1..Len(d)
    BY <1>1
  <1>3. Rest(d, k) \in [1..Len(d) - k -> Nodes]
    BY <1>2 DEF Rest
  <1>4. Rest(d, k) \in Seq(Nodes) /\ Len(Rest(d, k)) = Len(d) - k
    BY <1>1, <1>3
  <1>5. \A j \in 1..Len(d) - k : Rest(d, k)[j] = d[k + j]
    BY DEF Rest
  <1>6. (Rest(d, k) = <<>>) = (k = Len(d))
    BY <1>1, <1>4
  <1>7. ASSUME k < Len(d) PROVE Tail(Rest(d, k)) = Rest(d, k + 1)
    <2> DEFINE u == Tail(Rest(d, k))
    <2>1. Len(d) - (k + 1) = (Len(d) - k) - 1 /\ (Len(d) - k) - 1 \in Nat
      BY <1>1, <1>7
    <2>2. Rest(d, k) # <<>>
      BY <1>6, <1>7, <1>1
    <2>3. u \in Seq(Nodes) /\ Len(u) = (Len(d) - k) - 1
      BY <1>4, <2>2
    <2>4. \A j \in 1..(Len(d) - k) - 1 : u[j] = Rest(d, k)[j + 1]
      BY <1>4, <2>2, <2>3
    <2>5. \A j \in 1..(Len(d) - k) - 1 : j + 1 \in 1..Len(d) - k /\ k + (j + 1) = (k + 1) + j
      BY <1>1
    <2>6. u = [j \in 1..(Len(d) - k) - 1 |-> u[j]]
      BY <2>3, SequenceIs
    <2> HIDE DEF u
    <2>7. u = [j \in 1..(Len(d) - k) - 1 |-> d[(k + 1) + j]]
      BY <1>5, <2>4, <2>5, <2>6
    <2> QED BY <2>1, <2>7 DEF Rest, u
  <1>8. Rest(d, 0) = d
    <2>1. d = [j \in 1..Len(d) |-> d[j]]
      BY SequenceIs
    <2>2. Len(d) - 0 = Len(d) /\ \A j \in 1..Len(d) : 0 + j = j
      BY <1>1
    <2> QED BY <2>1, <2>2 DEF Rest
  <1> QED BY <1>2, <1>4, <1>5, <1>6, <1>7, <1>8

\* A loop is at the first of the entries that are left.  They are the end of the list,
\* and so are all but the first when the loop is safe and has removed that one.
LoopsOverLists == [kind : {"each"}, head : Heads, field : {"next", "prev"}, safe : BOOLEAN,
          pos : Lists!Places, ahead : Lists!Places \cup {Null, Poison}, rest : Seq(Nodes)]
LeftOf(L, w) ==
    \/ \E k \in 0..Len(L[w.head]) : w.rest = Rest(InOrder(L, w.head, w.field), k)
    \/ /\ w.safe /\ w.rest # <<>> /\ ~OnList(L, w.rest[1])
       /\ \E k \in 0..Len(L[w.head]) : Tail(w.rest) = Rest(InOrder(L, w.head, w.field), k)
LoopOK(L, w) ==
    /\ w \in LoopsOverLists
    /\ w.pos = At(w.head, w.rest, 1)
    /\ w.safe /\ w.rest # <<>> => w.ahead = At(w.head, w.rest, 2)
    /\ LeftOf(L, w)
WalkOK(L) == walk # Lists!NoWalk => LoopOK(L, walk)

LEMMA StartOK ==
    ASSUME NEW L, Holds(mem, L), NEW h \in Heads, NEW field \in {"next", "prev"}, NEW safe \in BOOLEAN,
           Lists!StartWalk(h, field, safe)
    PROVE  WalkOK(L)'
  <1> DEFINE d == InOrder(L, h, field)
             pos == Lists!Step(mem, h, field)
             w == [kind |-> "each", head |-> h, field |-> field, safe |-> safe, pos |-> pos,
                   ahead |-> IF safe THEN Lists!Step(mem, pos, field) ELSE Null, rest |-> d]
  <1>1. mem \in Memories /\ L \in OnHeads
    BY DEF Holds
  <1>2. /\ d \in Seq(Nodes) /\ Len(d) = Len(L[h]) /\ Len(d) \in Nat
        /\ \A i \in 0..Len(d) : mem[<<At(h, d, i), field>>] = At(h, d, i + 1)
    BY OrderIs
  <1>3. Lists!Forward(h) = L[h]
    BY EntriesAre DEF Lists!Forward
  <1>4. d = IF field = "next" THEN Lists!Forward(h) ELSE Lists!Reverse(Lists!Forward(h))
    BY <1>3 DEF InOrder
  <1>5. walk' = w
    BY <1>4 DEF Lists!StartWalk
  <1> HIDE DEF d
  <1>6. pos = At(h, d, 1)
    <2>1. At(h, d, 0) = h
      BY DEF At
    <2> QED BY <1>2, <2>1 DEF Lists!Step
  <1>7. pos \in Lists!Places
    <2>1. 1 \in 1..Len(d) => d[1] \in Nodes
      BY <1>2
    <2> QED BY <1>6, <2>1 DEF At, Lists!Places
  <1>8. Lists!Step(mem, pos, field) \in Lists!Places \cup {Null, Poison}
    <2>1. <<pos, field>> \in Lists!Cells
      BY <1>7 DEF Lists!Cells
    <2> HIDE DEF pos
    <2> QED BY <1>1, <2>1 DEF Memories, Lists!Step
  <1>9. d # <<>> => Lists!Step(mem, pos, field) = At(h, d, 2)
    <2> SUFFICES ASSUME d # <<>> PROVE Lists!Step(mem, pos, field) = At(h, d, 2)
      OBVIOUS
    <2>1. 1 \in 0..Len(d)
      <3>1. Len(d) # 0
        BY <1>2
      <3> QED BY <3>1, <1>2
    <2>2. mem[<<At(h, d, 1), field>>] = At(h, d, 1 + 1)
      BY <1>2, <2>1
    <2> HIDE DEF pos
    <2> QED BY <1>6, <2>2 DEF Lists!Step
  <1> HIDE DEF pos
  <1>10. w \in LoopsOverLists
    BY <1>2, <1>7, <1>8 DEF LoopsOverLists
  <1>11. d = Rest(d, 0) /\ 0 \in 0..Len(L[h])
    BY <1>2, RestIs
  <1>12. LoopOK(L, w)
    BY <1>6, <1>9, <1>10, <1>11 DEF LoopOK, LeftOf, d
  <1> QED BY <1>5, <1>12 DEF WalkOK

\* Where a loop goes next.
LEMMA VisitOK ==
    ASSUME NEW L, Holds(mem, L), WalkOK(L), Lists!Visit
    PROVE  WalkOK(L)'
  <1> DEFINE w == walk
             h == walk.head
             d == InOrder(L, h, w.field)
             r == w.rest
             to == Lists!NextOf(walk)
  <1>1. mem \in Memories /\ L \in OnHeads
    BY DEF Holds
  <1>2. LoopOK(L, w) /\ w \in LoopsOverLists /\ h \in Heads /\ w.field \in {"next", "prev"} /\ r \in Seq(Nodes) /\ w.pos # h
    BY DEF WalkOK, LoopOK, LoopsOverLists, Lists!Visit
  <1>3. /\ d \in Seq(Nodes) /\ Len(d) = Len(L[h]) /\ Len(d) \in Nat
        /\ \A i \in 0..Len(d) : mem[<<At(h, d, i), w.field>>] = At(h, d, i + 1)
    BY <1>2, OrderIs
  <1>4. walk' = [walk EXCEPT !.pos = to, !.rest = IF r = <<>> THEN r ELSE Tail(r),
                             !.ahead = IF walk.safe /\ to \in Lists!Places THEN Lists!Step(mem, to, walk.field) ELSE Null]
    BY DEF Lists!Visit
  <1>5. r # <<>> /\ w.pos = r[1] /\ Len(r) \in Nat /\ Len(r) >= 1
    <2>1. w.pos = At(h, r, 1)
      BY <1>2 DEF LoopOK
    <2>2. 1 \in 1..Len(r)
      BY <1>2, <2>1 DEF At
    <2> QED BY <1>2, <2>1, <2>2 DEF At
  <1> HIDE DEF d, r, to, h
  <1>6. PICK k \in 0..Len(d) : Tail(r) = Rest(d, k)
    <2>1. CASE \E k \in 0..Len(L[h]) : r = Rest(d, k)
      <3>1. PICK k \in 0..Len(d) : r = Rest(d, k)
        BY <2>1, <1>3
      <3>2. k # Len(d)
        BY <1>3, <1>5, <3>1, RestIs
      <3>3. k < Len(d) /\ k + 1 \in 0..Len(d)
        BY <1>3, <3>2
      <3>4. Tail(r) = Rest(d, k + 1)
        BY SMTT(30), <1>3, <3>1, <3>3, RestIs
      <3> QED BY <3>3, <3>4
    <2>2. CASE \E k \in 0..Len(L[h]) : Tail(r) = Rest(d, k)
      BY <2>2, <1>3
    <2> QED BY <2>1, <2>2, <1>2 DEF LoopOK, LeftOf, d, r, h
  <1>7. to = At(h, r, 2)
    <2>1. CASE w.safe
      BY <2>1, <1>2, <1>5 DEF LoopOK, Lists!NextOf, to, r, h
    <2>2. CASE ~w.safe
      <3>1. PICK l \in 0..Len(d) : r = Rest(d, l)
        BY <2>2, <1>2, <1>3 DEF LoopOK, LeftOf, d, r, h
      <3>2. Len(r) = Len(d) - l /\ \A j \in 1..Len(d) - l : r[j] = d[l + j] /\ l + j \in 1..Len(d)
        <4>1. /\ Len(Rest(d, l)) = Len(d) - l
              /\ \A j \in 1..Len(d) - l : Rest(d, l)[j] = d[l + j] /\ l + j \in 1..Len(d)
          BY <1>3, RestIs
        <4> QED BY <3>1, <4>1
      <3>3. l + 1 \in 0..Len(d) /\ l + 1 \in 1..Len(d) /\ (l + 1) + 1 = l + 2 /\ 1 \in 1..Len(d) - l
        BY <1>3, <1>5, <3>2
      <3>4. At(h, d, l + 1) = w.pos
        BY <1>5, <3>2, <3>3 DEF At
      <3>5. At(h, d, l + 2) = At(h, r, 2)
        <4>1. (2 \in 1..Len(r)) = (l + 2 \in 1..Len(d))
          BY <1>3, <3>2
        <4>2. 2 \in 1..Len(r) => r[2] = d[l + 2]
          BY <3>2
        <4> QED BY <4>1, <4>2 DEF At
      <3>6. mem[<<At(h, d, l + 1), w.field>>] = At(h, d, (l + 1) + 1)
        BY <1>3, <3>3
      <3>7. to = mem[<<w.pos, w.field>>]
        BY <2>2 DEF to, Lists!NextOf, Lists!Step
      <3> QED BY <3>3, <3>4, <3>5, <3>6, <3>7
    <2> QED BY <2>1, <2>2
  <1> DEFINE t == Tail(r)
             ah == IF walk.safe /\ to \in Lists!Places THEN Lists!Step(mem, to, walk.field) ELSE Null
  <1>8. t \in Seq(Nodes) /\ Len(t) = Len(r) - 1 /\ \A j \in 1..Len(t) : t[j] = r[j + 1]
    BY <1>2, <1>5 DEF r
  <1> HIDE DEF t
  <1>9. to = At(h, t, 1) /\ to \in Lists!Places
    <2>1. (2 \in 1..Len(r)) = (1 \in 1..Len(t))
      BY <1>5, <1>8
    <2>2. 1 \in 1..Len(t) => t[1] = r[2] /\ t[1] \in Nodes
      BY <1>8
    <2> QED BY <1>2, <1>7, <2>1, <2>2 DEF At, Lists!Places
  <1>10. ah \in Lists!Places \cup {Null, Poison}
    <2>1. <<to, walk.field>> \in Lists!Cells
      BY <1>2, <1>9 DEF Lists!Cells
    <2> QED BY <1>1, <2>1 DEF Memories, Lists!Step
  <1>11. walk.safe /\ t # <<>> => ah = At(h, t, 2)
    <2> SUFFICES ASSUME walk.safe, t # <<>> PROVE ah = At(h, t, 2)
      OBVIOUS
    <2>1. Len(t) = Len(d) - k /\ \A j \in 1..Len(d) - k : t[j] = d[k + j] /\ k + j \in 1..Len(d)
      <3>1. /\ Len(Rest(d, k)) = Len(d) - k
            /\ \A j \in 1..Len(d) - k : Rest(d, k)[j] = d[k + j] /\ k + j \in 1..Len(d)
        BY SMTT(30), <1>3, RestIs
      <3>2. t = Rest(d, k)
        BY <1>6 DEF t
      <3> QED BY <3>1, <3>2
    <2>2. 1 \in 1..Len(t)
      <3>1. Len(t) # 0
        BY <1>8
      <3> QED BY <3>1, <1>8, <1>5
    <2>3. k + 1 \in 0..Len(d) /\ k + 1 \in 1..Len(d) /\ (k + 1) + 1 = k + 2
      BY <1>3, <2>1, <2>2
    <2>4. At(h, d, k + 1) = to
      BY <1>9, <2>1, <2>2, <2>3 DEF At
    <2>5. At(h, d, k + 2) = At(h, t, 2)
      <3>1. (2 \in 1..Len(t)) = (k + 2 \in 1..Len(d))
        BY <1>3, <2>1
      <3>2. 2 \in 1..Len(t) => t[2] = d[k + 2]
        BY <2>1
      <3> QED BY <3>1, <3>2 DEF At
    <2>6. mem[<<At(h, d, k + 1), w.field>>] = At(h, d, (k + 1) + 1)
      BY <1>3, <2>3
    <2> QED BY <1>9, <2>3, <2>4, <2>5, <2>6 DEF Lists!Step
  <1> HIDE DEF ah
  <1>12. walk' = [walk EXCEPT !.pos = to, !.rest = t, !.ahead = ah]
    BY <1>4, <1>5 DEF ah, t
  <1>13. /\ walk' \in LoopsOverLists
         /\ walk'.pos = to /\ walk'.rest = t /\ walk'.ahead = ah
         /\ walk'.head = h /\ walk'.field = walk.field /\ walk'.safe = walk.safe
    BY <1>2, <1>8, <1>9, <1>10, <1>12 DEF LoopsOverLists, h
  <1>14. LeftOf(L, walk')
    <2>1. t = Rest(d, k) /\ k \in 0..Len(L[h])
      BY <1>3, <1>6 DEF t
    <2> QED BY <1>13, <2>1 DEF LeftOf, d
  <1>15. LoopOK(L, walk')
    BY <1>9, <1>11, <1>13, <1>14 DEF LoopOK
  <1> QED BY <1>15 DEF WalkOK

\* A safe loop removes the entry that it is at.
LEMMA DeleteVisitedOK ==
    ASSUME NEW L, Holds(mem, L), WalkOK(L), Lists!DeleteVisited
    PROVE  \E K : Holds(mem', K) /\ WalkOK(K)'
  <1> DEFINE w == walk
             h == walk.head
             s == L[h]
             d == InOrder(L, h, w.field)
             r == w.rest
  <1>1. mem \in Memories /\ L \in OnHeads /\ Apart(L)
    BY DEF Holds
  <1>2. /\ LoopOK(L, w) /\ w \in LoopsOverLists /\ h \in Heads /\ w.field \in {"next", "prev"} /\ r \in Seq(Nodes)
        /\ w.pos # h /\ w.safe /\ walk # Lists!NoWalk
    BY DEF WalkOK, LoopOK, LoopsOverLists, Lists!DeleteVisited
  <1>3. /\ d \in Seq(Nodes) /\ Len(d) = Len(s) /\ Len(d) \in Nat
        /\ \A i \in 1..Len(d) : d[i] = IF w.field = "next" THEN s[i] ELSE s[(Len(d) - i) + 1]
    BY SMTT(30), <1>2, OrderIs
  <1>4. r # <<>> /\ w.pos = r[1] /\ Len(r) \in Nat /\ Len(r) >= 1
    <2>1. w.pos = At(h, r, 1)
      BY <1>2 DEF LoopOK
    <2>2. 1 \in 1..Len(r)
      BY <1>2, <2>1 DEF At
    <2> QED BY <1>2, <2>1, <2>2 DEF At
  <1> HIDE DEF d, r
  <1>5. PICK k \in 0..Len(d) : r = Rest(d, k)
    <2>1. OnList(L, r[1])
      BY <1>4, ListsRead DEF Lists!DeleteVisited
    <2> QED BY <2>1, <1>2, <1>3 DEF LoopOK, LeftOf, d, r
  <1>6. k < Len(d) /\ k + 1 \in 1..Len(d) /\ k + 1 \in 0..Len(d)
    <2>1. k # Len(d)
      BY <1>3, <1>4, <1>5, RestIs
    <2> QED BY <1>3, <1>5, <2>1
  <1>7. r[1] = d[k + 1] /\ Tail(r) = Rest(d, k + 1)
    <2>1. 1 \in 1..Len(d) - k
      BY <1>3, <1>6
    <2>2. /\ \A j \in 1..Len(d) - k : Rest(d, k)[j] = d[k + j]
          /\ Tail(Rest(d, k)) = Rest(d, k + 1)
      BY <1>3, <1>6, RestIs
    <2> QED BY <1>5, <2>1, <2>2
  <1> DEFINE i == IF w.field = "next" THEN k + 1 ELSE Len(d) - k
             K == Out(L, h, i)
             e == InOrder(K, h, w.field)
  <1>8. i \in 1..Len(s) /\ s[i] = walk.pos
    <2>1. (Len(d) - (k + 1)) + 1 = Len(d) - k /\ Len(d) - k \in 1..Len(d)
      BY <1>3, <1>6
    <2> QED BY <1>3, <1>4, <1>6, <1>7, <2>1
  <1>9. Holds(mem', K) /\ walk' = walk
    <2>1. Holds(Lists!list_del(mem, s[i]), K)
      BY <1>2, <1>8, DeleteHolds
    <2> QED BY <1>8, <2>1 DEF Lists!DeleteVisited
  <1>10. ~OnList(K, r[1])
    <2>1. LPrev(mem, s[i]) \in Lists!Places /\ LNext(mem, s[i]) \in Lists!Places /\ s[i] \in Lists!Places
      BY <1>2, <1>8, EntryBetween
    <2>2. Unlinked(Lists!list_del(mem, s[i]), mem, s[i], LPrev(mem, s[i]), LNext(mem, s[i]))
      BY <1>1, <2>1, DeletesUnlink
    <2>3. ~OnList(K, s[i])
      BY <1>2, <1>8, <2>2, UnlinkedHolds
    <2> QED BY <2>3, <1>4, <1>8
  <1>11. /\ K[h] = Removed(s, i) /\ K[h] \in Seq(Nodes) /\ Len(K[h]) = Len(s) - 1
         /\ \A j \in 1..Len(s) - 1 : K[h][j] = IF j < i THEN s[j] ELSE s[j + 1]
    <2>1. s \in Seq(Nodes) /\ K[h] = Removed(s, i)
      BY <1>1, <1>2 DEF OnHeads, Out
    <2> HIDE DEF i, s, K
    <2> QED BY <1>8, <2>1, RemovedIs
  <1> HIDE DEF K
  <1>12. /\ e \in Seq(Nodes) /\ Len(e) = Len(d) - 1
         /\ \A j \in 1..Len(e) : e[j] = IF w.field = "next" THEN K[h][j] ELSE K[h][(Len(e) - j) + 1]
    <2>1. /\ e \in Seq(Nodes) /\ Len(e) = Len(K[h])
          /\ \A j \in 1..Len(e) : e[j] = IF w.field = "next" THEN K[h][j] ELSE K[h][(Len(e) - j) + 1]
      <3>1. LET u == InOrder(K, walk.head, walk.field) IN
            /\ u \in Seq(Nodes) /\ Len(u) = Len(K[walk.head])
            /\ \A j \in 1..Len(u) : u[j] = IF walk.field = "next" THEN K[walk.head][j]
                                              ELSE K[walk.head][(Len(u) - j) + 1]
        <4> DEFINE hh == walk.head
                   field == walk.field
        <4>1. hh \in Heads /\ field \in {"next", "prev"} /\ Holds(mem', K)
          BY <1>2, <1>9
        <4> HIDE DEF hh, field
        <4>2. LET u == InOrder(K, hh, field) IN
              /\ u \in Seq(Nodes) /\ Len(u) = Len(K[hh])
              /\ \A j \in 1..Len(u) : u[j] = IF field = "next" THEN K[hh][j] ELSE K[hh][(Len(u) - j) + 1]
          BY ONLY <4>1, OrderIs
        <4> QED BY <4>2 DEF hh, field
      <3> QED BY <3>1
    <2> QED BY <2>1, <1>3, <1>11
  <1> HIDE DEF e, s
  <1>13. k \in 0..Len(e) /\ Tail(r) = Rest(e, k)
    <2>1. k \in 0..Len(e) /\ Len(e) - k = Len(d) - (k + 1)
      BY <1>3, <1>6, <1>12
    <2>2. \A j \in 1..Len(e) - k : e[k + j] = d[(k + 1) + j]
      <3> TAKE j \in 1..Len(e) - k
      <3>1. k + j \in 1..Len(e) /\ (k + 1) + j \in 1..Len(d) /\ k + j \in 1..Len(s) - 1
        BY <1>3, <1>6, <1>12, <2>1
      <3>2. CASE w.field = "next"
        <4>1. e[k + j] = K[h][k + j] /\ ~(k + j < i) /\ (k + j) + 1 = (k + 1) + j
          BY SMTT(30), <3>1, <3>2, <1>12
        <4> QED BY <3>1, <3>2, <4>1, <1>3, <1>11
      <3>3. CASE w.field # "next"
        <4> DEFINE l == (Len(e) - (k + j)) + 1
        <4>1. l = Len(d) - (k + j) /\ l < i /\ l \in 1..Len(s) - 1 /\ (Len(d) - ((k + 1) + j)) + 1 = l
          BY <3>1, <3>3, <1>3, <1>12, <2>1
        <4>2. e[k + j] = K[h][l]
          BY <3>1, <3>3, <1>12
        <4>3. d[(k + 1) + j] = s[(Len(d) - ((k + 1) + j)) + 1]
          BY <3>1, <3>3, <1>3
        <4> HIDE DEF l, i
        <4> QED BY <4>1, <4>2, <4>3, <1>11
      <3> QED BY <3>2, <3>3
    <2>3. Rest(e, k) = Rest(d, k + 1)
      BY <2>1, <2>2 DEF Rest
    <2> QED BY <2>1, <2>3, <1>7
  <1>14. LeftOf(K, walk)
    <2>1. k \in 0..Len(K[h])
      BY <1>3, <1>11, <1>12, <1>13
    <2> QED BY <2>1, <1>2, <1>4, <1>10, <1>13 DEF LeftOf, e, r
  <1>15. LoopOK(K, walk)
    BY <1>2, <1>14 DEF LoopOK
  <1> QED BY <1>9, <1>15 DEF WalkOK

LEMMA WalkKeeps ==
    ASSUME NEW L, Holds(mem, L), WalkOK(L), [Lists!Next]_(Lists!vars)
    PROVE  \E K : Holds(mem', K) /\ WalkOK(K)'
  <1>1. CASE UNCHANGED <<mem, walk>>
    BY <1>1 DEF WalkOK
  <1>2. CASE walk' = Lists!NoWalk
    <2>1. PICK K : SeqStep(K)
      BY ListsStep
    <2> QED BY <2>1, <1>2 DEF SeqStep, WalkOK
  <1>3. ASSUME NEW h \in Heads, NEW field \in {"next", "prev"}, NEW safe \in BOOLEAN, Lists!StartWalk(h, field, safe)
        PROVE  \E K : Holds(mem', K) /\ WalkOK(K)'
    <2>1. WalkOK(L)'
      BY <1>3, StartOK
    <2>2. mem' = mem
      BY <1>3 DEF Lists!StartWalk
    <2> QED BY <2>1, <2>2
  <1>4. CASE Lists!Visit
    <2>1. WalkOK(L)'
      BY <1>4, VisitOK
    <2>2. mem' = mem
      BY <1>4 DEF Lists!Visit
    <2> QED BY <2>1, <2>2
  <1>5. CASE Lists!DeleteVisited
    BY <1>5, DeleteVisitedOK
  <1>6. CASE \/ \E n \in Nodes, h \in Heads : Lists!Add(n, h) \/ Lists!AddTail(n, h) \/ Lists!Move(n, h) \/ Lists!MoveTail(n, h)
             \/ \E n \in Nodes : Lists!Delete(n)
             \/ \E n, new \in Nodes : Lists!Replace(n, new)
             \/ \E h, g \in Heads : Lists!Splice(h, g)
    <2>1. walk' = Lists!NoWalk
      BY <1>6 DEF Lists!Add, Lists!AddTail, Lists!Move, Lists!MoveTail, Lists!Delete, Lists!Replace, Lists!Splice, Lists!Idle
    <2> QED BY <2>1, <1>2
  <1>7. CASE Lists!EndWalk
    BY <1>7, <1>2 DEF Lists!EndWalk
  <1> QED BY <1>1, <1>3, <1>4, <1>5, <1>6, <1>7 DEF Lists!Next, Lists!vars

LEMMA ListsAgree ==
    ASSUME NEW L, Holds(mem, L), WalkOK(L)
    PROVE  Lists!ListTypeOK /\ Lists!PointersAgree
  <1>1. Lists!ListTypeOK
    BY DEF Holds, Memories, Lists!ListTypeOK
  <1>2. ASSUME NEW h \in Heads
        PROVE  /\ Lists!Entries(mem, h, "prev") = Lists!Reverse(Lists!Forward(h))
               /\ Lists!list_empty(mem, h) = Lists!list_empty_careful(mem, h)
               /\ Lists!list_empty(mem, h) = (Lists!Forward(h) = <<>>)
    <2>1. Lists!Forward(h) = L[h] /\ Lists!Entries(mem, h, "prev") = Lists!Reverse(L[h])
      BY EntriesAre DEF Lists!Forward
    <2>2. L[h] \in Seq(Nodes) /\ Len(L[h]) \in Nat
      BY DEF Holds, OnHeads
    <2>3. mem[Lists!next(h)] = At(h, L[h], 1) /\ mem[Lists!prev(h)] = At(h, L[h], Len(L[h]))
      <3>1. LNext(mem, At(h, L[h], 0)) = At(h, L[h], 0 + 1)
        BY <2>2, Neighbours
      <3>2. LPrev(mem, At(h, L[h], Len(L[h]) + 1)) = At(h, L[h], Len(L[h]))
        BY <2>2, Neighbours
      <3>3. At(h, L[h], 0) = h /\ At(h, L[h], Len(L[h]) + 1) = h
        BY <2>2 DEF At
      <3> QED BY SMTT(30), <3>1, <3>2, <3>3 DEF LNext, LPrev, Lists!next, Lists!prev
    <2>4. CASE L[h] = <<>>
      <3>1. At(h, L[h], 1) = h /\ At(h, L[h], Len(L[h])) = h
        BY <2>4 DEF At
      <3> QED BY <3>1, <2>1, <2>3, <2>4 DEF Lists!list_empty, Lists!list_empty_careful
    <2>5. CASE L[h] # <<>>
      <3>1. 1 \in 1..Len(L[h])
        <4>1. Len(L[h]) # 0
          BY <2>2, <2>5
        <4> QED BY <4>1, <2>2
      <3>2. At(h, L[h], 1) # h
        BY <3>1, <2>2, HeadsAreNoNodes DEF At
      <3> QED BY <3>2, <2>1, <2>3, <2>5 DEF Lists!list_empty, Lists!list_empty_careful
    <2> QED BY <2>1, <2>4, <2>5
  <1>3. ASSUME walk # Lists!NoWalk
        PROVE  walk.pos = IF walk.rest = <<>> THEN walk.head ELSE Head(walk.rest)
    <2>1. walk.pos = At(walk.head, walk.rest, 1) /\ walk.rest \in Seq(Nodes)
      BY <1>3 DEF WalkOK, LoopOK, LoopsOverLists
    <2>2. CASE walk.rest = <<>>
      BY <2>1, <2>2 DEF At
    <2>3. CASE walk.rest # <<>>
      <3>1. 1 \in 1..Len(walk.rest)
        <4>1. Len(walk.rest) # 0 /\ Len(walk.rest) \in Nat
          BY <2>1, <2>3
        <4> QED BY <4>1
      <3> QED BY <2>1, <2>3, <3>1 DEF At
    <2> QED BY <2>2, <2>3
  <1> QED BY <1>1, <1>2, <1>3 DEF Lists!PointersAgree

\* The inductive invariant of the lists with the loop.
WalkInv == \E L \in OnHeads : Holds(mem, L) /\ WalkOK(L)

LEMMA ListsHoldTogether == Lists!Spec => [](Lists!ListTypeOK /\ Lists!PointersAgree)
  <1>1. Lists!Init => WalkInv
    <2> SUFFICES ASSUME Lists!Init PROVE WalkInv
      OBVIOUS
    <2>1. Holds(mem, [h \in Heads |-> <<>>])
      BY ListsBegin
    <2> QED BY <2>1 DEF WalkInv, Holds, WalkOK, Lists!Init
  <1>2. WalkInv /\ [Lists!Next]_(Lists!vars) => WalkInv'
    <2> SUFFICES ASSUME WalkInv, [Lists!Next]_(Lists!vars) PROVE WalkInv'
      OBVIOUS
    <2>1. PICK L \in OnHeads : Holds(mem, L) /\ WalkOK(L)
      BY DEF WalkInv
    <2>2. PICK K : Holds(mem', K) /\ WalkOK(K)'
      BY <2>1, WalkKeeps
    <2> QED BY <2>2 DEF WalkInv, Holds
  <1>3. WalkInv => Lists!ListTypeOK /\ Lists!PointersAgree
    BY ListsAgree DEF WalkInv
  <1> QED BY <1>1, <1>2, <1>3, PTL DEF Lists!Spec

------------------------------------------------------------------------------
(* Chains of pointers.  A chain is a list whose head points to its first   *)
(* entry only: a ghost of it, a list with both pointers everywhere, says   *)
(* what its own pointers are.                                              *)

\* The cell that points to what follows.
Link(x) == IF x \in Heads THEN Chained!first(x) ELSE Chained!next(x)

ChainMemories ==
    {c \in [Chained!Cells -> Nodes \cup Chained!Links \cup {Null}] :
        \A d \in Chained!Cells : c[d] \in (IF d \in Chained!Links THEN Nodes ELSE Chained!Links) \cup {Null}}
Writes == {w \in Chained!Cells \X (Nodes \cup Chained!Links \cup {Null}) :
              w[2] \in (IF w[1] \in Chained!Links THEN Nodes ELSE Chained!Links) \cup {Null}}

LEMMA ChainCells ==
    /\ \A x \in Lists!Places : Link(x) \in Chained!Links /\ Link(x) \in Chained!Cells
    /\ \A n \in Nodes : /\ Chained!next(n) = Link(n)
                        /\ Chained!pprev(n) \in Chained!Cells /\ Chained!pprev(n) \notin Chained!Links
    /\ \A h \in Heads : Chained!first(h) = Link(h)
    /\ \A d \in Chained!Cells : d \in Chained!Links \/ \E n \in Nodes : d = Chained!pprev(n)
    /\ \A d \in Chained!Links : \E x \in Lists!Places : d = Link(x) /\ d[1] = x
  <1>1. \A h \in Heads, n \in Nodes : h # n
    BY HeadsAreNoNodes
  <1>2. \A h \in Heads : Chained!first(h) = Link(h) /\ Chained!first(h) \in Chained!Links
    BY DEF Link, Chained!first, Chained!Links
  <1>3. \A n \in Nodes : Chained!next(n) = Link(n) /\ Chained!next(n) \in Chained!Links
    BY <1>1 DEF Link, Chained!next, Chained!Links
  <1>4. \A n \in Nodes : Chained!pprev(n) \in Chained!Cells /\ Chained!pprev(n) \notin Chained!Links
    BY DEF Chained!pprev, Chained!Cells, Chained!Links
  <1>5. \A d \in Chained!Cells : d \in Chained!Links \/ \E n \in Nodes : d = Chained!pprev(n)
    BY DEF Chained!pprev, Chained!Cells
  <1>6. \A d \in Chained!Links : \E x \in Lists!Places : d = Link(x) /\ d[1] = x
    <2> TAKE d \in Chained!Links
    <2>1. CASE d \in Heads \X {"first"}
      <3>1. PICK h \in Heads : d = <<h, "first">>
        BY <2>1
      <3> QED BY <3>1 DEF Link, Chained!first, Lists!Places
    <2>2. CASE d \in Nodes \X {"next"}
      <3>1. PICK n \in Nodes : d = <<n, "next">>
        BY <2>2
      <3> QED BY <3>1, <1>1 DEF Link, Chained!next, Lists!Places
    <2> QED BY <2>1, <2>2 DEF Chained!Links
  <1>7. \A d \in Chained!Links : d \in Chained!Cells
    BY DEF Chained!Cells
  <1> QED BY <1>2, <1>3, <1>4, <1>5, <1>6, <1>7 DEF Lists!Places

LEMMA CellsDiffer ==
    /\ \A x, y \in Lists!Places : Link(x) = Link(y) => x = y
    /\ \A n, k \in Nodes : Chained!pprev(n) = Chained!pprev(k) => n = k
    /\ \A x \in Lists!Places, n \in Nodes : Link(x) # Chained!pprev(n)
  BY DEF Link, Chained!first, Chained!next, Chained!pprev

\* What is written is there, unless it is written again.
LEMMA OneWritten ==
    ASSUME NEW c \in ChainMemories, NEW w \in Writes
    PROVE  /\ Assigned(c, w[1], w[2]) \in ChainMemories
           /\ Assigned(c, w[1], w[2])[w[1]] = w[2]
           /\ \A d \in Chained!Cells : d # w[1] => Assigned(c, w[1], w[2])[d] = c[d]
  BY DEF Assigned, ChainMemories, Writes

LEMMA ChainPutIs ==
    ASSUME NEW m \in ChainMemories, NEW ws \in Seq(Writes)
    PROVE  \E g : /\ Chained!Put(m, ws) = g[Len(ws)]
                  /\ g[0] = m
                  /\ \A i \in 1..Len(ws) : g[i] = Assigned(g[i - 1], ws[i][1], ws[i][2])
  <1> DEFINE n == Len(ws)
             F == [i \in Nat |-> [x \in ChainMemories |-> IF i \in 1..n THEN Assigned(x, ws[i][1], ws[i][2]) ELSE x]]
  <1>1. F \in [Nat -> [ChainMemories -> ChainMemories]]
    <2>1. ASSUME NEW i \in 1..n, NEW x \in ChainMemories PROVE Assigned(x, ws[i][1], ws[i][2]) \in ChainMemories
      <3>1. ws[i] \in Writes
        OBVIOUS
      <3> QED BY <3>1, OneWritten
    <2> QED BY <2>1
  <1>2. n \in Nat
    OBVIOUS
  <1> HIDE DEF F
  <1>3. PICK f \in [0..n -> ChainMemories] : IsLoop(f, m, F, 0..n)
    BY <1>1, <1>2, Loop
  <1>4. f = [i \in 0..n |-> IF i = 0 THEN m ELSE [f[i - 1] EXCEPT ![ws[i][1]] = ws[i][2]]]
    <2>1. ASSUME NEW i \in 0..n
          PROVE  (IF i = 0 THEN m ELSE F[i][f[i - 1]]) = IF i = 0 THEN m ELSE [f[i - 1] EXCEPT ![ws[i][1]] = ws[i][2]]
      <3>1. i # 0 => i \in Nat /\ i \in 1..n /\ f[i - 1] \in ChainMemories
        BY <1>2
      <3> QED BY <3>1 DEF F, Assigned
    <2> QED BY <1>3, <2>1 DEF IsLoop
  <1> HIDE DEF n
  <1> DEFINE after == CHOOSE g : g = [i \in 0..n |-> IF i = 0 THEN m ELSE [g[i - 1] EXCEPT ![ws[i][1]] = ws[i][2]]]
  <1>5. Chained!Put(m, ws) = after[n]
    BY SMTT(30) DEF Chained!Put, n
  <1>6. after = [i \in 0..n |-> IF i = 0 THEN m ELSE [after[i - 1] EXCEPT ![ws[i][1]] = ws[i][2]]]
    BY <1>4
  <1> HIDE DEF after
  <1>7. after[0] = m
    BY <1>2, <1>6
  <1>8. \A i \in 1..n : after[i] = Assigned(after[i - 1], ws[i][1], ws[i][2])
    <2> TAKE i \in 1..n
    <2>1. i \in 0..n /\ i # 0
      BY <1>2
    <2>2. after[i] = [after[i - 1] EXCEPT ![ws[i][1]] = ws[i][2]]
      BY <1>6, <2>1
    <2> QED BY <2>2 DEF Assigned
  <1> QED BY <1>5, <1>7, <1>8 DEF n

\* Writes to cells that differ are all there in the end.
LEMMA PutsThere ==
    ASSUME NEW m \in ChainMemories, NEW ws \in Seq(Writes),
           \A i, j \in 1..Len(ws) : ws[i][1] = ws[j][1] => i = j
    PROVE  LET c == Chained!Put(m, ws) IN
           /\ c \in ChainMemories
           /\ \A i \in 1..Len(ws) : c[ws[i][1]] = ws[i][2]
           /\ \A d \in Chained!Cells : (\A i \in 1..Len(ws) : ws[i][1] # d) => c[d] = m[d]
  <1>1. PICK g : /\ Chained!Put(m, ws) = g[Len(ws)]
                 /\ g[0] = m
                 /\ \A i \in 1..Len(ws) : g[i] = Assigned(g[i - 1], ws[i][1], ws[i][2])
    BY ChainPutIs
  <1>2. Len(ws) \in Nat /\ \A i \in 1..Len(ws) : ws[i] \in Writes /\ ws[i][1] \in Chained!Cells
    BY DEF Writes
  <1> DEFINE N == {k \in Nat : k <= Len(ws) =>
                     /\ g[k] \in ChainMemories
                     /\ \A i \in 1..k : g[k][ws[i][1]] = ws[i][2]
                     /\ \A d \in Chained!Cells : (\A i \in 1..k : ws[i][1] # d) => g[k][d] = m[d]}
  <1>3. 0 \in N
    BY <1>1
  <1>4. ASSUME NEW k \in Nat, k \in N PROVE k + 1 \in N
    <2> SUFFICES ASSUME k + 1 <= Len(ws)
                 PROVE  /\ g[k + 1] \in ChainMemories
                        /\ \A i \in 1..k + 1 : g[k + 1][ws[i][1]] = ws[i][2]
                        /\ \A d \in Chained!Cells : (\A i \in 1..k + 1 : ws[i][1] # d) => g[k + 1][d] = m[d]
      OBVIOUS
    <2> DEFINE w == ws[k + 1]
    <2>1. k + 1 \in 1..Len(ws) /\ (k + 1) - 1 = k
      BY <1>2
    <2>2. w \in Writes /\ g[k + 1] = Assigned(g[k], w[1], w[2])
      BY <1>1, <1>2, <2>1
    <2>3. /\ g[k] \in ChainMemories
          /\ \A i \in 1..k : g[k][ws[i][1]] = ws[i][2]
          /\ \A d \in Chained!Cells : (\A i \in 1..k : ws[i][1] # d) => g[k][d] = m[d]
      BY <1>2, <1>4
    <2> HIDE DEF N, w
    <2>4. /\ g[k + 1] \in ChainMemories
          /\ g[k + 1][w[1]] = w[2]
          /\ \A d \in Chained!Cells : d # w[1] => g[k + 1][d] = g[k][d]
      <3>1. ASSUME NEW x \in ChainMemories
            PROVE  /\ Assigned(x, w[1], w[2]) \in ChainMemories
                   /\ Assigned(x, w[1], w[2])[w[1]] = w[2]
                   /\ \A d \in Chained!Cells : d # w[1] => Assigned(x, w[1], w[2])[d] = x[d]
        BY <2>2, OneWritten
      <3> QED BY <2>2, <2>3, <3>1
    <2>5. ASSUME NEW i \in 1..k + 1 PROVE g[k + 1][ws[i][1]] = ws[i][2]
      <3>1. CASE i = k + 1
        BY <2>4, <3>1 DEF w
      <3>2. CASE i # k + 1
        <4>1. i \in 1..k /\ i \in 1..Len(ws)
          BY <1>2, <3>2, <2>1
        <4>2. ws[i][1] # w[1] /\ ws[i][1] \in Chained!Cells
          BY <1>2, <2>1, <3>2, <4>1 DEF w
        <4> QED BY <2>3, <2>4, <4>1, <4>2
      <3> QED BY <3>1, <3>2
    <2>6. ASSUME NEW d \in Chained!Cells, \A i \in 1..k + 1 : ws[i][1] # d PROVE g[k + 1][d] = m[d]
      <3>1. d # w[1] /\ \A i \in 1..k : ws[i][1] # d
        BY <2>1, <2>6 DEF w
      <3> QED BY <2>3, <2>4, <3>1
    <2> QED BY <2>4, <2>5, <2>6
  <1> HIDE DEF N
  <1>5. Nat \subseteq N
    BY <1>3, <1>4, Induct
  <1> QED BY <1>1, <1>2, <1>5 DEF N

LEMMA PutsThree ==
    ASSUME NEW m \in ChainMemories, NEW u \in Writes, NEW v \in Writes, NEW w \in Writes,
           u[1] # v[1], u[1] # w[1], v[1] # w[1]
    PROVE  LET c == Chained!Put(m, <<u, v, w>>) IN
           /\ c \in ChainMemories /\ c[u[1]] = u[2] /\ c[v[1]] = v[2] /\ c[w[1]] = w[2]
           /\ \A d \in Chained!Cells : d \notin {u[1], v[1], w[1]} => c[d] = m[d]
  <1> DEFINE ws == <<u, v, w>>
             c == Chained!Put(m, ws)
  <1>1. ws \in Seq(Writes) /\ Len(ws) = 3 /\ ws[1] = u /\ ws[2] = v /\ ws[3] = w
    OBVIOUS
  <1>2. 1..3 = {1, 2, 3}
    OBVIOUS
  <1> HIDE DEF ws
  <1>3. \A i, j \in 1..Len(ws) : ws[i][1] = ws[j][1] => i = j
    BY <1>1, <1>2
  <1>4. /\ c \in ChainMemories
        /\ \A i \in 1..Len(ws) : c[ws[i][1]] = ws[i][2]
        /\ \A d \in Chained!Cells : (\A i \in 1..Len(ws) : ws[i][1] # d) => c[d] = m[d]
    BY <1>1, <1>3, PutsThere
  <1> HIDE DEF c
  <1>5. c[u[1]] = u[2] /\ c[v[1]] = v[2] /\ c[w[1]] = w[2]
    BY <1>1, <1>2, <1>4
  <1>6. \A d \in Chained!Cells : d \notin {u[1], v[1], w[1]} => c[d] = m[d]
    BY <1>1, <1>2, <1>4
  <1> QED BY <1>4, <1>5, <1>6 DEF c, ws

LEMMA PutsFour ==
    ASSUME NEW m \in ChainMemories, NEW u \in Writes, NEW v \in Writes, NEW w \in Writes, NEW x \in Writes,
           u[1] # v[1], u[1] # w[1], v[1] # w[1], x[1] \notin {u[1], v[1], w[1]}
    PROVE  LET c == Chained!Put(m, <<u, v, w, x>>) IN
           /\ c \in ChainMemories /\ c[u[1]] = u[2] /\ c[v[1]] = v[2] /\ c[w[1]] = w[2] /\ c[x[1]] = x[2]
           /\ \A d \in Chained!Cells : d \notin {u[1], v[1], w[1], x[1]} => c[d] = m[d]
  <1> DEFINE ws == <<u, v, w, x>>
             c == Chained!Put(m, ws)
  <1>1. ws \in Seq(Writes) /\ Len(ws) = 4 /\ ws[1] = u /\ ws[2] = v /\ ws[3] = w /\ ws[4] = x
    OBVIOUS
  <1>2. 1..4 = {1, 2, 3, 4}
    OBVIOUS
  <1> HIDE DEF ws
  <1>3. \A i, j \in 1..Len(ws) : ws[i][1] = ws[j][1] => i = j
    BY <1>1, <1>2
  <1>4. /\ c \in ChainMemories
        /\ \A i \in 1..Len(ws) : c[ws[i][1]] = ws[i][2]
        /\ \A d \in Chained!Cells : (\A i \in 1..Len(ws) : ws[i][1] # d) => c[d] = m[d]
    BY <1>1, <1>3, PutsThere
  <1> HIDE DEF c
  <1>5. c[u[1]] = u[2] /\ c[v[1]] = v[2] /\ c[w[1]] = w[2] /\ c[x[1]] = x[2]
    BY <1>1, <1>2, <1>4
  <1>6. \A d \in Chained!Cells : d \notin {u[1], v[1], w[1], x[1]} => c[d] = m[d]
    BY <1>1, <1>2, <1>4
  <1> QED BY <1>4, <1>5, <1>6 DEF c, ws

Shown(y) == IF y \in Heads THEN Null ELSE y
Live(L, x) == x \in Heads \/ OnList(L, x)
Mirrors(c, m, L) ==
    /\ c \in ChainMemories /\ Holds(m, L)
    /\ \A x \in Lists!Places : Live(L, x) => c[Link(x)] = Shown(LNext(m, x))
    /\ \A n \in Nodes : c[Chained!pprev(n)] = IF OnList(L, n) THEN Link(LPrev(m, n)) ELSE Null

\* A node is hooked in behind a cell, or unhooked.
Hooked(c2, c, n, l) ==
    /\ c2 \in ChainMemories
    /\ \A d \in Chained!Cells :
          c2[d] = IF d = l THEN n
                  ELSE IF d = Chained!next(n) THEN c[l]
                  ELSE IF d = Chained!pprev(n) THEN l
                  ELSE IF c[l] # Null /\ d = Chained!pprev(c[l]) THEN Chained!next(n)
                  ELSE c[d]
Unhooked(c2, c, n) ==
    LET l == c[Chained!pprev(n)]
        a == c[Chained!next(n)]
    IN /\ c2 \in ChainMemories
       /\ \A d \in Chained!Cells : d # Chained!next(n) =>
             c2[d] = IF d = l THEN a
                     ELSE IF d = Chained!pprev(n) THEN Null
                     ELSE IF a # Null /\ d = Chained!pprev(a) THEN l
                     ELSE c[d]

LEMMA NullIsNoPlace == \A x \in Lists!Places : x # Null
  BY ListsAssumption DEF Lists!ListAssumption, Lists!Places

LEMMA OnListIn ==
    ASSUME NEW L \in OnHeads, NEW h \in Heads, NEW i \in 0..Len(L[h]), NEW n \in Nodes
    PROVE  \A x : OnList([L EXCEPT ![h] = Inserted(@, i, n)], x) = (x = n \/ OnList(L, x))
  <1> DEFINE s == L[h]
             t == Inserted(s, i, n)
             K == [L EXCEPT ![h] = t]
  <1>1. s \in Seq(Nodes) /\ Len(s) \in Nat /\ i \in 0..Len(s)
    BY DEF OnHeads
  <1>2. Len(t) = Len(s) + 1 /\ \A j \in 1..Len(s) + 1 : t[j] = IF j <= i THEN s[j] ELSE IF j = i + 1 THEN n ELSE s[j - 1]
    <2>1. t \in [1..Len(s) + 1 -> Nodes]
      BY <1>1 DEF Inserted
    <2>2. Len(s) + 1 \in Nat
      BY <1>1
    <2> QED BY <2>1, <2>2 DEF Inserted
  <1>3. K[h] = t /\ \A g \in Heads : g # h => K[g] = L[g]
    BY DEF OnHeads
  <1> TAKE x
  <1> HIDE DEF s, t, K
  <1>4. (\E j \in 1..Len(t) : t[j] = x) = (x = n \/ \E j \in 1..Len(s) : s[j] = x)
    <2>1. ASSUME NEW j \in 1..Len(t), t[j] = x PROVE x = n \/ \E k \in 1..Len(s) : s[k] = x
      <3>1. j <= i => j \in 1..Len(s)
        BY <1>1, <1>2
      <3>2. ~(j <= i) /\ j # i + 1 => j - 1 \in 1..Len(s)
        BY <1>1, <1>2
      <3> QED BY <2>1, <1>2, <3>1, <3>2
    <2>2. ASSUME x = n PROVE \E j \in 1..Len(t) : t[j] = x
      <3>1. i + 1 \in 1..Len(t) /\ ~(i + 1 <= i)
        BY <1>1, <1>2
      <3> QED BY <2>2, <3>1, <1>2
    <2>3. ASSUME NEW k \in 1..Len(s), s[k] = x PROVE \E j \in 1..Len(t) : t[j] = x
      <3>1. CASE k <= i
        <4>1. k \in 1..Len(t)
          BY <1>1, <1>2
        <4> QED BY <2>3, <3>1, <4>1, <1>2
      <3>2. CASE k > i
        <4>1. k + 1 \in 1..Len(t) /\ ~(k + 1 <= i) /\ k + 1 # i + 1 /\ (k + 1) - 1 = k
          BY <1>1, <1>2, <3>2
        <4> QED BY <2>3, <4>1, <1>2
      <3> QED BY <3>1, <3>2, <1>1
    <2> QED BY <2>1, <2>2, <2>3
  <1> QED BY <1>3, <1>4 DEF OnList, K, t, s

LEMMA OnListOut ==
    ASSUME NEW L \in OnHeads, NEW h \in Heads, NEW i \in 1..Len(L[h])
    PROVE  \A x : x # L[h][i] => OnList(Out(L, h, i), x) = OnList(L, x)
  <1> DEFINE s == L[h]
             n == L[h][i]
             t == Removed(s, i)
             K == Out(L, h, i)
  <1>1. s \in Seq(Nodes) /\ Len(s) \in Nat /\ i \in 1..Len(s) /\ n = s[i]
    BY DEF OnHeads
  <1>2. Len(t) = Len(s) - 1 /\ \A j \in 1..Len(s) - 1 : t[j] = IF j < i THEN s[j] ELSE s[j + 1]
    BY <1>1, RemovedIs
  <1>3. K[h] = t /\ \A g \in Heads : g # h => K[g] = L[g]
    BY DEF OnHeads, Out
  <1> HIDE DEF s, t, K, n
  <1> SUFFICES ASSUME NEW x, x # n PROVE OnList(K, x) = OnList(L, x)
    BY DEF K, n
  <1>4. (\E j \in 1..Len(t) : t[j] = x) = (\E j \in 1..Len(s) : s[j] = x)
    <2>1. ASSUME NEW j \in 1..Len(t), t[j] = x PROVE \E k \in 1..Len(s) : s[k] = x
      <3>1. j \in 1..Len(s) /\ j + 1 \in 1..Len(s)
        BY <1>1, <1>2
      <3> QED BY <2>1, <1>2, <3>1
    <2>2. ASSUME NEW k \in 1..Len(s), s[k] = x PROVE \E j \in 1..Len(t) : t[j] = x
      <3>1. k # i
        BY <2>2, <1>1
      <3>2. CASE k < i
        <4>1. k \in 1..Len(t)
          BY <1>1, <1>2, <3>2
        <4> QED BY <2>2, <3>2, <4>1, <1>2
      <3>3. CASE k > i
        <4>1. k - 1 \in 1..Len(t) /\ ~(k - 1 < i) /\ (k - 1) + 1 = k
          BY <1>1, <1>2, <3>3
        <4> QED BY <2>2, <4>1, <1>2
      <3> QED BY <3>1, <3>2, <3>3, <1>1
    <2> QED BY <2>1, <2>2
  <1> QED BY <1>3, <1>4 DEF OnList, s

\* Where a live place is, and what is behind it.
LEMMA LiveIsAt ==
    ASSUME NEW m, NEW L, Holds(m, L), NEW p \in Lists!Places, Live(L, p)
    PROVE  \E h \in Heads : \E i \in 0..Len(L[h]) :
              /\ p = At(h, L[h], i) /\ LNext(m, p) = At(h, L[h], i + 1)
              /\ LPrev(m, LNext(m, p)) = p
              /\ LNext(m, p) \in Lists!Places /\ Live(L, LNext(m, p))
  <1>1. L \in OnHeads /\ \A h \in Heads : Len(L[h]) \in Nat
    BY DEF Holds, OnHeads
  <1>2. \E h \in Heads : \E i \in 0..Len(L[h]) : p = At(h, L[h], i)
    <2>1. CASE p \in Heads
      <3>1. 0 \in 0..Len(L[p]) /\ At(p, L[p], 0) = p
        BY <1>1, <2>1 DEF At
      <3> QED BY <2>1, <3>1
    <2>2. CASE OnList(L, p)
      <3>1. PICK h \in Heads : \E j \in 1..Len(L[h]) : L[h][j] = p
        BY <2>2 DEF OnList
      <3>2. PICK j \in 1..Len(L[h]) : L[h][j] = p
        BY <3>1
      <3>3. j \in 0..Len(L[h]) /\ At(h, L[h], j) = p
        BY <3>2, <1>1 DEF At
      <3> QED BY <3>3
    <2> QED BY <2>1, <2>2 DEF Live
  <1> SUFFICES ASSUME NEW h \in Heads, NEW i \in 0..Len(L[h]), p = At(h, L[h], i)
               PROVE  /\ LNext(m, p) = At(h, L[h], i + 1)
                      /\ LPrev(m, LNext(m, p)) = p
                      /\ LNext(m, p) \in Lists!Places /\ Live(L, LNext(m, p))
    BY <1>2
  <1>3. LNext(m, p) = At(h, L[h], i + 1) /\ LPrev(m, At(h, L[h], i + 1)) = p
    BY Neighbours
  <1>4. At(h, L[h], i + 1) \in Lists!Places /\ Live(L, At(h, L[h], i + 1))
    <2>1. i + 1 \in Int
      BY <1>1
    <2>2. At(h, L[h], i + 1) \in Lists!Places
      BY <1>1, <2>1, AtIsAPlace
    <2> QED BY <2>2 DEF At, Live, OnList
  <1> QED BY <1>3, <1>4

------------------------------------------------------------------------------
(* A node is hooked behind a place of the chain, or unhooked.              *)

LEMMA HookMirrors ==
    ASSUME NEW c, NEW m, NEW L, Mirrors(c, m, L), NEW p \in Lists!Places, Live(L, p),
           NEW n \in Nodes, ~OnList(L, n), NEW c2, Hooked(c2, c, n, Link(p))
    PROVE  \E m2, K : Mirrors(c2, m2, K)
  <1>1. Holds(m, L) /\ m \in Memories /\ L \in OnHeads
    BY DEF Mirrors, Holds
  <1>2. PICK h \in Heads : \E j \in 0..Len(L[h]) :
              /\ p = At(h, L[h], j) /\ LNext(m, p) = At(h, L[h], j + 1)
              /\ LPrev(m, LNext(m, p)) = p
              /\ LNext(m, p) \in Lists!Places /\ Live(L, LNext(m, p))
    BY <1>1, LiveIsAt
  <1>3. PICK i \in 0..Len(L[h]) :
              /\ p = At(h, L[h], i) /\ LNext(m, p) = At(h, L[h], i + 1)
              /\ LPrev(m, LNext(m, p)) = p
              /\ LNext(m, p) \in Lists!Places /\ Live(L, LNext(m, p))
    BY <1>2
  <1> DEFINE q == LNext(m, p)
             m2 == Lists!link_between(m, n, p, q)
             K == [L EXCEPT ![h] = Inserted(@, i, n)]
  <1>4. n # p /\ n # q /\ n \in Lists!Places /\ ~Live(L, n)
    <2>1. ~Live(L, n)
      BY HeadsAreNoNodes DEF Live
    <2> QED BY <2>1, <1>3 DEF Lists!Places
  <1>5. Linked(m2, m, n, p, q)
    BY <1>1, <1>3, <1>4, LinkBetween
  <1>6. \A x : OnList(K, x) = (x = n \/ OnList(L, x))
    BY <1>1, OnListIn
  <1> HIDE DEF m2, K, q
  <1>7. Holds(m2, K)
    <2>1. /\ m2 \in Memories
          /\ \A x \in Lists!Places :
              /\ LNext(m2, x) = IF x = n THEN At(h, L[h], i + 1) ELSE IF x = At(h, L[h], i) THEN n ELSE LNext(m, x)
              /\ LPrev(m2, x) = IF x = n THEN At(h, L[h], i) ELSE IF x = At(h, L[h], i + 1) THEN n ELSE LPrev(m, x)
      BY <1>3, <1>5 DEF Linked, q
    <2> QED BY <1>1, <2>1, Linking DEF K
  <1>8. /\ Link(p) \in Chained!Cells /\ Link(n) \in Chained!Cells /\ Link(n) # Link(p)
        /\ Chained!next(n) = Link(n) /\ Chained!pprev(n) \in Chained!Cells
    BY <1>4, ChainCells, CellsDiffer
  <1>9. c[Link(p)] = Shown(q)
    BY <1>3 DEF Mirrors, q
  <1>10. ASSUME NEW x \in Lists!Places, Live(K, x) PROVE c2[Link(x)] = Shown(LNext(m2, x))
    <2>1. Link(x) \in Chained!Cells /\ \A k \in Nodes : Link(x) # Chained!pprev(k)
      BY ChainCells, CellsDiffer
    <2>2. CASE x = n
      <3>1. c2[Link(n)] = c[Link(p)]
        BY <1>8 DEF Hooked
      <3>2. LNext(m2, n) = q
        BY <1>4, <1>5 DEF Linked
      <3> QED BY <2>2, <3>1, <3>2, <1>9
    <2>3. CASE x = p
      <3>1. c2[Link(p)] = n
        BY <1>8 DEF Hooked
      <3>2. LNext(m2, p) = n
        BY <1>4, <1>5 DEF Linked
      <3> QED BY <2>3, <3>1, <3>2, HeadsAreNoNodes DEF Shown
    <2>4. CASE x # n /\ x # p
      <3>1. Link(x) # Link(n) /\ Link(x) # Link(p)
        BY <1>4, <2>4, CellsDiffer
      <3>2. c[Link(p)] # Null => c[Link(p)] \in Nodes
        BY <1>3, <1>9 DEF Shown, Lists!Places, q
      <3>3. c2[Link(x)] = c[Link(x)]
        BY <2>1, <3>1, <3>2, <1>8 DEF Hooked
      <3>4. LNext(m2, x) = LNext(m, x)
        BY <2>4, <1>5 DEF Linked
      <3>5. Live(L, x)
        BY <1>6, <1>10, <2>4 DEF Live
      <3> QED BY <3>3, <3>4, <3>5 DEF Mirrors
    <2> QED BY <2>2, <2>3, <2>4
  <1>11. ASSUME NEW x \in Nodes PROVE c2[Chained!pprev(x)] = IF OnList(K, x) THEN Link(LPrev(m2, x)) ELSE Null
    <2>1. /\ Chained!pprev(x) \in Chained!Cells /\ Chained!pprev(x) # Link(p) /\ Chained!pprev(x) # Link(n)
          /\ x \in Lists!Places
      BY <1>4, ChainCells, CellsDiffer DEF Lists!Places
    <2>2. CASE x = n
      <3>1. c2[Chained!pprev(n)] = Link(p)
        BY <2>1, <2>2, <1>8 DEF Hooked
      <3>2. LPrev(m2, n) = p
        BY <1>4, <1>5 DEF Linked
      <3> QED BY <2>2, <3>1, <3>2, <1>6
    <2>3. CASE x = q
      <3>1. c[Link(p)] = x /\ x # Null
        BY <2>1, <2>3, <1>9, HeadsAreNoNodes, NullIsNoPlace DEF Shown
      <3>2. Chained!pprev(x) # Chained!pprev(n)
        BY <2>3, <1>4, CellsDiffer
      <3>3. c2[Chained!pprev(x)] = Link(n)
        BY <2>1, <3>1, <3>2, <1>8 DEF Hooked
      <3>4. LPrev(m2, x) = n
        BY <2>1, <2>3, <1>4, <1>5 DEF Linked
      <3>5. OnList(K, x)
        BY <2>3, <1>3, <1>6, HeadsAreNoNodes DEF Live, q
      <3> QED BY <3>3, <3>4, <3>5
    <2>4. CASE x # n /\ x # q
      <3>1. c[Link(p)] # Null => c[Link(p)] = q /\ q \in Nodes
        BY <1>3, <1>9 DEF Shown, Lists!Places, q
      <3>2. Chained!pprev(x) # Chained!pprev(n) /\ (q \in Nodes => Chained!pprev(x) # Chained!pprev(q))
        BY <2>4, CellsDiffer
      <3>3. c2[Chained!pprev(x)] = c[Chained!pprev(x)]
        BY <2>1, <3>1, <3>2, <1>8 DEF Hooked
      <3>4. LPrev(m2, x) = LPrev(m, x)
        BY <2>1, <2>4, <1>5 DEF Linked
      <3>5. OnList(K, x) = OnList(L, x)
        BY <1>6, <2>4 DEF OnList
      <3> QED BY <3>3, <3>4, <3>5 DEF Mirrors
    <2> QED BY <2>2, <2>3, <2>4
  <1>12. c2 \in ChainMemories
    BY DEF Hooked
  <1>13. Mirrors(c2, m2, K)
    BY <1>7, <1>10, <1>11, <1>12 DEF Mirrors
  <1> QED BY <1>13

LEMMA UnhookMirrors ==
    ASSUME NEW c, NEW m, NEW L, Mirrors(c, m, L), NEW n \in Nodes, OnList(L, n), NEW c2, Unhooked(c2, c, n)
    PROVE  \E m2, K : /\ Mirrors(c2, m2, K) /\ ~OnList(K, n)
                      /\ \A x : x # n => OnList(K, x) = OnList(L, x)
  <1>1. Holds(m, L) /\ m \in Memories /\ L \in OnHeads
    BY DEF Mirrors, Holds
  <1>2. PICK h \in Heads : \E j \in 1..Len(L[h]) : L[h][j] = n
    BY DEF OnList
  <1>3. PICK i \in 1..Len(L[h]) : L[h][i] = n
    BY <1>2
  <1> DEFINE p == LPrev(m, n)
             q == LNext(m, n)
             m2 == Lists!list_del(m, n)
             K == Out(L, h, i)
  <1>4. p \in Lists!Places /\ q \in Lists!Places /\ n \in Lists!Places /\ n # p /\ n # q
    BY <1>1, <1>3, EntryBetween
  <1>5. Unlinked(m2, m, n, p, q)
    BY <1>1, <1>4, DeletesUnlink
  <1>6. Holds(m2, K) /\ ~OnList(K, n)
    BY <1>1, <1>3, <1>5, UnlinkedHolds
  <1>7. \A x : x # n => OnList(K, x) = OnList(L, x)
    BY <1>1, <1>3, OnListOut
  <1> HIDE DEF m2, K, p, q
  <1>8. c[Chained!pprev(n)] = Link(p) /\ c[Chained!next(n)] = Shown(q)
    <2>1. c[Link(n)] = Shown(LNext(m, n))
      BY <1>4 DEF Mirrors, Live
    <2> QED BY <2>1, ChainCells DEF Mirrors, p, q
  <1>9. /\ c2 \in ChainMemories
        /\ \A d \in Chained!Cells : d # Link(n) =>
             c2[d] = IF d = Link(p) THEN Shown(q)
                     ELSE IF d = Chained!pprev(n) THEN Null
                     ELSE IF Shown(q) # Null /\ d = Chained!pprev(Shown(q)) THEN Link(p)
                     ELSE c[d]
    BY <1>8, ChainCells DEF Unhooked
  <1>10. q \in Nodes => Shown(q) = q /\ q # Null
    BY <1>4, HeadsAreNoNodes, NullIsNoPlace DEF Shown
  <1>11. Shown(q) # Null => q \in Nodes
    BY <1>4 DEF Shown, Lists!Places
  <1>12. ASSUME NEW x \in Lists!Places, Live(K, x) PROVE c2[Link(x)] = Shown(LNext(m2, x))
    <2>1. Link(x) \in Chained!Cells /\ \A k \in Nodes : Link(x) # Chained!pprev(k)
      BY ChainCells, CellsDiffer
    <2>2. x # n
      BY <1>6, <1>12, HeadsAreNoNodes DEF Live
    <2>3. Link(x) # Link(n)
      BY <1>4, <2>2, CellsDiffer
    <2>4. CASE x = p
      <3>1. LNext(m2, p) = q
        BY <1>4, <1>5 DEF Unlinked
      <3>2. c2[Link(p)] = Shown(q)
        BY <2>1, <2>3, <2>4, <1>9
      <3> QED BY <2>4, <3>1, <3>2
    <2>5. CASE x # p
      <3>1. LNext(m2, x) = LNext(m, x)
        BY <2>2, <2>5, <1>5 DEF Unlinked
      <3>2. Link(x) # Link(p)
        BY <1>4, <2>5, CellsDiffer
      <3>3. c2[Link(x)] = c[Link(x)]
        BY <2>1, <2>3, <3>2, <1>9, <1>10, <1>11
      <3>4. Live(L, x)
        BY <1>7, <1>12, <2>2 DEF Live
      <3> QED BY <3>1, <3>3, <3>4 DEF Mirrors
    <2> QED BY <2>4, <2>5
  <1>13. ASSUME NEW x \in Nodes PROVE c2[Chained!pprev(x)] = IF OnList(K, x) THEN Link(LPrev(m2, x)) ELSE Null
    <2>1. /\ Chained!pprev(x) \in Chained!Cells /\ Chained!pprev(x) # Link(p) /\ Chained!pprev(x) # Link(n)
          /\ x \in Lists!Places
      BY <1>4, ChainCells, CellsDiffer DEF Lists!Places
    <2>2. CASE x = n
      BY <2>1, <2>2, <1>6, <1>9
    <2>3. CASE x = q
      <3>1. Chained!pprev(x) # Chained!pprev(n)
        BY <2>3, <1>4, CellsDiffer
      <3>2. c2[Chained!pprev(x)] = Link(p)
        BY <2>1, <2>3, <3>1, <1>9, <1>10
      <3>3. LPrev(m2, x) = p
        BY <2>1, <2>3, <1>4, <1>5 DEF Unlinked
      <3>4. OnList(K, x)
        <4>1. Live(L, q)
          <5>1. i + 1 \in Int /\ q = At(h, L[h], i + 1)
            BY <1>1, <1>3, EntryBetween DEF q
          <5> QED BY <5>1 DEF At, Live, OnList
        <4> QED BY <2>3, <4>1, <1>4, <1>7, HeadsAreNoNodes DEF Live
      <3> QED BY <3>2, <3>3, <3>4
    <2>4. CASE x # n /\ x # q
      <3>1. Chained!pprev(x) # Chained!pprev(n) /\ (q \in Nodes => Chained!pprev(x) # Chained!pprev(q))
        BY <2>4, CellsDiffer
      <3>2. c2[Chained!pprev(x)] = c[Chained!pprev(x)]
        BY <2>1, <3>1, <1>9, <1>10, <1>11
      <3>3. LPrev(m2, x) = LPrev(m, x)
        BY <2>1, <2>4, <1>5 DEF Unlinked
      <3>4. OnList(K, x) = OnList(L, x)
        BY <1>7, <2>4
      <3> QED BY <3>2, <3>3, <3>4 DEF Mirrors
    <2> QED BY <2>2, <2>3, <2>4
  <1>14. Mirrors(c2, m2, K)
    BY <1>6, <1>9, <1>12, <1>13 DEF Mirrors
  <1> QED BY <1>6, <1>7, <1>14

LEMMA PutsOne ==
    ASSUME NEW m \in ChainMemories, NEW u \in Writes
    PROVE  LET c == Chained!Put(m, <<u>>) IN
           /\ c \in ChainMemories /\ c[u[1]] = u[2]
           /\ \A d \in Chained!Cells : d # u[1] => c[d] = m[d]
  <1> DEFINE ws == <<u>>
             c == Chained!Put(m, ws)
  <1>1. ws \in Seq(Writes) /\ Len(ws) = 1 /\ ws[1] = u
    OBVIOUS
  <1> HIDE DEF ws
  <1>2. \A i, j \in 1..Len(ws) : ws[i][1] = ws[j][1] => i = j
    BY <1>1
  <1>3. /\ c \in ChainMemories
        /\ \A i \in 1..Len(ws) : c[ws[i][1]] = ws[i][2]
        /\ \A d \in Chained!Cells : (\A i \in 1..Len(ws) : ws[i][1] # d) => c[d] = m[d]
    BY <1>1, <1>2, PutsThere
  <1> HIDE DEF c
  <1>4. 1..1 = {1}
    OBVIOUS
  <1>5. c[u[1]] = u[2] /\ \A d \in Chained!Cells : d # u[1] => c[d] = m[d]
    BY <1>1, <1>3, <1>4
  <1> QED BY <1>3, <1>5 DEF c, ws

LEMMA PutsTwo ==
    ASSUME NEW m \in ChainMemories, NEW u \in Writes, NEW v \in Writes, u[1] # v[1]
    PROVE  LET c == Chained!Put(m, <<u, v>>) IN
           /\ c \in ChainMemories /\ c[u[1]] = u[2] /\ c[v[1]] = v[2]
           /\ \A d \in Chained!Cells : d \notin {u[1], v[1]} => c[d] = m[d]
  <1> DEFINE ws == <<u, v>>
             c == Chained!Put(m, ws)
  <1>1. ws \in Seq(Writes) /\ Len(ws) = 2 /\ ws[1] = u /\ ws[2] = v
    OBVIOUS
  <1>2. 1..2 = {1, 2}
    OBVIOUS
  <1> HIDE DEF ws
  <1>3. \A i, j \in 1..Len(ws) : ws[i][1] = ws[j][1] => i = j
    BY <1>1, <1>2
  <1>4. /\ c \in ChainMemories
        /\ \A i \in 1..Len(ws) : c[ws[i][1]] = ws[i][2]
        /\ \A d \in Chained!Cells : (\A i \in 1..Len(ws) : ws[i][1] # d) => c[d] = m[d]
    BY <1>1, <1>3, PutsThere
  <1> HIDE DEF c
  <1>5. c[u[1]] = u[2] /\ c[v[1]] = v[2]
    BY <1>1, <1>2, <1>4
  <1>6. \A d \in Chained!Cells : d \notin {u[1], v[1]} => c[d] = m[d]
    BY <1>1, <1>2, <1>4
  <1> QED BY <1>4, <1>5, <1>6 DEF c, ws

\* The writes that hook a node in, in any order.
ToHook(c, p, n) == <<Link(p), n>>
ToNext(c, p, n) == <<Chained!next(n), c[Link(p)]>>
ToBack(c, p, n) == <<Chained!pprev(n), Link(p)>>
ToBehind(c, p, n) == <<Chained!pprev(c[Link(p)]), Chained!next(n)>>

LEMMA HookWrites ==
    ASSUME NEW c \in ChainMemories, NEW p \in Lists!Places, NEW n \in Nodes, p # n, c[Link(p)] # n
    PROVE  /\ ToHook(c, p, n) \in Writes /\ ToNext(c, p, n) \in Writes /\ ToBack(c, p, n) \in Writes
           /\ c[Link(p)] # Null => ToBehind(c, p, n) \in Writes /\ c[Link(p)] \in Nodes
           /\ ToHook(c, p, n)[1] # ToNext(c, p, n)[1] /\ ToHook(c, p, n)[1] # ToBack(c, p, n)[1]
           /\ ToNext(c, p, n)[1] # ToBack(c, p, n)[1]
           /\ c[Link(p)] # Null => ToBehind(c, p, n)[1] \notin {ToHook(c, p, n)[1], ToNext(c, p, n)[1], ToBack(c, p, n)[1]}
  <1>1. /\ Link(p) \in Chained!Links /\ Link(p) \in Chained!Cells
        /\ Chained!next(n) = Link(n) /\ Link(n) \in Chained!Links /\ Link(n) \in Chained!Cells
        /\ \A k \in Nodes : Chained!pprev(k) \in Chained!Cells /\ Chained!pprev(k) \notin Chained!Links
        /\ n \in Lists!Places
    BY ChainCells DEF Lists!Places
  <1>2. c[Link(p)] \in Nodes \cup {Null}
    BY <1>1 DEF ChainMemories
  <1>3. ToHook(c, p, n) \in Writes /\ ToNext(c, p, n) \in Writes /\ ToBack(c, p, n) \in Writes
    BY <1>1, <1>2 DEF Writes, ToHook, ToNext, ToBack
  <1>4. c[Link(p)] # Null => ToBehind(c, p, n) \in Writes /\ c[Link(p)] \in Nodes
    BY <1>1, <1>2 DEF Writes, ToBehind
  <1>5. /\ ToHook(c, p, n)[1] = Link(p) /\ ToNext(c, p, n)[1] = Link(n) /\ ToBack(c, p, n)[1] = Chained!pprev(n)
        /\ ToBehind(c, p, n)[1] = Chained!pprev(c[Link(p)])
    BY <1>1 DEF ToHook, ToNext, ToBack, ToBehind
  <1>6. Link(p) # Link(n) /\ \A k \in Nodes : Chained!pprev(k) # Link(p) /\ Chained!pprev(k) # Link(n)
    BY <1>1, CellsDiffer
  <1>7. c[Link(p)] # Null => Chained!pprev(c[Link(p)]) # Chained!pprev(n)
    BY <1>2, CellsDiffer
  <1> QED BY <1>3, <1>4, <1>5, <1>6, <1>7

LEMMA HooksThree ==
    ASSUME NEW c \in ChainMemories, NEW p \in Lists!Places, NEW n \in Nodes, p # n, c[Link(p)] = Null,
           NEW u, NEW v, NEW w,
           \/ u = ToNext(c, p, n) /\ v = ToHook(c, p, n) /\ w = ToBack(c, p, n)
           \/ u = ToNext(c, p, n) /\ v = ToBack(c, p, n) /\ w = ToHook(c, p, n)
    PROVE  Hooked(Chained!Put(c, <<u, v, w>>), c, n, Link(p))
  <1> DEFINE c2 == Chained!Put(c, <<u, v, w>>)
  <1>1. n # Null
    BY NullIsNoPlace DEF Lists!Places
  <1>2. u \in Writes /\ v \in Writes /\ w \in Writes /\ u[1] # v[1] /\ u[1] # w[1] /\ v[1] # w[1]
    BY <1>1, HookWrites
  <1>3. /\ c2 \in ChainMemories /\ c2[u[1]] = u[2] /\ c2[v[1]] = v[2] /\ c2[w[1]] = w[2]
        /\ \A d \in Chained!Cells : d \notin {u[1], v[1], w[1]} => c2[d] = c[d]
    BY <1>2, PutsThree
  <1> HIDE DEF c2
  <1>4. /\ c2[Link(p)] = n /\ c2[Chained!next(n)] = c[Link(p)] /\ c2[Chained!pprev(n)] = Link(p)
        /\ \A d \in Chained!Cells : d \notin {Link(p), Chained!next(n), Chained!pprev(n)} => c2[d] = c[d]
    BY <1>3 DEF ToHook, ToNext, ToBack
  <1> HIDE DEF c2
  <1>5. Hooked(c2, c, n, Link(p))
    BY <1>3, <1>4 DEF Hooked
  <1> QED BY <1>5 DEF c2

LEMMA HooksFour ==
    ASSUME NEW c \in ChainMemories, NEW p \in Lists!Places, NEW n \in Nodes, p # n, c[Link(p)] # n, c[Link(p)] # Null,
           NEW u, NEW v, NEW w, NEW x,
           \/ /\ u = ToNext(c, p, n) /\ v = ToBehind(c, p, n) /\ w = ToHook(c, p, n) /\ x = ToBack(c, p, n)
           \/ /\ u = ToNext(c, p, n) /\ v = ToBack(c, p, n) /\ w = ToBehind(c, p, n) /\ x = ToHook(c, p, n)
           \/ /\ u = ToBack(c, p, n) /\ v = ToNext(c, p, n) /\ w = ToBehind(c, p, n) /\ x = ToHook(c, p, n)
           \/ /\ u = ToNext(c, p, n) /\ v = ToHook(c, p, n) /\ w = ToBack(c, p, n) /\ x = ToBehind(c, p, n)
           \/ /\ u = ToNext(c, p, n) /\ v = ToBack(c, p, n) /\ w = ToHook(c, p, n) /\ x = ToBehind(c, p, n)
    PROVE  Hooked(Chained!Put(c, <<u, v, w, x>>), c, n, Link(p))
  <1> DEFINE c2 == Chained!Put(c, <<u, v, w, x>>)
  <1>1. /\ u \in Writes /\ v \in Writes /\ w \in Writes /\ x \in Writes
        /\ u[1] # v[1] /\ u[1] # w[1] /\ v[1] # w[1] /\ x[1] \notin {u[1], v[1], w[1]}
    BY HookWrites
  <1>2. /\ c2 \in ChainMemories /\ c2[u[1]] = u[2] /\ c2[v[1]] = v[2] /\ c2[w[1]] = w[2] /\ c2[x[1]] = x[2]
        /\ \A d \in Chained!Cells : d \notin {u[1], v[1], w[1], x[1]} => c2[d] = c[d]
    BY <1>1, PutsFour
  <1> HIDE DEF c2
  <1>3. /\ c2[Link(p)] = n /\ c2[Chained!next(n)] = c[Link(p)] /\ c2[Chained!pprev(n)] = Link(p)
        /\ c2[Chained!pprev(c[Link(p)])] = Chained!next(n)
        /\ \A d \in Chained!Cells :
              d \notin {Link(p), Chained!next(n), Chained!pprev(n), Chained!pprev(c[Link(p)])} => c2[d] = c[d]
    BY <1>2 DEF ToHook, ToNext, ToBack, ToBehind
  <1>4. Hooked(c2, c, n, Link(p))
    BY <1>2, <1>3 DEF Hooked
  <1> QED BY <1>4 DEF c2

\* Pieces of lists of writes.
LEMMA TupleOf ==
    ASSUME NEW Elts, NEW q \in Seq(Elts)
    PROVE  /\ Len(q) = 2 => q = <<q[1], q[2]>>
           /\ Len(q) = 3 => q = <<q[1], q[2], q[3]>>
           /\ Len(q) = 4 => q = <<q[1], q[2], q[3], q[4]>>
  OBVIOUS
Joins(f, g, h, e) ==
    /\ <<f>> \o <<g>> \o <<h, e>> = <<f, g, h, e>> /\ <<f>> \o <<>> \o <<h, e>> = <<f, h, e>>
    /\ <<f, g>> \o <<h>> \o <<e>> = <<f, g, h, e>> /\ <<f, g>> \o <<>> \o <<e>> = <<f, g, e>>
    /\ <<f, g, h>> \o <<e>> = <<f, g, h, e>> /\ <<f, g, h>> \o <<>> = <<f, g, h>>

LEMMA Tuples ==
    ASSUME NEW f, NEW g, NEW h, NEW e
    PROVE  Joins(f, g, h, e)
  <1> DEFINE Elts == {f, g, h, e}
  <1>1. ASSUME NEW s \in Seq(Elts), NEW t \in Seq(Elts)
        PROVE  /\ s \o t \in Seq(Elts) /\ Len(s \o t) = Len(s) + Len(t)
               /\ \A i \in 1..Len(s) + Len(t) : (s \o t)[i] = IF i <= Len(s) THEN s[i] ELSE t[i - Len(s)]
    OBVIOUS
  <1>2. ASSUME NEW s \in Seq(Elts) PROVE s \o <<>> = s
    OBVIOUS
  <1>3. /\ <<f>> \in Seq(Elts) /\ <<f, g>> \in Seq(Elts) /\ <<f, g, h>> \in Seq(Elts)
        /\ <<g>> \in Seq(Elts) /\ <<h>> \in Seq(Elts) /\ <<e>> \in Seq(Elts) /\ <<h, e>> \in Seq(Elts)
    OBVIOUS
  <1> HIDE DEF Elts
  <1>4. <<f>> \o <<g>> = <<f, g>>
    <2> DEFINE q == <<f>> \o <<g>>
    <2>1. q \in Seq(Elts) /\ Len(q) = 2 /\ q[1] = f /\ q[2] = g
      BY <1>1, <1>2, <1>3
    <2> HIDE DEF q
    <2>2. q = <<f, g>>
      BY <2>1, TupleOf
    <2> QED BY <2>2 DEF q
  <1>5. <<f, g>> \o <<h, e>> = <<f, g, h, e>>
    <2> DEFINE q == <<f, g>> \o <<h, e>>
    <2>1. q \in Seq(Elts) /\ Len(q) = 4 /\ q[1] = f /\ q[2] = g /\ q[3] = h /\ q[4] = e
      BY <1>1, <1>2, <1>3
    <2> HIDE DEF q
    <2>2. q = <<f, g, h, e>>
      BY <2>1, TupleOf
    <2> QED BY <2>2 DEF q
  <1>6. <<f>> \o <<h, e>> = <<f, h, e>>
    <2> DEFINE q == <<f>> \o <<h, e>>
    <2>1. q \in Seq(Elts) /\ Len(q) = 3 /\ q[1] = f /\ q[2] = h /\ q[3] = e
      BY <1>1, <1>2, <1>3
    <2> HIDE DEF q
    <2>2. q = <<f, h, e>>
      BY <2>1, TupleOf
    <2> QED BY <2>2 DEF q
  <1>7. <<f, g>> \o <<h>> = <<f, g, h>>
    <2> DEFINE q == <<f, g>> \o <<h>>
    <2>1. q \in Seq(Elts) /\ Len(q) = 3 /\ q[1] = f /\ q[2] = g /\ q[3] = h
      BY <1>1, <1>2, <1>3
    <2> HIDE DEF q
    <2>2. q = <<f, g, h>>
      BY <2>1, TupleOf
    <2> QED BY <2>2 DEF q
  <1>8. <<f, g, h>> \o <<e>> = <<f, g, h, e>>
    <2> DEFINE q == <<f, g, h>> \o <<e>>
    <2>1. q \in Seq(Elts) /\ Len(q) = 4 /\ q[1] = f /\ q[2] = g /\ q[3] = h /\ q[4] = e
      BY <1>1, <1>2, <1>3
    <2> HIDE DEF q
    <2>2. q = <<f, g, h, e>>
      BY <2>1, TupleOf
    <2> QED BY <2>2 DEF q
  <1>9. <<f, g>> \o <<e>> = <<f, g, e>>
    <2> DEFINE q == <<f, g>> \o <<e>>
    <2>1. q \in Seq(Elts) /\ Len(q) = 3 /\ q[1] = f /\ q[2] = g /\ q[3] = e
      BY <1>1, <1>2, <1>3
    <2> HIDE DEF q
    <2>2. q = <<f, g, e>>
      BY <2>1, TupleOf
    <2> QED BY <2>2 DEF q
  <1>10. <<f>> \o <<>> = <<f>> /\ <<f, g>> \o <<>> = <<f, g>> /\ <<f, g, h>> \o <<>> = <<f, g, h>>
    BY <1>2, <1>3
  <1> QED BY <1>4, <1>5, <1>6, <1>7, <1>8, <1>9, <1>10 DEF Joins

\* The additions hook a node in: at the front, before another and after another.
LEMMA AdditionsHook ==
    ASSUME NEW c \in ChainMemories, NEW p \in Lists!Places, NEW n \in Nodes, p # n, c[Link(p)] # n
    PROVE  /\ p \in Heads => /\ Hooked(Chained!hlist_add_head(c, n, p), c, n, Link(p))
                             /\ Hooked(Chained!hlist_add_head_rcu(c, n, p), c, n, Link(p))
           /\ \A x \in Nodes : c[Chained!pprev(x)] = Link(p) /\ c[Link(p)] = x
                                  => Hooked(Chained!hlist_add_before(c, n, x), c, n, Link(p))
           /\ p \in Nodes => /\ Hooked(Chained!hlist_add_after(c, p, n), c, n, Link(p))
                             /\ Hooked(Chained!hlist_add_after_rcu(c, p, n), c, n, Link(p))
  <1> DEFINE a == c[Link(p)]
             i == ToHook(c, p, n)
             j == ToNext(c, p, n)
             k == ToBack(c, p, n)
             l == ToBehind(c, p, n)
  <1>1. /\ <<j>> \o <<l>> \o <<i, k>> = <<j, l, i, k>> /\ <<j>> \o <<>> \o <<i, k>> = <<j, i, k>>
        /\ <<j, k>> \o <<l>> \o <<i>> = <<j, k, l, i>> /\ <<j, k>> \o <<>> \o <<i>> = <<j, k, i>>
        /\ <<j, i, k>> \o <<l>> = <<j, i, k, l>> /\ <<j, i, k>> \o <<>> = <<j, i, k>>
        /\ <<j, k, i>> \o <<l>> = <<j, k, i, l>> /\ <<j, k, i>> \o <<>> = <<j, k, i>>
    <2> HIDE DEF i, j, k, l
    <2>1. Joins(j, l, i, k) /\ Joins(j, k, l, i) /\ Joins(j, i, k, l) /\ Joins(j, k, i, l)
      BY Tuples
    <2> QED BY <2>1 DEF Joins
  <1>2. p \in Heads => Chained!first(p) = Link(p)
    BY ChainCells
  <1>3. p \in Nodes => Chained!next(p) = Link(p)
    BY ChainCells
  <1>4. ASSUME p \in Heads
        PROVE  /\ Hooked(Chained!hlist_add_head(c, n, p), c, n, Link(p))
               /\ Hooked(Chained!hlist_add_head_rcu(c, n, p), c, n, Link(p))
    <2>1. Chained!hlist_add_head(c, n, p) = Chained!Put(c, IF a = Null THEN <<j, i, k>> ELSE <<j, l, i, k>>)
      <3>1. Chained!hlist_add_head(c, n, p) = Chained!Put(c, <<j>> \o Chained!PutIf(a, l) \o <<i, k>>)
        BY <1>2, <1>4 DEF Chained!hlist_add_head, ToHook, ToNext, ToBack, ToBehind
      <3>2. Chained!PutIf(a, l) = IF a = Null THEN <<>> ELSE <<l>>
        BY DEF Chained!PutIf
      <3> HIDE DEF a, i, j, k, l
      <3> QED BY <1>1, <3>1, <3>2
    <2>2. Chained!hlist_add_head_rcu(c, n, p) = Chained!Put(c, IF a = Null THEN <<j, k, i>> ELSE <<j, k, l, i>>)
      <3>1. Chained!hlist_add_head_rcu(c, n, p) = Chained!Put(c, <<j, k>> \o Chained!PutIf(a, l) \o <<i>>)
        BY <1>2, <1>4 DEF Chained!hlist_add_head_rcu, ToHook, ToNext, ToBack, ToBehind
      <3>2. Chained!PutIf(a, l) = IF a = Null THEN <<>> ELSE <<l>>
        BY DEF Chained!PutIf
      <3> HIDE DEF a, i, j, k, l
      <3> QED BY <1>1, <3>1, <3>2
    <2>3. p \notin Nodes
      BY <1>4, HeadsAreNoNodes
    <2>4. CASE a = Null
      <3>1. Hooked(Chained!Put(c, <<j, i, k>>), c, n, Link(p)) /\ Hooked(Chained!Put(c, <<j, k, i>>), c, n, Link(p))
        BY <2>4, HooksThree
      <3> QED BY <2>1, <2>2, <2>3, <2>4, <3>1
    <2>5. CASE a # Null
      <3>1. Hooked(Chained!Put(c, <<j, l, i, k>>), c, n, Link(p)) /\ Hooked(Chained!Put(c, <<j, k, l, i>>), c, n, Link(p))
        BY <2>5, HooksFour
      <3> QED BY <2>1, <2>2, <2>3, <2>5, <3>1
    <2> QED BY <2>4, <2>5
  <1>5. ASSUME NEW x \in Nodes, c[Chained!pprev(x)] = Link(p), a = x
        PROVE  Hooked(Chained!hlist_add_before(c, n, x), c, n, Link(p))
    <2>1. Chained!hlist_add_before(c, n, x) = Chained!Put(c, <<k, j, l, i>>)
      BY <1>5 DEF Chained!hlist_add_before, ToHook, ToNext, ToBack, ToBehind
    <2>2. x # Null
      BY NullIsNoPlace DEF Lists!Places
    <2> QED BY <1>5, <2>1, <2>2, HooksFour
  <1>6. ASSUME p \in Nodes
        PROVE  /\ Hooked(Chained!hlist_add_after(c, p, n), c, n, Link(p))
               /\ Hooked(Chained!hlist_add_after_rcu(c, p, n), c, n, Link(p))
    <2>1. Chained!hlist_add_after(c, p, n) = Chained!Put(c, IF a = Null THEN <<j, i, k>> ELSE <<j, i, k, l>>)
      <3>1. Chained!hlist_add_after(c, p, n) = Chained!Put(c, <<j, i, k>> \o Chained!PutIf(a, l))
        BY <1>3, <1>6 DEF Chained!hlist_add_after, ToHook, ToNext, ToBack, ToBehind
      <3>2. Chained!PutIf(a, l) = IF a = Null THEN <<>> ELSE <<l>>
        BY DEF Chained!PutIf
      <3> HIDE DEF a, i, j, k, l
      <3> QED BY <1>1, <3>1, <3>2
    <2>2. Chained!hlist_add_after_rcu(c, p, n) = Chained!Put(c, IF a = Null THEN <<j, k, i>> ELSE <<j, k, i, l>>)
      <3>1. Chained!hlist_add_after_rcu(c, p, n) = Chained!Put(c, <<j, k, i>> \o Chained!PutIf(a, l))
        BY <1>3, <1>6 DEF Chained!hlist_add_after_rcu, ToHook, ToNext, ToBack, ToBehind
      <3>2. Chained!PutIf(a, l) = IF a = Null THEN <<>> ELSE <<l>>
        BY DEF Chained!PutIf
      <3> HIDE DEF a, i, j, k, l
      <3> QED BY <1>1, <3>1, <3>2
    <2>3. p \notin Heads
      BY <1>6, HeadsAreNoNodes
    <2>4. CASE a = Null
      <3>1. Hooked(Chained!Put(c, <<j, i, k>>), c, n, Link(p)) /\ Hooked(Chained!Put(c, <<j, k, i>>), c, n, Link(p))
        BY <2>4, HooksThree
      <3> QED BY <2>1, <2>2, <2>3, <2>4, <3>1
    <2>5. CASE a # Null
      <3>1. Hooked(Chained!Put(c, <<j, i, k, l>>), c, n, Link(p)) /\ Hooked(Chained!Put(c, <<j, k, i, l>>), c, n, Link(p))
        BY <2>5, HooksFour
      <3> QED BY <2>1, <2>2, <2>3, <2>5, <3>1
    <2> QED BY <2>4, <2>5
  <1> QED BY <1>4, <1>5, <1>6

LEMMA PutsFive ==
    ASSUME NEW m \in ChainMemories, NEW u \in Writes, NEW v \in Writes, NEW w \in Writes, NEW x \in Writes, NEW y \in Writes,
           u[1] # v[1], u[1] # w[1], v[1] # w[1], x[1] \notin {u[1], v[1], w[1]}, y[1] \notin {u[1], v[1], w[1], x[1]}
    PROVE  LET c == Chained!Put(m, <<u, v, w, x, y>>) IN
           /\ c \in ChainMemories
           /\ c[u[1]] = u[2] /\ c[v[1]] = v[2] /\ c[w[1]] = w[2] /\ c[x[1]] = x[2] /\ c[y[1]] = y[2]
           /\ \A d \in Chained!Cells : d \notin {u[1], v[1], w[1], x[1], y[1]} => c[d] = m[d]
  <1> DEFINE ws == <<u, v, w, x, y>>
             c == Chained!Put(m, ws)
  <1>1. ws \in Seq(Writes) /\ Len(ws) = 5 /\ ws[1] = u /\ ws[2] = v /\ ws[3] = w /\ ws[4] = x /\ ws[5] = y
    OBVIOUS
  <1>2. 1..5 = {1, 2, 3, 4, 5}
    OBVIOUS
  <1> HIDE DEF ws
  <1>3. \A i, j \in 1..Len(ws) : ws[i][1] = ws[j][1] => i = j
    BY <1>1, <1>2
  <1>4. /\ c \in ChainMemories
        /\ \A i \in 1..Len(ws) : c[ws[i][1]] = ws[i][2]
        /\ \A d \in Chained!Cells : (\A i \in 1..Len(ws) : ws[i][1] # d) => c[d] = m[d]
    BY <1>1, <1>3, PutsThere
  <1> HIDE DEF c
  <1>5. c[u[1]] = u[2] /\ c[v[1]] = v[2] /\ c[w[1]] = w[2] /\ c[x[1]] = x[2] /\ c[y[1]] = y[2]
    BY <1>1, <1>2, <1>4
  <1>6. \A d \in Chained!Cells : d \notin {u[1], v[1], w[1], x[1], y[1]} => c[d] = m[d]
    BY <1>1, <1>2, <1>4
  <1> QED BY <1>4, <1>5, <1>6 DEF c, ws

LEMMA Singles ==
    ASSUME NEW u, NEW v
    PROVE  <<u>> \o <<>> = <<u>> /\ <<u>> \o <<v>> = <<u, v>>
  <1> DEFINE Elts == {u, v}
             q == <<u>> \o <<v>>
  <1>1. <<u>> \in Seq(Elts) /\ <<v>> \in Seq(Elts)
    OBVIOUS
  <1>2. q \in Seq(Elts) /\ Len(q) = 2 /\ q[1] = u /\ q[2] = v
    BY <1>1
  <1>3. <<u>> \o <<>> = <<u>>
    BY <1>1
  <1> HIDE DEF q
  <1>4. q = <<u, v>>
    BY <1>2, TupleOf
  <1> QED BY <1>3, <1>4 DEF q

\* The cells that a removal of n, which is behind p, writes.
LEMMA UnhookCells ==
    ASSUME NEW c \in ChainMemories, NEW n \in Nodes, NEW p \in Lists!Places, p # n, c[Chained!pprev(n)] = Link(p),
           c[Chained!next(n)] # n
    PROVE  LET a == c[Chained!next(n)] IN
           /\ a = Null \/ a \in Nodes
           /\ <<Link(p), a>> \in Writes /\ <<Chained!next(n), Null>> \in Writes /\ <<Chained!pprev(n), Null>> \in Writes
           /\ a # Null => <<Chained!pprev(a), Link(p)>> \in Writes
           /\ Link(p) \in Chained!Cells /\ Chained!next(n) \in Chained!Cells /\ Chained!pprev(n) \in Chained!Cells
           /\ Link(p) # Chained!next(n) /\ Chained!next(n) # Chained!pprev(n) /\ Link(p) # Chained!pprev(n)
           /\ a # Null => /\ Chained!pprev(a) \in Chained!Cells
                          /\ Chained!pprev(a) \notin {Link(p), Chained!next(n), Chained!pprev(n)}
  <1> DEFINE a == c[Chained!next(n)]
  <1>1. /\ Link(p) \in Chained!Links /\ Link(p) \in Chained!Cells
        /\ Chained!next(n) = Link(n) /\ Link(n) \in Chained!Links /\ Link(n) \in Chained!Cells
        /\ \A k \in Nodes : Chained!pprev(k) \in Chained!Cells /\ Chained!pprev(k) \notin Chained!Links
        /\ n \in Lists!Places
    BY ChainCells DEF Lists!Places
  <1>2. a \in Nodes \cup {Null}
    BY <1>1 DEF ChainMemories
  <1> HIDE DEF a
  <1>3. /\ <<Link(p), a>> \in Writes /\ <<Chained!next(n), Null>> \in Writes /\ <<Chained!pprev(n), Null>> \in Writes
        /\ a # Null => <<Chained!pprev(a), Link(p)>> \in Writes
    BY <1>1, <1>2 DEF Writes
  <1>4. Link(p) # Link(n) /\ \A k \in Nodes : Chained!pprev(k) # Link(p) /\ Chained!pprev(k) # Link(n)
    BY <1>1, CellsDiffer
  <1>5. a # Null => Chained!pprev(a) # Chained!pprev(n)
    BY <1>2, CellsDiffer DEF a
  <1> QED BY <1>1, <1>2, <1>3, <1>4, <1>5 DEF a

LEMMA DetachIs ==
    ASSUME NEW c \in ChainMemories, NEW n \in Nodes, NEW p \in Lists!Places, p # n, c[Chained!pprev(n)] = Link(p),
           c[Chained!next(n)] # n
    PROVE  LET a == c[Chained!next(n)]
               e == Chained!detach(c, n)
           IN /\ e \in ChainMemories /\ e[Link(p)] = a
              /\ a # Null => e[Chained!pprev(a)] = Link(p)
              /\ \A d \in Chained!Cells : d # Link(p) /\ (a # Null => d # Chained!pprev(a)) => e[d] = c[d]
  <1> DEFINE a == c[Chained!next(n)]
             e == Chained!detach(c, n)
             u == <<Link(p), a>>
             v == <<Chained!pprev(a), Link(p)>>
  <1>1. u \in Writes /\ (a # Null => v \in Writes /\ v[1] # u[1])
    BY UnhookCells
  <1>2. e = Chained!Put(c, <<u>> \o Chained!PutIf(a, v))
    BY DEF Chained!detach
  <1>3. CASE a = Null
    <2>1. e = Chained!Put(c, <<u>>)
      <3>1. Chained!PutIf(a, v) = <<>>
        BY <1>3 DEF Chained!PutIf
      <3>2. <<u>> \o <<>> = <<u>>
        BY Singles
      <3> QED BY <1>2, <3>1, <3>2
    <2> HIDE DEF e
    <2>2. e \in ChainMemories /\ e[u[1]] = u[2] /\ \A d \in Chained!Cells : d # u[1] => e[d] = c[d]
      BY <1>1, <2>1, PutsOne
    <2> QED BY <2>2, <1>3 DEF e
  <1>4. CASE a # Null
    <2>1. e = Chained!Put(c, <<u, v>>)
      <3>1. Chained!PutIf(a, v) = <<v>>
        BY <1>4 DEF Chained!PutIf
      <3>2. <<u>> \o <<v>> = <<u, v>>
        BY Singles
      <3> QED BY <1>2, <3>1, <3>2
    <2> HIDE DEF e
    <2>2. /\ e \in ChainMemories /\ e[u[1]] = u[2] /\ e[v[1]] = v[2]
          /\ \A d \in Chained!Cells : d \notin {u[1], v[1]} => e[d] = c[d]
      BY <1>1, <1>4, <2>1, PutsTwo
    <2> QED BY <2>2, <1>4 DEF e
  <1> QED BY <1>3, <1>4

LEMMA RemovalsUnhook ==
    ASSUME NEW c \in ChainMemories, NEW n \in Nodes, NEW p \in Lists!Places, p # n, c[Chained!pprev(n)] = Link(p),
           c[Chained!next(n)] # n
    PROVE  /\ Unhooked(Chained!hlist_del(c, n), c, n)
           /\ Unhooked(Chained!hlist_del_rcu(c, n), c, n)
           /\ Chained!hlist_del_rcu(c, n)[Chained!next(n)] = c[Chained!next(n)]
  <1> DEFINE a == c[Chained!next(n)]
             l == Link(p)
             e == Chained!detach(c, n)
             x == Chained!hlist_del(c, n)
             y == Chained!hlist_del_rcu(c, n)
  <1>1. /\ a = Null \/ a \in Nodes
        /\ <<Chained!next(n), Null>> \in Writes /\ <<Chained!pprev(n), Null>> \in Writes
        /\ l \in Chained!Cells /\ Chained!next(n) \in Chained!Cells /\ Chained!pprev(n) \in Chained!Cells
        /\ l # Chained!next(n) /\ Chained!next(n) # Chained!pprev(n) /\ l # Chained!pprev(n)
        /\ a # Null => /\ Chained!pprev(a) \in Chained!Cells
                       /\ Chained!pprev(a) \notin {l, Chained!next(n), Chained!pprev(n)}
    BY UnhookCells
  <1>2. /\ e \in ChainMemories /\ e[l] = a
        /\ a # Null => e[Chained!pprev(a)] = l
        /\ \A d \in Chained!Cells : d # l /\ (a # Null => d # Chained!pprev(a)) => e[d] = c[d]
    BY DetachIs
  <1>3. /\ x = Chained!Put(e, <<<<Chained!next(n), Null>>, <<Chained!pprev(n), Null>>>>)
        /\ y = Chained!Put(e, <<<<Chained!pprev(n), Null>>>>)
    BY DEF Chained!hlist_del, Chained!hlist_del_rcu
  <1> HIDE DEF e, x, y
  <1>4. /\ x \in ChainMemories /\ x[Chained!next(n)] = Null /\ x[Chained!pprev(n)] = Null
        /\ \A d \in Chained!Cells : d \notin {Chained!next(n), Chained!pprev(n)} => x[d] = e[d]
    <2> DEFINE u == <<Chained!next(n), Null>>
               v == <<Chained!pprev(n), Null>>
    <2>1. u \in Writes /\ v \in Writes /\ u[1] # v[1] /\ x = Chained!Put(e, <<u, v>>)
      BY <1>1, <1>3
    <2>2. /\ x \in ChainMemories /\ x[u[1]] = u[2] /\ x[v[1]] = v[2]
          /\ \A d \in Chained!Cells : d \notin {u[1], v[1]} => x[d] = e[d]
      <3> HIDE DEF u, v
      <3> QED BY <1>2, <2>1, PutsTwo
    <2> QED BY <2>2
  <1>5. /\ y \in ChainMemories /\ y[Chained!pprev(n)] = Null
        /\ \A d \in Chained!Cells : d # Chained!pprev(n) => y[d] = e[d]
    <2> DEFINE u == <<Chained!pprev(n), Null>>
    <2>1. u \in Writes /\ y = Chained!Put(e, <<u>>)
      BY <1>1, <1>3
    <2>2. /\ y \in ChainMemories /\ y[u[1]] = u[2]
          /\ \A d \in Chained!Cells : d # u[1] => y[d] = e[d]
      <3> HIDE DEF u
      <3> QED BY <1>2, <2>1, PutsOne
    <2> QED BY <2>2
  <1> HIDE DEF a, l
  <1>6. c[Chained!pprev(n)] = l /\ c[Chained!next(n)] = a
    BY DEF a, l
  <1>7. Unhooked(x, c, n)
    BY <1>1, <1>2, <1>4, <1>6 DEF Unhooked
  <1>8. Unhooked(y, c, n)
    BY <1>1, <1>2, <1>5, <1>6 DEF Unhooked
  <1>9. y[Chained!next(n)] = c[Chained!next(n)]
    BY <1>1, <1>2, <1>5
  <1> QED BY <1>7, <1>8, <1>9 DEF x, y

Pairs(u, v, w, x, y) ==
    <<u, v>> \o <<w>> \o <<x, y>> = <<u, v, w, x, y>> /\ <<u, v>> \o <<>> \o <<x, y>> = <<u, v, x, y>>
LEMMA FiveOf == ASSUME NEW Elts, NEW q \in Seq(Elts), Len(q) = 5 PROVE q = <<q[1], q[2], q[3], q[4], q[5]>>
  OBVIOUS
LEMMA ThreeAndTwo ==
    ASSUME NEW Elts, NEW s \in Seq(Elts), NEW t \in Seq(Elts), Len(s) = 3, Len(t) = 2
    PROVE  /\ s \o t \in Seq(Elts) /\ Len(s \o t) = 5
           /\ (s \o t)[1] = s[1] /\ (s \o t)[2] = s[2] /\ (s \o t)[3] = s[3]
           /\ (s \o t)[4] = t[1] /\ (s \o t)[5] = t[2]
  <1> DEFINE q == s \o t
  <1>0. q \in Seq(Elts) /\ Len(q) = Len(s) + Len(t) /\ \A i \in 1..Len(s) + Len(t) : q[i] = IF i <= Len(s) THEN s[i] ELSE t[i - Len(s)]
    BY ConcatProperties
  <1> HIDE DEF q
  <1>1. q \in Seq(Elts) /\ Len(q) = 5
    BY <1>0
  <1>2. \A i \in 1..5 : q[i] = IF i <= 3 THEN s[i] ELSE t[i - 3]
    BY <1>0
  <1>3. 1 \in 1..5 /\ 2 \in 1..5 /\ 3 \in 1..5 /\ 4 \in 1..5 /\ 5 \in 1..5 /\ 4 - 3 = 1 /\ 5 - 3 = 2
    OBVIOUS
  <1> QED BY <1>1, <1>2, <1>3 DEF q
LEMMA PairsJoin ==
    ASSUME NEW u, NEW v, NEW w, NEW x, NEW y
    PROVE  Pairs(u, v, w, x, y)
  <1> DEFINE Elts == {u, v, w, x, y}
             f == <<u, v>> \o <<w>>
             g == f \o <<x, y>>
             h == <<u, v>> \o <<x, y>>
  <1>1. <<u, v>> \in Seq(Elts) /\ <<w>> \in Seq(Elts) /\ <<x, y>> \in Seq(Elts)
    OBVIOUS
  <1>2. f \in Seq(Elts) /\ Len(f) = 3 /\ f[1] = u /\ f[2] = v /\ f[3] = w
    BY <1>1
  <1>3. h \in Seq(Elts) /\ Len(h) = 4 /\ h[1] = u /\ h[2] = v /\ h[3] = x /\ h[4] = y
    BY <1>1
  <1> HIDE DEF Elts, f
  <1>4. g \in Seq(Elts) /\ Len(g) = 5 /\ g[1] = u /\ g[2] = v /\ g[3] = w /\ g[4] = x /\ g[5] = y
    <2> DEFINE t == <<x, y>>
    <2>1. t \in Seq(Elts) /\ Len(t) = 2 /\ t[1] = x /\ t[2] = y
      BY <1>1
    <2> HIDE DEF t
    <2> QED BY <1>2, <2>1, ThreeAndTwo DEF t
  <1> HIDE DEF g, h
  <1>5. g = <<u, v, w, x, y>> /\ h = <<u, v, x, y>>
    BY <1>3, <1>4, TupleOf, FiveOf
  <1>6. <<u, v>> \o <<>> = <<u, v>>
    BY <1>1
  <1> QED BY <1>5, <1>6 DEF f, g, h, Pairs

\* A new node takes an old one's place: as if that were unhooked and the new one hooked in.
LEMMA ReplaceHooks ==
    ASSUME NEW c \in ChainMemories, NEW n \in Nodes, NEW p \in Lists!Places, p # n, c[Chained!pprev(n)] = Link(p),
           c[Chained!next(n)] # n, NEW k \in Nodes, k # n, k # p, k # c[Chained!next(n)]
    PROVE  Hooked(Chained!hlist_replace_rcu(c, n, k), Chained!hlist_del_rcu(c, n), k, Link(p))
  <1> DEFINE a == c[Chained!next(n)]
             l == Link(p)
             c1 == Chained!hlist_del_rcu(c, n)
             c2 == Chained!hlist_replace_rcu(c, n, k)
             u == <<Chained!next(k), a>>
             v == <<Chained!pprev(k), l>>
             w == <<Chained!pprev(a), Chained!next(k)>>
             x == <<l, k>>
             y == <<Chained!pprev(n), Null>>
  <1>1. /\ a = Null \/ a \in Nodes
        /\ l \in Chained!Cells /\ Chained!next(n) \in Chained!Cells /\ Chained!pprev(n) \in Chained!Cells
        /\ l # Chained!next(n) /\ Chained!next(n) # Chained!pprev(n) /\ l # Chained!pprev(n)
        /\ a # Null => /\ Chained!pprev(a) \in Chained!Cells
                       /\ Chained!pprev(a) \notin {l, Chained!next(n), Chained!pprev(n)}
    BY UnhookCells
  <1>2. /\ Unhooked(c1, c, n) /\ c1[Chained!next(n)] = c[Chained!next(n)]
    BY RemovalsUnhook
  <1>3. /\ c1 \in ChainMemories /\ c1[l] = a
        /\ \A d \in Chained!Cells : c1[d] = IF d = l THEN a ELSE IF d = Chained!pprev(n) THEN Null
                                            ELSE IF a # Null /\ d = Chained!pprev(a) THEN l ELSE c[d]
    <2> HIDE DEF c1
    <2> QED BY <1>1, <1>2 DEF Unhooked
  <1>4. /\ k \in Lists!Places /\ n \in Lists!Places /\ Chained!next(k) = Link(k) /\ Link(k) \in Chained!Links
        /\ l \in Chained!Links /\ \A j \in Nodes : Chained!pprev(j) \in Chained!Cells /\ Chained!pprev(j) \notin Chained!Links
        /\ Link(k) \in Chained!Cells
    BY ChainCells DEF Lists!Places
  <1>5. /\ Chained!next(k) # l /\ \A j \in Nodes : Chained!pprev(j) # l /\ Chained!pprev(j) # Chained!next(k)
        /\ Chained!pprev(k) # Chained!pprev(n) /\ (a # Null => Chained!pprev(k) # Chained!pprev(a))
    BY <1>1, <1>4, CellsDiffer
  <1>6. u \in Writes /\ v \in Writes /\ x \in Writes /\ y \in Writes /\ (a # Null => w \in Writes)
    <2> HIDE DEF a, l
    <2> QED BY <1>1, <1>4 DEF Writes
  <1>7. /\ c2 \in ChainMemories
        /\ c2[Chained!next(k)] = a /\ c2[Chained!pprev(k)] = l /\ c2[l] = k /\ c2[Chained!pprev(n)] = Null
        /\ a # Null => c2[Chained!pprev(a)] = Chained!next(k)
        /\ \A d \in Chained!Cells :
              d \notin {Chained!next(k), Chained!pprev(k), l, Chained!pprev(n)} /\ (a # Null => d # Chained!pprev(a))
                 => c2[d] = c[d]
    <2>1. c2 = Chained!Put(c, <<u, v>> \o Chained!PutIf(a, w) \o <<x, y>>)
      BY DEF Chained!hlist_replace_rcu
    <2>2. Chained!PutIf(a, w) = IF a = Null THEN <<>> ELSE <<w>>
      BY DEF Chained!PutIf
    <2>3. Pairs(u, v, w, x, y)
      BY PairsJoin
    <2>4. /\ u[1] = Chained!next(k) /\ v[1] = Chained!pprev(k) /\ w[1] = Chained!pprev(a) /\ x[1] = l /\ y[1] = Chained!pprev(n)
          /\ u[2] = a /\ v[2] = l /\ w[2] = Chained!next(k) /\ x[2] = k /\ y[2] = Null
      OBVIOUS
    <2> HIDE DEF a, l, c2, u, v, w, x, y
    <2>5. CASE a = Null
      <3>1. c2 = Chained!Put(c, <<u, v, x, y>>)
        BY <2>1, <2>2, <2>3, <2>5 DEF Pairs
      <3>2. u[1] # v[1] /\ u[1] # x[1] /\ v[1] # x[1] /\ y[1] \notin {u[1], v[1], x[1]}
        BY <1>5, <2>4
      <3>3. /\ c2 \in ChainMemories /\ c2[u[1]] = u[2] /\ c2[v[1]] = v[2] /\ c2[x[1]] = x[2] /\ c2[y[1]] = y[2]
            /\ \A d \in Chained!Cells : d \notin {u[1], v[1], x[1], y[1]} => c2[d] = c[d]
        BY <1>6, <3>1, <3>2, PutsFour
      <3> QED BY <2>4, <2>5, <3>3
    <2>6. CASE a # Null
      <3>1. c2 = Chained!Put(c, <<u, v, w, x, y>>)
        BY <2>1, <2>2, <2>3, <2>6 DEF Pairs
      <3>2. /\ u[1] # v[1] /\ u[1] # w[1] /\ v[1] # w[1] /\ x[1] \notin {u[1], v[1], w[1]}
            /\ y[1] \notin {u[1], v[1], w[1], x[1]}
        BY <1>1, <1>5, <2>4, <2>6
      <3>3. /\ c2 \in ChainMemories
            /\ c2[u[1]] = u[2] /\ c2[v[1]] = v[2] /\ c2[w[1]] = w[2] /\ c2[x[1]] = x[2] /\ c2[y[1]] = y[2]
            /\ \A d \in Chained!Cells : d \notin {u[1], v[1], w[1], x[1], y[1]} => c2[d] = c[d]
        BY SMTT(30), <1>6, <2>6, <3>1, <3>2, PutsFive
      <3> QED BY <2>4, <2>6, <3>3
    <2> QED BY <2>5, <2>6
  <1> HIDE DEF a, l, c1, c2
  <1>8. Hooked(c2, c1, k, l)
    BY <1>1, <1>3, <1>5, <1>7 DEF Hooked
  <1> QED BY <1>8 DEF c1, c2, l

------------------------------------------------------------------------------
(* The chains read by their pointers, and their steps.                     *)

LEMMA SameChainCardinality == Chained!Cardinality(Nodes) = Cardinality(Nodes)
  BY DEF Chained!Cardinality, Cardinality

\* What hlist_for_each visits is what is on the chain.
LEMMA VisitedIs ==
    ASSUME NEW c, NEW m, NEW L, Mirrors(c, m, L), NEW h \in Heads
    PROVE  Chained!Visited(c, h) = L[h]
  <1> DEFINE n == Cardinality(Nodes)
             r == L[h]
             onward(s) == IF s = <<>> THEN c[Chained!first(h)] ELSE c[Chained!next(Chained!Last(s))]
             F == [k \in Nat |-> [s \in Seq(Nodes) |-> IF onward(s) \notin Nodes \/ Len(s) < k - 1 THEN s ELSE Append(s, onward(s))]]
  <1>1. n \in Nat
    BY ListsAssumption, FS_CardinalityType
  <1>2. /\ Holds(m, L) /\ L \in OnHeads /\ Apart(L) /\ r \in Seq(Nodes) /\ Len(r) \in Nat /\ Len(r) <= n
        /\ c \in ChainMemories
    BY RoomForAll DEF Mirrors, Holds, OnHeads
  <1>3. F \in [Nat -> [Seq(Nodes) -> Seq(Nodes)]]
    <2> HIDE DEF onward
    <2>1. \A k \in Nat, s \in Seq(Nodes) : (IF onward(s) \notin Nodes \/ Len(s) < k - 1 THEN s ELSE Append(s, onward(s))) \in Seq(Nodes)
      OBVIOUS
    <2> QED BY <2>1
  <1>4. \A s \in Seq(Nodes) : (onward(s) = Null) = (onward(s) \notin Nodes)
    <2> TAKE s \in Seq(Nodes)
    <2>1. \A x \in Nodes : x # Null
      BY NullIsNoPlace DEF Lists!Places
    <2>2. s # <<>> => Chained!Last(s) \in Nodes
      BY DEF Chained!Last
    <2>3. \A x \in Nodes : c[Chained!next(x)] \in Nodes \cup {Null}
      BY <1>2, ChainCells DEF ChainMemories, Lists!Places
    <2>4. c[Chained!first(h)] \in Nodes \cup {Null}
      BY <1>2, ChainCells DEF ChainMemories, Lists!Places
    <2> QED BY <2>1, <2>2, <2>3, <2>4
  <1>5. <<>> \in Seq(Nodes)
    OBVIOUS
  <1> HIDE DEF F, n
  <1>6. PICK f \in [0..n -> Seq(Nodes)] : IsLoop(f, <<>>, F, 0..n)
    BY <1>1, <1>3, <1>5, Loop
  <1> DEFINE Body(g, k) == IF k = 0 THEN <<>>
                           ELSE LET s == g[k - 1]
                                    x == IF s = <<>> THEN c[Chained!first(h)] ELSE c[Chained!next(Chained!Last(s))]
                                IN IF x = Null \/ Len(s) < k - 1 THEN s ELSE Append(s, x)
  <1>7. f = [k \in 0..n |-> Body(f, k)]
    <2>1. ASSUME NEW k \in 0..n PROVE (IF k = 0 THEN <<>> ELSE F[k][f[k - 1]]) = Body(f, k)
      <3>1. CASE k = 0
        BY <3>1
      <3>2. CASE k # 0
        <4>1. k \in Nat /\ f[k - 1] \in Seq(Nodes)
          BY <1>1, <3>2
        <4>2. F[k][f[k - 1]] = IF onward(f[k - 1]) \notin Nodes \/ Len(f[k - 1]) < k - 1 THEN f[k - 1] ELSE Append(f[k - 1], onward(f[k - 1]))
          BY <4>1 DEF F
        <4> QED BY <4>1, <4>2, <1>4, <3>2
      <3> QED BY <3>1, <3>2
    <2> HIDE DEF Body
    <2> QED BY <1>6, <2>1 DEF IsLoop
  <1> DEFINE from == CHOOSE g : g = [k \in 0..n |-> Body(g, k)]
  <1>8. Chained!Visited(c, h) = from[n]
    BY SameChainCardinality DEF Chained!Visited, n
  <1>9. from = [k \in 0..n |-> Body(from, k)]
    <2> HIDE DEF Body
    <2> QED BY <1>7
  <1> HIDE DEF from, r
  <1> DEFINE Prefix(k) == [j \in 1..(IF k <= Len(r) THEN k ELSE Len(r)) |-> r[j]]
             N == {k \in Nat : k <= n => from[k] = Prefix(k)}
  <1>10. 0 \in N
    <2>1. from[0] = <<>>
      BY <1>1, <1>9
    <2>2. Prefix(0) = <<>>
      BY <1>2
    <2> QED BY <2>1, <2>2
  <1>11. ASSUME NEW k \in Nat, k \in N PROVE k + 1 \in N
    <2> SUFFICES ASSUME k + 1 <= n PROVE from[k + 1] = Prefix(k + 1)
      OBVIOUS
    <2> DEFINE s == Prefix(k)
               l == IF k <= Len(r) THEN k ELSE Len(r)
    <2>1. from[k] = s
      BY <1>1, <1>11
    <2>2. s \in Seq(Nodes) /\ Len(s) = l /\ l \in 0..Len(r) /\ \A j \in 1..l : s[j] = r[j]
      <3>1. l \in 0..Len(r)
        BY <1>2
      <3>2. s = [j \in 1..l |-> r[j]]
        OBVIOUS
      <3> HIDE DEF l, s
      <3>3. s \in [1..l -> Nodes]
        BY <1>2, <3>1, <3>2
      <3> QED BY <1>2, <3>1, <3>2, <3>3
    <2> HIDE DEF s
    <2>3. onward(s) = c[Link(At(h, r, l))]
      <3>1. CASE l = 0
        <4>1. s = <<>>
          BY <2>2, <3>1
        <4>2. Chained!first(h) = Link(h)
          BY ChainCells
        <4> HIDE DEF l
        <4> QED BY <3>1, <4>1, <4>2 DEF At
      <3>2. CASE l # 0
        <4>1. s # <<>> /\ Chained!Last(s) = s[l] /\ l \in 1..Len(r) /\ l \in 1..l
          <5> HIDE DEF l
          <5> QED BY <1>2, <2>2, <3>2 DEF Chained!Last
        <4>2. s[l] = r[l] /\ r[l] \in Nodes
          <5> HIDE DEF l
          <5> QED BY <1>2, <2>2, <4>1
        <4>3. Chained!next(r[l]) = Link(r[l])
          BY <4>2, ChainCells
        <4> HIDE DEF l
        <4> QED BY <2>2, <4>1, <4>2, <4>3 DEF At
      <3> QED BY <3>1, <3>2
    <2>4. onward(s) = Shown(At(h, r, l + 1))
      <3> HIDE DEF l, onward
      <3>1. LNext(m, At(h, r, l)) = At(h, r, l + 1)
        BY <1>2, <2>2, Neighbours DEF r
      <3>2. At(h, r, l) \in Lists!Places /\ Live(L, At(h, r, l))
        <4>1. l \in Int
          BY <1>2, <2>2
        <4>2. At(h, r, l) \in Lists!Places
          BY <1>2, <4>1, AtIsAPlace DEF r
        <4> QED BY <4>2 DEF At, Live, OnList, r
      <3> QED BY <2>3, <3>1, <3>2 DEF Mirrors
    <2>5. from[k + 1] = IF onward(s) = Null \/ Len(s) < k THEN s ELSE Append(s, onward(s))
      <3>1. k + 1 \in 0..n /\ k + 1 # 0 /\ (k + 1) - 1 = k
        BY SMTT(30), <1>1
      <3>2. from[k + 1] = Body(from, k + 1)
        BY <1>9, <3>1
      <3> HIDE DEF l
      <3> QED BY <2>1, <3>1, <3>2
    <2> HIDE DEF onward
    <2>6. CASE k < Len(r)
      <3>1. l = k /\ k + 1 \in 1..Len(r)
        BY <1>2, <2>6
      <3>2. onward(s) = r[k + 1] /\ r[k + 1] \in Nodes /\ r[k + 1] # Null
        <4>1. r[k + 1] \in Nodes /\ At(h, r, k + 1) = r[k + 1]
          BY <1>2, <3>1 DEF At
        <4> QED BY <2>4, <3>1, <4>1, HeadsAreNoNodes, NullIsNoPlace DEF Shown, Lists!Places
      <3>3. from[k + 1] = Append(s, r[k + 1])
        BY <2>2, <2>5, <3>1, <3>2
      <3>4. Prefix(k + 1) = [j \in 1..k + 1 |-> r[j]]
        BY <3>1, <1>2
      <3>5. Append(s, r[k + 1]) = [j \in 1..k + 1 |-> r[j]]
        <4> DEFINE t == [j \in 1..k + 1 |-> r[j]]
        <4>1. \A j \in 1..k + 1 : j \in 1..Len(r)
          BY <1>2, <3>1
        <4>2. t \in Seq(Nodes) /\ Len(t) = k + 1
          BY <1>2, <4>1
        <4>3. Append(s, r[k + 1]) \in Seq(Nodes) /\ Len(Append(s, r[k + 1])) = k + 1
          BY <2>2, <3>1, <3>2
        <4>4. \A j \in 1..k + 1 : Append(s, r[k + 1])[j] = r[j]
          <5> TAKE j \in 1..k + 1
          <5>1. CASE j = k + 1
            BY <5>1, <2>2, <3>1
          <5>2. CASE j # k + 1
            <6>1. j \in 1..k /\ j \in 1..Len(s)
              BY <5>2, <2>2, <3>1
            <6> QED BY <6>1, <2>2, <3>1
          <5> QED BY <5>1, <5>2
        <4> QED BY <4>2, <4>3, <4>4
      <3> QED BY <3>3, <3>4, <3>5
    <2>7. CASE k >= Len(r)
      <3>1. l = Len(r) /\ l + 1 \notin 1..Len(r) /\ ~(k + 1 <= Len(r))
        BY <1>2, <2>7
      <3>2. onward(s) = Null
        BY <2>4, <3>1 DEF At, Shown
      <3>3. from[k + 1] = s
        BY <2>5, <3>2
      <3>4. Prefix(k + 1) = Prefix(k)
        BY <1>2, <2>7
      <3> QED BY <3>3, <3>4 DEF s
    <2> QED BY <2>6, <2>7, <1>2
  <1> HIDE DEF N
  <1>12. Nat \subseteq N
    BY <1>10, <1>11, Induct
  <1>13. from[n] = Prefix(n)
    BY <1>1, <1>12 DEF N
  <1>14. Prefix(n) = r
    <2>1. Prefix(n) = [j \in 1..Len(r) |-> r[j]]
      BY <1>1, <1>2
    <2>2. r \in [1..Len(r) -> Nodes]
      BY <1>2
    <2> HIDE DEF Prefix
    <2> QED BY <2>1, <2>2
  <1> QED BY <1>8, <1>13, <1>14 DEF r

\* What is in front of a node of a chain and behind it.
LEMMA HookedBehind ==
    ASSUME NEW c, NEW m, NEW L, Mirrors(c, m, L), NEW n \in Nodes, OnList(L, n)
    PROVE  \E p \in Lists!Places :
              /\ p = LPrev(m, n) /\ Live(L, p) /\ p # n
              /\ c[Chained!pprev(n)] = Link(p) /\ c[Link(p)] = n
              /\ c[Chained!next(n)] # n /\ c[Chained!next(n)] = Shown(LNext(m, n))
              /\ LNext(m, n) \in Lists!Places /\ Live(L, LNext(m, n))
  <1>1. Holds(m, L) /\ L \in OnHeads /\ \A h \in Heads : Len(L[h]) \in Nat
    BY DEF Mirrors, Holds, OnHeads
  <1>2. PICK h \in Heads : \E j \in 1..Len(L[h]) : L[h][j] = n
    BY DEF OnList
  <1>3. PICK i \in 1..Len(L[h]) : L[h][i] = n
    BY <1>2
  <1> DEFINE p == LPrev(m, n)
             q == LNext(m, n)
  <1>4. /\ n \in Lists!Places /\ p \in Lists!Places /\ q \in Lists!Places /\ n # p /\ n # q
        /\ p = At(h, L[h], i - 1) /\ q = At(h, L[h], i + 1)
    BY <1>1, <1>3, EntryBetween
  <1>5. Live(L, p)
    <2>1. i - 1 \in Int
      BY <1>1
    <2> QED BY <1>4, <2>1 DEF At, Live, OnList
  <1>6. LNext(m, p) = n
    <2>1. i - 1 \in 0..Len(L[h]) /\ (i - 1) + 1 = i
      BY <1>1
    <2>2. LNext(m, At(h, L[h], i - 1)) = At(h, L[h], i)
      BY <1>1, <2>1, Neighbours
    <2> QED BY <1>3, <1>4, <2>2 DEF At
  <1>7. c[Link(n)] = Shown(q) /\ Chained!next(n) = Link(n)
    BY <1>4, ChainCells DEF Mirrors, Live
  <1>8. Live(L, q)
    <2>1. i + 1 \in Int
      BY <1>1
    <2> QED BY <1>4, <2>1 DEF At, Live, OnList
  <1> HIDE DEF p, q
  <1>9. c[Link(p)] = n
    BY <1>4, <1>5, <1>6, HeadsAreNoNodes DEF Mirrors, Shown
  <1>10. c[Chained!pprev(n)] = Link(p)
    BY DEF Mirrors, p
  <1>11. c[Chained!next(n)] # n
    BY <1>4, <1>7, NullIsNoPlace DEF Shown
  <1> QED BY <1>4, <1>5, <1>7, <1>8, <1>9, <1>10, <1>11 DEF p, q

\* A node that is on no chain is neither a live place nor behind one.
LEMMA NewIsApart ==
    ASSUME NEW c, NEW m, NEW L, Mirrors(c, m, L), NEW n \in Nodes, ~OnList(L, n), NEW p \in Lists!Places, Live(L, p)
    PROVE  p # n /\ c[Link(p)] # n
  <1>1. Holds(m, L)
    BY DEF Mirrors
  <1>2. LNext(m, p) \in Lists!Places /\ Live(L, LNext(m, p))
    BY <1>1, LiveIsAt
  <1>3. p # n /\ LNext(m, p) # n
    BY <1>2, HeadsAreNoNodes DEF Live
  <1>4. c[Link(p)] = Shown(LNext(m, p)) /\ n # Null
    BY NullIsNoPlace DEF Mirrors, Lists!Places
  <1> QED BY <1>3, <1>4 DEF Shown

LEMMA OnIs ==
    ASSUME NEW m, NEW L, Mirrors(chain, m, L), NEW n \in Nodes
    PROVE  Chained!On(n) = OnList(L, n)
  <1>1. \A h \in Heads : Chained!Visited(chain, h) = L[h]
    BY VisitedIs
  <1>2. L \in OnHeads
    BY DEF Mirrors, Holds
  <1>3. \A h \in Heads : Chained!ToSet(L[h]) = {L[h][i] : i \in 1..Len(L[h])}
    BY <1>2 DEF OnHeads, Chained!ToSet
  <1>4. \A h \in Heads : (n \in Chained!ToSet(Chained!Visited(chain, h))) <=> \E i \in 1..Len(L[h]) : L[h][i] = n
    BY <1>1, <1>3
  <1>5. Chained!On(n) <=> OnList(L, n)
    BY <1>4, Zenon DEF Chained!On, OnList
  <1> QED BY <1>5 DEF Chained!On, OnList

LEMMA ChainsAgree ==
    ASSUME NEW m, NEW L, Mirrors(chain, m, L)
    PROVE  Chained!ChainTypeOK /\ Chained!ChainsHoldTogether
  <1>1. Holds(m, L)
    BY DEF Mirrors
  <1>2. Chained!ChainTypeOK
    BY DEF Mirrors, ChainMemories, Chained!ChainTypeOK
  <1>3. ASSUME NEW n \in Nodes, OnList(L, n)
        PROVE  {c \in Chained!Links : chain[c] = n /\ (c[1] \in Heads \/ Chained!On(c[1]))} = {chain[Chained!pprev(n)]}
    <2>1. PICK p \in Lists!Places :
              /\ p = LPrev(m, n) /\ Live(L, p) /\ chain[Chained!pprev(n)] = Link(p) /\ chain[Link(p)] = n
      BY <1>3, HookedBehind
    <2>2. ASSUME NEW x \in Lists!Places PROVE (x \in Heads \/ Chained!On(x)) = Live(L, x)
      <3>1. CASE x \in Heads
        BY <3>1 DEF Live
      <3>2. CASE x \in Nodes
        BY <3>2, OnIs, HeadsAreNoNodes DEF Live
      <3> QED BY <3>1, <3>2 DEF Lists!Places
    <2>3. ASSUME NEW c \in Chained!Links, chain[c] = n, c[1] \in Heads \/ Chained!On(c[1]) PROVE c = Link(p)
      <3>1. PICK x \in Lists!Places : c = Link(x) /\ c[1] = x
        BY ChainCells
      <3>2. Live(L, x)
        BY <2>2, <2>3, <3>1
      <3>3. Shown(LNext(m, x)) = n /\ n # Null
        BY <2>3, <3>1, <3>2, NullIsNoPlace DEF Mirrors, Lists!Places
      <3>4. LNext(m, x) = n
        BY <3>3 DEF Shown
      <3>5. LPrev(m, LNext(m, x)) = x
        BY <1>1, <3>2, LiveIsAt
      <3> QED BY <2>1, <3>1, <3>4, <3>5
    <2>4. Link(p) \in Chained!Links /\ Link(p)[1] = p
      BY ChainCells, CellsDiffer
    <2> QED BY <2>1, <2>2, <2>3, <2>4
  <1>4. ASSUME NEW n \in Nodes, ~OnList(L, n) PROVE Chained!hlist_unhashed(chain, n)
    BY <1>4 DEF Mirrors, Chained!hlist_unhashed
  <1>5. \A n \in Nodes : Chained!On(n) = OnList(L, n)
    BY OnIs
  <1> QED BY <1>2, <1>3, <1>4, <1>5 DEF Chained!ChainsHoldTogether

LEMMA ChainAddStep ==
    ASSUME NEW m, NEW L, Mirrors(chain, m, L), NEW n \in Nodes, NEW x \in Lists!Places,
           \/ x \in Heads /\ Chained!AddHead(n, x)
           \/ x \in Nodes /\ (Chained!AddBefore(n, x) \/ Chained!AddAfter(n, x))
    PROVE  \E m2, K : Mirrors(chain', m2, K)
  <1>1. chain \in ChainMemories /\ ~OnList(L, n)
    BY OnIs DEF Mirrors, Chained!AddHead, Chained!AddBefore, Chained!AddAfter
  <1>2. x \in Nodes => OnList(L, x)
    BY OnIs, HeadsAreNoNodes DEF Chained!AddBefore, Chained!AddAfter
  <1>3. Live(L, x)
    BY <1>2 DEF Live, Lists!Places
  <1>4. CASE x \in Heads /\ Chained!AddHead(n, x)
    <2>1. Hooked(chain', chain, n, Link(x))
      <3>1. x # n /\ chain[Link(x)] # n
        BY <1>1, <1>3, NewIsApart
      <3>2. /\ Hooked(Chained!hlist_add_head(chain, n, x), chain, n, Link(x))
            /\ Hooked(Chained!hlist_add_head_rcu(chain, n, x), chain, n, Link(x))
        BY <1>1, <1>4, <3>1, AdditionsHook
      <3> QED BY <1>4, <3>2 DEF Chained!AddHead
    <2> QED BY <1>1, <1>3, <2>1, HookMirrors
  <1>5. CASE x \in Nodes /\ Chained!AddAfter(n, x)
    <2>1. Hooked(chain', chain, n, Link(x))
      <3>1. x # n /\ chain[Link(x)] # n
        BY <1>1, <1>3, NewIsApart
      <3>2. /\ Hooked(Chained!hlist_add_after(chain, x, n), chain, n, Link(x))
            /\ Hooked(Chained!hlist_add_after_rcu(chain, x, n), chain, n, Link(x))
        BY <1>1, <1>5, <3>1, AdditionsHook
      <3> QED BY <1>5, <3>2 DEF Chained!AddAfter
    <2> QED BY <1>1, <1>3, <2>1, HookMirrors
  <1>6. CASE x \in Nodes /\ Chained!AddBefore(n, x)
    <2>1. PICK p \in Lists!Places : Live(L, p) /\ chain[Chained!pprev(x)] = Link(p) /\ chain[Link(p)] = x
      BY <1>2, <1>6, HookedBehind
    <2>2. Hooked(chain', chain, n, Link(p))
      <3>1. p # n /\ chain[Link(p)] # n
        BY <1>1, <2>1, NewIsApart
      <3>2. Hooked(Chained!hlist_add_before(chain, n, x), chain, n, Link(p))
        BY <1>1, <1>6, <2>1, <3>1, AdditionsHook
      <3> QED BY <1>6, <3>2 DEF Chained!AddBefore
    <2> QED BY <1>1, <2>1, <2>2, HookMirrors
  <1> QED BY <1>4, <1>5, <1>6

LEMMA ChainDeleteStep ==
    ASSUME NEW m, NEW L, Mirrors(chain, m, L), NEW n \in Nodes, Chained!Delete(n) \/ Chained!DeleteAgain(n)
    PROVE  \E m2, K : Mirrors(chain', m2, K)
  <1>1. chain \in ChainMemories
    BY DEF Mirrors
  <1>2. CASE Chained!Delete(n)
    <2>1. OnList(L, n)
      BY <1>2, OnIs DEF Chained!Delete
    <2>2. PICK p \in Lists!Places : p # n /\ chain[Chained!pprev(n)] = Link(p) /\ chain[Chained!next(n)] # n
      BY <2>1, HookedBehind
    <2>3. Unhooked(Chained!hlist_del(chain, n), chain, n) /\ Unhooked(Chained!hlist_del_rcu(chain, n), chain, n)
      BY <1>1, <2>2, RemovalsUnhook
    <2>4. chain' \in {Chained!hlist_del(chain, n), Chained!hlist_del_rcu(chain, n)} \/ chain' = chain
      BY <1>2 DEF Chained!Delete, Chained!hlist_del_init
    <2>5. ASSUME Unhooked(chain', chain, n) PROVE \E m2, K : Mirrors(chain', m2, K)
      BY <2>1, <2>5, UnhookMirrors
    <2> QED BY <2>3, <2>4, <2>5
  <1>3. CASE Chained!DeleteAgain(n)
    <2>1. chain[Chained!pprev(n)] = Null
      BY <1>3, OnIs DEF Mirrors, Chained!DeleteAgain
    <2>2. chain' = chain
      BY <1>3, <2>1 DEF Chained!DeleteAgain, Chained!hlist_del_init, Chained!hlist_unhashed
    <2> QED BY <2>2
  <1> QED BY <1>2, <1>3

LEMMA ChainReplaceStep ==
    ASSUME NEW m, NEW L, Mirrors(chain, m, L), NEW n \in Nodes, NEW k \in Nodes, Chained!Replace(n, k)
    PROVE  \E m2, K : Mirrors(chain', m2, K)
  <1>1. chain \in ChainMemories /\ OnList(L, n) /\ ~OnList(L, k) /\ chain' = Chained!hlist_replace_rcu(chain, n, k)
    BY OnIs DEF Mirrors, Chained!Replace
  <1>2. k # n
    BY <1>1 DEF OnList
  <1>3. PICK p \in Lists!Places :
              /\ Live(L, p) /\ p # n /\ chain[Chained!pprev(n)] = Link(p)
              /\ chain[Chained!next(n)] # n /\ chain[Chained!next(n)] = Shown(LNext(m, n))
              /\ LNext(m, n) \in Lists!Places /\ Live(L, LNext(m, n))
    BY <1>1, HookedBehind
  <1>4. k # p /\ k # chain[Chained!next(n)]
    <2>1. \A x : Live(L, x) => x # k
      BY <1>1, HeadsAreNoNodes DEF Live
    <2>2. k # Null
      BY NullIsNoPlace DEF Lists!Places
    <2> QED BY <1>3, <2>1, <2>2 DEF Shown
  <1> DEFINE c1 == Chained!hlist_del_rcu(chain, n)
  <1>5. Unhooked(c1, chain, n)
    BY <1>1, <1>3, RemovalsUnhook
  <1>6. Hooked(chain', c1, k, Link(p))
    BY <1>1, <1>2, <1>3, <1>4, ReplaceHooks
  <1> HIDE DEF c1
  <1>7. PICK m1, K : /\ Mirrors(c1, m1, K) /\ ~OnList(K, n)
                     /\ \A x : x # n => OnList(K, x) = OnList(L, x)
    BY <1>1, <1>5, UnhookMirrors
  <1>8. ~OnList(K, k) /\ Live(K, p)
    BY <1>1, <1>2, <1>3, <1>7 DEF Live
  <1> QED BY <1>6, <1>7, <1>8, HookMirrors

LEMMA ChainBegin == Chained!Init => \E m, L : Mirrors(chain, m, L)
  <1> SUFFICES ASSUME Chained!Init PROVE \E m, L : Mirrors(chain, m, L)
    OBVIOUS
  <1> DEFINE m == [c \in Lists!Cells |-> IF c[1] \in Heads THEN c[1] ELSE Null]
             L == [h \in Heads |-> <<>>]
  <1>1. L \in OnHeads /\ \A h \in Heads : L[h] = <<>> /\ Len(L[h]) = 0
    BY DEF OnHeads
  <1>2. \A x : ~OnList(L, x)
    BY <1>1 DEF OnList
  <1>3. m \in Memories
    BY DEF Memories, Lists!Places, Lists!Cells
  <1>4. \A h \in Heads : LNext(m, h) = h /\ LPrev(m, h) = h
    BY DEF LNext, LPrev, Lists!Cells, Lists!Places
  <1> HIDE DEF m, L
  <1>5. Holds(m, L)
    <2>1. Apart(L)
      BY <1>1 DEF Apart
    <2>2. ASSUME NEW h \in Heads PROVE Circle(m, h, L[h])
      <3>1. \A i \in 0..1 : At(h, L[h], i) = h
        BY <1>1 DEF At
      <3>2. \A i \in 0..Len(L[h]) : i \in 0..1 /\ i + 1 \in 0..1
        BY <1>1
      <3> QED BY <1>4, <3>1, <3>2 DEF Circle
    <2> QED BY <1>1, <1>3, <2>1, <2>2 DEF Holds, Circles
  <1>6. chain \in ChainMemories /\ \A d \in Chained!Cells : chain[d] = Null
    BY DEF Chained!Init, ChainMemories
  <1>7. \A x \in Lists!Places : Live(L, x) => chain[Link(x)] = Shown(LNext(m, x))
    BY <1>2, <1>4, <1>6, ChainCells DEF Live, Shown
  <1>8. \A n \in Nodes : chain[Chained!pprev(n)] = Null
    BY <1>6, ChainCells
  <1>9. Mirrors(chain, m, L)
    BY <1>2, <1>5, <1>6, <1>7, <1>8 DEF Mirrors
  <1> QED BY <1>9

\* The inductive invariant: a two-way list says what the chains' pointers are.
ChainInv == \E m, L : Mirrors(chain, m, L)

LEMMA ChainStep ==
    ASSUME ChainInv, [Chained!Next]_chain
    PROVE  ChainInv'
  <1>1. PICK m, L : Mirrors(chain, m, L)
    BY DEF ChainInv
  <1>2. CASE UNCHANGED chain
    BY <1>1, <1>2 DEF ChainInv, Mirrors
  <1>3. ASSUME NEW n \in Nodes, NEW h \in Heads, Chained!AddHead(n, h) PROVE ChainInv'
    <2>1. \E m2, K : Mirrors(chain', m2, K)
      BY <1>1, <1>3, ChainAddStep DEF Lists!Places
    <2> QED BY <2>1 DEF ChainInv
  <1>4. ASSUME NEW n \in Nodes, NEW x \in Nodes, Chained!AddBefore(n, x) \/ Chained!AddAfter(n, x) PROVE ChainInv'
    <2>1. \E m2, K : Mirrors(chain', m2, K)
      BY <1>1, <1>4, ChainAddStep DEF Lists!Places
    <2> QED BY <2>1 DEF ChainInv
  <1>5. ASSUME NEW n \in Nodes, NEW x \in Nodes, Chained!Replace(n, x) PROVE ChainInv'
    <2>1. \E m2, K : Mirrors(chain', m2, K)
      BY <1>1, <1>5, ChainReplaceStep
    <2> QED BY <2>1 DEF ChainInv
  <1>6. ASSUME NEW n \in Nodes, Chained!Delete(n) \/ Chained!DeleteAgain(n) PROVE ChainInv'
    <2>1. \E m2, K : Mirrors(chain', m2, K)
      BY <1>1, <1>6, ChainDeleteStep
    <2> QED BY <2>1 DEF ChainInv
  <1> QED BY <1>2, <1>3, <1>4, <1>5, <1>6 DEF Chained!Next

\* LinkedList and HashChain: for any heads and nodes, the two directions of a list and the
\* loops over it agree, and what points to a node of a chain is what the node points back to.
THEOREM PointersAlwaysHoldTogether == Lists!Spec /\ Chained!Spec => []PointersHoldTogether
  <1>1. Chained!Init => ChainInv
    BY ChainBegin DEF ChainInv
  <1>2. ChainInv /\ [Chained!Next]_chain => ChainInv'
    BY ChainStep
  <1>3. ChainInv => Chained!ChainTypeOK /\ Chained!ChainsHoldTogether
    BY ChainsAgree DEF ChainInv
  <1>4. Chained!Spec => [](Chained!ChainTypeOK /\ Chained!ChainsHoldTogether)
    BY <1>1, <1>2, <1>3, PTL DEF Chained!Spec
  <1> QED BY <1>4, ListsHoldTogether, PTL DEF PointersHoldTogether
==============================================================================
