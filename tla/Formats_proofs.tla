--------------------------- MODULE Formats_proofs ---------------------------
(***************************************************************************)
(* The frame assembly gives exactly the whole frames of a track, for any   *)
(* sectors and tracks of any length; the DSF writer's blocks hold the      *)
(* bytes of each channel, for any frames that are long enough; and a file  *)
(* of the DSDIFF writer is read right by the sizes and the markers in it,  *)
(* for any album and any frames.                                           *)
(*                                                                         *)
(* The sectors' packets are taken by a fold and the length of a frame is a *)
(* sum, so the proof begins with induction over the numbers, with sums and *)
(* with the recursion that the fold does.  The writer's part begins with   *)
(* loops and with sequences of sequences and then goes from a turn to a    *)
(* pass, to a frame and to a step.  The last part goes from the chunks to  *)
(* the header, the index and the footer, and then along the markers.       *)
(***************************************************************************)
EXTENDS MCFormats, FiniteSetTheorems, SequenceTheorems, WellFoundedInduction, TLAPS
-----------------------------------------------------------------------------
(* Numbers and sums.                                                       *)

\* Induction: a least number that is not in S would belong to an interval with
\* none inside it.
LEMMA Induct ==
  ASSUME NEW S, 0 \in S, \A n \in Nat : n \in S => n + 1 \in S
  PROVE  Nat \subseteq S
  <1> DEFINE T == {0..m : m \in Nat \ S}
  <1> SUFFICES ASSUME Nat \ S # {}
               PROVE  FALSE
    OBVIOUS
  <1>1. \A A \in T : A \in FiniteSubsetsOf(Nat)
    <2> SUFFICES ASSUME NEW m \in Nat PROVE 0..m \in FiniteSubsetsOf(Nat)
      OBVIOUS
    <2>1. IsFiniteSet(0..m)
      BY FS_Interval
    <2> QED BY <2>1 DEF FiniteSubsetsOf
  <1>2. T \subseteq FiniteSubsetsOf(Nat) /\ T # {}
    BY <1>1
  <1> HIDE DEF T
  <1>3. PICK A \in T : \A B \in T : ~ (<<B, A>> \in StrictSubsetOrdering(Nat))
    BY <1>2, FS_StrictSubsetOrderingWellFounded, WFMin
  <1> USE DEF T
  <1>4. PICK m \in Nat \ S : A = 0..m
    OBVIOUS
  <1>5. m # 0 /\ m - 1 \in Nat /\ m - 1 \notin S
    BY <1>4
  <1>6. 0..m-1 \in T /\ 0..m-1 \subseteq 0..m /\ 0..m-1 # 0..m
    <2>1. m \in 0..m /\ m \notin 0..m-1
      OBVIOUS
    <2> QED BY <1>5, <2>1
  <1>7. <<0..m-1, A>> \in StrictSubsetOrdering(Nat)
    BY <1>4, <1>6 DEF StrictSubsetOrdering
  <1> QED BY <1>3, <1>6, <1>7

\* The sum over a set is the recursion g of MapThenFoldSet.
AnyOf(s) == CHOOSE x \in s : TRUE
SumRecursion(g, f, D) ==
    g = [s \in D |-> IF s = {} THEN 0 ELSE f[AnyOf(s)] + g[s \ {AnyOf(s)}]]

\* The sets that the inductions below go through.
UpTo(D, n) == {s \in SUBSET D : Cardinality(s) <= n}

\* A set of D with an element less.
LEMMA SmallerSet ==
    ASSUME NEW D, IsFiniteSet(D), NEW n \in Nat, NEW s \in SUBSET D, NEW x \in s
    PROVE  /\ Cardinality(s) \in Nat /\ IsFiniteSet(s)
           /\ Cardinality(s \ {x}) = Cardinality(s) - 1
           /\ s \in UpTo(D, n + 1) => s \ {x} \in UpTo(D, n)
  <1>1. IsFiniteSet(s)
    BY FS_Subset
  <1>2. Cardinality(s \ {x}) = Cardinality(s) - 1 /\ Cardinality(s) \in Nat
    BY <1>1, FS_RemoveElement, FS_CardinalityType
  <1> QED BY <1>1, <1>2 DEF UpTo

LEMMA AnyOfIsIn == \A s : s # {} => AnyOf(s) \in s
  BY DEF AnyOf

\* The recursion exists, set by set, from the smaller to the larger.
LEMMA SumRecursionExists ==
    ASSUME NEW f, NEW D, IsFiniteSet(D)
    PROVE  \E g : SumRecursion(g, f, SUBSET D)
  <1> DEFINE S == {n \in Nat : \E g : SumRecursion(g, f, UpTo(D, n))}
  <1>1. 0 \in S
    <2>1. UpTo(D, 0) = {{}}
      <3>1. ASSUME NEW s \in UpTo(D, 0) PROVE s = {}
        BY FS_Subset, FS_EmptySet, FS_CardinalityType DEF UpTo
      <3>2. {} \in UpTo(D, 0)
        BY FS_EmptySet DEF UpTo
      <3> QED BY <3>1, <3>2
    <2>2. SumRecursion([s \in {{}} |-> 0], f, {{}})
      BY DEF SumRecursion
    <2> QED BY <2>1, <2>2
  <1>2. ASSUME NEW n \in Nat, n \in S PROVE n + 1 \in S
    <2>1. PICK g : SumRecursion(g, f, UpTo(D, n))
      BY <1>2
    <2> DEFINE h == [s \in UpTo(D, n + 1) |->
                       IF s = {} THEN 0 ELSE f[AnyOf(s)] + g[s \ {AnyOf(s)}]]
    <2>2. ASSUME NEW s \in UpTo(D, n) PROVE s \in UpTo(D, n + 1) /\ h[s] = g[s]
      <3>1. s \in UpTo(D, n + 1)
        BY FS_Subset, FS_CardinalityType DEF UpTo
      <3>2. g[s] = IF s = {} THEN 0 ELSE f[AnyOf(s)] + g[s \ {AnyOf(s)}]
        BY <2>1 DEF SumRecursion
      <3> QED BY <3>1, <3>2
    <2>3. ASSUME NEW s \in UpTo(D, n + 1), s # {} PROVE h[s \ {AnyOf(s)}] = g[s \ {AnyOf(s)}]
      <3>1. s \in SUBSET D /\ AnyOf(s) \in s
        BY <2>3, AnyOfIsIn DEF UpTo
      <3>2. s \ {AnyOf(s)} \in UpTo(D, n)
        BY <3>1, SmallerSet
      <3> HIDE DEF h
      <3> QED BY <2>2, <3>2
    <2>4. DOMAIN h = UpTo(D, n + 1)
          /\ \A s \in UpTo(D, n + 1) : h[s] = IF s = {} THEN 0 ELSE f[AnyOf(s)] + g[s \ {AnyOf(s)}]
      OBVIOUS
    <2> HIDE DEF h
    <2>5. h = [s \in UpTo(D, n + 1) |-> IF s = {} THEN 0 ELSE f[AnyOf(s)] + g[s \ {AnyOf(s)}]]
      BY DEF h
    <2>6. SumRecursion(h, f, UpTo(D, n + 1))
      BY <2>3, <2>5 DEF SumRecursion
    <2> QED BY <2>6
  <1>3. Cardinality(D) \in S
    BY <1>1, <1>2, Induct, FS_CardinalityType
  <1>4. UpTo(D, Cardinality(D)) = SUBSET D
    BY FS_Subset DEF UpTo
  <1> QED BY <1>3, <1>4

\* The sum is what the recursion says of the whole set.
LEMMA SumIsRecursion ==
    ASSUME NEW f, NEW D, IsFiniteSet(D)
    PROVE  \E g : SumRecursion(g, f, SUBSET D) /\ SumFunctionOnSet(f, D) = g[D]
  <1> DEFINE iter == CHOOSE g : g = [s \in SUBSET D |-> IF s = {} THEN 0
                                       ELSE f[AnyOf(s)] + g[s \ {AnyOf(s)}]]
  <1>1. \E g : g = [s \in SUBSET D |-> IF s = {} THEN 0 ELSE f[AnyOf(s)] + g[s \ {AnyOf(s)}]]
    <2>1. PICK g : SumRecursion(g, f, SUBSET D)
      BY SumRecursionExists
    <2>2. g = [s \in SUBSET D |-> IF s = {} THEN 0 ELSE f[AnyOf(s)] + g[s \ {AnyOf(s)}]]
      BY <2>1 DEF SumRecursion
    <2> QED BY <2>2
  <1>2. iter = [s \in SUBSET D |-> IF s = {} THEN 0 ELSE f[AnyOf(s)] + iter[s \ {AnyOf(s)}]]
    BY <1>1
  <1>3. SumFunctionOnSet(f, D) = iter[D]
    BY DEF SumFunctionOnSet, FoldFunctionOnSet, MapThenFoldSet, AnyOf
  <1> HIDE DEF iter
  <1>4. SumRecursion(iter, f, SUBSET D)
    BY <1>2 DEF SumRecursion
  <1> QED BY <1>3, <1>4

\* It does not matter in which order the numbers are added.
LEMMA AnyOrder ==
    ASSUME NEW f, NEW D, NEW g, SumRecursion(g, f, SUBSET D),
           IsFiniteSet(D), \A x \in D : f[x] \in Nat
    PROVE  \A s \in SUBSET D : g[s] \in Nat /\ \A x \in s : g[s] = f[x] + g[s \ {x}]
  <1> DEFINE Right(s) == g[s] \in Nat /\ \A x \in s : g[s] = f[x] + g[s \ {x}]
             S == {n \in Nat : \A s \in UpTo(D, n) : Right(s)}
  <1>0. /\ g[{}] = 0
        /\ \A s \in SUBSET D : s # {} => AnyOf(s) \in s /\ g[s] = f[AnyOf(s)] + g[s \ {AnyOf(s)}]
    BY AnyOfIsIn DEF SumRecursion
  <1>1. 0 \in S
    <2>1. ASSUME NEW s \in UpTo(D, 0) PROVE s = {}
      BY FS_Subset, FS_EmptySet, FS_CardinalityType DEF UpTo
    <2> QED BY <1>0, <2>1
  <1>2. ASSUME NEW n \in Nat, n \in S PROVE n + 1 \in S
    <2>1. ASSUME NEW s \in UpTo(D, n + 1), s # {} PROVE Right(s)
      <3> DEFINE c == AnyOf(s)
      <3>1. s \in SUBSET D /\ c \in s /\ g[s] = f[c] + g[s \ {c}]
        BY <1>0, <2>1 DEF UpTo
      <3>2. \A x \in s : s \ {x} \in UpTo(D, n)
        BY <3>1, SmallerSet
      <3> HIDE DEF c
      <3>3. \A x \in s : Right(s \ {x}) /\ f[x] \in Nat
        BY <1>2, <3>1, <3>2
      <3>4. g[s] \in Nat
        BY <3>1, <3>3
      <3>5. ASSUME NEW x \in s, x # c PROVE g[s] = f[x] + g[s \ {x}]
        <4>1. g[s \ {c}] = f[x] + g[(s \ {c}) \ {x}]
          BY <3>1, <3>3, <3>5
        <4>2. g[s \ {x}] = f[c] + g[(s \ {x}) \ {c}]
          BY <3>1, <3>3, <3>5
        <4>3. (s \ {x}) \ {c} = (s \ {c}) \ {x}
          OBVIOUS
        <4>4. (s \ {c}) \ {x} \in SUBSET D /\ (s \ {c}) \ {x} \in UpTo(D, n)
          <5>1. s \ {c} \in UpTo(D, n) /\ x \in s \ {c} /\ IsFiniteSet(s \ {c})
            BY <3>1, <3>2, <3>5, FS_Subset DEF UpTo
          <5>2. Cardinality((s \ {c}) \ {x}) <= Cardinality(s \ {c})
            BY <5>1, FS_Subset
          <5> QED BY <5>1, <5>2, FS_Subset, FS_CardinalityType DEF UpTo
        <4>5. g[(s \ {c}) \ {x}] \in Nat
          BY <1>2, <4>4
        <4>6. f[x] \in Nat /\ f[c] \in Nat
          BY <3>1, <3>3
        <4>7. g[s] = f[c] + (f[x] + g[(s \ {c}) \ {x}]) /\ g[s \ {x}] = f[c] + g[(s \ {c}) \ {x}]
          BY <3>1, <4>1, <4>2, <4>3
        <4> QED BY ONLY <4>5, <4>6, <4>7
      <3> QED BY <3>1, <3>4, <3>5
    <2>2. Right({})
      BY <1>0
    <2> HIDE DEF Right
    <2>3. \A s \in UpTo(D, n + 1) : Right(s)
      BY ONLY <2>1, <2>2
    <2> QED BY <2>3
  <1>3. Cardinality(D) \in S
    BY <1>1, <1>2, Induct, FS_CardinalityType
  <1>4. UpTo(D, Cardinality(D)) = SUBSET D
    BY FS_Subset DEF UpTo
  <1> QED BY <1>3, <1>4

\* What is not in the set does not count.
LEMMA SameRecursion ==
    ASSUME NEW f, NEW h, NEW D, NEW g, NEW k, SumRecursion(g, f, SUBSET D),
           SumRecursion(k, h, SUBSET D), IsFiniteSet(D), \A x \in D : f[x] = h[x]
    PROVE  \A s \in SUBSET D : g[s] = k[s]
  <1> DEFINE S == {n \in Nat : \A s \in UpTo(D, n) : g[s] = k[s]}
  <1>0. /\ g[{}] = 0 /\ k[{}] = 0
        /\ \A s \in SUBSET D : s # {} => /\ AnyOf(s) \in s
                                        /\ g[s] = f[AnyOf(s)] + g[s \ {AnyOf(s)}]
                                        /\ k[s] = h[AnyOf(s)] + k[s \ {AnyOf(s)}]
    BY AnyOfIsIn DEF SumRecursion
  <1>1. 0 \in S
    <2>1. ASSUME NEW s \in UpTo(D, 0) PROVE s = {}
      BY FS_Subset, FS_EmptySet, FS_CardinalityType DEF UpTo
    <2> QED BY <1>0, <2>1
  <1>2. ASSUME NEW n \in Nat, n \in S PROVE n + 1 \in S
    <2>1. ASSUME NEW s \in UpTo(D, n + 1), s # {} PROVE g[s] = k[s]
      <3>1. s \in SUBSET D /\ AnyOf(s) \in s /\ AnyOf(s) \in D
        BY <1>0, <2>1 DEF UpTo
      <3>2. s \ {AnyOf(s)} \in UpTo(D, n)
        BY <3>1, SmallerSet
      <3>3. g[s \ {AnyOf(s)}] = k[s \ {AnyOf(s)}]
        BY <1>2, <3>2
      <3> QED BY <1>0, <2>1, <3>1, <3>3
    <2>2. g[{}] = k[{}]
      BY <1>0
    <2>3. \A s \in UpTo(D, n + 1) : g[s] = k[s]
      BY ONLY <2>1, <2>2
    <2> QED BY <2>3
  <1>3. Cardinality(D) \in S
    BY <1>1, <1>2, Induct, FS_CardinalityType
  <1>4. UpTo(D, Cardinality(D)) = SUBSET D
    BY FS_Subset DEF UpTo
  <1> QED BY <1>3, <1>4

\* The three facts about sums that the rest needs.
LEMMA SumOfNone == ASSUME NEW f PROVE SumFunctionOnSet(f, {}) = 0
  <1>1. PICK g : SumRecursion(g, f, SUBSET {}) /\ SumFunctionOnSet(f, {}) = g[{}]
    BY SumIsRecursion, FS_EmptySet
  <1>2. g[{}] = 0
    BY <1>1 DEF SumRecursion
  <1> QED BY <1>1, <1>2

LEMMA SumOfMore ==
    ASSUME NEW f, NEW D, IsFiniteSet(D), NEW x, x \notin D, \A y \in D \cup {x} : f[y] \in Nat
    PROVE  /\ SumFunctionOnSet(f, D) \in Nat
           /\ SumFunctionOnSet(f, D \cup {x}) = SumFunctionOnSet(f, D) + f[x]
  <1>1. PICK E : E = D \cup {x}
    OBVIOUS
  <1>2. IsFiniteSet(E) /\ D \subseteq E /\ \A y \in E : f[y] \in Nat
    BY <1>1, FS_AddElement
  <1>3. PICK g : SumRecursion(g, f, SUBSET D) /\ SumFunctionOnSet(f, D) = g[D]
    BY SumIsRecursion
  <1>4. PICK k : SumRecursion(k, f, SUBSET E) /\ SumFunctionOnSet(f, E) = k[E]
    BY <1>2, SumIsRecursion
  <1>5. \A s \in SUBSET D : g[s] = k[s]
    <2>1. PICK h : h = f
      OBVIOUS
    <2>2. PICK r : r = [s \in SUBSET D |-> k[s]]
      OBVIOUS
    <2>3. r = [s \in SUBSET D |-> IF s = {} THEN 0 ELSE h[AnyOf(s)] + r[s \ {AnyOf(s)}]]
      <3>1. ASSUME NEW s \in SUBSET D
            PROVE  r[s] = IF s = {} THEN 0 ELSE h[AnyOf(s)] + r[s \ {AnyOf(s)}]
        <4>1. s \in SUBSET E /\ s \ {AnyOf(s)} \in SUBSET D
          BY <1>2
        <4>2. k[s] = IF s = {} THEN 0 ELSE f[AnyOf(s)] + k[s \ {AnyOf(s)}]
          BY <4>1, <1>4 DEF SumRecursion
        <4> QED BY <2>1, <2>2, <4>1, <4>2
      <3> QED BY <2>2, <3>1
    <2>4. SumRecursion(r, h, SUBSET D)
      BY <2>3 DEF SumRecursion
    <2>5. SumRecursion(g, f, SUBSET D) /\ \A y \in D : f[y] = h[y]
      BY <1>3, <2>1
    <2>6. \A s \in SUBSET D : g[s] = r[s]
      BY ONLY <2>4, <2>5, SameRecursion, IsFiniteSet(D)
    <2> QED BY <2>2, <2>6
  <1>6. \A s \in SUBSET E : k[s] \in Nat /\ \A y \in s : k[s] = f[y] + k[s \ {y}]
    BY ONLY <1>2, <1>4, AnyOrder
  <1>7. E \in SUBSET E /\ D \in SUBSET E /\ D \in SUBSET D /\ E \ {x} = D /\ x \in E
    BY <1>1
  <1>8. k[E] = f[x] + k[D] /\ k[D] \in Nat /\ f[x] \in Nat /\ g[D] = k[D]
    BY <1>2, <1>5, <1>6, <1>7
  <1> QED BY <1>1, <1>3, <1>4, <1>8

LEMMA SumOfSame ==
    ASSUME NEW f, NEW h, NEW D, IsFiniteSet(D), \A x \in D : f[x] = h[x]
    PROVE  SumFunctionOnSet(f, D) = SumFunctionOnSet(h, D)
  <1>1. PICK g : SumRecursion(g, f, SUBSET D) /\ SumFunctionOnSet(f, D) = g[D]
    BY SumIsRecursion
  <1>2. PICK k : SumRecursion(k, h, SUBSET D) /\ SumFunctionOnSet(h, D) = k[D]
    BY SumIsRecursion
  <1>4. \A s \in SUBSET D : g[s] = k[s]
    BY ONLY <1>1, <1>2, SameRecursion, IsFiniteSet(D), \A x \in D : f[x] = h[x]
  <1> QED BY <1>1, <1>2, <1>4

-----------------------------------------------------------------------------
(* The packets of a sector, in turn.                                       *)

\* What TakePackets begins with.
Fresh == [frame |-> frame, packets |-> packets, delivered |-> delivered, counter |-> 1]

\* g is the recursion that FoldLeft does, for the packets 1..n.
Recursion(g, n, sector) ==
    g = [s \in SUBSET (1..n) |->
            IF s = {} THEN Fresh
            ELSE TakePacket(g[s \ {Max(s)}], sector.packets[Max(s)], sector)]

\* The fold takes the last packet last.
LEMMA MaxOfTop == ASSUME NEW n \in Nat, NEW s \in SUBSET (1..n), n \in s PROVE Max(s) = n
  <1>1. \A x \in s : (\A y \in s : x >= y) <=> x = n
    OBVIOUS
  <1>2. Max(s) = CHOOSE x \in s : x = n
    BY <1>1 DEF Max
  <1> QED BY <1>2

\* The recursion exists for any number of packets.
LEMMA RecursionExists == ASSUME NEW sector PROVE \A n \in Nat : \E g : Recursion(g, n, sector)
  <1> DEFINE S == {n \in Nat : \E g : Recursion(g, n, sector)}
  <1>1. 0 \in S
    <2> DEFINE g == [s \in SUBSET (1..0) |-> Fresh]
    <2>1. SUBSET (1..0) = {{}}
      OBVIOUS
    <2>2. g = [s \in SUBSET (1..0) |-> IF s = {} THEN Fresh
              ELSE TakePacket(g[s \ {Max(s)}], sector.packets[Max(s)], sector)]
      BY ONLY <2>1
    <2> QED BY <2>2 DEF Recursion
  <1>2. ASSUME NEW n \in Nat, n \in S PROVE n + 1 \in S
    <2>1. PICK g : Recursion(g, n, sector)
      BY <1>2
    <2> DEFINE h == [s \in SUBSET (1..n + 1) |->
                       IF s \in SUBSET (1..n) THEN g[s]
                       ELSE TakePacket(g[s \ {n + 1}], sector.packets[n + 1], sector)]
    <2>2. ASSUME NEW s \in SUBSET (1..n + 1)
          PROVE  h[s] = IF s = {} THEN Fresh
                        ELSE TakePacket(h[s \ {Max(s)}], sector.packets[Max(s)], sector)
      <3>1. CASE s \in SUBSET (1..n)
        <4>1. h[s] = g[s] /\ h[s \ {Max(s)}] = g[s \ {Max(s)}]
          BY <3>1
        <4>2. g[s] = IF s = {} THEN Fresh
                     ELSE TakePacket(g[s \ {Max(s)}], sector.packets[Max(s)], sector)
          BY <2>1, <3>1 DEF Recursion
        <4> QED BY <4>1, <4>2
      <3>2. CASE s \notin SUBSET (1..n)
        <4>1. n + 1 \in s /\ s # {}
          BY <3>2
        <4>2. Max(s) = n + 1
          BY <4>1, MaxOfTop
        <4>3. s \ {n + 1} \in SUBSET (1..n)
          OBVIOUS
        <4>4. s \ {n + 1} \in SUBSET (1..n + 1)
          OBVIOUS
        <4>5. h[s] = TakePacket(g[s \ {n + 1}], sector.packets[n + 1], sector)
          BY <3>2
        <4>6. h[s \ {n + 1}] = g[s \ {n + 1}]
          BY <4>3, <4>4
        <4> HIDE DEF h
        <4> QED BY <4>1, <4>2, <4>5, <4>6
      <3> QED BY <3>1, <3>2
    <2>3. DOMAIN h = SUBSET (1..n + 1) /\ h = [s \in SUBSET (1..n + 1) |-> h[s]]
      OBVIOUS
    <2> HIDE DEF h
    <2>4. h = [s \in SUBSET (1..n + 1) |-> IF s = {} THEN Fresh
                        ELSE TakePacket(h[s \ {Max(s)}], sector.packets[Max(s)], sector)]
      BY <2>2, <2>3
    <2>5. Recursion(h, n + 1, sector)
      BY <2>4 DEF Recursion
    <2> QED BY <2>5
  <1> QED BY <1>1, <1>2, Induct

\* TakePackets is that recursion, up to the last packet.
LEMMA PacketsInTurn ==
    ASSUME NEW sector, DOMAIN sector.packets = 1..Len(sector.packets), Len(sector.packets) \in Nat
    PROVE  \E g : /\ Recursion(g, Len(sector.packets), sector)
                  /\ TakePackets(sector) = g[1..Len(sector.packets)]
  <1> DEFINE n == Len(sector.packets)
             iter == CHOOSE g : Recursion(g, n, sector)
  <1>1. Recursion(iter, n, sector)
        BY RecursionExists
  <1>2. TakePackets(sector) = iter[1..n]
        BY DEF TakePackets, FoldLeft, MapThenFoldSet, Recursion, Fresh
  <1> QED BY <1>1, <1>2

-----------------------------------------------------------------------------
(* What a frame of the track is, in the packets ps.                        *)

Packets == [start : BOOLEAN, length : Nat, dst : BOOLEAN, count : Nat]
Frames == [first : Nat, last : Nat]
SizeIn(ps, i, j) == SumFunctionOnSet([k \in 1..Len(ps) |-> ps[k].length], i..j)

\* The packets i..j have their only start at i.
OneStart(ps, i, j) == /\ i \in 1..Len(ps) /\ j \in i..Len(ps) /\ ps[i].start
                      /\ \A k \in i + 1..j : ~ps[k].start
\* They fit, and have the packets or the size that they should have.
Whole(ps, i, j) == /\ SizeIn(ps, i, j) \in 1..MaxDst - 1
                   /\ IF ps[i].dst THEN j - i + 1 = ps[i].count
                      ELSE SizeIn(ps, i, j) % FrameSize = 0

\* They are a whole frame, which ends at m or before.
IsGiven(ps, m, i, j) == /\ OneStart(ps, i, j) /\ Whole(ps, i, j) /\ j <= m
                        /\ j < Len(ps) => ps[j + 1].start

\* The frames of d are those, each once and in order.
Delivers(d, ps, m) ==
    /\ d \in Seq(Frames)
    /\ \A k \in 1..Len(d) : IsGiven(ps, m, d[k].first, d[k].last)
    /\ \A i, j \in Nat : IsGiven(ps, m, i, j) =>
          \E k \in 1..Len(d) : d[k].first = i /\ d[k].last = j
    /\ \A k, l \in 1..Len(d) : k < l => d[k].last < d[l].first

\* No packets have no length.
LEMMA SizeOfNone == ASSUME NEW ps, NEW i \in Nat, NEW j \in Nat, j < i PROVE SizeIn(ps, i, j) = 0
  <1>1. i..j = {}
    OBVIOUS
  <1> QED BY <1>1, SumOfNone DEF SizeIn

\* A packet more adds its length.
LEMMA SizeIsNat ==
    ASSUME NEW ps \in Seq(Packets), NEW i \in 1..Len(ps), NEW j \in i..Len(ps)
    PROVE  /\ SizeIn(ps, i, j) \in Nat
           /\ SizeIn(ps, i, j) = SizeIn(ps, i, j - 1) + ps[j].length
           /\ SizeIn(ps, i, j - 1) \in Nat
  <1> DEFINE f == [k \in 1..Len(ps) |-> ps[k].length]
  <1>1. ASSUME NEW k \in 1..Len(ps) PROVE f[k] = ps[k].length /\ f[k] \in Nat
    <2>1. ps[k] \in Packets
      OBVIOUS
    <2> QED BY <2>1 DEF Packets
  <1>2. PICK D : D = i..j - 1
    OBVIOUS
  <1>3. IsFiniteSet(D) /\ j \notin D /\ D \cup {j} = i..j /\ D \cup {j} \subseteq 1..Len(ps)
    <2>1. IsFiniteSet(i..j - 1)
      BY FS_Interval
    <2>2. j \notin i..j - 1 /\ (i..j - 1) \cup {j} = i..j /\ i..j \subseteq 1..Len(ps)
      OBVIOUS
    <2> QED BY <1>2, <2>1, <2>2
  <1> HIDE DEF f
  <1>4. \A k \in D \cup {j} : f[k] \in Nat
    BY <1>1, <1>3
  <1>5. SumFunctionOnSet(f, D) \in Nat /\ SumFunctionOnSet(f, D \cup {j}) = SumFunctionOnSet(f, D) + f[j]
    BY <1>3, <1>4, SumOfMore
  <1>6. f[j] = ps[j].length /\ f[j] \in Nat
    BY <1>1
  <1>7. SizeIn(ps, i, j) = SumFunctionOnSet(f, i..j) /\ SizeIn(ps, i, j - 1) = SumFunctionOnSet(f, D)
    BY <1>2 DEF SizeIn, f
  <1>8. SizeIn(ps, i, j) = SizeIn(ps, i, j - 1) + ps[j].length
    BY ONLY <1>3, <1>5, <1>6, <1>7
  <1>9. SizeIn(ps, i, j - 1) \in Nat /\ ps[j].length \in Nat
    BY ONLY <1>5, <1>6, <1>7
  <1> HIDE DEF f
  <1> QED BY ONLY <1>8, <1>9

\* The packets before have the length they had.
LEMMA SizeIsKept ==
    ASSUME NEW ps \in Seq(Packets), NEW p \in Packets, NEW i \in Nat \ {0}, NEW j \in Nat, j <= Len(ps)
    PROVE  SizeIn(Append(ps, p), i, j) = SizeIn(ps, i, j)
  <1> DEFINE qs == Append(ps, p)
             f == [k \in 1..Len(ps) |-> ps[k].length]
             h == [k \in 1..Len(qs) |-> qs[k].length]
  <1>1. IsFiniteSet(i..j)
    BY FS_Interval
  <1>2. \A k \in i..j : h[k] = f[k]
    OBVIOUS
  <1> HIDE DEF f, h
  <1>3. SumFunctionOnSet(h, i..j) = SumFunctionOnSet(f, i..j)
    BY <1>1, <1>2, SumOfSame
  <1> QED BY <1>3 DEF SizeIn, f, h

\* A packet more: the frames before are the frames they were, and the last one ends
\* if the packet starts another.
LEMMA WholeIsKept ==
    ASSUME NEW ps \in Seq(Packets), NEW p \in Packets, NEW i \in Nat, NEW j \in Nat
    PROVE  /\ j <= Len(ps) => (OneStart(Append(ps, p), i, j) <=> OneStart(ps, i, j))
           /\ j <= Len(ps) /\ OneStart(ps, i, j) => (Whole(Append(ps, p), i, j) <=> Whole(ps, i, j))
  <1> DEFINE qs == Append(ps, p)
  <1>1. Len(qs) = Len(ps) + 1 /\ \A k \in 1..Len(ps) : qs[k] = ps[k]
    OBVIOUS
  <1>2. ASSUME j <= Len(ps), i # 0 PROVE SizeIn(qs, i, j) = SizeIn(ps, i, j)
    BY <1>2, SizeIsKept
  <1> HIDE DEF qs
  <1>3. ASSUME j <= Len(ps) PROVE OneStart(qs, i, j) <=> OneStart(ps, i, j)
    BY <1>1, <1>3 DEF OneStart
  <1>4. ASSUME j <= Len(ps), OneStart(ps, i, j) PROVE Whole(qs, i, j) <=> Whole(ps, i, j)
    <2>1. i # 0 /\ qs[i] = ps[i]
      BY <1>1, <1>4 DEF OneStart
    <2> QED BY <1>2, <1>4, <2>1 DEF Whole
  <1> QED BY <1>3, <1>4 DEF qs

LEMMA GivenIsKept ==
    ASSUME NEW ps \in Seq(Packets), NEW p \in Packets, NEW i \in Nat, NEW j \in Nat
    PROVE  /\ p.start => (IsGiven(Append(ps, p), Len(ps), i, j) <=> IsGiven(ps, Len(ps), i, j))
           /\ ~p.start => (IsGiven(Append(ps, p), Len(ps), i, j) <=> IsGiven(ps, Len(ps) - 1, i, j))
  <1> DEFINE qs == Append(ps, p)
             n == Len(ps)
  <1>1. Len(qs) = n + 1 /\ qs[n + 1] = p /\ (\A k \in 1..n : qs[k] = ps[k]) /\ n \in Nat
    OBVIOUS
  <1>2. ASSUME j <= n PROVE (OneStart(qs, i, j) /\ Whole(qs, i, j)) <=> (OneStart(ps, i, j) /\ Whole(ps, i, j))
    BY <1>2, WholeIsKept
  <1> HIDE DEF qs, n
  <1>3. ASSUME j < n PROVE IsGiven(qs, n, i, j) <=> IsGiven(ps, n, i, j) /\ IsGiven(ps, n - 1, i, j)
    <2>1. n = Len(ps) /\ (j + 1 \in 1..n) /\ qs[j + 1] = ps[j + 1]
      BY <1>1, <1>3 DEF n
    <2> QED BY <1>1, <1>2, <1>3, <2>1 DEF IsGiven
  <1>4. ASSUME j = n PROVE /\ p.start => (IsGiven(qs, n, i, j) <=> IsGiven(ps, n, i, j))
                           /\ ~p.start => ~IsGiven(qs, n, i, j) /\ ~IsGiven(ps, n - 1, i, j)
    <2>1. n = Len(ps)
      BY DEF n
    <2> QED BY <1>1, <1>2, <1>4, <2>1 DEF IsGiven
  <1>5. ASSUME j > n PROVE ~IsGiven(qs, n, i, j) /\ ~IsGiven(ps, n, i, j) /\ ~IsGiven(ps, n - 1, i, j)
    BY <1>1, <1>5 DEF IsGiven
  <1>6. IsGiven(ps, n - 1, i, j) /\ j < n <=> IsGiven(ps, n, i, j) /\ j < n
    BY <1>1 DEF IsGiven
  <1> QED BY <1>1, <1>3, <1>4, <1>5, <1>6 DEF qs, n

-----------------------------------------------------------------------------
(* One packet.  a is an assembly: the frame under construction, the packets *)
(* so far, what was delivered, and which frame info is next.               *)

Assemblies == [frame : [started : BOOLEAN, size : 0..MaxDst - 1, dst : BOOLEAN, sectorCount : Int,
                        first : Nat, last : Nat],
               packets : Seq(Packets), delivered : Seq(Frames), counter : Nat]

\* The frame under construction has all the packets since its start, or it is
\* given up because they do not fit.
OpenOK(f, ps) ==
    IF f.started
    THEN /\ OneStart(ps, f.first, Len(ps)) /\ f.last = Len(ps)
         /\ f.size = SizeIn(ps, f.first, Len(ps)) /\ f.dst = ps[f.first].dst
         /\ f.dst => f.sectorCount = ps[f.first].count - (Len(ps) - f.first + 1)
    ELSE \A i \in Nat : OneStart(ps, i, Len(ps)) => SizeIn(ps, i, Len(ps)) >= MaxDst

AssemblyOK(a) ==
    /\ a \in Assemblies
    /\ a.frame.first <= Len(a.packets) /\ a.frame.last <= Len(a.packets)
    /\ OpenOK(a.frame, a.packets)
    /\ Delivers(a.delivered, a.packets, Len(a.packets) - 1)

\* The callback is given the last frame if it is whole.
LEMMA DeliverableIsWhole ==
    ASSUME NEW a, AssemblyOK(a), NEW i \in Nat
    PROVE  IsGiven(a.packets, Len(a.packets), i, Len(a.packets)) <=> Deliverable(a.frame) /\ i = a.frame.first
  <1> DEFINE ps == a.packets
             n == Len(ps)
             f == a.frame
  <1>1. /\ ps \in Seq(Packets) /\ n \in Nat /\ f.started \in BOOLEAN /\ f.dst \in BOOLEAN
        /\ f.size \in Nat /\ f.size <= MaxDst - 1 /\ f.first \in Nat /\ f.sectorCount \in Int /\ OpenOK(f, ps)
    BY SizesAssumption DEF AssemblyOK, Assemblies
  <1> HIDE DEF f, ps
  <1>2. IsGiven(ps, n, i, n) <=> OneStart(ps, i, n) /\ Whole(ps, i, n)
    BY <1>1 DEF IsGiven
  <1>3. CASE f.started
    <2>1. /\ OneStart(ps, f.first, n) /\ f.size = SizeIn(ps, f.first, n) /\ f.dst = ps[f.first].dst
          /\ f.dst => f.sectorCount = ps[f.first].count - (n - f.first + 1)
      BY <1>1, <1>3 DEF OpenOK
    <2>2. OneStart(ps, i, n) <=> i = f.first
      BY <1>1, <2>1 DEF OneStart
    <2>3. ps[f.first].count \in Nat
      <3>1. ps[f.first] \in Packets
        BY <1>1, <2>1 DEF OneStart
      <3> QED BY <3>1 DEF Packets
    <2>4. Whole(ps, f.first, n) <=> Deliverable(f)
      <3>1. f.size \in 1..MaxDst - 1 <=> f.size > 0
        BY <1>1, SizesAssumption
      <3>2. f.dst => (n - f.first + 1 = ps[f.first].count <=> f.sectorCount = 0)
        BY <1>1, <2>1, <2>3
      <3> QED BY <1>3, <2>1, <3>1, <3>2 DEF Whole, Deliverable
    <2> QED BY <1>2, <2>2, <2>4 DEF f, ps
  <1>4. CASE ~f.started
    <2>1. OneStart(ps, i, n) => SizeIn(ps, i, n) >= MaxDst
      BY <1>1, <1>4 DEF OpenOK
    <2>2. OneStart(ps, i, n) => ~Whole(ps, i, n)
      BY <2>1, SizesAssumption DEF Whole
    <2> QED BY <1>2, <1>4, <2>2 DEF f, ps, Deliverable
  <1> QED BY <1>1, <1>3, <1>4

\* So after exec_read_callback every whole frame up to here is delivered.
LEMMA ExecDelivers ==
    ASSUME NEW a, AssemblyOK(a)
    PROVE  LET e == ExecReadCallback(a) IN
             /\ e \in Assemblies /\ e.packets = a.packets /\ e.counter = a.counter
             /\ e.frame.first = a.frame.first /\ e.frame.last = a.frame.last
             /\ Delivers(e.delivered, a.packets, Len(a.packets))
  <1> DEFINE e == ExecReadCallback(a)
             ps == a.packets
             n == Len(ps)
             d == a.delivered
  <1>1. a \in Assemblies /\ ps \in Seq(Packets) /\ n \in Nat /\ d \in Seq(Frames) /\ Delivers(d, ps, n - 1)
    BY DEF AssemblyOK, Assemblies
  <1>0. ASSUME NEW k \in 1..Len(d) PROVE d[k].first \in Nat /\ d[k].last \in Nat
    <2>1. d[k] \in Frames
      BY <1>1
    <2> QED BY <2>1 DEF Frames
  <1>2. ASSUME NEW i \in Nat, NEW j \in Nat
        PROVE  IsGiven(ps, n, i, j) <=> IsGiven(ps, n - 1, i, j) \/ (j = n /\ IsGiven(ps, n, i, n))
    BY <1>1 DEF IsGiven
  <1>3. CASE ~Deliverable(a.frame)
    <2>1. e = a
      BY <1>3 DEF ExecReadCallback
    <2>2. \A i, j \in Nat : IsGiven(ps, n, i, j) <=> IsGiven(ps, n - 1, i, j)
      BY <1>2, <1>3, DeliverableIsWhole
    <2>3. \A k \in 1..Len(d) : d[k].first \in Nat /\ d[k].last \in Nat
      BY <1>0
    <2>4. Delivers(d, ps, n)
      BY <1>1, <2>2, <2>3 DEF Delivers
    <2> QED BY <1>1, <2>1, <2>4
  <1>4. CASE Deliverable(a.frame)
    <2> DEFINE new == [first |-> a.frame.first, last |-> a.frame.last]
               r == Append(d, new)
    <2>0. a.frame.first \in Nat /\ a.frame.last \in Nat /\ new \in Frames
      BY <1>1 DEF Assemblies, Frames
    <2>1. /\ e \in Assemblies /\ e.packets = ps /\ e.counter = a.counter /\ e.delivered = r
          /\ e.frame.first = a.frame.first /\ e.frame.last = a.frame.last
      <3>1. e = [a EXCEPT !.frame = [@ EXCEPT !.started = FALSE], !.delivered = r]
        BY <1>1, <1>4 DEF ExecReadCallback, Assemblies
      <3>2. r \in Seq(Frames)
        BY <1>1, <2>0
      <3> HIDE DEF e, r, new
      <3> QED BY <1>1, <3>1, <3>2 DEF Assemblies
    <2>2. a.frame.first \in Nat /\ a.frame.last = n
      BY <1>4 DEF AssemblyOK, Assemblies, OpenOK, Deliverable
    <2>3. IsGiven(ps, n, a.frame.first, n)
      BY <1>4, <2>2, DeliverableIsWhole
    <2>4. \A i, j \in Nat : IsGiven(ps, n, i, j) <=>
             IsGiven(ps, n - 1, i, j) \/ (i = a.frame.first /\ j = n)
      BY <1>2, <1>4, DeliverableIsWhole
    <2>5. /\ r \in Seq(Frames) /\ Len(r) = Len(d) + 1 /\ Len(d) \in Nat
          /\ r[Len(d) + 1].first = a.frame.first /\ r[Len(d) + 1].last = n
          /\ \A k \in 1..Len(d) : r[k] = d[k] /\ d[k].first \in Nat /\ d[k].last \in Nat
      <3>1. r \in Seq(Frames) /\ Len(r) = Len(d) + 1 /\ Len(d) \in Nat /\ r[Len(d) + 1] = new
            /\ \A k \in 1..Len(d) : r[k] = d[k]
        BY <1>1, <2>0
      <3> QED BY <1>0, <2>2, <3>1
    <2>6. /\ \A k \in 1..Len(d) : IsGiven(ps, n - 1, d[k].first, d[k].last)
          /\ \A i, j \in Nat : IsGiven(ps, n - 1, i, j) => \E k \in 1..Len(d) : d[k].first = i /\ d[k].last = j
          /\ \A k, l \in 1..Len(d) : k < l => d[k].last < d[l].first
      BY <1>1 DEF Delivers
    <2>7. \A k \in 1..Len(d) : d[k].last < a.frame.first
      <3>1. ASSUME NEW k \in 1..Len(d) PROVE d[k].last < a.frame.first
        <4>1. PICK i \in Nat, j \in Nat : d[k].first = i /\ d[k].last = j
          BY <2>5
        <4>2. i \in 1..n /\ j \in i..n /\ j <= n - 1 /\ ps[j + 1].start
          <5>1. IsGiven(ps, n - 1, i, j)
            BY <2>6, <4>1
          <5> QED BY <1>1, <5>1 DEF IsGiven, OneStart
        <4>3. PICK first \in 1..n : first = a.frame.first /\ \A x \in first + 1..n : ~ps[x].start
          BY <2>3 DEF IsGiven, OneStart
        <4>4. j + 1 \notin first + 1..n
          BY <4>2, <4>3
        <4>5. j < first
          BY ONLY <4>2, <4>4, n \in Nat, j \in Nat, first \in 1..n
        <4> QED BY <4>1, <4>3, <4>5
      <3> QED BY <3>1
    <2> HIDE DEF r, new, d, n, ps
    <2>8. \A k \in 1..Len(r) : IsGiven(ps, n, r[k].first, r[k].last)
      <3>1. ASSUME NEW k \in 1..Len(r), k # Len(d) + 1 PROVE k \in 1..Len(d)
        BY <2>5, <3>1
      <3> QED BY <2>3, <2>4, <2>5, <2>6, <3>1
    <2>9. \A i, j \in Nat : IsGiven(ps, n, i, j) => \E k \in 1..Len(r) : r[k].first = i /\ r[k].last = j
      <3>1. ASSUME NEW i \in Nat, NEW j \in Nat, IsGiven(ps, n - 1, i, j)
            PROVE  \E k \in 1..Len(r) : r[k].first = i /\ r[k].last = j
        <4>1. PICK k \in 1..Len(d) : d[k].first = i /\ d[k].last = j
          BY <2>6, <3>1
        <4>2. k \in 1..Len(r) /\ r[k] = d[k]
          BY <2>5
        <4> QED BY <4>1, <4>2
      <3>2. Len(d) + 1 \in 1..Len(r)
        BY <2>5
      <3>3. \E k \in 1..Len(r) : r[k].first = a.frame.first /\ r[k].last = n
        BY <2>5, <3>2
      <3> QED BY ONLY <2>4, <3>1, <3>3, SMTT(30)
    <2>10. \A k, l \in 1..Len(r) : k < l => r[k].last < r[l].first
      <3>1. ASSUME NEW k \in 1..Len(r), NEW l \in 1..Len(r), k < l
            PROVE  r[k].last < r[l].first
        <4>1. k \in 1..Len(d) /\ r[k] = d[k]
          BY <2>5, <3>1
        <4>2. CASE l = Len(d) + 1
          BY <2>5, <2>7, <4>1, <4>2
        <4>3. CASE l # Len(d) + 1
          <5>1. l \in 1..Len(d) /\ r[l] = d[l]
            BY <2>5, <4>3
          <5> QED BY <2>6, <3>1, <4>1, <5>1
        <4> QED BY <4>2, <4>3
      <3> QED BY <3>1
    <2>11. Delivers(r, ps, n)
      BY <2>5, <2>8, <2>9, <2>10 DEF Delivers
    <2> QED BY <2>1, <2>11 DEF n, ps
  <1> QED BY <1>3, <1>4

\* The frame that the packet p belongs to, before its data are appended.
ReadyFor(f, ps, p) ==
    LET qs == Append(ps, p)
        n == Len(ps) IN
    IF f.started
    THEN /\ OneStart(qs, f.first, n + 1) /\ f.size = SizeIn(qs, f.first, n) /\ f.dst = qs[f.first].dst
         /\ f.dst => f.sectorCount = qs[f.first].count - (n - f.first + 1)
    ELSE \A i \in Nat : OneStart(qs, i, n + 1) => SizeIn(qs, i, n) >= MaxDst

\* The data of a packet are appended, or the frame is given up.
LEMMA AppendKeeps ==
    ASSUME NEW s, s \in Assemblies, NEW p \in Packets, NEW packet, packet.length = p.length,
           s.frame.first <= Len(s.packets) + 1, s.frame.last <= Len(s.packets),
           ReadyFor(s.frame, s.packets, p), Delivers(s.delivered, Append(s.packets, p), Len(s.packets))
    PROVE  LET b == [AppendPacket(s, packet) EXCEPT !.packets = Append(@, p)] IN
             AssemblyOK(b) /\ b.counter = s.counter
  <1> DEFINE ps == s.packets
             n == Len(ps)
             qs == Append(ps, p)
             f == s.frame
             b == [AppendPacket(s, packet) EXCEPT !.packets = Append(@, p)]
  <1>0. SUFFICES AssemblyOK(b) /\ b.counter = s.counter
    OBVIOUS
  <1>1. /\ ps \in Seq(Packets) /\ n \in Nat /\ s.delivered \in Seq(Frames) /\ s.counter \in Nat
        /\ f \in [started : BOOLEAN, size : 0..MaxDst - 1, dst : BOOLEAN, sectorCount : Int, first : Nat, last : Nat]
        /\ s = [frame |-> f, packets |-> ps, delivered |-> s.delivered, counter |-> s.counter]
    BY DEF Assemblies
  <1>2. qs \in Seq(Packets) /\ Len(qs) = n + 1 /\ qs[n + 1] = p
    BY <1>1
  <1>3. p.length \in Nat
    BY DEF Packets
  <1>4. /\ f.started \in BOOLEAN /\ f.dst \in BOOLEAN /\ f.size \in Nat /\ f.size <= MaxDst - 1
        /\ f.sectorCount \in Int /\ f.first \in Nat /\ f.last \in Nat
    BY <1>1, SizesAssumption
  <1>5. ASSUME NEW i \in Nat, OneStart(qs, i, n + 1)
        PROVE  /\ SizeIn(qs, i, n + 1) = SizeIn(qs, i, n) + p.length
               /\ SizeIn(qs, i, n) \in Nat /\ SizeIn(qs, i, n + 1) \in Nat
    <2>1. i \in 1..Len(qs) /\ n + 1 \in i..Len(qs) /\ (n + 1) - 1 = n
      BY <1>1, <1>2, <1>5 DEF OneStart
    <2> QED BY <1>2, <2>1, SizeIsNat
  <1> HIDE DEF f, ps, qs
  <1>6. CASE ~f.started
    <2>1. b = [frame |-> f, packets |-> qs, delivered |-> s.delivered, counter |-> s.counter]
      <3>1. AppendPacket(s, packet) = s
        BY <1>6 DEF AppendPacket, f
      <3>2. AppendPacket(s, packet) = [frame |-> f, packets |-> ps, delivered |-> s.delivered, counter |-> s.counter]
        BY <1>1, <3>1
      <3> QED BY <3>2, SMTT(30) DEF qs, ps
    <2>2. \A i \in Nat : OneStart(qs, i, n + 1) => SizeIn(qs, i, n) >= MaxDst
      BY <1>6 DEF ReadyFor, f, ps, qs
    <2>3. OpenOK(f, qs)
      <3>1. ASSUME NEW i \in Nat, OneStart(qs, i, n + 1) PROVE SizeIn(qs, i, n + 1) >= MaxDst
        BY <1>3, <1>5, <2>2, <3>1, SizesAssumption
      <3> QED BY <1>2, <1>6, <3>1 DEF OpenOK
    <2>4. b \in Assemblies
      BY <1>1, <1>2, <2>1 DEF Assemblies
    <2>5. Delivers(s.delivered, qs, Len(qs) - 1) /\ f.first <= n + 1 /\ f.last <= n + 1
      BY <1>1, <1>2, <1>4 DEF f, ps, qs
    <2> HIDE DEF b
    <2> QED BY <1>2, <2>1, <2>3, <2>4, <2>5 DEF AssemblyOK
  <1>7. CASE f.started
    <2>1. /\ OneStart(qs, f.first, n + 1) /\ f.size = SizeIn(qs, f.first, n) /\ f.dst = qs[f.first].dst
          /\ f.dst => f.sectorCount = qs[f.first].count - (n - f.first + 1)
      BY <1>7 DEF ReadyFor, f, ps, qs
    <2>2. SizeIn(qs, f.first, n + 1) = f.size + p.length /\ f.first \in 1..n + 1
      BY <1>1, <1>2, <1>4, <1>5, <2>1 DEF OneStart
    <2>3. CASE f.size + p.length < MaxDst
      <3>1. PICK g : g = [f EXCEPT !.size = @ + packet.length,
                                   !.sectorCount = IF f.dst THEN @ - 1 ELSE @, !.last = n + 1]
        OBVIOUS
      <3>2. b = [frame |-> g, packets |-> qs, delivered |-> s.delivered, counter |-> s.counter]
        <4>1. AppendPacket(s, packet) = [s EXCEPT !.frame.size = @ + packet.length,
                   !.frame.sectorCount = IF s.frame.dst THEN @ - 1 ELSE @, !.frame.last = Len(s.packets) + 1]
          BY <1>7, <2>3 DEF AppendPacket, f
        <4>2. AppendPacket(s, packet) = [frame |-> g, packets |-> ps, delivered |-> s.delivered, counter |-> s.counter]
          BY <1>1, <3>1, <4>1 DEF f, ps
        <4> QED BY <4>2, SMTT(30) DEF qs, ps
      <3>3. /\ g.started = TRUE /\ g.size = f.size + p.length /\ g.dst = f.dst /\ g.first = f.first
            /\ g.last = n + 1 /\ g.sectorCount = IF f.dst THEN f.sectorCount - 1 ELSE f.sectorCount
        BY <1>1, <1>7, <3>1
      <3>4. g \in [started : BOOLEAN, size : 0..MaxDst - 1, dst : BOOLEAN, sectorCount : Int, first : Nat, last : Nat]
        <4>1. f.size + packet.length \in 0..MaxDst - 1
          BY <1>3, <1>4, <2>3, SizesAssumption
        <4>2. (IF f.dst THEN f.sectorCount - 1 ELSE f.sectorCount) \in Int /\ n + 1 \in Nat
          BY <1>1, <1>4
        <4> QED BY <1>1, <3>1, <4>1, <4>2
      <3>5. OpenOK(g, qs)
        <4>1. qs[f.first].count \in Nat
          <5>1. qs[f.first] \in Packets
            BY <1>2, <2>2
          <5> QED BY <5>1 DEF Packets
        <4>2. g.dst => g.sectorCount = qs[g.first].count - (Len(qs) - g.first + 1)
          BY <1>1, <1>2, <1>4, <2>1, <3>3, <4>1, SMTT(30)
        <4> QED BY <1>2, <2>1, <2>2, <3>3, <4>2 DEF OpenOK
      <3>6. b \in Assemblies
        BY <1>1, <1>2, <3>2, <3>4 DEF Assemblies
      <3>7. Delivers(s.delivered, qs, Len(qs) - 1) /\ g.first <= Len(qs) /\ g.last <= Len(qs)
        BY <1>1, <1>2, <1>4, <2>2, <3>3 DEF ps, qs
      <3> HIDE DEF b
      <3> QED BY <3>2, <3>5, <3>6, <3>7 DEF AssemblyOK
    <2>4. CASE ~(f.size + p.length < MaxDst)
      <3>1. PICK g : g = [f EXCEPT !.started = FALSE]
        OBVIOUS
      <3>2. b = [frame |-> g, packets |-> qs, delivered |-> s.delivered, counter |-> s.counter]
        <4>1. AppendPacket(s, packet) = [s EXCEPT !.frame.started = FALSE]
          BY <1>7, <2>4 DEF AppendPacket, f
        <4>2. AppendPacket(s, packet) = [frame |-> g, packets |-> ps, delivered |-> s.delivered, counter |-> s.counter]
          BY <1>1, <3>1, <4>1 DEF f, ps
        <4> QED BY <4>2, SMTT(30) DEF qs, ps
      <3>3. g.started = FALSE /\ g.first = f.first /\ g.last = f.last
        BY <1>1, <3>1
      <3>4. g \in [started : BOOLEAN, size : 0..MaxDst - 1, dst : BOOLEAN, sectorCount : Int, first : Nat, last : Nat]
        BY <1>1, <3>1
      <3>5. OpenOK(g, qs)
        <4>1. ASSUME NEW i \in Nat, OneStart(qs, i, n + 1) PROVE SizeIn(qs, i, n + 1) >= MaxDst
          <5>1. i = f.first
            BY <1>1, <1>2, <2>1, <4>1 DEF OneStart
          <5>2. SizeIn(qs, i, n + 1) = f.size + p.length
            BY <2>2, <5>1
          <5> QED BY <1>3, <1>4, <2>4, <5>2, SizesAssumption
        <4> QED BY <1>2, <3>3, <4>1 DEF OpenOK
      <3>6. b \in Assemblies
        BY <1>1, <1>2, <3>2, <3>4 DEF Assemblies
      <3>7. Delivers(s.delivered, qs, Len(qs) - 1) /\ g.first <= Len(qs) /\ g.last <= Len(qs)
        BY <1>1, <1>2, <1>4, <2>2, <3>3 DEF f, ps, qs
      <3> HIDE DEF b
      <3> QED BY <3>2, <3>5, <3>6, <3>7 DEF AssemblyOK
    <2> QED BY <2>3, <2>4
  <1> QED BY <1>4, <1>6, <1>7

\* A packet is taken, whatever it is.
LEMMA TakeKeeps ==
    ASSUME NEW a, AssemblyOK(a), NEW packet \in [audio : BOOLEAN, start : BOOLEAN, length : Nat],
           NEW sector, sector.dst \in BOOLEAN,
           packet.audio /\ packet.start => sector.infos[a.counter] \in Nat
    PROVE  LET b == TakePacket(a, packet, sector) IN
             /\ AssemblyOK(b)
             /\ b.counter = IF packet.audio /\ packet.start THEN a.counter + 1 ELSE a.counter
  <1> DEFINE ps == a.packets
             n == Len(ps)
             d == a.delivered
  <1>1. /\ a \in Assemblies /\ ps \in Seq(Packets) /\ n \in Nat /\ d \in Seq(Frames) /\ a.counter \in Nat
        /\ a.frame.first \in Nat /\ a.frame.last \in Nat /\ a.frame.first <= n /\ a.frame.last <= n
        /\ OpenOK(a.frame, ps) /\ Delivers(d, ps, n - 1)
    BY DEF AssemblyOK, Assemblies
  <1>2. packet.audio \in BOOLEAN /\ packet.start \in BOOLEAN /\ packet.length \in Nat
    OBVIOUS
  <1>3. CASE ~packet.audio
    BY <1>1, <1>3 DEF TakePacket
  <1>4. ASSUME NEW p \in Packets, NEW q, NEW r, Delivers(q, ps, r),
               \/ p.start /\ r = n
               \/ ~p.start /\ r = n - 1
        PROVE  Delivers(q, Append(ps, p), n)
    <2>1. \A i, j \in Nat : IsGiven(Append(ps, p), n, i, j) <=> IsGiven(ps, r, i, j)
      BY <1>1, <1>4, GivenIsKept
    <2>2. q \in Seq(Frames)
      BY <1>4 DEF Delivers
    <2>3. ASSUME NEW k \in 1..Len(q) PROVE q[k].first \in Nat /\ q[k].last \in Nat
      <3>1. q[k] \in Frames
        BY <2>2
      <3> QED BY <3>1 DEF Frames
    <2> QED BY <1>4, <2>1, <2>3 DEF Delivers
  <1>5. CASE packet.audio /\ packet.start
    <2> DEFINE e == ExecReadCallback(a)
               s == StartFrame(a, sector)
               p == [start |-> packet.start, length |-> packet.length, dst |-> sector.dst,
                     count |-> sector.infos[a.counter]]
               qs == Append(ps, p)
               f == [started |-> TRUE, size |-> 0, dst |-> sector.dst, sectorCount |-> sector.infos[a.counter],
                     first |-> n + 1, last |-> n]
    <2>1. /\ e \in Assemblies /\ e.packets = ps /\ e.counter = a.counter /\ Delivers(e.delivered, ps, n)
      BY ExecDelivers
    <2>2. TakePacket(a, packet, sector) = [AppendPacket(s, packet) EXCEPT !.packets = Append(@, p)]
      BY <1>5 DEF TakePacket
    <2>3. p \in Packets /\ p.start /\ p.length = packet.length
      BY <1>2, <1>5 DEF Packets
    <2>4. s = [frame |-> f, packets |-> ps, delivered |-> e.delivered, counter |-> a.counter + 1]
      <3>1. s = [e EXCEPT !.frame = f, !.counter = @ + 1]
        BY DEF StartFrame
      <3>2. PICK w, x, y, z : e = [frame |-> w, packets |-> x, delivered |-> z, counter |-> y]
        BY <2>1 DEF Assemblies
      <3>3. x = ps /\ y = a.counter /\ z = e.delivered
        BY <2>1, <3>2
      <3> HIDE DEF s, e, f
      <3>4. s = [frame |-> f, packets |-> x, delivered |-> z, counter |-> y + 1]
        BY <3>1, <3>2
      <3> QED BY <3>3, <3>4
    <2>5. f \in [started : BOOLEAN, size : 0..MaxDst - 1, dst : BOOLEAN, sectorCount : Int, first : Nat, last : Nat]
      BY <1>1, <1>5, SizesAssumption
    <2>6. s \in Assemblies
      <3>1. e.delivered \in Seq(Frames) /\ ps \in Seq(Packets) /\ a.counter + 1 \in Nat
        BY <1>1, <2>1 DEF Delivers
      <3> HIDE DEF s, e, f, ps
      <3> QED BY <2>4, <2>5, <3>1 DEF Assemblies
    <2>7. Delivers(e.delivered, qs, n)
      BY <1>4, <2>1, <2>3
    <2>8. qs \in Seq(Packets) /\ Len(qs) = n + 1 /\ qs[n + 1] = p
      BY <1>1, <2>3
    <2>9. ReadyFor(f, ps, p)
      <3>1. OneStart(qs, n + 1, n + 1)
        BY <1>1, <2>3, <2>8 DEF OneStart
      <3>2. SizeIn(qs, n + 1, n) = 0
        BY <1>1, SizeOfNone
      <3>3. qs[n + 1].dst = sector.dst /\ qs[n + 1].count = sector.infos[a.counter]
        BY <2>8
      <3>4. sector.infos[a.counter] = sector.infos[a.counter] - (n - (n + 1) + 1)
        BY <1>1, <1>5
      <3> QED BY <3>1, <3>2, <3>3, <3>4 DEF ReadyFor
    <2>10. /\ s.frame = f /\ s.packets = ps /\ s.delivered = e.delivered /\ s.counter = a.counter + 1
           /\ f.first = n + 1 /\ f.last = n
      BY <2>4
    <2> HIDE DEF s, e, f, p, ps
    <2>11. /\ s.frame.first <= Len(s.packets) + 1 /\ s.frame.last <= Len(s.packets)
           /\ ReadyFor(s.frame, s.packets, p) /\ Delivers(s.delivered, Append(s.packets, p), Len(s.packets))
      BY <1>1, <2>7, <2>9, <2>10
    <2>12. LET b == [AppendPacket(s, packet) EXCEPT !.packets = Append(@, p)] IN
             AssemblyOK(b) /\ b.counter = s.counter
      BY <2>3, <2>6, <2>11, AppendKeeps
    <2> QED BY <1>5, <2>2, <2>10, <2>12
  <1>6. CASE packet.audio /\ ~packet.start
    <2> DEFINE p == [start |-> packet.start, length |-> packet.length, dst |-> sector.dst, count |-> 0]
               qs == Append(ps, p)
               f == a.frame
    <2>1. TakePacket(a, packet, sector) = [AppendPacket(a, packet) EXCEPT !.packets = Append(@, p)]
      BY <1>6 DEF TakePacket
    <2>2. p \in Packets /\ ~p.start /\ p.length = packet.length
      BY <1>2, <1>6 DEF Packets
    <2>3. qs \in Seq(Packets) /\ Len(qs) = n + 1 /\ qs[n + 1] = p /\ \A i \in 1..n : qs[i] = ps[i]
      BY <1>1, <2>2
    <2>4. Delivers(d, qs, n)
      BY <1>1, <1>4, <2>2
    <2>5. ASSUME NEW i \in Nat
          PROVE  /\ OneStart(qs, i, n + 1) <=> OneStart(ps, i, n)
                 /\ OneStart(ps, i, n) => SizeIn(qs, i, n) = SizeIn(ps, i, n)
      <3>1. OneStart(qs, i, n + 1) <=> OneStart(ps, i, n)
        <4>1. OneStart(qs, i, n + 1) => i \in 1..n
          BY <1>1, <2>2, <2>3 DEF OneStart
        <4>2. ASSUME i \in 1..n PROVE OneStart(qs, i, n + 1) <=> OneStart(ps, i, n)
          <5>1. ~qs[n + 1].start /\ qs[i] = ps[i] /\ \A k \in i + 1..n : qs[k] = ps[k]
            BY <2>2, <2>3, <4>2
          <5>2. ASSUME NEW k \in i + 1..n + 1 PROVE k = n + 1 \/ k \in i + 1..n
            <6>1. n \in Nat /\ i \in Nat
              BY <1>1
            <6> HIDE DEF n
            <6> QED BY ONLY <6>1, k \in i + 1..n + 1
          <5>3. (\A k \in i + 1..n + 1 : ~qs[k].start) <=> (\A k \in i + 1..n : ~ps[k].start)
            <6>1. \A k \in i + 1..n : k \in i + 1..n + 1
              BY <1>1
            <6> HIDE DEF qs
            <6> QED BY ONLY <5>1, <5>2, <6>1
          <5> QED BY <1>1, <2>3, <4>2, <5>1, <5>3, SMTT(30) DEF OneStart
        <4> QED BY <4>1, <4>2 DEF OneStart
      <3>2. ASSUME OneStart(ps, i, n) PROVE SizeIn(qs, i, n) = SizeIn(ps, i, n)
        <4>1. i \in Nat \ {0} /\ n <= Len(ps)
          BY <1>1, <3>2 DEF OneStart
        <4> QED BY <1>1, <2>2, <4>1, SizeIsKept
      <3> QED BY <3>1, <3>2
    <2>6. ReadyFor(f, ps, p)
      <3>1. CASE f.started
        <4>1. /\ OneStart(ps, f.first, n) /\ f.last = n
              /\ f.size = SizeIn(ps, f.first, n) /\ f.dst = ps[f.first].dst
              /\ f.dst => f.sectorCount = ps[f.first].count - (n - f.first + 1)
          BY <1>1, <3>1 DEF OpenOK
        <4>2. qs[f.first] = ps[f.first]
          BY <2>3, <4>1 DEF OneStart
        <4>3. OneStart(qs, f.first, n + 1) /\ SizeIn(qs, f.first, n) = SizeIn(ps, f.first, n)
          BY <1>1, <2>5, <4>1
        <4> QED BY <3>1, <4>1, <4>2, <4>3 DEF ReadyFor
      <3>2. CASE ~f.started
        <4>1. \A i \in Nat : OneStart(ps, i, n) => SizeIn(ps, i, n) >= MaxDst
          BY <1>1, <3>2 DEF OpenOK
        <4> QED BY <2>5, <3>2, <4>1 DEF ReadyFor
      <3> QED BY <3>1, <3>2
    <2> HIDE DEF p, qs
    <2>7. LET b == [AppendPacket(a, packet) EXCEPT !.packets = Append(@, p)] IN
             AssemblyOK(b) /\ b.counter = a.counter
      <3>1. Delivers(d, Append(ps, p), n)
        BY <2>4 DEF qs
      <3>2. a.frame.first <= Len(a.packets) + 1
        BY <1>1
      <3> QED BY <1>1, <2>2, <2>6, <3>1, <3>2, AppendKeeps
    <2> QED BY <1>6, <2>1, <2>7
  <1> QED BY <1>2, <1>3, <1>5, <1>6

-----------------------------------------------------------------------------
(* A sector.                                                               *)

\* The packets among the first k that start a frame.
StartsIn(sector, k) == {i \in 1..k : sector.packets[i].audio /\ sector.packets[i].start}

\* One packet more, and one more start or none.
LEMMA StartsAreCounted ==
    ASSUME NEW sector, NEW k \in Nat
    PROVE  /\ Cardinality(StartsIn(sector, 0)) = 0
           /\ Cardinality(StartsIn(sector, k)) \in Nat
           /\ Cardinality(StartsIn(sector, k + 1)) =
                Cardinality(StartsIn(sector, k))
                  + IF sector.packets[k + 1].audio /\ sector.packets[k + 1].start THEN 1 ELSE 0
           /\ \A n \in Nat : k <= n => Cardinality(StartsIn(sector, k)) <= Cardinality(StartsIn(sector, n))
  <1>1. ASSUME NEW n \in Nat PROVE IsFiniteSet(StartsIn(sector, n)) /\ Cardinality(StartsIn(sector, n)) \in Nat
    <2>1. IsFiniteSet(1..n)
      BY FS_Interval
    <2>2. StartsIn(sector, n) \subseteq 1..n
      BY DEF StartsIn
    <2> QED BY <2>1, <2>2, FS_Subset, FS_CardinalityType
  <1>2. StartsIn(sector, 0) = {}
    BY DEF StartsIn
  <1>3. CASE sector.packets[k + 1].audio /\ sector.packets[k + 1].start
    <2>1. k + 1 \notin StartsIn(sector, k) /\ StartsIn(sector, k + 1) = StartsIn(sector, k) \cup {k + 1}
      BY <1>3 DEF StartsIn
    <2>2. Cardinality(StartsIn(sector, k + 1)) = Cardinality(StartsIn(sector, k)) + 1
      BY <1>1, <2>1, FS_AddElement
    <2>3. \A n \in Nat : k <= n => StartsIn(sector, k) \subseteq StartsIn(sector, n)
      BY DEF StartsIn
    <2> QED BY <1>1, <1>2, <1>3, <2>2, <2>3, FS_EmptySet, FS_Subset
  <1>4. CASE ~(sector.packets[k + 1].audio /\ sector.packets[k + 1].start)
    <2>1. StartsIn(sector, k + 1) = StartsIn(sector, k)
      BY <1>4 DEF StartsIn
    <2>2. \A n \in Nat : k <= n => StartsIn(sector, k) \subseteq StartsIn(sector, n)
      BY DEF StartsIn
    <2> QED BY <1>1, <1>2, <1>4, <2>1, <2>2, FS_EmptySet, FS_Subset
  <1> QED BY <1>3, <1>4

\* The packets of a sector are taken, and there is a frame info for each start.
LEMMA SectorKeeps ==
    ASSUME AssemblyOK(Fresh), NEW sector \in Sectors
    PROVE  AssemblyOK(TakePackets(sector))
  <1> DEFINE N == Len(sector.packets)
  <1>1. /\ N \in Nat /\ DOMAIN sector.packets = 1..N /\ sector.dst \in BOOLEAN
        /\ \A k \in 1..N : sector.packets[k] \in [audio : BOOLEAN, start : BOOLEAN, length : Nat]
        /\ sector.infos \in Seq(Nat) /\ Cardinality(StartsIn(sector, N)) <= Len(sector.infos)
    <2>1. /\ sector.dst \in BOOLEAN /\ sector.infos \in Seq(Nat)
          /\ sector.packets \in Seq([audio : BOOLEAN, start : BOOLEAN, length : Nat])
          /\ Cardinality({i \in DOMAIN sector.packets : sector.packets[i].audio /\ sector.packets[i].start})
                <= Len(sector.infos)
      BY SectorsAssumption
    <2>2. N \in Nat /\ DOMAIN sector.packets = 1..N
      BY <2>1
    <2>3. \A k \in 1..N : sector.packets[k] \in [audio : BOOLEAN, start : BOOLEAN, length : Nat]
      <3>1. PICK ps : ps = sector.packets
        OBVIOUS
      <3>2. PICK T : T = [audio : BOOLEAN, start : BOOLEAN, length : Nat]
        OBVIOUS
      <3>3. ps \in Seq(T) /\ DOMAIN ps = 1..N
        BY <2>1, <2>2, <3>1, <3>2
      <3>4. \A k \in DOMAIN ps : ps[k] \in T
        BY ONLY <3>3
      <3> QED BY <3>1, <3>2, <3>3, <3>4, Zenon
    <2> HIDE DEF N
    <2>4. StartsIn(sector, N) = {i \in DOMAIN sector.packets : sector.packets[i].audio /\ sector.packets[i].start}
      BY <2>2 DEF StartsIn
    <2> QED BY <2>1, <2>2, <2>3, <2>4
  <1> HIDE DEF N
  <1>2. PICK g : Recursion(g, N, sector) /\ TakePackets(sector) = g[1..N]
    BY <1>1, PacketsInTurn DEF N
  <1>3. g[1..0] = Fresh
    <2>1. 1..0 = {} /\ {} \in SUBSET (1..N)
      OBVIOUS
    <2> QED BY <1>2, <2>1 DEF Recursion
  <1>4. ASSUME NEW k \in Nat, k + 1 <= N
        PROVE  g[1..k + 1] = TakePacket(g[1..k], sector.packets[k + 1], sector)
    <2>1. 1..k + 1 \in SUBSET (1..k + 1) /\ k + 1 \in 1..k + 1 /\ k + 1 \in Nat
      OBVIOUS
    <2>2. Max(1..k + 1) = k + 1
      BY <2>1, MaxOfTop
    <2>3. (1..k + 1) \ {k + 1} = 1..k /\ 1..k + 1 # {} /\ 1..k + 1 \in SUBSET (1..N)
      <3>1. N \in Nat
        BY <1>1
      <3>2. ASSUME NEW i \in 1..k + 1 PROVE i \in 1..N /\ (i # k + 1 => i \in 1..k)
        BY ONLY <1>4, <3>1, k \in Nat, i \in 1..k + 1
      <3>3. ASSUME NEW i \in 1..k PROVE i \in 1..k + 1 /\ i # k + 1
        BY ONLY k \in Nat, i \in 1..k
      <3> QED BY <2>1, <3>2, <3>3, Zenon
    <2>4. g[1..k + 1] = TakePacket(g[(1..k + 1) \ {Max(1..k + 1)}], sector.packets[Max(1..k + 1)], sector)
      BY <1>2, <2>3 DEF Recursion
    <2> QED BY <2>2, <2>3, <2>4
  <1> DEFINE Good(k) == /\ AssemblyOK(g[1..k])
                        /\ g[1..k].counter = 1 + Cardinality(StartsIn(sector, k))
             S == {k \in Nat : k <= N => Good(k)}
  <1>5. 0 \in S
    BY <1>3, StartsAreCounted DEF Fresh
  <1>6. ASSUME NEW k \in Nat, k \in S PROVE k + 1 \in S
    <2>1. SUFFICES ASSUME k + 1 <= N PROVE Good(k + 1)
      OBVIOUS
    <2> DEFINE a == g[1..k]
               packet == sector.packets[k + 1]
    <2>2. AssemblyOK(a) /\ a.counter = 1 + Cardinality(StartsIn(sector, k))
      BY <1>1, <1>6, <2>1
    <2>3. packet \in [audio : BOOLEAN, start : BOOLEAN, length : Nat]
      BY <1>1, <2>1
    <2>4. packet.audio /\ packet.start => sector.infos[a.counter] \in Nat
      <3>1. SUFFICES ASSUME packet.audio, packet.start PROVE sector.infos[a.counter] \in Nat
        OBVIOUS
      <3>2. Cardinality(StartsIn(sector, k + 1)) = Cardinality(StartsIn(sector, k)) + 1
        BY <3>1, StartsAreCounted
      <3>3. Cardinality(StartsIn(sector, k + 1)) <= Cardinality(StartsIn(sector, N))
        BY <1>1, <2>1, StartsAreCounted
      <3>4. Cardinality(StartsIn(sector, k)) \in Nat /\ Cardinality(StartsIn(sector, N)) \in Nat
        BY <1>1, StartsAreCounted
      <3>5. a.counter \in 1..Len(sector.infos)
        BY ONLY <1>1, <2>2, <3>2, <3>3, <3>4
      <3> QED BY <1>1, <3>5
    <2> HIDE DEF a, packet
    <2>5. /\ AssemblyOK(TakePacket(a, packet, sector))
          /\ TakePacket(a, packet, sector).counter = IF packet.audio /\ packet.start THEN a.counter + 1 ELSE a.counter
      BY <1>1, <2>2, <2>3, <2>4, TakeKeeps
    <2>6. g[1..k + 1] = TakePacket(a, packet, sector)
      BY <1>4, <2>1 DEF a, packet
    <2>7. Cardinality(StartsIn(sector, k)) \in Nat
          /\ Cardinality(StartsIn(sector, k + 1)) =
                Cardinality(StartsIn(sector, k)) + IF packet.audio /\ packet.start THEN 1 ELSE 0
      BY StartsAreCounted DEF packet
    <2>8. g[1..k + 1].counter = 1 + Cardinality(StartsIn(sector, k + 1))
      BY <2>2, <2>5, <2>6, <2>7
    <2> QED BY <2>5, <2>6, <2>8
  <1>7. N \in S
    <2> HIDE DEF S
    <2> QED BY <1>1, <1>5, <1>6, Induct
  <1> QED BY <1>1, <1>2, <1>7
-----------------------------------------------------------------------------
(* The track.                                                              *)

\* Until the track has ended, the last frame is under construction.
AssemblyInv == /\ ended \in BOOLEAN
               /\ Fresh \in Assemblies /\ frame.first <= Len(packets) /\ frame.last <= Len(packets)
               /\ Delivers(delivered, packets, IF ended THEN Len(packets) ELSE Len(packets) - 1)
               /\ ~ended => OpenOK(frame, packets)

\* Until the end of the track the assembly is as it should be.
LEMMA FreshIs ==
    /\ Fresh.frame = frame /\ Fresh.packets = packets /\ Fresh.delivered = delivered
    /\ AssemblyInv /\ ~ended => AssemblyOK(Fresh)
  BY DEF Fresh, AssemblyInv, AssemblyOK

\* At the start of a track.
LEMMA NothingIsOK == frame = NoFrame /\ packets = <<>> /\ delivered = <<>> /\ ended = FALSE => AssemblyInv
  <1> SUFFICES ASSUME frame = NoFrame, packets = <<>>, delivered = <<>>, ended = FALSE PROVE AssemblyInv
    OBVIOUS
  <1>1. Len(packets) = 0 /\ packets \in Seq(Packets) /\ delivered \in Seq(Frames) /\ Len(delivered) = 0
    OBVIOUS
  <1>2. Fresh \in Assemblies
    BY <1>1, SizesAssumption DEF Fresh, Assemblies, NoFrame
  <1>3. \A i, j \in Nat : ~OneStart(packets, i, j)
    BY <1>1 DEF OneStart
  <1>4. Delivers(delivered, packets, Len(packets) - 1)
    BY <1>1, <1>3 DEF Delivers, IsGiven
  <1>5. OpenOK(frame, packets)
    BY <1>1, <1>3 DEF OpenOK, NoFrame
  <1>6. frame.first <= Len(packets) /\ frame.last <= Len(packets)
    BY <1>1 DEF NoFrame
  <1>7. ended = FALSE /\ Delivers(delivered, packets, IF ended THEN Len(packets) ELSE Len(packets) - 1)
    BY <1>4
  <1> QED BY <1>2, <1>5, <1>6, <1>7, Zenon DEF AssemblyInv

\* A sector is processed, the last one or not.
LEMMA SectorKeepsAssemblyInv ==
    ASSUME AssemblyInv, NEW sector \in Sectors, NEW last \in BOOLEAN, ProcessSector(sector, last)
    PROVE  AssemblyInv'
  <1> DEFINE taken == TakePackets(sector)
             a == IF last THEN ExecReadCallback(taken) ELSE taken
  <1>1. AssemblyOK(taken)
    BY FreshIs, SectorKeeps DEF ProcessSector
  <1>2. frame' = a.frame /\ packets' = a.packets /\ delivered' = a.delivered /\ ended' = last
    BY DEF ProcessSector
  <1> HIDE DEF taken
  <1>3. taken \in Assemblies /\ OpenOK(taken.frame, taken.packets)
        /\ taken.frame.first <= Len(taken.packets) /\ taken.frame.last <= Len(taken.packets)
        /\ Delivers(taken.delivered, taken.packets, Len(taken.packets) - 1)
    BY <1>1 DEF AssemblyOK
  <1>4. CASE last
    <2>1. /\ a \in Assemblies /\ a.packets = taken.packets
          /\ a.frame.first = taken.frame.first /\ a.frame.last = taken.frame.last
          /\ Delivers(a.delivered, taken.packets, Len(taken.packets))
      BY <1>1, <1>4, ExecDelivers
    <2> HIDE DEF a
    <2>2. Fresh' \in Assemblies
      BY <1>2, <2>1 DEF Fresh, Assemblies
    <2> QED BY <1>2, <1>3, <1>4, <2>1, <2>2 DEF AssemblyInv
  <1>5. CASE ~last
    <2>1. a = taken
      BY <1>5
    <2> HIDE DEF a
    <2>2. Fresh' \in Assemblies
      BY <1>2, <1>3, <2>1 DEF Fresh, Assemblies
    <2> QED BY <1>2, <1>3, <1>5, <2>1, <2>2 DEF AssemblyInv
  <1> QED BY <1>4, <1>5

\* Every step keeps the invariant.
LEMMA AssemblyStep == AssemblyInv /\ [Next]_vars => AssemblyInv'
  <1> SUFFICES ASSUME AssemblyInv, [Next]_vars PROVE AssemblyInv'
    OBVIOUS
  <1>1. CASE FrameInit
    <2>1. frame' = NoFrame /\ packets' = <<>> /\ delivered' = <<>> /\ ended' = FALSE
      BY <1>1 DEF FrameInit
    <2>2. (frame = NoFrame /\ packets = <<>> /\ delivered = <<>> /\ ended = FALSE => AssemblyInv)'
      BY NothingIsOK, PTL
    <2> QED BY <2>1, <2>2 DEF NoFrame
  <1>2. ASSUME NEW sector \in Sectors, NEW last \in BOOLEAN, ProcessSector(sector, last) PROVE AssemblyInv'
    BY <1>2, SectorKeepsAssemblyInv
  <1>3. CASE UNCHANGED vars
    BY <1>3 DEF vars, AssemblyInv, Fresh
  <1> QED BY <1>1, <1>2, <1>3 DEF Next

\* The invariant says what the callback was given.
LEMMA AssemblyInvDelivers == AssemblyInv => FramesComeWhole
  <1> SUFFICES ASSUME AssemblyInv PROVE TypeOK /\ DeliversTheWholeFrames
    BY DEF FramesComeWhole
  <1> DEFINE n == Len(packets)
             m == IF ended THEN n ELSE n - 1
  <1>1. /\ packets \in Seq(Packets) /\ n \in Nat /\ delivered \in Seq(Frames) /\ Delivers(delivered, packets, m)
        /\ frame \in [started : BOOLEAN, size : 0..MaxDst - 1, dst : BOOLEAN, sectorCount : Int, first : Nat, last : Nat]
        /\ frame.first <= n /\ frame.last <= n /\ ended \in BOOLEAN
    BY DEF AssemblyInv, Assemblies, Fresh
  <1>2. ASSUME NEW k \in 1..Len(delivered)
        PROVE  /\ delivered[k] = [first |-> delivered[k].first, last |-> delivered[k].last]
               /\ delivered[k].first \in 1..n /\ delivered[k].last \in delivered[k].first..n
               /\ IsGiven(packets, m, delivered[k].first, delivered[k].last)
    <2>1. delivered[k] \in Frames
      BY <1>1
    <2>2. IsGiven(packets, m, delivered[k].first, delivered[k].last)
      BY <1>1 DEF Delivers
    <2> QED BY <2>1, <2>2 DEF Frames, IsGiven, OneStart
  <1>3. TypeOK
    <2>1. /\ frame.started \in BOOLEAN /\ frame.dst \in BOOLEAN
          /\ frame.size \in 0..MaxDst - 1 /\ frame.sectorCount \in Int
          /\ frame.first \in Nat /\ frame.last \in Nat
      BY <1>1
    <2>2. frame.first \in 0..Len(packets) /\ frame.last \in 0..Len(packets)
      BY <1>1, <2>1
    <2>3. DOMAIN delivered = 1..Len(delivered)
      BY <1>1
    <2>4. \A i \in DOMAIN delivered : delivered[i].last \in delivered[i].first..Len(packets)
      BY <1>2, <2>3
    <2> QED BY <1>1, <2>1, <2>2, <2>4 DEF TypeOK
  <1>4. ASSUME NEW i \in 1..n, NEW j \in 1..n
        PROVE  IsGiven(packets, m, i, j) <=> IsFrame(i, j) /\ IsWhole(i, j)
    BY <1>1 DEF IsGiven, OneStart, Whole, IsFrame, IsWhole, SizeIn, SizeOf
  <1> DEFINE Given == {p \in (1..Len(packets)) \X (1..Len(packets)) : IsFrame(p[1], p[2]) /\ IsWhole(p[1], p[2])}
  <1>5. ASSUME NEW f \in ToSet(delivered) PROVE \E p \in Given : f = [first |-> p[1], last |-> p[2]]
    <2>1. PICK k \in 1..Len(delivered) : f = delivered[k]
      BY <1>1 DEF ToSet
    <2>2. PICK i \in 1..n, j \in 1..n : i = delivered[k].first /\ j = delivered[k].last
      <3>1. delivered[k].first \in 1..n /\ delivered[k].last \in delivered[k].first..n
        BY <1>2
      <3> HIDE DEF n
      <3>2. delivered[k].last \in 1..n
        BY <1>1, <3>1
      <3> QED BY <3>1, <3>2
    <2>3. IsFrame(i, j) /\ IsWhole(i, j)
      BY <1>2, <1>4, <2>2
    <2>4. <<i, j>> \in Given /\ <<i, j>>[1] = i /\ <<i, j>>[2] = j
      BY <2>3
    <2>5. f = [first |-> i, last |-> j]
      BY <1>2, <2>1, <2>2
    <2> HIDE DEF Given
    <2> QED BY <2>4, <2>5
  <1>6. ASSUME NEW p \in Given PROVE [first |-> p[1], last |-> p[2]] \in ToSet(delivered)
    <2>1. PICK i \in 1..n, j \in 1..n : i = p[1] /\ j = p[2] /\ IsFrame(i, j) /\ IsWhole(i, j)
      OBVIOUS
    <2>2. IsGiven(packets, m, i, j) /\ i \in Nat /\ j \in Nat
      BY <1>1, <1>4, <2>1
    <2>3. PICK k \in 1..Len(delivered) : delivered[k].first = i /\ delivered[k].last = j
      BY <1>1, <2>2 DEF Delivers
    <2>4. delivered[k] = [first |-> p[1], last |-> p[2]]
      BY <1>2, <2>1, <2>3
    <2>5. delivered[k] \in ToSet(delivered)
      BY <1>1 DEF ToSet
    <2> QED BY <2>4, <2>5
  <1>7. ToSet(delivered) = {[first |-> f[1], last |-> f[2]] : f \in Given}
    <2> HIDE DEF Given
    <2> QED BY <1>5, <1>6
  <1>8. \A i, j \in DOMAIN delivered : i < j => delivered[i].last < delivered[j].first
    BY <1>1 DEF Delivers
  <1> QED BY <1>3, <1>7, <1>8 DEF DeliversTheWholeFrames

\* The read callback is given exactly the whole frames of a track, each once and in
\* order, however the packets lie in the sectors and whatever is damaged: for
\* sectors of any number of packets, of any length, and tracks of any length.
THEOREM FramesAreWhole == FormatsSpec => []FramesComeWhole
  <1>1. FormatsInit => AssemblyInv
    BY NothingIsOK DEF FormatsInit, Init
  <1>2. AssemblyInv /\ [FormatsNext]_formatsVars => AssemblyInv'
    <2>1. [FormatsNext]_formatsVars => [Next]_vars
      BY DEF FormatsNext, formatsVars
    <2> QED BY <2>1, AssemblyStep
  <1> QED BY <1>1, <1>2, AssemblyInvDelivers, PTL DEF FormatsSpec
-----------------------------------------------------------------------------
(* Loops.                                                                   *)

\* f is a loop that begins with a and turns i into F[i] of what was before.
LoopTo(f, a, F, n) == f[0] = a /\ \A i \in 1..n : f[i] = F[i][f[i - 1]]

\* A loop that stays in T exists, for as many turns as are wanted.
LEMMA LoopUpTo ==
    ASSUME NEW T, NEW a \in T, NEW F \in [Nat -> [T -> T]], NEW n \in Nat
    PROVE  \E f \in [0..n -> T] : LoopTo(f, a, F, n)
  <1> DEFINE N == {i \in Nat : \E f \in [0..i -> T] : LoopTo(f, a, F, i)}
  <1>1. 0 \in N
    <2>1. [i \in 0..0 |-> a] \in [0..0 -> T] /\ LoopTo([i \in 0..0 |-> a], a, F, 0)
      BY DEF LoopTo
    <2> QED BY <2>1
  <1>2. ASSUME NEW i \in Nat, i \in N PROVE i + 1 \in N
    <2>1. PICK f \in [0..i -> T] : LoopTo(f, a, F, i)
      BY <1>2
    <2> DEFINE g == [j \in 0..i + 1 |-> IF j <= i THEN f[j] ELSE F[i + 1][f[i]]]
    <2>2. g \in [0..i + 1 -> T]
      <3>1. F[i + 1] \in [T -> T] /\ f[i] \in T
        OBVIOUS
      <3> QED BY <3>1
    <2>3. g[0] = a
      BY <2>1 DEF LoopTo
    <2>4. ASSUME NEW j \in 1..i + 1 PROVE g[j] = F[j][g[j - 1]]
      <3>1. CASE j <= i
        <4>1. j \in 1..i /\ j - 1 \in 0..i
          BY <3>1
        <4>2. f[j] = F[j][f[j - 1]] /\ g[j] = f[j] /\ g[j - 1] = f[j - 1]
          BY <2>1, <3>1, <4>1 DEF LoopTo
        <4> QED BY <4>2
      <3>2. CASE j = i + 1
        BY <3>2
      <3> QED BY <3>1, <3>2
    <2> HIDE DEF g
    <2>5. LoopTo(g, a, F, i + 1)
      BY <2>3, <2>4 DEF LoopTo
    <2> QED BY <2>2, <2>5
  <1> HIDE DEF N
  <1>3. Nat \subseteq N
    BY <1>1, <1>2, Induct
  <1> QED BY <1>3 DEF N

-----------------------------------------------------------------------------
(* Sequences of sequences, one after the other.                            *)

\* What FlattenSeq does in its i-th turn.
Adds(T, ss) == [i \in Nat |-> [x \in Seq(T) |-> IF i \in 1..Len(ss) THEN x \o ss[i] ELSE x]]

\* The turns are functions from sequences to sequences.
LEMMA AddsIs ==
    ASSUME NEW T, NEW ss \in Seq(Seq(T))
    PROVE  /\ <<>> \in Seq(T) /\ Adds(T, ss) \in [Nat -> [Seq(T) -> Seq(T)]]
           /\ \A i \in 1..Len(ss), x \in Seq(T) : Adds(T, ss)[i][x] = x \o ss[i]
  <1>1. \A i \in 1..Len(ss) : ss[i] \in Seq(T)
    OBVIOUS
  <1>2. ASSUME NEW x \in Seq(T), NEW i \in Nat PROVE (IF i \in 1..Len(ss) THEN x \o ss[i] ELSE x) \in Seq(T)
    BY <1>1
  <1>3. <<>> \in Seq(T)
    OBVIOUS
  <1>4. \A i \in 1..Len(ss) : i \in Nat
    OBVIOUS
  <1> QED BY <1>2, <1>3, <1>4 DEF Adds

\* A loop with these turns ends with FlattenSeq.
Flattens(T, ss, n, f) == Len(ss) = n /\ f \in [0..n -> Seq(T)] /\ LoopTo(f, <<>>, Adds(T, ss), n)

LEMMA FlattenIsLoop ==
    ASSUME NEW T, NEW ss \in Seq(Seq(T)), NEW k, NEW f, Flattens(T, ss, k, f)
    PROVE  Dsf!FlattenSeq(ss) = f[k]
  <1> DEFINE n == Len(ss)
  <1>0. k = Len(ss) /\ f \in [0..Len(ss) -> Seq(T)] /\ LoopTo(f, <<>>, Adds(T, ss), Len(ss))
    BY DEF Flattens
  <1> USE <1>0
  <1>1. n \in Nat /\ ss \in [1..n -> Seq(T)]
    OBVIOUS
  <1>2. CASE n = 0
    <2>1. ss = <<>>
      BY <1>2
    <2>2. f[0] = <<>>
      BY DEF LoopTo
    <2> QED BY <1>2, <2>1, <2>2 DEF Dsf!FlattenSeq
  <1>3. CASE n # 0
    <2> HIDE DEF n
    <2> DEFINE g == [i \in 1..n |-> f[i]]
    <2>1. ASSUME NEW i \in 1..n PROVE g[i] = IF i = 1 THEN ss[i] ELSE g[i - 1] \o ss[i]
      <3>1. f[i] = Adds(T, ss)[i][f[i - 1]] /\ i - 1 \in 0..n
        BY <1>1 DEF LoopTo, n
      <3>2. f[i - 1] \in Seq(T)
        BY <3>1 DEF n
      <3>3. f[i] = f[i - 1] \o ss[i]
        <4>1. \A j \in 1..Len(ss), x \in Seq(T) : Adds(T, ss)[j][x] = x \o ss[j]
          BY AddsIs
        <4>2. i \in 1..Len(ss)
          BY DEF n
        <4> QED BY ONLY <3>1, <3>2, <4>1, <4>2
      <3>4. CASE i = 1
        <4>1. f[0] = <<>> /\ i - 1 = 0
          BY <3>4 DEF LoopTo
        <4>2. <<>> \o ss[i] = ss[i]
          BY <1>1
        <4> QED BY <3>3, <3>4, <4>1, <4>2
      <3>5. CASE i # 1
        <4>1. i - 1 \in 1..n
          BY <1>1, <3>5
        <4> QED BY <3>3, <3>5, <4>1
      <3> QED BY <3>4, <3>5
    <2>2. g = [i \in 1..n |-> IF i = 1 THEN ss[i] ELSE g[i - 1] \o ss[i]]
      <3>1. g = [i \in 1..n |-> g[i]]
        OBVIOUS
      <3> HIDE DEF g
      <3> QED BY <2>1, <3>1, Zenon
    <2> HIDE DEF g
    <2> DEFINE b == CHOOSE h : h = [i \in 1..n |-> IF i = 1 THEN ss[i] ELSE h[i - 1] \o ss[i]]
    <2>3. b = [i \in 1..n |-> IF i = 1 THEN ss[i] ELSE b[i - 1] \o ss[i]]
      BY <2>2, Zenon
    <2>4. Dsf!FlattenSeq(ss) = b[n]
      BY <1>3 DEF Dsf!FlattenSeq, n
    <2> HIDE DEF b
    <2> DEFINE N == {i \in Nat : i \in 1..n => b[i] = g[i]}
    <2>5. 0 \in N
      OBVIOUS
    <2>6. ASSUME NEW i \in Nat, i \in N PROVE i + 1 \in N
      <3>1. SUFFICES ASSUME i + 1 \in 1..n PROVE b[i + 1] = g[i + 1]
        OBVIOUS
      <3>2. b[i + 1] = IF i + 1 = 1 THEN ss[i + 1] ELSE b[(i + 1) - 1] \o ss[i + 1]
        BY <2>3, <3>1
      <3>3. g[i + 1] = IF i + 1 = 1 THEN ss[i + 1] ELSE g[(i + 1) - 1] \o ss[i + 1]
        BY <2>1, <3>1
      <3>4. i + 1 # 1 => i \in 1..n /\ (i + 1) - 1 = i
        BY <1>1, <3>1
      <3> QED BY <2>6, <3>2, <3>3, <3>4
    <2> HIDE DEF N
    <2>7. n \in N
      BY <1>1, <2>5, <2>6, Induct
    <2>8. b[n] = g[n]
      BY <1>1, <1>3, <2>7 DEF N
    <2>9. g[n] = f[n]
      BY <1>1, <1>3 DEF g
    <2> QED BY <2>4, <2>8, <2>9 DEF n
  <1> QED BY <1>2, <1>3

\* FlattenSeq of nothing, and of one more.
LEMMA FlattenNothing == Dsf!FlattenSeq(<<>>) = <<>>
  BY DEF Dsf!FlattenSeq

\* A sequence more.
LEMMA FlattenMore ==
    ASSUME NEW T, NEW ss \in Seq(Seq(T)), NEW s \in Seq(T)
    PROVE  /\ Dsf!FlattenSeq(ss) \in Seq(T)
           /\ Dsf!FlattenSeq(Append(ss, s)) = Dsf!FlattenSeq(ss) \o s
  <1> DEFINE n == Len(ss)
             more == Append(ss, s)
  <1>1. n \in Nat /\ more \in Seq(Seq(T)) /\ Len(more) = n + 1 /\ more[n + 1] = s /\ \A i \in 1..n : more[i] = ss[i]
    OBVIOUS
  <1> HIDE DEF more
  <1>2. PICK f \in [0..n + 1 -> Seq(T)] : LoopTo(f, <<>>, Adds(T, more), n + 1)
    <2>1. PICK S : S = Seq(T)
      OBVIOUS
    <2>2. <<>> \in S /\ Adds(T, more) \in [Nat -> [S -> S]]
      BY <1>1, <2>1, AddsIs
    <2> DEFINE F == Adds(T, more)
               empty == <<>>
    <2> HIDE DEF F, empty
    <2>3. n + 1 \in Nat
      BY <1>1
    <2>4. empty \in S /\ F \in [Nat -> [S -> S]]
      BY <2>2 DEF F, empty
    <2>5. \E f \in [0..n + 1 -> S] : LoopTo(f, empty, F, n + 1)
      BY <2>3, <2>4, LoopUpTo
    <2> QED BY <2>1, <2>5 DEF F, empty
  <1>3. Dsf!FlattenSeq(more) = f[n + 1]
    <2>1. Flattens(T, more, n + 1, f)
      BY <1>1, <1>2 DEF Flattens
    <2> QED BY <1>1, <2>1, FlattenIsLoop
  <1>4. ASSUME NEW i \in 1..n + 1 PROVE f[i] = f[i - 1] \o more[i] /\ f[i - 1] \in Seq(T)
    <2>1. i \in 1..Len(more) /\ i - 1 \in 0..n + 1
      BY <1>1
    <2>2. f[i] = Adds(T, more)[i][f[i - 1]] /\ f[i - 1] \in Seq(T)
      BY <1>2, <2>1 DEF LoopTo
    <2>3. \A j \in 1..Len(more), x \in Seq(T) : Adds(T, more)[j][x] = x \o more[j]
      BY <1>1, AddsIs, ZenonT(30)
    <2> QED BY ONLY <2>1, <2>2, <2>3
  <1> DEFINE g == [i \in 0..n |-> f[i]]
  <1>5. g \in [0..n -> Seq(T)]
    <2>1. \A i \in 0..n : i \in 0..n + 1
      BY <1>1
    <2> QED BY <2>1
  <1>6. LoopTo(g, <<>>, Adds(T, ss), n)
    <2>1. g[0] = <<>>
      BY <1>1, <1>2 DEF LoopTo
    <2>2. ASSUME NEW i \in 1..n PROVE g[i] = Adds(T, ss)[i][g[i - 1]]
      <3>1. i \in 1..n + 1 /\ i \in 0..n /\ i - 1 \in 0..n /\ i \in 1..Len(ss)
        BY <1>1
      <3>2. f[i] = f[i - 1] \o ss[i] /\ f[i - 1] \in Seq(T)
        BY <1>1, <1>4, <3>1
      <3>3. Adds(T, ss)[i][f[i - 1]] = f[i - 1] \o ss[i]
        <4>1. \A j \in 1..Len(ss), x \in Seq(T) : Adds(T, ss)[j][x] = x \o ss[j]
          BY AddsIs
        <4> QED BY ONLY <3>1, <3>2, <4>1
      <3> QED BY <3>1, <3>2, <3>3
    <2> HIDE DEF g
    <2> QED BY <2>1, <2>2 DEF LoopTo
  <1>7. Dsf!FlattenSeq(ss) = g[n] /\ g[n] = f[n] /\ g[n] \in Seq(T)
    <2>1. Dsf!FlattenSeq(ss) = g[n]
      <3> HIDE DEF g
      <3>1. Flattens(T, ss, n, g)
        BY <1>5, <1>6 DEF Flattens
      <3> QED BY <3>1, FlattenIsLoop
    <2>2. n \in 0..n
      BY <1>1
    <2> QED BY <1>5, <2>1, <2>2
  <1>8. n + 1 \in 1..n + 1 /\ (n + 1) - 1 = n
    BY <1>1
  <1>9. f[n + 1] = f[n] \o s
    BY <1>1, <1>4, <1>8
  <1> QED BY <1>3, <1>7, <1>9 DEF more
-----------------------------------------------------------------------------
(* Bytes and pads.                                                         *)

ByteType == Nat \X Nat
NoPad(s) == \A i \in 1..Len(s) : s[i] # Dsf!Pad

LEMMA PadIs == Dsf!Pad \in ByteType /\ <<>> \in Seq(ByteType)
  BY DEF Dsf!Pad, ByteType

LEMMA WithoutPadsNothing == Dsf!WithoutPads(<<>>) = <<>>
  <1>1. [i \in DOMAIN <<>> |-> IF <<>>[i] = Dsf!Pad THEN <<>> ELSE <<<<>>[i]>>] = <<>>
    OBVIOUS
  <1> QED BY <1>1, FlattenNothing DEF Dsf!WithoutPads

\* Bytes without the padding: one byte more, ...
LEMMA WithoutPadsMore ==
    ASSUME NEW s \in Seq(ByteType), NEW x \in ByteType
    PROVE  /\ Dsf!WithoutPads(s) \in Seq(ByteType)
           /\ Dsf!WithoutPads(Append(s, x)) = IF x = Dsf!Pad THEN Dsf!WithoutPads(s) ELSE Append(Dsf!WithoutPads(s), x)
  <1> DEFINE P == Dsf!Pad
             One(y) == IF y = P THEN <<>> ELSE <<y>>
             ss == [i \in DOMAIN s |-> One(s[i])]
             more == [i \in DOMAIN Append(s, x) |-> One(Append(s, x)[i])]
  <1>1. \A y \in ByteType : One(y) \in Seq(ByteType)
    OBVIOUS
  <1>2. /\ Len(s) \in Nat /\ DOMAIN s = 1..Len(s) /\ DOMAIN Append(s, x) = 1..Len(s) + 1
        /\ \A i \in 1..Len(s) : s[i] \in ByteType /\ Append(s, x)[i] = s[i]
        /\ Append(s, x)[Len(s) + 1] = x
    OBVIOUS
  <1>3. Dsf!WithoutPads(s) = Dsf!FlattenSeq(ss) /\ Dsf!WithoutPads(Append(s, x)) = Dsf!FlattenSeq(more)
    BY DEF Dsf!WithoutPads
  <1> HIDE DEF One, P
  <1>4. ss \in Seq(Seq(ByteType)) /\ Len(ss) = Len(s)
    BY <1>1, <1>2
  <1>5. more = Append(ss, One(x))
    <2>1. Append(ss, One(x)) = [i \in 1..Len(s) + 1 |-> IF i = Len(s) + 1 THEN One(x) ELSE ss[i]]
      BY <1>2, <1>4
    <2>2. ASSUME NEW i \in 1..Len(s) + 1 PROVE One(Append(s, x)[i]) = IF i = Len(s) + 1 THEN One(x) ELSE ss[i]
      BY <1>2
    <2> HIDE DEF ss
    <2> QED BY <1>2, <2>1, <2>2
  <1> HIDE DEF ss, more
  <1>6. One(x) \in Seq(ByteType)
    BY <1>1
  <1>7. Dsf!FlattenSeq(ss) \in Seq(ByteType) /\ Dsf!FlattenSeq(more) = Dsf!FlattenSeq(ss) \o One(x)
    BY <1>4, <1>5, <1>6, FlattenMore
  <1>8. Dsf!FlattenSeq(ss) \o One(x) = IF x = P THEN Dsf!FlattenSeq(ss) ELSE Append(Dsf!FlattenSeq(ss), x)
    BY <1>7 DEF One
  <1> QED BY <1>3, <1>7, <1>8 DEF P

\* Every sequence of bytes that is not empty is a shorter one and a last byte.
LEMMA FrontAndLast ==
    ASSUME NEW T, NEW t \in Seq(T), NEW n \in Nat, Len(t) = n + 1
    PROVE  \E s \in Seq(T), x \in T : t = Append(s, x) /\ Len(s) = n
  <1> DEFINE s == [i \in 1..n |-> t[i]]
  <1>1. s \in Seq(T) /\ Len(s) = n /\ t[n + 1] \in T
    OBVIOUS
  <1>2. t = Append(s, t[n + 1])
    OBVIOUS
  <1> HIDE DEF s
  <1> QED BY <1>1, <1>2

LEMMA AppendToConcat ==
    ASSUME NEW a \in Seq(ByteType), NEW b \in Seq(ByteType), NEW e \in ByteType
    PROVE  Append(a \o b, e) = a \o Append(b, e)
  OBVIOUS

\* ... bytes after others, ...
LEMMA WithoutPadsConcat ==
    ASSUME NEW s \in Seq(ByteType), NEW t \in Seq(ByteType)
    PROVE  Dsf!WithoutPads(s \o t) = Dsf!WithoutPads(s) \o Dsf!WithoutPads(t)
  <1> DEFINE W(u) == Dsf!WithoutPads(u)
             N == {n \in Nat : \A u \in Seq(ByteType) : Len(u) = n => W(s \o u) = W(s) \o W(u)}
  <1>1. \A u \in Seq(ByteType) : W(u) \in Seq(ByteType)
    BY WithoutPadsMore, PadIs
  <1>2. 0 \in N
    <2> SUFFICES ASSUME NEW u \in Seq(ByteType), Len(u) = 0 PROVE W(s \o u) = W(s) \o W(u)
      OBVIOUS
    <2>1. u = <<>> /\ s \o u = s
      OBVIOUS
    <2>2. W(u) = <<>>
      BY <2>1, WithoutPadsNothing
    <2> HIDE DEF W
    <2> QED BY <1>1, <2>1, <2>2
  <1>3. ASSUME NEW n \in Nat, n \in N PROVE n + 1 \in N
    <2> SUFFICES ASSUME NEW u \in Seq(ByteType), Len(u) = n + 1 PROVE W(s \o u) = W(s) \o W(u)
      OBVIOUS
    <2>1. PICK v \in Seq(ByteType), x \in ByteType : u = Append(v, x) /\ Len(v) = n
      BY FrontAndLast
    <2>2. s \o u = Append(s \o v, x) /\ s \o v \in Seq(ByteType)
      BY <2>1
    <2>3. W(s \o v) = W(s) \o W(v)
      BY <1>3, <2>1
    <2>4. W(Append(s \o v, x)) = IF x = Dsf!Pad THEN W(s \o v) ELSE Append(W(s \o v), x)
      BY <2>2, WithoutPadsMore
    <2>5. W(u) = IF x = Dsf!Pad THEN W(v) ELSE Append(W(v), x)
      BY <2>1, WithoutPadsMore
    <2> HIDE DEF W
    <2>6. Append(W(s) \o W(v), x) = W(s) \o Append(W(v), x)
      <3>1. W(s) \in Seq(ByteType) /\ W(v) \in Seq(ByteType)
        BY <1>1
      <3> QED BY <3>1, AppendToConcat
    <2> QED BY <2>2, <2>3, <2>4, <2>5, <2>6
  <1> HIDE DEF N
  <1>4. Len(t) \in N
    BY <1>2, <1>3, Induct
  <1> QED BY <1>4 DEF N

\* ... bytes without any, ...
LEMMA NothingToRemove ==
    ASSUME NEW t \in Seq(ByteType), NoPad(t)
    PROVE  Dsf!WithoutPads(t) = t
  <1> DEFINE W(u) == Dsf!WithoutPads(u)
             N == {n \in Nat : \A u \in Seq(ByteType) : Len(u) = n /\ NoPad(u) => W(u) = u}
  <1>1. 0 \in N
    <2> SUFFICES ASSUME NEW u \in Seq(ByteType), Len(u) = 0 PROVE W(u) = u
      OBVIOUS
    <2>1. u = <<>>
      OBVIOUS
    <2> QED BY <2>1, WithoutPadsNothing
  <1>2. ASSUME NEW n \in Nat, n \in N PROVE n + 1 \in N
    <2> SUFFICES ASSUME NEW u \in Seq(ByteType), Len(u) = n + 1, NoPad(u) PROVE W(u) = u
      OBVIOUS
    <2>1. PICK v \in Seq(ByteType), x \in ByteType : u = Append(v, x) /\ Len(v) = n
      BY FrontAndLast
    <2>2. NoPad(v) /\ x # Dsf!Pad
      BY <2>1 DEF NoPad
    <2>3. W(v) = v
      BY <1>2, <2>1, <2>2
    <2> QED BY <2>1, <2>2, <2>3, WithoutPadsMore
  <1> HIDE DEF N
  <1>3. Len(t) \in N
    BY <1>1, <1>2, Induct
  <1> QED BY <1>3 DEF N

\* ... and nothing else.
LEMMA OnlyPads ==
    ASSUME NEW k \in Nat
    PROVE  /\ [i \in 1..k |-> Dsf!Pad] \in Seq(ByteType) /\ Len([i \in 1..k |-> Dsf!Pad]) = k
           /\ Dsf!WithoutPads([i \in 1..k |-> Dsf!Pad]) = <<>>
  <1> DEFINE p(n) == [i \in 1..n |-> Dsf!Pad]
             N == {n \in Nat : Dsf!WithoutPads(p(n)) = <<>>}
  <1>1. \A n \in Nat : p(n) \in Seq(ByteType) /\ Len(p(n)) = n
    BY PadIs
  <1>2. 0 \in N
    <2>1. p(0) = <<>>
      OBVIOUS
    <2> QED BY <2>1, WithoutPadsNothing
  <1>3. ASSUME NEW n \in Nat, n \in N PROVE n + 1 \in N
    <2>1. p(n + 1) = Append(p(n), Dsf!Pad)
      OBVIOUS
    <2> HIDE DEF p
    <2>2. Dsf!WithoutPads(Append(p(n), Dsf!Pad)) = Dsf!WithoutPads(p(n))
      BY <1>1, PadIs, WithoutPadsMore
    <2>3. Dsf!WithoutPads(p(n)) = <<>>
      BY <1>3
    <2>4. Dsf!WithoutPads(p(n + 1)) = <<>>
      BY <2>1, <2>2, <2>3
    <2> QED BY <2>4
  <1> HIDE DEF N
  <1>4. k \in N
    BY <1>2, <1>3, Induct
  <1> QED BY <1>1, <1>4 DEF N

\* A block of a buffer.
LEMMA PaddedIs ==
    ASSUME NEW b \in Seq(ByteType), Block \in Nat, Len(b) <= Block, NoPad(b)
    PROVE  /\ Dsf!Padded(b) \in Seq(ByteType) /\ Len(Dsf!Padded(b)) = Block
           /\ Dsf!WithoutPads(Dsf!Padded(b)) = b
           /\ Len(b) = Block => Dsf!Padded(b) = b
  <1> DEFINE k == Block - Len(b)
             pads == [i \in 1..k |-> Dsf!Pad]
  <1>1. k \in Nat
    OBVIOUS
  <1> HIDE DEF k
  <1>2. pads \in Seq(ByteType) /\ Len(pads) = k /\ Dsf!WithoutPads(pads) = <<>>
    BY <1>1, OnlyPads
  <1>3. Dsf!Padded(b) = b \o pads
    BY DEF Dsf!Padded, k
  <1>4. k = 0 => pads = <<>>
    OBVIOUS
  <1> HIDE DEF pads
  <1>5. Dsf!WithoutPads(b \o pads) = b \o <<>>
    BY <1>2, WithoutPadsConcat, NothingToRemove
  <1>6. b \o <<>> = b /\ b \o pads \in Seq(ByteType) /\ Len(b \o pads) = Len(b) + k
    BY <1>2
  <1> QED BY <1>3, <1>4, <1>5, <1>6 DEF k
-----------------------------------------------------------------------------
(* A pass over the channels.                                               *)

BlockType == [channel : 1..Channels, bytes : Seq(ByteType)]
Accs == [buffer : [1..Channels -> Seq(ByteType)], next : Nat, samples : Nat, out : Seq(BlockType)]

WriterConstants == Channels \in Nat \ {0} /\ Block \in Nat \ {0} /\ \A len \in FrameLens : len \in Nat /\ len >= Channels

LEMMA WriterConstantsHold == WriterConstants
  BY WriterAssumption DEF Dsf!DsfAssumption, WriterConstants

\* Whatever does the channels' turns is the pass.
DoesTurns(t, a, len) == /\ t[0] = a /\ t = [c \in 0..Channels |-> t[c]]
                        /\ \A c \in 1..Channels : t[c] = Dsf!Turn(t[c - 1], c, len)

LEMMA PassIs ==
    ASSUME Channels \in Nat, NEW a, NEW len, NEW t, DoesTurns(t, a, len)
    PROVE  Dsf!Pass(a, len) = t[Channels]
  <1>1. ASSUME NEW c \in 0..Channels PROVE t[c] = IF c = 0 THEN a ELSE Dsf!Turn(t[c - 1], c, len)
    <2>1. c # 0 => c \in 1..Channels
      OBVIOUS
    <2> QED BY <2>1 DEF DoesTurns
  <1>2. t = [c \in 0..Channels |-> IF c = 0 THEN a ELSE Dsf!Turn(t[c - 1], c, len)]
    BY <1>1 DEF DoesTurns
  <1> DEFINE b == CHOOSE x : x = [c \in 0..Channels |-> IF c = 0 THEN a ELSE Dsf!Turn(x[c - 1], c, len)]
  <1>3. b = [c \in 0..Channels |-> IF c = 0 THEN a ELSE Dsf!Turn(b[c - 1], c, len)]
    BY <1>2
  <1>4. Dsf!Pass(a, len) = b[Channels]
    BY DEF Dsf!Pass
  <1> HIDE DEF b
  <1> DEFINE N == {i \in Nat : i <= Channels => b[i] = t[i]}
  <1>5. 0 \in N
    <2>1. b[0] = a
      BY <1>3
    <2> QED BY <2>1 DEF DoesTurns
  <1>6. ASSUME NEW i \in Nat, i \in N PROVE i + 1 \in N
    <2>1. SUFFICES ASSUME i + 1 <= Channels PROVE b[i + 1] = t[i + 1]
      OBVIOUS
    <2>2. i + 1 \in 0..Channels /\ i + 1 # 0 /\ (i + 1) - 1 = i /\ b[i] = t[i]
      BY <1>6, <2>1
    <2>3. b[i + 1] = Dsf!Turn(b[(i + 1) - 1], i + 1, len)
      BY <1>3, <2>2
    <2>4. t[i + 1] = Dsf!Turn(t[(i + 1) - 1], i + 1, len)
      BY <1>1, <2>2
    <2> QED BY <2>2, <2>3, <2>4
  <1> HIDE DEF N
  <1>7. Channels \in N
    BY <1>5, <1>6, Induct
  <1> QED BY <1>4, <1>7 DEF N

\* A turn that takes a byte, and one that gives a block away.
Taken(a, c, len) ==
    [buffer |-> [a.buffer EXCEPT ![c] = Append(@, Dsf!ByteAt(Len(written) + 1, a.next, len))], next |-> a.next + 1,
     samples |-> a.samples, out |-> a.out]
Gone(a, c) ==
    [buffer |-> [a.buffer EXCEPT ![c] = <<>>], next |-> a.next, samples |-> a.samples + Len(a.buffer[c]),
     out |-> Append(a.out, [channel |-> c, bytes |-> Dsf!Padded(a.buffer[c])])]

IsAcc(a, B, n, s, o) == B \in [1..Channels -> Seq(ByteType)] /\ a = [buffer |-> B, next |-> n, samples |-> s, out |-> o]
Accumulates(a) == \E B, n, s, o : IsAcc(a, B, n, s, o)

HasRoom(L, len) == L < Block /\ L < len \div Channels

LEMMA TurnIs ==
    \A a, c, len :
       Accumulates(a) /\ c \in 1..Channels =>
          /\ HasRoom(Len(a.buffer[c]), len) => Dsf!Turn(a, c, len) = Taken(a, c, len)
          /\ ~HasRoom(Len(a.buffer[c]), len) => Dsf!Turn(a, c, len) = Gone(a, c)
  <1> SUFFICES ASSUME NEW a, NEW c, NEW len, Accumulates(a), c \in 1..Channels
               PROVE  /\ HasRoom(Len(a.buffer[c]), len) => Dsf!Turn(a, c, len) = Taken(a, c, len)
                      /\ ~HasRoom(Len(a.buffer[c]), len) => Dsf!Turn(a, c, len) = Gone(a, c)
    OBVIOUS
  <1>0. PICK B, n, s, o : IsAcc(a, B, n, s, o)
    BY DEF Accumulates
  <1> DEFINE byte == Dsf!ByteAt(Len(written) + 1, a.next, len)
             block == [channel |-> c, bytes |-> Dsf!Padded(a.buffer[c])]
  <1>1. /\ a = [buffer |-> B, next |-> n, samples |-> s, out |-> o]
        /\ B \in [1..Channels -> Seq(ByteType)] /\ a.buffer = B /\ a.next = n /\ a.samples = s /\ a.out = o
    BY <1>0 DEF IsAcc
  <1>2. [a EXCEPT !.buffer[c] = Append(@, byte), !.next = @ + 1]
        = [buffer |-> [B EXCEPT ![c] = Append(@, byte)], next |-> n + 1, samples |-> s, out |-> o]
    <2> HIDE DEF byte
    <2>1. PICK x : x = byte
      OBVIOUS
    <2>2. PICK y : y = [B EXCEPT ![c] = Append(@, x)]
      OBVIOUS
    <2>3. [a EXCEPT !.buffer[c] = Append(@, x)] = [buffer |-> y, next |-> n, samples |-> s, out |-> o]
      <3>1. [a EXCEPT !.buffer[c] = Append(@, x)] = [a EXCEPT !.buffer = y]
        BY <1>1, <2>2
      <3>2. [[buffer |-> B, next |-> n, samples |-> s, out |-> o] EXCEPT !.buffer = y]
            = [buffer |-> y, next |-> n, samples |-> s, out |-> o]
        OBVIOUS
      <3> QED BY <1>1, <3>1, <3>2
    <2>4. [a EXCEPT !.buffer[c] = Append(@, x), !.next = @ + 1] = [[a EXCEPT !.buffer[c] = Append(@, x)] EXCEPT !.next = @ + 1]
      BY <1>1
    <2>5. [[buffer |-> y, next |-> n, samples |-> s, out |-> o] EXCEPT !.next = @ + 1]
          = [buffer |-> y, next |-> n + 1, samples |-> s, out |-> o]
      OBVIOUS
    <2> QED BY <2>1, <2>2, <2>3, <2>4, <2>5
  <1>3. [a EXCEPT !.buffer[c] = <<>>, !.samples = @ + Len(a.buffer[c]), !.out = Append(@, block)]
        = [buffer |-> [B EXCEPT ![c] = <<>>], next |-> n, samples |-> s + Len(B[c]), out |-> Append(o, block)]
    <2> HIDE DEF block
    <2>1. PICK x : x = block
      OBVIOUS
    <2>2. PICK y : y = [B EXCEPT ![c] = <<>>]
      OBVIOUS
    <2>3. PICK z : z = s + Len(B[c])
      OBVIOUS
    <2>4. [a EXCEPT !.buffer[c] = <<>>] = [buffer |-> y, next |-> n, samples |-> s, out |-> o]
      BY <1>1, <2>2
    <2>5. [[buffer |-> y, next |-> n, samples |-> s, out |-> o] EXCEPT !.samples = z]
          = [buffer |-> y, next |-> n, samples |-> z, out |-> o]
      OBVIOUS
    <2>6. PICK w : w = Append(o, x)
      OBVIOUS
    <2>7. [[buffer |-> y, next |-> n, samples |-> z, out |-> o] EXCEPT !.out = w]
          = [buffer |-> y, next |-> n, samples |-> z, out |-> w]
      OBVIOUS
    <2>8. [a EXCEPT !.buffer[c] = <<>>, !.samples = @ + Len(a.buffer[c]), !.out = Append(@, x)]
          = [[[a EXCEPT !.buffer[c] = <<>>] EXCEPT !.samples = z] EXCEPT !.out = w]
      BY <1>1, <2>3, <2>6
    <2> QED BY <2>1, <2>2, <2>3, <2>4, <2>5, <2>6, <2>7, <2>8
  <1> QED BY <1>1, <1>2, <1>3 DEF Dsf!Turn, Taken, Gone, HasRoom

\* When all buffers are equally full and not full, a pass takes a byte for each channel.
AllTaken(a, len, m) ==
    [buffer |-> [c \in 1..Channels |-> IF c <= m THEN Append(a.buffer[c], Dsf!ByteAt(Len(written) + 1, a.next + c - 1, len))
                                       ELSE a.buffer[c]],
     next |-> a.next + m, samples |-> a.samples, out |-> a.out]

LEMMA PassTakes ==
    ASSUME NEW B, NEW n \in Nat, NEW s, NEW o, NEW a, NEW len, NEW L \in Nat,
           IsAcc(a, B, n, s, o),
           \A c \in 1..Channels : Len(B[c]) = L, HasRoom(L, len)
    PROVE  Dsf!Pass(a, len) = AllTaken(a, len, Channels)
  <1>0. PICK t : t = [m \in 0..Channels |-> AllTaken(a, len, m)]
    OBVIOUS
  <1>1. Channels \in Nat \ {0}
    BY WriterConstantsHold DEF WriterConstants
  <1>2. B \in [1..Channels -> Seq(ByteType)] /\ a.buffer = B /\ a.next = n /\ a.samples = s /\ a.out = o
        /\ a = [buffer |-> B, next |-> n, samples |-> s, out |-> o]
    BY DEF IsAcc
  <1>3. t[0] = a
    <2>1. AllTaken(a, len, 0) = [buffer |-> [c \in 1..Channels |-> B[c]], next |-> n, samples |-> s, out |-> o]
      <3>1. ASSUME NEW c \in 1..Channels
            PROVE  (IF c <= 0 THEN Append(a.buffer[c], Dsf!ByteAt(Len(written) + 1, a.next + c - 1, len)) ELSE a.buffer[c]) = B[c]
        <4>1. ~(c <= 0)
          OBVIOUS
        <4> QED BY <1>2, <4>1
      <3>2. a.next + 0 = n
        BY <1>2
      <3> QED BY <1>2, <3>1, <3>2 DEF AllTaken
    <2>2. 0 \in 0..Channels
      BY <1>1
    <2> QED BY <1>0, <1>2, <2>1, <2>2
  <1>4. ASSUME NEW c \in 1..Channels PROVE t[c] = Dsf!Turn(t[c - 1], c, len)
    <2>0. PICK before : before = AllTaken(a, len, c - 1)
      OBVIOUS
    <2> DEFINE byte(i) == Dsf!ByteAt(Len(written) + 1, n + i - 1, len)
    <2>1. PICK A \in [1..Channels -> Seq(ByteType)] :
             A = [i \in 1..Channels |-> IF i <= c - 1 THEN Append(B[i], byte(i)) ELSE B[i]]
      <3>1. \A i \in 1..Channels : byte(i) \in ByteType
        <4> SUFFICES ASSUME NEW i \in 1..Channels PROVE byte(i) \in ByteType
          OBVIOUS
        <4>1. n + i - 1 \in Nat /\ Len(written) + 1 \in Nat
          OBVIOUS
        <4> QED BY <4>1 DEF Dsf!ByteAt, Dsf!Stale, ByteType
      <3> HIDE DEF byte
      <3>2. \A i \in 1..Channels : (IF i <= c - 1 THEN Append(B[i], byte(i)) ELSE B[i]) \in Seq(ByteType)
        BY <1>2, <3>1
      <3> QED BY <3>2
    <2>2. before = [buffer |-> A, next |-> n + (c - 1), samples |-> s, out |-> o]
      BY <1>2, <2>0, <2>1 DEF AllTaken
    <2>3. A[c] = B[c] /\ Len(A[c]) = L
      BY <1>2, <2>1
    <2>4. Dsf!Turn(before, c, len) = Taken(before, c, len)
      <3>1. before.buffer = A
        BY <2>2
      <3>2. PICK x : x = n + (c - 1)
        OBVIOUS
      <3>3. Accumulates(before)
        BY <2>2, <3>2 DEF IsAcc, Accumulates
      <3>4. HasRoom(Len(before.buffer[c]), len)
        BY <2>3, <3>1
      <3>5. c \in 1..Channels
        OBVIOUS
      <3> QED BY ONLY <3>3, <3>4, <3>5, TurnIs
    <2>5. Taken(before, c, len) = [buffer |-> [A EXCEPT ![c] = Append(@, byte(c))], next |-> n + c, samples |-> s, out |-> o]
      <3>1. before.buffer = A /\ before.next = n + c - 1 /\ before.samples = s /\ before.out = o /\ before.next + 1 = n + c
        BY <2>2
      <3> QED BY <3>1 DEF Taken
    <2>6. [A EXCEPT ![c] = Append(@, byte(c))]
          = [i \in 1..Channels |-> IF i <= c THEN Append(B[i], byte(i)) ELSE B[i]]
      <3> HIDE DEF byte
      <3>1. ASSUME NEW i \in 1..Channels
            PROVE  (IF i = c THEN Append(A[c], byte(c)) ELSE A[i]) = IF i <= c THEN Append(B[i], byte(i)) ELSE B[i]
        BY <1>1, <2>1, <2>3
      <3> QED BY <3>1
    <2>7. AllTaken(a, len, c) = [buffer |-> [i \in 1..Channels |-> IF i <= c THEN Append(B[i], byte(i)) ELSE B[i]],
                                 next |-> n + c, samples |-> s, out |-> o]
      BY <1>2 DEF AllTaken
    <2>8. t[c] = AllTaken(a, len, c) /\ t[c - 1] = before
      BY <1>0, <1>1, <2>0
    <2> QED BY <2>4, <2>5, <2>6, <2>7, <2>8
  <1>5. t = [c \in 0..Channels |-> t[c]] /\ t[Channels] = AllTaken(a, len, Channels)
    BY <1>0, <1>1
  <1>6. \A c \in 1..Channels : t[c] = Dsf!Turn(t[c - 1], c, len)
    BY <1>4
  <1>7. DoesTurns(t, a, len)
    BY <1>3, <1>5, <1>6 DEF DoesTurns
  <1>8. Dsf!Pass(a, len) = t[Channels]
    BY <1>1, <1>7, PassIs
  <1> QED BY <1>5, <1>8

\* When they are full, or hold a frame's share, it gives all blocks away.
AllGone(a, m, L) ==
    [buffer |-> [c \in 1..Channels |-> IF c <= m THEN <<>> ELSE a.buffer[c]],
     next |-> a.next, samples |-> a.samples + m * L,
     out |-> a.out \o [c \in 1..m |-> [channel |-> c, bytes |-> Dsf!Padded(a.buffer[c])]]]

LEMMA AppendToBlocks ==
    ASSUME NEW a \in Seq(BlockType), NEW b \in Seq(BlockType), NEW e \in BlockType
    PROVE  Append(a \o b, e) = a \o Append(b, e)
  OBVIOUS

LEMMA PassGives ==
    ASSUME NEW B, NEW n \in Nat, NEW s \in Nat, NEW o \in Seq(BlockType), NEW a, NEW len, NEW L \in Nat,
           IsAcc(a, B, n, s, o),
           \A c \in 1..Channels : Len(B[c]) = L,
           \A c \in 1..Channels : [channel |-> c, bytes |-> Dsf!Padded(B[c])] \in BlockType,
           ~HasRoom(L, len)
    PROVE  Dsf!Pass(a, len) = AllGone(a, Channels, L)
  <1>0. PICK t : t = [m \in 0..Channels |-> AllGone(a, m, L)]
    OBVIOUS
  <1> DEFINE block(c) == [channel |-> c, bytes |-> Dsf!Padded(B[c])]
  <1>1. Channels \in Nat \ {0}
    BY WriterConstantsHold DEF WriterConstants
  <1>2. B \in [1..Channels -> Seq(ByteType)] /\ a.buffer = B /\ a.next = n /\ a.samples = s /\ a.out = o
        /\ a = [buffer |-> B, next |-> n, samples |-> s, out |-> o]
    BY DEF IsAcc
  <1>3. t[0] = a
    <2>1. AllGone(a, 0, L) = [buffer |-> [c \in 1..Channels |-> B[c]], next |-> n, samples |-> s, out |-> o]
      <3>1. \A c \in 1..Channels : ~(c <= 0)
        OBVIOUS
      <3>2. [c \in 1..0 |-> block(c)] = <<>> /\ o \o <<>> = o /\ s + 0 * L = s
        OBVIOUS
      <3> QED BY <1>2, <3>1, <3>2 DEF AllGone
    <2>2. 0 \in 0..Channels
      BY <1>1
    <2> QED BY <1>0, <1>2, <2>1, <2>2
  <1>4. ASSUME NEW c \in 1..Channels PROVE t[c] = Dsf!Turn(t[c - 1], c, len)
    <2>0. PICK before : before = AllGone(a, c - 1, L)
      OBVIOUS
    <2>1. PICK A \in [1..Channels -> Seq(ByteType)] :
             A = [i \in 1..Channels |-> IF i <= c - 1 THEN <<>> ELSE B[i]]
      BY <1>2, PadIs
    <2>2. PICK given \in Seq(BlockType) : given = [i \in 1..c - 1 |-> block(i)] /\ Len(given) = c - 1
      <3>1. \A i \in 1..c - 1 : i \in 1..Channels
        BY <1>1
      <3>2. \A i \in 1..c - 1 : block(i) \in BlockType
        BY <3>1
      <3>3. c - 1 \in Nat
        BY <1>1
      <3> HIDE DEF block
      <3>4. [i \in 1..c - 1 |-> block(i)] \in Seq(BlockType) /\ Len([i \in 1..c - 1 |-> block(i)]) = c - 1
        BY ONLY <3>2, <3>3
      <3> QED BY <3>4
    <2>3. before = [buffer |-> A, next |-> n, samples |-> s + (c - 1) * L, out |-> o \o given]
      BY <1>2, <2>0, <2>1, <2>2 DEF AllGone
    <2>4. A[c] = B[c] /\ Len(A[c]) = L
      <3>1. ~(c <= c - 1) /\ Len(B[c]) = L
        BY <1>1
      <3> QED BY <2>1, <3>1
    <2>5. Dsf!Turn(before, c, len) = Gone(before, c)
      <3>1. before.buffer = A
        BY <2>3
      <3>2. PICK x, y : x = s + (c - 1) * L /\ y = o \o given
        OBVIOUS
      <3>3. Accumulates(before)
        BY <2>3, <3>2 DEF IsAcc, Accumulates
      <3>4. ~HasRoom(Len(before.buffer[c]), len)
        BY <2>4, <3>1
      <3>5. c \in 1..Channels
        OBVIOUS
      <3> QED BY ONLY <3>3, <3>4, <3>5, TurnIs
    <2>6. Gone(before, c) = [buffer |-> [A EXCEPT ![c] = <<>>], next |-> n, samples |-> s + (c - 1) * L + L,
                             out |-> Append(o \o given, block(c))]
      <3>1. before.buffer = A /\ before.next = n /\ before.samples = s + (c - 1) * L /\ before.out = o \o given
        BY <2>3
      <3> QED BY <2>4, <3>1 DEF Gone
    <2>7. [A EXCEPT ![c] = <<>>] = [i \in 1..Channels |-> IF i <= c THEN <<>> ELSE B[i]]
      <3>1. ASSUME NEW i \in 1..Channels
            PROVE  (IF i = c THEN <<>> ELSE A[i]) = IF i <= c THEN <<>> ELSE B[i]
        BY <1>1, <2>1, <2>4
      <3> QED BY <3>1
    <2>8. Append(o \o given, block(c)) = o \o [i \in 1..c |-> block(i)]
      <3>1. PICK b \in BlockType : b = block(c)
        OBVIOUS
      <3>2. [i \in 1..c |-> block(i)] = Append(given, b)
        <4> HIDE DEF block
        <4> QED BY <2>2, <3>1
      <3>3. Append(o \o given, b) = o \o Append(given, b)
        BY AppendToBlocks
      <3> QED BY <3>1, <3>2, <3>3
    <2>9. s + (c - 1) * L + L = s + c * L
      <3>1. PICK k \in Nat : k = c - 1 /\ c = k + 1
        OBVIOUS
      <3>2. (k + 1) * L = k * L + L /\ k * L \in Nat
        OBVIOUS
      <3> QED BY <3>1, <3>2
    <2>10. AllGone(a, c, L) = [buffer |-> [i \in 1..Channels |-> IF i <= c THEN <<>> ELSE B[i]],
                               next |-> n, samples |-> s + c * L, out |-> o \o [i \in 1..c |-> block(i)]]
      BY <1>2 DEF AllGone
    <2>11. t[c] = AllGone(a, c, L) /\ t[c - 1] = before
      BY <1>0, <1>1, <2>0
    <2> HIDE DEF block
    <2> QED BY <2>5, <2>6, <2>7, <2>8, <2>9, <2>10, <2>11
  <1>5. t = [c \in 0..Channels |-> t[c]] /\ t[Channels] = AllGone(a, Channels, L)
    BY <1>0, <1>1
  <1>6. \A c \in 1..Channels : t[c] = Dsf!Turn(t[c - 1], c, len)
    BY <1>4
  <1>7. DoesTurns(t, a, len)
    BY <1>3, <1>5, <1>6 DEF DoesTurns
  <1>8. Dsf!Pass(a, len) = t[Channels]
    BY <1>1, <1>7, PassIs
  <1> QED BY <1>5, <1>8
-----------------------------------------------------------------------------
(* Numbers.                                                                *)

\* Products, ...
LEMMA Times ==
    ASSUME NEW a \in Nat, NEW b \in Nat, NEW n \in Nat
    PROVE  a * n \in Nat /\ (a + 1) * n = a * n + n /\ (a <= b => a * n <= b * n)
  <1>1. a * n \in Nat /\ (a + 1) * n = a * n + n
    OBVIOUS
  <1>2. ASSUME a <= b PROVE a * n <= b * n
    <2>1. PICK d \in Nat : b = a + d
      <3>1. b - a \in Nat /\ b = a + (b - a)
        BY <1>2
      <3> QED BY <3>1
    <2>2. (a + d) * n = a * n + d * n /\ d * n \in Nat
      OBVIOUS
    <2> QED BY <2>1, <2>2
  <1> QED BY <1>1, <1>2

\* ... what a quotient is, ...
LEMMA Quotient ==
    ASSUME NEW n \in Nat \ {0}, NEW m \in Nat
    PROVE  m \div n \in Nat /\ m % n \in 0..n - 1 /\ m = (m \div n) * n + (m % n)
  <1>1. m % n \in 0..n - 1 /\ m = n * (m \div n) + (m % n)
    OBVIOUS
  <1>2. m \div n \in Nat
    OBVIOUS
  <1>3. n * (m \div n) = (m \div n) * n
    BY <1>2
  <1> QED BY <1>1, <1>2, <1>3

\* ... and how one is recognized.
LEMMA QuotientIs ==
    ASSUME NEW n \in Nat \ {0}, NEW m \in Nat, NEW q \in Nat, q * n <= m, m < q * n + n
    PROVE  m \div n = q /\ m % n = m - q * n
  <1>1. PICK d \in Nat : d = m \div n
    BY Quotient
  <1>2. PICK r \in 0..n - 1 : r = m % n
    BY Quotient
  <1>3. m = d * n + r
    BY <1>1, <1>2, Quotient
  <1>4. ~(d < q)
    <2> SUFFICES ASSUME d < q PROVE FALSE
      OBVIOUS
    <2>1. (d + 1) * n <= q * n /\ (d + 1) * n = d * n + n /\ d * n \in Nat /\ q * n \in Nat
      <3>1. d + 1 \in Nat /\ d + 1 <= q
        OBVIOUS
      <3> QED BY <3>1, Times
    <2> QED BY <1>3, <2>1
  <1>5. ~(q < d)
    <2> SUFFICES ASSUME q < d PROVE FALSE
      OBVIOUS
    <2>1. (q + 1) * n <= d * n /\ (q + 1) * n = q * n + n /\ d * n \in Nat /\ q * n \in Nat
      <3>1. q + 1 \in Nat /\ q + 1 <= d
        OBVIOUS
      <3> QED BY <3>1, Times
    <2> QED BY <1>3, <2>1
  <1>6. d = q
    BY <1>4, <1>5
  <1>7. q * n \in Nat
    BY Times
  <1> QED BY <1>1, <1>2, <1>3, <1>6, <1>7
-----------------------------------------------------------------------------
(* What the blocks given away and the bytes that wait are.                 *)

\* n rounds of blocks, one for each channel in turn.
InTurn(bs, n) ==
    /\ n \in Nat /\ bs \in Seq(BlockType) /\ Len(bs) = n * Channels
    /\ \A k \in 1..n, c \in 1..Channels : LET b == bs[(k - 1) * Channels + c] IN b.channel = c /\ Len(b.bytes) = Block
BytesFor(bs, n, c) == [k \in 1..n |-> bs[(k - 1) * Channels + c].bytes]
BytesIn(bs) == [i \in DOMAIN bs |-> bs[i].bytes]

\* In bs and in the buffers B, with l bytes each, is what E says, with s samples in bs.
WriterOK(bs, n, B, l, E, s, clean) ==
    /\ InTurn(bs, n) /\ l \in 0..Block
    /\ B \in [1..Channels -> Seq(ByteType)] /\ \A c \in 1..Channels : Len(B[c]) = l /\ NoPad(B[c])
    /\ \A c \in 1..Channels : /\ Dsf!WithoutPads(Dsf!FlattenSeq(BytesFor(bs, n, c))) \o B[c] = E[c]
                              /\ clean => NoPad(Dsf!FlattenSeq(BytesFor(bs, n, c)))
    /\ s = Len(Dsf!WithoutPads(Dsf!FlattenSeq(BytesIn(bs))))

\* A place in a round is one of the blocks.
LEMMA PlaceIs ==
    ASSUME NEW n \in Nat, NEW k \in 1..n, NEW c \in 1..Channels
    PROVE  (k - 1) * Channels + c \in 1..n * Channels
  <1>1. Channels \in Nat \ {0}
    BY WriterConstantsHold DEF WriterConstants
  <1>2. PICK j \in Nat : j = k - 1 /\ j + 1 <= n
    OBVIOUS
  <1>3. j * Channels \in Nat /\ (j + 1) * Channels = j * Channels + Channels /\ (j + 1) * Channels <= n * Channels
        /\ n * Channels \in Nat
    <2>1. j + 1 \in Nat
      OBVIOUS
    <2> QED BY <1>1, <1>2, <2>1, Times
  <1> QED BY <1>1, <1>2, <1>3

\* And every block has a place in a round.
LEMMA PlaceOf ==
    ASSUME NEW n \in Nat, NEW i \in 1..n * Channels
    PROVE  \E k \in 1..n, c \in 1..Channels : i = (k - 1) * Channels + c /\ c = ((i - 1) % Channels) + 1
  <1>1. Channels \in Nat \ {0} /\ i - 1 \in Nat
    BY WriterConstantsHold DEF WriterConstants
  <1>2. PICK q \in Nat : q = (i - 1) \div Channels
    BY <1>1, Quotient
  <1>3. PICK r \in 0..Channels - 1 : r = (i - 1) % Channels
    BY <1>1, Quotient
  <1>4. i - 1 = q * Channels + r
    BY <1>1, <1>2, <1>3, Quotient
  <1>5. q < n
    <2> SUFFICES ASSUME n <= q PROVE FALSE
      OBVIOUS
    <2>1. n * Channels <= q * Channels /\ n * Channels \in Nat /\ q * Channels \in Nat
      BY <1>1, Times
    <2> QED BY <1>1, <1>3, <1>4, <2>1
  <1>6. q + 1 \in 1..n /\ (q + 1) - 1 = q /\ r + 1 \in 1..Channels
    BY <1>1, <1>5
  <1>7. q * Channels \in Nat
    BY <1>1, Times
  <1>8. i = ((q + 1) - 1) * Channels + (r + 1) /\ r + 1 = ((i - 1) % Channels) + 1
    <2>1. i = q * Channels + (r + 1)
      BY <1>1, <1>4, <1>7
    <2> QED BY <1>3, <1>6, <2>1
  <1> QED BY <1>6, <1>8

\* The bytes are bytes.
LEMMA BytesAre ==
    ASSUME NEW bs, NEW n, InTurn(bs, n)
    PROVE  /\ BytesIn(bs) \in Seq(Seq(ByteType))
           /\ \A c \in 1..Channels : BytesFor(bs, n, c) \in Seq(Seq(ByteType)) /\ Len(BytesFor(bs, n, c)) = n
           /\ Dsf!FlattenSeq(BytesIn(bs)) \in Seq(ByteType)
           /\ \A c \in 1..Channels : Dsf!FlattenSeq(BytesFor(bs, n, c)) \in Seq(ByteType)
  <1>1. n \in Nat /\ Len(bs) = n * Channels /\ DOMAIN bs = 1..Len(bs) /\ Len(bs) \in Nat
    BY DEF InTurn
  <1>2. \A i \in 1..Len(bs) : bs[i].bytes \in Seq(ByteType)
    <2> SUFFICES ASSUME NEW i \in 1..Len(bs) PROVE bs[i].bytes \in Seq(ByteType)
      OBVIOUS
    <2>1. bs[i] \in BlockType
      BY DEF InTurn
    <2> QED BY <2>1 DEF BlockType
  <1>3. BytesIn(bs) \in Seq(Seq(ByteType))
    BY <1>1, <1>2 DEF BytesIn
  <1>4. ASSUME NEW c \in 1..Channels PROVE BytesFor(bs, n, c) \in Seq(Seq(ByteType)) /\ Len(BytesFor(bs, n, c)) = n
    <2>1. \A k \in 1..n : bs[(k - 1) * Channels + c].bytes \in Seq(ByteType)
      BY <1>1, <1>2, PlaceIs
    <2> QED BY <1>1, <2>1 DEF BytesFor
  <1>5. \A ss \in Seq(Seq(ByteType)) : Dsf!FlattenSeq(ss) \in Seq(ByteType)
    BY PadIs, FlattenMore
  <1> QED BY <1>3, <1>4, <1>5

\* A byte more for every channel.
LEMMA BytesTaken ==
    ASSUME NEW bs, NEW n, NEW B, NEW l, NEW E, NEW s, NEW clean, WriterOK(bs, n, B, l, E, s, clean),
           l < Block, NEW byte, \A c \in 1..Channels : byte[c] \in ByteType /\ byte[c] # Dsf!Pad
    PROVE  WriterOK(bs, n, [c \in 1..Channels |-> Append(B[c], byte[c])], l + 1,
                    [c \in 1..Channels |-> Append(E[c], byte[c])], s, clean)
  <1>1. Block \in Nat
    BY WriterConstantsHold DEF WriterConstants
  <1>2. l \in Nat /\ l + 1 \in 0..Block
    BY <1>1 DEF WriterOK
  <1>3. InTurn(bs, n) /\ s = Len(Dsf!WithoutPads(Dsf!FlattenSeq(BytesIn(bs))))
    BY DEF WriterOK
  <1>4. ASSUME NEW c \in 1..Channels
        PROVE  /\ Append(B[c], byte[c]) \in Seq(ByteType) /\ Len(Append(B[c], byte[c])) = l + 1 /\ NoPad(Append(B[c], byte[c]))
               /\ Dsf!WithoutPads(Dsf!FlattenSeq(BytesFor(bs, n, c))) \o Append(B[c], byte[c]) = Append(E[c], byte[c])
               /\ clean => NoPad(Dsf!FlattenSeq(BytesFor(bs, n, c)))
    <2>1. PICK b \in Seq(ByteType) : b = B[c] /\ Len(b) = l /\ NoPad(b)
      BY DEF WriterOK
    <2>2. PICK x \in ByteType : x = byte[c] /\ x # Dsf!Pad
      OBVIOUS
    <2>3. Append(b, x) \in Seq(ByteType) /\ Len(Append(b, x)) = l + 1
      BY <2>1
    <2>4. NoPad(Append(b, x))
      BY <2>1, <2>2 DEF NoPad
    <2>5. PICK g \in Seq(ByteType) : g = Dsf!WithoutPads(Dsf!FlattenSeq(BytesFor(bs, n, c)))
      BY <1>3, BytesAre, PadIs, WithoutPadsMore
    <2>6. g \o b = E[c]
      BY <2>1, <2>5 DEF WriterOK
    <2>7. Append(g \o b, x) = g \o Append(b, x)
      BY AppendToConcat
    <2>8. clean => NoPad(Dsf!FlattenSeq(BytesFor(bs, n, c)))
      BY DEF WriterOK
    <2> QED BY <2>1, <2>2, <2>3, <2>4, <2>5, <2>6, <2>7, <2>8
  <1> QED BY <1>2, <1>3, <1>4 DEF WriterOK

\* The blocks of a round are counted, one after the other.
RoundOf(B) == [c \in 1..Channels |-> [channel |-> c, bytes |-> Dsf!Padded(B[c])]]

LEMMA BlocksOfRound ==
    ASSUME NEW B \in [1..Channels -> Seq(ByteType)], NEW l \in 0..Block, \A c \in 1..Channels : Len(B[c]) = l /\ NoPad(B[c])
    PROVE  /\ \A c \in 1..Channels : /\ RoundOf(B)[c] \in BlockType
                                     /\ RoundOf(B)[c].channel = c /\ RoundOf(B)[c].bytes = Dsf!Padded(B[c])
                                     /\ Dsf!Padded(B[c]) \in Seq(ByteType) /\ Len(Dsf!Padded(B[c])) = Block
                                     /\ Dsf!WithoutPads(Dsf!Padded(B[c])) = B[c]
                                     /\ l = Block => Dsf!Padded(B[c]) = B[c]
           /\ RoundOf(B) \in Seq(BlockType) /\ Len(RoundOf(B)) = Channels
  <1>1. Block \in Nat /\ Channels \in Nat
    BY WriterConstantsHold DEF WriterConstants
  <1>2. ASSUME NEW c \in 1..Channels
        PROVE  /\ RoundOf(B)[c] \in BlockType
               /\ RoundOf(B)[c].channel = c /\ RoundOf(B)[c].bytes = Dsf!Padded(B[c])
               /\ Dsf!Padded(B[c]) \in Seq(ByteType) /\ Len(Dsf!Padded(B[c])) = Block
               /\ Dsf!WithoutPads(Dsf!Padded(B[c])) = B[c]
               /\ l = Block => Dsf!Padded(B[c]) = B[c]
    <2>1. PICK b \in Seq(ByteType) : b = B[c] /\ Len(b) = l /\ NoPad(b) /\ Len(b) <= Block
      BY <1>1
    <2>2. Dsf!Padded(b) \in Seq(ByteType) /\ Len(Dsf!Padded(b)) = Block
          /\ Dsf!WithoutPads(Dsf!Padded(b)) = b /\ (Len(b) = Block => Dsf!Padded(b) = b)
      BY <1>1, <2>1, PaddedIs
    <2>3. RoundOf(B)[c] = [channel |-> c, bytes |-> Dsf!Padded(b)]
      BY <2>1 DEF RoundOf
    <2> QED BY <2>1, <2>2, <2>3 DEF BlockType
  <1>3. DOMAIN RoundOf(B) = 1..Channels /\ RoundOf(B) = [c \in 1..Channels |-> RoundOf(B)[c]]
    BY DEF RoundOf
  <1>4. PICK r : r = RoundOf(B)
    OBVIOUS
  <1>5. r \in Seq(BlockType) /\ Len(r) = Channels
    BY <1>1, <1>2, <1>3, <1>4
  <1> QED BY <1>2, <1>4, <1>5

\* Blocks one by one: their bytes, and the samples in them.
Samples(bs) == Len(Dsf!WithoutPads(Dsf!FlattenSeq(BytesIn(bs))))
HoldsSamples(b, l) == b \in BlockType /\ Len(Dsf!WithoutPads(b.bytes)) = l

LEMMA ConcatBlocks == \A a, b \in Seq(BlockType) : a \o b \in Seq(BlockType)
  OBVIOUS

\* A sequence with an element more, as a function.
LEMMA AppendIs ==
    ASSUME NEW S, NEW q \in Seq(S), NEW p \in S
    PROVE  Append(q, p) = [i \in 1..Len(q) + 1 |-> IF i = Len(q) + 1 THEN p ELSE q[i]]
  <1>1. PICK n \in Nat : n = Len(q)
    OBVIOUS
  <1>2. PICK t \in Seq(S) : t = Append(q, p)
    BY AppendProperties
  <1>3. Len(t) = n + 1 /\ t[n + 1] = p /\ \A i \in 1..n : t[i] = q[i]
    BY <1>1, <1>2
  <1>4. t = [i \in 1..n + 1 |-> t[i]]
    BY <1>3
  <1>5. ASSUME NEW i \in 1..n + 1 PROVE t[i] = IF i = n + 1 THEN p ELSE q[i]
    <2>1. i = n + 1 \/ i \in 1..n
      OBVIOUS
    <2> QED BY <1>3, <2>1
  <1> QED BY <1>1, <1>2, <1>4, <1>5

\* A block more: its bytes, ...
LEMMA BytesMore ==
    ASSUME NEW e \in Seq(BlockType), NEW b \in BlockType
    PROVE  /\ BytesIn(e) \in Seq(Seq(ByteType)) /\ b.bytes \in Seq(ByteType)
           /\ BytesIn(Append(e, b)) = Append(BytesIn(e), b.bytes)
  <1>1. PICK k \in Nat : k = Len(e)
    OBVIOUS
  <1>2. DOMAIN e = 1..k /\ DOMAIN Append(e, b) = 1..k + 1
        /\ Append(e, b)[k + 1] = b /\ \A i \in 1..k : Append(e, b)[i] = e[i] /\ e[i] \in BlockType
    BY <1>1
  <1>3. \A x \in BlockType : x.bytes \in Seq(ByteType)
    BY DEF BlockType
  <1>4. PICK q \in Seq(Seq(ByteType)) : q = BytesIn(e) /\ Len(q) = k /\ \A i \in 1..k : q[i] = e[i].bytes
    <2>1. BytesIn(e) = [i \in 1..k |-> e[i].bytes]
      BY <1>2 DEF BytesIn
    <2>2. \A i \in 1..k : e[i].bytes \in Seq(ByteType)
      BY <1>2, <1>3
    <2>3. PICK S : S = Seq(ByteType)
      OBVIOUS
    <2>4. PICK v : v = [i \in 1..k |-> e[i].bytes]
      OBVIOUS
    <2>5. v \in Seq(S) /\ Len(v) = k
      BY <2>2, <2>3, <2>4
    <2> QED BY <2>1, <2>3, <2>4, <2>5
  <1>5. PICK p \in Seq(ByteType) : p = b.bytes
    BY <1>3
  <1>6. Append(q, p) = [i \in 1..k + 1 |-> IF i = k + 1 THEN p ELSE q[i]]
    <2>1. PICK S : S = Seq(ByteType)
      OBVIOUS
    <2>2. q \in Seq(S) /\ p \in S
      BY <1>4, <2>1
    <2>3. Append(q, p) = [i \in 1..Len(q) + 1 |-> IF i = Len(q) + 1 THEN p ELSE q[i]]
      BY <2>2, AppendIs
    <2> QED BY <1>4, <2>3
  <1>7. BytesIn(Append(e, b)) = [i \in 1..k + 1 |-> Append(e, b)[i].bytes]
    BY <1>2 DEF BytesIn
  <1>8. ASSUME NEW i \in 1..k + 1 PROVE Append(e, b)[i].bytes = IF i = k + 1 THEN p ELSE q[i]
    <2>1. CASE i = k + 1
      BY <1>2, <1>5, <2>1
    <2>2. CASE i # k + 1
      <3>1. i \in 1..k
        BY <1>1, <2>2
      <3>2. Append(e, b)[i] = e[i] /\ q[i] = e[i].bytes
        BY <1>2, <1>4, <3>1
      <3> QED BY <2>2, <3>2
    <2> QED BY <2>1, <2>2
  <1> QED BY <1>4, <1>5, <1>6, <1>7, <1>8

\* ... what they are without padding, ...
LEMMA FlattenBytes ==
    ASSUME NEW q \in Seq(Seq(ByteType)), NEW p \in Seq(ByteType)
    PROVE  /\ Dsf!FlattenSeq(q) \in Seq(ByteType) /\ Dsf!FlattenSeq(Append(q, p)) = Dsf!FlattenSeq(q) \o p
           /\ Dsf!WithoutPads(Dsf!FlattenSeq(q)) \in Seq(ByteType) /\ Dsf!WithoutPads(p) \in Seq(ByteType)
           /\ Dsf!WithoutPads(Dsf!FlattenSeq(q) \o p) = Dsf!WithoutPads(Dsf!FlattenSeq(q)) \o Dsf!WithoutPads(p)
  <1>1. Dsf!FlattenSeq(q) \in Seq(ByteType) /\ Dsf!FlattenSeq(Append(q, p)) = Dsf!FlattenSeq(q) \o p
    BY FlattenMore
  <1>2. PICK f \in Seq(ByteType) : f = Dsf!FlattenSeq(q)
    BY <1>1
  <1>3. Dsf!WithoutPads(f) \in Seq(ByteType) /\ Dsf!WithoutPads(p) \in Seq(ByteType)
    BY PadIs, WithoutPadsMore
  <1>4. Dsf!WithoutPads(f \o p) = Dsf!WithoutPads(f) \o Dsf!WithoutPads(p)
    BY WithoutPadsConcat
  <1> QED BY <1>1, <1>2, <1>3, <1>4

\* ... and the samples.
LEMMA SamplesMore ==
    ASSUME NEW e \in Seq(BlockType), NEW b, NEW l, HoldsSamples(b, l)
    PROVE  Samples(e) \in Nat /\ l \in Nat /\ Samples(Append(e, b)) = Samples(e) + l
  <1>1. b \in BlockType /\ Len(Dsf!WithoutPads(b.bytes)) = l
    BY DEF HoldsSamples
  <1>2. PICK q \in Seq(Seq(ByteType)), p \in Seq(ByteType) : q = BytesIn(e) /\ p = b.bytes /\ BytesIn(Append(e, b)) = Append(q, p)
    BY <1>1, BytesMore
  <1>3. PICK x \in Seq(ByteType), y \in Seq(ByteType) :
           /\ x = Dsf!WithoutPads(Dsf!FlattenSeq(q)) /\ y = Dsf!WithoutPads(p)
           /\ Dsf!WithoutPads(Dsf!FlattenSeq(Append(q, p))) = x \o y
    <2>1. Dsf!FlattenSeq(Append(q, p)) = Dsf!FlattenSeq(q) \o p
      BY FlattenBytes
    <2>2. Dsf!WithoutPads(Dsf!FlattenSeq(q)) \in Seq(ByteType) /\ Dsf!WithoutPads(p) \in Seq(ByteType)
          /\ Dsf!WithoutPads(Dsf!FlattenSeq(q) \o p) = Dsf!WithoutPads(Dsf!FlattenSeq(q)) \o Dsf!WithoutPads(p)
      BY FlattenBytes
    <2> QED BY <2>1, <2>2
  <1>4. Len(x \o y) = Len(x) + Len(y) /\ Len(x) \in Nat /\ Len(y) \in Nat
    OBVIOUS
  <1> QED BY <1>1, <1>2, <1>3, <1>4 DEF Samples

\* Blocks with l samples each.
LEMMA SamplesConcat ==
    ASSUME NEW e \in Seq(BlockType), NEW l \in Nat, NEW m \in Nat
    PROVE  \A r \in Seq(BlockType) : Len(r) = m /\ (\A i \in 1..m : HoldsSamples(r[i], l)) => Samples(e \o r) = Samples(e) + m * l
  <1> DEFINE Says(r, n) == Len(r) = n /\ (\A i \in 1..n : HoldsSamples(r[i], l)) => Samples(e \o r) = Samples(e) + n * l
             N == {n \in Nat : \A r \in Seq(BlockType) : Says(r, n)}
  <1>0. PICK s \in Nat : s = Samples(e)
    <2>1. BytesIn(e) \in Seq(Seq(ByteType))
      <3>1. PICK b : b = [channel |-> 1, bytes |-> <<>>]
        OBVIOUS
      <3>2. b \in BlockType
        <4>1. 1 \in 1..Channels
          BY WriterConstantsHold DEF WriterConstants
        <4> QED BY <3>1, <4>1, PadIs DEF BlockType
      <3> QED BY <3>2, BytesMore
    <2>2. PICK q \in Seq(Seq(ByteType)) : q = BytesIn(e)
      BY <2>1
    <2>3. Dsf!WithoutPads(Dsf!FlattenSeq(q)) \in Seq(ByteType)
      BY FlattenBytes, PadIs
    <2> QED BY <2>2, <2>3 DEF Samples
  <1>1. 0 \in N
    <2> SUFFICES ASSUME NEW r \in Seq(BlockType), Len(r) = 0 PROVE Samples(e \o r) = Samples(e) + 0 * l
      OBVIOUS
    <2>1. e \o r = e
      OBVIOUS
    <2>2. Samples(e) + 0 * l = Samples(e)
      BY <1>0
    <2> QED BY <2>1, <2>2
  <1>2. ASSUME NEW n \in Nat, n \in N PROVE n + 1 \in N
    <2> SUFFICES ASSUME NEW r \in Seq(BlockType), Len(r) = n + 1, \A i \in 1..n + 1 : HoldsSamples(r[i], l)
                 PROVE  Samples(e \o r) = Samples(e) + (n + 1) * l
      OBVIOUS
    <2>1. PICK a \in Seq(BlockType), b \in BlockType : r = Append(a, b) /\ Len(a) = n
      BY FrontAndLast, Zenon
    <2>2. HoldsSamples(b, l) /\ \A i \in 1..n : HoldsSamples(a[i], l)
      <3>1. r[n + 1] = b /\ \A i \in 1..n : r[i] = a[i] /\ i \in 1..n + 1
        BY <2>1
      <3>2. n + 1 \in 1..n + 1
        OBVIOUS
      <3> QED BY <3>1, <3>2
    <2>3. Samples(e \o a) = s + n * l
      BY <1>0, <1>2, <2>1, <2>2
    <2>4. e \o r = Append(e \o a, b)
      BY <2>1, AppendToBlocks
    <2>5. PICK ea \in Seq(BlockType) : ea = e \o a
      BY ConcatBlocks
    <2>6. Samples(Append(ea, b)) = Samples(ea) + l
      BY <2>2, SamplesMore
    <2>7. (n + 1) * l = n * l + l /\ n * l \in Nat
      BY Times
    <2> QED BY <1>0, <2>3, <2>4, <2>5, <2>6, <2>7
  <1> HIDE DEF N
  <1>3. m \in N
    BY <1>1, <1>2, Induct
  <1> QED BY <1>3 DEF N

\* So the samples of a round are those that were waiting.
LEMMA SamplesOfRound ==
    ASSUME NEW bs \in Seq(BlockType), NEW B \in [1..Channels -> Seq(ByteType)], NEW l \in 0..Block,
           \A c \in 1..Channels : Len(B[c]) = l /\ NoPad(B[c])
    PROVE  Samples(bs \o RoundOf(B)) = Samples(bs) + Channels * l
  <1>1. Channels \in Nat /\ l \in Nat
    BY WriterConstantsHold DEF WriterConstants
  <1>2. PICK r \in Seq(BlockType) : r = RoundOf(B) /\ Len(r) = Channels
    BY BlocksOfRound
  <1>3. \A c \in 1..Channels : HoldsSamples(r[c], l)
    <2> SUFFICES ASSUME NEW c \in 1..Channels PROVE HoldsSamples(r[c], l)
      OBVIOUS
    <2>1. RoundOf(B)[c] \in BlockType /\ RoundOf(B)[c].bytes = Dsf!Padded(B[c])
          /\ Dsf!WithoutPads(Dsf!Padded(B[c])) = B[c]
      BY BlocksOfRound
    <2>2. r[c] = RoundOf(B)[c]
      BY <1>2
    <2> QED BY <2>1, <2>2 DEF HoldsSamples
  <1>4. PICK m \in Nat : m = Channels
    BY <1>1
  <1>5. \A t \in Seq(BlockType) : Len(t) = m /\ (\A i \in 1..m : HoldsSamples(t[i], l)) => Samples(bs \o t) = Samples(bs) + m * l
    BY <1>1, SamplesConcat
  <1> QED BY <1>2, <1>3, <1>4, <1>5
-----------------------------------------------------------------------------
(* What becomes of them when the buffers are emptied.                      *)

\* Where blocks are that follow others.
LEMMA PlacesOfConcat ==
    ASSUME NEW a \in Seq(BlockType), NEW b \in Seq(BlockType)
    PROVE  /\ a \o b \in Seq(BlockType) /\ Len(a \o b) = Len(a) + Len(b)
           /\ \A i \in 1..Len(a) : (a \o b)[i] = a[i]
           /\ \A j \in 1..Len(b) : (a \o b)[Len(a) + j] = b[j]
  <1>1. ASSUME NEW j \in 1..Len(b) PROVE (a \o b)[Len(a) + j] = b[j]
    <2>1. Len(a) + j \in 1..Len(a) + Len(b) /\ ~(Len(a) + j <= Len(a)) /\ (Len(a) + j) - Len(a) = j
      OBVIOUS
    <2> QED BY <2>1
  <1>2. a \o b \in Seq(BlockType)
    BY ConcatBlocks
  <1> QED BY <1>1, <1>2

\* A round more.
LEMMA RoundMore ==
    ASSUME NEW bs, NEW n, InTurn(bs, n), NEW r \in Seq(BlockType), Len(r) = Channels,
           \A c \in 1..Channels : r[c].channel = c /\ Len(r[c].bytes) = Block
    PROVE  /\ InTurn(bs \o r, n + 1)
           /\ \A c \in 1..Channels : BytesFor(bs \o r, n + 1, c) = Append(BytesFor(bs, n, c), r[c].bytes)
  <1>1. Channels \in Nat \ {0} /\ n \in Nat /\ bs \in Seq(BlockType) /\ Len(bs) = n * Channels
    BY WriterConstantsHold DEF WriterConstants, InTurn
  <1>2. n * Channels \in Nat /\ (n + 1) * Channels = n * Channels + Channels
    BY <1>1, Times
  <1>3. PICK t \in Seq(BlockType) : t = bs \o r
    BY <1>1, ConcatBlocks
  <1>4. Len(t) = (n + 1) * Channels
    <2>1. Len(bs \o r) = Len(bs) + Len(r)
      <3>1. bs \in Seq(BlockType)
        BY <1>1
      <3> QED BY <3>1, PlacesOfConcat
    <2> QED BY <1>1, <1>2, <1>3, <2>1
  <1>5. ASSUME NEW k \in 1..n, NEW c \in 1..Channels PROVE t[(k - 1) * Channels + c] = bs[(k - 1) * Channels + c]
    <2>1. PICK i \in 1..n * Channels : i = (k - 1) * Channels + c
      BY <1>1, PlaceIs
    <2>2. t[i] = bs[i]
      BY <1>1, <1>3, <2>1, PlacesOfConcat
    <2> QED BY <2>1, <2>2
  <1>6. ASSUME NEW c \in 1..Channels PROVE t[((n + 1) - 1) * Channels + c] = r[c]
    <2>1. (n + 1) - 1 = n
      BY <1>1
    <2>2. t[Len(bs) + c] = r[c]
      BY <1>1, <1>3, PlacesOfConcat
    <2> QED BY <1>1, <2>1, <2>2
  <1>7. \A k \in 1..n + 1 : k \in 1..n \/ k = n + 1
    BY <1>1
  <1>8. ASSUME NEW k \in 1..n + 1, NEW c \in 1..Channels
        PROVE  t[(k - 1) * Channels + c].channel = c /\ Len(t[(k - 1) * Channels + c].bytes) = Block
    <2>1. CASE k \in 1..n
      <3>1. bs[(k - 1) * Channels + c].channel = c /\ Len(bs[(k - 1) * Channels + c].bytes) = Block
        BY <2>1 DEF InTurn
      <3> QED BY <1>5, <2>1, <3>1
    <2>2. CASE k = n + 1
      BY <1>6, <2>2
    <2> QED BY <1>7, <2>1, <2>2
  <1>9. InTurn(t, n + 1)
    BY <1>1, <1>4, <1>8 DEF InTurn
  <1>10. ASSUME NEW c \in 1..Channels PROVE BytesFor(t, n + 1, c) = Append(BytesFor(bs, n, c), r[c].bytes)
    <2>1. PICK S : S = Seq(ByteType)
      OBVIOUS
    <2>2. PICK q \in Seq(S) : q = BytesFor(bs, n, c) /\ Len(q) = n
      BY <2>1, BytesAre
    <2>3. PICK p \in S : p = r[c].bytes
      <3>1. r[c] \in BlockType
        OBVIOUS
      <3> QED BY <2>1, <3>1 DEF BlockType
    <2>4. Append(q, p) = [k \in 1..n + 1 |-> IF k = n + 1 THEN p ELSE q[k]]
      BY <2>2, <2>3, AppendIs
    <2>5. ASSUME NEW k \in 1..n + 1 PROVE t[(k - 1) * Channels + c].bytes = IF k = n + 1 THEN p ELSE q[k]
      <3>1. CASE k = n + 1
        BY <1>6, <2>3, <3>1
      <3>2. CASE k # n + 1
        <4>1. k \in 1..n
          BY <1>7, <3>2
        <4>2. q[k] = bs[(k - 1) * Channels + c].bytes
          BY <2>2, <4>1 DEF BytesFor
        <4> QED BY <1>5, <3>2, <4>1, <4>2
      <3> QED BY <3>1, <3>2
    <2>6. BytesFor(t, n + 1, c) = [k \in 1..n + 1 |-> IF k = n + 1 THEN p ELSE q[k]]
      BY <2>5 DEF BytesFor
    <2> QED BY <2>2, <2>3, <2>4, <2>6
  <1> QED BY <1>3, <1>9, <1>10

LEMMA NoPadConcat ==
    ASSUME NEW a \in Seq(ByteType), NEW b \in Seq(ByteType), NoPad(a), NoPad(b)
    PROVE  NoPad(a \o b)
  <1>1. ASSUME NEW i \in 1..Len(a \o b) PROVE (a \o b)[i] # Dsf!Pad
    <2>1. CASE i <= Len(a)
      <3>1. i \in 1..Len(a) /\ (a \o b)[i] = a[i]
        BY <2>1
      <3> QED BY <3>1 DEF NoPad
    <2>2. CASE ~(i <= Len(a))
      <3>1. i - Len(a) \in 1..Len(b) /\ (a \o b)[i] = b[i - Len(a)]
        BY <2>2
      <3> QED BY <3>1 DEF NoPad
    <2> QED BY <2>1, <2>2
  <1> QED BY <1>1 DEF NoPad

NoBytes == [c \in 1..Channels |-> <<>>]

\* All buffers emptied into blocks.
LEMMA GiveKeeps ==
    ASSUME NEW bs, NEW n, NEW B, NEW l, NEW E, NEW s, NEW clean, WriterOK(bs, n, B, l, E, s, clean), clean => l = Block
    PROVE  WriterOK(bs \o RoundOf(B), n + 1, NoBytes, 0, E, s + Channels * l, clean)
  <1>1. Channels \in Nat \ {0} /\ Block \in Nat /\ l \in 0..Block /\ InTurn(bs, n) /\ bs \in Seq(BlockType)
        /\ B \in [1..Channels -> Seq(ByteType)] /\ \A c \in 1..Channels : Len(B[c]) = l /\ NoPad(B[c])
    BY WriterConstantsHold DEF WriterConstants, WriterOK, InTurn
  <1>2. PICK r \in Seq(BlockType) : r = RoundOf(B) /\ Len(r) = Channels
    BY <1>1, BlocksOfRound
  <1>3. ASSUME NEW c \in 1..Channels
        PROVE  r[c].channel = c /\ r[c].bytes = Dsf!Padded(B[c])
               /\ Dsf!Padded(B[c]) \in Seq(ByteType) /\ Len(Dsf!Padded(B[c])) = Block
               /\ Dsf!WithoutPads(Dsf!Padded(B[c])) = B[c] /\ (l = Block => Dsf!Padded(B[c]) = B[c])
    <2>1. RoundOf(B)[c].channel = c /\ RoundOf(B)[c].bytes = Dsf!Padded(B[c])
          /\ Dsf!Padded(B[c]) \in Seq(ByteType) /\ Len(Dsf!Padded(B[c])) = Block
          /\ Dsf!WithoutPads(Dsf!Padded(B[c])) = B[c] /\ (l = Block => Dsf!Padded(B[c]) = B[c])
      BY <1>1, BlocksOfRound
    <2>2. r[c] = RoundOf(B)[c]
      BY <1>2
    <2> QED BY <2>1, <2>2
  <1>4. InTurn(bs \o r, n + 1)
        /\ \A c \in 1..Channels : BytesFor(bs \o r, n + 1, c) = Append(BytesFor(bs, n, c), r[c].bytes)
    <2>1. \A c \in 1..Channels : r[c].channel = c /\ Len(r[c].bytes) = Block
      <3> SUFFICES ASSUME NEW c \in 1..Channels PROVE r[c].channel = c /\ Len(r[c].bytes) = Block
        OBVIOUS
      <3> QED BY <1>3
    <2>2. Len(r) = Channels
      BY <1>2
    <2> QED BY <1>1, <2>1, <2>2, RoundMore
  <1>5. NoBytes \in [1..Channels -> Seq(ByteType)] /\ \A c \in 1..Channels : NoBytes[c] = <<>>
    BY PadIs DEF NoBytes
  <1>6. ASSUME NEW c \in 1..Channels
        PROVE  /\ Dsf!WithoutPads(Dsf!FlattenSeq(BytesFor(bs \o r, n + 1, c))) \o NoBytes[c] = E[c]
               /\ clean => NoPad(Dsf!FlattenSeq(BytesFor(bs \o r, n + 1, c)))
    <2>1. PICK q \in Seq(Seq(ByteType)) : q = BytesFor(bs, n, c)
      BY <1>1, BytesAre
    <2>2. PICK p \in Seq(ByteType) : p = r[c].bytes /\ p = Dsf!Padded(B[c]) /\ Dsf!WithoutPads(p) = B[c]
      BY <1>3
    <2>3. BytesFor(bs \o r, n + 1, c) = Append(q, p)
      BY <1>4, <2>1, <2>2
    <2>4. PICK f \in Seq(ByteType), w \in Seq(ByteType) : f = Dsf!FlattenSeq(q) /\ w = Dsf!WithoutPads(f)
      BY <2>1, FlattenBytes, PadIs
    <2>5. Dsf!FlattenSeq(Append(q, p)) = f \o p /\ Dsf!WithoutPads(f \o p) = w \o B[c]
      <3>1. Dsf!FlattenSeq(Append(q, p)) = Dsf!FlattenSeq(q) \o p
        BY FlattenBytes
      <3>2. Dsf!WithoutPads(Dsf!FlattenSeq(q) \o p) = Dsf!WithoutPads(Dsf!FlattenSeq(q)) \o Dsf!WithoutPads(p)
        BY FlattenBytes
      <3> QED BY <2>2, <2>4, <3>1, <3>2
    <2>6. w \o B[c] = E[c]
      BY <2>1, <2>4 DEF WriterOK
    <2>7. w \o B[c] \in Seq(ByteType)
      <3>1. B[c] \in Seq(ByteType)
        BY <1>1
      <3> QED BY <3>1
    <2>8. (w \o B[c]) \o <<>> = w \o B[c]
      <3>1. \A x \in Seq(ByteType) : x \o <<>> = x
        OBVIOUS
      <3> QED BY <2>7, <3>1
    <2>9. ASSUME clean PROVE NoPad(f \o p)
      <3>1. NoPad(f)
        BY <2>1, <2>4, <2>9 DEF WriterOK
      <3>2. NoPad(p)
        <4>1. p = B[c]
          BY <1>3, <2>2, <2>9
        <4> QED BY <1>1, <4>1
      <3> QED BY <3>1, <3>2, NoPadConcat
    <2> QED BY <1>5, <2>3, <2>5, <2>6, <2>8, <2>9
  <1>7. s + Channels * l = Samples(bs \o r)
    <2>1. s = Samples(bs)
      BY DEF WriterOK, Samples
    <2> QED BY <1>1, <1>2, <2>1, SamplesOfRound
  <1>8. Len(<<>>) = 0 /\ NoPad(<<>>) /\ 0 \in 0..Block
    BY <1>1 DEF NoPad
  <1> QED BY <1>2, <1>4, <1>5, <1>6, <1>7, <1>8 DEF WriterOK, Samples
-----------------------------------------------------------------------------
(* A frame: passes until it is used up.                                    *)

\* With q bytes of a frame more for every channel.
ByteOfFrame(k, c, len) == Dsf!ByteAt(Len(written) + 1, (k - 1) * Channels + c, len)
Got(E, q, len) == [c \in 1..Channels |-> E[c] \o [k \in 1..q |-> ByteOfFrame(k, c, len)]]

\* After i passes: q bytes for every channel, L of them waiting.  A pass that
\* takes no byte empties the buffers, so at most every second pass does.
AfterPasses(a, i, bs, E, s, len, clean, q, L, n, B, m, o) ==
    /\ IsAcc(a, B, 1 + q * Channels, m, o) /\ q \in Nat /\ m \in Nat /\ o \in Seq(BlockType)
    /\ WriterOK(bs \o o, n, B, L, Got(E, q, len), s + m, clean)
    /\ q = 0 \/ (q - 1) * Channels < len
    /\ 1 + q * Channels > len \/ i <= 2 * q \/ (L = 0 /\ i <= 2 * q + 1)
PassesOK(a, i, bs, E, s, len, clean) ==
    \E q, L, n, B, m, o : AfterPasses(a, i, bs, E, s, len, clean, q, L, n, B, m, o)

\* A byte of a frame is no padding, not even one behind its end.
LEMMA ByteOfFrameIs ==
    ASSUME NEW k \in Nat \ {0}, NEW c \in 1..Channels, NEW len
    PROVE  ByteOfFrame(k, c, len) \in ByteType /\ ByteOfFrame(k, c, len) # Dsf!Pad
  <1>1. Channels \in Nat
    BY WriterConstantsHold DEF WriterConstants
  <1>2. PICK f \in Nat : f = Len(written) + 1 /\ f # 0
    <2>1. Len(written) \in Nat
      OBVIOUS
    <2> QED BY <2>1
  <1>3. PICK i \in Nat : i = (k - 1) * Channels + c
    <2>1. PICK j \in Nat : j = k - 1
      OBVIOUS
    <2>2. j * Channels \in Nat
      BY <1>1, Times
    <2> QED BY <1>1, <2>1, <2>2
  <1>4. Dsf!ByteAt(f, i, len) \in ByteType /\ Dsf!ByteAt(f, i, len) # Dsf!Pad
    BY <1>2 DEF Dsf!ByteAt, Dsf!Stale, Dsf!Pad, ByteType
  <1> QED BY <1>2, <1>3, <1>4 DEF ByteOfFrame

\* A byte more for every channel.
LEMMA GotMore ==
    ASSUME NEW E \in [1..Channels -> Seq(ByteType)], NEW q \in Nat, NEW len
    PROVE  /\ Got(E, q, len) \in [1..Channels -> Seq(ByteType)]
           /\ Got(E, q + 1, len) = [c \in 1..Channels |-> Append(Got(E, q, len)[c], ByteOfFrame(q + 1, c, len))]
  <1>1. ASSUME NEW c \in 1..Channels
        PROVE  /\ E[c] \o [k \in 1..q |-> ByteOfFrame(k, c, len)] \in Seq(ByteType)
               /\ E[c] \o [k \in 1..q + 1 |-> ByteOfFrame(k, c, len)]
                  = Append(E[c] \o [k \in 1..q |-> ByteOfFrame(k, c, len)], ByteOfFrame(q + 1, c, len))
    <2>1. \A k \in 1..q + 1 : ByteOfFrame(k, c, len) \in ByteType
      <3> SUFFICES ASSUME NEW k \in 1..q + 1 PROVE ByteOfFrame(k, c, len) \in ByteType
        OBVIOUS
      <3>1. k \in Nat \ {0}
        OBVIOUS
      <3> QED BY <3>1, ByteOfFrameIs
    <2>2. PICK g : g = [k \in 1..q + 1 |-> ByteOfFrame(k, c, len)]
      OBVIOUS
    <2>3. PICK x \in ByteType : x = ByteOfFrame(q + 1, c, len) /\ x = g[q + 1]
      BY <2>1, <2>2
    <2>4. PICK u \in Seq(ByteType) : u = [k \in 1..q |-> ByteOfFrame(k, c, len)] /\ Len(u) = q
      <3>1. \A k \in 1..q : g[k] \in ByteType /\ g[k] = ByteOfFrame(k, c, len)
        BY <2>1, <2>2
      <3>2. PICK u : u = [k \in 1..q |-> g[k]]
        OBVIOUS
      <3>3. u \in Seq(ByteType) /\ Len(u) = q
        BY ONLY <3>1, <3>2, q \in Nat
      <3> QED BY <3>1, <3>2, <3>3
    <2>5. Append(u, x) = g
      <3>1. Append(u, x) = [k \in 1..q + 1 |-> IF k = q + 1 THEN x ELSE u[k]]
        BY <2>4, AppendIs
      <3>2. ASSUME NEW k \in 1..q + 1 PROVE (IF k = q + 1 THEN x ELSE u[k]) = ByteOfFrame(k, c, len)
        <4>1. k = q + 1 \/ k \in 1..q
          OBVIOUS
        <4> QED BY <2>3, <2>4, <4>1
      <3> QED BY <2>2, <3>1, <3>2
    <2>6. PICK e \in Seq(ByteType) : e = E[c]
      OBVIOUS
    <2>7. Append(e \o u, x) = e \o Append(u, x) /\ e \o u \in Seq(ByteType)
      BY AppendToConcat
    <2> QED BY <2>2, <2>3, <2>4, <2>5, <2>6, <2>7
  <1>2. \A c \in 1..Channels : Got(E, q, len)[c] = E[c] \o [k \in 1..q |-> ByteOfFrame(k, c, len)]
    BY DEF Got
  <1> QED BY <1>1, <1>2 DEF Got

LEMMA ConcatAssociates ==
    ASSUME NEW a \in Seq(BlockType), NEW b \in Seq(BlockType), NEW c \in Seq(BlockType)
    PROVE  (a \o b) \o c = a \o (b \o c)
  OBVIOUS

\* The frame is not used up and the buffers have room.
LEMMA PassThatTakes ==
    ASSUME NEW a, NEW i \in Nat, NEW bs, NEW E \in [1..Channels -> Seq(ByteType)], NEW s, NEW len \in Nat, NEW clean,
           NEW q, NEW L, NEW n, NEW B, NEW m, NEW o, AfterPasses(a, i, bs, E, s, len, clean, q, L, n, B, m, o),
           a.next <= len, HasRoom(L, len)
    PROVE  PassesOK(Dsf!Pass(a, len), i + 1, bs, E, s, len, clean)
  <1>1. /\ Channels \in Nat \ {0} /\ Block \in Nat /\ q \in Nat /\ m \in Nat /\ L \in Nat /\ L < Block
        /\ IsAcc(a, B, 1 + q * Channels, m, o)
        /\ WriterOK(bs \o o, n, B, L, Got(E, q, len), s + m, clean)
        /\ \A c \in 1..Channels : Len(B[c]) = L
    <2>1. Channels \in Nat \ {0} /\ Block \in Nat
      BY WriterConstantsHold DEF WriterConstants
    <2>2. q \in Nat /\ m \in Nat /\ IsAcc(a, B, 1 + q * Channels, m, o)
          /\ WriterOK(bs \o o, n, B, L, Got(E, q, len), s + m, clean)
      BY DEF AfterPasses
    <2>3. L \in 0..Block /\ \A c \in 1..Channels : Len(B[c]) = L
      BY <2>2 DEF WriterOK
    <2> QED BY <2>1, <2>2, <2>3 DEF HasRoom
  <1>2. q * Channels \in Nat /\ (q + 1) * Channels = q * Channels + Channels /\ 1 + q * Channels \in Nat
    <2>1. q \in Nat /\ Channels \in Nat
      BY <1>1
    <2>2. q * Channels \in Nat /\ (q + 1) * Channels = q * Channels + Channels
      BY <2>1, Times
    <2> QED BY <2>2
  <1>3. PICK next \in Nat : next = 1 + q * Channels
    BY <1>2
  <1>4. a.buffer = B /\ a.next = next /\ a.samples = m /\ a.out = o
    BY <1>1, <1>3 DEF IsAcc
  <1>5. Dsf!Pass(a, len) = AllTaken(a, len, Channels)
    <2>1. IsAcc(a, B, next, m, o)
      BY <1>1, <1>3
    <2> QED BY <1>1, <2>1, PassTakes
  <1>6. PICK byte : byte = [c \in 1..Channels |-> ByteOfFrame(q + 1, c, len)]
    OBVIOUS
  <1>7. ASSUME NEW c \in 1..Channels
        PROVE  byte[c] \in ByteType /\ byte[c] # Dsf!Pad /\ Dsf!ByteAt(Len(written) + 1, a.next + c - 1, len) = byte[c]
    <2>1. q + 1 \in Nat \ {0} /\ (q + 1) - 1 = q
      BY <1>1
    <2>2. a.next + c - 1 = q * Channels + c
      BY <1>1, <1>2, <1>3, <1>4
    <2>3. ByteOfFrame(q + 1, c, len) \in ByteType /\ ByteOfFrame(q + 1, c, len) # Dsf!Pad
      BY <2>1, ByteOfFrameIs
    <2>4. ByteOfFrame(q + 1, c, len) = Dsf!ByteAt(Len(written) + 1, q * Channels + c, len)
      BY <2>1 DEF ByteOfFrame
    <2> QED BY <1>6, <2>2, <2>3, <2>4
  <1>8. PICK C : C = [c \in 1..Channels |-> Append(B[c], byte[c])]
    OBVIOUS
  <1>9. IsAcc(Dsf!Pass(a, len), C, 1 + (q + 1) * Channels, m, o)
    <2>1. \A c \in 1..Channels : C[c] \in Seq(ByteType)
      <3> SUFFICES ASSUME NEW c \in 1..Channels PROVE C[c] \in Seq(ByteType)
        OBVIOUS
      <3>1. PICK b \in Seq(ByteType), x \in ByteType : b = B[c] /\ x = byte[c]
        BY <1>1, <1>7 DEF IsAcc
      <3>2. Append(b, x) \in Seq(ByteType)
        BY AppendProperties
      <3> QED BY <1>8, <3>1, <3>2
    <2>2. C \in [1..Channels -> Seq(ByteType)]
      BY <1>8, <2>1
    <2>3. ASSUME NEW c \in 1..Channels
          PROVE  (IF c <= Channels THEN Append(a.buffer[c], Dsf!ByteAt(Len(written) + 1, a.next + c - 1, len)) ELSE a.buffer[c])
                 = Append(B[c], byte[c])
      <3>1. c <= Channels
        BY <1>1
      <3> QED BY <1>4, <1>7, <3>1
    <2>4. a.next + Channels = 1 + (q + 1) * Channels
      BY <1>1, <1>2, <1>3, <1>4
    <2>5. AllTaken(a, len, Channels) = [buffer |-> C, next |-> 1 + (q + 1) * Channels, samples |-> m, out |-> o]
      BY <1>4, <1>8, <2>3, <2>4 DEF AllTaken
    <2> QED BY <1>5, <2>2, <2>5 DEF IsAcc
  <1>10. WriterOK(bs \o o, n, C, L + 1, Got(E, q + 1, len), s + m, clean)
    <2>1. WriterOK(bs \o o, n, [c \in 1..Channels |-> Append(B[c], byte[c])], L + 1,
                   [c \in 1..Channels |-> Append(Got(E, q, len)[c], byte[c])], s + m, clean)
      <3>1. \A c \in 1..Channels : byte[c] \in ByteType /\ byte[c] # Dsf!Pad
        BY <1>7
      <3> QED BY <1>1, <3>1, BytesTaken
    <2>2. ASSUME NEW c \in 1..Channels
          PROVE  Append(Got(E, q, len)[c], byte[c]) = Append(Got(E, q, len)[c], ByteOfFrame(q + 1, c, len))
      BY <1>6
    <2>3. Got(E, q + 1, len) = [c \in 1..Channels |-> Append(Got(E, q, len)[c], ByteOfFrame(q + 1, c, len))]
      <3>1. q \in Nat
        BY <1>1
      <3> QED BY <3>1, GotMore
    <2>4. Got(E, q + 1, len) = [c \in 1..Channels |-> Append(Got(E, q, len)[c], byte[c])]
      BY <2>2, <2>3
    <2> QED BY <1>8, <2>1, <2>4
  <1>11. ((q + 1) - 1) * Channels < len
    <2>1. (q + 1) - 1 = q
      BY <1>1
    <2>2. q * Channels < len
      BY <1>2, <1>3, <1>4
    <2> QED BY <2>1, <2>2
  <1>12. i + 1 <= 2 * (q + 1)
    <2>1. i <= 2 * q + 1
      BY <1>1, <1>2, <1>3, <1>4 DEF AfterPasses
    <2> QED BY <1>1, <2>1
  <1>13. q + 1 \in Nat /\ o \in Seq(BlockType)
    BY <1>1 DEF AfterPasses
  <1>14. AfterPasses(Dsf!Pass(a, len), i + 1, bs, E, s, len, clean, q + 1, L + 1, n, C, m, o)
    BY <1>1, <1>9, <1>10, <1>11, <1>12, <1>13 DEF AfterPasses
  <1> QED BY <1>14 DEF PassesOK

\* It is not used up and the buffers have none.
LEMMA PassThatGives ==
    ASSUME NEW a, NEW i \in Nat, NEW bs \in Seq(BlockType), NEW E, NEW s \in Nat, NEW len \in FrameLens, NEW clean,
           clean => len \div Channels >= Block,
           NEW q, NEW L, NEW n, NEW B, NEW m, NEW o, AfterPasses(a, i, bs, E, s, len, clean, q, L, n, B, m, o),
           a.next <= len, ~HasRoom(L, len)
    PROVE  PassesOK(Dsf!Pass(a, len), i + 1, bs, E, s, len, clean)
  <1>1. /\ Channels \in Nat \ {0} /\ Block \in Nat \ {0} /\ len \in Nat /\ len >= Channels
        /\ q \in Nat /\ m \in Nat /\ L \in 0..Block /\ o \in Seq(BlockType)
        /\ IsAcc(a, B, 1 + q * Channels, m, o) /\ B \in [1..Channels -> Seq(ByteType)]
        /\ WriterOK(bs \o o, n, B, L, Got(E, q, len), s + m, clean)
        /\ \A c \in 1..Channels : Len(B[c]) = L /\ NoPad(B[c])
    BY WriterConstantsHold DEF WriterConstants, AfterPasses, WriterOK
  <1>2. q * Channels \in Nat /\ 1 + q * Channels \in Nat
    <2>1. q \in Nat /\ Channels \in Nat
      BY <1>1
    <2>2. q * Channels \in Nat
      BY <2>1, Times
    <2> QED BY <2>2
  <1>3. PICK next \in Nat : next = 1 + q * Channels
    BY <1>2
  <1>4. a.buffer = B /\ a.next = next /\ a.samples = m /\ a.out = o
    BY <1>1, <1>3 DEF IsAcc
  <1>5. PICK d \in Nat : d = len \div Channels
    BY <1>1, Quotient
  <1>6. d > 0
    <2> SUFFICES ASSUME d = 0 PROVE FALSE
      BY <1>1
    <2>1. PICK r \in 0..Channels - 1 : len = d * Channels + r
      BY <1>1, <1>5, Quotient
    <2>2. d * Channels = 0
      BY <1>1
    <2> QED BY <1>1, <2>1, <2>2
  <1>7. L # 0 /\ (clean => L = Block)
    BY <1>1, <1>5, <1>6 DEF HasRoom
  <1>8. \A c \in 1..Channels : [channel |-> c, bytes |-> Dsf!Padded(B[c])] \in BlockType
    <2> SUFFICES ASSUME NEW c \in 1..Channels PROVE [channel |-> c, bytes |-> Dsf!Padded(B[c])] \in BlockType
      OBVIOUS
    <2>1. Dsf!Padded(B[c]) \in Seq(ByteType)
      BY <1>1, BlocksOfRound
    <2> QED BY <2>1 DEF BlockType
  <1>9. Dsf!Pass(a, len) = AllGone(a, Channels, L)
    <2>1. IsAcc(a, B, next, m, o)
      BY <1>1, <1>3
    <2>2. L \in Nat /\ \A c \in 1..Channels : Len(B[c]) = L
      BY <1>1
    <2>3. m \in Nat /\ o \in Seq(BlockType)
      BY <1>1
    <2> QED BY <1>8, <2>1, <2>2, <2>3, PassGives
  <1>10. PICK R \in Seq(BlockType) : R = RoundOf(B)
    BY <1>1, BlocksOfRound
  <1>11. Channels * L \in Nat
    BY <1>1, Times
  <1>12. IsAcc(Dsf!Pass(a, len), NoBytes, 1 + q * Channels, m + Channels * L, o \o R)
    <2>1. NoBytes \in [1..Channels -> Seq(ByteType)]
      BY PadIs DEF NoBytes
    <2>2. \A c \in 1..Channels : c <= Channels
      BY <1>1
    <2>3. [c \in 1..Channels |-> IF c <= Channels THEN <<>> ELSE a.buffer[c]] = NoBytes
      BY <2>2 DEF NoBytes
    <2>4. [c \in 1..Channels |-> [channel |-> c, bytes |-> Dsf!Padded(a.buffer[c])]] = R
      BY <1>4, <1>10 DEF RoundOf
    <2>5. AllGone(a, Channels, L) = [buffer |-> NoBytes, next |-> next, samples |-> m + Channels * L, out |-> o \o R]
      BY <1>4, <2>3, <2>4 DEF AllGone
    <2> QED BY <1>3, <1>9, <2>1, <2>5 DEF IsAcc
  <1>13. WriterOK(bs \o (o \o R), n + 1, NoBytes, 0, Got(E, q, len), s + (m + Channels * L), clean)
    <2>1. WriterOK((bs \o o) \o RoundOf(B), n + 1, NoBytes, 0, Got(E, q, len), (s + m) + Channels * L, clean)
      BY <1>1, <1>7, GiveKeeps
    <2>2. (bs \o o) \o R = bs \o (o \o R)
      BY <1>1, ConcatAssociates
    <2>3. (s + m) + Channels * L = s + (m + Channels * L)
      BY <1>1, <1>11
    <2> QED BY <1>10, <2>1, <2>2, <2>3
  <1>14. m + Channels * L \in Nat /\ o \o R \in Seq(BlockType)
    <2>1. o \in Seq(BlockType)
      BY <1>1
    <2>2. o \o R \in Seq(BlockType)
      BY <2>1, ConcatBlocks
    <2>3. PICK k \in Nat : k = Channels * L
      BY <1>11
    <2>4. m + k \in Nat
      BY <1>1
    <2> QED BY <2>2, <2>3, <2>4
  <1>15. i + 1 <= 2 * q + 1
    <2>1. i <= 2 * q
      BY <1>1, <1>2, <1>3, <1>4, <1>7 DEF AfterPasses
    <2> QED BY <1>1, <2>1
  <1>16. q = 0 \/ (q - 1) * Channels < len
    BY DEF AfterPasses
  <1>17. AfterPasses(Dsf!Pass(a, len), i + 1, bs, E, s, len, clean, q, 0, n + 1, NoBytes, m + Channels * L, o \o R)
    BY <1>1, <1>12, <1>13, <1>14, <1>15, <1>16 DEF AfterPasses
  <1> QED BY <1>17 DEF PassesOK
\* Passes one after the other, the frame used up or not.
OnePass(a, len) == IF a.next > len THEN a ELSE Dsf!Pass(a, len)

\* In each case one pass more.
LEMMA PassesGoOn ==
    ASSUME NEW a, NEW i \in Nat, NEW bs \in Seq(BlockType), NEW E \in [1..Channels -> Seq(ByteType)], NEW s \in Nat,
           NEW len \in FrameLens, NEW clean, clean => len \div Channels >= Block, PassesOK(a, i, bs, E, s, len, clean)
    PROVE  PassesOK(OnePass(a, len), i + 1, bs, E, s, len, clean)
  <1>1. len \in Nat /\ Channels \in Nat
    BY WriterConstantsHold DEF WriterConstants
  <1>2. PICK q, L, n, B, m, o : AfterPasses(a, i, bs, E, s, len, clean, q, L, n, B, m, o)
    BY DEF PassesOK
  <1>3. PICK next \in Nat : next = a.next /\ next = 1 + q * Channels
    <2>1. IsAcc(a, B, 1 + q * Channels, m, o) /\ q \in Nat
      BY <1>2 DEF AfterPasses
    <2>2. q * Channels \in Nat
      BY <1>1, <2>1, Times
    <2>3. a.next = 1 + q * Channels
      BY <2>1 DEF IsAcc
    <2> QED BY <2>2, <2>3
  <1>4. CASE next > len
    <2>1. OnePass(a, len) = a
      BY <1>3, <1>4 DEF OnePass
    <2>2. AfterPasses(a, i + 1, bs, E, s, len, clean, q, L, n, B, m, o)
      BY <1>2, <1>3, <1>4 DEF AfterPasses
    <2> QED BY <2>1, <2>2 DEF PassesOK
  <1>5. CASE ~(next > len)
    <2>1. OnePass(a, len) = Dsf!Pass(a, len)
      BY <1>3, <1>5 DEF OnePass
    <2>2. a.next <= len
      BY <1>1, <1>3, <1>5
    <2>3. CASE HasRoom(L, len)
      BY <1>1, <1>2, <2>1, <2>2, <2>3, PassThatTakes
    <2>4. CASE ~HasRoom(L, len)
      BY <1>2, <2>1, <2>2, <2>4, PassThatGives
    <2> QED BY <2>3, <2>4
  <1> QED BY <1>4, <1>5

\* Whatever does the passes of a frame is what Spread does.
StartOf == [buffer |-> channelBuffers, next |-> 1, samples |-> 0, out |-> <<>>]
DoesPasses(t, len) == /\ t[0] = StartOf /\ t = [n \in 0..2 * len |-> t[n]]
                      /\ \A n \in 1..2 * len : t[n] = OnePass(t[n - 1], len)

LEMMA SpreadIs ==
    ASSUME NEW len \in Nat, NEW t, DoesPasses(t, len)
    PROVE  Dsf!Spread(len) = t[2 * len]
  <1> DEFINE last == 2 * len
             b == CHOOSE x : x = [n \in 0..last |-> IF n = 0 THEN StartOf
                                                   ELSE LET a == x[n - 1] IN IF a.next > len THEN a ELSE Dsf!Pass(a, len)]
  <1>0. last \in Nat
    OBVIOUS
  <1>1. Dsf!Spread(len) = b[last]
    BY DEF Dsf!Spread, StartOf
  <1> HIDE DEF last
  <1>2. ASSUME NEW n \in 0..last PROVE t[n] = IF n = 0 THEN StartOf ELSE OnePass(t[n - 1], len)
    <2>1. n # 0 => n \in 1..last
      BY <1>0
    <2> QED BY <2>1 DEF DoesPasses, last
  <1>3. t = [n \in 0..last |-> IF n = 0 THEN StartOf ELSE LET a == t[n - 1] IN IF a.next > len THEN a ELSE Dsf!Pass(a, len)]
    <2>1. t = [n \in 0..last |-> t[n]]
      BY DEF DoesPasses, last
    <2>2. ASSUME NEW n \in 0..last
          PROVE  t[n] = IF n = 0 THEN StartOf ELSE LET a == t[n - 1] IN IF a.next > len THEN a ELSE Dsf!Pass(a, len)
      <3>1. CASE n = 0
        BY <1>2, <3>1
      <3>2. CASE n # 0
        <4>1. t[n] = OnePass(t[n - 1], len)
          BY <1>2, <3>2
        <4> QED BY <3>2, <4>1 DEF OnePass
      <3> QED BY <3>1, <3>2
    <2> QED BY <2>1, <2>2
  <1>4. b = [n \in 0..last |-> IF n = 0 THEN StartOf ELSE LET a == b[n - 1] IN IF a.next > len THEN a ELSE Dsf!Pass(a, len)]
    BY <1>3, Zenon
  <1> HIDE DEF b
  <1> DEFINE N == {i \in Nat : i <= last => b[i] = t[i]}
  <1>5. 0 \in N
    <2>1. 0 \in 0..last
      BY <1>0
    <2>2. b[0] = StartOf
      BY <1>4, <2>1
    <2> QED BY <2>2 DEF DoesPasses
  <1>6. ASSUME NEW i \in Nat, i \in N PROVE i + 1 \in N
    <2>1. SUFFICES ASSUME i + 1 <= last PROVE b[i + 1] = t[i + 1]
      OBVIOUS
    <2>2. i + 1 \in 0..last /\ i + 1 # 0 /\ (i + 1) - 1 = i /\ b[i] = t[i]
      BY <1>0, <1>6, <2>1
    <2>3. b[i + 1] = OnePass(b[(i + 1) - 1], len)
      BY <1>4, <2>2 DEF OnePass
    <2>4. t[i + 1] = OnePass(t[(i + 1) - 1], len)
      BY <1>2, <2>2
    <2> QED BY <2>2, <2>3, <2>4
  <1> HIDE DEF N
  <1>7. last \in N
    BY <1>0, <1>5, <1>6, Induct
  <1> QED BY <1>0, <1>1, <1>7 DEF N, last

\* What Spread gives is what is there after 2 * len passes.
LEMMA SpreadOK ==
    ASSUME NEW bs \in Seq(BlockType), NEW E \in [1..Channels -> Seq(ByteType)], NEW s \in Nat,
           NEW len \in FrameLens, NEW clean, clean => len \div Channels >= Block, PassesOK(StartOf, 0, bs, E, s, len, clean)
    PROVE  PassesOK(Dsf!Spread(len), 2 * len, bs, E, s, len, clean)
  <1> DEFINE T == {a \in Accs : \E i \in Nat : PassesOK(a, i, bs, E, s, len, clean)}
             F == [i \in Nat |-> [a \in T |-> OnePass(a, len)]]
             last == 2 * len
  <1>1. len \in Nat /\ last \in Nat /\ Channels \in Nat
    BY WriterConstantsHold DEF WriterConstants
  <1> HIDE DEF last
  <1>2. ASSUME NEW a, NEW i \in Nat, PassesOK(a, i, bs, E, s, len, clean) PROVE a \in T
    <2>1. PICK q, L, n, B, m, o : AfterPasses(a, i, bs, E, s, len, clean, q, L, n, B, m, o)
      BY <1>2 DEF PassesOK
    <2>2. IsAcc(a, B, 1 + q * Channels, m, o) /\ q \in Nat /\ m \in Nat /\ o \in Seq(BlockType)
      BY <2>1 DEF AfterPasses
    <2>3. 1 + q * Channels \in Nat
      <3>1. q * Channels \in Nat
        BY <1>1, <2>2, Times
      <3> QED BY <3>1
    <2>4. a \in Accs
      BY <2>2, <2>3 DEF IsAcc, Accs
    <2> QED BY <1>2, <2>4
  <1>3. StartOf \in T
    <2>1. 0 \in Nat
      OBVIOUS
    <2> HIDE DEF T
    <2> QED BY <1>2, <2>1
  <1>4. ASSUME NEW a \in T PROVE OnePass(a, len) \in T
    <2>1. PICK i \in Nat : PassesOK(a, i, bs, E, s, len, clean)
      OBVIOUS
    <2> HIDE DEF T
    <2>2. PassesOK(OnePass(a, len), i + 1, bs, E, s, len, clean) /\ i + 1 \in Nat
      BY <2>1, PassesGoOn
    <2> QED BY <1>2, <2>2
  <1> HIDE DEF T
  <1>5. F \in [Nat -> [T -> T]]
    BY <1>4
  <1>6. PICK t \in [0..last -> T] : LoopTo(t, StartOf, F, last)
    <2> HIDE DEF F
    <2> QED BY <1>1, <1>3, <1>5, LoopUpTo
  <1>7. ASSUME NEW n \in 1..last PROVE n - 1 \in 0..last /\ t[n] = OnePass(t[n - 1], len)
    <2>1. t[n] = F[n][t[n - 1]] /\ n - 1 \in 0..last /\ n \in Nat
      <3>1. n - 1 \in 0..last /\ n \in Nat
        BY <1>1
      <3>2. t[n] = F[n][t[n - 1]]
        <4> HIDE DEF F
        <4> QED BY <1>6 DEF LoopTo
      <3> QED BY <3>1, <3>2
    <2>2. t[n - 1] \in T
      BY <1>6, <2>1
    <2> QED BY <2>1, <2>2
  <1> HIDE DEF F
  <1>8. t[0] = StartOf
    BY <1>6 DEF LoopTo
  <1>9. Dsf!Spread(len) = t[last]
    <2>1. t = [n \in 0..last |-> t[n]]
      OBVIOUS
    <2>2. DoesPasses(t, len)
      BY <1>7, <1>8, <2>1 DEF DoesPasses, last
    <2> QED BY <1>1, <2>2, SpreadIs DEF last
  <1> DEFINE N == {i \in Nat : i <= last => PassesOK(t[i], i, bs, E, s, len, clean)}
  <1>10. 0 \in N
    BY <1>8
  <1>11. ASSUME NEW i \in Nat, i \in N PROVE i + 1 \in N
    <2>1. SUFFICES ASSUME i + 1 <= last PROVE PassesOK(t[i + 1], i + 1, bs, E, s, len, clean)
      OBVIOUS
    <2>2. i + 1 \in 1..last /\ (i + 1) - 1 = i /\ PassesOK(t[i], i, bs, E, s, len, clean)
      BY <1>1, <1>11, <2>1
    <2>3. t[i + 1] = OnePass(t[i], len)
      BY <1>7, <2>2
    <2>4. PassesOK(OnePass(t[i], len), i + 1, bs, E, s, len, clean)
      BY <2>2, PassesGoOn
    <2> QED BY <2>3, <2>4
  <1> HIDE DEF N
  <1>12. last \in N
    BY <1>1, <1>10, <1>11, Induct
  <1> QED BY <1>1, <1>9, <1>12 DEF N, last
-----------------------------------------------------------------------------
(* The writer's states.                                                    *)

AllLong(fs) == \A i \in DOMAIN fs : fs[i] \div Channels >= Block
SharesOf(fs, c) == [k \in DOMAIN fs |-> Dsf!Share(k, fs[k], c)]
ExpectedOf(fs) == [c \in 1..Channels |-> Dsf!FlattenSeq(SharesOf(fs, c))]

\* Counting q bytes for a channel until a frame is used up is its share.
LEMMA SharePasses ==
    ASSUME NEW len \in FrameLens, NEW q \in Nat, 1 + q * Channels > len, q = 0 \/ (q - 1) * Channels < len
    PROVE  (len + Channels - 1) \div Channels = q
  <1>1. Channels \in Nat \ {0} /\ len \in Nat /\ len >= Channels
    BY WriterConstantsHold DEF WriterConstants
  <1>2. PICK k \in Nat : q = k + 1 /\ q - 1 = k
    <2>1. q # 0
      <3> SUFFICES ASSUME q = 0 PROVE FALSE
        OBVIOUS
      <3>1. 0 * Channels = 0
        BY <1>1
      <3> QED BY <1>1, <3>1
    <2>2. q - 1 \in Nat /\ q = (q - 1) + 1
      BY <2>1
    <2> QED BY <2>2
  <1>3. (k + 1) * Channels = k * Channels + Channels /\ k * Channels \in Nat
    <2>1. Channels \in Nat
      BY <1>1
    <2> QED BY <2>1, Times
  <1>4. k * Channels < len /\ len <= q * Channels
    BY <1>1, <1>2, <1>3
  <1>5. PICK m \in Nat : m = len + Channels - 1
    BY <1>1
  <1>6. q * Channels <= m /\ m < q * Channels + Channels
    BY <1>1, <1>2, <1>3, <1>4, <1>5
  <1> QED BY <1>1, <1>5, <1>6, QuotientIs

\* A share is of bytes.
LEMMA ShareIs ==
    ASSUME NEW number \in Nat, NEW len \in FrameLens, NEW c \in 1..Channels
    PROVE  Dsf!Share(number, len, c) \in Seq(ByteType)
  <1>1. Channels \in Nat \ {0} /\ len \in Nat
    BY WriterConstantsHold DEF WriterConstants
  <1>2. PICK Q \in Nat : Q = (len + Channels - 1) \div Channels
    <2>1. len + Channels - 1 \in Nat
      BY <1>1
    <2> QED BY <1>1, <2>1, Quotient
  <1>3. ASSUME NEW k \in 1..Q PROVE Dsf!ByteAt(number, (k - 1) * Channels + c, len) \in ByteType
    <2>1. PICK j \in Nat : j = k - 1
      OBVIOUS
    <2>2. j * Channels \in Nat
      <3>1. Channels \in Nat
        BY <1>1
      <3> QED BY <3>1, Times
    <2>3. PICK i \in Nat : i = (k - 1) * Channels + c
      BY <1>1, <2>1, <2>2
    <2>4. Dsf!ByteAt(number, i, len) \in ByteType
      BY DEF Dsf!ByteAt, Dsf!Stale, ByteType
    <2> QED BY <2>3, <2>4
  <1>4. PICK g : g = [k \in 1..Q |-> Dsf!ByteAt(number, (k - 1) * Channels + c, len)]
    OBVIOUS
  <1>5. g \in Seq(ByteType)
    BY <1>3, <1>4
  <1> QED BY <1>2, <1>4, <1>5 DEF Dsf!Share

\* What is expected after a frame more.
LEMMA ExpectedMore ==
    ASSUME NEW fs \in Seq(FrameLens), NEW len \in FrameLens
    PROVE  /\ ExpectedOf(fs) \in [1..Channels -> Seq(ByteType)]
           /\ ExpectedOf(Append(fs, len)) = [c \in 1..Channels |-> ExpectedOf(fs)[c] \o Dsf!Share(Len(fs) + 1, len, c)]
  <1>1. PICK n \in Nat : n = Len(fs)
    OBVIOUS
  <1>2. PICK more \in Seq(FrameLens) : more = Append(fs, len)
    BY AppendProperties
  <1>3. DOMAIN fs = 1..n /\ DOMAIN more = 1..n + 1 /\ more[n + 1] = len /\ \A i \in 1..n : more[i] = fs[i] /\ fs[i] \in FrameLens
    <2>1. Len(more) = n + 1 /\ more[n + 1] = len /\ \A i \in 1..n : more[i] = fs[i]
      BY <1>1, <1>2, AppendProperties
    <2> QED BY <1>1, <2>1
  <1>4. ASSUME NEW c \in 1..Channels
        PROVE  /\ Dsf!FlattenSeq(SharesOf(fs, c)) \in Seq(ByteType)
               /\ Dsf!FlattenSeq(SharesOf(more, c)) = Dsf!FlattenSeq(SharesOf(fs, c)) \o Dsf!Share(n + 1, len, c)
    <2>1. \A i \in 1..n : Dsf!Share(i, fs[i], c) \in Seq(ByteType)
      <3> SUFFICES ASSUME NEW i \in 1..n PROVE Dsf!Share(i, fs[i], c) \in Seq(ByteType)
        OBVIOUS
      <3>1. i \in Nat /\ fs[i] \in FrameLens
        BY <1>3
      <3> QED BY <3>1, ShareIs
    <2>2. PICK S : S = Seq(ByteType)
      OBVIOUS
    <2>3. PICK q \in Seq(S) : q = SharesOf(fs, c) /\ Len(q) = n /\ \A i \in 1..n : q[i] = Dsf!Share(i, fs[i], c)
      <3>1. PICK v : v = [i \in 1..n |-> Dsf!Share(i, fs[i], c)]
        OBVIOUS
      <3>2. v \in Seq(S) /\ Len(v) = n /\ \A i \in 1..n : v[i] = Dsf!Share(i, fs[i], c)
        BY <2>1, <2>2, <3>1
      <3>3. v = SharesOf(fs, c)
        BY <1>3, <3>1 DEF SharesOf
      <3> QED BY <3>2, <3>3
    <2>4. PICK p \in S : p = Dsf!Share(n + 1, len, c)
      <3>1. n + 1 \in Nat
        OBVIOUS
      <3> QED BY <2>2, <3>1, ShareIs
    <2>5. Append(q, p) = [i \in 1..n + 1 |-> IF i = n + 1 THEN p ELSE q[i]]
      <3>1. Append(q, p) = [i \in 1..Len(q) + 1 |-> IF i = Len(q) + 1 THEN p ELSE q[i]]
        BY AppendIs
      <3> QED BY <2>3, <3>1
    <2>6. ASSUME NEW i \in 1..n + 1 PROVE Dsf!Share(i, more[i], c) = IF i = n + 1 THEN p ELSE q[i]
      <3>1. i = n + 1 \/ i \in 1..n
        OBVIOUS
      <3> QED BY <1>3, <2>3, <2>4, <3>1
    <2>7. SharesOf(more, c) = Append(q, p)
      <3>1. SharesOf(more, c) = [i \in 1..n + 1 |-> Dsf!Share(i, more[i], c)]
        BY <1>3 DEF SharesOf
      <3> QED BY <2>5, <2>6, <3>1
    <2>8. q \in Seq(Seq(ByteType)) /\ p \in Seq(ByteType)
      BY <2>2
    <2>9. Dsf!FlattenSeq(q) \in Seq(ByteType) /\ Dsf!FlattenSeq(Append(q, p)) = Dsf!FlattenSeq(q) \o p
      BY <2>8, FlattenBytes
    <2> QED BY <2>3, <2>4, <2>7, <2>9
  <1>5. ExpectedOf(fs) \in [1..Channels -> Seq(ByteType)]
    BY <1>4 DEF ExpectedOf
  <1>6. \A c \in 1..Channels : ExpectedOf(fs)[c] = Dsf!FlattenSeq(SharesOf(fs, c))
    BY DEF ExpectedOf
  <1>7. ExpectedOf(more) = [c \in 1..Channels |-> ExpectedOf(fs)[c] \o Dsf!Share(n + 1, len, c)]
    BY <1>4, <1>6 DEF ExpectedOf
  <1> QED BY <1>1, <1>2, <1>5, <1>7

\* A writer that has written nothing.
LEMMA NothingWritten ==
    ASSUME NEW clean
    PROVE  /\ WriterOK(<<>>, 0, NoBytes, 0, ExpectedOf(<<>>), 0, clean)
           /\ Len(<<>>) = 0 /\ <<>> \in Seq(FrameLens)
  <1>1. Channels \in Nat /\ Block \in Nat
    BY WriterConstantsHold DEF WriterConstants
  <1>2. InTurn(<<>>, 0)
    <2>1. 0 * Channels = 0 /\ <<>> \in Seq(BlockType) /\ Len(<<>>) = 0 /\ 0 \in Nat
      BY <1>1
    <2>2. \A k : ~(k \in 1..0)
      OBVIOUS
    <2> QED BY <2>1, <2>2 DEF InTurn
  <1>3. NoBytes \in [1..Channels -> Seq(ByteType)] /\ \A c \in 1..Channels : NoBytes[c] = <<>>
    BY PadIs DEF NoBytes
  <1>4. ASSUME NEW c \in 1..Channels
        PROVE  BytesFor(<<>>, 0, c) = <<>> /\ ExpectedOf(<<>>)[c] = <<>>
    <2>1. SharesOf(<<>>, c) = <<>>
      BY DEF SharesOf
    <2> QED BY <2>1, FlattenNothing DEF BytesFor, ExpectedOf
  <1>5. BytesIn(<<>>) = <<>>
    BY DEF BytesIn
  <1>6. <<>> \o <<>> = <<>> /\ Len(<<>>) = 0 /\ NoPad(<<>>) /\ <<>> \in Seq(FrameLens)
    BY DEF NoPad
  <1> QED BY <1>1, <1>2, <1>3, <1>4, <1>5, <1>6, FlattenNothing, WithoutPadsNothing DEF WriterOK
\* The invariant: rounds of blocks and equally full buffers that hold what they should.
DsfInv == /\ written \in Seq(FrameLens) /\ sampleCount \in Nat /\ dsfAudioSize = Block * Len(blocks)
          /\ \E n, L : WriterOK(blocks, n, channelBuffers, L, ExpectedOf(written), sampleCount, AllLong(written))

\* The invariant at the beginning, with the next file, ...
LEMMA DsfInit == Dsf!Init => DsfInv
  <1> SUFFICES ASSUME Dsf!Init PROVE DsfInv
    OBVIOUS
  <1>1. channelBuffers = NoBytes /\ blocks = <<>> /\ written = <<>> /\ dsfAudioSize = 0 /\ sampleCount = 0
    BY DEF Dsf!Init, NoBytes
  <1>2. dsfAudioSize = Block * Len(blocks)
    <2>1. Block * 0 = 0 /\ Len(<<>>) = 0
      BY WriterConstantsHold DEF WriterConstants
    <2> QED BY <1>1, <2>1
  <1>3. WriterOK(<<>>, 0, NoBytes, 0, ExpectedOf(<<>>), 0, AllLong(<<>>)) /\ <<>> \in Seq(FrameLens)
    BY NothingWritten
  <1> QED BY <1>1, <1>2, <1>3 DEF DsfInv

LEMMA DsfReopen == Dsf!Reopen => DsfInv'
  <1> SUFFICES ASSUME Dsf!Reopen PROVE DsfInv'
    OBVIOUS
  <1>1. channelBuffers' = NoBytes /\ blocks' = <<>> /\ written' = <<>> /\ dsfAudioSize' = 0 /\ sampleCount' = 0
    BY DEF Dsf!Reopen, NoBytes
  <1>2. dsfAudioSize' = Block * Len(blocks')
    <2>1. Block * 0 = 0 /\ Len(<<>>) = 0
      BY WriterConstantsHold DEF WriterConstants
    <2> QED BY <1>1, <2>1
  <1>3. WriterOK(<<>>, 0, NoBytes, 0, ExpectedOf(<<>>), 0, AllLong(<<>>)) /\ <<>> \in Seq(FrameLens)
    BY NothingWritten
  <1>4. ExpectedOf(written)' = ExpectedOf(<<>>) /\ AllLong(written)' = AllLong(<<>>)
    BY <1>1 DEF ExpectedOf, AllLong, SharesOf, Dsf!Share, Dsf!ByteAt, Dsf!Stale
  <1> QED BY <1>1, <1>2, <1>3, <1>4 DEF DsfInv

\* The beginning of a frame.
LEMMA FrameBegins ==
    ASSUME NEW n, NEW L, NEW E \in [1..Channels -> Seq(ByteType)], NEW len, NEW clean,
           WriterOK(blocks, n, channelBuffers, L, E, sampleCount, clean)
    PROVE  PassesOK(StartOf, 0, blocks, E, sampleCount, len, clean)
  <1>1. Channels \in Nat /\ channelBuffers \in [1..Channels -> Seq(ByteType)] /\ blocks \in Seq(BlockType)
    BY WriterConstantsHold DEF WriterConstants, WriterOK, InTurn
  <1>2. sampleCount \in Nat
    <2>1. InTurn(blocks, n) /\ sampleCount = Len(Dsf!WithoutPads(Dsf!FlattenSeq(BytesIn(blocks))))
      BY DEF WriterOK
    <2>2. PICK q \in Seq(Seq(ByteType)) : q = BytesIn(blocks)
      BY <2>1, BytesAre
    <2>3. Dsf!WithoutPads(Dsf!FlattenSeq(q)) \in Seq(ByteType)
      BY FlattenBytes, PadIs
    <2> QED BY <2>1, <2>2, <2>3
  <1>3. 1 + 0 * Channels = 1 /\ sampleCount + 0 = sampleCount
    BY <1>1, <1>2
  <1>4. blocks \o <<>> = blocks /\ <<>> \in Seq(BlockType)
    BY <1>1
  <1>5. Got(E, 0, len) = E
    <2>1. ASSUME NEW c \in 1..Channels PROVE E[c] \o [k \in 1..0 |-> ByteOfFrame(k, c, len)] = E[c]
      <3>1. [k \in 1..0 |-> ByteOfFrame(k, c, len)] = <<>>
        OBVIOUS
      <3>2. PICK e \in Seq(ByteType) : e = E[c]
        OBVIOUS
      <3>3. e \o <<>> = e
        OBVIOUS
      <3> QED BY <3>1, <3>2, <3>3
    <2> QED BY <2>1 DEF Got
  <1>6. IsAcc(StartOf, channelBuffers, 1 + 0 * Channels, 0, <<>>)
    BY <1>1, <1>3 DEF IsAcc, StartOf
  <1>7. AfterPasses(StartOf, 0, blocks, E, sampleCount, len, clean, 0, L, n, channelBuffers, 0, <<>>)
    BY <1>3, <1>4, <1>5, <1>6 DEF AfterPasses
  <1> QED BY <1>7 DEF PassesOK

\* What was not padded need not be known.
LEMMA WriterForgets ==
    ASSUME NEW bs, NEW n, NEW B, NEW l, NEW E, NEW s, NEW clean, NEW less, WriterOK(bs, n, B, l, E, s, clean), less => clean
    PROVE  WriterOK(bs, n, B, l, E, s, less)
  BY DEF WriterOK

\* A frame written.
LEMMA FrameWritten ==
    ASSUME NEW len \in FrameLens, NEW E \in [1..Channels -> Seq(ByteType)], NEW clean, clean => len \div Channels >= Block,
           blocks \in Seq(BlockType), sampleCount \in Nat,
           PassesOK(StartOf, 0, blocks, E, sampleCount, len, clean)
    PROVE  \E n, L :
              /\ WriterOK(blocks \o Dsf!Spread(len).out, n, Dsf!Spread(len).buffer, L,
                          [c \in 1..Channels |-> E[c] \o Dsf!Share(Len(written) + 1, len, c)],
                          sampleCount + Dsf!Spread(len).samples, clean)
              /\ Dsf!Spread(len).out \in Seq(BlockType) /\ Dsf!Spread(len).samples \in Nat
  <1>1. Channels \in Nat \ {0} /\ len \in Nat
    BY WriterConstantsHold DEF WriterConstants
  <1>2. PICK a : a = Dsf!Spread(len)
    OBVIOUS
  <1>3. PassesOK(a, 2 * len, blocks, E, sampleCount, len, clean)
    BY <1>2, SpreadOK
  <1>4. PICK q, L, n, B, m, o : AfterPasses(a, 2 * len, blocks, E, sampleCount, len, clean, q, L, n, B, m, o)
    BY <1>3 DEF PassesOK
  <1>5. /\ IsAcc(a, B, 1 + q * Channels, m, o) /\ q \in Nat /\ m \in Nat /\ o \in Seq(BlockType)
        /\ WriterOK(blocks \o o, n, B, L, Got(E, q, len), sampleCount + m, clean)
        /\ q = 0 \/ (q - 1) * Channels < len
        /\ 1 + q * Channels > len \/ 2 * len <= 2 * q + 1
    <2>1. 2 * len <= 2 * q => 2 * len <= 2 * q + 1
      BY <1>1, <1>4 DEF AfterPasses
    <2> QED BY <1>4, <2>1 DEF AfterPasses
  <1>6. 1 + q * Channels > len
    <2> SUFFICES ASSUME 2 * len <= 2 * q + 1 PROVE 1 + q * Channels > len
      BY <1>5
    <2>1. PICK k \in Nat : k = q /\ len <= k
      BY <1>1, <1>5
    <2>2. PICK d \in Nat : Channels = d + 1
      <3>1. Channels - 1 \in Nat /\ Channels = (Channels - 1) + 1
        BY <1>1
      <3> QED BY <3>1
    <2>3. k * (d + 1) = k * d + k /\ k * d \in Nat
      OBVIOUS
    <2>4. k <= k * Channels /\ k * Channels \in Nat
      BY <2>2, <2>3
    <2>5. PICK p \in Nat : p = k * Channels /\ k <= p
      BY <2>4
    <2>6. 1 + p > len
      <3>1. len <= k /\ k <= p /\ len \in Nat
        BY <1>1, <2>1, <2>5
      <3> QED BY ONLY <3>1, k \in Nat, p \in Nat
    <2>7. p = q * Channels
      BY <2>1, <2>5
    <2> QED BY <2>6, <2>7
  <1>7. (len + Channels - 1) \div Channels = q
    BY <1>5, <1>6, SharePasses
  <1>8. Got(E, q, len) = [c \in 1..Channels |-> E[c] \o Dsf!Share(Len(written) + 1, len, c)]
    <2>1. ASSUME NEW c \in 1..Channels
          PROVE  [k \in 1..q |-> ByteOfFrame(k, c, len)] = Dsf!Share(Len(written) + 1, len, c)
      BY <1>7 DEF Dsf!Share, ByteOfFrame
    <2> QED BY <2>1 DEF Got
  <1>9. a.buffer = B /\ a.samples = m /\ a.out = o
    BY <1>5 DEF IsAcc
  <1> QED BY <1>2, <1>5, <1>8, <1>9

\* ... and after a frame.
LEMMA DsfWriteFrame ==
    ASSUME DsfInv, NEW len \in FrameLens, Dsf!WriteFrame(len)
    PROVE  DsfInv'
  <1>1. PICK a : a = Dsf!Spread(len)
    OBVIOUS
  <1>2. channelBuffers' = a.buffer /\ blocks' = blocks \o a.out /\ dsfAudioSize' = dsfAudioSize + Block * Len(a.out)
        /\ sampleCount' = sampleCount + a.samples /\ written' = Append(written, len)
    BY <1>1 DEF Dsf!WriteFrame
  <1>3. written \in Seq(FrameLens) /\ sampleCount \in Nat /\ dsfAudioSize = Block * Len(blocks) /\ Block \in Nat
    BY WriterConstantsHold DEF DsfInv, WriterConstants
  <1>4. PICK n, L : WriterOK(blocks, n, channelBuffers, L, ExpectedOf(written), sampleCount, AllLong(written))
    BY DEF DsfInv
  <1>5. PICK E \in [1..Channels -> Seq(ByteType)] : E = ExpectedOf(written)
    BY <1>3, ExpectedMore
  <1>6. PICK more \in Seq(FrameLens) : more = Append(written, len)
    BY <1>3, AppendProperties
  <1>7. (AllLong(more) => AllLong(written)) /\ (AllLong(more) => len \div Channels >= Block)
    <2>1. Len(more) = Len(written) + 1 /\ more[Len(written) + 1] = len
          /\ \A i \in 1..Len(written) : more[i] = written[i]
      BY <1>3, <1>6, AppendProperties
    <2>2. Len(written) \in Nat /\ DOMAIN more = 1..Len(more) /\ DOMAIN written = 1..Len(written)
      BY <1>3
    <2> QED BY <2>1, <2>2 DEF AllLong
  <1>8. PICK clean : clean = AllLong(more)
    OBVIOUS
  <1>9. WriterOK(blocks, n, channelBuffers, L, E, sampleCount, clean)
    BY <1>4, <1>5, <1>7, <1>8, WriterForgets
  <1>10. PassesOK(StartOf, 0, blocks, E, sampleCount, len, clean)
    BY <1>9, FrameBegins
  <1>11. blocks \in Seq(BlockType)
    BY <1>9 DEF WriterOK, InTurn
  <1>12. PICK k, l :
            /\ WriterOK(blocks \o a.out, k, a.buffer, l, [c \in 1..Channels |-> E[c] \o Dsf!Share(Len(written) + 1, len, c)],
                        sampleCount + a.samples, clean)
            /\ a.out \in Seq(BlockType) /\ a.samples \in Nat
    BY <1>1, <1>3, <1>7, <1>8, <1>10, <1>11, FrameWritten
  <1>13. ExpectedOf(more) = [c \in 1..Channels |-> E[c] \o Dsf!Share(Len(written) + 1, len, c)]
    BY <1>3, <1>5, <1>6, ExpectedMore
  <1>14. WriterOK(blocks', k, channelBuffers', l, ExpectedOf(more), sampleCount', AllLong(more))
    BY <1>2, <1>8, <1>12, <1>13
  <1>15. ExpectedOf(written)' = ExpectedOf(more) /\ AllLong(written)' = AllLong(more)
    BY <1>2, <1>6 DEF ExpectedOf, AllLong, SharesOf, Dsf!Share, Dsf!ByteAt, Dsf!Stale
  <1>16. dsfAudioSize' = Block * Len(blocks')
    <2>1. PICK x \in Nat, y \in Nat : x = Len(blocks) /\ y = Len(a.out) /\ Len(blocks') = x + y
      BY <1>2, <1>11, <1>12, PlacesOfConcat
    <2>2. Block * (x + y) = Block * x + Block * y
      BY <1>3
    <2> QED BY <1>2, <1>3, <2>1, <2>2
  <1>17. sampleCount' \in Nat
    BY <1>2, <1>3, <1>12
  <1> QED BY <1>2, <1>6, <1>14, <1>15, <1>16, <1>17 DEF DsfInv

\* The invariant says what the blocks hold.
LEMMA DsfInvHolds == DsfInv => Dsf!DsfTypeOK /\ Dsf!BlocksHoldTheChannels
  <1> SUFFICES ASSUME DsfInv PROVE Dsf!DsfTypeOK /\ Dsf!BlocksHoldTheChannels
    OBVIOUS
  <1>1. Channels \in Nat \ {0} /\ Block \in Nat
    BY WriterConstantsHold DEF WriterConstants
  <1>2. PICK n, L : WriterOK(blocks, n, channelBuffers, L, ExpectedOf(written), sampleCount, AllLong(written))
    BY DEF DsfInv
  <1>3. /\ InTurn(blocks, n) /\ n \in Nat /\ blocks \in Seq(BlockType) /\ Len(blocks) = n * Channels /\ L \in 0..Block
        /\ channelBuffers \in [1..Channels -> Seq(ByteType)]
        /\ \A c \in 1..Channels : Len(channelBuffers[c]) = L /\ NoPad(channelBuffers[c])
        /\ sampleCount = Len(Dsf!WithoutPads(Dsf!FlattenSeq(BytesIn(blocks))))
    BY <1>2 DEF WriterOK, InTurn
  <1>4. Len(blocks) % Channels = 0 /\ Len(blocks) \div Channels = n
    <2>1. PICK m \in Nat : m = n * Channels
      BY <1>1, <1>3, Times
    <2>2. n * Channels <= m /\ m < n * Channels + Channels /\ m - n * Channels = 0
      BY <1>1, <2>1
    <2>3. m \div Channels = n /\ m % Channels = m - n * Channels
      BY <1>1, <1>3, <2>2, QuotientIs
    <2> QED BY <1>3, <2>1, <2>2, <2>3
  <1>5. ASSUME NEW i \in DOMAIN blocks
        PROVE  blocks[i].channel = ((i - 1) % Channels) + 1 /\ blocks[i].channel \in 1..Channels /\ Len(blocks[i].bytes) = Block
    <2>1. i \in 1..n * Channels
      BY <1>3
    <2>2. PICK k \in 1..n, c \in 1..Channels : i = (k - 1) * Channels + c /\ c = ((i - 1) % Channels) + 1
      BY <1>3, <2>1, PlaceOf
    <2>3. blocks[(k - 1) * Channels + c].channel = c /\ Len(blocks[(k - 1) * Channels + c].bytes) = Block
      BY <1>3 DEF InTurn
    <2> QED BY <2>2, <2>3
  <1>6. ASSUME NEW c \in 1..Channels
        PROVE  Dsf!WithoutPads(Dsf!Given(c)) = Dsf!Expected(c) /\ (AllLong(written) => Dsf!Pad \notin Dsf!ToSet(Dsf!Given(c)))
    <2>1. Dsf!BlocksOf(c) = BytesFor(blocks, n, c)
      BY <1>4 DEF Dsf!BlocksOf, BytesFor
    <2>2. PICK q \in Seq(Seq(ByteType)) : q = BytesFor(blocks, n, c)
      BY <1>3, BytesAre
    <2>3. PICK f \in Seq(ByteType) : f = Dsf!FlattenSeq(q)
      BY FlattenBytes, PadIs
    <2>4. PICK b \in Seq(ByteType) : b = channelBuffers[c] /\ NoPad(b)
      BY <1>3
    <2>5. Dsf!Given(c) = f \o b
      BY <2>1, <2>2, <2>3, <2>4 DEF Dsf!Given
    <2>6. Dsf!WithoutPads(f \o b) = Dsf!WithoutPads(f) \o b
      <3>1. Dsf!WithoutPads(f \o b) = Dsf!WithoutPads(f) \o Dsf!WithoutPads(b)
        BY WithoutPadsConcat
      <3>2. Dsf!WithoutPads(b) = b
        BY <2>4, NothingToRemove
      <3> QED BY <3>1, <3>2
    <2>7. Dsf!WithoutPads(f) \o b = ExpectedOf(written)[c]
      BY <1>2, <2>2, <2>3, <2>4 DEF WriterOK
    <2>8. ExpectedOf(written)[c] = Dsf!Expected(c)
      BY DEF ExpectedOf, SharesOf, Dsf!Expected
    <2>9. ASSUME AllLong(written) PROVE Dsf!Pad \notin Dsf!ToSet(f \o b)
      <3>1. NoPad(f)
        BY <1>2, <2>2, <2>3, <2>9 DEF WriterOK
      <3>2. NoPad(f \o b)
        BY <2>4, <3>1, NoPadConcat
      <3>3. PICK g \in Seq(ByteType) : g = f \o b
        BY ConcatProperties
      <3> QED BY <3>2, <3>3 DEF NoPad, Dsf!ToSet
    <2> QED BY <2>5, <2>6, <2>7, <2>8, <2>9
  <1>7. Dsf!DsfTypeOK
    <2>1. \A c \in 1..Channels : Len(channelBuffers[c]) <= Block
      BY <1>1, <1>3
    <2> QED BY <1>5, <2>1 DEF Dsf!DsfTypeOK, DsfInv
  <1>8. Dsf!BlocksHoldTheChannels
    BY <1>3, <1>4, <1>5, <1>6 DEF Dsf!BlocksHoldTheChannels, AllLong, BytesIn
  <1> QED BY <1>7, <1>8

\* In the code: dsf_write_frame, called for one frame after the other, gives blocks
\* for the channels in turn in which a player finds the bytes of each channel, in
\* order, for any number of channels, size of blocks and lengths of frames.
THEOREM ChannelsAreWhole == FormatsSpec => []BlocksHoldTheChannels
  <1>1. FormatsInit => DsfInv
    BY DsfInit DEF FormatsInit
  <1>2. DsfInv /\ [FormatsNext]_formatsVars => DsfInv'
    <2> SUFFICES ASSUME DsfInv, [FormatsNext]_formatsVars PROVE DsfInv'
      OBVIOUS
    <2>1. CASE Dsf!Next
      <3>1. CASE Dsf!Reopen
        BY <3>1, DsfReopen
      <3>2. ASSUME NEW len \in FrameLens, Dsf!WriteFrame(len) PROVE DsfInv'
        BY <3>2, DsfWriteFrame
      <3> QED BY <2>1, <3>1, <3>2 DEF Dsf!Next
    <2>2. CASE UNCHANGED dsfVars
      <3>1. channelBuffers' = channelBuffers /\ blocks' = blocks /\ dsfAudioSize' = dsfAudioSize
            /\ sampleCount' = sampleCount /\ written' = written
        BY <2>2 DEF dsfVars
      <3>2. ExpectedOf(written)' = ExpectedOf(written) /\ AllLong(written)' = AllLong(written)
        BY <3>1 DEF ExpectedOf, AllLong, SharesOf, Dsf!Share, Dsf!ByteAt, Dsf!Stale
      <3> QED BY <3>1, <3>2 DEF DsfInv
    <2> QED BY <2>1, <2>2 DEF FormatsNext, formatsVars
  <1>3. DsfInv => BlocksHoldTheChannels
    BY DsfInvHolds DEF BlocksHoldTheChannels
  <1> QED BY <1>1, <1>2, <1>3, PTL DEF FormatsSpec
-----------------------------------------------------------------------------
(* The DSDIFF writer: what its structures take.                            *)

\* The writer's sums are those of before.
LEMMA SumIs == ASSUME NEW f PROVE Dsdiff!SumOf(f) = SumFunctionOnSet(f, DOMAIN f)
  BY DEF Dsdiff!SumOf, Dsdiff!SumFunction, Dsdiff!SumFunctionOnSet, Dsdiff!FoldFunctionOnSet, Dsdiff!MapThenFoldSet,
         SumFunctionOnSet, FoldFunctionOnSet, MapThenFoldSet

LEMMA WidthsOfNone == Dsdiff!SumOf(<<>>) = 0
  <1>1. DOMAIN <<>> = {}
    OBVIOUS
  <1> QED BY <1>1, SumIs, SumOfNone

\* A list of widths, one more.
LEMMA WidthsMore ==
    ASSUME NEW w \in Seq(Nat), NEW x \in Nat
    PROVE  Dsdiff!SumOf(w) \in Nat /\ Dsdiff!SumOf(Append(w, x)) = Dsdiff!SumOf(w) + x
  <1>1. PICK n \in Nat : n = Len(w)
    OBVIOUS
  <1>2. PICK v : v = Append(w, x)
    OBVIOUS
  <1>3. DOMAIN w = 1..n /\ DOMAIN v = (1..n) \cup {n + 1} /\ n + 1 \notin 1..n /\ IsFiniteSet(1..n)
    <2>1. DOMAIN v = 1..n + 1
      BY <1>1, <1>2
    <2>2. 1..n + 1 = (1..n) \cup {n + 1}
      OBVIOUS
    <2>3. DOMAIN w = 1..n /\ n + 1 \notin 1..n /\ IsFiniteSet(1..n)
      BY <1>1, FS_Interval
    <2> QED BY <2>1, <2>2, <2>3
  <1>4. \A i \in 1..n : v[i] = w[i] /\ v[i] \in Nat
    BY <1>1, <1>2
  <1>5. v[n + 1] = x
    BY <1>1, <1>2
  <1>6. SumFunctionOnSet(v, 1..n) \in Nat /\ SumFunctionOnSet(v, (1..n) \cup {n + 1}) = SumFunctionOnSet(v, 1..n) + x
    <2>1. \A y \in (1..n) \cup {n + 1} : v[y] \in Nat
      BY <1>4, <1>5
    <2> QED BY <1>3, <1>5, <2>1, SumOfMore
  <1>7. SumFunctionOnSet(v, 1..n) = SumFunctionOnSet(w, 1..n)
    BY <1>3, <1>4, SumOfSame
  <1> QED BY <1>2, <1>3, <1>6, <1>7, SumIs

-----------------------------------------------------------------------------
(* Chunks.                                                                 *)

\* A chunk that a reader can skip and that leaves the place after it even.
GoodChunk(c) == /\ c.bytes \in Nat /\ c.bytes % 2 = 0 /\ Dsdiff!SkipsWithParts(c)
GoodChunks(s) == \E T : s \in Seq(T) /\ \A c \in T : GoodChunk(c)

\* The structures whose sizes the proofs compute with.
LEMMA Sizes == /\ Dsdiff!CHUNK_HEADER_SIZE = 12 /\ Dsdiff!DST_FRAME_DATA_CHUNK_SIZE = 12
               /\ Dsdiff!FORM_DSD_CHUNK_SIZE = 16 /\ Dsdiff!DST_FRAME_INFORMATION_CHUNK_SIZE = 18
  <1>1. /\ <<4>> = Append(<<>>, 4) /\ <<4, 8>> = Append(<<4>>, 8)
        /\ <<4, 8, 4>> = Append(<<4, 8>>, 4) /\ <<4, 8, 4, 2>> = Append(<<4, 8, 4>>, 2)
        /\ <<>> \in Seq(Nat) /\ <<4>> \in Seq(Nat) /\ <<4, 8>> \in Seq(Nat) /\ <<4, 8, 4>> \in Seq(Nat)
    OBVIOUS
  <1>2. PICK none, one, two, three, four : /\ none = <<>> /\ one = <<4>> /\ two = <<4, 8>> /\ three = <<4, 8, 4>>
                                           /\ four = <<4, 8, 4, 2>>
    OBVIOUS
  <1>3. /\ none \in Seq(Nat) /\ one = Append(none, 4) /\ one \in Seq(Nat) /\ two = Append(one, 8)
        /\ two \in Seq(Nat) /\ three = Append(two, 4) /\ three \in Seq(Nat) /\ four = Append(three, 2)
    BY <1>1, <1>2
  <1>6. Dsdiff!SumOf(none) = 0
    BY <1>2, WidthsOfNone
  <1>7. Dsdiff!SumOf(one) = 4
    <2>1. 4 \in Nat /\ none \in Seq(Nat) /\ one = Append(none, 4)
      BY <1>3
    <2>2. Dsdiff!SumOf(one) = Dsdiff!SumOf(none) + 4
      BY ONLY <2>1, WidthsMore
    <2> QED BY ONLY <1>6, <2>2
  <1>8. Dsdiff!SumOf(two) = 12
    <2>1. 8 \in Nat /\ one \in Seq(Nat) /\ two = Append(one, 8)
      BY <1>3
    <2>2. Dsdiff!SumOf(two) = Dsdiff!SumOf(one) + 8
      BY ONLY <2>1, WidthsMore
    <2> QED BY ONLY <1>7, <2>2
  <1>9. Dsdiff!SumOf(three) = 16
    <2>1. 4 \in Nat /\ two \in Seq(Nat) /\ three = Append(two, 4)
      BY <1>3
    <2>2. Dsdiff!SumOf(three) = Dsdiff!SumOf(two) + 4
      BY ONLY <2>1, WidthsMore
    <2> QED BY ONLY <1>8, <2>2
  <1>10. Dsdiff!SumOf(four) = 18
    <2>1. 2 \in Nat /\ three \in Seq(Nat) /\ four = Append(three, 2)
      BY <1>3
    <2>2. Dsdiff!SumOf(four) = Dsdiff!SumOf(three) + 2
      BY ONLY <2>1, WidthsMore
    <2> QED BY ONLY <1>9, <2>2
  <1>11. two = <<4, 8>> /\ three = <<4, 8, 4>> /\ four = <<4, 8, 4, 2>>
    BY <1>2
  <1> QED BY <1>8, <1>9, <1>10, <1>11 DEF Dsdiff!CHUNK_HEADER_SIZE, Dsdiff!DST_FRAME_DATA_CHUNK_SIZE,
                                      Dsdiff!FORM_DSD_CHUNK_SIZE, Dsdiff!DST_FRAME_INFORMATION_CHUNK_SIZE

LEMMA HeaderSize == Dsdiff!CHUNK_HEADER_SIZE = 12
  BY Sizes

LEMMA WidthsAre == ASSUME NEW w \in Seq(Nat) PROVE Dsdiff!SumOf(w) \in Nat
  BY WidthsMore

\* What a list of chunks takes, a chunk more.
LEMMA BytesOfNone == Dsdiff!BytesOf(<<>>) = 0
  <1>1. [i \in DOMAIN <<>> |-> <<>>[i].bytes] = <<>>
    OBVIOUS
  <1> QED BY <1>1, WidthsOfNone DEF Dsdiff!BytesOf

LEMMA BytesOfMore ==
    ASSUME NEW T, NEW s \in Seq(T), \A c \in T : c.bytes \in Nat, NEW d \in T
    PROVE  Dsdiff!BytesOf(s) \in Nat /\ Dsdiff!BytesOf(Append(s, d)) = Dsdiff!BytesOf(s) + d.bytes
  <1>1. PICK n \in Nat : n = Len(s)
    OBVIOUS
  <1>2. PICK w : w = [i \in DOMAIN s |-> s[i].bytes]
    OBVIOUS
  <1>3. w \in Seq(Nat) /\ Len(w) = n
    <2>1. w = [i \in 1..n |-> s[i].bytes] /\ \A i \in 1..n : s[i] \in T
      BY <1>1, <1>2
    <2>2. \A i \in 1..n : s[i].bytes \in Nat
      BY <2>1
    <2> QED BY <2>1, <2>2
  <1>4. d.bytes \in Nat
    OBVIOUS
  <1>5. PICK t : t = Append(s, d)
    OBVIOUS
  <1>6. [i \in DOMAIN t |-> t[i].bytes] = Append(w, d.bytes)
    <2>1. t = [i \in 1..n + 1 |-> IF i = n + 1 THEN d ELSE s[i]]
      BY <1>1, <1>5, AppendIs
    <2>2. Append(w, d.bytes) = [i \in 1..n + 1 |-> IF i = n + 1 THEN d.bytes ELSE w[i]]
      BY <1>3, <1>4, AppendIs
    <2>3. \A i \in 1..n + 1 : i # n + 1 => w[i] = s[i].bytes
      <3> SUFFICES ASSUME NEW i \in 1..n + 1, i # n + 1 PROVE w[i] = s[i].bytes
        OBVIOUS
      <3>1. i \in DOMAIN s
        BY <1>1
      <3> QED BY <1>2, <3>1
    <2>4. [i \in DOMAIN t |-> t[i].bytes] = [i \in 1..n + 1 |-> IF i = n + 1 THEN d.bytes ELSE s[i].bytes]
      BY <2>1
    <2> QED BY <2>2, <2>3, <2>4
  <1>7. Dsdiff!BytesOf(s) = Dsdiff!SumOf(w) /\ Dsdiff!BytesOf(t) = Dsdiff!SumOf(Append(w, d.bytes))
    BY <1>2, <1>6 DEF Dsdiff!BytesOf
  <1> QED BY <1>3, <1>4, <1>5, <1>7, WidthsMore

\* Good chunks one after the other.
LEMMA GoodNone == GoodChunks(<<>>)
  <1>1. PICK T : T = {}
    OBVIOUS
  <1>2. <<>> \in Seq(T) /\ \A c \in T : GoodChunk(c)
    BY <1>1
  <1> QED BY <1>2 DEF GoodChunks

LEMMA GoodOne == ASSUME NEW c, GoodChunk(c) PROVE GoodChunks(<<c>>)
  <1>1. PICK T : T = {c}
    OBVIOUS
  <1>2. PICK s : s = <<c>>
    OBVIOUS
  <1>3. s \in Seq(T) /\ \A d \in T : GoodChunk(d)
    BY <1>1, <1>2
  <1> QED BY <1>2, <1>3 DEF GoodChunks

LEMMA GoodConcat == ASSUME NEW s, NEW t, GoodChunks(s), GoodChunks(t) PROVE GoodChunks(s \o t)
  <1>1. PICK S : s \in Seq(S) /\ \A c \in S : GoodChunk(c)
    BY DEF GoodChunks
  <1>2. PICK T : t \in Seq(T) /\ \A c \in T : GoodChunk(c)
    BY DEF GoodChunks
  <1>3. PICK U : U = S \cup T
    OBVIOUS
  <1>4. s \in Seq(U) /\ t \in Seq(U)
    BY <1>1, <1>2, <1>3
  <1>5. s \o t \in Seq(U)
    BY <1>4
  <1>6. \A c \in U : GoodChunk(c)
    BY <1>1, <1>2, <1>3
  <1> QED BY <1>5, <1>6 DEF GoodChunks

\* What follows of each of them, and of all.
LEMMA GoodEach == ASSUME NEW s, GoodChunks(s) PROVE /\ Len(s) \in Nat /\ DOMAIN s = 1..Len(s)
                                                    /\ \A i \in DOMAIN s : GoodChunk(s[i])
  <1>1. PICK S : s \in Seq(S) /\ \A c \in S : GoodChunk(c)
    BY DEF GoodChunks
  <1>2. \A i \in DOMAIN s : s[i] \in S
    BY <1>1
  <1> QED BY <1>1, <1>2

LEMMA EvenSum == ASSUME NEW x \in Nat, NEW y \in Nat, x % 2 = 0, y % 2 = 0 PROVE x + y \in Nat /\ (x + y) % 2 = 0
  OBVIOUS

LEMMA GoodBytes == ASSUME NEW s, GoodChunks(s) PROVE Dsdiff!BytesOf(s) \in Nat /\ Dsdiff!BytesOf(s) % 2 = 0
  <1>1. PICK S : s \in Seq(S) /\ \A c \in S : GoodChunk(c)
    BY DEF GoodChunks
  <1> DEFINE Even(t) == Dsdiff!BytesOf(t) \in Nat /\ Dsdiff!BytesOf(t) % 2 = 0
             N == {n \in Nat : \A t \in Seq(S) : Len(t) = n => Even(t)}
  <1>2. 0 \in N
    <2>1. \A t \in Seq(S) : Len(t) = 0 => t = <<>>
      OBVIOUS
    <2>2. Even(<<>>)
      BY BytesOfNone
    <2> HIDE DEF Even
    <2> QED BY <2>1, <2>2
  <1>3. ASSUME NEW n \in Nat, n \in N PROVE n + 1 \in N
    <2> SUFFICES ASSUME NEW t \in Seq(S), Len(t) = n + 1 PROVE Even(t)
      OBVIOUS
    <2>1. PICK r \in Seq(S), c \in S : t = Append(r, c) /\ Len(r) = n
      BY FrontAndLast
    <2>2. Even(r)
      <3> HIDE DEF Even
      <3> QED BY <1>3, <2>1
    <2>3. \A x \in S : x.bytes \in Nat
      BY <1>1 DEF GoodChunk
    <2>4. Dsdiff!BytesOf(t) = Dsdiff!BytesOf(r) + c.bytes
      BY <2>1, <2>3, BytesOfMore
    <2>5. c.bytes \in Nat /\ c.bytes % 2 = 0
      BY <1>1 DEF GoodChunk
    <2> QED BY ONLY <2>2, <2>4, <2>5, EvenSum
  <1>4. Len(s) \in N
    <2>1. Nat \subseteq N
      <3> HIDE DEF N
      <3> QED BY <1>2, <1>3, Induct
    <2> QED BY <1>1, <2>1
  <1> HIDE DEF Even
  <1>5. Even(s)
    BY <1>1, <1>4
  <1> QED BY <1>5 DEF Even

\* What Chunk makes is good.
LEMMA EvenIs == ASSUME NEW x \in Nat
                PROVE  /\ Dsdiff!CEIL_ODD_NUMBER(x) \in Nat /\ Dsdiff!CEIL_ODD_NUMBER(x) % 2 = 0
                       /\ x % 2 = 0 => Dsdiff!CEIL_ODD_NUMBER(x) = x
                       /\ Dsdiff!CEIL_ODD_NUMBER(x) = 12 + Dsdiff!CEIL_ODD_NUMBER(Dsdiff!CEIL_ODD_NUMBER(x - 12))
  BY DEF Dsdiff!CEIL_ODD_NUMBER

LEMMA ChunkIsGood ==
    ASSUME NEW id, NEW fixed \in Nat, NEW parts, Dsdiff!BytesOf(parts) \in Nat,
           id \in {"PROP", "DIIN"} => \A i \in DOMAIN parts : Dsdiff!Skips(parts[i])
    PROVE  GoodChunk(Dsdiff!Chunk(id, fixed, parts)) /\ Dsdiff!Chunk(id, fixed, parts).id = id
  <1>1. PICK b \in Nat : b = fixed + Dsdiff!BytesOf(parts)
    OBVIOUS
  <1>2. PICK c : c = [id |-> id, size |-> Dsdiff!CEIL_ODD_NUMBER(b - 12), bytes |-> Dsdiff!CEIL_ODD_NUMBER(b), parts |-> parts]
    OBVIOUS
  <1>3. Dsdiff!Chunk(id, fixed, parts) = c
    BY <1>1, <1>2, HeaderSize DEF Dsdiff!Chunk
  <1>4. c.id = id /\ c.size = Dsdiff!CEIL_ODD_NUMBER(b - 12) /\ c.bytes = Dsdiff!CEIL_ODD_NUMBER(b) /\ c.parts = parts
    BY <1>2
  <1>5. c.bytes \in Nat /\ c.bytes % 2 = 0 /\ Dsdiff!Skips(c)
    BY <1>4, EvenIs, HeaderSize DEF Dsdiff!Skips
  <1>6. Dsdiff!SkipsWithParts(c)
    BY <1>4, <1>5 DEF Dsdiff!SkipsWithParts
  <1> QED BY <1>3, <1>4, <1>5, <1>6 DEF GoodChunk

LEMMA PlainChunkIsGood ==
    ASSUME NEW id, id \notin {"PROP", "DIIN"}, NEW fixed \in Nat
    PROVE  GoodChunk(Dsdiff!Chunk(id, fixed, <<>>)) /\ Dsdiff!Chunk(id, fixed, <<>>).id = id
  BY BytesOfNone, ChunkIsGood

-----------------------------------------------------------------------------
(* Markers.                                                                *)

\* Of the other structures it is enough that their sizes are numbers.
LEMMA FixedSizes ==
    /\ Dsdiff!FORMAT_VERSION_CHUNK_SIZE \in Nat /\ Dsdiff!PROPERTY_CHUNK_SIZE \in Nat /\ Dsdiff!SAMPLE_RATE_CHUNK_SIZE \in Nat
    /\ Dsdiff!CHANNELS_CHUNK_SIZE \in Nat /\ Dsdiff!COMPRESSION_TYPE_CHUNK_SIZE \in Nat
    /\ Dsdiff!LOADSPEAKER_CONFIG_CHUNK_SIZE \in Nat /\ Dsdiff!DST_FRAME_INDEX_SIZE \in Nat
    /\ Dsdiff!COMMENT_SIZE \in Nat /\ Dsdiff!COMMENTS_CHUNK_SIZE \in Nat
    /\ Dsdiff!EDITED_MASTER_MARKER_CHUNK_SIZE \in Nat
    /\ Dsdiff!EDITED_MASTER_ARTIST_CHUNK_SIZE \in Nat /\ Dsdiff!EDITED_MASTER_TITLE_CHUNK_SIZE \in Nat
  <1>1. /\ <<4, 8, 4>> \in Seq(Nat) /\ <<4, 8, 2>> \in Seq(Nat) /\ <<4, 8, 4, 1>> \in Seq(Nat) /\ <<8, 4>> \in Seq(Nat)
    OBVIOUS
  <1>2. <<2, 1, 1, 1, 1, 2, 2, 4>> \in Seq(Nat)
    OBVIOUS
  <1>3. <<4, 8, 2, 1, 1, 4, 4, 2, 2, 2, 4>> \in Seq(Nat)
    OBVIOUS
  <1> QED BY <1>1, <1>2, <1>3, WidthsAre
          DEF Dsdiff!FORMAT_VERSION_CHUNK_SIZE, Dsdiff!PROPERTY_CHUNK_SIZE, Dsdiff!SAMPLE_RATE_CHUNK_SIZE,
              Dsdiff!CHANNELS_CHUNK_SIZE, Dsdiff!COMPRESSION_TYPE_CHUNK_SIZE, Dsdiff!LOADSPEAKER_CONFIG_CHUNK_SIZE,
              Dsdiff!DST_FRAME_INDEX_SIZE, Dsdiff!COMMENT_SIZE, Dsdiff!COMMENTS_CHUNK_SIZE,
              Dsdiff!EDITED_MASTER_MARKER_CHUNK_SIZE, Dsdiff!EDITED_MASTER_ARTIST_CHUNK_SIZE,
              Dsdiff!EDITED_MASTER_TITLE_CHUNK_SIZE

\* The time of a marker tells its frame again.
LEMMA TimeTells ==
    ASSUME NEW f \in Nat
    PROVE  /\ Dsdiff!FramesOf(Dsdiff!Time(f)) = f
           /\ Dsdiff!Time(f).minutes < 60 /\ Dsdiff!Time(f).seconds < 60
  <1>1. PICK s \in Nat, r \in Nat : s = f \div 75 /\ r = f % 75 /\ f = s * 75 + r
    OBVIOUS
  <1>2. PICK h \in Nat, m \in Nat, c \in Nat : /\ h = s \div 3600 /\ m = (s % 3600) \div 60 /\ c = s % 60
                                               /\ m < 60 /\ c < 60 /\ s = (h * 60 + m) * 60 + c
    OBVIOUS
  <1>3. PICK t : t = [hours |-> h, minutes |-> m, seconds |-> c, samples |-> r * 588 * 64]
    OBVIOUS
  <1>4. Dsdiff!Time(f) = t
    BY <1>1, <1>2, <1>3 DEF Dsdiff!Time
  <1>5. t.hours = h /\ t.minutes = m /\ t.seconds = c /\ t.samples = r * 588 * 64
    BY <1>3
  <1>6. (r * 588 * 64) \div (588 * 64) = r
    OBVIOUS
  <1>7. Dsdiff!FramesOf(t) = s * 75 + r
    BY <1>2, <1>5, <1>6 DEF Dsdiff!FramesOf
  <1> QED BY <1>1, <1>2, <1>4, <1>5, <1>7

\* The chunks of a list of markers.
MarkerTypes == {"PROGRAMSTART", "TRACKSTART", "TRACKSTOP", "INDEX_ENTRY"}
MasterId == Dsdiff!Chunk("EMID", Dsdiff!CHUNK_HEADER_SIZE, <<>>)
MarkerChunks == {MasterId} \cup {Dsdiff!Marker(f, type) : f \in Nat, type \in MarkerTypes}

\* What a marker is.
LEMMA MarkerIs ==
    ASSUME NEW f \in Nat, NEW type
    PROVE  /\ GoodChunk(Dsdiff!Marker(f, type)) /\ Dsdiff!IsMark(Dsdiff!Marker(f, type))
           /\ Dsdiff!Marker(f, type).time = Dsdiff!Time(f) /\ Dsdiff!Marker(f, type).type = type
  <1>1. PICK b \in Nat : b = Dsdiff!EDITED_MASTER_MARKER_CHUNK_SIZE
    BY FixedSizes
  <1>2. PICK time : time = Dsdiff!Time(f)
    OBVIOUS
  <1>3. PICK c : c = [id |-> "MARK", size |-> Dsdiff!CEIL_ODD_NUMBER(b - 12), bytes |-> Dsdiff!CEIL_ODD_NUMBER(b), parts |-> <<>>,
                      time |-> time, type |-> type]
    OBVIOUS
  <1>4. Dsdiff!Marker(f, type) = c
    BY <1>1, <1>2, <1>3, HeaderSize DEF Dsdiff!Marker
  <1>5. c.id = "MARK" /\ c.size = Dsdiff!CEIL_ODD_NUMBER(b - 12) /\ c.bytes = Dsdiff!CEIL_ODD_NUMBER(b) /\ c.time = time /\ c.type = type
    BY <1>3
  <1>6. c.bytes \in Nat /\ c.bytes % 2 = 0 /\ Dsdiff!Skips(c)
    BY <1>5, EvenIs, HeaderSize DEF Dsdiff!Skips
  <1>7. Dsdiff!SkipsWithParts(c)
    BY <1>5, <1>6 DEF Dsdiff!SkipsWithParts
  <1> QED BY <1>2, <1>4, <1>5, <1>6, <1>7 DEF GoodChunk, Dsdiff!IsMark

LEMMA MarkerChunksAreGood == \A c \in MarkerChunks : GoodChunk(c)
  <1>1. GoodChunk(MasterId)
    BY HeaderSize, PlainChunkIsGood DEF MasterId
  <1> QED BY <1>1, MarkerIs DEF MarkerChunks

LEMMA MarkersAreIn == MasterId \in MarkerChunks /\ \A f \in Nat, type \in MarkerTypes : Dsdiff!Marker(f, type) \in MarkerChunks
  BY DEF MarkerChunks

\* The lists before and after a track.
Disc(a) == a.tracks \in Seq([start : Nat, duration : Nat])

\* A disc has a number of tracks, and they are numbers.
LEMMA TracksAre == ASSUME NEW a, Disc(a) PROVE Len(a.tracks) \in Nat /\ DOMAIN a.tracks = 1..Len(a.tracks)
  <1>1. PICK tracks : tracks = a.tracks
    OBVIOUS
  <1>2. tracks \in Seq([start : Nat, duration : Nat])
    BY <1>1 DEF Disc
  <1>3. Len(tracks) \in Nat /\ DOMAIN tracks = 1..Len(tracks)
    BY ONLY <1>2
  <1> QED BY ONLY <1>1, <1>3

LEMMA EntryIs == ASSUME NEW T, NEW s \in Seq(T), NEW i \in 1..Len(s) PROVE s[i] \in T
  OBVIOUS

LEMMA TrackIs ==
    ASSUME NEW a, Disc(a), NEW i \in 1..Len(a.tracks)
    PROVE  /\ a.tracks[i].start \in Nat /\ a.tracks[i].duration \in Nat
           /\ Dsdiff!Stop(a.tracks[i]) \in Nat /\ a.tracks[i].start <= Dsdiff!Stop(a.tracks[i])
  <1>1. PICK tracks : tracks = a.tracks
    OBVIOUS
  <1>2. tracks \in Seq([start : Nat, duration : Nat]) /\ i \in 1..Len(tracks)
    BY <1>1 DEF Disc
  <1>3. tracks[i] \in [start : Nat, duration : Nat]
    BY ONLY <1>2, EntryIs
  <1> QED BY <1>1, <1>3 DEF Dsdiff!Stop

\* The markers of a track and of all tracks, the list growing by a track in each turn.
LEMMA MarkersOfTrack ==
    ASSUME NEW a, Disc(a), NEW i \in 1..Len(a.tracks)
    PROVE  Dsdiff!TrackMarkers(a, i) \in Seq(MarkerChunks)
  <1>1. PICK p, q, r : /\ p = Dsdiff!Marker(0, "PROGRAMSTART") /\ q = Dsdiff!Marker(a.tracks[i].start, "TRACKSTART")
                       /\ r = Dsdiff!Marker(Dsdiff!Stop(a.tracks[i]), "TRACKSTOP")
    OBVIOUS
  <1>2. p \in MarkerChunks /\ q \in MarkerChunks /\ r \in MarkerChunks
    BY <1>1, TrackIs, MarkersAreIn DEF MarkerTypes
  <1>3. PICK x, y, z : /\ x = IF i = 1 THEN <<p>> ELSE <<>>
                       /\ y = <<q>>
                       /\ z = IF i = Len(a.tracks) \/ a.tracks[i + 1].start > Dsdiff!Stop(a.tracks[i]) THEN <<r>> ELSE <<>>
    OBVIOUS
  <1>4. x \in Seq(MarkerChunks) /\ y \in Seq(MarkerChunks) /\ z \in Seq(MarkerChunks)
    BY <1>2, <1>3
  <1>5. (x \o y) \o z \in Seq(MarkerChunks)
    BY <1>4
  <1>6. Dsdiff!TrackMarkers(a, i) = (x \o y) \o z
    BY <1>1, <1>3 DEF Dsdiff!TrackMarkers
  <1> QED BY <1>5, <1>6

LEMMA MarkersInTurn ==
    ASSUME NEW a, Disc(a), a.edit = TRUE
    PROVE  \E t \in [0..Len(a.tracks) -> Seq(MarkerChunks)] :
              /\ t[0] = <<MasterId>>
              /\ \A i \in 1..Len(a.tracks) : t[i] = t[i - 1] \o Dsdiff!TrackMarkers(a, i)
              /\ Dsdiff!Markers(a) = t[Len(a.tracks)]
  <1> DEFINE n == Len(a.tracks)
             F == [i \in Nat |-> [x \in Seq(MarkerChunks) |-> IF i \in 1..n THEN x \o Dsdiff!TrackMarkers(a, i) ELSE x]]
             b == CHOOSE x : x = [i \in 0..n |-> IF i = 0 THEN <<MasterId>> ELSE x[i - 1] \o Dsdiff!TrackMarkers(a, i)]
  <1>1. n \in Nat
    BY DEF Disc
  <1>2. Dsdiff!Markers(a) = b[n]
    BY DEF Dsdiff!Markers, MasterId
  <1>3. <<MasterId>> \in Seq(MarkerChunks)
    BY MarkersAreIn
  <1>4. F \in [Nat -> [Seq(MarkerChunks) -> Seq(MarkerChunks)]]
    <2> SUFFICES ASSUME NEW i \in Nat, NEW x \in Seq(MarkerChunks)
                 PROVE  (IF i \in 1..n THEN x \o Dsdiff!TrackMarkers(a, i) ELSE x) \in Seq(MarkerChunks)
      OBVIOUS
    <2>1. CASE i \in 1..n
      <3>1. PICK y \in Seq(MarkerChunks) : y = Dsdiff!TrackMarkers(a, i)
        BY <2>1, MarkersOfTrack
      <3>2. x \o y \in Seq(MarkerChunks)
        OBVIOUS
      <3> QED BY <3>1, <3>2
    <2> QED BY <2>1
  <1>5. PICK t \in [0..n -> Seq(MarkerChunks)] : LoopTo(t, <<MasterId>>, F, n)
    <2> HIDE DEF F, n
    <2> QED BY <1>1, <1>3, <1>4, LoopUpTo
  <1>6. \A i \in 1..n : t[i] = t[i - 1] \o Dsdiff!TrackMarkers(a, i)
    <2> SUFFICES ASSUME NEW i \in 1..n PROVE t[i] = t[i - 1] \o Dsdiff!TrackMarkers(a, i)
      OBVIOUS
    <2>1. t[i] = F[i][t[i - 1]] /\ i - 1 \in 0..n /\ i \in Nat
      <3> HIDE DEF F
      <3> QED BY <1>1, <1>5 DEF LoopTo
    <2>2. t[i - 1] \in Seq(MarkerChunks)
      BY <2>1
    <2> QED BY <2>1, <2>2
  <1>7. t = [i \in 0..n |-> IF i = 0 THEN <<MasterId>> ELSE t[i - 1] \o Dsdiff!TrackMarkers(a, i)]
    <2> HIDE DEF F
    <2>1. t = [i \in 0..n |-> t[i]]
      OBVIOUS
    <2>2. ASSUME NEW i \in 0..n PROVE t[i] = IF i = 0 THEN <<MasterId>> ELSE t[i - 1] \o Dsdiff!TrackMarkers(a, i)
      <3>1. i = 0 \/ i \in 1..n
        BY <1>1
      <3> QED BY <1>5, <1>6, <3>1 DEF LoopTo
    <2> QED BY <2>1, <2>2
  <1>8. b = [i \in 0..n |-> IF i = 0 THEN <<MasterId>> ELSE b[i - 1] \o Dsdiff!TrackMarkers(a, i)]
    BY <1>7, Zenon
  <1> HIDE DEF b, F
  <1>9. b[0] = <<MasterId>>
    BY <1>1, <1>8
  <1>10. ASSUME NEW i \in 1..n PROVE b[i] = b[i - 1] \o Dsdiff!TrackMarkers(a, i)
    <2>1. i \in 0..n /\ i # 0
      BY <1>1
    <2> QED BY <1>8, <2>1
  <1>11. \A i \in 0..n : b[i] \in Seq(MarkerChunks)
    <2> DEFINE N == {i \in Nat : i <= n => b[i] \in Seq(MarkerChunks)}
    <2>1. 0 \in N
      BY <1>3, <1>9
    <2>2. ASSUME NEW i \in Nat, i \in N PROVE i + 1 \in N
      <3> SUFFICES ASSUME i + 1 <= n PROVE b[i + 1] \in Seq(MarkerChunks)
        OBVIOUS
      <3>1. i + 1 \in 1..n /\ (i + 1) - 1 = i /\ b[i] \in Seq(MarkerChunks)
        BY <1>1, <2>2
      <3>2. PICK y \in Seq(MarkerChunks) : y = Dsdiff!TrackMarkers(a, i + 1)
        BY <3>1, MarkersOfTrack
      <3>3. b[i + 1] = b[i] \o y
        BY <1>10, <3>1, <3>2
      <3> QED BY <3>1, <3>3
    <2>3. Nat \subseteq N
      <3> HIDE DEF N
      <3> QED BY <2>1, <2>2, Induct
    <2> QED BY <1>1, <2>3
  <1>12. b \in [0..n -> Seq(MarkerChunks)]
    BY <1>8, <1>11
  <1> QED BY <1>2, <1>9, <1>10, <1>12

-----------------------------------------------------------------------------
(* The header and the footer.                                              *)

\* A set of numbers has a least one; so the first text there is, is a text.
LEMMA LeastOf == ASSUME NEW s \in SUBSET Nat, s # {} PROVE \E m \in s : \A x \in s : m <= x
  <1> DEFINE S == {n \in Nat : \A x \in s : n <= x}
  <1>1. SUFFICES ASSUME \A m \in s : \E x \in s : ~(m <= x) PROVE FALSE
    OBVIOUS
  <1>2. 0 \in S
    OBVIOUS
  <1>3. ASSUME NEW n \in Nat, n \in S PROVE n + 1 \in S
    <2>1. n \notin s
      BY <1>1, <1>3
    <2> QED BY <1>3, <2>1
  <1>4. Nat \subseteq S
    <2> HIDE DEF S
    <2> QED BY <1>2, <1>3, Induct
  <1>5. PICK m \in s : TRUE
    OBVIOUS
  <1>6. m + 1 \in S
    BY <1>4, <1>5
  <1> QED BY <1>5, <1>6

\* A text that the disc may not have.
Text == {x \in Int : x >= -1}

LEMMA FirstOfIs == ASSUME NEW texts \in Seq(Text) PROVE Dsdiff!FirstOf(texts) \in Text
  <1> DEFINE present == {i \in DOMAIN texts : texts[i] # -1}
  <1>1. Dsdiff!FirstOf(texts) = IF present = {} THEN -1 ELSE texts[CHOOSE i \in present : \A j \in present : i <= j]
    BY DEF Dsdiff!FirstOf, Dsdiff!None
  <1>2. present \in SUBSET Nat /\ present \subseteq 1..Len(texts)
    OBVIOUS
  <1> HIDE DEF present
  <1>3. CASE present = {}
    BY <1>1, <1>3 DEF Text
  <1>4. CASE present # {}
    <2>1. \E i \in present : \A j \in present : i <= j
      BY <1>2, <1>4, LeastOf
    <2>2. PICK k : k = CHOOSE i \in present : \A j \in present : i <= j
      OBVIOUS
    <2>3. k \in present
      BY <2>1, <2>2
    <2>4. texts[k] \in Text
      BY <1>2, <2>3
    <2> QED BY <1>1, <1>4, <2>2, <2>4
  <1> QED BY <1>3, <1>4

\* A chunk for a text, or none.
LEMMA TextChunkIs ==
    ASSUME NEW id, id \notin {"PROP", "DIIN"}, NEW fixed \in Nat, NEW text \in Text
    PROVE  \E T : /\ Dsdiff!TextChunk(id, fixed, text) \in Seq(T)
                  /\ \A c \in T : GoodChunk(c) /\ c.id = id
  <1>1. CASE text = -1
    <2>1. PICK T : T = {}
      OBVIOUS
    <2>2. <<>> \in Seq(T) /\ \A c \in T : GoodChunk(c) /\ c.id = id
      BY <2>1
    <2>3. Dsdiff!TextChunk(id, fixed, text) = <<>>
      BY <1>1 DEF Dsdiff!TextChunk, Dsdiff!None
    <2> QED BY <2>2, <2>3
  <1>2. CASE text # -1
    <2>1. PICK c : c = Dsdiff!Chunk(id, fixed + text, <<>>)
      OBVIOUS
    <2>2. fixed + text \in Nat
      BY <1>2 DEF Text
    <2>3. GoodChunk(c) /\ c.id = id
      BY <2>1, <2>2, PlainChunkIsGood
    <2>4. PICK T : T = {c}
      OBVIOUS
    <2>5. <<c>> \in Seq(T) /\ \A d \in T : GoodChunk(d) /\ d.id = id
      BY <2>3, <2>4
    <2>6. Dsdiff!TextChunk(id, fixed, text) = <<c>>
      BY <1>2, <2>1 DEF Dsdiff!TextChunk, Dsdiff!None
    <2> QED BY <2>5, <2>6
  <1> QED BY <1>1, <1>2

\* What is known of an album.
LEMMA AlbumIs ==
    ASSUME NEW a \in Albums
    PROVE  /\ a.channels \in Nat /\ a.id3 \in Nat /\ a.dsd \in BOOLEAN /\ a.edit \in BOOLEAN
           /\ Disc(a) /\ a.track \in 1..Len(a.tracks)
           /\ a.performer \in Text /\ a.title \in Text /\ a.albumArtist \in Text /\ a.albumTitle \in Text /\ a.discTitle \in Text
  <1>1. a \in Dsdiff!Album /\ a.track \in DOMAIN a.tracks
        /\ \A text \in {"performer", "title", "albumArtist", "albumTitle", "discTitle"} : a[text] >= -1
    BY AlbumsAssumption DEF Dsdiff!DsdiffAssumption, Dsdiff!None
  <1>2. /\ a.dsd \in BOOLEAN /\ a.edit \in BOOLEAN /\ a.channels \in 1..255 /\ a.tracks \in Seq([start : Nat, duration : Nat])
        /\ a.performer \in Int /\ a.title \in Int /\ a.albumArtist \in Int /\ a.albumTitle \in Int /\ a.discTitle \in Int
        /\ a.id3 \in Nat
    BY <1>1 DEF Dsdiff!Album
  <1>3. a["performer"] >= -1 /\ a["title"] >= -1 /\ a["albumArtist"] >= -1 /\ a["albumTitle"] >= -1 /\ a["discTitle"] >= -1
    BY <1>1
  <1>4. a.track \in 1..Len(a.tracks) /\ a.channels \in Nat
    <2>1. PICK tracks : tracks = a.tracks
      OBVIOUS
    <2>2. tracks \in Seq([start : Nat, duration : Nat]) /\ a.track \in DOMAIN tracks
      BY <1>1, <1>2, <2>1
    <2>3. DOMAIN tracks = 1..Len(tracks)
      BY <2>2
    <2>4. a.track \in 1..Len(a.tracks)
      BY <2>1, <2>2, <2>3
    <2>5. a.channels \in Nat
      <3>1. a.channels \in 1..255
        BY <1>2
      <3>2. \A k \in 1..255 : k \in Nat
        OBVIOUS
      <3> QED BY ONLY <3>1, <3>2
    <2> QED BY <2>4, <2>5
  <1>5. a.performer >= -1 /\ a.title >= -1 /\ a.albumArtist >= -1 /\ a.albumTitle >= -1 /\ a.discTitle >= -1
    BY <1>3
  <1>6. /\ a.performer \in Text /\ a.title \in Text /\ a.albumArtist \in Text /\ a.albumTitle \in Text /\ a.discTitle \in Text
    BY <1>2, <1>5 DEF Text
  <1> QED BY <1>2, <1>4, <1>6 DEF Disc

\* The chunks of the edited master information beside the markers.
LEMMA TextsAre ==
    ASSUME NEW a \in Albums
    PROVE  \E T : /\ Dsdiff!Artist(a) \in Seq(T) /\ Dsdiff!Title(a) \in Seq(T)
                  /\ \A c \in T : GoodChunk(c) /\ c.id \in {"DIAR", "DITI"}
  <1>1. PICK p \in Text, t \in Text, ar \in Text, al \in Text, d \in Text :
           p = Dsdiff!TrackText(a, a.performer) /\ t = Dsdiff!TrackText(a, a.title)
           /\ ar = a.albumArtist /\ al = a.albumTitle /\ d = a.discTitle
    <2>1. Dsdiff!TrackText(a, a.performer) \in Text /\ Dsdiff!TrackText(a, a.title) \in Text
      BY AlbumIs DEF Dsdiff!TrackText, Dsdiff!None, Text
    <2> QED BY <2>1, AlbumIs
  <1>2. <<p, ar, al, d>> \in Seq(Text) /\ <<t, al, d>> \in Seq(Text)
    OBVIOUS
  <1>3. PICK x \in Text, y \in Text : x = Dsdiff!FirstOf(<<p, ar, al, d>>) /\ y = Dsdiff!FirstOf(<<t, al, d>>)
    BY <1>2, FirstOfIs
  <1>4. Dsdiff!Artist(a) = Dsdiff!TextChunk("DIAR", Dsdiff!EDITED_MASTER_ARTIST_CHUNK_SIZE, x)
    BY <1>1, <1>3 DEF Dsdiff!Artist
  <1>5. Dsdiff!Title(a) = Dsdiff!TextChunk("DITI", Dsdiff!EDITED_MASTER_TITLE_CHUNK_SIZE, y)
    BY <1>1, <1>3 DEF Dsdiff!Title
  <1>6. PICK A : Dsdiff!Artist(a) \in Seq(A) /\ \A c \in A : GoodChunk(c) /\ c.id = "DIAR"
    <2>1. PICK w \in Nat : w = Dsdiff!EDITED_MASTER_ARTIST_CHUNK_SIZE
      BY FixedSizes
    <2>2. PICK A : Dsdiff!TextChunk("DIAR", w, x) \in Seq(A) /\ \A c \in A : GoodChunk(c) /\ c.id = "DIAR"
      BY TextChunkIs
    <2> QED BY <1>4, <2>1, <2>2
  <1>7. PICK B : Dsdiff!Title(a) \in Seq(B) /\ \A c \in B : GoodChunk(c) /\ c.id = "DITI"
    <2>1. PICK w \in Nat : w = Dsdiff!EDITED_MASTER_TITLE_CHUNK_SIZE
      BY FixedSizes
    <2>2. PICK B : Dsdiff!TextChunk("DITI", w, y) \in Seq(B) /\ \A c \in B : GoodChunk(c) /\ c.id = "DITI"
      BY TextChunkIs
    <2> QED BY <1>5, <2>1, <2>2
  <1>8. PICK T : T = A \cup B
    OBVIOUS
  <1>9. Dsdiff!Artist(a) \in Seq(T) /\ Dsdiff!Title(a) \in Seq(T)
    BY <1>6, <1>7, <1>8
  <1> QED BY <1>6, <1>7, <1>8, <1>9

LEMMA MarkersAre == ASSUME NEW a \in Albums PROVE Dsdiff!Markers(a) \in Seq(MarkerChunks)
  <1>1. CASE a.edit = TRUE
    <2>1. Disc(a) /\ Len(a.tracks) \in Nat
      BY AlbumIs DEF Disc
    <2>2. PICK n \in Nat : n = Len(a.tracks)
      BY <2>1
    <2>3. PICK t \in [0..n -> Seq(MarkerChunks)] : Dsdiff!Markers(a) = t[n]
      BY <1>1, <2>1, <2>2, MarkersInTurn
    <2> QED BY <2>3
  <1>2. CASE a.edit = FALSE
    <2>1. PICK m : m = Dsdiff!Marker(a.tracks[a.track].duration, "INDEX_ENTRY")
      OBVIOUS
    <2>2. m \in MarkerChunks
      BY <2>1, AlbumIs, TrackIs, MarkersAreIn DEF MarkerTypes
    <2>3. <<m>> \in Seq(MarkerChunks)
      BY <2>2
    <2> QED BY <1>2, <2>1, <2>3 DEF Dsdiff!Markers
  <1> QED BY <1>1, <1>2, AlbumIs

\* The edited master information.
DiinParts(a) == (Dsdiff!Markers(a) \o Dsdiff!Artist(a)) \o Dsdiff!Title(a)
DiinOf(a) == Dsdiff!Chunk("DIIN", Dsdiff!CHUNK_HEADER_SIZE, DiinParts(a))

LEMMA DiinIs ==
    ASSUME NEW a \in Albums
    PROVE  GoodChunk(DiinOf(a)) /\ DiinOf(a).id = "DIIN" /\ DiinOf(a).parts = DiinParts(a)
  <1>1. PICK T : /\ Dsdiff!Artist(a) \in Seq(T) /\ Dsdiff!Title(a) \in Seq(T)
                 /\ \A c \in T : GoodChunk(c) /\ c.id \in {"DIAR", "DITI"}
    BY TextsAre
  <1>2. GoodChunks(Dsdiff!Artist(a)) /\ GoodChunks(Dsdiff!Title(a))
    BY <1>1 DEF GoodChunks
  <1>3. GoodChunks(Dsdiff!Markers(a))
    BY MarkersAre, MarkerChunksAreGood DEF GoodChunks
  <1>4. PICK parts : parts = DiinParts(a)
    OBVIOUS
  <1>5. GoodChunks(parts)
    BY <1>2, <1>3, <1>4, GoodConcat DEF DiinParts
  <1>6. Dsdiff!BytesOf(parts) \in Nat /\ \A i \in DOMAIN parts : Dsdiff!Skips(parts[i])
    BY <1>5, GoodBytes, GoodEach DEF GoodChunk, Dsdiff!SkipsWithParts
  <1>7. Dsdiff!CHUNK_HEADER_SIZE \in Nat
    BY HeaderSize
  <1>8. /\ GoodChunk(Dsdiff!Chunk("DIIN", Dsdiff!CHUNK_HEADER_SIZE, parts))
        /\ Dsdiff!Chunk("DIIN", Dsdiff!CHUNK_HEADER_SIZE, parts).id = "DIIN"
    BY <1>6, <1>7, ChunkIsGood
  <1>9. Dsdiff!Chunk("DIIN", Dsdiff!CHUNK_HEADER_SIZE, parts).parts = parts
    BY DEF Dsdiff!Chunk
  <1> QED BY <1>4, <1>8, <1>9 DEF DiinOf

\* The comments and the tags.
LEMMA CommentsAre == ASSUME NEW a \in Albums PROVE GoodChunk(Dsdiff!Comments(a)) /\ Dsdiff!Comments(a).id = "COMT"
  <1>1. PICK al \in Text, d \in Text : al = a.albumTitle /\ d = a.discTitle
    BY AlbumIs
  <1>2. <<al, d, 7>> \in Seq(Text)
    BY DEF Text
  <1>3. PICK title \in Text : title = Dsdiff!FirstOf(<<al, d, 7>>)
    BY <1>2, FirstOfIs
  <1>4. PICK s \in Nat, c \in Nat : s = Dsdiff!COMMENT_SIZE /\ c = Dsdiff!COMMENTS_CHUNK_SIZE
    BY FixedSizes
  <1>5. PICK g \in Nat, m \in Nat : g = Dsdiff!CEIL_ODD_NUMBER(s + 27 + title) /\ m = Dsdiff!CEIL_ODD_NUMBER(s + 110)
    <2>1. s + 27 + title \in Nat /\ s + 110 \in Nat
      BY DEF Text
    <2> QED BY <2>1, EvenIs
  <1>6. c + g + m \in Nat
    OBVIOUS
  <1>7. Dsdiff!Comments(a) = Dsdiff!Chunk("COMT", c + g + m, <<>>)
    BY <1>1, <1>3, <1>4, <1>5 DEF Dsdiff!Comments, Dsdiff!UNKNOWN, Dsdiff!MATERIAL_RIPPED_FROM, Dsdiff!VERSION_INFO
  <1> QED BY <1>6, <1>7, PlainChunkIsGood

LEMMA TagsAre ==
    ASSUME NEW a \in Albums
    PROVE  \E T : Dsdiff!Tags(a) \in Seq(T) /\ \A c \in T : GoodChunk(c) /\ c.id = "ID3"
  <1>1. PICK c : c = Dsdiff!Chunk("ID3", Dsdiff!CHUNK_HEADER_SIZE + a.id3, <<>>)
    OBVIOUS
  <1>2. Dsdiff!CHUNK_HEADER_SIZE + a.id3 \in Nat
    BY HeaderSize, AlbumIs
  <1>3. GoodChunk(c) /\ c.id = "ID3"
    BY <1>1, <1>2, PlainChunkIsGood
  <1>4. PICK T : T = {c}
    OBVIOUS
  <1>5. PICK n \in Nat : n = IF a.edit THEN Len(a.tracks) ELSE 1
    BY AlbumIs DEF Disc
  <1>6. Dsdiff!Tags(a) = [i \in 1..n |-> c]
    BY <1>1, <1>5 DEF Dsdiff!Tags
  <1>7. [i \in 1..n |-> c] \in Seq(T)
    BY <1>4
  <1> QED BY <1>3, <1>4, <1>6, <1>7

\* The index: [offset, length] for each frame.
IndexType == [offset : Nat, length : Nat]

LEMMA SoundIndexIs ==
    ASSUME NEW a \in Albums, NEW entries \in Seq(IndexType)
    PROVE  \E T : Dsdiff!SoundIndex(a, entries) \in Seq(T) /\ \A c \in T : GoodChunk(c) /\ c.id = "DSTI"
  <1>1. CASE a.dsd \/ entries = <<>>
    <2>1. PICK T : T = {}
      OBVIOUS
    <2>2. <<>> \in Seq(T) /\ \A c \in T : GoodChunk(c) /\ c.id = "DSTI"
      BY <2>1
    <2>3. Dsdiff!SoundIndex(a, entries) = <<>>
      BY <1>1 DEF Dsdiff!SoundIndex
    <2> QED BY <2>2, <2>3
  <1>2. CASE ~(a.dsd \/ entries = <<>>)
    <2>1. PICK n \in Nat, w \in Nat : n = Len(entries) /\ w = Dsdiff!DST_FRAME_INDEX_SIZE
      BY FixedSizes
    <2>2. n * w \in Nat
      OBVIOUS
    <2>3. PICK l \in Nat : l = Dsdiff!CHUNK_HEADER_SIZE + n * w
      BY <2>2, HeaderSize
    <2>4. PICK c : c = Dsdiff!Chunk("DSTI", l, <<>>)
      OBVIOUS
    <2>5. GoodChunk(c) /\ c.id = "DSTI" /\ c = [id |-> c.id, size |-> c.size, bytes |-> c.bytes, parts |-> c.parts]
      <3>1. GoodChunk(c) /\ c.id = "DSTI"
        BY <2>4, PlainChunkIsGood
      <3>2. c = [id |-> c.id, size |-> c.size, bytes |-> c.bytes, parts |-> c.parts]
        BY <2>4 DEF Dsdiff!Chunk
      <3> QED BY <3>1, <3>2
    <2>6. PICK d : d = [c EXCEPT !.parts = entries]
      OBVIOUS
    <2>7. d.id = c.id /\ d.size = c.size /\ d.bytes = c.bytes
      BY <2>5, <2>6
    <2>8. GoodChunk(d)
      BY <2>5, <2>7 DEF GoodChunk, Dsdiff!Skips, Dsdiff!SkipsWithParts
    <2>9. PICK T : T = {d}
      OBVIOUS
    <2>10. <<d>> \in Seq(T) /\ \A x \in T : GoodChunk(x) /\ x.id = "DSTI"
      BY <2>5, <2>7, <2>8, <2>9
    <2>11. Dsdiff!SoundIndex(a, entries) = <<d>>
      BY <1>2, <2>1, <2>3, <2>4, <2>6 DEF Dsdiff!SoundIndex
    <2> QED BY <2>10, <2>11
  <1> QED BY <1>1, <1>2

\* The chunks of the footer are good, and one of them is the information on the master.
LEMMA FooterIs ==
    ASSUME NEW a \in Albums, NEW entries \in Seq(IndexType)
    PROVE  /\ GoodChunks(Dsdiff!FooterChunks(a, entries))
           /\ Dsdiff!FooterChunks(a, entries)[CHOOSE i \in DOMAIN Dsdiff!FooterChunks(a, entries) :
                                                 Dsdiff!FooterChunks(a, entries)[i].id = "DIIN"] = DiinOf(a)
  <1>1. PICK S : Dsdiff!SoundIndex(a, entries) \in Seq(S) /\ \A c \in S : GoodChunk(c) /\ c.id = "DSTI"
    BY SoundIndexIs
  <1>2. PICK T : Dsdiff!Tags(a) \in Seq(T) /\ \A c \in T : GoodChunk(c) /\ c.id = "ID3"
    BY TagsAre
  <1>3. PICK x, y, z, d, e : /\ x = Dsdiff!SoundIndex(a, entries) /\ y = <<d, e>> /\ z = Dsdiff!Tags(a)
                             /\ d = DiinOf(a) /\ e = Dsdiff!Comments(a)
    OBVIOUS
  <1>4. PICK f : f = Dsdiff!FooterChunks(a, entries)
    OBVIOUS
  <1>5. f = (x \o y) \o z
    BY <1>3, <1>4 DEF Dsdiff!FooterChunks, DiinOf, DiinParts
  <1>6. PICK U : U = S \cup T \cup {d, e}
    OBVIOUS
  <1>7. x \in Seq(U) /\ y \in Seq(U) /\ z \in Seq(U)
    BY <1>1, <1>2, <1>3, <1>6
  <1>8. f \in Seq(U)
    BY <1>5, <1>7
  <1>9. GoodChunk(d) /\ d.id = "DIIN" /\ GoodChunk(e) /\ e.id = "COMT"
    BY <1>3, DiinIs, CommentsAre
  <1>10. \A c \in U : GoodChunk(c) /\ (c.id = "DIIN" => c = d)
    BY <1>1, <1>2, <1>6, <1>9
  <1>11. Len(x) + 1 \in DOMAIN f /\ f[Len(x) + 1] = d
    BY <1>3, <1>5, <1>7
  <1>12. PICK k : k = CHOOSE i \in DOMAIN f : f[i].id = "DIIN"
    OBVIOUS
  <1>13. k \in DOMAIN f /\ f[k].id = "DIIN"
    BY <1>9, <1>11, <1>12
  <1>14. f[k] = d
    <2>1. f[k] \in U
      BY <1>8, <1>13
    <2> QED BY <1>10, <1>13, <2>1
  <1>15. GoodChunks(f)
    BY <1>8, <1>10 DEF GoodChunks
  <1> QED BY <1>3, <1>4, <1>12, <1>14, <1>15

\* The header: its first chunks are good, and it takes the same whatever is written.
HeaderBytes(a) == 16 + Dsdiff!Chunk("FVER", Dsdiff!FORMAT_VERSION_CHUNK_SIZE, <<>>).bytes
                     + Dsdiff!Chunk("PROP", Dsdiff!PROPERTY_CHUNK_SIZE, Dsdiff!Properties(a)).bytes
                     + (IF a.dsd THEN 12 ELSE 30)

\* The properties in the header are good chunks.
LEMMA PropertiesAre == ASSUME NEW a \in Albums PROVE GoodChunks(Dsdiff!Properties(a))
  <1>1. PICK p, q, r, s : /\ p = Dsdiff!Chunk("FS", Dsdiff!SAMPLE_RATE_CHUNK_SIZE, <<>>)
                          /\ q = Dsdiff!Chunk("CHNL", Dsdiff!CHANNELS_CHUNK_SIZE + 4 * a.channels, <<>>)
                          /\ r = Dsdiff!Chunk("CMPR", Dsdiff!COMPRESSION_TYPE_CHUNK_SIZE + (IF a.dsd THEN 14 ELSE 11), <<>>)
                          /\ s = Dsdiff!Chunk("LSCO", Dsdiff!LOADSPEAKER_CONFIG_CHUNK_SIZE, <<>>)
    OBVIOUS
  <1>2. /\ Dsdiff!CHANNELS_CHUNK_SIZE + 4 * a.channels \in Nat
        /\ Dsdiff!COMPRESSION_TYPE_CHUNK_SIZE + (IF a.dsd THEN 14 ELSE 11) \in Nat
    BY FixedSizes, AlbumIs
  <1>3. GoodChunk(p) /\ GoodChunk(q) /\ GoodChunk(r) /\ GoodChunk(s)
    BY <1>1, <1>2, FixedSizes, PlainChunkIsGood
  <1>4. PICK U : U = {p, q, r, s}
    OBVIOUS
  <1>5. <<p, q, r, s>> \in Seq(U) /\ \A c \in U : GoodChunk(c)
    BY <1>3, <1>4
  <1>6. Dsdiff!Properties(a) = <<p, q, r, s>>
    BY <1>1 DEF Dsdiff!Properties, Dsdiff!NOT_COMPRESSED, Dsdiff!DST_ENCODED
  <1> QED BY <1>5, <1>6 DEF GoodChunks

\* Three chunks take what each takes.
LEMMA BytesOfThree ==
    ASSUME NEW c, NEW d, NEW e, c.bytes \in Nat, d.bytes \in Nat, e.bytes \in Nat
    PROVE  Dsdiff!BytesOf(<<c, d, e>>) = c.bytes + d.bytes + e.bytes
  <1>1. PICK T : T = {c, d, e}
    OBVIOUS
  <1>2. PICK n, p, q, r : n = <<>> /\ p = <<c>> /\ q = <<c, d>> /\ r = <<c, d, e>>
    OBVIOUS
  <1>3. n \in Seq(T) /\ p \in Seq(T) /\ q \in Seq(T) /\ p = Append(n, c) /\ q = Append(p, d) /\ r = Append(q, e)
    BY <1>1, <1>2
  <1>4. c \in T /\ d \in T /\ e \in T /\ \A x \in T : x.bytes \in Nat
    BY <1>1
  <1>5. Dsdiff!BytesOf(n) = 0
    BY <1>2, BytesOfNone
  <1>6. Dsdiff!BytesOf(p) = Dsdiff!BytesOf(n) + c.bytes
    BY ONLY <1>3, <1>4, BytesOfMore
  <1>7. Dsdiff!BytesOf(q) = Dsdiff!BytesOf(p) + d.bytes
    BY ONLY <1>3, <1>4, BytesOfMore
  <1>8. Dsdiff!BytesOf(r) = Dsdiff!BytesOf(q) + e.bytes
    BY ONLY <1>3, <1>4, BytesOfMore
  <1>9. Dsdiff!BytesOf(r) = ((0 + c.bytes) + d.bytes) + e.bytes
    BY ONLY <1>5, <1>6, <1>7, <1>8
  <1> QED BY <1>2, <1>9

LEMMA HeaderIs ==
    ASSUME NEW a \in Albums, NEW audio \in Nat, NEW count
    PROVE  LET chunks == Dsdiff!HeaderChunks(a, audio, count) IN
           /\ Dsdiff!SkipsWithParts(chunks[1]) /\ Dsdiff!SkipsWithParts(chunks[2]) /\ chunks[3] = Dsdiff!SoundData(a, audio, count)
           /\ 16 + Dsdiff!BytesOf(chunks) = HeaderBytes(a) /\ HeaderBytes(a) \in Nat /\ HeaderBytes(a) % 2 = 0 /\ HeaderBytes(a) >= 16
  <1>1. PICK p, q, r : /\ p = Dsdiff!Chunk("FVER", Dsdiff!FORMAT_VERSION_CHUNK_SIZE, <<>>)
                       /\ q = Dsdiff!Chunk("PROP", Dsdiff!PROPERTY_CHUNK_SIZE, Dsdiff!Properties(a))
                       /\ r = Dsdiff!SoundData(a, audio, count)
    OBVIOUS
  <1>2. GoodChunk(p)
    BY <1>1, FixedSizes, PlainChunkIsGood
  <1>3. GoodChunk(q)
    <2>1. PICK parts : parts = Dsdiff!Properties(a)
      OBVIOUS
    <2>2. Dsdiff!BytesOf(parts) \in Nat /\ \A i \in DOMAIN parts : Dsdiff!Skips(parts[i])
      BY <2>1, PropertiesAre, GoodBytes, GoodEach DEF GoodChunk, Dsdiff!SkipsWithParts
    <2> QED BY <1>1, <2>1, <2>2, FixedSizes, ChunkIsGood
  <1>4. r.bytes = IF a.dsd THEN 12 ELSE 30
    BY <1>1, Sizes, AlbumIs DEF Dsdiff!SoundData
  <1>5. PICK m \in Nat, n \in Nat, k \in Nat : m = p.bytes /\ n = q.bytes /\ k = r.bytes /\ m % 2 = 0 /\ n % 2 = 0 /\ k % 2 = 0
    BY <1>2, <1>3, <1>4 DEF GoodChunk
  <1>6. Dsdiff!BytesOf(<<p, q, r>>) = m + n + k
    BY <1>5, BytesOfThree
  <1>7. HeaderBytes(a) = 16 + m + n + k
    BY <1>1, <1>4, <1>5 DEF HeaderBytes
  <1>8. Dsdiff!HeaderChunks(a, audio, count) = <<p, q, r>>
    BY <1>1 DEF Dsdiff!HeaderChunks
  <1>9. HeaderBytes(a) \in Nat /\ HeaderBytes(a) % 2 = 0 /\ HeaderBytes(a) >= 16
    BY <1>5, <1>7
  <1> QED BY <1>1, <1>2, <1>3, <1>6, <1>7, <1>8, <1>9 DEF GoodChunk

-----------------------------------------------------------------------------
(* The writer's states.                                                    *)

DstPieces == {[id |-> "DSTF", size |-> len, bytes |-> 12 + Dsdiff!CEIL_ODD_NUMBER(len), parts |-> <<>>] : len \in Nat}
DsdPieces == [id : {"samples", "pad"}, size : Nat, bytes : Nat, parts : {<<>>}]
PiecesOf(a) == IF a.dsd THEN DsdPieces ELSE DstPieces

\* The pieces the writer makes, and what a reader knows of them.
LEMMA PieceIs ==
    ASSUME NEW len \in Nat
    PROVE  /\ [id |-> "DSTF", size |-> len, bytes |-> 12 + Dsdiff!CEIL_ODD_NUMBER(len), parts |-> <<>>] \in DstPieces
           /\ [id |-> "samples", size |-> len, bytes |-> len, parts |-> <<>>] \in DsdPieces
           /\ [id |-> "pad", size |-> len, bytes |-> len, parts |-> <<>>] \in DsdPieces
  BY DEF DstPieces, DsdPieces

LEMMA PiecesAre ==
    ASSUME NEW a \in Albums
    PROVE  /\ \A c \in PiecesOf(a) : c.bytes \in Nat /\ c.size \in Nat /\ (c.id = "DSTF" => Dsdiff!Skips(c))
           /\ ~a.dsd => \A c \in PiecesOf(a) : GoodChunk(c)
  <1>1. ASSUME NEW c \in DstPieces PROVE c.bytes \in Nat /\ c.size \in Nat /\ c.id = "DSTF" /\ GoodChunk(c)
    <2>1. PICK len \in Nat : c = [id |-> "DSTF", size |-> len, bytes |-> 12 + Dsdiff!CEIL_ODD_NUMBER(len), parts |-> <<>>]
      BY DEF DstPieces
    <2>2. c.id = "DSTF" /\ c.size = len /\ c.bytes = 12 + Dsdiff!CEIL_ODD_NUMBER(len)
      BY <2>1
    <2>3. c.bytes \in Nat /\ c.bytes % 2 = 0
      BY <2>2, EvenIs
    <2>4. Dsdiff!Skips(c)
      BY <2>2, HeaderSize DEF Dsdiff!Skips
    <2> QED BY <2>2, <2>3, <2>4 DEF GoodChunk, Dsdiff!SkipsWithParts
  <1>2. ASSUME NEW c \in DsdPieces PROVE c.bytes \in Nat /\ c.size \in Nat /\ c.id # "DSTF"
    BY DEF DsdPieces
  <1>3. \A c \in DstPieces : Dsdiff!Skips(c)
    BY <1>1 DEF GoodChunk, Dsdiff!SkipsWithParts
  <1> QED BY <1>1, <1>2, <1>3 DEF PiecesOf

\* Each entry leads to the data of its frame, behind a header of h bytes.
Leads(e, c, h, before) == e.length = c.size /\ e.offset = h + Dsdiff!BytesOf(before) + 12
IndexOK(entries, pieces, h) ==
    /\ Len(entries) = Len(pieces)
    /\ \A i \in 1..Len(entries) : Leads(entries[i], pieces[i], h, SubSeq(pieces, 1, i - 1))

\* A sequence with an element more; and an index with an entry more.
LEMMA AppendFacts ==
    ASSUME NEW S, NEW q \in Seq(S), NEW x \in S
    PROVE  /\ Append(q, x) \in Seq(S) /\ Len(q) \in Nat /\ Len(Append(q, x)) = Len(q) + 1
           /\ Append(q, x)[Len(q) + 1] = x /\ \A i \in 1..Len(q) : Append(q, x)[i] = q[i]
  OBVIOUS

LEMMA IndexMore ==
    ASSUME NEW T, NEW pieces \in Seq(T), NEW S, NEW entries \in Seq(S), NEW h, IndexOK(entries, pieces, h),
           NEW c \in T, NEW entry \in S, Leads(entry, c, h, pieces)
    PROVE  IndexOK(Append(entries, entry), Append(pieces, c), h)
  <1>1. PICK n \in Nat : n = Len(entries) /\ n = Len(pieces)
    BY DEF IndexOK
  <1>2. PICK p, longer : p = Append(pieces, c) /\ longer = Append(entries, entry)
    OBVIOUS
  <1>3. p \in Seq(T) /\ longer \in Seq(S) /\ Len(p) = n + 1 /\ Len(longer) = n + 1 /\ p[n + 1] = c /\ longer[n + 1] = entry
        /\ \A i \in 1..n : p[i] = pieces[i] /\ longer[i] = entries[i]
    <2>1. p \in Seq(T) /\ Len(p) = n + 1 /\ p[n + 1] = c /\ \A i \in 1..n : p[i] = pieces[i]
      BY <1>1, <1>2, AppendFacts
    <2>2. longer \in Seq(S) /\ Len(longer) = n + 1 /\ longer[n + 1] = entry /\ \A i \in 1..n : longer[i] = entries[i]
      <3>1. /\ longer \in Seq(S) /\ Len(longer) = Len(entries) + 1 /\ longer[Len(entries) + 1] = entry
            /\ \A i \in 1..Len(entries) : longer[i] = entries[i]
        BY ONLY entries \in Seq(S), entry \in S, <1>2, AppendFacts
      <3> QED BY ONLY <1>1, <3>1
    <2> QED BY <2>1, <2>2
  <1>4. ASSUME NEW i \in 1..n + 1 PROVE SubSeq(p, 1, i - 1) = SubSeq(pieces, 1, i - 1)
    <2>1. PICK k \in 0..n : k = i - 1
      OBVIOUS
    <2>2. \A j \in 1..k : p[j] = pieces[j]
      BY <1>3, <2>1
    <2>3. SubSeq(p, 1, k) = [j \in 1..k |-> p[j]]
      BY <1>3
    <2>4. SubSeq(pieces, 1, k) = [j \in 1..k |-> pieces[j]]
      BY <1>1
    <2> QED BY <2>1, <2>2, <2>3, <2>4
  <1>5. SubSeq(pieces, 1, n) = pieces
    BY <1>1
  <1>6. ASSUME NEW i \in 1..n + 1 PROVE Leads(longer[i], p[i], h, SubSeq(p, 1, i - 1))
    <2>1. CASE i \in 1..n
      <3>1. Leads(entries[i], pieces[i], h, SubSeq(pieces, 1, i - 1))
        BY <1>1, <2>1 DEF IndexOK
      <3>2. longer[i] = entries[i] /\ p[i] = pieces[i]
        BY <1>3, <2>1
      <3> QED BY <1>4, <3>1, <3>2
    <2>2. CASE i = n + 1
      <3>1. SubSeq(p, 1, i - 1) = pieces
        <4>1. i - 1 = n
          BY <2>2
        <4> QED BY <1>4, <1>5, <4>1
      <3> QED BY <1>3, <2>2, <3>1
    <2> QED BY <2>1, <2>2
  <1> QED BY <1>2, <1>3, <1>6 DEF IndexOK

\* What is in the header of a finished file.
FormSize(a, audio, entries) == HeaderBytes(a) + Dsdiff!BytesOf(Dsdiff!FooterChunks(a, entries)) + audio - 12
Written(h, a, audio, entries, count) ==
    /\ h.size = HeaderBytes(a) /\ h.chunks = Dsdiff!HeaderChunks(a, audio, count)
    /\ audio % 2 = 0 => h.formSize = FormSize(a, audio, entries)

\* The header that is written is the one described.
LEMMA HeaderForIs ==
    ASSUME NEW a \in Albums, NEW audio \in Nat, NEW entries \in Seq(IndexType), NEW count
    PROVE  LET h == Dsdiff!HeaderFor(a, audio, entries, count)
           IN Written(h, a, audio, entries, count) /\ h = [size |-> h.size, chunks |-> h.chunks, formSize |-> h.formSize]
  <1>0. PICK chunks : chunks = Dsdiff!HeaderChunks(a, audio, count)
    OBVIOUS
  <1>1. PICK n \in Nat, f \in Nat : n = HeaderBytes(a) /\ f = Dsdiff!BytesOf(Dsdiff!FooterChunks(a, entries))
    <2>1. HeaderBytes(a) \in Nat
      BY HeaderIs
    <2>2. Dsdiff!BytesOf(Dsdiff!FooterChunks(a, entries)) \in Nat
      BY FooterIs, GoodBytes
    <2> QED BY <2>1, <2>2
  <1>2. n % 2 = 0 /\ 16 + Dsdiff!BytesOf(chunks) = n /\ f % 2 = 0
    BY <1>0, <1>1, HeaderIs, FooterIs, GoodBytes
  <1>3. Dsdiff!CEIL_ODD_NUMBER(n) = n
    BY <1>2, EvenIs
  <1>4. n >= 16
    BY <1>1, HeaderIs
  <1>5. audio % 2 = 0 => Dsdiff!CEIL_ODD_NUMBER(n + f + audio - 12) = n + f + audio - 12
    BY <1>2, <1>4 DEF Dsdiff!CEIL_ODD_NUMBER
  <1>6. PICK h : h = [size |-> n, chunks |-> chunks, formSize |-> Dsdiff!CEIL_ODD_NUMBER(n + f + audio - 12)]
    OBVIOUS
  <1>7. Dsdiff!HeaderFor(a, audio, entries, count) = h
    BY <1>0, <1>1, <1>2, <1>3, <1>6, Sizes DEF Dsdiff!HeaderFor
  <1>8. Written(h, a, audio, entries, count)
    BY <1>0, <1>1, <1>5, <1>6 DEF Written, FormSize
  <1> QED BY <1>6, <1>7, <1>8

\* The size of the sound data ends where the audio ends, which the pad byte has made even.
LEMMA SoundIs ==
    ASSUME NEW a \in Albums, NEW audio \in Nat, audio % 2 = 0, NEW count
    PROVE  LET sound == Dsdiff!SoundData(a, audio, count) IN
           12 + sound.size = sound.bytes + audio /\ (~a.dsd => sound.parts[1].frames = count)
  <1>1. Dsdiff!CEIL_ODD_NUMBER(audio) = audio /\ Dsdiff!CEIL_ODD_NUMBER(audio + 18) = audio + 18
    <2>1. audio + 18 \in Nat /\ (audio + 18) % 2 = 0
      OBVIOUS
    <2> QED BY <2>1, EvenIs
  <1>2. CASE a.dsd
    BY <1>1, <1>2, Sizes DEF Dsdiff!SoundData
  <1>3. CASE ~a.dsd
    <2>1. PICK info : info = Dsdiff!FrameInformation(count)
      OBVIOUS
    <2>2. info.frames = count
      BY <2>1 DEF Dsdiff!FrameInformation
    <2>3. PICK sound : sound = [id |-> "DST", size |-> audio + 18, bytes |-> 30, parts |-> <<info>>]
      OBVIOUS
    <2>4. Dsdiff!SoundData(a, audio, count) = sound
      BY <1>1, <1>3, <2>1, <2>3, Sizes DEF Dsdiff!SoundData
    <2>5. sound.size = audio + 18 /\ sound.bytes = 30 /\ sound.parts[1] = info
      BY <2>3
    <2> QED BY <2>2, <2>4, <2>5
  <1> QED BY <1>2, <1>3

\* The invariant: of what is written so far, each piece is one a reader can skip and
\* each entry of the index leads to its frame behind a header whose length does not
\* depend on what will be written; of a finished file, the header and the footer are
\* those of the album, and the audio is even.
DsdiffInv ==
    /\ album \in Albums /\ state \in {"closed", "open", "finished"}
    /\ body \in Seq(PiecesOf(album)) /\ index \in Seq(IndexType) /\ audioSize = Dsdiff!BytesOf(body)
    /\ Len(body) <= MaxPieces + 1 /\ Len(index) <= MaxPieces
    /\ state = "closed" => body = <<>> /\ index = <<>>
    /\ state = "open" => header.size = HeaderBytes(album) /\ Len(body) <= MaxPieces
    /\ ~album.dsd => IndexOK(index, body, HeaderBytes(album))
    /\ state = "finished" =>
          /\ audioSize % 2 = 0 /\ footer = Dsdiff!FooterChunks(album, index)
          /\ \E count : Written(header, album, audioSize, index, count) /\ (~album.dsd => count = Len(body))

\* What the pieces take.
LEMMA BodyBytes ==
    ASSUME NEW a \in Albums, NEW s \in Seq(PiecesOf(a))
    PROVE  /\ Dsdiff!BytesOf(s) \in Nat
           /\ \A c \in PiecesOf(a) : c.bytes \in Nat /\ Dsdiff!BytesOf(Append(s, c)) = Dsdiff!BytesOf(s) + c.bytes
           /\ ~a.dsd => Dsdiff!BytesOf(s) % 2 = 0
  <1>1. \A c \in PiecesOf(a) : c.bytes \in Nat
    BY PiecesAre
  <1>2. \A c \in PiecesOf(a) : Dsdiff!BytesOf(s) \in Nat /\ Dsdiff!BytesOf(Append(s, c)) = Dsdiff!BytesOf(s) + c.bytes
    BY <1>1, BytesOfMore
  <1>3. \E c : c \in PiecesOf(a)
    <2>1. 0 \in Nat
      OBVIOUS
    <2> QED BY <2>1, PieceIs DEF PiecesOf
  <1>4. ASSUME ~a.dsd PROVE Dsdiff!BytesOf(s) % 2 = 0
    <2>1. GoodChunks(s)
      BY <1>4, PiecesAre DEF GoodChunks
    <2> QED BY <2>1, GoodBytes
  <1> QED BY <1>1, <1>2, <1>3, <1>4

\* Nothing is indexed before a frame is written.
LEMMA NothingIndexed == ASSUME NEW h PROVE IndexOK(<<>>, <<>>, h)
  BY DEF IndexOK

\* A new handle.
LEMMA DsdiffStarts ==
    ASSUME album \in Albums, state = "closed", body = <<>>, index = <<>>, audioSize = 0
    PROVE  DsdiffInv
  <1>1. <<>> \in Seq(PiecesOf(album)) /\ <<>> \in Seq(IndexType) /\ Len(<<>>) = 0 /\ MaxPieces \in Nat
    BY AlbumsAssumption DEF Dsdiff!DsdiffAssumption
  <1>2. IndexOK(index, body, HeaderBytes(album))
    BY NothingIndexed
  <1> QED BY <1>1, <1>2, BytesOfNone DEF DsdiffInv

\* ... and in the next state.
LEMMA DsdiffBegins ==
    ASSUME album' \in Albums, state' = "closed", body' = <<>>, index' = <<>>, audioSize' = 0
    PROVE  DsdiffInv'
  <1>1. <<>> \in Seq(PiecesOf(album')) /\ <<>> \in Seq(IndexType) /\ Len(<<>>) = 0 /\ MaxPieces \in Nat
    BY AlbumsAssumption DEF Dsdiff!DsdiffAssumption
  <1>2. IndexOK(index', body', HeaderBytes(album'))
    BY NothingIndexed
  <1> QED BY <1>1, <1>2, BytesOfNone DEF DsdiffInv

\* The steps of the writer keep the invariant: the header is written, ...
LEMMA DsdiffCreate ==
    ASSUME DsdiffInv, Dsdiff!Create
    PROVE  DsdiffInv'
  <1>1. <<>> \in Seq(IndexType) /\ 0 \in Nat
    OBVIOUS
  <1>2. Dsdiff!HeaderFor(album, 0, <<>>, 0).size = HeaderBytes(album)
    BY <1>1, HeaderForIs DEF DsdiffInv, Written
  <1>3. MaxPieces \in Nat /\ Len(<<>>) = 0
    BY AlbumsAssumption DEF Dsdiff!DsdiffAssumption
  <1> QED BY <1>2, <1>3 DEF DsdiffInv, Dsdiff!Create

\* ... a frame, which the index leads to, ...
LEMMA DsdiffFrame ==
    ASSUME DsdiffInv, NEW len \in PieceLens, Dsdiff!WriteFrame(len)
    PROVE  DsdiffInv'
  <1>1. len \in Nat /\ MaxPieces \in Nat
    BY AlbumsAssumption DEF Dsdiff!DsdiffAssumption
  <1>2. PICK c : c = IF album.dsd THEN [id |-> "samples", size |-> len, bytes |-> len, parts |-> <<>>]
                     ELSE [id |-> "DSTF", size |-> len, bytes |-> 12 + Dsdiff!CEIL_ODD_NUMBER(len), parts |-> <<>>]
    OBVIOUS
  <1>3. c \in PiecesOf(album) /\ c.size = len
    BY <1>1, <1>2, PieceIs DEF PiecesOf
  <1>4. /\ state = "open" /\ Len(body) < MaxPieces /\ body' = Append(body, c) /\ audioSize' = audioSize + c.bytes
        /\ index' = IF album.dsd THEN index ELSE Append(index, Dsdiff!IndexEntry(len))
        /\ album' = album /\ state' = state /\ header' = header /\ footer' = footer
    BY <1>2, Sizes DEF Dsdiff!WriteFrame
  <1>5. /\ body \in Seq(PiecesOf(album)) /\ index \in Seq(IndexType) /\ audioSize = Dsdiff!BytesOf(body) /\ album \in Albums
        /\ header.size = HeaderBytes(album) /\ Len(index) <= MaxPieces
        /\ ~album.dsd => IndexOK(index, body, HeaderBytes(album))
    BY <1>4 DEF DsdiffInv
  <1>6. /\ body' \in Seq(PiecesOf(album)) /\ Len(body') = Len(body) + 1 /\ Len(body) \in Nat
    BY <1>3, <1>4, <1>5, AppendFacts
  <1>7. Dsdiff!BytesOf(body) \in Nat /\ Dsdiff!BytesOf(body') = audioSize'
    BY <1>3, <1>4, <1>5, BodyBytes
  <1>8. CASE album.dsd
    BY <1>4, <1>5, <1>6, <1>7, <1>8, <1>1 DEF DsdiffInv
  <1>9. CASE ~album.dsd
    <2>1. PICK e : e = Dsdiff!IndexEntry(len)
      OBVIOUS
    <2>2. e = [offset |-> HeaderBytes(album) + Dsdiff!BytesOf(body) + 12, length |-> len]
      BY <1>5, <2>1, Sizes DEF Dsdiff!IndexEntry, Dsdiff!FilePosition
    <2>3. HeaderBytes(album) \in Nat
      BY <1>1, <1>5, HeaderIs
    <2>4. e \in IndexType /\ Leads(e, c, HeaderBytes(album), body)
      BY <1>1, <1>3, <1>7, <2>2, <2>3 DEF IndexType, Leads
    <2>5. index' = Append(index, e)
      BY <1>4, <1>9, <2>1
    <2>6. IndexOK(index', body', HeaderBytes(album))
      BY ONLY <1>3, <1>4, <1>5, <1>9, <2>4, <2>5, IndexMore
    <2>7. index' \in Seq(IndexType) /\ Len(index') = Len(index) + 1
      BY <1>5, <2>4, <2>5, AppendFacts
    <2>8. Len(index) = Len(body)
      BY <1>5, <1>9 DEF IndexOK
    <2> QED BY <1>1, <1>4, <1>5, <1>6, <1>7, <2>6, <2>7, <2>8 DEF DsdiffInv
  <1> QED BY <1>8, <1>9

LEMMA ConcatOne == ASSUME NEW T, NEW s \in Seq(T), NEW x \in T PROVE s \o <<>> = s /\ s \o <<x>> = Append(s, x)
  OBVIOUS

\* ... the pad byte, the footer and the header again, ...
LEMMA DsdiffClose ==
    ASSUME DsdiffInv, Dsdiff!Close
    PROVE  DsdiffInv'
  <1>1. /\ body \in Seq(PiecesOf(album)) /\ index \in Seq(IndexType) /\ audioSize = Dsdiff!BytesOf(body) /\ album \in Albums
        /\ header.size = HeaderBytes(album) /\ Len(body) <= MaxPieces /\ Len(index) <= MaxPieces /\ state = "open"
        /\ ~album.dsd => IndexOK(index, body, HeaderBytes(album))
    BY DEF DsdiffInv, Dsdiff!Close
  <1>2. PICK p : p = [id |-> "pad", size |-> 1, bytes |-> 1, parts |-> <<>>]
    OBVIOUS
  <1>3. PICK n : n = audioSize % 2
    OBVIOUS
  <1>4. audioSize \in Nat /\ n \in {0, 1} /\ (audioSize + n) % 2 = 0 /\ (~album.dsd => n = 0)
    BY <1>1, <1>3, BodyBytes
  <1>5. /\ state' = "finished" /\ audioSize' = audioSize + n /\ album' = album /\ index' = index
        /\ body' = body \o [i \in 1..n |-> p] /\ footer' = Dsdiff!FooterChunks(album, index)
        /\ header' = [Dsdiff!HeaderFor(album, audioSize + n, index, Len(body)) EXCEPT !.size = header.size]
    BY <1>2, <1>3 DEF Dsdiff!Close, Dsdiff!FrameCount
  <1>6. PICK h : h = Dsdiff!HeaderFor(album, audioSize + n, index, Len(body))
    OBVIOUS
  <1>7. audioSize + n \in Nat
    BY <1>4
  <1>8. Written(h, album, audioSize + n, index, Len(body)) /\ h = [size |-> h.size, chunks |-> h.chunks, formSize |-> h.formSize]
    BY <1>1, <1>6, <1>7, HeaderForIs
  <1>9. header' = h
    <2>1. h.size = header.size
      BY <1>1, <1>8 DEF Written
    <2> QED BY <1>5, <1>6, <1>8, <2>1
  <1>10. CASE n = 0
    <2>1. [i \in 1..n |-> p] = <<>>
      BY <1>10
    <2>2. body' = body
      <3>1. body' = body \o <<>>
        BY <1>5, <2>1
      <3>2. body \o <<>> = body
        BY <1>1
      <3> QED BY ONLY <3>1, <3>2
    <2>3. Len(body) \in Nat /\ MaxPieces \in Nat
      BY <1>1, AlbumsAssumption DEF Dsdiff!DsdiffAssumption
    <2>4. audioSize' = audioSize /\ audioSize' % 2 = 0
      BY <1>4, <1>5, <1>10
    <2>5. \E count : Written(header', album', audioSize', index', count) /\ (~album'.dsd => count = Len(body'))
      BY <1>5, <1>8, <1>9, <2>2
    <2> QED BY <1>1, <1>5, <2>2, <2>3, <2>4, <2>5 DEF DsdiffInv
  <1>11. CASE n = 1
    <2>1. [i \in 1..n |-> p] = <<p>>
      BY <1>11
    <2>2. p \in DsdPieces /\ p.bytes = 1
      BY <1>2, PieceIs
    <2>3. album.dsd /\ p \in PiecesOf(album)
      BY <1>1, <1>4, <1>11, <2>2, AlbumIs DEF PiecesOf
    <2>4. body' = Append(body, p)
      <3>1. body' = body \o <<p>>
        BY <1>5, <2>1
      <3>2. body \o <<p>> = Append(body, p)
        BY ONLY <1>1, <2>3, ConcatOne
      <3> QED BY ONLY <3>1, <3>2
    <2>5. body' \in Seq(PiecesOf(album)) /\ Len(body') = Len(body) + 1 /\ Len(body) \in Nat /\ MaxPieces \in Nat
      BY <1>1, <2>3, <2>4, AppendFacts, AlbumsAssumption DEF Dsdiff!DsdiffAssumption
    <2>6. Dsdiff!BytesOf(body') = audioSize'
      BY <1>1, <1>5, <1>11, <2>2, <2>3, <2>4, BodyBytes
    <2>7. \E count : Written(header', album', audioSize', index', count) /\ (~album'.dsd => count = Len(body'))
      BY <1>5, <1>8, <1>9, <2>3
    <2>8. audioSize' % 2 = 0
      BY <1>4, <1>5
    <2>9. album' = album /\ album \in Albums /\ album.dsd /\ state' = "finished" /\ index' = index /\ index \in Seq(IndexType)
      BY <1>1, <1>5, <2>3
    <2>10. Len(body') <= MaxPieces + 1 /\ Len(index') <= MaxPieces
      BY <1>1, <2>5, <2>9
    <2>11. footer' = Dsdiff!FooterChunks(album', index')
      BY <1>5, <2>9
    <2> QED BY ONLY <2>5, <2>6, <2>7, <2>8, <2>9, <2>10, <2>11 DEF DsdiffInv
  <1> QED BY <1>4, <1>10, <1>11

\* ... and so does every step.
LEMMA DsdiffStep == DsdiffInv /\ Dsdiff!Next => DsdiffInv'
  <1> SUFFICES ASSUME DsdiffInv, Dsdiff!Next PROVE DsdiffInv'
    OBVIOUS
  <1>1. CASE Dsdiff!Create
    BY <1>1, DsdiffCreate
  <1>2. CASE Dsdiff!Close
    BY <1>2, DsdiffClose
  <1>3. CASE Dsdiff!NextFile
    <2>1. album' \in Albums /\ state' = "closed" /\ body' = <<>> /\ index' = <<>> /\ audioSize' = 0
      BY <1>3 DEF Dsdiff!NextFile, DsdiffInv
    <2> QED BY <2>1, DsdiffBegins
  <1>4. CASE \E len \in PieceLens : Dsdiff!WriteFrame(len)
    BY <1>4, DsdiffFrame
  <1> QED BY <1>1, <1>2, <1>3, <1>4 DEF Dsdiff!Next

\* A finished file can be read.
LEMMA DsdiffCanBeRead == DsdiffInv => Dsdiff!DsdiffTypeOK /\ Dsdiff!FileCanBeRead
  <1> SUFFICES ASSUME DsdiffInv PROVE Dsdiff!DsdiffTypeOK /\ Dsdiff!FileCanBeRead
    OBVIOUS
  <1>1. Dsdiff!DsdiffTypeOK
    BY DEF Dsdiff!DsdiffTypeOK, DsdiffInv
  <1>2. ASSUME state = "finished" PROVE Dsdiff!FileCanBeRead
    <2>1. /\ album \in Albums /\ body \in Seq(PiecesOf(album)) /\ index \in Seq(IndexType) /\ audioSize = Dsdiff!BytesOf(body)
          /\ ~album.dsd => IndexOK(index, body, HeaderBytes(album))
          /\ audioSize % 2 = 0 /\ footer = Dsdiff!FooterChunks(album, index)
      BY <1>2 DEF DsdiffInv
    <2>2. PICK count : Written(header, album, audioSize, index, count) /\ (~album.dsd => count = Len(body))
      BY <1>2 DEF DsdiffInv
    <2>3. audioSize \in Nat
      BY <2>1, BodyBytes
    <2>4. /\ header.size = HeaderBytes(album) /\ header.chunks = Dsdiff!HeaderChunks(album, audioSize, count)
          /\ header.formSize = HeaderBytes(album) + Dsdiff!BytesOf(footer) + audioSize - 12
      BY <2>1, <2>2 DEF Written, FormSize
    <2>5. header.size = Dsdiff!HeaderFor(album, audioSize, index, Dsdiff!FrameCount).size
      <3>1. PICK n : n = Dsdiff!FrameCount
        OBVIOUS
      <3>2. Dsdiff!HeaderFor(album, audioSize, index, n).size = HeaderBytes(album)
        BY <2>1, <2>3, HeaderForIs DEF Written
      <3> QED BY <2>4, <3>1, <3>2
    <2>6. /\ Dsdiff!SkipsWithParts(header.chunks[1]) /\ Dsdiff!SkipsWithParts(header.chunks[2])
          /\ header.chunks[3] = Dsdiff!SoundData(album, audioSize, count)
          /\ 16 + Dsdiff!BytesOf(header.chunks) = HeaderBytes(album) /\ HeaderBytes(album) \in Nat
      BY <2>1, <2>3, <2>4, HeaderIs
    <2>7. GoodChunks(footer)
      BY <2>1, FooterIs
    <2>8. header.size = Dsdiff!FORM_DSD_CHUNK_SIZE + Dsdiff!BytesOf(header.chunks)
      BY <2>4, <2>6, Sizes
    <2>9. Dsdiff!FileSize = Dsdiff!CHUNK_HEADER_SIZE + header.formSize
      <3>1. Dsdiff!BytesOf(footer) \in Nat
        BY <2>7, GoodBytes
      <3> QED BY <2>1, <2>3, <2>4, <2>6, <3>1, Sizes DEF Dsdiff!FileSize
    <2>10. /\ Dsdiff!CHUNK_HEADER_SIZE + Dsdiff!Sound.size = Dsdiff!Sound.bytes + Dsdiff!BytesOf(body)
           /\ ~album.dsd => Dsdiff!Sound.parts[1].frames = Len(body)
      <3>1. PICK sound : sound = Dsdiff!SoundData(album, audioSize, count)
        OBVIOUS
      <3>2. 12 + sound.size = sound.bytes + audioSize /\ (~album.dsd => sound.parts[1].frames = count)
        BY <2>1, <2>3, <3>1, SoundIs
      <3>3. Dsdiff!Sound = sound
        BY <2>6, <3>1 DEF Dsdiff!Sound
      <3> QED BY <2>1, <2>2, <3>2, <3>3, Sizes
    <2>11. \A i \in DOMAIN footer : Dsdiff!SkipsWithParts(footer[i])
      BY <2>7, GoodEach DEF GoodChunk
    <2>12. \A i \in DOMAIN body : body[i].id = "DSTF" => Dsdiff!Skips(body[i])
      BY <2>1, PiecesAre
    <2>13. ASSUME ~album.dsd
           PROVE  /\ Len(index) = Len(body)
                  /\ \A i \in DOMAIN index :
                        /\ index[i].length = body[i].size
                        /\ index[i].offset = header.size + Dsdiff!BytesOf(SubSeq(body, 1, i - 1)) + Dsdiff!CHUNK_HEADER_SIZE
      BY <2>1, <2>4, <2>13, Sizes DEF IndexOK, Leads
    <2> QED BY <2>5, <2>6, <2>8, <2>9, <2>10, <2>11, <2>12, <2>13 DEF Dsdiff!FileCanBeRead
  <1> QED BY <1>1, <1>2 DEF Dsdiff!FileCanBeRead

-----------------------------------------------------------------------------
(* What the markers tell.                                                  *)

\* The marks of s are in order, and none is after frame m.
Ordered(s, m) ==
    \A i \in DOMAIN s : Dsdiff!IsMark(s[i]) =>
        /\ s[i].time.minutes < 60 /\ s[i].time.seconds < 60
        /\ Dsdiff!FramesOf(s[i].time) \in Nat /\ Dsdiff!FramesOf(s[i].time) <= m
        /\ \A j \in i..Len(s) : Dsdiff!IsMark(s[j]) => Dsdiff!FramesOf(s[i].time) <= Dsdiff!FramesOf(s[j].time)

\* A marker is a mark and tells its frame.
LEMMA MarkTells ==
    ASSUME NEW f \in Nat, NEW type
    PROVE  LET c == Dsdiff!Marker(f, type) IN
           /\ Dsdiff!IsMark(c) /\ c.type = type /\ Dsdiff!FramesOf(c.time) = f /\ c.time.minutes < 60 /\ c.time.seconds < 60
  BY MarkerIs, TimeTells

\* A mark more, not before frame m.
LEMMA OrderedMore ==
    ASSUME NEW T, NEW s \in Seq(T), NEW m \in Nat, Ordered(s, m), NEW f \in Nat, m <= f, NEW type,
           NEW c \in T, c = Dsdiff!Marker(f, type)
    PROVE  Ordered(Append(s, c), f)
  <1>1. PICK r : r = Append(s, c)
    OBVIOUS
  <1>2. /\ r \in Seq(T) /\ Len(s) \in Nat /\ Len(r) = Len(s) + 1 /\ r[Len(s) + 1] = c /\ \A i \in 1..Len(s) : r[i] = s[i]
        /\ DOMAIN s = 1..Len(s) /\ DOMAIN r = 1..Len(r)
    <2>1. /\ Append(s, c) \in Seq(T) /\ Len(s) \in Nat /\ Len(Append(s, c)) = Len(s) + 1
          /\ Append(s, c)[Len(s) + 1] = c /\ \A i \in 1..Len(s) : Append(s, c)[i] = s[i]
      BY ONLY s \in Seq(T), c \in T, AppendFacts
    <2> QED BY <1>1, <2>1
  <1>3. Dsdiff!FramesOf(c.time) = f /\ c.time.minutes < 60 /\ c.time.seconds < 60
    BY MarkTells
  <1>4. ASSUME NEW i \in DOMAIN r, Dsdiff!IsMark(r[i])
        PROVE  /\ r[i].time.minutes < 60 /\ r[i].time.seconds < 60
               /\ Dsdiff!FramesOf(r[i].time) \in Nat /\ Dsdiff!FramesOf(r[i].time) <= f
               /\ \A j \in i..Len(r) : Dsdiff!IsMark(r[j]) => Dsdiff!FramesOf(r[i].time) <= Dsdiff!FramesOf(r[j].time)
    <2>1. CASE i = Len(s) + 1
      BY <1>2, <1>3, <2>1
    <2>2. CASE i \in 1..Len(s)
      <3>1. /\ s[i].time.minutes < 60 /\ s[i].time.seconds < 60
            /\ Dsdiff!FramesOf(s[i].time) \in Nat /\ Dsdiff!FramesOf(s[i].time) <= m
            /\ \A j \in i..Len(s) : Dsdiff!IsMark(s[j]) => Dsdiff!FramesOf(s[i].time) <= Dsdiff!FramesOf(s[j].time)
        BY <1>2, <1>4, <2>2 DEF Ordered
      <3>2. ASSUME NEW j \in i..Len(r), Dsdiff!IsMark(r[j]) PROVE Dsdiff!FramesOf(r[i].time) <= Dsdiff!FramesOf(r[j].time)
        <4>1. CASE j = Len(s) + 1
          BY <1>2, <1>3, <2>2, <3>1, <4>1
        <4>2. CASE j \in i..Len(s)
          BY <1>2, <2>2, <3>1, <3>2, <4>2
        <4> QED BY <1>2, <2>2, <4>1, <4>2
      <3> QED BY <1>2, <2>2, <3>1, <3>2
    <2> QED BY <1>2, <2>1, <2>2
  <1> QED BY <1>1, <1>4 DEF Ordered

\* The frames of the marks of a type, with a chunk more.
LEMMA MarkedMore ==
    ASSUME NEW T, NEW s \in Seq(T), NEW c \in T, NEW f \in Nat, NEW type, NEW other, c = Dsdiff!Marker(f, other)
    PROVE  Dsdiff!Marked(Append(s, c), type) = Dsdiff!Marked(s, type) \cup (IF other = type THEN {f} ELSE {})
  <1>1. PICK r : r = Append(s, c)
    OBVIOUS
  <1>2. /\ Len(s) \in Nat /\ Len(r) = Len(s) + 1 /\ r[Len(s) + 1] = c /\ \A i \in 1..Len(s) : r[i] = s[i]
        /\ DOMAIN s = 1..Len(s) /\ DOMAIN r = 1..Len(r)
    <2>1. /\ Append(s, c) \in Seq(T) /\ Len(s) \in Nat /\ Len(Append(s, c)) = Len(s) + 1
          /\ Append(s, c)[Len(s) + 1] = c /\ \A i \in 1..Len(s) : Append(s, c)[i] = s[i]
      BY ONLY s \in Seq(T), c \in T, AppendFacts
    <2> QED BY <1>1, <2>1
  <1>3. Dsdiff!IsMark(c) /\ c.type = other /\ Dsdiff!FramesOf(c.time) = f
    BY MarkTells
  <1>4. DOMAIN r = DOMAIN s \cup {Len(s) + 1}
    BY <1>2
  <1>5. {j \in DOMAIN r : Dsdiff!IsMark(r[j]) /\ r[j].type = type}
           = {j \in DOMAIN s : Dsdiff!IsMark(s[j]) /\ s[j].type = type} \cup (IF other = type THEN {Len(s) + 1} ELSE {})
    BY <1>2, <1>3, <1>4
  <1>6. Dsdiff!Marked(r, type) = Dsdiff!Marked(s, type) \cup (IF other = type THEN {f} ELSE {})
    BY <1>2, <1>3, <1>5 DEF Dsdiff!Marked
  <1> QED BY <1>1, <1>6

\* Chunks that are no marks change nothing.
LEMMA NoMarksMore ==
    ASSUME NEW T, NEW s \in Seq(T), NEW S, NEW t \in Seq(S), \A c \in S : ~Dsdiff!IsMark(c)
    PROVE  /\ \A m : Ordered(s, m) => Ordered(s \o t, m)
           /\ \A type : Dsdiff!Marked(s \o t, type) = Dsdiff!Marked(s, type)
  <1>1. PICK r : r = s \o t
    OBVIOUS
  <1>2. /\ Len(s) \in Nat /\ Len(t) \in Nat /\ Len(r) = Len(s) + Len(t) /\ DOMAIN r = 1..Len(r) /\ DOMAIN s = 1..Len(s)
        /\ \A i \in 1..Len(s) : r[i] = s[i]
        /\ \A i \in (Len(s) + 1)..Len(r) : r[i] = t[i - Len(s)] /\ i - Len(s) \in DOMAIN t
    BY <1>1
  <1>3. \A i \in DOMAIN r : Dsdiff!IsMark(r[i]) => i \in DOMAIN s
    <2> SUFFICES ASSUME NEW i \in DOMAIN r, i \notin DOMAIN s PROVE ~Dsdiff!IsMark(r[i])
      OBVIOUS
    <2>1. i \in (Len(s) + 1)..Len(r)
      BY <1>2
    <2>2. r[i] \in S
      BY <1>2, <2>1
    <2> QED BY <2>2
  <1>4. ASSUME NEW m, Ordered(s, m) PROVE Ordered(r, m)
    <2> SUFFICES ASSUME NEW i \in DOMAIN r, Dsdiff!IsMark(r[i])
                 PROVE  /\ r[i].time.minutes < 60 /\ r[i].time.seconds < 60
                        /\ Dsdiff!FramesOf(r[i].time) \in Nat /\ Dsdiff!FramesOf(r[i].time) <= m
                        /\ \A j \in i..Len(r) : Dsdiff!IsMark(r[j]) => Dsdiff!FramesOf(r[i].time) <= Dsdiff!FramesOf(r[j].time)
      BY DEF Ordered
    <2>1. i \in 1..Len(s) /\ r[i] = s[i]
      BY <1>2, <1>3
    <2>2. /\ s[i].time.minutes < 60 /\ s[i].time.seconds < 60
          /\ Dsdiff!FramesOf(s[i].time) \in Nat /\ Dsdiff!FramesOf(s[i].time) <= m
          /\ \A j \in i..Len(s) : Dsdiff!IsMark(s[j]) => Dsdiff!FramesOf(s[i].time) <= Dsdiff!FramesOf(s[j].time)
      BY <1>2, <1>4, <2>1 DEF Ordered
    <2>3. ASSUME NEW j \in i..Len(r), Dsdiff!IsMark(r[j]) PROVE Dsdiff!FramesOf(r[i].time) <= Dsdiff!FramesOf(r[j].time)
      <3>1. j \in DOMAIN r
        BY <1>2, <2>1
      <3>2. j \in 1..Len(s) /\ r[j] = s[j]
        BY <1>2, <1>3, <2>3, <3>1
      <3> QED BY <2>1, <2>2, <2>3, <3>2
    <2> QED BY <2>1, <2>2, <2>3
  <1>5. ASSUME NEW type PROVE Dsdiff!Marked(r, type) = Dsdiff!Marked(s, type)
    <2>1. {j \in DOMAIN r : Dsdiff!IsMark(r[j]) /\ r[j].type = type} = {j \in DOMAIN s : Dsdiff!IsMark(s[j]) /\ s[j].type = type}
      BY <1>2, <1>3
    <2> QED BY <1>2, <2>1 DEF Dsdiff!Marked
  <1> QED BY <1>1, <1>4, <1>5

\* The chunks of s are marks up to frame m, at these starts and stops.
Tells(s, m, starts, stops) ==
    s \in Seq(MarkerChunks) /\ Ordered(s, m) /\ Dsdiff!Marked(s, "TRACKSTART") = starts /\ Dsdiff!Marked(s, "TRACKSTOP") = stops

\* A marker more.
LEMMA TellsMore ==
    ASSUME NEW s, NEW m \in Nat, NEW starts, NEW stops, Tells(s, m, starts, stops), NEW f \in Nat, m <= f,
           NEW type \in MarkerTypes, NEW c, c = Dsdiff!Marker(f, type)
    PROVE  Tells(Append(s, c), f, IF type = "TRACKSTART" THEN starts \cup {f} ELSE starts,
                                  IF type = "TRACKSTOP" THEN stops \cup {f} ELSE stops)
  <1>1. /\ s \in Seq(MarkerChunks) /\ Ordered(s, m)
        /\ Dsdiff!Marked(s, "TRACKSTART") = starts /\ Dsdiff!Marked(s, "TRACKSTOP") = stops
    BY DEF Tells
  <1>2. c \in MarkerChunks
    BY MarkersAreIn
  <1>3. Append(s, c) \in Seq(MarkerChunks)
    BY <1>1, <1>2
  <1>4. Ordered(Append(s, c), f)
    BY <1>1, <1>2, OrderedMore
  <1>5. Dsdiff!Marked(Append(s, c), "TRACKSTART") = starts \cup (IF type = "TRACKSTART" THEN {f} ELSE {})
    BY <1>1, <1>2, MarkedMore
  <1>6. Dsdiff!Marked(Append(s, c), "TRACKSTOP") = stops \cup (IF type = "TRACKSTOP" THEN {f} ELSE {})
    BY <1>1, <1>2, MarkedMore
  <1>7. starts \cup (IF type = "TRACKSTART" THEN {f} ELSE {}) = IF type = "TRACKSTART" THEN starts \cup {f} ELSE starts
    OBVIOUS
  <1>8. stops \cup (IF type = "TRACKSTOP" THEN {f} ELSE {}) = IF type = "TRACKSTOP" THEN stops \cup {f} ELSE stops
    OBVIOUS
  <1> QED BY <1>3, <1>4, <1>5, <1>6, <1>7, <1>8 DEF Tells

\* Markers of a track come one after the other.
Cat(s, t) == s \o t

\* Lists of markers in a row.
LEMMA CatOrder ==
    \A s, t, u \in Seq(MarkerChunks) : Cat(s, t) \in Seq(MarkerChunks) /\ Cat(s, Cat(t, u)) = Cat(Cat(s, t), u)
  <1>1. ASSUME NEW T PROVE \A s, t, u \in Seq(T) : s \o t \in Seq(T) /\ s \o (t \o u) = (s \o t) \o u
    OBVIOUS
  <1> QED BY <1>1 DEF Cat

\* A marker that may be left out.
LEMMA MaybeOne ==
    ASSUME NEW T, NEW s \in Seq(T), NEW p \in T, NEW one \in BOOLEAN, NEW x, x = (IF one THEN <<p>> ELSE <<>>)
    PROVE  x \in Seq(T) /\ s \o x \in Seq(T) /\ s \o x = IF one THEN Append(s, p) ELSE s
  <1>1. CASE one
    BY <1>1, ConcatOne
  <1>2. CASE ~one
    BY <1>2, ConcatOne
  <1> QED BY <1>1, <1>2

\* A track has a gap behind it, or nothing.
Gap(a, i) == i = Len(a.tracks) \/ a.tracks[i + 1].start > Dsdiff!Stop(a.tracks[i])

\* The last mark of a track.
LastOf(a, i) == IF Gap(a, i) THEN Dsdiff!Stop(a.tracks[i]) ELSE a.tracks[i].start

\* The markers of a track, which begins after what was told before.
LEMMA TellsTrack ==
    ASSUME NEW a, Disc(a), NEW i \in 1..Len(a.tracks), NEW s, NEW m \in Nat, NEW starts, NEW stops, Tells(s, m, starts, stops),
           m <= a.tracks[i].start, i = 1 => m = 0
    PROVE  Tells(s \o Dsdiff!TrackMarkers(a, i), LastOf(a, i), starts \cup {a.tracks[i].start},
                 IF Gap(a, i) THEN stops \cup {Dsdiff!Stop(a.tracks[i])} ELSE stops)
  <1>1. PICK p, q, r, f, e : /\ f = a.tracks[i].start /\ e = Dsdiff!Stop(a.tracks[i])
                             /\ p = Dsdiff!Marker(0, "PROGRAMSTART") /\ q = Dsdiff!Marker(f, "TRACKSTART")
                             /\ r = Dsdiff!Marker(e, "TRACKSTOP")
    OBVIOUS
  <1>2. f \in Nat /\ e \in Nat /\ f <= e /\ m <= f
    BY <1>1, TrackIs
  <1>3. {"PROGRAMSTART", "TRACKSTART", "TRACKSTOP"} \subseteq MarkerTypes
    BY DEF MarkerTypes
  <1>4. p \in MarkerChunks /\ q \in MarkerChunks /\ r \in MarkerChunks
    BY <1>1, <1>2, <1>3, MarkersAreIn
  <1>5. PICK one \in BOOLEAN : one = (i = 1)
    OBVIOUS
  <1>6. PICK two \in BOOLEAN : two = Gap(a, i)
    BY DEF Gap
  <1>7. PICK before : before = IF one THEN Append(s, p) ELSE s
    OBVIOUS
  <1>8. PICK middle : middle = Append(before, q)
    OBVIOUS
  <1>9. s \o Dsdiff!TrackMarkers(a, i) = IF two THEN Append(middle, r) ELSE middle
    <2>1. PICK x, y : x = (IF one THEN <<p>> ELSE <<>>) /\ y = (IF two THEN <<r>> ELSE <<>>)
      OBVIOUS
    <2>2. Dsdiff!TrackMarkers(a, i) = x \o <<q>> \o y
      BY <1>1, <1>5, <1>6, <2>1 DEF Dsdiff!TrackMarkers, Gap
    <2>3. s \in Seq(MarkerChunks)
      BY DEF Tells
    <2>4. x \in Seq(MarkerChunks) /\ before \in Seq(MarkerChunks) /\ s \o x = before
      BY ONLY <1>4, <1>7, <2>1, <2>3, one \in BOOLEAN, MaybeOne
    <2>5. <<q>> \in Seq(MarkerChunks) /\ middle \in Seq(MarkerChunks) /\ before \o <<q>> = middle
      BY ONLY <1>4, <1>8, <2>4, ConcatOne
    <2>6. y \in Seq(MarkerChunks) /\ middle \o y = IF two THEN Append(middle, r) ELSE middle
      BY ONLY <1>4, <2>1, <2>5, two \in BOOLEAN, MaybeOne
    <2>7. s \o (x \o <<q>> \o y) = ((s \o x) \o <<q>>) \o y
      <3>1. PICK v : v = <<q>>
        OBVIOUS
      <3>2. v \in Seq(MarkerChunks)
        BY ONLY <2>5, <3>1
      <3>3. s \o (x \o v \o y) = ((s \o x) \o v) \o y
        <4>1. s \in Seq(MarkerChunks) /\ x \in Seq(MarkerChunks) /\ y \in Seq(MarkerChunks)
          BY ONLY <2>3, <2>4, <2>6
        <4>2. Cat(s, Cat(Cat(x, v), y)) = Cat(Cat(Cat(s, x), v), y)
          BY ONLY <4>1, <3>2, CatOrder
        <4> QED BY ONLY <4>2 DEF Cat
      <3> QED BY ONLY <3>1, <3>3
    <2> QED BY ONLY <2>2, <2>4, <2>5, <2>6, <2>7
  <1>10. Tells(before, m, starts, stops)
    <2>1. CASE one
      <3>1. m = 0
        BY <1>5, <2>1
      <3>2. Tells(Append(s, p), 0, IF "PROGRAMSTART" = "TRACKSTART" THEN starts \cup {0} ELSE starts,
                                   IF "PROGRAMSTART" = "TRACKSTOP" THEN stops \cup {0} ELSE stops)
        <4>1. Tells(s, 0, starts, stops)
          BY <3>1
        <4>2. 0 \in Nat /\ 0 <= 0 /\ "PROGRAMSTART" \in MarkerTypes /\ p = Dsdiff!Marker(0, "PROGRAMSTART")
          BY <1>1, <1>3
        <4> QED BY ONLY <4>1, <4>2, TellsMore
      <3> QED BY <1>7, <2>1, <3>1, <3>2
    <2>2. CASE ~one
      BY <1>7, <2>2
    <2> QED BY <2>1, <2>2
  <1>11. Tells(middle, f, starts \cup {f}, stops)
    <2>1. Tells(Append(before, q), f, IF "TRACKSTART" = "TRACKSTART" THEN starts \cup {f} ELSE starts,
                                      IF "TRACKSTART" = "TRACKSTOP" THEN stops \cup {f} ELSE stops)
      BY <1>1, <1>2, <1>3, <1>10, TellsMore
    <2> QED BY <1>8, <2>1
  <1>12. CASE two
    <2>1. Tells(Append(middle, r), e, IF "TRACKSTOP" = "TRACKSTART" THEN (starts \cup {f}) \cup {e} ELSE starts \cup {f},
                                      IF "TRACKSTOP" = "TRACKSTOP" THEN stops \cup {e} ELSE stops)
      BY <1>1, <1>2, <1>3, <1>11, TellsMore
    <2>2. LastOf(a, i) = e
      BY <1>1, <1>6, <1>12 DEF LastOf
    <2> QED BY <1>1, <1>6, <1>9, <1>12, <2>1, <2>2
  <1>13. CASE ~two
    <2>1. LastOf(a, i) = f
      BY <1>1, <1>6, <1>13 DEF LastOf
    <2> QED BY <1>1, <1>6, <1>9, <1>11, <1>13, <2>1
  <1> QED BY <1>12, <1>13

\* What is told after i tracks.
LastUpTo(a, i) == IF i = 0 THEN 0 ELSE LastOf(a, i)
StartsUpTo(a, i) == {a.tracks[k].start : k \in 1..i}
StopsUpTo(a, i) == {Dsdiff!Stop(a.tracks[k]) : k \in {j \in 1..i : Gap(a, j)}}

\* A track more.
LEMMA UpToMore ==
    ASSUME NEW a, NEW i \in Nat, i > 0
    PROVE  /\ StartsUpTo(a, i) = StartsUpTo(a, i - 1) \cup {a.tracks[i].start}
           /\ StopsUpTo(a, i) = IF Gap(a, i) THEN StopsUpTo(a, i - 1) \cup {Dsdiff!Stop(a.tracks[i])} ELSE StopsUpTo(a, i - 1)
  <1>1. 1..i = (1..(i - 1)) \cup {i}
    OBVIOUS
  <1>2. {j \in 1..i : Gap(a, j)} = {j \in 1..(i - 1) : Gap(a, j)} \cup (IF Gap(a, i) THEN {i} ELSE {})
    BY <1>1
  <1>3. StartsUpTo(a, i) = StartsUpTo(a, i - 1) \cup {a.tracks[i].start}
    BY <1>1 DEF StartsUpTo
  <1>4. StopsUpTo(a, i) = IF Gap(a, i) THEN StopsUpTo(a, i - 1) \cup {Dsdiff!Stop(a.tracks[i])} ELSE StopsUpTo(a, i - 1)
    BY <1>2 DEF StopsUpTo
  <1> QED BY <1>3, <1>4

\* The mark at the beginning of a list of markers is none.
LEMMA TellsNothing == ASSUME NEW a PROVE Tells(<<MasterId>>, 0, StartsUpTo(a, 0), StopsUpTo(a, 0))
  <1>1. PICK s : s = <<MasterId>>
    OBVIOUS
  <1>2. s \in Seq(MarkerChunks) /\ DOMAIN s = {1} /\ s[1] = MasterId
    BY <1>1, MarkersAreIn
  <1>3. ~Dsdiff!IsMark(MasterId)
    BY DEF Dsdiff!IsMark, MasterId, Dsdiff!Chunk
  <1>4. \A i \in DOMAIN s : ~Dsdiff!IsMark(s[i])
    BY <1>2, <1>3
  <1>5. Ordered(s, 0)
    BY <1>4 DEF Ordered
  <1>6. \A type : Dsdiff!Marked(s, type) = {}
    BY <1>4 DEF Dsdiff!Marked
  <1>7. StartsUpTo(a, 0) = {} /\ StopsUpTo(a, 0) = {}
    <2>1. 1..0 = {}
      OBVIOUS
    <2> QED BY <2>1 DEF StartsUpTo, StopsUpTo
  <1> QED BY <1>1, <1>2, <1>5, <1>6, <1>7 DEF Tells

\* The tracks of a disc, one after the other.
LEMMA MarkersTell ==
    ASSUME NEW a, Disc(a), a.edit = TRUE, Dsdiff!InOrder(a.tracks)
    PROVE  \E m : Tells(Dsdiff!Markers(a), m, StartsUpTo(a, Len(a.tracks)), StopsUpTo(a, Len(a.tracks)))
  <1>1. PICK n \in Nat : n = Len(a.tracks)
    BY TracksAre
  <1>2. PICK t \in [0..n -> Seq(MarkerChunks)] :
              /\ t[0] = <<MasterId>>
              /\ \A i \in 1..n : t[i] = t[i - 1] \o Dsdiff!TrackMarkers(a, i)
              /\ Dsdiff!Markers(a) = t[n]
    BY <1>1, MarkersInTurn
  <1> DEFINE At(i) == Tells(t[i], LastUpTo(a, i), StartsUpTo(a, i), StopsUpTo(a, i))
             N == {i \in Nat : i <= n => At(i)}
  <1>3. 0 \in N
    BY <1>2, TellsNothing DEF LastUpTo
  <1>4. ASSUME NEW k \in Nat, k \in N PROVE k + 1 \in N
    <2> SUFFICES ASSUME k + 1 <= n PROVE At(k + 1)
      OBVIOUS
    <2>1. At(k)
      BY <1>1, <1>4
    <2>2. PICK i : i = k + 1
      OBVIOUS
    <2>3. i \in 1..n /\ i - 1 = k /\ i \in Nat /\ i > 0
      BY <2>2
    <2>4. LastUpTo(a, k) \in Nat /\ LastUpTo(a, k) <= a.tracks[i].start /\ (i = 1 => LastUpTo(a, k) = 0)
      <3>1. a.tracks[i].start \in Nat
        BY <1>1, <2>3, TrackIs
      <3>2. CASE k = 0
        BY <3>1, <3>2 DEF LastUpTo
      <3>3. CASE k # 0
        <4>1. k \in 1..n /\ i # 1
          BY <2>3, <3>3
        <4>2. Dsdiff!Stop(a.tracks[k]) \in Nat
          BY <1>1, <4>1, TrackIs
        <4>3. DOMAIN a.tracks = 1..n
          BY <1>1, TracksAre
        <4>4. a.tracks[i - 1].start <= a.tracks[i].start
          BY <2>3, <4>1, <4>3 DEF Dsdiff!InOrder
        <4>5. Gap(a, k) => a.tracks[i].start > Dsdiff!Stop(a.tracks[k])
          BY <1>1, <2>3 DEF Gap
        <4>6. a.tracks[k].start \in Nat /\ a.tracks[k].start <= a.tracks[i].start
          BY <1>1, <2>3, <4>1, <4>4, TrackIs
        <4> QED BY <3>1, <3>3, <4>1, <4>2, <4>5, <4>6 DEF LastUpTo, LastOf
      <3> QED BY <3>2, <3>3
    <2>5. Tells(t[k] \o Dsdiff!TrackMarkers(a, i), LastOf(a, i), StartsUpTo(a, k) \cup {a.tracks[i].start},
                IF Gap(a, i) THEN StopsUpTo(a, k) \cup {Dsdiff!Stop(a.tracks[i])} ELSE StopsUpTo(a, k))
      BY <1>1, <2>1, <2>3, <2>4, TellsTrack
    <2>6. t[i] = t[k] \o Dsdiff!TrackMarkers(a, i)
      BY <1>2, <2>3
    <2>7. LastUpTo(a, i) = LastOf(a, i)
      BY <2>3 DEF LastUpTo
    <2>8. At(i)
      BY <2>3, <2>5, <2>6, <2>7, UpToMore
    <2> QED BY <2>2, <2>8
  <1> HIDE DEF N
  <1>5. Nat \subseteq N
    BY <1>3, <1>4, Induct
  <1> USE DEF N
  <1>6. At(n)
    BY <1>5
  <1> QED BY <1>1, <1>2, <1>6

LEMMA AtMost == \A x, y, z \in Nat : x <= y /\ y <= z => x <= z
  OBVIOUS

\* A track begins before all that follow, or with them.
LEMMA StartsRise ==
    ASSUME NEW a, Disc(a), Dsdiff!InOrder(a.tracks), NEW i \in 1..Len(a.tracks), NEW k \in i..Len(a.tracks)
    PROVE  a.tracks[i].start <= a.tracks[k].start
  <1>1. PICK n \in Nat : n = Len(a.tracks) /\ DOMAIN a.tracks = 1..n
    BY TracksAre
  <1> DEFINE N == {d \in Nat : i + d <= n => a.tracks[i].start <= a.tracks[i + d].start}
  <1>2. 0 \in N
    BY TrackIs
  <1>3. ASSUME NEW d \in Nat, d \in N PROVE d + 1 \in N
    <2> SUFFICES ASSUME i + (d + 1) <= n PROVE a.tracks[i].start <= a.tracks[i + (d + 1)].start
      OBVIOUS
    <2>1. PICK j : j = i + d
      OBVIOUS
    <2>2. j \in 1..n /\ j + 1 \in 1..n /\ j + 1 = i + (d + 1) /\ a.tracks[i].start <= a.tracks[j].start
      BY <1>1, <1>3, <2>1
    <2>3. a.tracks[j].start <= a.tracks[j + 1].start
      <3>1. PICK l : l = j + 1
        OBVIOUS
      <3>2. l \in 1..n /\ l # 1 /\ l - 1 = j
        BY <2>2, <3>1
      <3> QED BY <1>1, <3>1, <3>2 DEF Dsdiff!InOrder
    <2>4. a.tracks[i].start \in Nat /\ a.tracks[j].start \in Nat /\ a.tracks[j + 1].start \in Nat
      BY <1>1, <2>2, TrackIs
    <2>5. a.tracks[i].start <= a.tracks[j].start
      BY <2>2
    <2>6. a.tracks[i].start <= a.tracks[j + 1].start
      BY ONLY <2>3, <2>4, <2>5, AtMost
    <2> QED BY <2>2, <2>6
  <1> HIDE DEF N
  <1>4. Nat \subseteq N
    BY <1>2, <1>3, Induct
  <1>5. k - i \in N
    BY <1>1, <1>4
  <1> QED BY <1>1, <1>5 DEF N

\* So the gap behind a track is behind it and before all tracks that follow.
LEMMA GapsAre ==
    ASSUME NEW a, Disc(a), Dsdiff!InOrder(a.tracks)
    PROVE  /\ StartsUpTo(a, Len(a.tracks)) = {a.tracks[i].start : i \in DOMAIN a.tracks}
           /\ StopsUpTo(a, Len(a.tracks)) = {Dsdiff!Stop(a.tracks[i]) : i \in
                 {j \in DOMAIN a.tracks : \A k \in DOMAIN a.tracks : k > j => a.tracks[k].start > Dsdiff!Stop(a.tracks[j])}}
  <1>1. PICK n \in Nat : n = Len(a.tracks) /\ DOMAIN a.tracks = 1..n
    BY TracksAre
  <1>2. \A j \in 1..n : Gap(a, j) <=> \A k \in 1..n : k > j => a.tracks[k].start > Dsdiff!Stop(a.tracks[j])
    <2> SUFFICES ASSUME NEW j \in 1..n
                 PROVE  Gap(a, j) <=> \A k \in 1..n : k > j => a.tracks[k].start > Dsdiff!Stop(a.tracks[j])
      OBVIOUS
    <2>1. ASSUME Gap(a, j), NEW k \in 1..n, k > j PROVE a.tracks[k].start > Dsdiff!Stop(a.tracks[j])
      <3>1. j + 1 \in 1..n /\ k \in (j + 1)..n /\ j # n
        BY <2>1
      <3>2. a.tracks[j + 1].start > Dsdiff!Stop(a.tracks[j])
        BY <1>1, <2>1, <3>1 DEF Gap
      <3>3. a.tracks[j + 1].start <= a.tracks[k].start
        BY <1>1, <3>1, StartsRise
      <3>4. a.tracks[j + 1].start \in Nat /\ a.tracks[k].start \in Nat /\ Dsdiff!Stop(a.tracks[j]) \in Nat
        BY <1>1, <3>1, TrackIs
      <3> QED BY <3>2, <3>3, <3>4
    <2>2. ASSUME \A k \in 1..n : k > j => a.tracks[k].start > Dsdiff!Stop(a.tracks[j]) PROVE Gap(a, j)
      <3>1. j = n \/ (j + 1 \in 1..n /\ j + 1 > j)
        OBVIOUS
      <3> QED BY <1>1, <2>2, <3>1 DEF Gap
    <2> QED BY <2>1, <2>2
  <1>3. {j \in 1..n : Gap(a, j)} = {j \in 1..n : \A k \in 1..n : k > j => a.tracks[k].start > Dsdiff!Stop(a.tracks[j])}
    BY <1>2
  <1> QED BY <1>1, <1>3 DEF StartsUpTo, StopsUpTo

\* The markers of a finished file tell the tracks.
LEMMA DsdiffMarkersTell == DsdiffInv => Dsdiff!MarkersTellTheTracks
  <1> SUFFICES ASSUME DsdiffInv, state = "finished", album.edit, Dsdiff!InOrder(album.tracks)
               PROVE  LET chunks == Dsdiff!Diin.parts
                          tracks == album.tracks IN
                      /\ \A i \in DOMAIN chunks : Dsdiff!IsMark(chunks[i]) =>
                            /\ chunks[i].time.minutes < 60 /\ chunks[i].time.seconds < 60
                            /\ \A j \in i..Len(chunks) : Dsdiff!IsMark(chunks[j]) =>
                                  Dsdiff!FramesOf(chunks[i].time) <= Dsdiff!FramesOf(chunks[j].time)
                      /\ Dsdiff!Marked(chunks, "TRACKSTART") = {tracks[i].start : i \in DOMAIN tracks}
                      /\ Dsdiff!Marked(chunks, "TRACKSTOP") = {Dsdiff!Stop(tracks[i]) : i \in
                            {j \in DOMAIN tracks : \A k \in DOMAIN tracks : k > j => tracks[k].start > Dsdiff!Stop(tracks[j])}}
    BY DEF Dsdiff!MarkersTellTheTracks
  <1>1. album \in Albums /\ index \in Seq(IndexType) /\ footer = Dsdiff!FooterChunks(album, index)
    BY DEF DsdiffInv
  <1>2. PICK a : a = album
    OBVIOUS
  <1>3. a \in Albums /\ Disc(a) /\ a.edit = TRUE /\ Dsdiff!InOrder(a.tracks)
    BY <1>1, <1>2, AlbumIs
  <1>4. Dsdiff!Diin.parts = DiinParts(a)
    BY <1>1, <1>2, FooterIs, DiinIs DEF Dsdiff!Diin
  <1>5. PICK m : Tells(Dsdiff!Markers(a), m, StartsUpTo(a, Len(a.tracks)), StopsUpTo(a, Len(a.tracks)))
    BY <1>3, MarkersTell
  <1>6. PICK T : /\ Dsdiff!Artist(a) \in Seq(T) /\ Dsdiff!Title(a) \in Seq(T)
                 /\ \A c \in T : GoodChunk(c) /\ c.id \in {"DIAR", "DITI"}
    BY <1>3, TextsAre
  <1>7. \A c \in T : ~Dsdiff!IsMark(c)
    BY <1>6 DEF Dsdiff!IsMark
  <1>8. PICK texts : texts = Dsdiff!Artist(a) \o Dsdiff!Title(a)
    OBVIOUS
  <1>9. texts \in Seq(T) /\ DiinParts(a) = Dsdiff!Markers(a) \o texts
    <2>1. Dsdiff!Markers(a) \in Seq(MarkerChunks)
      BY <1>5 DEF Tells
    <2> QED BY <1>6, <1>8, <2>1 DEF DiinParts
  <1>10. PICK chunks : chunks = DiinParts(a)
    OBVIOUS
  <1>11. /\ Ordered(chunks, m) /\ Dsdiff!Marked(chunks, "TRACKSTART") = StartsUpTo(a, Len(a.tracks))
         /\ Dsdiff!Marked(chunks, "TRACKSTOP") = StopsUpTo(a, Len(a.tracks))
    <2>1. /\ Dsdiff!Markers(a) \in Seq(MarkerChunks) /\ Ordered(Dsdiff!Markers(a), m)
          /\ Dsdiff!Marked(Dsdiff!Markers(a), "TRACKSTART") = StartsUpTo(a, Len(a.tracks))
          /\ Dsdiff!Marked(Dsdiff!Markers(a), "TRACKSTOP") = StopsUpTo(a, Len(a.tracks))
      BY <1>5 DEF Tells
    <2> QED BY <1>7, <1>9, <1>10, <2>1, NoMarksMore
  <1>12. /\ StartsUpTo(a, Len(a.tracks)) = {a.tracks[i].start : i \in DOMAIN a.tracks}
         /\ StopsUpTo(a, Len(a.tracks)) = {Dsdiff!Stop(a.tracks[i]) : i \in
               {j \in DOMAIN a.tracks : \A k \in DOMAIN a.tracks : k > j => a.tracks[k].start > Dsdiff!Stop(a.tracks[j])}}
    BY <1>3, GapsAre
  <1>13. \A i \in DOMAIN chunks : Dsdiff!IsMark(chunks[i]) =>
            /\ chunks[i].time.minutes < 60 /\ chunks[i].time.seconds < 60
            /\ \A j \in i..Len(chunks) : Dsdiff!IsMark(chunks[j]) =>
                  Dsdiff!FramesOf(chunks[i].time) <= Dsdiff!FramesOf(chunks[j].time)
    BY <1>11 DEF Ordered
  <1> QED BY ONLY <1>2, <1>4, <1>10, <1>11, <1>12, <1>13

\* FileCanBeRead: of any albums, with any frames, a finished DSDIFF file is read right
\* by the sizes in it, and the markers of an edit master tell where its tracks begin
\* and end (dsdiff.c).
THEOREM FilesCanBeRead == FormatsSpec => []FileCanBeRead
  <1>1. FormatsInit => DsdiffInv
    <2> SUFFICES ASSUME Dsdiff!Init PROVE DsdiffInv
      BY DEF FormatsInit
    <2>1. /\ album \in Albums /\ state = "closed" /\ body = <<>> /\ index = <<>> /\ audioSize = 0
      BY DEF Dsdiff!Init
    <2> QED BY <2>1, DsdiffStarts
  <1>2. DsdiffInv /\ [FormatsNext]_formatsVars => DsdiffInv'
    <2> SUFFICES ASSUME DsdiffInv, [FormatsNext]_formatsVars PROVE DsdiffInv'
      OBVIOUS
    <2>1. CASE Dsdiff!Next
      BY <2>1, DsdiffStep
    <2>2. CASE UNCHANGED dsdiffVars
      BY <2>2 DEF dsdiffVars, DsdiffInv, Dsdiff!BytesOf
    <2> QED BY <2>1, <2>2 DEF FormatsNext, formatsVars
  <1>3. DsdiffInv => FileCanBeRead
    BY DsdiffCanBeRead, DsdiffMarkersTell DEF FileCanBeRead
  <1> QED BY <1>1, <1>2, <1>3, PTL DEF FormatsSpec
=============================================================================
