---------------------------- MODULE Codecs_proofs ----------------------------
(***************************************************************************)
(* Whatever arrives in the place of a DST frame, what is accepted of it    *)
(* can be decoded: for any bytes, any number of channels, any sizes of the *)
(* fields and any limits on segments and tables.                           *)
(*                                                                         *)
(* The header is read part by part, and each part is right as soon as it   *)
(* is read (UnpackInv): the segments of a channel leave room for the last  *)
(* one, the tables have numbers below their count, the entries are in      *)
(* their range.  Then the bits are decoded (DecodeInv): every bit is in a  *)
(* segment, so it has a filter and a probability table, the table has an   *)
(* entry for what is predicted, and an entry divides the interval of the   *)
(* arithmetic decoder into two parts that are not empty.                   *)
(*                                                                         *)
(* Powers, getbits, the sums and the registers are recursive functions:    *)
(* the provers know that each is a CHOOSE, so that it does what its        *)
(* equation says is a lemma (Loop, Loops), proved with induction.          *)
(***************************************************************************)
EXTENDS DstReference, FiniteSetTheorems, SequenceTheorems, WellFoundedInduction, TLAPS

------------------------------------------------------------------------------
(* Induction and loops.                                                    *)

\* The provers have no induction, but a set of numbers that is well founded.
LEMMA Induct ==
  ASSUME NEW N, 0 \in N, \A n \in Nat : n \in N => n + 1 \in N
  PROVE  Nat \subseteq N
  <1> DEFINE T == {0..m : m \in Nat \ N}
  <1> SUFFICES ASSUME Nat \ N # {}
               PROVE  FALSE
    OBVIOUS
  <1>1. \A A \in T : A \in FiniteSubsetsOf(Nat)
    <2> SUFFICES ASSUME NEW m \in Nat PROVE 0..m \in FiniteSubsetsOf(Nat)
      OBVIOUS
    <2>1. IsFiniteSet(0..m)
      BY FS_Interval
    <2> QED BY <2>1 DEF FiniteSubsetsOf
  <1>2. T \subseteq FiniteSubsetsOf(Nat) /\ T # {}
    BY <1>1
  <1> HIDE DEF T
  <1>3. PICK A \in T : \A B \in T : ~ (<<B, A>> \in StrictSubsetOrdering(Nat))
    BY <1>2, FS_StrictSubsetOrderingWellFounded, WFMin
  <1> USE DEF T
  <1>4. PICK m \in Nat \ N : A = 0..m
    OBVIOUS
  <1>5. m # 0 /\ m - 1 \in Nat /\ m - 1 \notin N
    BY <1>4
  <1>6. 0..m-1 \in T /\ 0..m-1 \subseteq 0..m /\ 0..m-1 # 0..m
    <2>1. m \in 0..m /\ m \notin 0..m-1
      OBVIOUS
    <2> QED BY <1>5, <2>1
  <1>7. <<0..m-1, A>> \in StrictSubsetOrdering(Nat)
    BY <1>4, <1>6 DEF StrictSubsetOrdering
  <1> QED BY <1>3, <1>6, <1>7

\* f is a loop that begins with a and turns i into F[i] of what was before.
LoopTo(f, a, F, n) == f[0] = a /\ \A i \in 1..n : f[i] = F[i][f[i - 1]]

\* Two loops that do the same agree.
LEMMA LoopsAgree ==
    ASSUME NEW n \in Nat, NEW a, NEW F, NEW f, NEW g, NEW m \in 0..n,
           LoopTo(f, a, F, m), LoopTo(g, a, F, n)
    PROVE  \A i \in 0..m : f[i] = g[i]
  <1> DEFINE N == {i \in Nat : i <= m => f[i] = g[i]}
  <1>1. 0 \in N
    BY DEF LoopTo
  <1>2. ASSUME NEW i \in Nat, i \in N PROVE i + 1 \in N
    <2>1. SUFFICES ASSUME i + 1 <= m PROVE f[i + 1] = g[i + 1]
      OBVIOUS
    <2>2. f[i] = g[i] /\ i + 1 \in 1..m /\ i + 1 \in 1..n /\ (i + 1) - 1 = i
      BY <1>2, <2>1
    <2>3. f[i + 1] = F[i + 1][f[(i + 1) - 1]] /\ g[i + 1] = F[i + 1][g[(i + 1) - 1]]
      BY <2>2 DEF LoopTo
    <2> QED BY <2>2, <2>3
  <1> HIDE DEF N
  <1>3. Nat \subseteq N
    BY <1>1, <1>2, Induct
  <1> QED BY <1>3 DEF N

\* A loop that stays in T exists, for as many turns as are wanted ...
LEMMA LoopUpTo ==
    ASSUME NEW T, NEW a \in T, NEW F \in [Nat -> [T -> T]], NEW n \in Nat
    PROVE  \E f \in [0..n -> T] : LoopTo(f, a, F, n)
  <1> DEFINE N == {i \in Nat : \E f \in [0..i -> T] : LoopTo(f, a, F, i)}
  <1>1. 0 \in N
    <2>1. [i \in 0..0 |-> a] \in [0..0 -> T] /\ LoopTo([i \in 0..0 |-> a], a, F, 0)
      BY DEF LoopTo
    <2> QED BY <2>1
  <1>2. ASSUME NEW i \in Nat, i \in N PROVE i + 1 \in N
    <2>1. PICK f \in [0..i -> T] : LoopTo(f, a, F, i)
      BY <1>2
    <2> DEFINE g == [j \in 0..i + 1 |-> IF j <= i THEN f[j] ELSE F[i + 1][f[i]]]
    <2>2. g \in [0..i + 1 -> T]
      <3>1. F[i + 1] \in [T -> T] /\ f[i] \in T
        OBVIOUS
      <3> QED BY <3>1
    <2>3. g[0] = a
      BY <2>1 DEF LoopTo
    <2>4. ASSUME NEW j \in 1..i + 1 PROVE g[j] = F[j][g[j - 1]]
      <3>1. CASE j <= i
        <4>1. j \in 1..i /\ j - 1 \in 0..i
          BY <3>1
        <4>2. f[j] = F[j][f[j - 1]] /\ g[j] = f[j] /\ g[j - 1] = f[j - 1]
          BY <2>1, <3>1, <4>1 DEF LoopTo
        <4> QED BY <4>2
      <3>2. CASE j = i + 1
        BY <3>2
      <3> QED BY <3>1, <3>2
    <2> HIDE DEF g
    <2>5. LoopTo(g, a, F, i + 1)
      BY <2>3, <2>4 DEF LoopTo
    <2> QED BY <2>2, <2>5
  <1> HIDE DEF N
  <1>3. Nat \subseteq N
    BY <1>1, <1>2, Induct
  <1> QED BY <1>3 DEF N

\* ... and for ever.
LEMMA LoopForEver ==
    ASSUME NEW T, NEW a \in T, NEW F \in [Nat -> [T -> T]]
    PROVE  \E f \in [Nat -> T] : \A n \in Nat : LoopTo(f, a, F, n)
  <1> DEFINE G(n) == CHOOSE f \in [0..n -> T] : LoopTo(f, a, F, n)
             f == [n \in Nat |-> G(n)[n]]
  <1>1. ASSUME NEW n \in Nat PROVE G(n) \in [0..n -> T] /\ LoopTo(G(n), a, F, n)
    BY LoopUpTo
  <1> HIDE DEF G
  <1>2. f \in [Nat -> T]
    BY <1>1
  <1>3. ASSUME NEW n \in Nat PROVE f[n + 1] = F[n + 1][f[n]]
    <2>1. LoopTo(G(n), a, F, n) /\ LoopTo(G(n + 1), a, F, n + 1)
      BY <1>1
    <2>2. G(n)[n] = G(n + 1)[n]
      BY <2>1, LoopsAgree
    <2>3. G(n + 1)[n + 1] = F[n + 1][G(n + 1)[(n + 1) - 1]]
      BY <2>1 DEF LoopTo
    <2>4. (n + 1) - 1 = n
      OBVIOUS
    <2> QED BY <2>2, <2>3, <2>4
  <1>4. f[0] = a
    BY <1>1 DEF LoopTo
  <1> HIDE DEF f
  <1>5. ASSUME NEW n \in Nat, NEW i \in 1..n PROVE f[i] = F[i][f[i - 1]]
    <2>1. i - 1 \in Nat /\ (i - 1) + 1 = i
      OBVIOUS
    <2> QED BY <2>1, <1>3
  <1> QED BY <1>2, <1>4, <1>5 DEF LoopTo

\* The same as a recursive function with domain D.
IsLoop(f, a, F, D) == f = [i \in D |-> IF i = 0 THEN a ELSE F[i][f[i - 1]]]

LEMMA Loop ==
    ASSUME NEW T, NEW a \in T, NEW F \in [Nat -> [T -> T]], NEW n \in Nat
    PROVE  \E f \in [0..n -> T] : IsLoop(f, a, F, 0..n)
  <1>1. PICK f \in [0..n -> T] : LoopTo(f, a, F, n)
    BY LoopUpTo
  <1>2. ASSUME NEW i \in 0..n PROVE f[i] = IF i = 0 THEN a ELSE F[i][f[i - 1]]
    BY <1>1 DEF LoopTo
  <1> QED BY <1>2 DEF IsLoop

LEMMA Loops ==
    ASSUME NEW T, NEW a \in T, NEW F \in [Nat -> [T -> T]]
    PROVE  \E f \in [Nat -> T] : IsLoop(f, a, F, Nat)
  <1>1. PICK f \in [Nat -> T] : \A n \in Nat : LoopTo(f, a, F, n)
    BY LoopForEver
  <1>2. ASSUME NEW i \in Nat PROVE f[i] = IF i = 0 THEN a ELSE F[i][f[i - 1]]
    <2>1. LoopTo(f, a, F, i)
      BY <1>1
    <2> QED BY <2>1 DEF LoopTo
  <1> QED BY <1>2 DEF IsLoop
------------------------------------------------------------------------------
(* Powers of two.                                                          *)

LEMMA Pow2Is ==
    /\ Pow2 \in [Nat -> Nat]
    /\ Pow2[0] = 1
    /\ \A n \in Nat : Pow2[n + 1] = 2 * Pow2[n]
  <1> DEFINE F == [i \in Nat |-> [x \in Nat |-> 2 * x]]
  <1>1. F \in [Nat -> [Nat -> Nat]]
    OBVIOUS
  <1> HIDE DEF F
  <1>2. PICK f \in [Nat -> Nat] : IsLoop(f, 1, F, Nat)
    BY <1>1, Loops
  <1> USE DEF F
  <1>3. f = [n \in Nat |-> IF n = 0 THEN 1 ELSE 2 * f[n - 1]]
    <2>1. ASSUME NEW n \in Nat PROVE (IF n = 0 THEN 1 ELSE F[n][f[n - 1]]) = IF n = 0 THEN 1 ELSE 2 * f[n - 1]
      <3>1. n # 0 => f[n - 1] \in Nat
        OBVIOUS
      <3> QED BY <3>1
    <2> HIDE DEF F
    <2> QED BY <1>2, <2>1 DEF IsLoop
  <1>4. Pow2 = [n \in Nat |-> IF n = 0 THEN 1 ELSE 2 * Pow2[n - 1]]
    BY <1>3 DEF Pow2
  <1>5. ASSUME NEW g, g = [n \in Nat |-> IF n = 0 THEN 1 ELSE 2 * g[n - 1]]
        PROVE  g \in [Nat -> Nat] /\ g[0] = 1 /\ \A n \in Nat : g[n + 1] = 2 * g[n]
    <2>1. g[0] = 1
      BY <1>5
    <2>2. ASSUME NEW n \in Nat PROVE g[n + 1] = 2 * g[n]
      <3>1. g[n + 1] = 2 * g[(n + 1) - 1] /\ (n + 1) - 1 = n
        BY <1>5
      <3> QED BY <3>1
    <2> DEFINE N == {n \in Nat : g[n] \in Nat}
    <2>3. 0 \in N
      BY <2>1
    <2>4. \A n \in Nat : n \in N => n + 1 \in N
      BY <2>2
    <2> HIDE DEF N
    <2>5. Nat \subseteq N
      BY <2>3, <2>4, Induct
    <2>6. \A n \in Nat : g[n] \in Nat
      BY <2>5 DEF N
    <2>7. DOMAIN g = Nat
      BY <1>5
    <2> QED BY <2>1, <2>2, <2>6, <2>7, <1>5
  <1> QED BY <1>4, <1>5

\* Pow2 one down, its growth, and what it does to a sum.
LEMMA Pow2Down ==
    ASSUME NEW n \in Nat, n > 0
    PROVE  n - 1 \in Nat /\ Pow2[n] = 2 * Pow2[n - 1]
  <1>1. n - 1 \in Nat /\ (n - 1) + 1 = n
    OBVIOUS
  <1> QED BY <1>1, Pow2Is

LEMMA Pow2Larger == \A n \in Nat : Pow2[n] \in Nat /\ n < Pow2[n]
  <1> DEFINE N == {n \in Nat : n < Pow2[n]}
  <1>1. 0 \in N
    BY Pow2Is
  <1>2. ASSUME NEW n \in Nat, n \in N PROVE n + 1 \in N
    <2>1. Pow2[n + 1] = 2 * Pow2[n] /\ Pow2[n] \in Nat /\ n < Pow2[n]
      BY <1>2, Pow2Is
    <2> QED BY <2>1
  <1> HIDE DEF N
  <1>3. Nat \subseteq N
    BY <1>1, <1>2, Induct
  <1> QED BY <1>3, Pow2Is DEF N

LEMMA Pow2Plus == \A m, n \in Nat : Pow2[m + n] = Pow2[m] * Pow2[n]
  <1> SUFFICES ASSUME NEW m \in Nat PROVE \A n \in Nat : Pow2[m + n] = Pow2[m] * Pow2[n]
    OBVIOUS
  <1> DEFINE N == {n \in Nat : Pow2[m + n] = Pow2[m] * Pow2[n]}
  <1>1. 0 \in N
    <2>1. Pow2[m] \in Nat /\ Pow2[0] = 1 /\ m + 0 = m
      BY Pow2Is
    <2> QED BY <2>1
  <1>2. ASSUME NEW n \in Nat, n \in N PROVE n + 1 \in N
    <2>1. PICK p \in Nat : p = Pow2[m]
      BY Pow2Is
    <2>2. PICK q \in Nat : q = Pow2[n]
      BY Pow2Is
    <2>3. Pow2[m + n] = p * q
      BY <1>2, <2>1, <2>2
    <2>4. Pow2[n + 1] = 2 * q /\ Pow2[(m + n) + 1] = 2 * (p * q) /\ (m + n) + 1 = m + (n + 1)
      <3>1. m + n \in Nat
        OBVIOUS
      <3> QED BY <2>2, <2>3, <3>1, Pow2Is
    <2>5. p * (2 * q) = 2 * (p * q)
      OBVIOUS
    <2> QED BY <2>1, <2>4, <2>5
  <1> HIDE DEF N
  <1>3. Nat \subseteq N
    BY <1>1, <1>2, Induct
  <1> QED BY <1>3 DEF N
------------------------------------------------------------------------------
(* Reading bits.                                                           *)

\* A set of numbers has a least one.
LEMMA LeastOf ==
    ASSUME NEW N \in SUBSET Nat, N # {}
    PROVE  \E n \in N : \A m \in N : n <= m
  <1> SUFFICES ASSUME \A n \in N : \E m \in N : m < n PROVE FALSE
    OBVIOUS
  <1> DEFINE A == {n \in Nat : \A m \in 0..n : m \notin N}
  <1>1. 0 \in A
    <2>1. 0 \notin N
      OBVIOUS
    <2> QED BY <2>1
  <1>2. ASSUME NEW n \in Nat, n \in A PROVE n + 1 \in A
    <2>1. ASSUME n + 1 \in N PROVE FALSE
      <3>1. PICK m \in N : m < n + 1
        BY <2>1
      <3>2. m \in 0..n
        BY <3>1
      <3> QED BY <1>2, <3>1, <3>2
    <2>2. ASSUME NEW m \in 0..n + 1 PROVE m \notin N
      <3>1. m \in 0..n \/ m = n + 1
        OBVIOUS
      <3> QED BY <3>1, <2>1, <1>2
    <2> QED BY <2>2
  <1> HIDE DEF A
  <1>3. Nat \subseteq A
    BY <1>1, <1>2, Induct
  <1>4. PICK n \in N : TRUE
    OBVIOUS
  <1>5. n \in A /\ n \in 0..n
    BY <1>3
  <1> QED BY <1>5 DEF A

\* Log2RoundUp gives a width for getbits, no larger than the number.
LEMMA Log2IsNat == \A x \in Nat : Log2RoundUp(x) \in 0..x
  <1> SUFFICES ASSUME NEW x \in Nat PROVE Log2RoundUp(x) \in 0..x
    OBVIOUS
  <1> DEFINE N == {y \in Nat : x < Pow2[y]}
  <1>1. x \in N
    BY Pow2Larger
  <1>2. PICK y \in N : \A z \in N : y <= z
    BY <1>1, LeastOf
  <1>3. y = 0 \/ x >= Pow2[y - 1]
    <2>1. ASSUME y # 0 PROVE y - 1 \in Nat /\ y - 1 \notin N /\ Pow2[y - 1] \in Nat
      <3>1. y - 1 \in Nat /\ ~(y <= y - 1)
        BY <2>1
      <3> QED BY <3>1, <1>2, Pow2Larger
    <2> QED BY <2>1
  <1>4. y \in 0..x /\ x < Pow2[y]
    BY <1>1, <1>2
  <1> QED BY <1>3, <1>4 DEF Log2RoundUp

\* A reader has read the byte whose bits it holds.
Readers == {r \in [ByteCounter : Nat, BitPosition : 0..7, DataByte : Int] :
              r.ByteCounter = 0 => r.BitPosition = 0}

\* One turn of the loop of getbits.
Taken(data, s) ==
    LET next == IF s.r.BitPosition > 0 THEN s.r
                ELSE [ByteCounter |-> s.r.ByteCounter + 1, BitPosition |-> 8,
                      DataByte |-> data[s.r.ByteCounter + 1]]
        thisbits == Smaller(next.BitPosition, s.left)
        shift == next.BitPosition - thisbits
    IN IF s.eof \/ s.left = 0 THEN s
       ELSE IF s.r.BitPosition = 0 /\ s.r.ByteCounter >= Len(data)
       THEN [s EXCEPT !.eof = TRUE, !.r.ByteCounter = @ + 1]
       ELSE [r |-> [next EXCEPT !.BitPosition = shift],
             x |-> s.x + ((next.DataByte \div Pow2[shift]) % Pow2[thisbits]) * Pow2[s.left - thisbits],
             left |-> s.left - thisbits, eof |-> FALSE]

\* n bits are wanted: what is there so far fits what is left.
Reads(n) == {s \in [r : Readers, x : Nat, left : 0..n, eof : BOOLEAN] : s.x <= Pow2[n] - Pow2[s.left]}

\* Arithmetic that the solver is not asked twice.
LEMMA Rem == ASSUME NEW a \in Int, NEW b \in Nat, b > 0 PROVE a % b \in 0..b - 1
  OBVIOUS

LEMMA Times ==
    ASSUME NEW y \in Nat, NEW a \in Nat, NEW b \in Nat, y <= a - 1
    PROVE  y * b \in Nat /\ y * b <= a * b - b
  <1>1. y * b <= (a - 1) * b
    OBVIOUS
  <1>2. (a - 1) * b = a * b - b
    OBVIOUS
  <1> QED BY <1>1, <1>2

\* A turn keeps what is known of the reader and of the number so far.
LEMMA TakenIsRead ==
    ASSUME NEW data \in Seq(Int), NEW n \in Nat, NEW s \in Reads(n)
    PROVE  Taken(data, s) \in Reads(n)
  <1>1. /\ s.r \in Readers /\ s.x \in Nat /\ s.left \in 0..n /\ s.eof \in BOOLEAN
        /\ s = [r |-> s.r, x |-> s.x, left |-> s.left, eof |-> s.eof]
        /\ s.x <= Pow2[n] - Pow2[s.left]
    BY DEF Reads
  <1>2. PICK r \in Readers : r = s.r
    BY <1>1
  <1>3. /\ r.ByteCounter \in Nat /\ r.BitPosition \in 0..7 /\ r.DataByte \in Int
        /\ r = [ByteCounter |-> r.ByteCounter, BitPosition |-> r.BitPosition, DataByte |-> r.DataByte]
        /\ r.ByteCounter = 0 => r.BitPosition = 0
    BY DEF Readers
  <1>4. CASE s.eof \/ s.left = 0
    BY <1>4 DEF Taken
  <1>5. CASE ~(s.eof \/ s.left = 0) /\ s.r.BitPosition = 0 /\ s.r.ByteCounter >= Len(data)
    <2>1. Taken(data, s) = [r |-> [ByteCounter |-> r.ByteCounter + 1, BitPosition |-> r.BitPosition, DataByte |-> r.DataByte],
                            x |-> s.x, left |-> s.left, eof |-> TRUE]
      BY <1>1, <1>2, <1>3, <1>5 DEF Taken
    <2>2. [ByteCounter |-> r.ByteCounter + 1, BitPosition |-> r.BitPosition, DataByte |-> r.DataByte] \in Readers
      BY <1>3 DEF Readers
    <2> QED BY <2>1, <2>2, <1>1 DEF Reads
  <1>6. CASE ~(s.eof \/ s.left = 0) /\ ~(s.r.BitPosition = 0 /\ s.r.ByteCounter >= Len(data))
    <2> DEFINE next == IF s.r.BitPosition > 0 THEN s.r
                       ELSE [ByteCounter |-> s.r.ByteCounter + 1, BitPosition |-> 8,
                             DataByte |-> data[s.r.ByteCounter + 1]]
               thisbits == Smaller(next.BitPosition, s.left)
               shift == next.BitPosition - thisbits
               y == (next.DataByte \div Pow2[shift]) % Pow2[thisbits]
    <2>1. /\ next = [ByteCounter |-> next.ByteCounter, BitPosition |-> next.BitPosition, DataByte |-> next.DataByte]
          /\ next.ByteCounter \in Nat \ {0} /\ next.BitPosition \in 1..8 /\ next.DataByte \in Int
      <3>1. CASE r.BitPosition > 0
        BY <3>1, <1>2, <1>3
      <3>2. CASE r.BitPosition = 0
        <4>1. r.ByteCounter + 1 \in 1..Len(data)
          BY <3>2, <1>2, <1>3, <1>6
        <4>2. data[r.ByteCounter + 1] \in Int
          BY <4>1
        <4> QED BY <3>2, <4>1, <4>2, <1>2, <1>3
      <3> QED BY <3>1, <3>2, <1>3
    <2>2. Taken(data, s) = [r |-> [next EXCEPT !.BitPosition = shift], x |-> s.x + y * Pow2[s.left - thisbits],
                            left |-> s.left - thisbits, eof |-> FALSE]
      BY <1>6 DEF Taken
    <2> HIDE DEF next
    <2>3. thisbits \in 1..8 /\ thisbits <= s.left /\ shift \in 0..7 /\ s.left - thisbits \in 0..n
      <3>1. PICK b \in 1..8 : b = next.BitPosition
        BY <2>1
      <3>2. PICK l \in 1..n : l = s.left
        BY <1>1, <1>6
      <3>3. thisbits = IF b <= l THEN b ELSE l
        BY <3>1, <3>2 DEF Smaller
      <3>4. shift = b - thisbits
        BY <3>1
      <3>5. PICK t \in Nat : t = IF b <= l THEN b ELSE l
        OBVIOUS
      <3>6. t \in 1..8 /\ t <= l /\ b - t \in 0..7 /\ l - t \in 0..n
        BY <3>5
      <3>7. thisbits = t /\ shift = b - t /\ s.left - thisbits = l - t
        BY <3>2, <3>3, <3>4, <3>5
      <3> HIDE DEF thisbits, shift
      <3> QED BY ONLY <3>2, <3>6, <3>7
    <2>4. [next EXCEPT !.BitPosition = shift] \in Readers
      <3>1. [next EXCEPT !.BitPosition = shift] =
                [ByteCounter |-> next.ByteCounter, BitPosition |-> shift, DataByte |-> next.DataByte]
        BY <2>1
      <3> QED BY <3>1, <2>1, <2>3 DEF Readers
    <2> HIDE DEF shift, thisbits
    <2>5. Pow2[shift] \in Nat /\ Pow2[shift] > 0 /\ Pow2[thisbits] \in Nat /\ Pow2[thisbits] > 0
      BY <2>3, Pow2Larger
    <2>6. next.DataByte \div Pow2[shift] \in Int
      BY <2>1, <2>5
    <2>7. y \in 0..Pow2[thisbits] - 1
      BY <2>5, <2>6, Rem
    <2>8. Pow2[s.left] = Pow2[thisbits] * Pow2[s.left - thisbits] /\ Pow2[s.left - thisbits] \in Nat
      <3>1. thisbits \in Nat /\ s.left - thisbits \in Nat /\ thisbits + (s.left - thisbits) = s.left
        BY <2>3, <1>1
      <3> QED BY <3>1, Pow2Plus, Pow2Larger
    <2> HIDE DEF y
    <2>9. /\ y * Pow2[s.left - thisbits] \in Nat
          /\ y * Pow2[s.left - thisbits] <= Pow2[s.left] - Pow2[s.left - thisbits]
      <3>1. PICK a \in Nat : a = Pow2[thisbits]
        BY <2>5
      <3>2. PICK b \in Nat : b = Pow2[s.left - thisbits]
        BY <2>8
      <3>3. y \in Nat /\ y <= a - 1
        BY <2>7, <3>1
      <3> QED BY <3>1, <3>2, <3>3, <2>8, Times
    <2>10. /\ s.x + y * Pow2[s.left - thisbits] \in Nat
           /\ s.x + y * Pow2[s.left - thisbits] <= Pow2[n] - Pow2[s.left - thisbits]
      <3>1. Pow2[n] \in Nat /\ Pow2[s.left] \in Nat
        BY <1>1, Pow2Larger
      <3> QED BY <3>1, <2>8, <2>9, <1>1
    <2> QED BY <2>2, <2>3, <2>4, <2>10 DEF Reads
  <1> QED BY <1>4, <1>5, <1>6

\* getbits is the loop over its turns: it ends with nothing left.
LEMMA GetbitsReads ==
    ASSUME NEW data \in Seq(Int), NEW r \in Readers, NEW n \in Nat
    PROVE  getbits(data, r, n) \in Reads(n)
  <1> DEFINE start == [r |-> r, x |-> 0, left |-> n, eof |-> FALSE]
             F == [k \in Nat |-> [s \in Reads(n) |-> Taken(data, s)]]
  <1>1. start \in Reads(n)
    BY Pow2Larger DEF Reads
  <1>2. F \in [Nat -> [Reads(n) -> Reads(n)]]
    BY TakenIsRead
  <1> HIDE DEF F, start
  <1>3. PICK f \in [Nat -> Reads(n)] : IsLoop(f, start, F, Nat)
    BY <1>1, <1>2, Loops
  <1>4. ASSUME NEW k \in Nat
        PROVE  (IF k = 0 THEN start ELSE F[k][f[k - 1]]) = IF k = 0 THEN start ELSE Taken(data, f[k - 1])
    <2>1. k # 0 => f[k - 1] \in Reads(n)
      OBVIOUS
    <2> QED BY <2>1 DEF F
  <1>5. f = [k \in Nat |-> IF k = 0 THEN start ELSE Taken(data, f[k - 1])]
    BY <1>3, <1>4 DEF IsLoop
  <1> DEFINE loop == CHOOSE g : g = [k \in Nat |-> IF k = 0 THEN start ELSE Taken(data, g[k - 1])]
  <1>6. loop = [k \in Nat |-> IF k = 0 THEN start ELSE Taken(data, loop[k - 1])]
    BY <1>5
  <1>7. getbits(data, r, n) = loop[(n + 14) \div 8]
    BY DEF getbits, Taken, start
  <1> HIDE DEF loop
  <1> DEFINE N == {k \in Nat : loop[k] \in Reads(n)}
  <1>8. 0 \in N
    BY <1>1, <1>6
  <1>9. ASSUME NEW k \in Nat, k \in N PROVE k + 1 \in N
    <2>1. loop[k + 1] = Taken(data, loop[(k + 1) - 1]) /\ (k + 1) - 1 = k
      BY <1>6
    <2> QED BY <2>1, <1>9, TakenIsRead
  <1> HIDE DEF N
  <1>10. Nat \subseteq N
    BY <1>8, <1>9, Induct
  <1>11. (n + 14) \div 8 \in Nat
    OBVIOUS
  <1> QED BY <1>7, <1>10, <1>11 DEF N

\* FIO_BitGetIntUnsigned and FIO_BitGetIntSigned give numbers of that many bits.
LEMMA UnsignedReads ==
    ASSUME NEW data \in Seq(Int), NEW r \in Readers, NEW n \in Nat
    PROVE  LET got == Unsigned(data, r, n) IN
           got.r \in Readers /\ got.eof \in BOOLEAN /\ got.x \in 0..Pow2[n] - 1
  <1>1. Unsigned(data, r, n) \in Reads(n)
    BY GetbitsReads DEF Unsigned
  <1>2. ASSUME NEW s \in Reads(n) PROVE s.r \in Readers /\ s.eof \in BOOLEAN /\ s.x \in 0..Pow2[n] - 1
    <2>1. s.r \in Readers /\ s.eof \in BOOLEAN /\ s.x \in Nat /\ s.left \in Nat /\ s.x <= Pow2[n] - Pow2[s.left]
      BY DEF Reads
    <2> QED BY <2>1, Pow2Larger
  <1> QED BY <1>1, <1>2

LEMMA SignedReads ==
    ASSUME NEW data \in Seq(Int), NEW r \in Readers, NEW n \in Nat \ {0}
    PROVE  LET got == Signed(data, r, n) IN
           got.r \in Readers /\ got.eof \in BOOLEAN /\ got.x \in -Pow2[n - 1]..Pow2[n - 1] - 1
  <1>1. PICK got \in Reads(n) : got = getbits(data, r, n)
    BY GetbitsReads
  <1>2. /\ got.r \in Readers /\ got.eof \in BOOLEAN /\ got.x \in 0..Pow2[n] - 1
        /\ got = [r |-> got.r, x |-> got.x, left |-> got.left, eof |-> got.eof]
    <2>1. /\ got.r \in Readers /\ got.eof \in BOOLEAN /\ got.x \in Nat /\ got.left \in Nat
          /\ got.x <= Pow2[n] - Pow2[got.left]
          /\ got = [r |-> got.r, x |-> got.x, left |-> got.left, eof |-> got.eof]
      BY DEF Reads
    <2> QED BY <2>1, Pow2Larger
  <1> DEFINE y == IF got.x >= Pow2[n - 1] THEN got.x - Pow2[n] ELSE got.x
  <1>3. Signed(data, r, n) = [r |-> got.r, x |-> y, left |-> got.left, eof |-> got.eof]
    BY <1>1, <1>2 DEF Signed
  <1>4. Pow2[n] = 2 * Pow2[n - 1] /\ Pow2[n - 1] \in Nat
    BY Pow2Down, Pow2Larger
  <1>5. y \in -Pow2[n - 1]..Pow2[n - 1] - 1
    BY <1>2, <1>4
  <1> QED BY <1>2, <1>3, <1>5

\* A reader at a bit, not the first, of the data.
LEMMA ReaderAtReads ==
    ASSUME NEW data \in Seq(Int), NEW i \in 0..Len(data) * 8
    PROVE  ReaderAt(data, i) \in Readers
  <1>1. (i + 7) \div 8 \in 0..Len(data) /\ (8 - (i % 8)) % 8 \in 0..7
    OBVIOUS
  <1>2. i = 0 => (8 - (i % 8)) % 8 = 0
    OBVIOUS
  <1>3. i # 0 => (i + 7) \div 8 \in 1..Len(data)
    BY <1>1
  <1>4. (IF i = 0 THEN 0 ELSE data[(i + 7) \div 8]) \in Int
    BY <1>3
  <1> QED BY <1>1, <1>2, <1>3, <1>4 DEF ReaderAt, Readers
------------------------------------------------------------------------------
(* What is known of a header.                                              *)

\* Filters and probability tables.
Kinds == {"F", "P"}

\* The bits of a channel up to the end of segment n.
Bits(r, lens, n) == LET bits[i \in 0..n] == IF i = 0 THEN 0 ELSE bits[i - 1] + r * 8 * lens[i] IN bits[n]

\* The first n segments of a channel are long enough and leave room for the last.
Fit(k, r, lens, n) ==
    /\ n > 0 => r >= 1 /\ Bits(r, lens, n) <= NrOfBitsPerCh - MinSegLen(k)
    /\ \A i \in 1..n : r * 8 * lens[i] >= MinSegLen(k)

SegmentsFit(k, r, lens) == Len(lens) \in 1..MAXNROF_SEGS /\ Fit(k, r, lens, Len(lens) - 1)

\* Every segment of a channel has the number of one of the first count tables.
NumbersFit(numbers, count) == \A i \in 1..Len(numbers) : numbers[i] < count
ChannelMapped(seg, c, count) ==
    Len(seg.Table4Segment[c]) = Len(seg.SegmentLen[c]) /\ NumbersFit(seg.Table4Segment[c], count)
Mapped(seg) == /\ seg.NrOfTables \in 1..MaxNrOfTables
               /\ \A c \in Channels : ChannelMapped(seg, c, seg.NrOfTables)

\* What an entry of a table may be.
EntryRange(k) == IF k = "F" THEN -Pow2[SIZE_PREDCOEF - 1]..Pow2[SIZE_PREDCOEF - 1] - 1 ELSE 1..Pow2[AC_BITS - 1]
InRange(k, entries) == entries \in Seq(Int) /\ \A i \in 1..Len(entries) : entries[i] \in EntryRange(k)
TableFits(k, table) == Len(table) \in 1..Allocated[k].entries /\ InRange(k, table)
Done(h, k) == IF k = "F" THEN h.filters ELSE h.ptables

\* What the header holds, whatever is read.
SegmentType == [Resolution : Nat, NrOfTables : Nat, SegmentLen : [Channels -> Seq(Nat)],
                Table4Segment : [Channels -> Seq(Nat)]]
HeaderType == [DSTCoded : Nat, PSameSegAsF : Nat, PSameMapAsF : Nat, F : SegmentType, P : SegmentType,
               filters : Seq(Seq(Int)), ptables : Seq(Seq(Int)), HalfProb : {<<>>} \cup [Channels -> Nat],
               data : Seq(Int)]

\* How far the header has been read, by what is read next.
AllTablesRead == {"data", "decode", "bits"}
FiltersRead == {"ptables", "entries P"} \cup AllTablesRead
BothMapped == {"half", "filters", "entries F"} \cup FiltersRead
FiltersMapped == {"copy tables", "tables P", "table P"} \cup BothMapped
BothSegmented == {"mapping", "tables F", "table F"} \cup FiltersMapped
FiltersSegmented == {"copy segments", "segments P", "segment P"} \cup BothSegmented

HeaderOK(h, p) ==
    /\ p \in FiltersSegmented => \A c \in Channels : SegmentsFit("F", h.F.Resolution, h.F.SegmentLen[c])
    /\ p \in BothSegmented => \A c \in Channels : SegmentsFit("P", h.P.Resolution, h.P.SegmentLen[c])
    /\ p \in FiltersMapped => Mapped(h.F)
    /\ p \in BothMapped => Mapped(h.P)
    /\ p \in FiltersRead => Len(h.filters) = h.F.NrOfTables
    /\ p \in AllTablesRead => Len(h.ptables) = h.P.NrOfTables
    /\ \A k \in Kinds : \A t \in 1..Len(Done(h, k)) : TableFits(k, Done(h, k)[t])

\* The loops over segments, table numbers and entries.
InSegments(h, a, k) ==
    /\ a \in [ch : Channels, same : BOOLEAN, resolution : Nat, lens : Seq(Nat), DefinedBits : Nat, MaxSegSize : Nat]
    /\ a.DefinedBits = Bits(a.resolution, a.lens, Len(a.lens))
    /\ a.DefinedBits = 8 * (Room(k) - a.MaxSegSize)
    /\ Fit(k, a.resolution, a.lens, Len(a.lens)) /\ Len(a.lens) <= MaxNrOfSegs(k)
    /\ \A c \in Channels : c < a.ch => SegmentsFit(k, a.resolution, h[k].SegmentLen[c])
InNumbers(h, a, k) ==
    /\ a \in [ch : Channels, same : BOOLEAN, tables : Seq(Nat), CountTables : Nat \ {0}]
    /\ a.same => a.ch = 0
    /\ Len(a.tables) <= Len(h[k].SegmentLen[a.ch]) /\ NumbersFit(a.tables, a.CountTables)
    /\ \A c \in Channels : c < a.ch => ChannelMapped(h[k], c, a.CountTables)
Methods(k) == IF k = "F" THEN FilterMethods ELSE PtableMethods
InEntries(a, k) ==
    /\ a \in [len : Nat, plain : Nat, method : 0..3, m : Nat \cup {-1}, entries : Seq(Int)]
    /\ a.len \in 1..Allocated[k].entries /\ a.plain <= a.len /\ Len(a.entries) <= a.len
    /\ InRange(k, a.entries)
    /\ a.plain = IF a.method = 0 THEN a.len ELSE Len(Methods(k)[a.method])
    /\ a.m # -1 => a.method # 0 /\ a.plain <= Len(a.entries)

\* The only way out of the rows of the segments.
RowsAreFull(a) == a.same /\ Len(a.lens) = MAXNROF_SEGS /\ MAXNROF_SEGS \in {MAXNROF_FSEGS, MAXNROF_PSEGS}

LoopsOK(h, a, p) ==
    /\ \A k \in Kinds : /\ p = AtSegment(k) => InSegments(h, a, k)
                        /\ p = AtTable(k) => InNumbers(h, a, k)
                        /\ p = AtEntries(k) => InEntries(a, k)
    /\ p = "overrun" => RowsAreFull(a)

\* The inductive invariant of the unpacking: the readers are in the frame, what was
\* read of the header is right, and the loop that runs has kept its counters right.
UnpackInv == /\ bytes \in Seq(Int) /\ S \in Readers /\ FH \in HeaderType
             /\ error # "NoError" => pc \in {"failed", "done"}
             /\ HeaderOK(FH, pc) /\ LoopsOK(FH, at, pc)
------------------------------------------------------------------------------
\* The constants.
LEMMA Sizes ==
    /\ NrOfChannels \in Nat \ {0} /\ MaxFrameLen \in Nat \ {0} /\ SIZE_CODEDPREDORDER \in Nat \ {0}
    /\ SIZE_PREDCOEF \in Nat \ {0} /\ AC_BITS \in Nat \ {0} /\ AC_HISBITS \in 1..SIZE_PREDCOEF
    /\ SIZE_RICEMETHOD \in Nat \ {0} /\ SIZE_RICEM \in Nat \ {0}
    /\ NrOfBitsPerCh \in Nat /\ NrOfBitsPerCh = 8 * MaxFrameLen
    /\ 0 \in Channels /\ NrOfChannels - 1 \in Channels
  BY UnpackAssumption DEF NrOfBitsPerCh, Channels

\* The rows of segments, and how many segments may be coded.
LEMMA Rows ==
    ASSUME NEW k \in Kinds
    PROVE  /\ MAXNROF_SEGS \in Nat \ {0} /\ MaxNrOfSegs(k) \in Nat \ {0} /\ MaxNrOfSegs(k) <= MAXNROF_SEGS
           /\ MaxNrOfSegs(k) \in {MAXNROF_FSEGS, MAXNROF_PSEGS}
  BY UnpackAssumption DEF MaxNrOfSegs, Kinds

\* How much room there is for a segment.
LEMMA Rooms ==
    ASSUME NEW k \in Kinds
    PROVE  /\ MinSegLen(k) \in Nat /\ MinSegLen(k) <= NrOfBitsPerCh
           /\ Room(k) \in Nat /\ 8 * Room(k) >= NrOfBitsPerCh - MinSegLen(k)
  <1>1. MinSegLen(k) \in Nat /\ MinSegLen(k) <= MaxFrameLen * 8 /\ MaxFrameLen \in Nat
    BY UnpackAssumption DEF MinSegLen, Kinds
  <1>2. PICK m \in Nat : m = MinSegLen(k)
    BY <1>1
  <1>3. m \div 8 \in Nat /\ 8 * (m \div 8) <= m /\ m \div 8 <= MaxFrameLen
    BY <1>1, <1>2
  <1>4. Room(k) = MaxFrameLen - m \div 8
    BY <1>2 DEF Room
  <1> QED BY <1>1, <1>2, <1>3, <1>4, Sizes

\* The sums are loops.
Sums(b, r, lens, n) == b[0] = 0 /\ \A i \in 1..n : b[i] = b[i - 1] + r * 8 * lens[i]

LEMMA BitsLoop ==
    ASSUME NEW r \in Nat, NEW lens \in Seq(Nat), NEW n \in Nat, n <= Len(lens)
    PROVE  /\ \E b : Bits(r, lens, n) = b[n] /\ Sums(b, r, lens, n)
           /\ Bits(r, lens, n) \in Nat
  <1> DEFINE F == [i \in Nat |-> [x \in Nat |-> IF i \in 1..Len(lens) THEN x + r * 8 * lens[i] ELSE x]]
  <1>1. F \in [Nat -> [Nat -> Nat]] /\ 0 \in Nat
    <2>1. ASSUME NEW i \in 1..Len(lens) PROVE r * 8 * lens[i] \in Nat
      <3>1. PICK l \in Nat : l = lens[i]
        OBVIOUS
      <3> QED BY <3>1
    <2>2. ASSUME NEW i \in Nat, NEW x \in Nat
          PROVE (IF i \in 1..Len(lens) THEN x + r * 8 * lens[i] ELSE x) \in Nat
      BY <2>1
    <2> QED BY <2>2
  <1> HIDE DEF F
  <1>2. PICK f \in [0..n -> Nat] : IsLoop(f, 0, F, 0..n)
    BY <1>1, Loop
  <1>3. ASSUME NEW i \in 0..n
        PROVE  (IF i = 0 THEN 0 ELSE F[i][f[i - 1]]) = IF i = 0 THEN 0 ELSE f[i - 1] + r * 8 * lens[i]
    <2>1. ASSUME i # 0 PROVE i \in Nat /\ i \in 1..Len(lens) /\ f[i - 1] \in Nat
      BY <2>1
    <2> QED BY <2>1 DEF F
  <1>4. f = [i \in 0..n |-> IF i = 0 THEN 0 ELSE f[i - 1] + r * 8 * lens[i]]
    BY <1>2, <1>3 DEF IsLoop
  <1> DEFINE b == CHOOSE b : b = [i \in 0..n |-> IF i = 0 THEN 0 ELSE b[i - 1] + r * 8 * lens[i]]
  <1>5. b = [i \in 0..n |-> IF i = 0 THEN 0 ELSE b[i - 1] + r * 8 * lens[i]]
    BY <1>4
  <1>6. Bits(r, lens, n) = b[n]
    BY DEF Bits
  <1> HIDE DEF b
  <1>7. b[0] = 0 /\ \A i \in 1..n : b[i] = b[i - 1] + r * 8 * lens[i]
    BY <1>5
  <1> DEFINE N == {i \in Nat : i <= n => b[i] \in Nat}
  <1>8. 0 \in N
    BY <1>7
  <1>9. ASSUME NEW i \in Nat, i \in N PROVE i + 1 \in N
    <2>1. SUFFICES ASSUME i + 1 <= n PROVE b[i + 1] \in Nat
      OBVIOUS
    <2>2. b[i + 1] = b[i] + r * 8 * lens[i + 1] /\ b[i] \in Nat
      <3>1. i + 1 \in 1..n /\ (i + 1) - 1 = i
        BY <2>1
      <3>2. b[i + 1] = b[(i + 1) - 1] + r * 8 * lens[i + 1]
        BY <3>1, <1>7
      <3> QED BY <3>1, <3>2, <1>9, <2>1
    <2>3. PICK l \in Nat : l = lens[i + 1]
      BY <2>1
    <2>4. PICK p \in Nat : p = r * 8 * l
      OBVIOUS
    <2> QED BY <2>2, <2>3, <2>4
  <1> HIDE DEF N
  <1>10. Nat \subseteq N
    BY <1>8, <1>9, Induct
  <1> QED BY <1>6, <1>7, <1>10 DEF N, Sums

\* Two lists of segments with the same beginning have the same sums over it.
SumBoth(b, r, lens, n, lens2, m) ==
    Bits(r, lens, n) = b[n] /\ Bits(r, lens2, m) = b[m] /\ Sums(b, r, lens2, m)

LEMMA BitsSame ==
    ASSUME NEW r \in Nat, NEW lens \in Seq(Nat), NEW lens2 \in Seq(Nat), NEW n \in Nat, NEW m \in Nat,
           n <= Len(lens), m <= Len(lens2), n <= m, \A i \in 1..n : lens[i] = lens2[i]
    PROVE  \E b : SumBoth(b, r, lens, n, lens2, m)
  <1>1. PICK a : Bits(r, lens, n) = a[n] /\ Sums(a, r, lens, n)
    BY BitsLoop
  <1>2. PICK b : Bits(r, lens2, m) = b[m] /\ Sums(b, r, lens2, m)
    BY BitsLoop
  <1> DEFINE N == {i \in Nat : i <= n => a[i] = b[i]}
  <1>3. 0 \in N
    BY <1>1, <1>2 DEF Sums
  <1>4. ASSUME NEW i \in Nat, i \in N PROVE i + 1 \in N
    <2>1. SUFFICES ASSUME i + 1 <= n PROVE a[i + 1] = b[i + 1]
      OBVIOUS
    <2>2. i + 1 \in 1..n /\ i + 1 \in 1..m /\ (i + 1) - 1 = i /\ a[i] = b[i] /\ lens[i + 1] = lens2[i + 1]
      <3>1. i + 1 \in 1..n /\ i + 1 \in 1..m /\ (i + 1) - 1 = i /\ i <= n
        BY <2>1
      <3>2. a[i] = b[i]
        BY <1>4, <3>1
      <3>3. lens[i + 1] = lens2[i + 1]
        BY <3>1
      <3> QED BY <3>1, <3>2, <3>3
    <2>3. /\ a[i + 1] = a[(i + 1) - 1] + r * 8 * lens[i + 1]
          /\ b[i + 1] = b[(i + 1) - 1] + r * 8 * lens2[i + 1]
      BY <2>2, <1>1, <1>2 DEF Sums
    <2> QED BY <2>2, <2>3
  <1> HIDE DEF N
  <1>5. Nat \subseteq N
    BY <1>3, <1>4, Induct
  <1>6. a[n] = b[n]
    BY <1>5 DEF N
  <1> QED BY <1>1, <1>2, <1>6 DEF SumBoth

\* The bits of no segment, and of one more.
LEMMA BitsOfNone ==
    ASSUME NEW r \in Nat, NEW lens \in Seq(Nat)
    PROVE  Bits(r, lens, 0) = 0
  <1>1. 0 \in Nat /\ 0 <= Len(lens)
    OBVIOUS
  <1>2. PICK b : Bits(r, lens, 0) = b[0] /\ Sums(b, r, lens, 0)
    BY <1>1, BitsLoop
  <1> QED BY <1>2 DEF Sums

LEMMA BitsAppend ==
    ASSUME NEW r \in Nat, NEW lens \in Seq(Nat), NEW l \in Nat
    PROVE  /\ Bits(r, Append(lens, l), Len(lens)) = Bits(r, lens, Len(lens))
           /\ Bits(r, Append(lens, l), Len(lens) + 1) = Bits(r, lens, Len(lens)) + r * 8 * l
           /\ Bits(r, lens, Len(lens)) \in Nat
  <1>1. PICK longer \in Seq(Nat) : longer = Append(lens, l)
    BY AppendProperties
  <1>2. /\ Len(longer) = Len(lens) + 1 /\ Len(lens) \in Nat /\ longer[Len(lens) + 1] = l
        /\ \A i \in 1..Len(lens) : lens[i] = longer[i]
    BY <1>1
  <1>3. PICK n \in Nat : n = Len(lens)
    BY <1>2
  <1>4. /\ n <= Len(lens) /\ n <= Len(longer) /\ n + 1 <= Len(longer) /\ n <= n + 1 /\ n + 1 \in Nat
        /\ \A i \in 1..n : lens[i] = longer[i]
    BY <1>2, <1>3
  <1>5. Bits(r, lens, n) = Bits(r, longer, n)
    BY <1>4, BitsSame DEF SumBoth
  <1>6. PICK b : Bits(r, lens, n) = b[n] /\ Bits(r, longer, n + 1) = b[n + 1] /\ Sums(b, r, longer, n + 1)
    <2>1. PICK m \in Nat : m = n + 1 /\ m <= Len(longer) /\ n <= m
      BY <1>4
    <2>2. \E b : SumBoth(b, r, lens, n, longer, m)
      BY <1>4, <2>1, BitsSame
    <2> QED BY <2>1, <2>2 DEF SumBoth
  <1>7. b[n + 1] = b[n] + r * 8 * l
    <2>1. n + 1 \in 1..n + 1 /\ (n + 1) - 1 = n
      OBVIOUS
    <2>2. b[n + 1] = b[(n + 1) - 1] + r * 8 * longer[n + 1]
      BY <2>1, <1>6 DEF Sums
    <2> QED BY <2>1, <2>2, <1>2, <1>3
  <1>8. Bits(r, lens, n) \in Nat
    BY <1>4, BitsLoop
  <1> QED BY <1>1, <1>3, <1>5, <1>6, <1>7, <1>8

\* As long as no channel has more than one segment the resolution does not matter.
LEMMA FitsAnyway ==
    ASSUME NEW k, NEW lens, NEW r, NEW n \in Nat, Fit(k, 0, lens, n)
    PROVE  Fit(k, r, lens, n)
  BY DEF Fit

LEMMA SegmentsFitAnyway ==
    ASSUME NEW k, NEW lens \in Seq(Nat), NEW r, SegmentsFit(k, 0, lens)
    PROVE  SegmentsFit(k, r, lens)
  BY FitsAnyway DEF SegmentsFit

\* The last segment has length 0 in the header.
LEMMA LastSegment ==
    ASSUME NEW k \in Kinds, NEW r \in Nat, NEW lens \in Seq(Nat), Fit(k, r, lens, Len(lens)),
           Len(lens) < MAXNROF_SEGS
    PROVE  SegmentsFit(k, r, Append(lens, 0)) /\ Append(lens, 0) \in Seq(Nat)
  <1>1. PICK longer \in Seq(Nat) : longer = Append(lens, 0)
    BY AppendProperties
  <1>2. Len(longer) - 1 = Len(lens) /\ \A i \in 1..Len(lens) : longer[i] = lens[i]
    BY <1>1
  <1>3. Bits(r, longer, Len(lens)) = Bits(r, lens, Len(lens))
    BY <1>1, BitsAppend
  <1>4. Len(longer) \in 1..MAXNROF_SEGS
    <2>1. PICK m \in Nat : m = MAXNROF_SEGS
      BY Rows
    <2> QED BY <1>1, <1>2, <2>1
  <1> QED BY <1>1, <1>2, <1>3, <1>4 DEF SegmentsFit, Fit

\* A segment that passes the two comparisons of ReadTableSegmentData.
LEMMA OneMoreSegment ==
    ASSUME NEW k \in Kinds, NEW r \in Nat, NEW lens \in Seq(Nat), Fit(k, r, lens, Len(lens)), NEW l \in Nat,
           r >= 1, r * 8 * l >= MinSegLen(k), r * 8 * l <= NrOfBitsPerCh - Bits(r, lens, Len(lens)) - MinSegLen(k)
    PROVE  LET longer == Append(lens, l) IN
           /\ longer \in Seq(Nat) /\ Fit(k, r, longer, Len(longer))
           /\ Bits(r, longer, Len(longer)) = Bits(r, lens, Len(lens)) + r * 8 * l
  <1>1. PICK longer \in Seq(Nat) : longer = Append(lens, l)
    BY AppendProperties
  <1>2. /\ Len(longer) = Len(lens) + 1 /\ Len(lens) \in Nat /\ longer[Len(lens) + 1] = l
        /\ \A i \in 1..Len(lens) : longer[i] = lens[i]
    BY <1>1
  <1>3. /\ Bits(r, longer, Len(lens) + 1) = Bits(r, lens, Len(lens)) + r * 8 * l
        /\ Bits(r, lens, Len(lens)) \in Nat
    BY <1>1, BitsAppend
  <1>4. r * 8 * l \in Nat /\ MinSegLen(k) \in Nat /\ NrOfBitsPerCh \in Nat
    BY Rooms, Sizes
  <1>5. ASSUME NEW i \in 1..Len(lens) + 1 PROVE r * 8 * longer[i] >= MinSegLen(k)
    <2>1. CASE i \in 1..Len(lens)
      BY <2>1, <1>2 DEF Fit
    <2>2. CASE i = Len(lens) + 1
      BY <2>2, <1>2
    <2> QED BY <2>1, <2>2, <1>2
  <1>6. Bits(r, longer, Len(lens) + 1) <= NrOfBitsPerCh - MinSegLen(k)
    BY <1>3, <1>4
  <1> QED BY <1>1, <1>2, <1>3, <1>5, <1>6 DEF Fit

\* The segments of filters are right for probability tables.
LEMMA RightForBoth ==
    ASSUME NEW r \in Nat, NEW lens \in Seq(Nat), SegmentsFit("F", r, lens)
    PROVE  SegmentsFit("P", r, lens)
  <1>1. MinSegLen("P") <= MinSegLen("F") /\ MinSegLen("P") \in Nat /\ MinSegLen("F") \in Nat
    BY UnpackAssumption DEF MinSegLen
  <1>2. PICK n \in Nat : n = Len(lens) - 1 /\ n <= Len(lens)
    BY DEF SegmentsFit
  <1>3. \A i \in 1..n : r * 8 * lens[i] \in Nat
    <2> TAKE i \in 1..n
    <2>1. PICK l \in Nat : l = lens[i]
      BY <1>2
    <2> QED BY <2>1
  <1>4. Bits(r, lens, n) \in Nat
    BY <1>2, BitsLoop
  <1>5. \A i \in 1..n : r * 8 * lens[i] >= MinSegLen("P")
    <2> TAKE i \in 1..n
    <2>1. PICK p \in Nat : p = r * 8 * lens[i]
      BY <1>3
    <2>2. p >= MinSegLen("F")
      BY <2>1, <1>2 DEF SegmentsFit, Fit
    <2> QED BY <2>1, <2>2, <1>1
  <1>6. ASSUME n > 0 PROVE r >= 1 /\ Bits(r, lens, n) <= NrOfBitsPerCh - MinSegLen("P")
    <2>1. r >= 1 /\ Bits(r, lens, n) <= NrOfBitsPerCh - MinSegLen("F")
      BY <1>6, <1>2 DEF SegmentsFit, Fit
    <2> QED BY <2>1, <1>1, <1>4, Sizes
  <1> QED BY <1>2, <1>5, <1>6 DEF SegmentsFit, Fit
------------------------------------------------------------------------------
(* The segments are read.                                                  *)

\* A frame that is refused, or whose bytes ran out, keeps what is known of it.
LEMMA FailKeeps ==
    ASSUME UnpackInv, NEW e, Fail(e)
    PROVE  UnpackInv'
  <1>1. ASSUME NEW k \in Kinds PROVE "failed" \notin {AtSegment(k), AtTable(k), AtEntries(k)}
    BY DEF AtSegment, AtTable, AtEntries
  <1>2. HeaderOK(FH, "failed")
    BY DEF UnpackInv, HeaderOK, FiltersSegmented, BothSegmented, FiltersMapped, BothMapped, FiltersRead, AllTablesRead
  <1>3. LoopsOK(FH, at, "failed")
    BY <1>1 DEF LoopsOK
  <1> QED BY <1>2, <1>3 DEF UnpackInv, Fail

LEMMA UndefinedKeeps ==
    ASSUME UnpackInv, Undefined, pc \notin {"failed", "done"}
    PROVE  UnpackInv'
  <1>1. ASSUME NEW k \in Kinds PROVE "undefined" \notin {AtSegment(k), AtTable(k), AtEntries(k)}
    BY DEF AtSegment, AtTable, AtEntries
  <1>2. HeaderOK(FH, "undefined")
    BY DEF UnpackInv, HeaderOK, FiltersSegmented, BothSegmented, FiltersMapped, BothMapped, FiltersRead, AllTablesRead
  <1>3. LoopsOK(FH, at, "undefined")
    BY <1>1 DEF LoopsOK
  <1> QED BY <1>2, <1>3 DEF UnpackInv, Undefined

\* Where the loops do not run there is nothing to know of their counters.
LEMMA NoLoop ==
    ASSUME NEW h, NEW a, NEW p,
           p \in {"header", "dsd", "plain", "segments F", "segments P", "copy segments", "mapping", "tables F", "tables P",
                  "copy tables", "half", "filters", "ptables", "data", "decode", "bits", "failed", "done", "undefined"}
    PROVE  LoopsOK(h, a, p)
  BY DEF LoopsOK, AtSegment, AtTable, AtEntries

\* Where a loop runs, its own counters are all there is to know.
LEMMA InLoop ==
    ASSUME NEW h, NEW a, NEW p, NEW k \in Kinds
    PROVE  /\ p = AtSegment(k) /\ InSegments(h, a, k) => LoopsOK(h, a, p)
           /\ p = AtTable(k) /\ InNumbers(h, a, k) => LoopsOK(h, a, p)
           /\ p = AtEntries(k) /\ InEntries(a, k) => LoopsOK(h, a, p)
  <1>1. ASSUME NEW j \in Kinds
        PROVE  /\ AtSegment(k) = AtSegment(j) => k = j
               /\ AtTable(k) = AtTable(j) => k = j
               /\ AtEntries(k) = AtEntries(j) => k = j
               /\ AtSegment(k) # AtTable(j) /\ AtSegment(k) # AtEntries(j) /\ AtTable(k) # AtEntries(j)
    BY DEF AtSegment, AtTable, AtEntries, Kinds
  <1>5. "overrun" \notin {AtSegment(k), AtTable(k), AtEntries(k)}
    BY DEF AtSegment, AtTable, AtEntries
  <1>2. ASSUME p = AtSegment(k), InSegments(h, a, k) PROVE LoopsOK(h, a, p)
    BY <1>1, <1>2, <1>5 DEF LoopsOK
  <1>3. ASSUME p = AtTable(k), InNumbers(h, a, k) PROVE LoopsOK(h, a, p)
    <2> SUFFICES ASSUME NEW j \in Kinds
                 PROVE  p # AtSegment(j) /\ (p = AtTable(j) => j = k) /\ p # AtEntries(j)
      BY <1>3, <1>5 DEF LoopsOK
    <2> QED BY <1>3 DEF AtSegment, AtTable, AtEntries, Kinds
  <1>4. ASSUME p = AtEntries(k), InEntries(a, k) PROVE LoopsOK(h, a, p)
    <2> SUFFICES ASSUME NEW j \in Kinds
                 PROVE  p # AtSegment(j) /\ p # AtTable(j) /\ (p = AtEntries(j) => j = k)
      BY <1>4, <1>5 DEF LoopsOK
    <2> QED BY <1>4 DEF AtSegment, AtTable, AtEntries, Kinds
  <1> QED BY <1>2, <1>3, <1>4

\* What is known of the header does not go away while nothing of it changes.
LEMMA SameHeader ==
    ASSUME NEW h, NEW p, NEW q, HeaderOK(h, p),
           q \in FiltersSegmented => p \in FiltersSegmented, q \in BothSegmented => p \in BothSegmented,
           q \in FiltersMapped => p \in FiltersMapped, q \in BothMapped => p \in BothMapped,
           q \in FiltersRead => p \in FiltersRead, q \in AllTablesRead => p \in AllTablesRead
    PROVE  HeaderOK(h, q)
  BY DEF HeaderOK

\* What a step reads.
LEMMA OneBit ==
    ASSUME UnpackInv, NEW r \in Readers, NEW n \in Nat
    PROVE  LET got == Unsigned(bytes, r, n) IN
           got.r \in Readers /\ got.eof \in BOOLEAN /\ got.x \in Nat /\ got.x \in 0..Pow2[n] - 1
  <1>1. bytes \in Seq(Int)
    BY DEF UnpackInv
  <1>2. LET got == Unsigned(bytes, r, n) IN got.r \in Readers /\ got.eof \in BOOLEAN /\ got.x \in 0..Pow2[n] - 1
    BY <1>1, UnsignedReads
  <1> QED BY <1>2, Pow2Larger

\* UnpackDSTframe: the bit that says whether the frame is coded.
LEMMA HeaderByteKeeps == UnpackInv /\ ReadHeaderByte => UnpackInv'
  <1> SUFFICES ASSUME UnpackInv, ReadHeaderByte PROVE UnpackInv'
    OBVIOUS
  <1> DEFINE coded == Unsigned(bytes, S, 1)
             stuffing == Unsigned(bytes, coded.r, 7)
             same == Unsigned(bytes, coded.r, 1)
  <1>1. pc = "header" /\ S \in Readers /\ FH \in HeaderType /\ bytes \in Seq(Int) /\ error = "NoError" /\ HeaderOK(FH, pc)
    BY DEF ReadHeaderByte, UnpackInv
  <1>2. coded.r \in Readers
    BY <1>1, OneBit
  <1>3. stuffing.r \in Readers /\ same.r \in Readers /\ same.x \in Nat
    BY <1>2, OneBit
  <1>4. \/ \E e : Fail(e)
        \/ Go("dsd", stuffing.r) /\ UNCHANGED <<FH, at>>
        \/ /\ FH' = [FH EXCEPT !.DSTCoded = 1, !.PSameSegAsF = same.x]
           /\ Go("segments F", same.r) /\ UNCHANGED at
    BY DEF ReadHeaderByte
  <1> HIDE DEF coded, stuffing, same
  <1>5. CASE \E e : Fail(e)
    BY <1>5, FailKeeps
  <1>6. CASE Go("dsd", stuffing.r) /\ UNCHANGED <<FH, at>>
    <2>1. HeaderOK(FH, "dsd")
      BY <1>1 DEF HeaderOK, FiltersSegmented, BothSegmented, FiltersMapped, BothMapped, FiltersRead, AllTablesRead
    <2> QED BY <1>1, <1>3, <1>6, <2>1, NoLoop DEF UnpackInv, Go
  <1>7. CASE /\ FH' = [FH EXCEPT !.DSTCoded = 1, !.PSameSegAsF = same.x]
             /\ Go("segments F", same.r) /\ UNCHANGED at
    <2>1. FH' \in HeaderType /\ FH'.filters = FH.filters /\ FH'.ptables = FH.ptables
      BY <1>1, <1>3, <1>7 DEF HeaderType
    <2>2. HeaderOK(FH', "segments F")
      BY <1>1, <2>1 DEF HeaderOK, Done, FiltersSegmented, BothSegmented, FiltersMapped, BothMapped, FiltersRead, AllTablesRead
    <2> QED BY <1>1, <1>3, <1>7, <2>1, <2>2, NoLoop DEF UnpackInv, Go
  <1> QED BY <1>4, <1>5, <1>6, <1>7

\* ReadDSDframe.
LEMMA DSDframeKeeps == UnpackInv /\ ReadDSDframe => UnpackInv'
  <1> SUFFICES ASSUME UnpackInv, ReadDSDframe PROVE UnpackInv'
    OBVIOUS
  <1> DEFINE size == MaxFrameLen * NrOfChannels
  <1>1. pc = "dsd" /\ S \in Readers /\ FH \in HeaderType /\ bytes \in Seq(Int) /\ error = "NoError" /\ HeaderOK(FH, pc)
    BY DEF ReadDSDframe, UnpackInv
  <1>2. CASE Undefined
    BY <1>1, <1>2, UndefinedKeeps
  <1>3. CASE /\ Len(bytes) >= S.ByteCounter + size
             /\ FH' = [FH EXCEPT !.data = SubSeq(bytes, S.ByteCounter + 1, S.ByteCounter + size)]
             /\ Go("plain", S) /\ UNCHANGED at
    <2>1. S.ByteCounter \in Nat /\ size \in Nat
      BY <1>1, Sizes DEF Readers
    <2> HIDE DEF size
    <2>2. SubSeq(bytes, S.ByteCounter + 1, S.ByteCounter + size) \in Seq(Int)
      BY <1>1, <1>3, <2>1
    <2>3. FH' \in HeaderType /\ FH'.filters = FH.filters /\ FH'.ptables = FH.ptables
      BY <1>1, <1>3, <2>2 DEF HeaderType
    <2>4. HeaderOK(FH', "plain")
      BY <1>1, <2>3 DEF HeaderOK, Done, FiltersSegmented, BothSegmented, FiltersMapped, BothMapped, FiltersRead, AllTablesRead
    <2> QED BY <1>1, <1>3, <2>3, <2>4, NoLoop DEF UnpackInv, Go
  <1>4. S.ByteCounter \in Nat /\ size \in Nat
    BY <1>1, Sizes DEF Readers
  <1> QED BY <1>1, <1>2, <1>3, <1>4 DEF ReadDSDframe

\* ReadTableSegmentData: one list of segments for all channels, or one each.
LEMMA SameSegAllChKeeps == \A k \in Kinds : UnpackInv /\ ReadSameSegAllCh(k) => UnpackInv'
  <1> SUFFICES ASSUME NEW k \in Kinds, UnpackInv, ReadSameSegAllCh(k) PROVE UnpackInv'
    OBVIOUS
  <1> DEFINE same == Unsigned(bytes, S, 1)
  <1>1. /\ pc = AtSegments(k) /\ S \in Readers /\ FH \in HeaderType /\ bytes \in Seq(Int) /\ error = "NoError"
        /\ HeaderOK(FH, pc)
    BY DEF ReadSameSegAllCh, UnpackInv, AtSegments
  <1>2. same.r \in Readers /\ same.x \in Nat
    BY <1>1, OneBit
  <1>3. CASE Fail("NegativeBitAllocation")
    BY <1>3, FailKeeps
  <1>4. CASE at' = Segmenting(k, 0, same.x = 1, 0) /\ Go(AtSegment(k), same.r) /\ UNCHANGED FH
    <2>1. HeaderOK(FH, AtSegment(k))
      <3> USE DEF AtSegment, AtSegments, FiltersSegmented, BothSegmented, FiltersMapped, BothMapped, FiltersRead, AllTablesRead
      <3>1. HeaderOK(FH, AtSegments(k))
        BY <1>1
      <3>2. CASE k = "F"
        <4>1. HeaderOK(FH, "segments F")
          BY <3>1, <3>2
        <4>2. HeaderOK(FH, "segment F")
          BY <4>1 DEF HeaderOK
        <4> QED BY <3>2, <4>2
      <3>3. CASE k = "P"
        <4>1. HeaderOK(FH, "segments P")
          BY <3>1, <3>3
        <4>2. HeaderOK(FH, "segment P")
          BY <4>1 DEF HeaderOK
        <4> QED BY <3>3, <4>2
      <3> QED BY <3>2, <3>3 DEF Kinds
    <2>2. InSegments(FH, Segmenting(k, 0, same.x = 1, 0), k)
      <3>1. Bits(0, <<>>, 0) = 0 /\ Len(<<>>) = 0 /\ <<>> \in Seq(Nat)
        <4>1. <<>> \in Seq(Nat) /\ 0 \in Nat /\ Len(<<>>) = 0
          OBVIOUS
        <4> QED BY <4>1, BitsOfNone
      <3>2. Fit(k, 0, <<>>, 0)
        BY DEF Fit
      <3>3. (same.x = 1) \in BOOLEAN
        OBVIOUS
      <3> HIDE DEF same
      <3>4. \A c \in Channels : ~(c < 0)
        BY DEF Channels
      <3>5. 0 <= MaxNrOfSegs(k)
        BY Rows
      <3> QED BY <3>1, <3>2, <3>3, <3>4, <3>5, Rooms, Sizes DEF InSegments, Segmenting
    <2>3. LoopsOK(FH, Segmenting(k, 0, same.x = 1, 0), AtSegment(k))
      BY <2>2, InLoop
    <2> QED BY <1>1, <1>2, <1>4, <2>1, <2>3 DEF UnpackInv, Go
  <1> QED BY <1>3, <1>4 DEF ReadSameSegAllCh

\* More segments than a channel may have are refused.
LEMMA TooManySegmentsKeeps == \A k \in Kinds : UnpackInv /\ TooManySegments(k) => UnpackInv'
  BY FailKeeps DEF TooManySegments

\* The resolution, with the first segment, and the length of a segment.
LEMMA NextSegmentKeeps == \A k \in Kinds : UnpackInv /\ NextSegment(k) => UnpackInv'
  <1> SUFFICES ASSUME NEW k \in Kinds, UnpackInv, NextSegment(k) PROVE UnpackInv'
    OBVIOUS
  <1> DEFINE end == Unsigned(bytes, S, 1)
             width == Log2RoundUp(Room(k))
             resol == IF at.resolution # 0 THEN [end EXCEPT !.x = at.resolution] ELSE Unsigned(bytes, end.r, width)
             size == Unsigned(bytes, resol.r, Log2RoundUp(at.MaxSegSize \div resol.x))
             bits == resol.x * 8 * size.x
  <1>1. /\ pc = AtSegment(k) /\ S \in Readers /\ FH \in HeaderType /\ bytes \in Seq(Int) /\ error = "NoError"
        /\ HeaderOK(FH, pc) /\ InSegments(FH, at, k)
    BY DEF NextSegment, UnpackInv, AtSegment, LoopsOK
  <1>2. \/ \E e : Fail(e)
        \/ /\ ~end.eof /\ ~resol.eof /\ resol.x \in 1..Room(k) /\ ~size.eof /\ Len(at.lens) < MaxNrOfSegs(k)
           /\ ~(bits < MinSegLen(k) \/ bits > NrOfBitsPerCh - at.DefinedBits - MinSegLen(k))
           /\ at' = [at EXCEPT !.resolution = resol.x, !.lens = Append(@, size.x),
                               !.DefinedBits = @ + bits, !.MaxSegSize = @ - bits \div 8]
           /\ Go(pc, size.r) /\ UNCHANGED FH
    BY DEF NextSegment
  <1>3. end.r \in Readers /\ end = [r |-> end.r, x |-> end.x, left |-> end.left, eof |-> end.eof]
    <2>1. end \in Reads(1)
      BY <1>1, GetbitsReads DEF Unsigned
    <2> HIDE DEF end
    <2> QED BY <2>1 DEF Reads
  <1>4. resol.r \in Readers
    <2>1. width \in Nat
      BY Rooms, Log2IsNat
    <2> HIDE DEF end, width
    <2>2. CASE at.resolution # 0
      BY <2>2, <1>3
    <2>3. CASE at.resolution = 0
      BY <2>1, <2>3, <1>3, OneBit
    <2> QED BY <2>2, <2>3
  <1>7. at.resolution # 0 => resol.x = at.resolution
    <2> HIDE DEF end
    <2> QED BY <1>3
  <1> HIDE DEF end, resol
  <1>5. CASE \E e : Fail(e)
    BY <1>5, FailKeeps
  <1>6. CASE /\ resol.x \in 1..Room(k) /\ Len(at.lens) < MaxNrOfSegs(k)
             /\ ~(bits < MinSegLen(k) \/ bits > NrOfBitsPerCh - at.DefinedBits - MinSegLen(k))
             /\ at' = [at EXCEPT !.resolution = resol.x, !.lens = Append(@, size.x),
                                 !.DefinedBits = @ + bits, !.MaxSegSize = @ - bits \div 8]
             /\ Go(pc, size.r) /\ UNCHANGED FH
    <2>1. PICK r \in Nat \ {0} : r = resol.x
      BY <1>6, Rooms
    <2>2. /\ at \in [ch : Channels, same : BOOLEAN, resolution : Nat, lens : Seq(Nat), DefinedBits : Nat, MaxSegSize : Nat]
          /\ at.DefinedBits = Bits(at.resolution, at.lens, Len(at.lens))
          /\ at.DefinedBits = 8 * (Room(k) - at.MaxSegSize)
          /\ Fit(k, at.resolution, at.lens, Len(at.lens))
          /\ \A c \in Channels : c < at.ch => SegmentsFit(k, at.resolution, FH[k].SegmentLen[c])
      BY <1>1 DEF InSegments
    <2>3. size.r \in Readers /\ size.x \in Nat
      <3>1. at.MaxSegSize \div r \in Nat
        BY <2>1, <2>2
      <3>2. Log2RoundUp(at.MaxSegSize \div r) \in Nat
        BY <3>1, Log2IsNat
      <3> QED BY <3>2, <2>1, <1>4, OneBit
    <2>4. PICK l \in Nat : l = size.x
      BY <2>3
    <2>5. bits = r * 8 * l
      BY <2>1, <2>4
    <2> HIDE DEF size
    <2>6. at' = [at EXCEPT !.resolution = r, !.lens = Append(@, l),
                           !.DefinedBits = @ + r * 8 * l, !.MaxSegSize = @ - (r * 8 * l) \div 8]
      BY <1>6, <2>1, <2>4
    <2> HIDE DEF bits
    <2>7. r * 8 * l >= MinSegLen(k) /\ r * 8 * l <= NrOfBitsPerCh - at.DefinedBits - MinSegLen(k)
      <3>1. PICK b \in Int : b = r * 8 * l
        OBVIOUS
      <3>2. at.DefinedBits \in Nat /\ NrOfBitsPerCh \in Nat /\ MinSegLen(k) \in Nat
        BY <2>2, Rooms, Sizes
      <3>3. ~(b < MinSegLen(k) \/ b > NrOfBitsPerCh - at.DefinedBits - MinSegLen(k))
        BY <3>1, <1>6, <2>5
      <3> QED BY <3>1, <3>2, <3>3
    <2>8. Fit(k, r, at.lens, Len(at.lens)) /\ Bits(r, at.lens, Len(at.lens)) = at.DefinedBits
      <3>1. CASE at.resolution # 0
        BY <3>1, <1>7, <2>1, <2>2
      <3>2. CASE at.resolution = 0
        <4>1. Len(at.lens) = 0
          BY <3>2, <2>2 DEF Fit
        <4>2. Fit(k, r, at.lens, 0) /\ Bits(r, at.lens, 0) = 0 /\ Bits(0, at.lens, 0) = 0
          <5>1. at.lens \in Seq(Nat) /\ Fit(k, 0, at.lens, 0)
            BY <3>2, <4>1, <2>2
          <5> QED BY <5>1, FitsAnyway, BitsOfNone
        <4> QED BY <3>2, <4>1, <4>2, <2>2
      <3> QED BY <3>1, <3>2
    <2>9. PICK longer \in Seq(Nat) : longer = Append(at.lens, l)
      BY <2>2, AppendProperties
    <2>10. Fit(k, r, longer, Len(longer)) /\ Bits(r, longer, Len(longer)) = at.DefinedBits + r * 8 * l
      BY <2>2, <2>7, <2>8, <2>9, OneMoreSegment
    <2>11. PICK p \in Nat : p = r * l
      OBVIOUS
    <2>12. r * 8 * l = 8 * p /\ (r * 8 * l) \div 8 = p
      BY <2>11
    <2>13. at.MaxSegSize - p \in Nat /\ at.DefinedBits + 8 * p = 8 * (Room(k) - (at.MaxSegSize - p))
      <3>1. PICK R \in Nat : R = Room(k)
        BY Rooms
      <3>2. PICK m \in Nat : m = MinSegLen(k)
        BY Rooms
      <3>3. PICK d \in Nat : d = at.DefinedBits
        BY <2>2
      <3>4. PICK M \in Nat : M = at.MaxSegSize
        BY <2>2
      <3>5. PICK n \in Nat : n = NrOfBitsPerCh
        BY Sizes
      <3>6. 8 * R >= n - m /\ d = 8 * (R - M) /\ 8 * p <= n - d - m
        BY <2>2, <2>7, <2>12, <3>1, <3>2, <3>3, <3>4, <3>5, Rooms
      <3>7. M - p \in Nat /\ d + 8 * p = 8 * (R - (M - p))
        BY <3>6
      <3> QED BY <3>1, <3>3, <3>4, <3>7
    <2>14. at' = [ch |-> at.ch, same |-> at.same, resolution |-> r, lens |-> longer,
                  DefinedBits |-> at.DefinedBits + 8 * p, MaxSegSize |-> at.MaxSegSize - p]
      BY <2>2, <2>6, <2>9, <2>12
    <2>15. ASSUME NEW c \in Channels, c < at.ch PROVE SegmentsFit(k, r, FH[k].SegmentLen[c])
      <3>1. SegmentsFit(k, at.resolution, FH[k].SegmentLen[c])
        BY <2>2, <2>15
      <3>2. FH[k].SegmentLen[c] \in Seq(Nat)
        BY <1>1 DEF HeaderType, SegmentType, Kinds
      <3> QED BY <3>1, <3>2, <1>7, <2>1, SegmentsFitAnyway
    <2>16. InSegments(FH, at', k)
      <3>1. at'.ch = at.ch /\ at'.resolution = r /\ at'.lens = longer /\ at'.DefinedBits = at.DefinedBits + 8 * p
            /\ at'.MaxSegSize = at.MaxSegSize - p
        BY <2>14
      <3>2. at' \in [ch : Channels, same : BOOLEAN, resolution : Nat, lens : Seq(Nat), DefinedBits : Nat, MaxSegSize : Nat]
        BY <2>2, <2>13, <2>14
      <3>3. Len(longer) <= MaxNrOfSegs(k)
        <4>1. PICK m \in Nat : m = MaxNrOfSegs(k)
          BY Rows
        <4>2. Len(longer) = Len(at.lens) + 1 /\ Len(at.lens) \in Nat
          BY <2>2, <2>9
        <4> QED BY <4>1, <4>2, <1>6
      <3> QED BY <3>1, <3>2, <3>3, <2>10, <2>12, <2>13, <2>15 DEF InSegments
    <2>17. LoopsOK(FH, at', AtSegment(k))
      BY <2>16, InLoop
    <2> QED BY <1>1, <1>6, <2>3, <2>17 DEF UnpackInv, Go
  <1> QED BY <1>2, <1>5, <1>6

\* The last segment of a channel, which gets what is left.
LEMMA EndOfSegmentsKeeps == \A k \in Kinds : UnpackInv /\ EndOfSegments(k) => UnpackInv'
  <1> SUFFICES ASSUME NEW k \in Kinds, UnpackInv, EndOfSegments(k) PROVE UnpackInv'
    OBVIOUS
  <1> DEFINE end == Unsigned(bytes, S, 1)
             last == at.same \/ at.ch = NrOfChannels - 1
             res == IF at.resolution = 0 THEN 1 ELSE at.resolution
             next == IF last THEN AfterSegments(k) ELSE AtSegment(k)
  <1>1. /\ pc = AtSegment(k) /\ S \in Readers /\ FH \in HeaderType /\ bytes \in Seq(Int) /\ error = "NoError"
        /\ HeaderOK(FH, AtSegment(k)) /\ InSegments(FH, at, k)
    BY DEF EndOfSegments, UnpackInv, AtSegment, LoopsOK
  <1>2. end.r \in Readers
    BY <1>1, OneBit
  <1>3. /\ at \in [ch : Channels, same : BOOLEAN, resolution : Nat, lens : Seq(Nat), DefinedBits : Nat, MaxSegSize : Nat]
        /\ Fit(k, at.resolution, at.lens, Len(at.lens))
        /\ \A c \in Channels : c < at.ch => SegmentsFit(k, at.resolution, FH[k].SegmentLen[c])
    BY <1>1 DEF InSegments
  <1>13. CASE Overrun
    <2>1. RowsAreFull(at)
      <3>1. Len(at.lens) >= MAXNROF_SEGS
        BY <1>13, <1>1 DEF EndOfSegments, Overrun, Go, AtSegment, AfterSegments
      <3>2. Len(at.lens) <= MaxNrOfSegs(k) /\ Len(at.lens) \in Nat
        BY <1>1 DEF InSegments
      <3>3. Len(at.lens) = MAXNROF_SEGS /\ MaxNrOfSegs(k) = MAXNROF_SEGS
        BY <3>1, <3>2, Rows
      <3>4. at.same
        BY <3>3, Rows DEF EndOfSegments
      <3> QED BY <3>3, <3>4, Rows DEF RowsAreFull
    <2>2. ASSUME NEW j \in Kinds PROVE "overrun" \notin {AtSegment(j), AtTable(j), AtEntries(j)}
      BY DEF AtSegment, AtTable, AtEntries
    <2>3. HeaderOK(FH, "overrun")
      BY <1>1 DEF HeaderOK, FiltersSegmented, BothSegmented, FiltersMapped, BothMapped, FiltersRead, AllTablesRead
    <2>4. LoopsOK(FH, at, "overrun")
      BY <2>1, <2>2 DEF LoopsOK
    <2> QED BY <1>1, <1>13, <2>3, <2>4 DEF UnpackInv, Overrun
  <1>14. SUFFICES ASSUME Len(at.lens) < MAXNROF_SEGS PROVE UnpackInv'
    <2>1. Len(at.lens) \in Nat /\ MAXNROF_SEGS \in Nat
      BY <1>3, Rows
    <2>2. Len(at.lens) >= MAXNROF_SEGS => Overrun
      BY DEF EndOfSegments
    <2> QED BY <1>13, <2>1, <2>2
  <1>15. ~(Len(at.lens) >= MAXNROF_SEGS)
    BY <1>3, <1>14, Rows
  <1>4. PICK lens \in Seq(Nat) : lens = Append(at.lens, 0) /\ SegmentsFit(k, at.resolution, lens)
    BY <1>3, <1>14, LastSegment
  <1>5. /\ FH' = [FH EXCEPT ![k].SegmentLen = [c \in Channels |-> IF c = at.ch \/ at.same THEN lens ELSE @[c]],
                            ![k].Resolution = res]
        /\ at' = IF last THEN <<>> ELSE Segmenting(k, at.ch + 1, FALSE, at.resolution)
        /\ Go(next, end.r)
    BY <1>1, <1>4, <1>15 DEF EndOfSegments
  <1> HIDE DEF end
  <1>6. /\ FH[k].SegmentLen \in [Channels -> Seq(Nat)]
        /\ [c \in Channels |-> IF c = at.ch \/ at.same THEN lens ELSE FH[k].SegmentLen[c]] \in [Channels -> Seq(Nat)]
        /\ res \in Nat
    <2>1. FH[k].SegmentLen \in [Channels -> Seq(Nat)]
      BY <1>1 DEF HeaderType, SegmentType, Kinds
    <2> QED BY <2>1, <1>3
  <1>7. /\ FH' \in HeaderType /\ FH'.filters = FH.filters /\ FH'.ptables = FH.ptables
        /\ FH'[k].SegmentLen = [c \in Channels |-> IF c = at.ch \/ at.same THEN lens ELSE FH[k].SegmentLen[c]]
        /\ FH'[k].Resolution = res
        /\ k = "P" => FH'.F = FH.F
    <2> HIDE DEF res
    <2> QED BY <1>1, <1>5, <1>6 DEF HeaderType, SegmentType, Kinds
  <1>8. ASSUME NEW c \in Channels, last \/ c <= at.ch
        PROVE  SegmentsFit(k, at.resolution, FH'[k].SegmentLen[c])
    <2>1. at.ch \in Int /\ c \in Int /\ c <= NrOfChannels - 1
      BY <1>3, Sizes DEF Channels
    <2>2. CASE c = at.ch \/ at.same
      BY <2>2, <1>4, <1>7
    <2>3. CASE ~(c = at.ch \/ at.same)
      <3>1. c < at.ch
        BY <2>1, <2>3, <1>8
      <3> QED BY <3>1, <2>3, <1>3, <1>7
    <2> QED BY <2>2, <2>3
  <1>9. ASSUME last, NEW c \in Channels
        PROVE  SegmentsFit(k, FH'[k].Resolution, FH'[k].SegmentLen[c])
    <2>1. SegmentsFit(k, at.resolution, FH'[k].SegmentLen[c]) /\ FH'[k].SegmentLen[c] \in Seq(Nat)
      BY <1>6, <1>7, <1>8, <1>9
    <2> QED BY <2>1, <1>7, SegmentsFitAnyway
  <1>10. \A j \in Kinds : Done(FH', j) = Done(FH, j)
    BY <1>7 DEF Done
  <1>11. HeaderOK(FH', next)
    <2> USE DEF AtSegment, AfterSegments, FiltersSegmented, BothSegmented, FiltersMapped, BothMapped, FiltersRead, AllTablesRead
    <2>1. CASE k = "F"
      <3>1. next \in {"segment F", "copy segments", "segments P"} /\ (next # "segment F" => last)
        BY <2>1
      <3>2. next # "segment F" => \A c \in Channels : SegmentsFit("F", FH'.F.Resolution, FH'.F.SegmentLen[c])
        BY <2>1, <3>1, <1>9
      <3> HIDE DEF next, last
      <3> QED BY <3>1, <3>2, <1>1, <1>10 DEF HeaderOK
    <2>2. CASE k = "P"
      <3>1. next \in {"segment P", "mapping"} /\ (next # "segment P" => last)
        BY <2>2
      <3>2. next # "segment P" => \A c \in Channels : SegmentsFit("P", FH'.P.Resolution, FH'.P.SegmentLen[c])
        BY <2>2, <3>1, <1>9
      <3>3. HeaderOK(FH, "segment P") /\ FH'.F = FH.F
        BY <1>1, <1>7, <2>2
      <3> HIDE DEF next, last
      <3> QED BY <3>1, <3>2, <3>3, <1>10 DEF HeaderOK
    <2> QED BY <2>1, <2>2 DEF Kinds
  <1>12. LoopsOK(FH', at', next)
    <2>1. CASE last
      <3>1. next \in {"copy segments", "segments P", "mapping"}
        BY <2>1 DEF AfterSegments, Kinds
      <3> QED BY <3>1, NoLoop
    <2>2. CASE ~last
      <3> DEFINE a == Segmenting(k, at.ch + 1, FALSE, at.resolution)
      <3>1. at' = a /\ next = AtSegment(k)
        BY <1>5, <2>2
      <3>2. at.ch + 1 \in Channels
        <4>1. PICK c \in Channels : c = at.ch
          BY <1>3
        <4>2. c # NrOfChannels - 1
          BY <2>2, <4>1
        <4>3. c + 1 \in Channels
          BY <4>2, Sizes DEF Channels
        <4> QED BY <4>1, <4>3
      <3>3. /\ a \in [ch : Channels, same : BOOLEAN, resolution : Nat, lens : Seq(Nat), DefinedBits : Nat, MaxSegSize : Nat]
            /\ a.ch = at.ch + 1 /\ a.resolution = at.resolution /\ a.lens = <<>> /\ Len(a.lens) = 0
            /\ a.DefinedBits = 0 /\ a.MaxSegSize = Room(k)
        BY <3>2, <1>3, Rooms DEF Segmenting
      <3> HIDE DEF a
      <3>4. Bits(at.resolution, <<>>, 0) = 0 /\ Fit(k, at.resolution, <<>>, 0)
        <4>1. <<>> \in Seq(Nat) /\ at.resolution \in Nat
          BY <1>3
        <4>2. Bits(at.resolution, <<>>, 0) = 0
          BY <4>1, BitsOfNone
        <4>3. \A i \in 1..0 : FALSE
          OBVIOUS
        <4> QED BY <4>2, <4>3 DEF Fit
      <3>5. ASSUME NEW c \in Channels, c < at.ch + 1 PROVE SegmentsFit(k, at.resolution, FH'[k].SegmentLen[c])
        <4>1. c <= at.ch
          BY <3>5, <1>3 DEF Channels
        <4> QED BY <4>1, <1>8
      <3>6. 0 = 8 * (Room(k) - Room(k))
        BY Rooms
      <3>8. 0 <= MaxNrOfSegs(k)
        BY Rows
      <3>7. InSegments(FH', a, k)
        BY <3>3, <3>4, <3>5, <3>6, <3>8 DEF InSegments
      <3> QED BY <3>1, <3>7, InLoop
    <2> QED BY <2>1, <2>2
  <1> QED BY <1>1, <1>2, <1>5, <1>7, <1>11, <1>12 DEF UnpackInv, Go

\* CopySegmentData.
LEMMA CopySegmentDataKeeps == UnpackInv /\ CopySegmentData => UnpackInv'
  <1> SUFFICES ASSUME UnpackInv, CopySegmentData PROVE UnpackInv'
    OBVIOUS
  <1>1. /\ pc = "copy segments" /\ S \in Readers /\ FH \in HeaderType /\ bytes \in Seq(Int) /\ error = "NoError"
        /\ HeaderOK(FH, "copy segments")
    BY DEF CopySegmentData, UnpackInv
  <1>2. \/ \E e : Fail(e)
        \/ /\ FH' = [FH EXCEPT !.P.SegmentLen = FH.F.SegmentLen, !.P.Resolution = FH.F.Resolution]
           /\ Go("mapping", S) /\ UNCHANGED at
    BY DEF CopySegmentData
  <1>3. CASE \E e : Fail(e)
    BY <1>3, FailKeeps
  <1>4. CASE /\ FH' = [FH EXCEPT !.P.SegmentLen = FH.F.SegmentLen, !.P.Resolution = FH.F.Resolution]
             /\ Go("mapping", S) /\ UNCHANGED at
    <2>1. FH.F.SegmentLen \in [Channels -> Seq(Nat)] /\ FH.F.Resolution \in Nat
      BY <1>1 DEF HeaderType, SegmentType
    <2>2. /\ FH' \in HeaderType /\ FH'.filters = FH.filters /\ FH'.ptables = FH.ptables
          /\ FH'.P.SegmentLen = FH.F.SegmentLen /\ FH'.P.Resolution = FH.F.Resolution /\ FH'.F = FH.F
      BY <1>1, <1>4, <2>1 DEF HeaderType, SegmentType
    <2>3. \A c \in Channels : SegmentsFit("F", FH.F.Resolution, FH.F.SegmentLen[c])
      BY <1>1 DEF HeaderOK, FiltersSegmented
    <2>4. \A c \in Channels : SegmentsFit("P", FH.F.Resolution, FH.F.SegmentLen[c])
      BY <2>1, <2>3, RightForBoth
    <2>5. \A j \in Kinds : Done(FH', j) = Done(FH, j)
      BY <2>2 DEF Done
    <2>6. HeaderOK(FH', "mapping")
      BY <1>1, <2>2, <2>3, <2>4, <2>5
         DEF HeaderOK, FiltersSegmented, BothSegmented, FiltersMapped, BothMapped, FiltersRead, AllTablesRead
    <2> QED BY <1>1, <1>4, <2>2, <2>6, NoLoop DEF UnpackInv, Go
  <1> QED BY <1>2, <1>3, <1>4
------------------------------------------------------------------------------
(* The table numbers are read.                                             *)

\* ReadMappingData: whether the probability tables have a mapping of their own.
LEMMA SameMapAsFKeeps == UnpackInv /\ ReadSameMapAsF => UnpackInv'
  <1> SUFFICES ASSUME UnpackInv, ReadSameMapAsF PROVE UnpackInv'
    OBVIOUS
  <1> DEFINE same == Unsigned(bytes, S, 1)
  <1>1. /\ pc = "mapping" /\ S \in Readers /\ FH \in HeaderType /\ bytes \in Seq(Int) /\ error = "NoError"
        /\ HeaderOK(FH, "mapping")
    BY DEF ReadSameMapAsF, UnpackInv
  <1>2. same.r \in Readers /\ same.x \in Nat
    BY <1>1, OneBit
  <1>3. \/ \E e : Fail(e)
        \/ FH' = [FH EXCEPT !.PSameMapAsF = same.x] /\ Go("tables F", same.r) /\ UNCHANGED at
    BY DEF ReadSameMapAsF
  <1> HIDE DEF same
  <1>4. CASE \E e : Fail(e)
    BY <1>4, FailKeeps
  <1>5. CASE FH' = [FH EXCEPT !.PSameMapAsF = same.x] /\ Go("tables F", same.r) /\ UNCHANGED at
    <2>1. /\ FH' \in HeaderType /\ FH'.filters = FH.filters /\ FH'.ptables = FH.ptables
          /\ FH'.F = FH.F /\ FH'.P = FH.P
      BY <1>1, <1>2, <1>5 DEF HeaderType
    <2>2. \A j \in Kinds : Done(FH', j) = Done(FH, j)
      BY <2>1 DEF Done
    <2>3. HeaderOK(FH', "tables F")
      BY <1>1, <2>1, <2>2
         DEF HeaderOK, FiltersSegmented, BothSegmented, FiltersMapped, BothMapped, FiltersRead, AllTablesRead
    <2> QED BY <1>1, <1>2, <1>5, <2>1, <2>3, NoLoop DEF UnpackInv, Go
  <1> QED BY <1>3, <1>4, <1>5

\* Where table numbers are read, the segments are known.
LEMMA SegmentsKnown ==
    ASSUME UnpackInv, NEW k \in Kinds, pc \in {AtTables(k), AtTable(k)}, NEW c \in Channels
    PROVE  /\ FH[k].SegmentLen[c] \in Seq(Nat) /\ Segments(c, k) \in Nat \ {0}
           /\ FH[k].Table4Segment \in [Channels -> Seq(Nat)]
  <1>1. FH[k].SegmentLen[c] \in Seq(Nat) /\ FH[k].Table4Segment \in [Channels -> Seq(Nat)]
    BY DEF UnpackInv, HeaderType, SegmentType, Kinds
  <1>2. SegmentsFit(k, FH[k].Resolution, FH[k].SegmentLen[c])
    <2> USE DEF UnpackInv, HeaderOK, AtTables, AtTable, FiltersSegmented, BothSegmented, FiltersMapped
    <2>1. CASE k = "F"
      BY <2>1
    <2>2. CASE k = "P"
      BY <2>2
    <2> QED BY <2>1, <2>2 DEF Kinds
  <1> QED BY <1>1, <1>2 DEF Segments, SegmentsFit

\* ReadTableMappingData: one list of table numbers for all channels, or one each.
LEMMA SameMapAllChKeeps == \A k \in Kinds : UnpackInv /\ ReadSameMapAllCh(k) => UnpackInv'
  <1> SUFFICES ASSUME NEW k \in Kinds, UnpackInv, ReadSameMapAllCh(k) PROVE UnpackInv'
    OBVIOUS
  <1> DEFINE same == Unsigned(bytes, S, 1)
             a == [ch |-> 0, same |-> same.x = 1, tables |-> <<0>>, CountTables |-> 1]
  <1>1. /\ pc = AtTables(k) /\ S \in Readers /\ FH \in HeaderType /\ bytes \in Seq(Int) /\ error = "NoError"
        /\ HeaderOK(FH, AtTables(k))
    BY DEF ReadSameMapAllCh, UnpackInv, AtTables
  <1>2. same.r \in Readers /\ same.x \in Nat
    BY <1>1, OneBit
  <1>3. CASE Fail("NegativeBitAllocation")
    BY <1>3, FailKeeps
  <1>4. CASE at' = a /\ Go(AtTable(k), same.r) /\ UNCHANGED FH
    <2>1. HeaderOK(FH, AtTable(k))
      <3> USE DEF AtTable, AtTables, FiltersSegmented, BothSegmented, FiltersMapped, BothMapped, FiltersRead, AllTablesRead
      <3>1. CASE k = "F"
        <4>1. HeaderOK(FH, "tables F")
          BY <3>1, <1>1
        <4>2. HeaderOK(FH, "table F")
          BY <4>1 DEF HeaderOK
        <4> QED BY <3>1, <4>2
      <3>2. CASE k = "P"
        <4>1. HeaderOK(FH, "tables P")
          BY <3>2, <1>1
        <4>2. HeaderOK(FH, "table P")
          BY <4>1 DEF HeaderOK
        <4> QED BY <3>2, <4>2
      <3> QED BY <3>1, <3>2 DEF Kinds
    <2> HIDE DEF same
    <2>2. /\ a.ch = 0 /\ a.tables = <<0>> /\ Len(<<0>>) = 1 /\ a.CountTables = 1
          /\ a \in [ch : Channels, same : BOOLEAN, tables : Seq(Nat), CountTables : Nat \ {0}]
      BY Sizes
    <2> HIDE DEF a
    <2>3. Len(FH[k].SegmentLen[0]) >= 1
      BY <1>1, SegmentsKnown, Sizes DEF Segments
    <2>4. NumbersFit(<<0>>, 1)
      BY DEF NumbersFit
    <2>5. \A c \in Channels : ~(c < 0)
      BY DEF Channels
    <2>6. InNumbers(FH, a, k)
      BY <2>2, <2>3, <2>4, <2>5 DEF InNumbers
    <2>7. LoopsOK(FH, a, AtTable(k))
      BY <2>6, InLoop
    <2> QED BY <1>1, <1>2, <1>4, <2>1, <2>7 DEF UnpackInv, Go
  <1> QED BY <1>3, <1>4 DEF ReadSameMapAllCh

\* Numbers that are right for some tables are right for more of them.
LEMMA CountGrows ==
    ASSUME NEW m \in Nat, NEW n \in Nat, m <= n, NEW numbers \in Seq(Nat), NumbersFit(numbers, m)
    PROVE  NumbersFit(numbers, n)
  <1> SUFFICES ASSUME NEW i \in 1..Len(numbers) PROVE numbers[i] < n
    BY DEF NumbersFit
  <1>1. PICK x \in Nat : x = numbers[i]
    OBVIOUS
  <1>2. x < m
    BY <1>1 DEF NumbersFit
  <1> QED BY <1>1, <1>2

\* The number of a table: one of those that were named, or the next.
LEMMA TableNumberKeeps == \A k \in Kinds : UnpackInv /\ ReadTableNumber(k) => UnpackInv'
  <1> SUFFICES ASSUME NEW k \in Kinds, UnpackInv, ReadTableNumber(k) PROVE UnpackInv'
    OBVIOUS
  <1> DEFINE number == Unsigned(bytes, S, Log2RoundUp(at.CountTables))
  <1>1. /\ pc = AtTable(k) /\ S \in Readers /\ FH \in HeaderType /\ bytes \in Seq(Int) /\ error = "NoError"
        /\ HeaderOK(FH, pc) /\ InNumbers(FH, at, k)
    BY DEF ReadTableNumber, UnpackInv, AtTable, LoopsOK
  <1>2. /\ at \in [ch : Channels, same : BOOLEAN, tables : Seq(Nat), CountTables : Nat \ {0}]
        /\ at.same => at.ch = 0
        /\ Len(at.tables) <= Len(FH[k].SegmentLen[at.ch]) /\ NumbersFit(at.tables, at.CountTables)
        /\ \A c \in Channels : c < at.ch => ChannelMapped(FH[k], c, at.CountTables)
    BY <1>1 DEF InNumbers
  <1>3. number.r \in Readers /\ number.x \in Nat
    <2>1. Log2RoundUp(at.CountTables) \in Nat
      BY <1>2, Log2IsNat
    <2> QED BY <2>1, <1>1, OneBit
  <1> HIDE DEF number
  <1>4. \/ \E e : Fail(e)
        \/ /\ Len(at.tables) < Segments(at.ch, k) /\ ~(number.x > at.CountTables)
           /\ at' = [at EXCEPT !.tables = Append(@, number.x), !.CountTables = IF number.x = @ THEN @ + 1 ELSE @]
           /\ Go(pc, number.r) /\ UNCHANGED FH
    BY DEF ReadTableNumber, number
  <1>5. CASE \E e : Fail(e)
    BY <1>5, FailKeeps
  <1>6. CASE /\ Len(at.tables) < Segments(at.ch, k) /\ ~(number.x > at.CountTables)
             /\ at' = [at EXCEPT !.tables = Append(@, number.x), !.CountTables = IF number.x = @ THEN @ + 1 ELSE @]
             /\ Go(pc, number.r) /\ UNCHANGED FH
    <2>1. PICK x \in Nat : x = number.x
      BY <1>3
    <2>2. PICK n \in Nat \ {0} : n = at.CountTables
      BY <1>2
    <2>3. PICK m \in Nat \ {0} : m = IF x = n THEN n + 1 ELSE n
      OBVIOUS
    <2>4. x <= n /\ x < m /\ n <= m
      BY <1>6, <2>1, <2>2, <2>3
    <2>5. PICK longer \in Seq(Nat) : longer = Append(at.tables, x)
      BY <1>2, AppendProperties
    <2>6. at' = [ch |-> at.ch, same |-> at.same, tables |-> longer, CountTables |-> m]
      BY <1>2, <1>6, <2>1, <2>2, <2>3, <2>5
    <2>7. at'.ch = at.ch /\ at'.same = at.same /\ at'.tables = longer /\ at'.CountTables = m
      BY <2>6
    <2>8. NumbersFit(longer, m)
      <3>1. NumbersFit(at.tables, m) /\ at.tables \in Seq(Nat)
        BY <1>2, <2>2, <2>4, CountGrows
      <3>2. Len(longer) = Len(at.tables) + 1 /\ longer[Len(at.tables) + 1] = x
            /\ \A i \in 1..Len(at.tables) : longer[i] = at.tables[i]
        BY <2>5, <3>1
      <3>3. ASSUME NEW i \in 1..Len(longer) PROVE longer[i] < m
        <4>1. CASE i \in 1..Len(at.tables)
          BY <4>1, <3>1, <3>2 DEF NumbersFit
        <4>2. CASE i = Len(at.tables) + 1
          BY <4>2, <3>2, <2>4
        <4> QED BY <4>1, <4>2, <3>1, <3>2
      <3> QED BY <3>3 DEF NumbersFit
    <2>9. Len(longer) <= Len(FH[k].SegmentLen[at.ch])
      <3>1. FH[k].SegmentLen[at.ch] \in Seq(Nat)
        BY <1>1, <1>2, SegmentsKnown
      <3>2. Len(longer) = Len(at.tables) + 1 /\ Len(at.tables) \in Nat /\ Len(FH[k].SegmentLen[at.ch]) \in Nat
        BY <2>5, <1>2, <3>1
      <3>3. Len(at.tables) < Len(FH[k].SegmentLen[at.ch])
        BY <1>6 DEF Segments
      <3> QED BY <3>2, <3>3
    <2>10. ASSUME NEW c \in Channels, c < at.ch PROVE ChannelMapped(FH[k], c, m)
      <3>1. ChannelMapped(FH[k], c, n)
        BY <1>2, <2>2, <2>10
      <3>2. FH[k].Table4Segment[c] \in Seq(Nat)
        BY <1>1, SegmentsKnown
      <3> QED BY <3>1, <3>2, <2>4, CountGrows DEF ChannelMapped
    <2>11. at' \in [ch : Channels, same : BOOLEAN, tables : Seq(Nat), CountTables : Nat \ {0}]
      BY <1>2, <2>6
    <2>12. InNumbers(FH, at', k)
      BY <1>2, <2>7, <2>8, <2>9, <2>10, <2>11 DEF InNumbers
    <2>13. LoopsOK(FH, at', AtTable(k))
      BY <2>12, InLoop
    <2> QED BY <1>1, <1>3, <1>6, <2>13 DEF UnpackInv, Go
  <1> QED BY <1>4, <1>5, <1>6

\* The last table number of a channel; after the last channel, the number of tables.
LEMMA EndOfTablesKeeps == \A k \in Kinds : UnpackInv /\ EndOfTables(k) => UnpackInv'
  <1> SUFFICES ASSUME NEW k \in Kinds, UnpackInv, EndOfTables(k) PROVE UnpackInv'
    OBVIOUS
  <1> DEFINE last == at.same \/ at.ch = NrOfChannels - 1
             next == IF last THEN AfterTables(k) ELSE AtTable(k)
             tables == [c \in Channels |-> IF c = at.ch \/ at.same THEN at.tables ELSE FH[k].Table4Segment[c]]
  <1>1. /\ pc = AtTable(k) /\ S \in Readers /\ FH \in HeaderType /\ bytes \in Seq(Int) /\ error = "NoError"
        /\ HeaderOK(FH, AtTable(k)) /\ InNumbers(FH, at, k)
    BY DEF EndOfTables, UnpackInv, AtTable, LoopsOK
  <1>2. /\ at \in [ch : Channels, same : BOOLEAN, tables : Seq(Nat), CountTables : Nat \ {0}]
        /\ at.same => at.ch = 0
        /\ Len(at.tables) <= Len(FH[k].SegmentLen[at.ch]) /\ NumbersFit(at.tables, at.CountTables)
        /\ \A c \in Channels : c < at.ch => ChannelMapped(FH[k], c, at.CountTables)
    BY <1>1 DEF InNumbers
  <1>3. \/ \E e : Fail(e)
        \/ /\ Len(at.tables) >= Segments(at.ch, k)
           /\ ~(at.same /\ \E c \in Channels : Segments(c, k) # Segments(0, k))
           /\ ~(last /\ at.CountTables > MaxNrOfTables)
           /\ FH' = [FH EXCEPT ![k].NrOfTables = at.CountTables, ![k].Table4Segment = tables]
           /\ at' = IF last THEN <<>> ELSE [at EXCEPT !.ch = @ + 1, !.tables = <<>>]
           /\ Go(next, S)
    <2>1. FH[k].Table4Segment = [FH EXCEPT ![k].NrOfTables = at.CountTables][k].Table4Segment
      BY <1>1 DEF HeaderType, SegmentType, Kinds
    <2> QED BY <1>1, <2>1 DEF EndOfTables
  <1>4. CASE \E e : Fail(e)
    BY <1>4, FailKeeps
  <1>5. CASE /\ Len(at.tables) >= Segments(at.ch, k)
             /\ ~(at.same /\ \E c \in Channels : Segments(c, k) # Segments(0, k))
             /\ ~(last /\ at.CountTables > MaxNrOfTables)
             /\ FH' = [FH EXCEPT ![k].NrOfTables = at.CountTables, ![k].Table4Segment = tables]
             /\ at' = IF last THEN <<>> ELSE [at EXCEPT !.ch = @ + 1, !.tables = <<>>]
             /\ Go(next, S)
    <2>1. tables \in [Channels -> Seq(Nat)] /\ at.CountTables \in Nat
      BY <1>1, <1>2, SegmentsKnown
    <2>2. \A c \in Channels : tables[c] = IF c = at.ch \/ at.same THEN at.tables ELSE FH[k].Table4Segment[c]
      OBVIOUS
    <2> HIDE DEF tables
    <2>3. /\ FH' \in HeaderType /\ FH'.filters = FH.filters /\ FH'.ptables = FH.ptables
          /\ FH'[k].Table4Segment = tables /\ FH'[k].NrOfTables = at.CountTables
          /\ FH'[k].SegmentLen = FH[k].SegmentLen /\ FH'[k].Resolution = FH[k].Resolution
          /\ \A j \in Kinds : j # k => FH'[j] = FH[j]
      BY <1>1, <1>5, <2>1 DEF HeaderType, SegmentType, Kinds
    <2>4. Len(at.tables) = Len(FH[k].SegmentLen[at.ch])
      <3>1. FH[k].SegmentLen[at.ch] \in Seq(Nat) /\ at.tables \in Seq(Nat)
        BY <1>1, <1>2, SegmentsKnown
      <3> QED BY <3>1, <1>2, <1>5 DEF Segments
    <2>5. ASSUME NEW c \in Channels, last \/ c <= at.ch
          PROVE  ChannelMapped(FH'[k], c, at.CountTables)
      <3>1. at.ch \in Int /\ c \in Int /\ c <= NrOfChannels - 1
        BY <1>2, Sizes DEF Channels
      <3>2. CASE c = at.ch
        BY <3>2, <2>2, <2>3, <2>4, <1>2 DEF ChannelMapped
      <3>3. CASE c # at.ch /\ at.same
        <4>1. Segments(c, k) = Segments(0, k) /\ at.ch = 0
          BY <3>3, <1>2, <1>5
        <4>2. Len(FH[k].SegmentLen[c]) = Len(at.tables)
          BY <4>1, <2>4 DEF Segments
        <4> QED BY <3>3, <4>2, <2>2, <2>3, <1>2 DEF ChannelMapped
      <3>4. CASE c # at.ch /\ ~at.same
        <4>1. c < at.ch
          BY <3>1, <3>4, <2>5
        <4>2. ChannelMapped(FH[k], c, at.CountTables)
          BY <4>1, <1>2
        <4> QED BY <3>4, <4>2, <2>2, <2>3 DEF ChannelMapped
      <3> QED BY <3>2, <3>3, <3>4
    <2>6. last => Mapped(FH'[k])
      <3> SUFFICES ASSUME last PROVE Mapped(FH'[k])
        OBVIOUS
      <3>1. at.CountTables \in 1..MaxNrOfTables
        BY <1>2, <1>5, Sizes DEF MaxNrOfTables
      <3> QED BY <3>1, <2>3, <2>5 DEF Mapped
    <2>7. \A j \in Kinds : Done(FH', j) = Done(FH, j)
      BY <2>3 DEF Done
    <2>8. \A j \in Kinds : FH'[j].SegmentLen = FH[j].SegmentLen /\ FH'[j].Resolution = FH[j].Resolution
      BY <2>3
    <2>9. /\ FH'.F.SegmentLen = FH.F.SegmentLen /\ FH'.F.Resolution = FH.F.Resolution
          /\ FH'.P.SegmentLen = FH.P.SegmentLen /\ FH'.P.Resolution = FH.P.Resolution
      BY <2>8 DEF Kinds
    <2>10. HeaderOK(FH', next)
      <3> USE DEF AtTable, AfterTables, FiltersSegmented, BothSegmented, FiltersMapped, BothMapped, FiltersRead, AllTablesRead
      <3>1. CASE k = "F"
        <4>1. next \in {"table F", "copy tables", "tables P"} /\ (next # "table F" => last)
          BY <3>1
        <4>2. next # "table F" => Mapped(FH'.F)
          BY <3>1, <4>1, <2>6
        <4>3. HeaderOK(FH, "table F")
          BY <1>1, <3>1
        <4> HIDE DEF next, last
        <4> QED BY <4>1, <4>2, <4>3, <2>7, <2>9 DEF HeaderOK
      <3>2. CASE k = "P"
        <4>1. next \in {"table P", "half"} /\ (next # "table P" => last)
          BY <3>2
        <4>2. next # "table P" => Mapped(FH'.P)
          BY <3>2, <4>1, <2>6
        <4>3. HeaderOK(FH, "table P") /\ FH'.F = FH.F
          BY <1>1, <3>2, <2>3 DEF Kinds
        <4> HIDE DEF next, last
        <4> QED BY <4>1, <4>2, <4>3, <2>7, <2>9 DEF HeaderOK
      <3> QED BY <3>1, <3>2 DEF Kinds
    <2>11. LoopsOK(FH', at', next)
      <3>1. CASE last
        <4>1. next \in {"copy tables", "tables P", "half"}
          BY <3>1 DEF AfterTables, Kinds
        <4> QED BY <4>1, NoLoop
      <3>2. CASE ~last
        <4>1. at' = [at EXCEPT !.ch = @ + 1, !.tables = <<>>] /\ next = AtTable(k) /\ at.same = FALSE
          BY <1>2, <1>5, <3>2
        <4>2. at.ch + 1 \in Channels
          <5>1. PICK c \in Channels : c = at.ch
            BY <1>2
          <5>2. c # NrOfChannels - 1
            BY <3>2, <5>1
          <5>3. c + 1 \in Channels
            BY <5>2, Sizes DEF Channels
          <5> QED BY <5>1, <5>3
        <4>3. at' = [ch |-> at.ch + 1, same |-> FALSE, tables |-> <<>>, CountTables |-> at.CountTables]
          BY <1>2, <4>1
        <4>4. /\ at'.ch = at.ch + 1 /\ at'.same = FALSE /\ at'.tables = <<>> /\ at'.CountTables = at.CountTables
              /\ at' \in [ch : Channels, same : BOOLEAN, tables : Seq(Nat), CountTables : Nat \ {0}]
          BY <1>2, <4>2, <4>3
        <4>5. Len(<<>>) <= Len(FH'[k].SegmentLen[at.ch + 1]) /\ NumbersFit(<<>>, at.CountTables)
          <5>1. FH[k].SegmentLen[at.ch + 1] \in Seq(Nat)
            BY <1>1, <4>2, SegmentsKnown
          <5>2. Len(<<>>) = 0 /\ \A i \in 1..0 : FALSE
            OBVIOUS
          <5> QED BY <5>1, <5>2, <2>3 DEF NumbersFit
        <4>6. ASSUME NEW c \in Channels, c < at.ch + 1 PROVE ChannelMapped(FH'[k], c, at.CountTables)
          <5>1. c <= at.ch
            BY <4>6, <1>2 DEF Channels
          <5> QED BY <5>1, <2>5
        <4>7. InNumbers(FH', at', k)
          BY <4>4, <4>5, <4>6 DEF InNumbers
        <4> QED BY <4>1, <4>7, InLoop
      <3> QED BY <3>1, <3>2
    <2> QED BY <1>1, <1>5, <2>3, <2>10, <2>11 DEF UnpackInv, Go
  <1> QED BY <1>3, <1>4, <1>5

\* CopyMappingData.
LEMMA CopyMappingDataKeeps == UnpackInv /\ CopyMappingData => UnpackInv'
  <1> SUFFICES ASSUME UnpackInv, CopyMappingData PROVE UnpackInv'
    OBVIOUS
  <1>1. /\ pc = "copy tables" /\ S \in Readers /\ FH \in HeaderType /\ bytes \in Seq(Int) /\ error = "NoError"
        /\ HeaderOK(FH, "copy tables")
    BY DEF CopyMappingData, UnpackInv
  <1>2. \/ \E e : Fail(e)
        \/ /\ \A c \in Channels : Segments(c, "P") = Segments(c, "F")
           /\ FH' = [FH EXCEPT !.P.Table4Segment = FH.F.Table4Segment, !.P.NrOfTables = FH.F.NrOfTables]
           /\ Go("half", S) /\ UNCHANGED at
    BY DEF CopyMappingData
  <1>3. CASE \E e : Fail(e)
    BY <1>3, FailKeeps
  <1>4. CASE /\ \A c \in Channels : Segments(c, "P") = Segments(c, "F")
             /\ FH' = [FH EXCEPT !.P.Table4Segment = FH.F.Table4Segment, !.P.NrOfTables = FH.F.NrOfTables]
             /\ Go("half", S) /\ UNCHANGED at
    <2>1. /\ FH' \in HeaderType /\ FH'.filters = FH.filters /\ FH'.ptables = FH.ptables
          /\ FH'.P.SegmentLen = FH.P.SegmentLen /\ FH'.P.Resolution = FH.P.Resolution /\ FH'.F = FH.F
          /\ FH'.P.Table4Segment = FH.F.Table4Segment /\ FH'.P.NrOfTables = FH.F.NrOfTables
      BY <1>1, <1>4 DEF HeaderType, SegmentType
    <2>2. Mapped(FH.F)
      BY <1>1 DEF HeaderOK, FiltersMapped
    <2>3. Mapped(FH'.P)
      BY <1>4, <2>1, <2>2 DEF Mapped, ChannelMapped, Segments
    <2>4. \A j \in Kinds : Done(FH', j) = Done(FH, j)
      BY <2>1 DEF Done
    <2>5. HeaderOK(FH', "half")
      BY <1>1, <2>1, <2>3, <2>4
         DEF HeaderOK, FiltersSegmented, BothSegmented, FiltersMapped, BothMapped, FiltersRead, AllTablesRead
    <2> QED BY <1>1, <1>4, <2>1, <2>5, NoLoop DEF UnpackInv, Go
  <1> QED BY <1>2, <1>3, <1>4

\* ReadMappingData: HalfProb, one bit for each channel.
LEMMA HalfProbKeeps == UnpackInv /\ ReadHalfProb => UnpackInv'
  <1> SUFFICES ASSUME UnpackInv, ReadHalfProb PROVE UnpackInv'
    OBVIOUS
  <1> DEFINE half == Unsigned(bytes, S, NrOfChannels)
             halves == [c \in Channels |-> (half.x \div Pow2[NrOfChannels - 1 - c]) % 2]
  <1>1. /\ pc = "half" /\ S \in Readers /\ FH \in HeaderType /\ bytes \in Seq(Int) /\ error = "NoError"
        /\ HeaderOK(FH, "half")
    BY DEF ReadHalfProb, UnpackInv
  <1>2. half.r \in Readers /\ half.x \in Nat
    BY <1>1, OneBit, Sizes
  <1>3. \/ \E e : Fail(e)
        \/ FH' = [FH EXCEPT !.HalfProb = halves] /\ at' = <<>> /\ Go("filters", half.r)
    BY DEF ReadHalfProb
  <1> HIDE DEF half
  <1>4. CASE \E e : Fail(e)
    BY <1>4, FailKeeps
  <1>5. CASE FH' = [FH EXCEPT !.HalfProb = halves] /\ at' = <<>> /\ Go("filters", half.r)
    <2>1. halves \in [Channels -> Nat]
      <3> SUFFICES ASSUME NEW c \in Channels PROVE (half.x \div Pow2[NrOfChannels - 1 - c]) % 2 \in Nat
        OBVIOUS
      <3>1. NrOfChannels - 1 - c \in Nat
        BY Sizes DEF Channels
      <3>2. PICK p \in Nat : p = Pow2[NrOfChannels - 1 - c] /\ p > 0
        BY <3>1, Pow2Larger
      <3> QED BY <3>2, <1>2
    <2> HIDE DEF halves
    <2>2. /\ FH' \in HeaderType /\ FH'.filters = FH.filters /\ FH'.ptables = FH.ptables
          /\ FH'.F = FH.F /\ FH'.P = FH.P
      BY <1>1, <1>5, <2>1 DEF HeaderType
    <2>3. \A j \in Kinds : Done(FH', j) = Done(FH, j)
      BY <2>2 DEF Done
    <2>4. HeaderOK(FH', "filters")
      BY <1>1, <2>2, <2>3
         DEF HeaderOK, FiltersSegmented, BothSegmented, FiltersMapped, BothMapped, FiltersRead, AllTablesRead
    <2> QED BY <1>1, <1>2, <1>5, <2>2, <2>4, NoLoop DEF UnpackInv, Go
  <1> QED BY <1>3, <1>4, <1>5
------------------------------------------------------------------------------
(* The filters and the probability tables are read.                        *)

\* How the entries of each kind of table are coded, and how many there may be.
LEMMA CodingIs ==
    ASSUME NEW k \in Kinds
    PROVE  /\ Coding(k).done = Done(FH, k)
           /\ Coding(k).lengthBits \in Nat /\ Allocated[k].entries = Pow2[Coding(k).lengthBits]
           /\ Allocated[k].entries \in Nat \ {0}
           /\ Coding(k).methods = Methods(k) /\ Len(Methods(k)) = 3
           /\ EntryRange(k) = Coding(k).least..Coding(k).most /\ Coding(k).least \in Int /\ Coding(k).most \in Int
           /\ Coding(k).next = IF k = "F" THEN "ptables" ELSE "data"
  <1>1. CASE k = "F"
    <2>1. Allocated[k].entries = Pow2[SIZE_CODEDPREDORDER] /\ SIZE_CODEDPREDORDER \in Nat
      BY <1>1, Sizes DEF Allocated
    <2>2. SIZE_PREDCOEF - 1 \in Nat /\ Pow2[SIZE_PREDCOEF - 1] \in Nat
      BY Sizes, Pow2Larger
    <2> QED BY <1>1, <2>1, <2>2, Pow2Larger DEF Coding, Done, Methods, FilterMethods, EntryRange
  <1>2. CASE k = "P"
    <2>1. Allocated[k].entries = Pow2[AC_HISBITS] /\ AC_HISBITS \in Nat
      BY <1>2, Sizes DEF Allocated
    <2>2. AC_BITS - 1 \in Nat /\ Pow2[AC_BITS - 1] \in Nat
      BY Sizes, Pow2Larger
    <2> QED BY <1>2, <2>1, <2>2, Pow2Larger DEF Coding, Done, Methods, PtableMethods, EntryRange
  <1> QED BY <1>1, <1>2 DEF Kinds

\* The coefficients of a method, by which entries are predicted.
LEMMA MethodIs ==
    ASSUME NEW k \in Kinds, NEW m \in 1..3
    PROVE  Methods(k)[m] \in Seq(Int) /\ Len(Methods(k)[m]) \in 1..3
  <1>1. m = 1 \/ m = 2 \/ m = 3
    OBVIOUS
  <1>2. k = "F" \/ k = "P"
    BY DEF Kinds
  <1>3. /\ <<-8>> \in Seq(Int) /\ Len(<<-8>>) = 1
        /\ <<-16, 8>> \in Seq(Int) /\ Len(<<-16, 8>>) = 2
        /\ <<-9, -5, 6>> \in Seq(Int) /\ Len(<<-9, -5, 6>>) = 3
        /\ <<-24, 24, -8>> \in Seq(Int) /\ Len(<<-24, 24, -8>>) = 3
    OBVIOUS
  <1>4. CASE k = "F"
    <2>1. Methods(k)[1] = <<-8>> /\ Methods(k)[2] = <<-16, 8>> /\ Methods(k)[3] = <<-9, -5, 6>>
      BY <1>4 DEF Methods, FilterMethods
    <2> QED BY <1>1, <1>3, <2>1
  <1>5. CASE k = "P"
    <2>1. Methods(k)[1] = <<-8>> /\ Methods(k)[2] = <<-16, 8>> /\ Methods(k)[3] = <<-24, 24, -8>>
      BY <1>5 DEF Methods, PtableMethods
    <2> QED BY <1>1, <1>3, <2>1
  <1> QED BY <1>2, <1>4, <1>5

LEMMA RangeIsInt ==
    ASSUME NEW k \in Kinds
    PROVE  EntryRange(k) \subseteq Int
  BY CodingIs

\* One entry more.
LEMMA OneMoreEntry ==
    ASSUME NEW k \in Kinds, NEW entries, InRange(k, entries), NEW x \in EntryRange(k)
    PROVE  InRange(k, Append(entries, x)) /\ Len(Append(entries, x)) = Len(entries) + 1
  <1>1. entries \in Seq(Int) /\ x \in Int
    BY RangeIsInt DEF InRange
  <1>2. PICK longer \in Seq(Int) : longer = Append(entries, x)
    BY <1>1, AppendProperties
  <1>3. /\ Len(longer) = Len(entries) + 1 /\ longer[Len(entries) + 1] = x /\ Len(entries) \in Nat
        /\ \A i \in 1..Len(entries) : longer[i] = entries[i]
    BY <1>1, <1>2
  <1>4. ASSUME NEW i \in 1..Len(longer) PROVE longer[i] \in EntryRange(k)
    <2>1. CASE i \in 1..Len(entries)
      BY <2>1, <1>3 DEF InRange
    <2>2. CASE i = Len(entries) + 1
      BY <2>2, <1>3
    <2> QED BY <2>1, <2>2, <1>3
  <1> QED BY <1>2, <1>3, <1>4 DEF InRange

\* What is known while the tables are read.
LEMMA AtTheTables ==
    ASSUME UnpackInv, NEW k \in Kinds, pc \in {TableOf(k), AtEntries(k)}
    PROVE  /\ S \in Readers /\ FH \in HeaderType /\ bytes \in Seq(Int) /\ error = "NoError"
           /\ HeaderOK(FH, TableOf(k)) /\ HeaderOK(FH, AtEntries(k))
  <1> USE DEF TableOf, AtEntries, FiltersSegmented, BothSegmented, FiltersMapped, BothMapped, FiltersRead, AllTablesRead
  <1>1. S \in Readers /\ FH \in HeaderType /\ bytes \in Seq(Int) /\ error = "NoError" /\ HeaderOK(FH, pc)
    BY DEF UnpackInv
  <1>2. CASE k = "F"
    <2>1. HeaderOK(FH, "filters") /\ HeaderOK(FH, "entries F")
      BY <1>1, <1>2 DEF HeaderOK
    <2> QED BY <1>1, <1>2, <2>1
  <1>3. CASE k = "P"
    <2>1. HeaderOK(FH, "ptables") /\ HeaderOK(FH, "entries P")
      BY <1>1, <1>3 DEF HeaderOK
    <2> QED BY <1>1, <1>3, <2>1
  <1> QED BY <1>2, <1>3 DEF Kinds

\* An entry was read, or a table has all of them.
LEMMA EntriesKeep ==
    ASSUME UnpackInv, NEW k \in Kinds, pc \in {TableOf(k), AtEntries(k)}, NEW r \in Readers,
           Go(AtEntries(k), r), UNCHANGED FH, InEntries(at', k)
    PROVE  UnpackInv'
  <1>1. LoopsOK(FH, at', AtEntries(k))
    BY InLoop
  <1> QED BY <1>1, AtTheTables DEF UnpackInv, Go

LEMMA FinishKeeps ==
    ASSUME UnpackInv, NEW k \in Kinds, pc \in {TableOf(k), AtEntries(k)}, NEW r \in Readers,
           NEW table, TableFits(k, table), Finish(k, table, r)
    PROVE  UnpackInv'
  <1>1. table \in Seq(Int)
    BY DEF TableFits, InRange
  <1>2. FH \in HeaderType /\ HeaderOK(FH, TableOf(k)) /\ bytes \in Seq(Int) /\ error = "NoError"
    BY AtTheTables
  <1>3. Done(FH, k) \in Seq(Seq(Int)) /\ Append(Done(FH, k), table) \in Seq(Seq(Int))
    <2>1. Done(FH, k) \in Seq(Seq(Int))
      BY <1>2 DEF HeaderType, Done
    <2> QED BY <2>1, <1>1, AppendProperties
  <1>4. /\ FH' \in HeaderType /\ FH'.F = FH.F /\ FH'.P = FH.P
        /\ k = "F" => FH'.filters = Append(FH.filters, table) /\ FH'.ptables = FH.ptables
        /\ k = "P" => FH'.ptables = Append(FH.ptables, table) /\ FH'.filters = FH.filters
    <2>1. CASE k = "F"
      BY <2>1, <1>2, <1>3 DEF Finish, HeaderType, Done
    <2>2. CASE k = "P"
      BY <2>2, <1>2, <1>3 DEF Finish, HeaderType, Done
    <2> QED BY <2>1, <2>2 DEF Kinds
  <1>5. Done(FH', k) = Append(Done(FH, k), table) /\ \A j \in Kinds : j # k => Done(FH', j) = Done(FH, j)
    BY <1>4 DEF Done, Kinds
  <1>6. \A j \in Kinds : \A t \in 1..Len(Done(FH, j)) : TableFits(j, Done(FH, j)[t])
    BY <1>2 DEF HeaderOK
  <1>7. ASSUME NEW j \in Kinds, NEW t \in 1..Len(Done(FH', j)) PROVE TableFits(j, Done(FH', j)[t])
    <2>1. CASE j # k
      BY <2>1, <1>5, <1>6
    <2>2. CASE j = k
      <3>1. PICK done \in Seq(Seq(Int)) : done = Done(FH, k)
        BY <1>3
      <3>2. Done(FH', k) = Append(done, table) /\ Len(Append(done, table)) = Len(done) + 1 /\ Len(done) \in Nat
        BY <1>1, <1>5, <3>1
      <3>3. CASE t \in 1..Len(done)
        <4>1. Append(done, table)[t] = done[t]
          BY <1>1, <3>3
        <4> QED BY <2>2, <3>1, <3>2, <3>3, <4>1, <1>6
      <3>4. CASE t = Len(done) + 1
        <4>1. Append(done, table)[t] = table
          BY <1>1, <3>4
        <4> QED BY <2>2, <3>2, <4>1
      <3> QED BY <2>2, <3>2, <3>3, <3>4
    <2> QED BY <2>1, <2>2
  <1>8. HeaderOK(FH', TableOf(k))
    <2> USE DEF TableOf, FiltersSegmented, BothSegmented, FiltersMapped, BothMapped, FiltersRead, AllTablesRead
    <2>1. CASE k = "F"
      <3>1. HeaderOK(FH, "filters")
        BY <1>2, <2>1
      <3>2. HeaderOK(FH', "filters")
        BY <3>1, <1>4, <1>7 DEF HeaderOK
      <3> QED BY <2>1, <3>2
    <2>2. CASE k = "P"
      <3>1. HeaderOK(FH, "ptables") /\ FH'.filters = FH.filters
        BY <1>2, <1>4, <2>2
      <3>2. HeaderOK(FH', "ptables")
        BY <3>1, <1>4, <1>7 DEF HeaderOK
      <3> QED BY <2>2, <3>2
    <2> QED BY <2>1, <2>2 DEF Kinds
  <1>9. LoopsOK(FH', at', TableOf(k))
    BY NoLoop DEF TableOf
  <1> QED BY <1>2, <1>4, <1>8, <1>9 DEF UnpackInv, Finish, Go

\* ReadFilterCoefSets and ReadProbabilityTables: the length of a table and its method.
LEMMA TableHeadKeeps == \A k \in Kinds : UnpackInv /\ ReadTableHead(k) => UnpackInv'
  <1> SUFFICES ASSUME NEW k \in Kinds, UnpackInv, ReadTableHead(k) PROVE UnpackInv'
    OBVIOUS
  <1> DEFINE length == Unsigned(bytes, S, Coding(k).lengthBits)
             coded == Unsigned(bytes, length.r, 1)
             method == Unsigned(bytes, coded.r, SIZE_RICEMETHOD)
             len == length.x + 1
             plain(n, m) == [len |-> len, plain |-> n, method |-> m, m |-> -1, entries |-> <<>>]
  <1>1. pc = TableOf(k) /\ S \in Readers /\ pc \in {TableOf(k), AtEntries(k)} /\ error = "NoError"
    BY AtTheTables DEF ReadTableHead
  <1>2. length.r \in Readers /\ length.x \in 0..Pow2[Coding(k).lengthBits] - 1
    BY <1>1, CodingIs, OneBit
  <1>3. coded.r \in Readers
    BY <1>2, OneBit
  <1>4. method.r \in Readers /\ method.x \in Nat
    BY <1>3, OneBit, Sizes
  <1>5. len \in 1..Allocated[k].entries
    BY <1>2, CodingIs
  <1>6. \/ \E e : Fail(e)
        \/ Undefined
        \/ k = "P" /\ len = 1 /\ Finish(k, <<Pow2[AC_BITS - 1]>>, length.r)
        \/ at' = plain(len, 0) /\ Go(AtEntries(k), coded.r) /\ UNCHANGED FH
        \/ /\ method.x < Len(Methods(k)) /\ Len(Methods(k)[method.x + 1]) < len
           /\ at' = plain(Len(Methods(k)[method.x + 1]), method.x + 1)
           /\ Go(AtEntries(k), method.r) /\ UNCHANGED FH
    <2>1. Coding(k).methods = Methods(k)
      BY CodingIs
    <2>2. method.x < Len(Methods(k)) => Len(Methods(k)[method.x + 1]) \in Int
      <3> HIDE DEF method
      <3>1. Len(Methods(k)) = 3
        BY CodingIs
      <3>2. method.x < 3 => method.x + 1 \in 1..3
        BY <1>4
      <3> QED BY <3>1, <3>2, MethodIs
    <2>3. Len(Methods(k)) = 3
      BY CodingIs
    <2>4. len \in Int
      BY <1>5
    <2> HIDE DEF length, coded, method
    <2> DEFINE order == Len(Methods(k)[method.x + 1])
    <2>5. \/ \E e : Fail(e)
          \/ Undefined
          \/ k = "P" /\ len = 1 /\ Finish(k, <<Pow2[AC_BITS - 1]>>, length.r)
          \/ at' = plain(len, 0) /\ Go(AtEntries(k), coded.r) /\ UNCHANGED FH
          \/ /\ ~(method.x >= Len(Methods(k))) /\ ~(order >= len)
             /\ at' = plain(order, method.x + 1)
             /\ Go(AtEntries(k), method.r) /\ UNCHANGED FH
      BY <2>1 DEF ReadTableHead, length, coded, method
    <2> QED BY <2>2, <2>3, <2>4, <2>5, <1>4
  <1> HIDE DEF length, coded, method
  <1>7. CASE \E e : Fail(e)
    BY <1>7, FailKeeps
  <1>8. CASE Undefined
    <2>1. pc \notin {"failed", "done"}
      BY <1>1 DEF TableOf
    <2> QED BY <1>8, <2>1, UndefinedKeeps
  <1>9. CASE k = "P" /\ len = 1 /\ Finish(k, <<Pow2[AC_BITS - 1]>>, length.r)
    <2>1. PICK p \in Nat : p = Pow2[AC_BITS - 1] /\ p > 0
      BY Sizes, Pow2Larger
    <2>2. Len(<<p>>) = 1 /\ <<p>> \in Seq(Int) /\ \A i \in 1..Len(<<p>>) : <<p>>[i] \in 1..p
      BY <2>1
    <2>3. TableFits(k, <<p>>)
      BY <2>1, <2>2, <1>5, <1>9 DEF TableFits, InRange, EntryRange
    <2> QED BY <2>1, <2>3, <1>1, <1>2, <1>9, FinishKeeps
  <1>10. <<>> \in Seq(Int) /\ Len(<<>>) = 0 /\ InRange(k, <<>>)
    BY DEF InRange
  <1>11. CASE at' = plain(len, 0) /\ Go(AtEntries(k), coded.r) /\ UNCHANGED FH
    <2>1. PICK l \in 1..Allocated[k].entries : l = len
      BY <1>5
    <2>2. Allocated[k].entries \in Nat
      BY CodingIs
    <2>3. at' = [len |-> l, plain |-> l, method |-> 0, m |-> -1, entries |-> <<>>]
      BY <2>1, <1>11
    <2>4. InEntries(at', k)
      BY <2>1, <2>2, <2>3, <1>10 DEF InEntries
    <2> QED BY <2>4, <1>1, <1>3, <1>11, EntriesKeep
  <1>12. CASE /\ method.x < Len(Methods(k)) /\ Len(Methods(k)[method.x + 1]) < len
              /\ at' = plain(Len(Methods(k)[method.x + 1]), method.x + 1)
              /\ Go(AtEntries(k), method.r) /\ UNCHANGED FH
    <2>1. PICK l \in 1..Allocated[k].entries : l = len
      BY <1>5
    <2>2. Allocated[k].entries \in Nat
      BY CodingIs
    <2>3. PICK m \in 1..3 : m = method.x + 1
      BY <1>4, <1>12, CodingIs
    <2>4. PICK n \in 1..3 : n = Len(Methods(k)[m]) /\ n < l
      BY <2>1, <2>3, <1>12, MethodIs
    <2>5. at' = [len |-> l, plain |-> n, method |-> m, m |-> -1, entries |-> <<>>]
      BY <2>1, <2>3, <2>4, <1>12
    <2>6. InEntries(at', k)
      BY <2>1, <2>2, <2>3, <2>4, <2>5, <1>10 DEF InEntries
    <2> QED BY <2>6, <1>1, <1>4, <1>12, EntriesKeep
  <1> QED BY <1>6, <1>7, <1>8, <1>9, <1>11, <1>12

\* An entry as it is.
LEMMA PlainEntryKeeps == \A k \in Kinds : UnpackInv /\ ReadPlainEntry(k) => UnpackInv'
  <1> SUFFICES ASSUME NEW k \in Kinds, UnpackInv, ReadPlainEntry(k) PROVE UnpackInv'
    OBVIOUS
  <1> DEFINE entry == PlainEntry(k, S)
  <1>1. pc = AtEntries(k) /\ S \in Readers /\ pc \in {TableOf(k), AtEntries(k)} /\ bytes \in Seq(Int) /\ InEntries(at, k)
    BY AtTheTables DEF ReadPlainEntry, UnpackInv, LoopsOK
  <1>2. entry.r \in Readers /\ entry.x \in EntryRange(k)
    <2>1. CASE k = "F"
      <3>1. entry = Signed(bytes, S, SIZE_PREDCOEF)
        BY <2>1 DEF PlainEntry
      <3> QED BY <2>1, <3>1, <1>1, SignedReads, Sizes DEF EntryRange
    <2>2. CASE k = "P"
      <3>1. AC_BITS - 1 \in Nat
        BY Sizes
      <3>2. PICK got \in Reads(AC_BITS - 1) : got = Unsigned(bytes, S, AC_BITS - 1)
        BY <1>1, <3>1, GetbitsReads DEF Unsigned
      <3>3. entry = [got EXCEPT !.x = @ + 1]
        BY <2>2, <3>2 DEF PlainEntry
      <3>4. got.r \in Readers /\ got.x \in 0..Pow2[AC_BITS - 1] - 1
        BY <1>1, <3>1, <3>2, UnsignedReads
      <3>5. got = [r |-> got.r, x |-> got.x, left |-> got.left, eof |-> got.eof]
        BY <3>2 DEF Reads
      <3>6. entry = [r |-> got.r, x |-> got.x + 1, left |-> got.left, eof |-> got.eof]
        BY <3>3, <3>5
      <3>7. Pow2[AC_BITS - 1] \in Nat
        BY <3>1, Pow2Larger
      <3> HIDE DEF entry
      <3> QED BY <2>2, <3>4, <3>6, <3>7 DEF EntryRange
    <2> QED BY <2>1, <2>2 DEF Kinds
  <1> HIDE DEF entry
  <1>3. \/ \E e : Fail(e)
        \/ /\ Len(at.entries) < at.plain
           /\ at' = [at EXCEPT !.entries = Append(@, entry.x)] /\ Go(pc, entry.r) /\ UNCHANGED FH
    BY DEF ReadPlainEntry, entry
  <1>4. CASE \E e : Fail(e)
    BY <1>4, FailKeeps
  <1>5. CASE /\ Len(at.entries) < at.plain
             /\ at' = [at EXCEPT !.entries = Append(@, entry.x)] /\ Go(pc, entry.r) /\ UNCHANGED FH
    <2>1. /\ at \in [len : Nat, plain : Nat, method : 0..3, m : Nat \cup {-1}, entries : Seq(Int)]
          /\ at.len \in 1..Allocated[k].entries /\ at.plain <= at.len /\ Len(at.entries) <= at.len
          /\ InRange(k, at.entries)
          /\ at.plain = IF at.method = 0 THEN at.len ELSE Len(Methods(k)[at.method])
          /\ at.m # -1 => at.method # 0 /\ at.plain <= Len(at.entries)
      BY <1>1 DEF InEntries
    <2>2. PICK longer : longer = Append(at.entries, entry.x)
      OBVIOUS
    <2>3. InRange(k, longer) /\ Len(longer) = Len(at.entries) + 1 /\ longer \in Seq(Int)
      BY <2>1, <2>2, <1>2, OneMoreEntry DEF InRange
    <2>4. /\ at' = [len |-> at.len, plain |-> at.plain, method |-> at.method, m |-> at.m, entries |-> longer]
          /\ Len(at.entries) \in Nat
      <3>1. at' = [at EXCEPT !.entries = longer]
        BY <2>2, <1>5
      <3> QED BY <2>1, <3>1
    <2>5. at'.len = at.len /\ at'.plain = at.plain /\ at'.method = at.method /\ at'.m = at.m /\ at'.entries = longer
      BY <2>4
    <2>6. at' \in [len : Nat, plain : Nat, method : 0..3, m : Nat \cup {-1}, entries : Seq(Int)]
      BY <2>1, <2>3, <2>4
    <2>7. Len(longer) <= at.len /\ (at.m # -1 => at.plain <= Len(longer))
      BY <2>1, <2>3, <2>4, <1>5
    <2>8. InEntries(at', k)
      BY <2>1, <2>3, <2>5, <2>6, <2>7 DEF InEntries
    <2> QED BY <2>8, <1>1, <1>2, <1>5, EntriesKeep
  <1> QED BY <1>3, <1>4, <1>5

\* The parameter of the Rice code.
LEMMA RiceMKeeps == \A k \in Kinds : UnpackInv /\ ReadRiceM(k) => UnpackInv'
  <1> SUFFICES ASSUME NEW k \in Kinds, UnpackInv, ReadRiceM(k) PROVE UnpackInv'
    OBVIOUS
  <1> DEFINE m == Unsigned(bytes, S, SIZE_RICEM)
  <1>1. pc = AtEntries(k) /\ S \in Readers /\ pc \in {TableOf(k), AtEntries(k)} /\ InEntries(at, k)
    BY AtTheTables DEF ReadRiceM, UnpackInv, LoopsOK
  <1>2. m.r \in Readers /\ m.x \in Nat
    BY <1>1, OneBit, Sizes
  <1> HIDE DEF m
  <1>3. \/ \E e : Fail(e)
        \/ /\ Len(at.entries) = at.plain /\ at.plain < at.len
           /\ at' = [at EXCEPT !.m = m.x] /\ Go(pc, m.r) /\ UNCHANGED FH
    BY DEF ReadRiceM, m
  <1>4. CASE \E e : Fail(e)
    BY <1>4, FailKeeps
  <1>5. CASE /\ Len(at.entries) = at.plain /\ at.plain < at.len
             /\ at' = [at EXCEPT !.m = m.x] /\ Go(pc, m.r) /\ UNCHANGED FH
    <2>1. /\ at \in [len : Nat, plain : Nat, method : 0..3, m : Nat \cup {-1}, entries : Seq(Int)]
          /\ at.len \in 1..Allocated[k].entries /\ at.plain <= at.len /\ Len(at.entries) <= at.len
          /\ InRange(k, at.entries)
          /\ at.plain = IF at.method = 0 THEN at.len ELSE Len(Methods(k)[at.method])
      BY <1>1 DEF InEntries
    <2>2. at' = [len |-> at.len, plain |-> at.plain, method |-> at.method, m |-> m.x, entries |-> at.entries]
      BY <2>1, <1>5
    <2>3. at'.len = at.len /\ at'.plain = at.plain /\ at'.method = at.method /\ at'.m = m.x /\ at'.entries = at.entries
      BY <2>2
    <2>4. at' \in [len : Nat, plain : Nat, method : 0..3, m : Nat \cup {-1}, entries : Seq(Int)]
      BY <2>1, <2>2, <1>2
    <2>5. at.method # 0 /\ at.plain <= Len(at.entries)
      BY <2>1, <1>5
    <2>6. InEntries(at', k)
      BY <2>1, <2>3, <2>4, <2>5 DEF InEntries
    <2> QED BY <2>6, <1>1, <1>2, <1>5, EntriesKeep
  <1> QED BY <1>3, <1>4, <1>5

\* The sum by which an entry is predicted.
LEMMA PredictedIsInt ==
    ASSUME NEW methods \in Seq(Int), NEW entries \in Seq(Int), Len(methods) <= Len(entries)
    PROVE  Predicted(methods, entries) \in Int
  <1> DEFINE n == Len(methods)
             turn(i, x) == IF i \in 1..n THEN x + methods[i] * entries[Len(entries) - i + 1] ELSE x
             F == [i \in Nat |-> [x \in Int |-> turn(i, x)]]
  <1>1. n \in Nat /\ Len(entries) \in Nat /\ n <= Len(entries)
    OBVIOUS
  <1>2. ASSUME NEW i \in Nat, NEW x \in Int PROVE turn(i, x) \in Int
    <2>1. CASE i \in 1..n
      <3>1. PICK a \in Int : a = methods[i]
        BY <2>1
      <3>2. Len(entries) - i + 1 \in 1..Len(entries)
        BY <2>1, <1>1
      <3>3. PICK b \in Int : b = entries[Len(entries) - i + 1]
        BY <3>2
      <3>4. a * b \in Int
        OBVIOUS
      <3> QED BY <2>1, <3>1, <3>3, <3>4
    <2>2. CASE i \notin 1..n
      BY <2>2
    <2> QED BY <2>1, <2>2
  <1>3. F \in [Nat -> [Int -> Int]]
    BY <1>2
  <1>4. \A i \in Nat : \A x \in Int : F[i][x] = turn(i, x)
    OBVIOUS
  <1> HIDE DEF F
  <1>5. PICK f \in [0..n -> Int] : IsLoop(f, 0, F, 0..n)
    <2>1. 0 \in Int
      OBVIOUS
    <2> HIDE DEF n
    <2> QED BY <2>1, <1>1, <1>3, Loop
  <1>6. ASSUME NEW i \in 0..n
        PROVE  (IF i = 0 THEN 0 ELSE F[i][f[i - 1]])
                 = IF i = 0 THEN 0 ELSE f[i - 1] + methods[i] * entries[Len(entries) - i + 1]
    <2>1. ASSUME i # 0 PROVE i \in Nat /\ i \in 1..n /\ f[i - 1] \in Int
      <3> HIDE DEF n
      <3>1. i \in Nat /\ i \in 1..n /\ i - 1 \in 0..n
        BY <2>1, <1>1
      <3> QED BY <3>1
    <2> QED BY <2>1, <1>4
  <1>7. f = [i \in 0..n |-> IF i = 0 THEN 0 ELSE f[i - 1] + methods[i] * entries[Len(entries) - i + 1]]
    BY <1>5, <1>6 DEF IsLoop
  <1> DEFINE x == CHOOSE x : x = [tap \in 0..n |-> IF tap = 0 THEN 0
                                   ELSE x[tap - 1] + methods[tap] * entries[Len(entries) - tap + 1]]
  <1>8. x = [tap \in 0..n |-> IF tap = 0 THEN 0 ELSE x[tap - 1] + methods[tap] * entries[Len(entries) - tap + 1]]
    BY <1>7
  <1>9. Predicted(methods, entries) = IF x[n] >= 0 THEN -((x[n] + 4) \div 8) ELSE (3 - x[n]) \div 8
    BY DEF Predicted
  <1> HIDE DEF x
  <1> DEFINE N == {i \in Nat : i <= n => x[i] \in Int}
  <1>10. 0 \in N
    BY <1>8
  <1>11. ASSUME NEW i \in Nat, i \in N PROVE i + 1 \in N
    <2>1. SUFFICES ASSUME i + 1 <= n PROVE x[i + 1] \in Int
      OBVIOUS
    <2>2. x[i] \in Int /\ i + 1 \in 1..n /\ (i + 1) - 1 = i
      BY <2>1, <1>11
    <2>3. x[i + 1] = x[(i + 1) - 1] + methods[i + 1] * entries[Len(entries) - (i + 1) + 1]
      BY <2>2, <1>8
    <2>4. turn(i + 1, x[i]) = x[i + 1]
      BY <2>2, <2>3
    <2>5. i + 1 \in Nat
      OBVIOUS
    <2>6. turn(i + 1, x[i]) \in Int
      <3> HIDE DEF turn
      <3> QED BY <2>2, <2>5, <1>2
    <2> QED BY <2>4, <2>6
  <1> HIDE DEF N
  <1>12. Nat \subseteq N
    BY <1>10, <1>11, Induct
  <1>13. PICK y \in Int : y = x[n]
    BY <1>1, <1>12 DEF N
  <1> QED BY <1>9, <1>13

LEMMA StartIsNat ==
    ASSUME NEW r \in Readers
    PROVE  get_in_bitcount(r) \in Nat
  BY DEF Readers, get_in_bitcount

\* RiceDecode gives a number and a reader, if the bits do not run out.
LEMMA RiceIs ==
    ASSUME NEW r \in Readers, NEW m \in Nat, bytes \in Seq(Int), ~RiceDecode(r, m).eof
    PROVE  RiceDecode(r, m).x \in Int /\ RiceDecode(r, m).r \in Readers
  <1> DEFINE start == get_in_bitcount(r)
             ends == {k \in 0..Len(bytes) * 8 - start - 1 : BitAt(bytes, start + k) = 1}
             RunLength == CHOOSE k \in ends : \A j \in ends : k <= j
             LSBs == Unsigned(bytes, ReaderAt(bytes, start + RunLength + 1), m)
             Nr == RunLength * Pow2[m] + LSBs.x
             Sign == IF Nr = 0 THEN [LSBs EXCEPT !.x = 0] ELSE Unsigned(bytes, LSBs.r, 1)
  <1>1. RiceDecode(r, m) = IF ends = {} THEN [eof |-> TRUE]
                           ELSE [x |-> IF Sign.x = 1 THEN -Nr ELSE Nr, r |-> Sign.r, eof |-> Sign.eof]
    BY DEF RiceDecode
  <1>2. start \in Nat
    BY StartIsNat
  <1> HIDE DEF start
  <1>3. ends \in SUBSET Nat
    OBVIOUS
  <1>4. ends # {}
    <2> HIDE DEF Sign, Nr, ends
    <2> QED BY <1>1
  <1>5. \A k \in ends : k \in 0..Len(bytes) * 8 - start - 1
    OBVIOUS
  <1> HIDE DEF ends
  <1>6. \E k \in ends : \A j \in ends : k <= j
    BY <1>3, <1>4, LeastOf
  <1>7. RunLength \in ends
    BY <1>6
  <1>8. RunLength \in Nat /\ start + RunLength + 1 \in 0..Len(bytes) * 8
    <2> HIDE DEF RunLength
    <2>1. RunLength \in 0..Len(bytes) * 8 - start - 1
      BY <1>5, <1>7
    <2> QED BY <1>2, <2>1
  <1> HIDE DEF RunLength
  <1>9. ReaderAt(bytes, start + RunLength + 1) \in Readers
    BY <1>8, ReaderAtReads
  <1>10. PICK got \in Reads(m) : got = LSBs
    BY <1>9, GetbitsReads DEF Unsigned
  <1>11. LSBs.r \in Readers /\ LSBs.x \in Nat /\ [got EXCEPT !.x = 0].r \in Readers
    <2>1. got.r \in Readers /\ got.x \in Nat /\ got = [r |-> got.r, x |-> got.x, left |-> got.left, eof |-> got.eof]
      BY DEF Reads
    <2>2. [got EXCEPT !.x = 0] = [r |-> got.r, x |-> 0, left |-> got.left, eof |-> got.eof]
      BY <2>1
    <2> HIDE DEF LSBs
    <2> QED BY <1>10, <2>1, <2>2
  <1> HIDE DEF LSBs
  <1>12. Nr \in Nat
    <2>1. PICK p \in Nat : p = Pow2[m]
      BY Pow2Larger
    <2>2. PICK x \in Nat : x = LSBs.x
      BY <1>11
    <2>3. PICK l \in Nat : l = RunLength
      BY <1>8
    <2>4. Nr = l * p + x
      BY <2>1, <2>2, <2>3
    <2>5. l * p + x \in Nat
      OBVIOUS
    <2> QED BY <2>4, <2>5
  <1> HIDE DEF Nr
  <1>13. Unsigned(bytes, LSBs.r, 1).r \in Readers
    BY <1>11, UnsignedReads
  <1>14. Sign.r \in Readers
    BY <1>10, <1>11, <1>13
  <1> HIDE DEF Sign
  <1> QED BY <1>1, <1>4, <1>12, <1>14

\* An entry by its difference to the prediction; out of range it is refused.
LEMMA PredictedEntryKeeps == \A k \in Kinds : UnpackInv /\ ReadPredictedEntry(k) => UnpackInv'
  <1> SUFFICES ASSUME NEW k \in Kinds, UnpackInv, ReadPredictedEntry(k) PROVE UnpackInv'
    OBVIOUS
  <1> DEFINE code == RiceDecode(S, at.m)
             predicted == Predicted(Coding(k).methods[at.method], at.entries)
             c == code.x + predicted
  <1>1. /\ pc = AtEntries(k) /\ S \in Readers /\ pc \in {TableOf(k), AtEntries(k)} /\ bytes \in Seq(Int) /\ InEntries(at, k)
        /\ at.m # -1 /\ Len(at.entries) < at.len
    BY AtTheTables DEF ReadPredictedEntry, UnpackInv, LoopsOK
  <1>2. /\ at \in [len : Nat, plain : Nat, method : 0..3, m : Nat \cup {-1}, entries : Seq(Int)]
        /\ at.len \in 1..Allocated[k].entries /\ at.plain <= at.len /\ Len(at.entries) <= at.len
        /\ InRange(k, at.entries)
        /\ at.plain = IF at.method = 0 THEN at.len ELSE Len(Methods(k)[at.method])
        /\ at.method # 0 /\ at.plain <= Len(at.entries)
    BY <1>1 DEF InEntries
  <1>3. at.m \in Nat /\ at.method \in 1..3
    BY <1>1, <1>2
  <1>4. predicted \in Int
    <2>1. Coding(k).methods = Methods(k) /\ Methods(k)[at.method] \in Seq(Int) /\ Len(Methods(k)[at.method]) <= Len(at.entries)
      BY <1>2, <1>3, CodingIs, MethodIs
    <2> QED BY <2>1, <1>2, PredictedIsInt
  <1>5. ~code.eof => code.x \in Int /\ code.r \in Readers
    BY <1>1, <1>3, RiceIs
  <1>6. \/ \E e : Fail(e)
        \/ Undefined
        \/ /\ ~code.eof /\ ~(c < Coding(k).least \/ c > Coding(k).most)
           /\ at' = [at EXCEPT !.entries = Append(@, c)] /\ Go(pc, code.r) /\ UNCHANGED FH
    BY DEF ReadPredictedEntry
  <1> HIDE DEF code, predicted
  <1>7. CASE \E e : Fail(e)
    BY <1>7, FailKeeps
  <1>8. CASE Undefined
    <2>1. pc \notin {"failed", "done"}
      BY <1>1 DEF AtEntries
    <2> QED BY <1>8, <2>1, UndefinedKeeps
  <1>9. CASE /\ ~code.eof /\ ~(c < Coding(k).least \/ c > Coding(k).most)
             /\ at' = [at EXCEPT !.entries = Append(@, c)] /\ Go(pc, code.r) /\ UNCHANGED FH
    <2>1. c \in EntryRange(k)
      <3>1. c \in Int
        BY <1>4, <1>5, <1>9
      <3> HIDE DEF c
      <3> QED BY <3>1, <1>9, CodingIs
    <2> HIDE DEF c
    <2>2. PICK longer : longer = Append(at.entries, c)
      OBVIOUS
    <2>3. InRange(k, longer) /\ Len(longer) = Len(at.entries) + 1 /\ longer \in Seq(Int)
      BY <2>1, <2>2, <1>2, OneMoreEntry DEF InRange
    <2>4. /\ at' = [len |-> at.len, plain |-> at.plain, method |-> at.method, m |-> at.m, entries |-> longer]
          /\ Len(at.entries) \in Nat
      <3>1. at' = [at EXCEPT !.entries = longer]
        BY <2>2, <1>9
      <3> QED BY <1>2, <3>1
    <2>5. at'.len = at.len /\ at'.plain = at.plain /\ at'.method = at.method /\ at'.m = at.m /\ at'.entries = longer
      BY <2>4
    <2>6. at' \in [len : Nat, plain : Nat, method : 0..3, m : Nat \cup {-1}, entries : Seq(Int)]
      BY <1>2, <2>3, <2>4
    <2>7. Len(longer) <= at.len /\ at.plain <= Len(longer)
      BY <1>1, <1>2, <2>3, <2>4
    <2>8. InEntries(at', k)
      BY <1>2, <2>3, <2>5, <2>6, <2>7 DEF InEntries
    <2> QED BY <2>8, <1>1, <1>5, <1>9, EntriesKeep
  <1> QED BY <1>6, <1>7, <1>8, <1>9

\* The table is complete, and after the last the next part of the header.
LEMMA EndOfTableKeeps == \A k \in Kinds : UnpackInv /\ EndOfTable(k) => UnpackInv'
  <1> SUFFICES ASSUME NEW k \in Kinds, UnpackInv, EndOfTable(k) PROVE UnpackInv'
    OBVIOUS
  <1>1. pc = AtEntries(k) /\ S \in Readers /\ InEntries(at, k) /\ Len(at.entries) = at.len /\ Finish(k, at.entries, S)
    BY DEF EndOfTable, UnpackInv, LoopsOK
  <1>2. TableFits(k, at.entries)
    BY <1>1 DEF InEntries, TableFits
  <1> QED BY <1>1, <1>2, FinishKeeps

LEMMA EndOfAllTablesKeeps == \A k \in Kinds : UnpackInv /\ EndOfAllTables(k) => UnpackInv'
  <1> SUFFICES ASSUME NEW k \in Kinds, UnpackInv, EndOfAllTables(k) PROVE UnpackInv'
    OBVIOUS
  <1>1. /\ pc = TableOf(k) /\ Len(Done(FH, k)) = FH[k].NrOfTables
        /\ Go(IF k = "F" THEN "ptables" ELSE "data", S) /\ UNCHANGED <<FH, at>>
    <2>1. Coding(k).done = Done(FH, k) /\ Coding(k).next = IF k = "F" THEN "ptables" ELSE "data"
      BY CodingIs
    <2> QED BY <2>1 DEF EndOfAllTables
  <1>2. S \in Readers /\ FH \in HeaderType /\ bytes \in Seq(Int) /\ error = "NoError" /\ HeaderOK(FH, TableOf(k))
    BY <1>1, AtTheTables
  <1> USE DEF FiltersSegmented, BothSegmented, FiltersMapped, BothMapped, FiltersRead, AllTablesRead
  <1>3. CASE k = "F"
    <2>1. HeaderOK(FH, "filters") /\ Len(FH.filters) = FH.F.NrOfTables
      BY <1>1, <1>2, <1>3 DEF TableOf, Done
    <2>2. HeaderOK(FH, "ptables")
      BY <2>1 DEF HeaderOK
    <2> QED BY <1>1, <1>2, <1>3, <2>2, NoLoop DEF UnpackInv, Go
  <1>4. CASE k = "P"
    <2>1. HeaderOK(FH, "ptables") /\ Len(FH.ptables) = FH.P.NrOfTables
      BY <1>1, <1>2, <1>4 DEF TableOf, Done
    <2>2. HeaderOK(FH, "data")
      BY <2>1 DEF HeaderOK
    <2> QED BY <1>1, <1>2, <1>4, <2>2, NoLoop DEF UnpackInv, Go
  <1> QED BY <1>3, <1>4 DEF Kinds

\* ReadArithmeticCodedData takes the rest of the bits.
LEMMA BitAtIsInt ==
    ASSUME NEW data \in Seq(Int), NEW i \in 0..Len(data) * 8 - 1
    PROVE  BitAt(data, i) \in Int
  <1>1. i \div 8 + 1 \in 1..Len(data) /\ 7 - (i % 8) \in Nat
    OBVIOUS
  <1>2. PICK b \in Int : b = data[i \div 8 + 1]
    BY <1>1
  <1>3. PICK p \in Nat : p = Pow2[7 - (i % 8)] /\ p > 0
    BY <1>1, Pow2Larger
  <1>4. PICK q \in Int : q = b \div p
    BY <1>3
  <1> QED BY <1>2, <1>3, <1>4 DEF BitAt

LEMMA ArithmeticCodedDataKeeps == UnpackInv /\ ReadArithmeticCodedData => UnpackInv'
  <1> SUFFICES ASSUME UnpackInv, ReadArithmeticCodedData PROVE UnpackInv'
    OBVIOUS
  <1> DEFINE start == get_in_bitcount(S)
             AData == [i \in 1..Len(bytes) * 8 - start |-> BitAt(bytes, start + i - 1)]
  <1>1. /\ pc = "data" /\ S \in Readers /\ FH \in HeaderType /\ bytes \in Seq(Int) /\ error = "NoError"
        /\ HeaderOK(FH, "data")
    BY DEF ReadArithmeticCodedData, UnpackInv
  <1>2. start \in Nat
    BY <1>1, StartIsNat
  <1>3. \/ \E e : Fail(e)
        \/ FH' = [FH EXCEPT !.data = AData] /\ Go("decode", ReaderAt(bytes, Len(bytes) * 8)) /\ UNCHANGED at
    BY DEF ReadArithmeticCodedData
  <1> HIDE DEF start
  <1>4. CASE \E e : Fail(e)
    BY <1>4, FailKeeps
  <1>5. CASE FH' = [FH EXCEPT !.data = AData] /\ Go("decode", ReaderAt(bytes, Len(bytes) * 8)) /\ UNCHANGED at
    <2>1. PICK n \in Nat : 1..n = 1..Len(bytes) * 8 - start /\ (n > 0 => n = Len(bytes) * 8 - start)
      <3>1. PICK l \in Nat : l = Len(bytes)
        BY <1>1
      <3>2. CASE l * 8 - start >= 0
        <4>1. l * 8 - start \in Nat
          BY <3>2, <1>2
        <4> QED BY <3>1, <4>1
      <3>3. CASE ~(l * 8 - start >= 0)
        <4>1. 1..l * 8 - start = {} /\ 1..0 = {}
          BY <3>3, <1>2
        <4>2. 1..0 = 1..l * 8 - start
          BY <4>1
        <4>3. 0 \in Nat /\ (0 > 0 => 0 = l * 8 - start)
          OBVIOUS
        <4> QED BY <3>1, <4>2, <4>3
      <3> QED BY <3>2, <3>3
    <2>2. ASSUME NEW i \in 1..n PROVE BitAt(bytes, start + i - 1) \in Int
      <3>1. start + i - 1 \in 0..Len(bytes) * 8 - 1
        BY <2>1, <1>1, <1>2
      <3> QED BY <3>1, <1>1, BitAtIsInt
    <2>3. AData \in Seq(Int)
      <3>1. AData = [i \in 1..n |-> BitAt(bytes, start + i - 1)]
        BY <2>1
      <3>2. AData \in [1..n -> Int]
        <4> HIDE DEF AData
        <4> QED BY <2>2, <3>1
      <3>3. [1..n -> Int] \subseteq Seq(Int)
        <4>1. [1..n -> Int] \in {[1..m -> Int] : m \in Nat}
          OBVIOUS
        <4> QED BY <4>1, SeqDef, Zenon
      <3> HIDE DEF AData
      <3> QED BY <3>2, <3>3
    <2> HIDE DEF AData
    <2>4. /\ FH' \in HeaderType /\ FH'.filters = FH.filters /\ FH'.ptables = FH.ptables
          /\ FH'.F = FH.F /\ FH'.P = FH.P
      BY <1>1, <1>5, <2>3 DEF HeaderType
    <2>5. \A j \in Kinds : Done(FH', j) = Done(FH, j)
      BY <2>4 DEF Done
    <2>6. HeaderOK(FH', "decode")
      BY <1>1, <2>4, <2>5
         DEF HeaderOK, FiltersSegmented, BothSegmented, FiltersMapped, BothMapped, FiltersRead, AllTablesRead
    <2>7. ReaderAt(bytes, Len(bytes) * 8) \in Readers
      <3>1. Len(bytes) * 8 \in 0..Len(bytes) * 8
        BY <1>1
      <3> QED BY <3>1, <1>1, ReaderAtReads
    <2> QED BY <1>1, <1>5, <2>4, <2>6, <2>7, NoLoop DEF UnpackInv, Go
  <1> QED BY <1>3, <1>4, <1>5

\* Whatever is read next.
LEMMA UnpackKeeps == UnpackInv /\ UnpackDSTframe => UnpackInv'
  <1> SUFFICES ASSUME UnpackInv, UnpackDSTframe PROVE UnpackInv'
    OBVIOUS
  <1>1. "F" \in Kinds /\ "P" \in Kinds
    BY DEF Kinds
  <1>2. CASE ReadHeaderByte \/ ReadDSDframe
    BY <1>2, HeaderByteKeeps, DSDframeKeeps
  <1>3. CASE \E k \in Kinds : ReadTableSegmentData(k)
    BY <1>3, SameSegAllChKeeps, TooManySegmentsKeeps, EndOfSegmentsKeeps, NextSegmentKeeps DEF ReadTableSegmentData
  <1>4. CASE CopySegmentData \/ ReadSameMapAsF
    BY <1>4, CopySegmentDataKeeps, SameMapAsFKeeps
  <1>5. CASE \E k \in Kinds : ReadTableMappingData(k)
    BY <1>5, SameMapAllChKeeps, TableNumberKeeps, EndOfTablesKeeps DEF ReadTableMappingData
  <1>6. CASE CopyMappingData \/ ReadHalfProb
    BY <1>6, CopyMappingDataKeeps, HalfProbKeeps
  <1>7. CASE \E k \in Kinds : \/ ReadTableHead(k) \/ ReadPlainEntry(k) \/ ReadRiceM(k)
                              \/ ReadPredictedEntry(k) \/ EndOfTable(k) \/ EndOfAllTables(k)
    BY <1>7, TableHeadKeeps, PlainEntryKeeps, RiceMKeeps, PredictedEntryKeeps, EndOfTableKeeps, EndOfAllTablesKeeps
  <1>8. CASE ReadArithmeticCodedData
    BY <1>8, ArithmeticCodedDataKeeps
  <1> QED BY <1>1, <1>2, <1>3, <1>4, <1>5, <1>6, <1>7, <1>8
          DEF UnpackDSTframe, ReadFilterCoefSets, ReadProbabilityTables
------------------------------------------------------------------------------
(* Sums.                                                                   *)

\* x adds up the numbers of d.
Adds(x, d, n) == x = [i \in 0..n |-> IF i = 0 THEN 0 ELSE x[i - 1] + d[i]]

\* The sum is there, there is one, and it is a number.
LEMMA AddsUp ==
    ASSUME NEW n \in Nat, NEW d \in [1..n -> Int]
    PROVE  /\ \E x : Adds(x, d, n)
           /\ \A x : Adds(x, d, n) =>
                x \in [0..n -> Int] /\ x[0] = 0 /\ \A i \in 1..n : x[i] = x[i - 1] + d[i]
  <1> DEFINE F == [i \in Nat |-> [x \in Int |-> IF i \in 1..n THEN x + d[i] ELSE x]]
  <1>1. F \in [Nat -> [Int -> Int]] /\ 0 \in Int
    OBVIOUS
  <1>2. \A i \in 1..n : \A x \in Int : F[i][x] = x + d[i]
    OBVIOUS
  <1> HIDE DEF F
  <1>3. PICK f \in [0..n -> Int] : IsLoop(f, 0, F, 0..n)
    BY <1>1, Loop
  <1>4. ASSUME NEW i \in 0..n
        PROVE  (IF i = 0 THEN 0 ELSE F[i][f[i - 1]]) = IF i = 0 THEN 0 ELSE f[i - 1] + d[i]
    <2>1. ASSUME i # 0 PROVE i \in 1..n /\ f[i - 1] \in Int
      <3>1. i \in 1..n /\ i - 1 \in 0..n
        BY <2>1
      <3> QED BY <3>1
    <2> QED BY <2>1, <1>2
  <1>5. Adds(f, d, n)
    BY <1>3, <1>4 DEF IsLoop, Adds
  <1>6. ASSUME NEW x, Adds(x, d, n)
        PROVE  x \in [0..n -> Int] /\ x[0] = 0 /\ \A i \in 1..n : x[i] = x[i - 1] + d[i]
    <2>1. x[0] = 0 /\ \A i \in 1..n : x[i] = x[i - 1] + d[i]
      BY <1>6 DEF Adds
    <2> DEFINE N == {i \in Nat : i <= n => x[i] \in Int}
    <2>2. 0 \in N
      BY <2>1
    <2>3. ASSUME NEW i \in Nat, i \in N PROVE i + 1 \in N
      <3>1. SUFFICES ASSUME i + 1 <= n PROVE x[i + 1] \in Int
        OBVIOUS
      <3>2. x[i] \in Int /\ i + 1 \in 1..n /\ (i + 1) - 1 = i
        BY <3>1, <2>3
      <3>3. x[i + 1] = x[(i + 1) - 1] + d[i + 1] /\ d[i + 1] \in Int
        BY <3>2, <2>1
      <3> QED BY <3>2, <3>3
    <2> HIDE DEF N
    <2>4. Nat \subseteq N
      BY <2>2, <2>3, Induct
    <2>5. \A i \in 0..n : x[i] \in Int
      BY <2>4 DEF N
    <2>6. x = [i \in 0..n |-> x[i]]
      BY <1>6 DEF Adds
    <2> QED BY <2>1, <2>5, <2>6
  <1> QED BY <1>5, <1>6
------------------------------------------------------------------------------
(* The arithmetic decoder keeps its register between one half and one.     *)

\* The registers of the arithmetic decoder.
LEMMA Registers ==
    /\ ABITS \in Nat \ {0} /\ ONE \in Nat /\ HALF \in Nat /\ HALF >= 1 /\ ONE = 2 * HALF
    /\ AC_BITS - 1 \in Nat /\ Pow2[AC_BITS - 1] \in Nat /\ Pow2[AC_BITS - 1] >= 1
    /\ Pow2[AC_BITS] = 2 * Pow2[AC_BITS - 1]
    /\ \E h \in Nat \ {0} : HALF = 2 * h * Pow2[AC_BITS] /\ ONE = 4 * h * Pow2[AC_BITS]
  <1>1. NBITS - 2 \in Nat /\ AC_BITS \in Nat /\ AC_BITS - 1 \in Nat
    BY FrameAssumption, Sizes
  <1>2. ABITS \in Nat /\ ABITS > 0 /\ ABITS - 1 \in Nat
    BY <1>1, FrameAssumption DEF ABITS, PBITS
  <1>3. ONE = 2 * HALF /\ HALF \in Nat /\ HALF >= 1
    BY <1>2, Pow2Down, Pow2Larger DEF ONE, HALF
  <1>4. Pow2[AC_BITS] = 2 * Pow2[AC_BITS - 1] /\ Pow2[AC_BITS - 1] \in Nat /\ Pow2[AC_BITS - 1] >= 1
    BY <1>1, Pow2Down, Pow2Larger, Sizes
  <1>5. PICK h \in Nat \ {0} : h = Pow2[NBITS - 2]
    BY <1>1, Pow2Larger
  <1>6. Pow2[NBITS - 1] = 2 * h /\ NBITS - 1 \in Nat
    <2>1. NBITS - 1 \in Nat /\ NBITS - 1 > 0 /\ (NBITS - 1) - 1 = NBITS - 2
      BY FrameAssumption
    <2> QED BY <2>1, <1>5, Pow2Down
  <1>7. Pow2[AC_BITS + (NBITS - 1)] = Pow2[AC_BITS] * (2 * h)
    BY <1>1, <1>6, Pow2Plus
  <1>8. ABITS - 1 = AC_BITS + (NBITS - 1)
    BY <1>1, FrameAssumption DEF ABITS, PBITS
  <1>9. HALF = 2 * h * Pow2[AC_BITS]
    <2>1. PICK p \in Nat : p = Pow2[AC_BITS]
      BY <1>1, Pow2Larger
    <2>2. HALF = p * (2 * h)
      BY <1>7, <1>8, <2>1 DEF HALF
    <2> QED BY <2>1, <2>2
  <1>10. ONE = 4 * h * Pow2[AC_BITS]
    <2>1. PICK p \in Nat : p = Pow2[AC_BITS]
      BY <1>1, Pow2Larger
    <2>2. ONE = 2 * (2 * h * p)
      BY <1>3, <1>9, <2>1
    <2> QED BY <2>1, <2>2
  <1> QED BY <1>2, <1>3, <1>4, <1>1, <1>9, <1>10

\* The registers, with a width that is not 0.
ACs == [A : 1..ONE - 1, C : Int, cbptr : Nat]

LEMMA CodeBitIsInt ==
    ASSUME FH \in HeaderType, NEW i \in Nat
    PROVE  CodeBit(i) \in Int
  <1>1. FH.data \in Seq(Int)
    BY DEF HeaderType
  <1>2. i < Len(FH.data) => i + 1 \in 1..Len(FH.data)
    BY <1>1
  <1> QED BY <1>1, <1>2 DEF CodeBit, fs

\* One turn of the loop of Normalise.
Doubled(ac) == IF ac.A >= HALF THEN ac
               ELSE [A |-> ac.A * 2, C |-> ac.C * 2 + CodeBit(ac.cbptr), cbptr |-> ac.cbptr + 1]

\* A turn doubles a width below one half.
LEMMA DoubledIs ==
    ASSUME FH \in HeaderType, NEW ac \in ACs
    PROVE  Doubled(ac) \in ACs /\ Doubled(ac).A = IF ac.A >= HALF THEN ac.A ELSE ac.A * 2
  <1>1. ac.A \in 1..ONE - 1 /\ ac.C \in Int /\ ac.cbptr \in Nat /\ CodeBit(ac.cbptr) \in Int
    BY CodeBitIsInt DEF ACs
  <1>2. CASE ac.A >= HALF
    BY <1>2 DEF Doubled
  <1>3. CASE ~(ac.A >= HALF)
    <2>1. Doubled(ac) = [A |-> ac.A * 2, C |-> ac.C * 2 + CodeBit(ac.cbptr), cbptr |-> ac.cbptr + 1]
      BY <1>3 DEF Doubled
    <2>2. ac.A * 2 \in 1..ONE - 1
      BY <1>1, <1>3, Registers
    <2>3. ac.C * 2 + CodeBit(ac.cbptr) \in Int
      BY <1>1
    <2> QED BY <1>1, <1>3, <2>1, <2>2, <2>3 DEF ACs
  <1> QED BY <1>2, <1>3

\* LT_ACDecodeBit_Decode shifts until the width is at least one half.
LEMMA NormaliseIs ==
    ASSUME FH \in HeaderType, NEW ac \in ACs
    PROVE  Normalise(ac) \in ACs /\ Normalise(ac).A >= HALF
  <1> DEFINE F == [i \in Nat |-> [s \in ACs |-> Doubled(s)]]
             n == ABITS
  <1>1. F \in [Nat -> [ACs -> ACs]] /\ n \in Nat
    BY DoubledIs, Registers
  <1>2. \A i \in Nat : \A s \in ACs : F[i][s] = Doubled(s)
    OBVIOUS
  <1> HIDE DEF F
  <1>3. PICK f \in [0..n -> ACs] : IsLoop(f, ac, F, 0..n)
    <2> HIDE DEF n
    <2> QED BY <1>1, Loop
  <1>4. ASSUME NEW i \in 0..n
        PROVE  (IF i = 0 THEN ac ELSE F[i][f[i - 1]]) = IF i = 0 THEN ac ELSE Doubled(f[i - 1])
    <2> HIDE DEF n
    <2>1. ASSUME i # 0 PROVE i \in Nat /\ f[i - 1] \in ACs
      <3>1. i \in Nat /\ i - 1 \in 0..n
        BY <2>1, <1>1
      <3> QED BY <3>1
    <2> QED BY <2>1, <1>2
  <1>5. f = [i \in 0..n |-> IF i = 0 THEN ac ELSE Doubled(f[i - 1])]
    BY <1>3, <1>4 DEF IsLoop
  <1> DEFINE loop == CHOOSE g : g = [k \in 0..n |-> IF k = 0 THEN ac ELSE Doubled(g[k - 1])]
  <1>6. loop = [k \in 0..n |-> IF k = 0 THEN ac ELSE Doubled(loop[k - 1])]
    BY <1>5
  <1>7. Normalise(ac) = loop[n]
    BY DEF Normalise, Doubled
  <1> HIDE DEF loop, n
  <1> DEFINE N == {i \in Nat : i <= n => loop[i] \in ACs /\ (loop[i].A >= HALF \/ loop[i].A >= Pow2[i])}
  <1>8. 0 \in N
    <2>1. loop[0] = ac /\ ac.A >= 1 /\ Pow2[0] = 1
      BY <1>1, <1>6, Pow2Is, Registers DEF ACs
    <2> QED BY <2>1
  <1>9. ASSUME NEW i \in Nat, i \in N PROVE i + 1 \in N
    <2>1. SUFFICES ASSUME i + 1 <= n
                   PROVE  loop[i + 1] \in ACs /\ (loop[i + 1].A >= HALF \/ loop[i + 1].A >= Pow2[i + 1])
      OBVIOUS
    <2>2. loop[i] \in ACs /\ (loop[i].A >= HALF \/ loop[i].A >= Pow2[i]) /\ i + 1 \in 0..n /\ i + 1 # 0 /\ (i + 1) - 1 = i
      BY <2>1, <1>1, <1>9
    <2>3. loop[i + 1] = Doubled(loop[i])
      BY <2>2, <1>6
    <2>4. Doubled(loop[i]) \in ACs /\ Doubled(loop[i]).A = IF loop[i].A >= HALF THEN loop[i].A ELSE loop[i].A * 2
      BY <2>2, DoubledIs
    <2>5. PICK a \in Nat : a = loop[i].A
      <3>1. loop[i].A \in 1..ONE - 1
        BY <2>2 DEF ACs
      <3> QED BY <3>1
    <2>6. PICK p \in Nat : p = Pow2[i] /\ Pow2[i + 1] = 2 * p
      BY Pow2Is
    <2>7. a >= HALF \/ a >= p
      BY <2>2, <2>5, <2>6
    <2>8. Doubled(loop[i]).A >= HALF \/ Doubled(loop[i]).A >= 2 * p
      BY <2>4, <2>5, <2>7, Registers
    <2> QED BY <2>3, <2>4, <2>6, <2>8
  <1> HIDE DEF N
  <1>10. Nat \subseteq N
    BY <1>8, <1>9, Induct
  <1>11. loop[n] \in ACs /\ (loop[n].A >= HALF \/ loop[n].A >= Pow2[n])
    BY <1>1, <1>10 DEF N
  <1>12. ~(loop[n].A >= Pow2[n])
    <2>1. loop[n].A \in 1..ONE - 1 /\ Pow2[n] = ONE
      BY <1>11 DEF ACs, n, ONE
    <2> QED BY <2>1, Registers
  <1> QED BY <1>7, <1>11, <1>12

\* The division of the interval.
LEMMA Division ==
    ASSUME NEW A \in Nat, NEW b \in Nat \ {0}, NEW p \in 1..b, NEW q \in Nat, q >= 2, q * (2 * b) <= A,
           NEW m \in Nat, m \in q..q + 1
    PROVE  m * p >= 1 /\ m * p \in Nat /\ A - m * p >= 1
  <1>1. m * p <= (q + 1) * b
    <2>1. m * p <= m * b
      OBVIOUS
    <2>2. m * b <= (q + 1) * b
      OBVIOUS
    <2>3. m * p \in Nat /\ m * b \in Nat /\ (q + 1) * b \in Nat
      OBVIOUS
    <2> QED BY <2>1, <2>2, <2>3
  <1>2. PICK x \in Nat : x = q * b
    OBVIOUS
  <1>3. (q + 1) * b = x + b /\ q * (2 * b) = 2 * x /\ x >= 2 * b
    BY <1>2
  <1>4. m * p \in Nat /\ m * p >= 1
    OBVIOUS
  <1>5. PICK y \in Nat : y = m * p
    BY <1>4
  <1>6. y <= x + b /\ 2 * x <= A
    BY <1>1, <1>3, <1>5
  <1> QED BY <1>3, <1>4, <1>5, <1>6

\* LT_ACDecodeBit_Decode: the bit is 0 or 1, whichever part of the interval it chooses.
LEMMA ACDecodeIs ==
    ASSUME FH \in HeaderType, NEW ac \in ACs, ac.A >= HALF, NEW p \in 1..Pow2[AC_BITS - 1]
    PROVE  LET decoded == ACDecode(ac, p) IN
           decoded.bit \in {0, 1} /\ decoded.ac \in ACs /\ decoded.ac.A >= HALF
  <1> DEFINE quotient == ac.A \div Pow2[PBITS]
             rounding == (ac.A \div Pow2[PBITS - 1]) % 2
             m == IF quotient % 2 = 0 THEN quotient + rounding ELSE quotient
             ap == m * p
             h == ac.A - ap
  <1>1. PICK A \in Nat : A = ac.A /\ A >= HALF /\ A <= ONE - 1
    BY Registers DEF ACs
  <1>2. PICK b \in Nat \ {0} : b = Pow2[AC_BITS - 1] /\ Pow2[AC_BITS] = 2 * b
    BY Registers
  <1>3. PICK q \in Nat : q = A \div (2 * b)
    BY <1>2
  <1>4. q * (2 * b) <= A /\ q >= 2
    <2>1. PICK g \in Nat \ {0} : HALF = 2 * g * (2 * b)
      BY <1>2, Registers
    <2>2. PICK x \in Nat \ {0} : x = 2 * b
      BY <1>2
    <2>3. q = A \div x /\ A >= 2 * g * x
      BY <1>1, <1>3, <2>1, <2>2, Registers
    <2>4. q * x <= A /\ A < (q + 1) * x
      BY <2>3
    <2>5. 2 * g * x >= 2 * x
      OBVIOUS
    <2>6. ~(q <= 1)
      <3>1. ASSUME q <= 1 PROVE FALSE
        <4>1. q = 0 \/ q = 1
          BY <3>1
        <4>2. (q + 1) * x <= 2 * x
          BY <4>1
        <4> QED BY <4>2, <2>3, <2>4, <2>5
      <3> QED BY <3>1
    <2> QED BY <2>2, <2>4, <2>6
  <1>5. quotient = q
    BY <1>1, <1>2, <1>3 DEF PBITS
  <1>6. rounding \in 0..1
    <2>1. PICK r \in Nat : r = A \div b
      BY <1>2
    <2>2. rounding = r % 2
      BY <1>1, <1>2, <2>1 DEF PBITS
    <2> HIDE DEF rounding
    <2> QED BY <2>2
  <1> HIDE DEF quotient, rounding
  <1>7. m \in q..q + 1 /\ m \in Nat
    BY <1>5, <1>6
  <1> HIDE DEF m
  <1>8. m * p >= 1 /\ m * p \in Nat /\ A - m * p >= 1
    BY <1>2, <1>4, <1>7, Division
  <1>9. ap \in 1..ONE - 1 /\ h \in 1..ONE - 1 /\ h \in Int
    BY <1>1, <1>8, Registers
  <1> HIDE DEF ap, h
  <1>10. ac.C \in Int /\ ac = [A |-> ac.A, C |-> ac.C, cbptr |-> ac.cbptr] /\ ac.cbptr \in Nat
    BY DEF ACs
  <1>11. ACDecode(ac, p) = IF ac.C >= h THEN [bit |-> 0, ac |-> Normalise([ac EXCEPT !.C = @ - h, !.A = ap])]
                           ELSE [bit |-> 1, ac |-> Normalise([ac EXCEPT !.A = h])]
    BY DEF ACDecode, h, ap, m, quotient, rounding
  <1>12. [ac EXCEPT !.C = @ - h, !.A = ap] \in ACs /\ [ac EXCEPT !.A = h] \in ACs
    <2>1. [ac EXCEPT !.C = @ - h, !.A = ap] = [A |-> ap, C |-> ac.C - h, cbptr |-> ac.cbptr]
      <3>1. PICK x : x = ac.C - h
        OBVIOUS
      <3>2. [ac EXCEPT !.C = @ - h, !.A = ap] = [[ac EXCEPT !.C = x] EXCEPT !.A = ap]
        BY <3>1
      <3>3. [ac EXCEPT !.C = x] = [A |-> ac.A, C |-> x, cbptr |-> ac.cbptr]
        BY <1>10
      <3>4. [[A |-> ac.A, C |-> x, cbptr |-> ac.cbptr] EXCEPT !.A = ap] = [A |-> ap, C |-> x, cbptr |-> ac.cbptr]
        OBVIOUS
      <3> QED BY <3>1, <3>2, <3>3, <3>4
    <2>2. [ac EXCEPT !.A = h] = [A |-> h, C |-> ac.C, cbptr |-> ac.cbptr]
      BY <1>10
    <2> QED BY <2>1, <2>2, <1>9, <1>10 DEF ACs
  <1>13. CASE ac.C >= h
    <2>1. ACDecode(ac, p) = [bit |-> 0, ac |-> Normalise([ac EXCEPT !.C = @ - h, !.A = ap])]
      BY <1>11, <1>13
    <2> QED BY <2>1, <1>12, NormaliseIs
  <1>14. CASE ~(ac.C >= h)
    <2>1. ACDecode(ac, p) = [bit |-> 1, ac |-> Normalise([ac EXCEPT !.A = h])]
      BY <1>11, <1>14
    <2> QED BY <2>1, <1>12, NormaliseIs
  <1> QED BY <1>13, <1>14

\* LT_ACDecodeBit_Init.
LEMMA ACInitIs ==
    ASSUME FH \in HeaderType
    PROVE  ACInit \in ACs /\ ACInit.A >= HALF
  <1> DEFINE n == ABITS
             F == [i \in Nat |-> [x \in Int |-> x * 2 + CodeBit(i)]]
  <1>1. F \in [Nat -> [Int -> Int]] /\ n \in Nat /\ 0 \in Int
    <2>1. ASSUME NEW i \in Nat, NEW x \in Int PROVE x * 2 + CodeBit(i) \in Int
      BY CodeBitIsInt
    <2> QED BY <2>1, Registers
  <1>2. \A i \in Nat : \A x \in Int : F[i][x] = x * 2 + CodeBit(i)
    OBVIOUS
  <1> HIDE DEF F
  <1>3. PICK f \in [0..n -> Int] : IsLoop(f, 0, F, 0..n)
    <2> HIDE DEF n
    <2> QED BY <1>1, Loop
  <1>4. ASSUME NEW i \in 0..n
        PROVE  (IF i = 0 THEN 0 ELSE F[i][f[i - 1]]) = IF i = 0 THEN 0 ELSE f[i - 1] * 2 + CodeBit(i)
    <2> HIDE DEF n
    <2>1. ASSUME i # 0 PROVE i \in Nat /\ f[i - 1] \in Int
      <3>1. i \in Nat /\ i - 1 \in 0..n
        BY <2>1, <1>1
      <3> QED BY <3>1
    <2> QED BY <2>1, <1>2
  <1>5. f = [i \in 0..n |-> IF i = 0 THEN 0 ELSE f[i - 1] * 2 + CodeBit(i)]
    BY <1>3, <1>4 DEF IsLoop
  <1> DEFINE C == CHOOSE C : C = [i \in 0..n |-> IF i = 0 THEN 0 ELSE C[i - 1] * 2 + CodeBit(i)]
  <1>6. C = [i \in 0..n |-> IF i = 0 THEN 0 ELSE C[i - 1] * 2 + CodeBit(i)]
    BY <1>5
  <1>7. ACInit = [A |-> ONE - 1, C |-> C[n], cbptr |-> n + 1]
    BY DEF ACInit
  <1> HIDE DEF C, n
  <1> DEFINE N == {i \in Nat : i <= n => C[i] \in Int}
  <1>8. 0 \in N
    BY <1>1, <1>6
  <1>9. ASSUME NEW i \in Nat, i \in N PROVE i + 1 \in N
    <2>1. SUFFICES ASSUME i + 1 <= n PROVE C[i + 1] \in Int
      OBVIOUS
    <2>2. C[i] \in Int /\ i + 1 \in 0..n /\ i + 1 # 0 /\ (i + 1) - 1 = i /\ i + 1 \in Nat
      BY <2>1, <1>1, <1>9
    <2>3. C[i + 1] = C[(i + 1) - 1] * 2 + CodeBit(i + 1) /\ CodeBit(i + 1) \in Int
      BY <2>2, <1>6, CodeBitIsInt
    <2> QED BY <2>2, <2>3
  <1> HIDE DEF N
  <1>10. Nat \subseteq N
    BY <1>8, <1>9, Induct
  <1>11. C[n] \in Int
    BY <1>1, <1>10 DEF N
  <1>12. ONE - 1 \in 1..ONE - 1 /\ ONE - 1 >= HALF
    BY Registers
  <1> QED BY <1>1, <1>7, <1>11, <1>12 DEF ACs

\* A number whose bits are put in another order, plus one.
LEMMA ReverseLSBsIs ==
    ASSUME NEW c \in Int
    PROVE  ReverseLSBs(c) \in 1..Pow2[AC_BITS - 1]
  <1> DEFINE n == AC_BITS - 1
             low == (c + Pow2[SIZE_PREDCOEF]) % Pow2[n]
             d == [i \in 1..n |-> ((low \div Pow2[i - 1]) % 2) * Pow2[n - i]]
  <1>1. n \in Nat /\ Pow2[n] \in Nat /\ Pow2[n] > 0
    BY Registers
  <1>2. low \in Nat
    <2>1. PICK a \in Int : a = c + Pow2[SIZE_PREDCOEF]
      BY Pow2Larger, Sizes
    <2>2. PICK b \in Nat \ {0} : b = Pow2[n]
      BY <1>1
    <2> QED BY <2>1, <2>2
  <1> HIDE DEF n, low
  <1>3. ASSUME NEW i \in 1..n PROVE d[i] \in {0, Pow2[n - i]} /\ Pow2[n - i] \in Nat
    <2>1. i - 1 \in Nat /\ n - i \in Nat
      BY <1>1
    <2>2. PICK b \in Nat \ {0} : b = Pow2[i - 1]
      BY <2>1, Pow2Larger
    <2>3. PICK q \in Nat : q = low \div b
      BY <1>2, <2>2
    <2>4. PICK p \in Nat : p = Pow2[n - i]
      BY <2>1, Pow2Larger
    <2>5. d[i] = (q % 2) * p
      BY <2>2, <2>3, <2>4
    <2>6. q % 2 = 0 \/ q % 2 = 1
      OBVIOUS
    <2> QED BY <2>4, <2>5, <2>6
  <1>4. d \in [1..n -> Int]
    BY <1>3
  <1> DEFINE rev == CHOOSE r : r = [i \in 0..n |-> IF i = 0 THEN 0 ELSE r[i - 1] + ((low \div Pow2[i - 1]) % 2) * Pow2[n - i]]
  <1>5. ASSUME NEW r
        PROVE  [i \in 0..n |-> IF i = 0 THEN 0 ELSE r[i - 1] + ((low \div Pow2[i - 1]) % 2) * Pow2[n - i]]
                 = [i \in 0..n |-> IF i = 0 THEN 0 ELSE r[i - 1] + d[i]]
    <2>1. ASSUME NEW i \in 0..n
          PROVE (IF i = 0 THEN 0 ELSE r[i - 1] + ((low \div Pow2[i - 1]) % 2) * Pow2[n - i])
                  = IF i = 0 THEN 0 ELSE r[i - 1] + d[i]
      <3>1. i # 0 => i \in 1..n
        BY <1>1
      <3> QED BY <3>1
    <2> QED BY <2>1
  <1>6. Adds(rev, d, n)
    <2> HIDE DEF d
    <2>1. PICK x : Adds(x, d, n)
      BY <1>1, <1>4, AddsUp
    <2>2. x = [i \in 0..n |-> IF i = 0 THEN 0 ELSE x[i - 1] + ((low \div Pow2[i - 1]) % 2) * Pow2[n - i]]
      BY <2>1, <1>5 DEF Adds
    <2>3. rev = [i \in 0..n |-> IF i = 0 THEN 0 ELSE rev[i - 1] + ((low \div Pow2[i - 1]) % 2) * Pow2[n - i]]
      BY <2>2
    <2> HIDE DEF rev
    <2> QED BY <2>3, <1>5 DEF Adds
  <1>7. ReverseLSBs(c) = rev[n] + 1
    BY DEF ReverseLSBs, n, low
  <1> HIDE DEF rev, d
  <1>8. rev \in [0..n -> Int] /\ rev[0] = 0 /\ \A i \in 1..n : rev[i] = rev[i - 1] + d[i]
    BY <1>1, <1>4, <1>6, AddsUp
  <1> DEFINE N == {i \in Nat : i <= n => rev[i] \in 0..Pow2[n] - Pow2[n - i]}
  <1>9. 0 \in N
    <2>1. n - 0 = n
      BY <1>1
    <2> QED BY <2>1, <1>1, <1>8
  <1>10. ASSUME NEW i \in Nat, i \in N PROVE i + 1 \in N
    <2>1. SUFFICES ASSUME i + 1 <= n PROVE rev[i + 1] \in 0..Pow2[n] - Pow2[n - (i + 1)]
      OBVIOUS
    <2>2. rev[i] \in 0..Pow2[n] - Pow2[n - i] /\ i + 1 \in 1..n /\ (i + 1) - 1 = i
      BY <2>1, <1>1, <1>10
    <2>3. n - (i + 1) \in Nat /\ (n - (i + 1)) + 1 = n - i
      BY <2>1, <1>1
    <2>4. PICK p \in Nat : p = Pow2[n - (i + 1)] /\ Pow2[n - i] = 2 * p
      BY <2>3, Pow2Is
    <2>5. rev[i + 1] = rev[i] + d[i + 1] /\ d[i + 1] \in {0, p}
      BY <2>2, <2>4, <1>3, <1>8
    <2>6. PICK x \in Nat : x = rev[i] /\ x <= Pow2[n] - 2 * p
      BY <2>2, <2>4, <1>1
    <2>7. rev[i + 1] = x \/ rev[i + 1] = x + p
      BY <2>5, <2>6
    <2> QED BY <2>4, <2>6, <2>7, <1>1
  <1> HIDE DEF N
  <1>11. Nat \subseteq N
    BY <1>9, <1>10, Induct
  <1>12. rev[n] \in 0..Pow2[n] - Pow2[n - n]
    BY <1>1, <1>11 DEF N
  <1>13. Pow2[n - n] = 1
    <2>1. n - n = 0
      BY <1>1
    <2> QED BY <2>1, Pow2Is
  <1>14. rev[n] + 1 \in 1..Pow2[n]
    BY <1>1, <1>12, <1>13
  <1> QED BY <1>7, <1>14 DEF n
------------------------------------------------------------------------------
(* Prediction.                                                             *)

LEMMA Int16IsInt == \A x \in Int : Int16(x) \in Int
  BY DEF Int16

\* A filter fits the status of a channel.
LEMMA PartialSumIsInt ==
    ASSUME NEW filter \in Seq(Int), NEW status \in Seq(Int), Len(filter) <= Len(status), NEW table \in Nat
    PROVE  PartialSum(filter, status, table) \in Int
  <1> DEFINE from == table * GROUP
             k == IF Len(filter) - from > GROUP THEN GROUP ELSE IF Len(filter) < from THEN 0 ELSE Len(filter) - from
             d == [j \in 1..k |-> (status[from + j] * 2 - 1) * filter[from + j]]
  <1>1. from \in Nat
    BY FrameAssumption
  <1> HIDE DEF from
  <1>2. k \in Nat /\ (k > 0 => from + k <= Len(filter))
    BY <1>1, FrameAssumption
  <1> HIDE DEF k
  <1>3. d \in [1..k -> Int]
    <2> SUFFICES ASSUME NEW j \in 1..k PROVE (status[from + j] * 2 - 1) * filter[from + j] \in Int
      OBVIOUS
    <2>1. from + j \in 1..Len(filter) /\ from + j \in 1..Len(status)
      <3>1. Len(filter) \in Nat /\ Len(status) \in Nat
        OBVIOUS
      <3> QED BY <3>1, <1>1, <1>2
    <2>2. PICK a \in Int : a = status[from + j]
      BY <2>1
    <2>3. PICK b \in Int : b = filter[from + j]
      BY <2>1
    <2>4. (a * 2 - 1) * b \in Int
      OBVIOUS
    <2> QED BY <2>2, <2>3, <2>4
  <1> DEFINE sum == CHOOSE s : s = [j \in 0..k |-> IF j = 0 THEN 0
                                                   ELSE s[j - 1] + (status[from + j] * 2 - 1) * filter[from + j]]
  <1>4. ASSUME NEW s
        PROVE  [j \in 0..k |-> IF j = 0 THEN 0 ELSE s[j - 1] + (status[from + j] * 2 - 1) * filter[from + j]]
                 = [j \in 0..k |-> IF j = 0 THEN 0 ELSE s[j - 1] + d[j]]
    <2>1. ASSUME NEW j \in 0..k
          PROVE  (IF j = 0 THEN 0 ELSE s[j - 1] + (status[from + j] * 2 - 1) * filter[from + j])
                   = IF j = 0 THEN 0 ELSE s[j - 1] + d[j]
      <3>1. j # 0 => j \in 1..k
        BY <1>2
      <3> QED BY <3>1
    <2> QED BY <2>1
  <1>5. Adds(sum, d, k)
    <2> HIDE DEF d
    <2>1. PICK x : Adds(x, d, k)
      BY <1>2, <1>3, AddsUp
    <2>2. x = [j \in 0..k |-> IF j = 0 THEN 0 ELSE x[j - 1] + (status[from + j] * 2 - 1) * filter[from + j]]
      BY <2>1, <1>4 DEF Adds
    <2>3. sum = [j \in 0..k |-> IF j = 0 THEN 0 ELSE sum[j - 1] + (status[from + j] * 2 - 1) * filter[from + j]]
      BY <2>2
    <2> HIDE DEF sum
    <2> QED BY <2>3, <1>4 DEF Adds
  <1>6. PartialSum(filter, status, table) = Int16(sum[k])
    BY DEF PartialSum, k, from
  <1> HIDE DEF sum, d
  <1>7. sum[k] \in Int
    <2>1. sum \in [0..k -> Int]
      BY <1>2, <1>3, <1>5, AddsUp
    <2>2. k \in 0..k
      BY <1>2
    <2> QED BY <2>1, <2>2
  <1> QED BY <1>6, <1>7, Int16IsInt

\* LT_RUN_FILTER_I adds up the sums of all tables.
LEMMA PredictIsInt ==
    ASSUME NEW filter \in Seq(Int), NEW status \in Seq(Int), Len(filter) <= Len(status)
    PROVE  Predict(filter, status) \in Int
  <1> DEFINE tables == Taps \div GROUP
             d == [t \in 1..tables |-> PartialSum(filter, status, t - 1)]
  <1>1. tables \in Nat
    <2>1. PICK n \in Nat : n = Taps
      BY Sizes, Pow2Larger DEF Taps
    <2> QED BY <2>1, FrameAssumption
  <1> HIDE DEF tables
  <1>2. d \in [1..tables -> Int]
    <2> SUFFICES ASSUME NEW t \in 1..tables PROVE PartialSum(filter, status, t - 1) \in Int
      OBVIOUS
    <2>1. t - 1 \in Nat
      OBVIOUS
    <2> QED BY <2>1, PartialSumIsInt
  <1> DEFINE sum == CHOOSE s : s = [t \in 0..tables |-> IF t = 0 THEN 0 ELSE s[t - 1] + PartialSum(filter, status, t - 1)]
  <1>3. ASSUME NEW s
        PROVE  [t \in 0..tables |-> IF t = 0 THEN 0 ELSE s[t - 1] + PartialSum(filter, status, t - 1)]
                 = [t \in 0..tables |-> IF t = 0 THEN 0 ELSE s[t - 1] + d[t]]
    <2>1. ASSUME NEW t \in 0..tables
          PROVE  (IF t = 0 THEN 0 ELSE s[t - 1] + PartialSum(filter, status, t - 1))
                   = IF t = 0 THEN 0 ELSE s[t - 1] + d[t]
      <3>1. t # 0 => t \in 1..tables
        BY <1>1
      <3> QED BY <3>1
    <2> QED BY <2>1
  <1>4. Adds(sum, d, tables)
    <2> HIDE DEF d
    <2>1. PICK x : Adds(x, d, tables)
      BY <1>1, <1>2, AddsUp
    <2>2. x = [t \in 0..tables |-> IF t = 0 THEN 0 ELSE x[t - 1] + PartialSum(filter, status, t - 1)]
      BY <2>1, <1>3 DEF Adds
    <2>3. sum = [t \in 0..tables |-> IF t = 0 THEN 0 ELSE sum[t - 1] + PartialSum(filter, status, t - 1)]
      BY <2>2
    <2> HIDE DEF sum
    <2> QED BY <2>3, <1>3 DEF Adds
  <1>5. Predict(filter, status) = Int16(sum[tables])
    BY DEF Predict, tables
  <1> HIDE DEF sum, d
  <1>6. sum[tables] \in Int
    <2>1. sum \in [0..tables -> Int]
      BY <1>1, <1>2, <1>4, AddsUp
    <2>2. tables \in 0..tables
      BY <1>1
    <2> QED BY <2>1, <2>2
  <1> QED BY <1>5, <1>6, Int16IsInt

\* LT_ACGetPtableIndex names an entry of the table.
LEMMA PtableIndexIs ==
    ASSUME NEW predict \in Int, NEW len \in Nat \ {0}
    PROVE  PtableIndex(predict, len) + 1 \in 1..len
  <1>1. AC_QSTEP \in Nat
    BY Sizes DEF AC_QSTEP
  <1>2. PICK p \in Nat \ {0} : p = Pow2[AC_QSTEP]
    BY <1>1, Pow2Larger
  <1>3. PICK a \in Nat : a = IF predict > 0 THEN predict ELSE -predict
    OBVIOUS
  <1>4. PICK j \in Nat : j = a \div p
    BY <1>2
  <1>5. PtableIndex(predict, len) = IF j >= len THEN len - 1 ELSE j
    BY <1>2, <1>3, <1>4 DEF PtableIndex
  <1> QED BY <1>5

\* Where segments start, and which one a bit is in.
StartsAt(start, r, lens, n) ==
    start = [m \in 1..n |-> IF m = 1 THEN 0 ELSE start[m - 1] + r * 8 * lens[m - 1]]

LEMMA SegmentStarts ==
    ASSUME NEW r \in Nat, NEW lens \in Seq(Nat), NEW n \in Nat, n = Len(lens)
    PROVE  /\ \E start : StartsAt(start, r, lens, n)
           /\ \A start : StartsAt(start, r, lens, n) => \A m \in 1..n : start[m] \in Int
  <1>1. ASSUME NEW m \in 1..n PROVE r * 8 * lens[m] \in Int
    <2>1. PICK l \in Nat : l = lens[m]
      OBVIOUS
    <2> QED BY <2>1
  <1> DEFINE d == [i \in 1..n |-> r * 8 * lens[i]]
  <1>2. d \in [1..n -> Int]
    BY <1>1
  <1>3. \A i \in 1..n : d[i] = r * 8 * lens[i]
    OBVIOUS
  <1> HIDE DEF d
  <1>4. PICK f : Adds(f, d, n)
    BY <1>2, AddsUp
  <1>5. f \in [0..n -> Int] /\ f[0] = 0 /\ \A i \in 1..n : f[i] = f[i - 1] + d[i]
    BY <1>2, <1>4, AddsUp
  <1> DEFINE g == [m \in 1..n |-> f[m - 1]]
  <1>6. ASSUME NEW m \in 1..n
        PROVE  f[m - 1] = IF m = 1 THEN 0 ELSE g[m - 1] + r * 8 * lens[m - 1]
    <2>1. CASE m = 1
      BY <2>1, <1>5
    <2>2. CASE m # 1
      <3>1. m - 1 \in 1..n
        BY <2>2
      <3>2. f[m - 1] = f[(m - 1) - 1] + d[m - 1] /\ g[m - 1] = f[(m - 1) - 1] /\ d[m - 1] = r * 8 * lens[m - 1]
        BY <3>1, <1>3, <1>5
      <3> QED BY <2>2, <3>2
    <2> QED BY <2>1, <2>2
  <1>7. StartsAt(g, r, lens, n)
    BY <1>6 DEF StartsAt
  <1>8. ASSUME NEW start, StartsAt(start, r, lens, n), NEW m \in 1..n PROVE start[m] \in Int
    <2> DEFINE N == {i \in Nat : i \in 1..n => start[i] \in Int}
    <2>1. 0 \in N
      OBVIOUS
    <2>2. ASSUME NEW i \in Nat, i \in N PROVE i + 1 \in N
      <3>1. SUFFICES ASSUME i + 1 \in 1..n PROVE start[i + 1] \in Int
        OBVIOUS
      <3>2. start[i + 1] = IF i + 1 = 1 THEN 0 ELSE start[(i + 1) - 1] + r * 8 * lens[(i + 1) - 1]
        BY <3>1, <1>8 DEF StartsAt
      <3>3. CASE i = 0
        BY <3>2, <3>3
      <3>4. CASE i # 0
        <4>1. i \in 1..n /\ (i + 1) - 1 = i /\ i + 1 # 1
          BY <3>1, <3>4
        <4>2. PICK b \in Int : b = r * 8 * lens[i]
          BY <4>1, <1>1
        <4>3. start[i] \in Int
          BY <4>1, <2>2
        <4> QED BY <3>2, <4>1, <4>2, <4>3
      <3> QED BY <3>3, <3>4
    <2> HIDE DEF N
    <2>3. Nat \subseteq N
      BY <2>1, <2>2, Induct
    <2> QED BY <2>3 DEF N
  <1> QED BY <1>7, <1>8

\* Every bit is in a segment.
LEMMA InASegment ==
    ASSUME NEW n \in Nat \ {0}, NEW start, \A m \in 1..n : start[m] \in Int, start[1] = 0, NEW bit \in Nat
    PROVE  \E m \in 1..n : start[m] <= bit /\ (m = n \/ bit < start[m + 1])
  <1> DEFINE N == {m \in 1..n : m = n \/ bit < start[m + 1]}
  <1>1. N \in SUBSET Nat /\ n \in N
    OBVIOUS
  <1>2. PICK m \in N : \A i \in N : m <= i
    BY <1>1, LeastOf
  <1>3. start[m] <= bit
    <2>1. CASE m = 1
      BY <2>1
    <2>2. CASE m # 1
      <3>1. m - 1 \in 1..n /\ m - 1 # n /\ (m - 1) + 1 = m /\ ~(m <= m - 1)
        BY <2>2
      <3>2. m - 1 \notin N
        BY <3>1, <1>2
      <3>3. ~(bit < start[m]) /\ start[m] \in Int
        BY <3>1, <3>2
      <3> QED BY <3>3
    <2> QED BY <2>1, <2>2
  <1> QED BY <1>3

\* FillTable4Bit: the table of each bit is one that was read.
LEMMA TableOfBit ==
    ASSUME UnpackInv, pc \in AllTablesRead, NEW k \in Kinds, NEW ch \in Channels, NEW bit \in 0..NrOfBitsPerCh - 1
    PROVE  Table4Bit(k, ch)[bit] + 1 \in 1..Len(Done(FH, k))
  <1>1. /\ FH \in HeaderType /\ Mapped(FH[k]) /\ SegmentsFit(k, FH[k].Resolution, FH[k].SegmentLen[ch])
        /\ Len(Done(FH, k)) = FH[k].NrOfTables
    <2>1. FH \in HeaderType /\ HeaderOK(FH, pc)
      BY DEF UnpackInv
    <2> USE DEF FiltersSegmented, BothSegmented, FiltersMapped, BothMapped, FiltersRead, AllTablesRead
    <2>2. CASE k = "F"
      BY <2>1, <2>2 DEF HeaderOK, Done
    <2>3. CASE k = "P"
      BY <2>1, <2>3 DEF HeaderOK, Done
    <2> QED BY <2>1, <2>2, <2>3 DEF Kinds
  <1>2. PICK lens \in Seq(Nat) : lens = FH[k].SegmentLen[ch]
    BY <1>1 DEF HeaderType, SegmentType, Kinds
  <1>3. PICK r \in Nat : r = FH[k].Resolution
    BY <1>1 DEF HeaderType, SegmentType, Kinds
  <1>4. PICK numbers \in Seq(Nat) : numbers = FH[k].Table4Segment[ch]
    BY <1>1 DEF HeaderType, SegmentType, Kinds
  <1>5. PICK n \in Nat \ {0} : n = Len(lens)
    BY <1>1, <1>2 DEF SegmentsFit
  <1>6. Len(numbers) = n /\ \A i \in 1..n : numbers[i] < FH[k].NrOfTables
    BY <1>1, <1>2, <1>4, <1>5 DEF Mapped, ChannelMapped, NumbersFit
  <1> DEFINE Begins == CHOOSE start : start = [m \in 1..n |-> IF m = 1 THEN 0 ELSE start[m - 1] + r * 8 * lens[m - 1]]
             of(b) == CHOOSE m \in 1..n : Begins[m] <= b /\ (m = n \/ b < Begins[m + 1])
  <1>7. Table4Bit(k, ch) = [b \in 0..NrOfBitsPerCh - 1 |-> numbers[of(b)]]
    BY <1>2, <1>3, <1>4, <1>5 DEF Table4Bit, Segments
  <1>8. StartsAt(Begins, r, lens, n)
    <2>1. \E start : StartsAt(start, r, lens, n)
      BY <1>5, SegmentStarts
    <2> QED BY <2>1 DEF StartsAt
  <1> HIDE DEF Begins
  <1>9. (\A m \in 1..n : Begins[m] \in Int) /\ Begins[1] = 0
    <2>1. \A m \in 1..n : Begins[m] \in Int
      BY <1>5, <1>8, SegmentStarts
    <2>2. 1 \in 1..n
      OBVIOUS
    <2> QED BY <2>1, <2>2, <1>8 DEF StartsAt
  <1>10. bit \in Nat
    BY Sizes
  <1>11. \E m \in 1..n : Begins[m] <= bit /\ (m = n \/ bit < Begins[m + 1])
    BY <1>9, <1>10, InASegment
  <1>12. of(bit) \in 1..n
    BY <1>11
  <1>13. PICK x \in Nat : x = numbers[of(bit)] /\ x < FH[k].NrOfTables
    <2> HIDE DEF of
    <2> QED BY <1>6, <1>12
  <1>14. Table4Bit(k, ch)[bit] = x
    <2> HIDE DEF of
    <2> QED BY <1>7, <1>13
  <1>15. FH[k].NrOfTables \in Nat
    BY <1>1 DEF HeaderType, SegmentType, Kinds
  <1> QED BY <1>1, <1>13, <1>14, <1>15
------------------------------------------------------------------------------
(* Decoding.                                                               *)

\* The inductive invariant: with what is known of the header, where bits are decoded
\* the registers and the channels' status are whole.
DecodeInv ==
    /\ UnpackInv
    /\ pc = "bits" => /\ AC \in ACs /\ AC.A >= HALF
                      /\ ChNr \in Channels /\ BitNr \in 0..NrOfBitsPerCh
                      /\ Status \in [Channels -> Seq(Int)] /\ \A c \in Channels : Len(Status[c]) = Taps
    /\ pc = "done" /\ error # "NoError" => Muxed = Silence

\* The status has a bit for every coefficient.
LEMMA TapsAre == Taps \in Nat \ {0} /\ Taps = Allocated["F"].entries
  BY Sizes, Pow2Larger DEF Taps, Allocated

\* After the header nothing of it is disturbed.
LEMMA HeaderStays ==
    ASSUME UnpackInv, pc \in AllTablesRead \cup {"plain", "failed"}, UNCHANGED <<bytes, S, FH, at>>,
           \/ pc' = "bits" /\ pc # "plain" /\ pc # "failed" /\ error' = error
           \/ pc' = "failed" /\ error' = "ArithmeticDecoder"
           \/ pc' = "done" /\ error' = error
    PROVE  UnpackInv'
  <1>1. bytes \in Seq(Int) /\ S \in Readers /\ FH \in HeaderType /\ HeaderOK(FH, pc) /\ (error # "NoError" => pc = "failed")
    BY DEF UnpackInv, AllTablesRead
  <1>2. HeaderOK(FH, pc')
    BY <1>1 DEF HeaderOK, FiltersSegmented, BothSegmented, FiltersMapped, BothMapped, FiltersRead, AllTablesRead
  <1>3. LoopsOK(FH, at, pc')
    BY NoLoop
  <1>4. error' # "NoError" => pc' \in {"failed", "done"}
    BY <1>1
  <1> QED BY <1>1, <1>2, <1>3, <1>4 DEF UnpackInv

\* The arithmetic decoder and the status are set up.
LEMMA StartKeeps == DecodeInv /\ StartDecoding => DecodeInv'
  <1> SUFFICES ASSUME DecodeInv, StartDecoding PROVE DecodeInv'
    OBVIOUS
  <1>1. UnpackInv /\ pc = "decode" /\ pc' = "bits" /\ UNCHANGED <<bytes, S, FH, at, error>>
    BY DEF DecodeInv, StartDecoding
  <1>2. UnpackInv'
    BY <1>1, HeaderStays DEF AllTablesRead
  <1>3. FH \in HeaderType /\ Mapped(FH.F) /\ Len(FH.filters) = FH.F.NrOfTables /\ TableFits("F", FH.filters[1])
    <2>1. FH \in HeaderType /\ HeaderOK(FH, "decode")
      BY <1>1 DEF UnpackInv
    <2>2. Mapped(FH.F) /\ Len(FH.filters) = FH.F.NrOfTables
          /\ \A t \in 1..Len(Done(FH, "F")) : TableFits("F", Done(FH, "F")[t])
      BY <2>1 DEF HeaderOK, Kinds, FiltersMapped, BothMapped, FiltersRead, AllTablesRead
    <2>3. 1 \in 1..Len(FH.filters)
      <3>1. FH.F.NrOfTables \in 1..MaxNrOfTables
        BY <2>2 DEF Mapped
      <3> QED BY <3>1, <2>2
    <2> QED BY <2>1, <2>2, <2>3 DEF Done
  <1>4. FH.filters[1][1] \in Int
    <2>1. FH.filters[1] \in Seq(Int) /\ Len(FH.filters[1]) \in 1..Allocated["F"].entries
      BY <1>3 DEF TableFits, InRange
    <2>2. 1 \in 1..Len(FH.filters[1])
      BY <2>1
    <2> QED BY <2>1, <2>2
  <1>5. AC' \in ACs /\ AC'.A >= HALF
    <2>1. ReverseLSBs(FH.filters[1][1]) \in 1..Pow2[AC_BITS - 1]
      BY <1>4, ReverseLSBsIs
    <2>2. AC' = ACDecode(ACInit, ReverseLSBs(FH.filters[1][1])).ac
      BY DEF StartDecoding
    <2> QED BY <2>1, <2>2, <1>3, ACInitIs, ACDecodeIs
  <1>6. ChNr' \in Channels /\ BitNr' \in 0..NrOfBitsPerCh
    BY Sizes DEF StartDecoding
  <1>7. Status' \in [Channels -> Seq(Int)] /\ \A c \in Channels : Len(Status'[c]) = Taps
    <2>1. PICK n \in Nat : n = Taps
      BY TapsAre
    <2>2. [i \in 1..n |-> (i - 1) % 2] \in Seq(Int) /\ Len([i \in 1..n |-> (i - 1) % 2]) = n
      OBVIOUS
    <2> QED BY <2>1, <2>2 DEF StartDecoding, StartStatus
  <1> QED BY <1>1, <1>2, <1>5, <1>6, <1>7 DEF DecodeInv

\* A bit is predicted, decoded and shifted into the status of its channel.
LEMMA BitKeeps == DecodeInv /\ DecodeBit => DecodeInv'
  <1> SUFFICES ASSUME DecodeInv, DecodeBit PROVE DecodeInv'
    OBVIOUS
  <1>1. UnpackInv /\ pc = "bits" /\ UNCHANGED unpackVars /\ BitNr < NrOfBitsPerCh
    BY DEF DecodeInv, DecodeBit
  <1>2. /\ AC \in ACs /\ AC.A >= HALF /\ ChNr \in Channels /\ BitNr \in 0..NrOfBitsPerCh
        /\ Status \in [Channels -> Seq(Int)] /\ \A c \in Channels : Len(Status[c]) = Taps
    BY <1>1 DEF DecodeInv
  <1>3. UnpackInv'
    BY <1>1 DEF UnpackInv, unpackVars
  <1>4. FH \in HeaderType /\ HeaderOK(FH, "bits")
    BY <1>1 DEF UnpackInv
  <1>5. BitNr \in 0..NrOfBitsPerCh - 1
    BY <1>1, <1>2, Sizes
  <1> DEFINE f == Table4Bit("F", ChNr)[BitNr] + 1
             t == Table4Bit("P", ChNr)[BitNr] + 1
             predict == Predict(FH.filters[f], Status[ChNr])
             ptable == FH.ptables[t]
             p == IF FH.HalfProb[ChNr] = 1 /\ BitNr < NrOfHalfBits(ChNr) THEN Pow2[AC_BITS] \div 2
                  ELSE ptable[PtableIndex(predict, Len(ptable)) + 1]
             decoded == ACDecode(AC, p)
             BitVal == IF predict < 0 THEN 1 - decoded.bit ELSE decoded.bit
  <1>6. f \in 1..Len(FH.filters) /\ t \in 1..Len(FH.ptables)
    <2>1. "F" \in Kinds /\ "P" \in Kinds /\ "bits" \in AllTablesRead
      BY DEF Kinds, AllTablesRead
    <2> QED BY <2>1, <1>1, <1>2, <1>5, TableOfBit DEF Done
  <1>7. TableFits("F", FH.filters[f]) /\ TableFits("P", FH.ptables[t])
    <2> HIDE DEF f, t
    <2>1. \A k \in Kinds : \A i \in 1..Len(Done(FH, k)) : TableFits(k, Done(FH, k)[i])
      BY <1>4 DEF HeaderOK
    <2> QED BY <2>1, <1>6 DEF Kinds, Done
  <1> HIDE DEF f, t
  <1>8. predict \in Int
    <2>1. FH.filters[f] \in Seq(Int) /\ Len(FH.filters[f]) <= Taps
      <3>1. Len(FH.filters[f]) \in 1..Taps
        BY <1>7, TapsAre DEF TableFits
      <3> QED BY <3>1, <1>7, TapsAre DEF TableFits, InRange
    <2>2. Status[ChNr] \in Seq(Int) /\ Len(Status[ChNr]) = Taps
      BY <1>2
    <2> QED BY <2>1, <2>2, PredictIsInt
  <1> HIDE DEF predict
  <1>9. p \in 1..Pow2[AC_BITS - 1]
    <2>1. CASE FH.HalfProb[ChNr] = 1 /\ BitNr < NrOfHalfBits(ChNr)
      <3>1. PICK h \in Nat : h = Pow2[AC_BITS - 1] /\ h >= 1 /\ Pow2[AC_BITS] = 2 * h
        BY Registers
      <3>2. p = Pow2[AC_BITS] \div 2
        BY <2>1
      <3> HIDE DEF p
      <3> QED BY <3>1, <3>2
    <2>2. CASE ~(FH.HalfProb[ChNr] = 1 /\ BitNr < NrOfHalfBits(ChNr))
      <3>1. p = ptable[PtableIndex(predict, Len(ptable)) + 1]
        BY <2>2
      <3>2. Len(ptable) \in 1..Allocated["P"].entries /\ \A i \in 1..Len(ptable) : ptable[i] \in 1..Pow2[AC_BITS - 1]
        BY <1>7 DEF TableFits, InRange, EntryRange
      <3> HIDE DEF p, ptable
      <3>3. Len(ptable) \in Nat \ {0}
        BY <3>2
      <3>4. PtableIndex(predict, Len(ptable)) + 1 \in 1..Len(ptable)
        BY <3>3, <1>8, PtableIndexIs
      <3> QED BY <3>1, <3>2, <3>4
    <2> QED BY <2>1, <2>2
  <1>10. AC' = decoded.ac /\ Status' = [Status EXCEPT ![ChNr] = Shifted(@, BitVal)]
         /\ ChNr' = (ChNr + 1) % NrOfChannels
         /\ BitNr' = IF ChNr = NrOfChannels - 1 THEN BitNr + 1 ELSE BitNr
    BY DEF DecodeBit, f, t, predict
  <1> HIDE DEF p
  <1>11. decoded.bit \in {0, 1} /\ decoded.ac \in ACs /\ decoded.ac.A >= HALF
    BY <1>2, <1>4, <1>9, ACDecodeIs
  <1> HIDE DEF decoded
  <1>12. BitVal \in Int
    BY <1>11
  <1> HIDE DEF BitVal
  <1>13. ChNr' \in Channels /\ BitNr' \in 0..NrOfBitsPerCh
    <2>1. PICK c \in Nat : c = ChNr
      BY <1>2 DEF Channels
    <2>2. PICK n \in Nat \ {0} : n = NrOfChannels
      BY Sizes
    <2>3. (c + 1) % n \in 0..n - 1
      OBVIOUS
    <2>4. ChNr' \in Channels
      BY <1>10, <2>1, <2>2, <2>3 DEF Channels
    <2>5. BitNr' \in 0..NrOfBitsPerCh
      BY <1>5, <1>10, Sizes
    <2> QED BY <2>4, <2>5
  <1>14. Status' \in [Channels -> Seq(Int)] /\ \A c \in Channels : Len(Status'[c]) = Taps
    <2>1. PICK status \in Seq(Int) : status = Status[ChNr] /\ Len(status) = Taps
      BY <1>2
    <2>2. PICK n \in Nat \ {0} : n = Taps
      BY TapsAre
    <2>3. PICK older \in Seq(Int) : older = SubSeq(status, 1, n - 1) /\ Len(older) = n - 1
      <3>1. n - 1 \in Nat /\ n - 1 <= Len(status) /\ Len(status) = n
        BY <2>1, <2>2
      <3>2. SubSeq(status, 1, n - 1) \in Seq(Int) /\ Len(SubSeq(status, 1, n - 1)) = n - 1
        BY <3>1
      <3> QED BY <3>2
    <2>4. <<BitVal>> \in Seq(Int) /\ Len(<<BitVal>>) = 1
      BY <1>12
    <2>5. PICK shifted \in Seq(Int) : shifted = <<BitVal>> \o older /\ Len(shifted) = 1 + Len(older)
      <3>1. <<BitVal>> \o older \in Seq(Int) /\ Len(<<BitVal>> \o older) = Len(<<BitVal>>) + Len(older)
        BY <2>4, ConcatProperties
      <3> QED BY <2>4, <3>1
    <2>6. Shifted(status, BitVal) = shifted /\ Len(shifted) = Taps
      BY <2>2, <2>3, <2>5 DEF Shifted
    <2>7. Status' = [Status EXCEPT ![ChNr] = shifted]
      BY <1>10, <2>1, <2>6
    <2> QED BY <2>6, <2>7, <1>2
  <1> QED BY <1>1, <1>3, <1>10, <1>11, <1>13, <1>14 DEF DecodeInv, unpackVars

\* The next frame, whatever its bytes.
LEMMA NextFrameKeeps == \A arriving \in Seq(Int) : DecodeInv /\ NextFrameOf(arriving) => DecodeInv'
  <1> SUFFICES ASSUME NEW arriving \in Seq(Int), DecodeInv, NextFrameOf(arriving) PROVE DecodeInv'
    OBVIOUS
  <1>1. bytes \in Seq(Int) /\ FH \in HeaderType
    BY DEF DecodeInv, UnpackInv
  <1>2. /\ pc' = "header" /\ S' = StartOfFrame /\ error' = "NoError" /\ bytes' = arriving
        /\ FH' = [FH EXCEPT !.filters = <<>>, !.ptables = <<>>]
    BY DEF NextFrameOf
  <1>3. FH' \in HeaderType /\ FH'.filters = <<>> /\ FH'.ptables = <<>>
    <2>1. <<>> \in Seq(Seq(Int))
      OBVIOUS
    <2>2. FH' = [[FH EXCEPT !.filters = <<>>] EXCEPT !.ptables = <<>>]
      BY <1>2
    <2>3. PICK h : h = [FH EXCEPT !.filters = <<>>]
      OBVIOUS
    <2>5. h \in HeaderType /\ h.filters = <<>>
      BY <1>1, <2>1, <2>3 DEF HeaderType
    <2>4. FH' = [h EXCEPT !.ptables = <<>>]
      BY <2>2, <2>3
    <2> QED BY <2>1, <2>4, <2>5 DEF HeaderType
  <1>4. StartOfFrame \in Readers
    BY DEF StartOfFrame, Readers
  <1>5. HeaderOK(FH', "header")
    <2>1. \A k \in Kinds : 1..Len(Done(FH', k)) = {}
      BY <1>3 DEF Done
    <2> QED BY <2>1 DEF HeaderOK, FiltersSegmented, BothSegmented, FiltersMapped, BothMapped, FiltersRead, AllTablesRead
  <1> QED BY <1>1, <1>2, <1>3, <1>4, <1>5, NoLoop DEF DecodeInv, UnpackInv

\* The next frame is the one that TLC decodes again, or any other.
NextOrAnother == Next \/ \E arriving \in Seq(Int) : NextFrameOf(arriving)

\* A step of unpacking does not come to the bits, nor to the end.
LEMMA UnpackGoes ==
    ASSUME UnpackDSTframe
    PROVE  pc' \notin {"bits", "done"}
  <1> USE DEF Fail, Undefined, Overrun, Go, Finish, TableOf, AtSegments, AtSegment, AtTables, AtTable, AtEntries
  <1>1. CASE ReadHeaderByte \/ ReadDSDframe \/ CopySegmentData \/ ReadSameMapAsF \/ CopyMappingData
             \/ ReadHalfProb \/ ReadArithmeticCodedData
    BY <1>1 DEF ReadHeaderByte, ReadDSDframe, CopySegmentData, ReadSameMapAsF, CopyMappingData, ReadHalfProb,
                ReadArithmeticCodedData
  <1>2. CASE \E k \in Kinds : ReadTableSegmentData(k)
    BY <1>2 DEF ReadTableSegmentData, ReadSameSegAllCh, TooManySegments, EndOfSegments, NextSegment, AfterSegments
  <1>3. CASE \E k \in Kinds : ReadTableMappingData(k)
    BY <1>3 DEF ReadTableMappingData, ReadSameMapAllCh, ReadTableNumber, EndOfTables, AfterTables
  <1>4. CASE \E k \in Kinds : ReadTableHead(k) \/ ReadPlainEntry(k) \/ ReadRiceM(k) \/ ReadPredictedEntry(k) \/ EndOfTable(k)
    BY <1>4 DEF ReadTableHead, ReadPlainEntry, ReadRiceM, ReadPredictedEntry, EndOfTable
  <1>5. CASE \E k \in Kinds : EndOfAllTables(k)
    BY <1>5, CodingIs DEF EndOfAllTables
  <1> QED BY <1>1, <1>2, <1>3, <1>4, <1>5
          DEF UnpackDSTframe, ReadFilterCoefSets, ReadProbabilityTables, Kinds

LEMMA DecodeInvInit == bytes \in Seq(Int) /\ Init => DecodeInv
  <1> SUFFICES ASSUME bytes \in Seq(Int), Init PROVE DecodeInv
    OBVIOUS
  <1>1. pc = "header" /\ error = "NoError" /\ FH = NoHeader /\ S = StartOfFrame
    BY DEF Init, UnpackInit
  <1>2. NoSegments \in SegmentType
    BY DEF NoSegments, SegmentType
  <1>3. NoHeader \in HeaderType /\ NoHeader.filters = <<>> /\ NoHeader.ptables = <<>>
    BY <1>2 DEF NoHeader, HeaderType
  <1>4. StartOfFrame \in Readers
    BY DEF StartOfFrame, Readers
  <1>5. HeaderOK(NoHeader, "header")
    <2>1. \A k \in Kinds : 1..Len(Done(NoHeader, k)) = {}
      BY <1>3 DEF Done
    <2> QED BY <2>1 DEF HeaderOK, FiltersSegmented, BothSegmented, FiltersMapped, BothMapped, FiltersRead, AllTablesRead
  <1> QED BY <1>1, <1>3, <1>4, <1>5, NoLoop DEF DecodeInv, UnpackInv

\* The invariant holds at the start and is kept by every step.
LEMMA DecodeInvNext == DecodeInv /\ [NextOrAnother]_frameVars => DecodeInv'
  <1> SUFFICES ASSUME DecodeInv, [NextOrAnother]_frameVars PROVE DecodeInv'
    OBVIOUS
  <1>1. UnpackInv
    BY DEF DecodeInv
  <1>2. CASE NextFrame \/ \E arriving \in Seq(Int) : NextFrameOf(arriving)
    <2>1. bytes \in Seq(Int)
      BY <1>1 DEF UnpackInv
    <2> QED BY <1>2, <2>1, NextFrameKeeps DEF NextFrame
  <1>3. CASE Unpack
    <2>1. UnpackInv' /\ pc' \notin {"bits", "done"}
      BY <1>1, <1>3, UnpackKeeps, UnpackGoes DEF Unpack
    <2> QED BY <2>1 DEF DecodeInv
  <1>4. CASE Plain
    <2>1. pc = "plain" /\ pc' = "done" /\ UNCHANGED <<bytes, S, FH, at, error>>
      BY <1>4 DEF Plain
    <2>2. UnpackInv' /\ error' = "NoError"
      BY <1>1, <2>1, HeaderStays DEF UnpackInv
    <2> QED BY <2>1, <2>2 DEF DecodeInv
  <1>5. CASE StartDecoding
    BY <1>5, StartKeeps
  <1>6. CASE DecodeBit
    BY <1>6, BitKeeps
  <1>7. CASE Flush
    <2>1. /\ pc = "bits" /\ UNCHANGED <<bytes, S, FH, at>>
          /\ \/ pc' = "done" /\ error' = error
             \/ pc' = "failed" /\ error' = "ArithmeticDecoder"
      BY <1>7 DEF Flush
    <2>2. UnpackInv' /\ error = "NoError"
      BY <1>1, <2>1, HeaderStays DEF UnpackInv, AllTablesRead
    <2> QED BY <2>1, <2>2 DEF DecodeInv
  <1>8. CASE Silent
    <2>1. pc = "failed" /\ pc' = "done" /\ UNCHANGED <<bytes, S, FH, at, error>> /\ Muxed' = Silence
      BY <1>8 DEF Silent
    <2>2. UnpackInv'
      BY <1>1, <2>1, HeaderStays
    <2>3. Silence' = Silence
      BY DEF Silence, Size, NrOfBitsPerCh
    <2> QED BY <2>1, <2>2, <2>3 DEF DecodeInv
  <1>9. CASE UNCHANGED frameVars
    BY <1>9 DEF DecodeInv, UnpackInv, frameVars, unpackVars, decodeVars, Silence
  <1> QED BY <1>2, <1>3, <1>4, <1>5, <1>6, <1>7, <1>8, <1>9 DEF NextOrAnother, Next
------------------------------------------------------------------------------
(* What is accepted can be decoded.                                        *)

\* The segments, table numbers and tables of a channel, out of what is known of the header.
LEMMA ChannelIsDecodable ==
    ASSUME UnpackInv, pc \in {"decode", "bits"}, NEW k \in Kinds, NEW c \in Channels
    PROVE  LET lens == FH[k].SegmentLen[c]
               bits[i \in 0..Len(lens) - 1] == IF i = 0 THEN 0 ELSE bits[i - 1] + FH[k].Resolution * 8 * lens[i] IN
           /\ Len(lens) \in 1..MAXNROF_SEGS
           /\ bits[Len(lens) - 1] <= NrOfBitsPerCh - (IF Len(lens) > 1 THEN MinSegLen(k) ELSE 0)
           /\ \A i \in 1..Len(lens) - 1 : FH[k].Resolution * 8 * lens[i] >= MinSegLen(k)
           /\ Len(FH[k].Table4Segment[c]) = Len(lens)
           /\ \A i \in 1..Len(lens) : FH[k].Table4Segment[c][i] < FH[k].NrOfTables
           /\ FH[k].NrOfTables = Len(Coding(k).done) /\ FH[k].NrOfTables <= Allocated[k].tables
           /\ \A t \in 1..Len(Coding(k).done) :
                /\ Len(Coding(k).done[t]) \in 1..Allocated[k].entries
                /\ \A i \in 1..Len(Coding(k).done[t]) : Coding(k).done[t][i] \in Coding(k).least..Coding(k).most
  <1> DEFINE seg == FH[k]
             lens == FH[k].SegmentLen[c]
             r == FH[k].Resolution
             n == Len(lens) - 1
             bits[i \in 0..n] == IF i = 0 THEN 0 ELSE bits[i - 1] + r * 8 * lens[i]
  <1>1. /\ FH \in HeaderType /\ Mapped(seg) /\ SegmentsFit(k, r, lens) /\ Len(Done(FH, k)) = seg.NrOfTables
        /\ \A t \in 1..Len(Done(FH, k)) : TableFits(k, Done(FH, k)[t])
    <2>1. FH \in HeaderType /\ HeaderOK(FH, pc) /\ \A t \in 1..Len(Done(FH, k)) : TableFits(k, Done(FH, k)[t])
      BY DEF UnpackInv, HeaderOK
    <2> USE DEF FiltersSegmented, BothSegmented, FiltersMapped, BothMapped, FiltersRead, AllTablesRead
    <2>2. CASE k = "F"
      BY <2>1, <2>2 DEF HeaderOK, Done
    <2>3. CASE k = "P"
      BY <2>1, <2>3 DEF HeaderOK, Done
    <2> QED BY <2>1, <2>2, <2>3 DEF Kinds
  <1>2. lens \in Seq(Nat) /\ r \in Nat
    BY <1>1 DEF HeaderType, SegmentType, Kinds
  <1>3. bits[n] = Bits(r, lens, n)
    BY DEF Bits
  <1> HIDE DEF bits
  <1>4. n \in Nat /\ n <= Len(lens) /\ Fit(k, r, lens, n)
    BY <1>1, <1>2 DEF SegmentsFit
  <1>5. bits[n] <= NrOfBitsPerCh - (IF Len(lens) > 1 THEN MinSegLen(k) ELSE 0)
    <2>1. NrOfBitsPerCh \in Nat /\ Bits(r, lens, 0) = 0
      BY <1>2, BitsOfNone, Sizes
    <2>2. PICK b : b = bits[n]
      OBVIOUS
    <2>3. PICK l \in Nat : l = Len(lens)
      BY <1>2, LenProperties
    <2>4. n = l - 1
      BY <2>3
    <2> HIDE DEF n
    <2>5. b <= NrOfBitsPerCh - (IF l > 1 THEN MinSegLen(k) ELSE 0)
      <3>1. CASE n = 0
        <4>1. b = 0 /\ ~(l > 1)
          BY <1>3, <2>1, <2>2, <2>4, <3>1
        <4> QED BY <2>1, <4>1
      <3>2. CASE n > 0
        <4>1. b <= NrOfBitsPerCh - MinSegLen(k) /\ l > 1
          BY <1>3, <1>4, <2>2, <2>4, <3>2 DEF Fit
        <4> QED BY <4>1
      <3> QED BY <1>4, <3>1, <3>2
    <2> QED BY <2>2, <2>3, <2>5
  <1>6. \A i \in 1..n : r * 8 * lens[i] >= MinSegLen(k)
    BY <1>4 DEF Fit
  <1>7. Len(seg.Table4Segment[c]) = Len(lens) /\ \A i \in 1..Len(lens) : seg.Table4Segment[c][i] < seg.NrOfTables
    BY <1>1 DEF Mapped, ChannelMapped, NumbersFit
  <1>8. seg.NrOfTables <= Allocated[k].tables
    <2>1. Allocated[k].tables = MaxNrOfTables /\ MaxNrOfTables \in Nat
      BY Sizes DEF Allocated, MaxNrOfTables, Kinds
    <2> QED BY <1>1, <2>1 DEF Mapped
  <1>9. /\ Coding(k).done = Done(FH, k)
        /\ \A t \in 1..Len(Done(FH, k)) :
             /\ Len(Done(FH, k)[t]) \in 1..Allocated[k].entries
             /\ \A i \in 1..Len(Done(FH, k)[t]) : Done(FH, k)[t][i] \in Coding(k).least..Coding(k).most
    BY <1>1, CodingIs DEF TableFits, InRange
  <1>10. Len(lens) \in 1..MAXNROF_SEGS
    BY <1>1 DEF SegmentsFit
  <1> HIDE DEF seg, n, r, lens
  <1> QED BY <1>1, <1>5, <1>6, <1>7, <1>8, <1>9, <1>10 DEF seg, n, r, lens, bits

\* The invariant is what the property needs.
LEMMA DecodeInvImplies == DecodeInv => AcceptedIsDecodable
  <1> SUFFICES ASSUME DecodeInv PROVE AcceptedIsDecodable
    OBVIOUS
  <1>1. pc = "bits" => AC.A \in HALF..ONE - 1
    BY Registers DEF DecodeInv, ACs
  <1>2. pc = "done" /\ error # "NoError" => Muxed = Silence
    BY DEF DecodeInv
  <1>3. pc = "overrun" => at.same /\ Len(at.lens) = MAXNROF_SEGS /\ MAXNROF_SEGS \in {MAXNROF_FSEGS, MAXNROF_PSEGS}
    BY DEF DecodeInv, UnpackInv, LoopsOK, RowsAreFull
  <1> QED BY <1>1, <1>2, <1>3, ChannelIsDecodable DEF DecodeInv, AcceptedIsDecodable, Kinds

\* Whatever bytes arrive, frame after frame, and with whatever the frame before
\* left behind in the handle: what DST_FramDSTDecode goes on to decode has
\* segments that cover the channels, tables that are there and entries in their
\* range, the arithmetic decoder keeps its register, and a frame that is refused
\* is silent.
THEOREM WhateverArrives ==
    (bytes \in Seq(Int) /\ Init) /\ [][NextOrAnother]_frameVars => []AcceptedIsDecodable
  BY DecodeInvInit, DecodeInvNext, DecodeInvImplies, PTL

\* So it is with the frames of an encoder, however they are damaged.
THEOREM DecodableFrames == Spec => []AcceptedIsDecodable
  <1>1. Spec => (bytes \in Seq(Int) /\ Init) /\ [][NextOrAnother]_frameVars
    <2>1. ASSUME NEW f \in Frames, bytes = Damaged(Encoded(f), f.damage)
          PROVE  bytes \in Seq(Int)
      <3>1. bytes \in Seq(0..255)
        BY <2>1, FramesAssumption
      <3>2. 0..255 \subseteq Int
        OBVIOUS
      <3> QED BY <3>1, <3>2, SeqMonotonic
    <2>2. Start => bytes \in Seq(Int) /\ Init
      BY <2>1 DEF Start
    <2>3. [Next /\ UNCHANGED frame]_vars => [NextOrAnother]_frameVars
      BY DEF vars, NextOrAnother
    <2> QED BY <2>2, <2>3, PTL DEF Spec
  <1> QED BY <1>1, WhateverArrives, PTL
==============================================================================
