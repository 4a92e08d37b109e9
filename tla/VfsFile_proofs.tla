---------------------------- MODULE VfsFile_proofs ----------------------------
(***************************************************************************)
(* The files of the add-on, for tracks, areas, buffers and reads of every  *)
(* size.  Each handle's context is described on its own (HandleOK): what   *)
(* was given, what waits in decode_buffer and what waits in the assembly   *)
(* are the track's sectors one after the other.  That holds with any       *)
(* number of files open, since they share only the tag; that the tag is    *)
(* the right one too is proved for a single open file.                     *)
(***************************************************************************)
EXTENDS VfsFile, SequenceTheorems, TLAPS
-----------------------------------------------------------------------------
(* Whatever the borders of the areas, a batch never crosses one.           *)

\* Every batch has a sector and fits the buffers, and all its sectors are
\* encrypted or none is: which is what lets CSACDFile::Read and
\* processing_thread hand it to sacd_decrypt as a whole.  (With no first area
\* the code takes sector 0 for encrypted.)
THEOREM BatchIsUniform ==
    ASSUME NEW lsn \in Nat, lsn # 0 \/ Start1 # 0
    PROVE  /\ Batch(lsn).size \in 1..MaxBatch
           /\ \A n \in lsn..lsn + Batch(lsn).size - 1 :
                 InEncryptedArea(n) <=> Batch(lsn).encrypted
  <1> USE BatchAssumption, AreasAssumption DEF Least, InEncryptedArea
  <1>1. CASE lsn < Start1
    <2>1. Batch(lsn) = [size |-> Least(Start1 - lsn, MaxBatch), encrypted |-> FALSE]
      BY <1>1 DEF Batch
    <2> QED BY <1>1, <2>1
  <1>2. CASE Start1 <= lsn /\ lsn <= End1
    <2>1. Batch(lsn) = [size |-> Least(End1 + 1 - lsn, MaxBatch), encrypted |-> TRUE]
      BY <1>2 DEF Batch
    <2> QED BY <1>2, <2>1
  <1>3. CASE End1 < lsn /\ lsn < Start2
    <2>1. Batch(lsn) = [size |-> Least(Start2 - lsn, MaxBatch), encrypted |-> FALSE]
      BY <1>3 DEF Batch
    <2> QED BY <1>3, <2>1
  <1>4. CASE End1 < lsn /\ Start2 <= lsn /\ lsn <= End2
    <2>1. Batch(lsn) = [size |-> Least(End2 + 1 - lsn, MaxBatch), encrypted |-> TRUE]
      BY <1>4 DEF Batch
    <2> QED BY <1>4, <2>1
  <1>5. CASE End1 < lsn /\ Start2 <= lsn /\ End2 < lsn
    <2>1. Batch(lsn) = [size |-> MaxBatch, encrypted |-> FALSE]
      BY <1>5 DEF Batch
    <2> QED BY <1>5, <2>1
  <1> QED BY <1>1, <1>2, <1>3, <1>4, <1>5

\* The same of the batch that is cut at the end of a track, which it does not
\* pass.
COROLLARY NextBatchIsUniform ==
    ASSUME NEW lsn \in Nat, lsn # 0 \/ Start1 # 0, NEW end \in Nat, lsn < end
    PROVE  /\ NextBatch(lsn, end).size \in 1..MaxBatch
           /\ lsn + NextBatch(lsn, end).size <= end
           /\ \A n \in lsn..lsn + NextBatch(lsn, end).size - 1 :
                 InEncryptedArea(n) <=> NextBatch(lsn, end).encrypted
  <1> DEFINE size == Batch(lsn).size
  <1>1. /\ size \in 1..MaxBatch
        /\ \A n \in lsn..lsn + size - 1 : InEncryptedArea(n) <=> Batch(lsn).encrypted
    BY BatchIsUniform
  <1>2. /\ NextBatch(lsn, end).size = Least(end - lsn, size)
        /\ NextBatch(lsn, end).encrypted = Batch(lsn).encrypted
    BY DEF NextBatch, Batch
  <1> HIDE DEF size
  <1> QED BY <1>1, <1>2, BatchAssumption DEF Least
-----------------------------------------------------------------------------
(* What a context and the front of the add-on are like.                    *)

Results == {"none", "failed", "data", "error", "end"}

Contexts == [pc : {"closed", "opening", "open", "decoding"}, lsn : Nat, pos : Nat,
             pending : Seq(Tokens), decoded : Seq(Tokens), checked : BOOLEAN,
             plain : BOOLEAN, disc : [encrypted : BOOLEAN, probed : BOOLEAN]]

Going(f) == f.pc \in {"open", "decoding"}

\* The rightly decrypted samples of n sectors from lsn on.
Run(lsn, n) == [i \in 1..n |-> SectorToken(lsn + i - 1, TRUE)]

\* A context that Open has not finished has nothing in it.
IdleOK(f, g, r) ==
    /\ ~Going(f) => /\ f.pos = 0 /\ f.pending = <<>> /\ f.decoded = <<>>
                    /\ f.checked = FALSE /\ f.plain = FALSE
    /\ f.pc = "opening" => g = <<>> /\ r = "none"

\* The probe has found what the disc is: only what is plain is not decrypted.
ProbeOK(f) == f.pc # "closed" => /\ f.disc \in Discs
                                 /\ f.plain = (f.checked /\ ~f.disc.encrypted)

\* The first sector whose samples the player has not been given.
Behind(f) == f.lsn - Len(f.pending) - Len(f.decoded)

InOrder(h, f, g) ==
    Going(f) => /\ First[h] <= Behind(f) /\ f.lsn <= End[h]
                /\ f.decoded = Run(Behind(f), Len(f.decoded))
                /\ f.pending = Run(Behind(f) + Len(f.decoded), Len(f.pending))
                /\ Len(f.pending) <= MaxPending
                /\ SamplesAre(g, First[h], Behind(f))

EndOK(h, f, r) == Going(f) /\ r = "end" => f.lsn = End[h] /\ Len(f.decoded) < LowWater

\* What holds of handle h with context f, which the player was given g of, and
\* whose last call returned r.
HandleOK(h, f, g, r) ==
    /\ f \in Contexts /\ g \in Seq(Tokens) /\ r \in Results
    /\ IdleOK(f, g, r) /\ ProbeOK(f) /\ InOrder(h, f, g) /\ EndOK(h, f, r)

\* The inductive invariant.
IInv == /\ file = [h \in Handles |-> file[h]] /\ got = [h \in Handles |-> got[h]]
        /\ result = [h \in Handles |-> result[h]]
        /\ tagSize \in Nat /\ tagOwner \in Handles \cup {NoOwner}
        /\ \A h \in Handles : HandleOK(h, file[h], got[h], result[h])

-----------------------------------------------------------------------------
(* Tokens and runs of them.                                                *)

LEMMA Numbers ==
    /\ LowWater \in Nat /\ LowWater > 0 /\ HeaderSize \in Nat /\ BigTag \in Nat
    /\ Capacity \in Nat /\ MaxPending \in Nat /\ MaxBatch \in Nat /\ MaxBatch > 0
    /\ MaxRead \in Nat
    /\ Capacity >= LowWater - 1 + MaxPending + MaxBatch
    /\ \A h \in Handles : /\ First[h] \in Nat /\ End[h] \in Nat /\ TagSize[h] \in Nat
                          /\ 0 < First[h] /\ First[h] <= End[h]
  BY SizesAssumption, BatchAssumption

LEMMA TokensAreTokens ==
    /\ \A owner \in Handles \cup {NoOwner}, i \in Nat : TagToken(owner, i) \in Tokens
    /\ \A h \in Handles, i \in Nat : HeaderToken(h, i) \in Tokens
    /\ \A lsn \in Nat : SectorToken(lsn, TRUE) \in Tokens
  BY DEF TagToken, HeaderToken, SectorToken, Tokens

LEMMA Joined ==
    ASSUME NEW s \in Seq(Tokens), NEW r \in Seq(Tokens)
    PROVE  /\ s \o r \in Seq(Tokens) /\ Len(s \o r) = Len(s) + Len(r)
           /\ \A i \in 1..Len(s) : (s \o r)[i] = s[i]
           /\ \A i \in Len(s) + 1..Len(s) + Len(r) : (s \o r)[i] = r[i - Len(s)]
  OBVIOUS

LEMMA Cut ==
    ASSUME NEW s \in Seq(Tokens), NEW m \in 0..Len(s)
    PROVE  /\ SubSeq(s, 1, m) \in Seq(Tokens) /\ Len(SubSeq(s, 1, m)) = m
           /\ \A i \in 1..m : SubSeq(s, 1, m)[i] = s[i]
           /\ SubSeq(s, m + 1, Len(s)) \in Seq(Tokens)
           /\ Len(SubSeq(s, m + 1, Len(s))) = Len(s) - m
           /\ \A i \in 1..Len(s) - m : SubSeq(s, m + 1, Len(s))[i] = s[m + i]
  OBVIOUS

LEMMA RunIsSeq ==
    ASSUME NEW lsn \in Nat, NEW n \in Nat
    PROVE  /\ Run(lsn, n) \in Seq(Tokens) /\ Len(Run(lsn, n)) = n
           /\ \A i \in 1..n : Run(lsn, n)[i] = SectorToken(lsn + i - 1, TRUE)
  <1>1. \A i \in 1..n : lsn + i - 1 \in Nat
    OBVIOUS
  <1>2. Run(lsn, n) \in [1..n -> Tokens]
    BY <1>1, TokensAreTokens DEF Run
  <1>3. \A i \in 1..n : Run(lsn, n)[i] = SectorToken(lsn + i - 1, TRUE)
    BY DEF Run
  <1>4. Run(lsn, n) \in Seq(Tokens) /\ Len(Run(lsn, n)) = n
    BY <1>2
  <1> QED BY <1>3, <1>4

LEMMA IsRun ==
    ASSUME NEW lsn \in Nat, NEW s \in Seq(Tokens),
           \A i \in 1..Len(s) : s[i] = SectorToken(lsn + i - 1, TRUE)
    PROVE  s = Run(lsn, Len(s))
  <1>1. PICK n \in Nat : n = Len(s)
    OBVIOUS
  <1>2. /\ Run(lsn, n) \in Seq(Tokens) /\ Len(Run(lsn, n)) = n
        /\ \A i \in 1..n : Run(lsn, n)[i] = SectorToken(lsn + i - 1, TRUE)
    BY RunIsSeq
  <1> QED BY <1>1, <1>2, SeqEqual

LEMMA RunsMeet ==
    ASSUME NEW lsn \in Nat, NEW m \in Nat, NEW n \in Nat
    PROVE  Run(lsn, m) \o Run(lsn + m, n) = Run(lsn, m + n)
  <1>1. PICK s \in Seq(Tokens) : s = Run(lsn, m)
    BY RunIsSeq
  <1>2. PICK next \in Nat : next = lsn + m
    OBVIOUS
  <1>3. PICK r \in Seq(Tokens) : r = Run(next, n)
    BY RunIsSeq
  <1>4. Len(s) = m /\ \A i \in 1..m : s[i] = SectorToken(lsn + i - 1, TRUE)
    BY <1>1, RunIsSeq
  <1>5. Len(r) = n /\ \A i \in 1..n : r[i] = SectorToken(next + i - 1, TRUE)
    BY <1>3, RunIsSeq
  <1>6. PICK t \in Seq(Tokens) : t = s \o r
    BY Joined
  <1>7. /\ Len(t) = m + n
        /\ \A i \in 1..m : t[i] = s[i]
        /\ \A i \in m + 1..m + n : t[i] = r[i - m]
    <2>1. Len(s) = m /\ Len(r) = n
      BY <1>4, <1>5
    <2>2. /\ Len(s \o r) = Len(s) + Len(r)
          /\ \A i \in 1..Len(s) : (s \o r)[i] = s[i]
          /\ \A i \in Len(s) + 1..Len(s) + Len(r) : (s \o r)[i] = r[i - Len(s)]
      BY ONLY Joined
    <2> QED BY ONLY <1>6, <2>1, <2>2
  <1>8. ASSUME NEW i \in 1..Len(t) PROVE t[i] = SectorToken(lsn + i - 1, TRUE)
    <2>1. CASE i \in 1..m
      BY <2>1, <1>4, <1>7
    <2>2. CASE i \in m + 1..m + n
      <3>1. i - m \in 1..n /\ next + (i - m) - 1 = lsn + i - 1
        BY <2>2, <1>2
      <3>2. r[i - m] = SectorToken(next + (i - m) - 1, TRUE)
        BY <3>1, <1>5
      <3> QED BY <2>2, <3>1, <3>2, <1>7
    <2>3. i \in 1..m \/ i \in m + 1..m + n
      BY <1>7
    <2> QED BY <2>1, <2>2, <2>3
  <1>9. t = Run(lsn, m + n)
    BY <1>7, <1>8, IsRun
  <1> QED BY <1>1, <1>2, <1>3, <1>6, <1>9

LEMMA RunCut ==
    ASSUME NEW lsn \in Nat, NEW n \in Nat, NEW m \in 0..n
    PROVE  /\ SubSeq(Run(lsn, n), 1, m) = Run(lsn, m)
           /\ SubSeq(Run(lsn, n), m + 1, n) = Run(lsn + m, n - m)
  <1>1. PICK s \in Seq(Tokens) : s = Run(lsn, n)
    BY RunIsSeq
  <1>2. Len(s) = n /\ \A i \in 1..n : s[i] = SectorToken(lsn + i - 1, TRUE)
    BY <1>1, RunIsSeq
  <1>3. PICK next \in Nat : next = lsn + m
    OBVIOUS
  <1>4. PICK p, q : p = SubSeq(s, 1, m) /\ q = SubSeq(s, m + 1, n)
    OBVIOUS
  <1>5. /\ p \in Seq(Tokens) /\ Len(p) = m /\ \A i \in 1..m : p[i] = s[i]
        /\ q \in Seq(Tokens) /\ Len(q) = n - m /\ \A i \in 1..n - m : q[i] = s[m + i]
    BY <1>2, <1>4, Cut
  <1>6. ASSUME NEW i \in 1..Len(q) PROVE q[i] = SectorToken(next + i - 1, TRUE)
    <2>1. i \in 1..n - m /\ m + i \in 1..n /\ lsn + (m + i) - 1 = next + i - 1
      BY <1>3, <1>5
    <2>2. s[m + i] = SectorToken(lsn + (m + i) - 1, TRUE)
      BY <2>1, <1>2
    <2> QED BY <2>1, <2>2, <1>5
  <1>7. q = Run(next, n - m)
    BY <1>5, <1>6, IsRun
  <1>8. p = Run(lsn, m)
    <2>1. ASSUME NEW i \in 1..Len(p) PROVE p[i] = SectorToken(lsn + i - 1, TRUE)
      <3>1. i \in 1..m /\ i \in 1..n
        BY <1>5
      <3> QED BY <3>1, <1>2, <1>5
    <2> QED BY <2>1, <1>5, IsRun
  <1> QED BY <1>1, <1>3, <1>4, <1>7, <1>8

-----------------------------------------------------------------------------
(* The samples in what the player was given.                               *)

LEMMA NoSamples == ASSUME NEW a \in Nat PROVE SamplesAre(<<>>, a, a)
  BY DEF SamplesAre

\* A run of the next sectors makes them longer ...
LEMMA SamplesGoOn ==
    ASSUME NEW s \in Seq(Tokens), NEW a \in Nat, NEW b \in Nat, a <= b, SamplesAre(s, a, b),
           NEW n \in Nat
    PROVE  SamplesAre(s \o Run(b, n), a, b + n)
  <1>1. PICK r \in Seq(Tokens) : r = Run(b, n)
    BY RunIsSeq
  <1>11. PICK t \in Seq(Tokens) : t = s \o r
    BY Joined
  <1>12. Len(r) = n /\ \A i \in 1..n : r[i] = SectorToken(b + i - 1, TRUE)
    BY <1>1, RunIsSeq
  <1>2. /\ Len(t) = Len(s) + n /\ Len(s) \in Nat
        /\ \A i \in 1..Len(s) : t[i] = s[i]
        /\ \A i \in Len(s) + 1..Len(s) + n : t[i] = SectorToken(b + (i - Len(s)) - 1, TRUE)
    <2>1. /\ Len(t) = Len(s) + n /\ Len(s) \in Nat
          /\ \A i \in 1..Len(s) : t[i] = s[i]
          /\ \A i \in Len(s) + 1..Len(s) + n : t[i] = r[i - Len(s)]
      <3>1. /\ Len(s \o r) = Len(s) + Len(r)
            /\ \A i \in 1..Len(s) : (s \o r)[i] = s[i]
            /\ \A i \in Len(s) + 1..Len(s) + Len(r) : (s \o r)[i] = r[i - Len(s)]
        BY Joined
      <3> QED BY <3>1, <1>11, <1>12
    <2>2. \A i \in Len(s) + 1..Len(s) + n : i - Len(s) \in 1..n
      BY <2>1
    <2> QED BY <1>12, <2>1, <2>2
  <1>3. \A lsn : SectorToken(lsn, TRUE).kind = "samples" /\ SectorToken(lsn, TRUE).n = lsn
    BY DEF SectorToken
  <1> DEFINE old == {i \in DOMAIN s : s[i].kind = "samples"}
             new == {i \in DOMAIN t : t[i].kind = "samples"}
  <1>4. new = old \cup (Len(s) + 1..Len(s) + n)
    <2>1. DOMAIN s = 1..Len(s) /\ DOMAIN t = 1..Len(t)
      OBVIOUS
    <2>2. ASSUME NEW i \in 1..Len(t) PROVE i \in new <=> i \in old \/ i \in Len(s) + 1..Len(s) + n
      <3>1. CASE i \in 1..Len(s)
        BY <1>2, <2>1, <3>1
      <3>2. CASE i \in Len(s) + 1..Len(s) + n
        BY <1>2, <1>3, <2>1, <3>2
      <3> QED BY <1>2, <3>1, <3>2
    <2>3. old \cup (Len(s) + 1..Len(s) + n) \subseteq 1..Len(t) /\ new \subseteq 1..Len(t)
      BY <1>2, <2>1
    <2> QED BY <2>2, <2>3
  <1>5. \A i \in old : i \in 1..Len(s) /\ t[i] = s[i]
    BY <1>2
  <1>6. /\ \A i \in old : \E lsn \in a..b - 1 : s[i] = SectorToken(lsn, TRUE)
        /\ \A i, j \in old : i < j => s[i].n < s[j].n
        /\ \A lsn \in a..b - 1 : \E i \in old : s[i].n = lsn
    BY DEF SamplesAre
  <1> HIDE DEF old, new
  <1>7. ASSUME NEW i \in new PROVE \E lsn \in a..(b + n) - 1 : t[i] = SectorToken(lsn, TRUE)
    <2>1. CASE i \in old
      <3>1. PICK lsn \in a..b - 1 : s[i] = SectorToken(lsn, TRUE)
        BY <1>6, <2>1
      <3>2. lsn \in a..(b + n) - 1
        OBVIOUS
      <3>3. t[i] = SectorToken(lsn, TRUE)
        BY <1>5, <2>1, <3>1
      <3> QED BY <3>2, <3>3
    <2>2. CASE i \in Len(s) + 1..Len(s) + n
      <3>1. b + (i - Len(s)) - 1 \in a..(b + n) - 1
        BY <1>2, <2>2
      <3> QED BY <1>2, <2>2, <3>1
    <2> QED BY <1>4, <2>1, <2>2
  <1>8. ASSUME NEW i \in new, NEW j \in new, i < j PROVE t[i].n < t[j].n
    <2>1. CASE i \in old /\ j \in old
      BY <1>5, <1>6, <1>8, <2>1
    <2>2. CASE i \in old /\ j \in Len(s) + 1..Len(s) + n
      <3>1. PICK lsn \in a..b - 1 : t[i] = SectorToken(lsn, TRUE)
        BY <1>5, <1>6, <2>2
      <3>2. t[j].n = b + (j - Len(s)) - 1 /\ t[i].n = lsn
        BY <1>2, <1>3, <2>2, <3>1
      <3> QED BY <1>2, <2>2, <3>2
    <2>3. CASE i \in Len(s) + 1..Len(s) + n /\ j \in Len(s) + 1..Len(s) + n
      <3>1. t[j].n = b + (j - Len(s)) - 1 /\ t[i].n = b + (i - Len(s)) - 1
        BY <1>2, <1>3, <2>3
      <3> QED BY <1>2, <1>8, <2>3, <3>1
    <2>4. CASE i \in Len(s) + 1..Len(s) + n /\ j \in old
      BY <1>2, <1>5, <1>8, <2>4
    <2> QED BY <1>4, <2>1, <2>2, <2>3, <2>4
  <1>9. ASSUME NEW lsn \in a..(b + n) - 1 PROVE \E i \in new : t[i].n = lsn
    <2>1. CASE lsn < b
      <3>1. lsn \in a..b - 1
        BY <2>1
      <3>2. PICK i \in old : s[i].n = lsn
        BY <1>6, <3>1
      <3> QED BY <1>4, <1>5, <3>2
    <2>2. CASE lsn >= b
      <3>1. Len(s) + (lsn - b) + 1 \in Len(s) + 1..Len(s) + n
        BY <1>2, <2>2
      <3>2. t[Len(s) + (lsn - b) + 1] = SectorToken(lsn, TRUE)
        <4>1. b + ((Len(s) + (lsn - b) + 1) - Len(s)) - 1 = lsn
          BY <1>2
        <4> QED BY <1>2, <3>1, <4>1
      <3> QED BY <1>3, <1>4, <3>1, <3>2
    <2> QED BY <2>1, <2>2
  <1>10. SamplesAre(t, a, b + n)
    <2>1. /\ \A i \in new : \E lsn \in a..(b + n) - 1 : t[i] = SectorToken(lsn, TRUE)
          /\ \A i, j \in new : i < j => t[i].n < t[j].n
          /\ \A lsn \in a..(b + n) - 1 : \E i \in new : t[i].n = lsn
      BY <1>7, <1>8, <1>9
    <2> QED BY <2>1 DEF SamplesAre, new
  <1> QED BY <1>1, <1>11, <1>10

\* ... and tokens that are no samples leave them what they are.
LEMMA SamplesStay ==
    ASSUME NEW s \in Seq(Tokens), NEW a \in Nat, NEW b \in Nat, SamplesAre(s, a, b),
           NEW r \in Seq(Tokens), \A i \in 1..Len(r) : r[i].kind # "samples"
    PROVE  SamplesAre(s \o r, a, b)
  <1>1. PICK t \in Seq(Tokens) : t = s \o r
    BY Joined
  <1>2. /\ Len(t) = Len(s) + Len(r) /\ Len(s) \in Nat
        /\ \A i \in 1..Len(s) : t[i] = s[i]
        /\ \A i \in Len(s) + 1..Len(t) : t[i].kind # "samples"
    <2>1. /\ Len(t) = Len(s) + Len(r) /\ Len(s) \in Nat /\ Len(r) \in Nat
          /\ \A i \in 1..Len(s) : t[i] = s[i]
          /\ \A i \in Len(s) + 1..Len(s) + Len(r) : t[i] = r[i - Len(s)]
      BY <1>1, Joined
    <2>2. \A i \in Len(s) + 1..Len(s) + Len(r) : i - Len(s) \in 1..Len(r)
      BY <2>1
    <2> QED BY <2>1, <2>2
  <1> DEFINE old == {i \in DOMAIN s : s[i].kind = "samples"}
             new == {i \in DOMAIN t : t[i].kind = "samples"}
  <1>3. new = old /\ \A i \in old : t[i] = s[i]
    <2>1. DOMAIN s = 1..Len(s) /\ DOMAIN t = 1..Len(t)
      OBVIOUS
    <2>2. ASSUME NEW i \in 1..Len(t) PROVE i \in new <=> i \in old
      <3>1. i \in 1..Len(s) \/ (i \in Len(s) + 1..Len(t) /\ i \notin 1..Len(s))
        BY <1>2
      <3> QED BY <1>2, <2>1, <3>1
    <2>3. old \subseteq 1..Len(s) /\ 1..Len(s) \subseteq 1..Len(t) /\ new \subseteq 1..Len(t)
      BY <1>2, <2>1
    <2> QED BY <1>2, <2>2, <2>3
  <1>4. /\ \A i \in old : \E lsn \in a..b - 1 : s[i] = SectorToken(lsn, TRUE)
        /\ \A i, j \in old : i < j => s[i].n < s[j].n
        /\ \A lsn \in a..b - 1 : \E i \in old : s[i].n = lsn
    BY DEF SamplesAre
  <1> HIDE DEF old, new
  <1>5. /\ \A i \in new : \E lsn \in a..b - 1 : t[i] = SectorToken(lsn, TRUE)
        /\ \A i, j \in new : i < j => t[i].n < t[j].n
        /\ \A lsn \in a..b - 1 : \E i \in new : t[i].n = lsn
    BY <1>3, <1>4
  <1> QED BY <1>1, <1>5 DEF SamplesAre, new


-----------------------------------------------------------------------------
(* One handle moves at a time.                                             *)

Moves(h, f, g, r) == /\ file' = [file EXCEPT ![h] = f]
                     /\ got' = [got EXCEPT ![h] = g]
                     /\ result' = [result EXCEPT ![h] = r]

TagTyped == tagSize \in Nat /\ tagOwner \in Handles \cup {NoOwner}

LEMMA OneHandleMoves ==
    ASSUME IInv, NEW h \in Handles, NEW f, NEW g, NEW r, HandleOK(h, f, g, r),
           Moves(h, f, g, r), TagTyped'
    PROVE  IInv'
  <1>1. \A k \in Handles : /\ file'[k] = IF k = h THEN f ELSE file[k]
                           /\ got'[k] = IF k = h THEN g ELSE got[k]
                           /\ result'[k] = IF k = h THEN r ELSE result[k]
    BY DEF IInv, Moves
  <1>2. /\ file' = [k \in Handles |-> file'[k]] /\ got' = [k \in Handles |-> got'[k]]
        /\ result' = [k \in Handles |-> result'[k]]
    BY DEF IInv, Moves
  <1>3. ASSUME NEW k \in Handles PROVE HandleOK(k, file'[k], got'[k], result'[k])
    <2>1. CASE k = h
      BY <1>1, <2>1
    <2>2. CASE k # h
      <3>1. file'[k] = file[k] /\ got'[k] = got[k] /\ result'[k] = result[k]
        BY <1>1, <2>2
      <3> QED BY <3>1 DEF IInv
    <2> QED BY <2>1, <2>2
  <1> QED BY <1>2, <1>3 DEF IInv, TagTyped

\* What is known of the handle that moves, and of the three functions.
LEMMA HandleNow ==
    ASSUME IInv, NEW h \in Handles
    PROVE  /\ HandleOK(h, file[h], got[h], result[h])
           /\ file[h] \in Contexts /\ got[h] \in Seq(Tokens) /\ result[h] \in Results
           /\ file = [file EXCEPT ![h] = file[h]] /\ got = [got EXCEPT ![h] = got[h]]
           /\ result = [result EXCEPT ![h] = result[h]]
           /\ TagTyped
  <1>1. /\ file = [k \in Handles |-> file[k]] /\ got = [k \in Handles |-> got[k]]
        /\ result = [k \in Handles |-> result[k]]
    BY DEF IInv
  <1> QED BY <1>1 DEF IInv, HandleOK, TagTyped

LEMMA Fields ==
    ASSUME NEW f \in Contexts
    PROVE  /\ f.pc \in {"closed", "opening", "open", "decoding"}
           /\ f.lsn \in Nat /\ f.pos \in Nat
           /\ f.pending \in Seq(Tokens) /\ Len(f.pending) \in Nat
           /\ f.decoded \in Seq(Tokens) /\ Len(f.decoded) \in Nat
           /\ f.checked \in BOOLEAN /\ f.plain \in BOOLEAN
           /\ f.disc \in [encrypted : BOOLEAN, probed : BOOLEAN]
           /\ f.disc.encrypted \in BOOLEAN /\ f.disc.probed \in BOOLEAN
  BY DEF Contexts

-----------------------------------------------------------------------------
(* CSACDFile::Open and Close.                                              *)

LEMMA ClosedIsOK == ASSUME NEW h \in Handles, NEW g \in Seq(Tokens), NEW r \in Results
                    PROVE  HandleOK(h, Closed, g, r)
  <1>1. <<>> \in Seq(Tokens)
    BY EmptySeq
  <1>2. Closed \in Contexts
    BY <1>1 DEF Closed, Contexts
  <1>3. Closed.pc = "closed" /\ Closed.pos = 0 /\ Closed.pending = <<>> /\ Closed.decoded = <<>>
        /\ Closed.checked = FALSE /\ Closed.plain = FALSE
    BY DEF Closed
  <1> QED BY <1>2, <1>3 DEF HandleOK, IdleOK, ProbeOK, InOrder, EndOK, Going

LEMMA OpenKeepsIInv == ASSUME IInv, NEW h \in Handles, Open(h) PROVE IInv'
  <1>1. PICK f : f = file[h]
    OBVIOUS
  <1>2. f \in Contexts /\ HandleOK(h, f, got[h], result[h]) /\ f.pc = "closed"
    BY <1>1, HandleNow DEF Open
  <1>3. PICK disc \in Discs : file' = [file EXCEPT ![h].pc = "opening", ![h].disc = disc]
    BY DEF Open
  <1>4. PICK f2 : f2 = [f EXCEPT !.pc = "opening", !.disc = disc]
    OBVIOUS
  <1>5. disc \in [encrypted : BOOLEAN, probed : BOOLEAN]
    BY ProbeAssumption
  <1>6. /\ f2 \in Contexts /\ f2.pc = "opening" /\ f2.disc = disc /\ f2.pos = f.pos
        /\ f2.pending = f.pending /\ f2.decoded = f.decoded
        /\ f2.checked = f.checked /\ f2.plain = f.plain
    BY <1>2, <1>4, <1>5 DEF Contexts
  <1>7. HandleOK(h, f2, <<>>, "none")
    <2>1. <<>> \in Seq(Tokens) /\ "none" \in Results
      BY EmptySeq DEF Results
    <2>2. IdleOK(f2, <<>>, "none")
      BY <1>2, <1>6 DEF HandleOK, IdleOK, Going
    <2>3. ProbeOK(f2)
      BY <1>2, <1>6 DEF HandleOK, IdleOK, ProbeOK, Going
    <2> QED BY <1>6, <2>1, <2>2, <2>3 DEF HandleOK, InOrder, EndOK, Going
  <1>8. Moves(h, f2, <<>>, "none")
    BY <1>1, <1>3, <1>4, HandleNow DEF Open, Moves
  <1>9. TagTyped'
    BY Numbers DEF Open, TagTyped
  <1> QED BY <1>7, <1>8, <1>9, OneHandleMoves

LEMMA RenderTagKeepsIInv == ASSUME IInv, NEW h \in Handles, RenderTag(h) PROVE IInv'
  <1>1. PICK f, g, r : f = file[h] /\ g = got[h] /\ r = result[h]
    OBVIOUS
  <1>2. f \in Contexts /\ HandleOK(h, f, g, r) /\ f.pc = "opening"
    BY <1>1, HandleNow DEF RenderTag
  <1>3. PICK f2 : f2 = [f EXCEPT !.pc = "open", !.lsn = First[h]]
    OBVIOUS
  <1>4. First[h] \in Nat /\ First[h] <= End[h] /\ End[h] \in Nat /\ TagSize[h] \in Nat
    BY Numbers
  <1>5. /\ f2 \in Contexts /\ f2.pc = "open" /\ f2.lsn = First[h] /\ f2.pos = f.pos
        /\ f2.pending = f.pending /\ f2.decoded = f.decoded
        /\ f2.checked = f.checked /\ f2.plain = f.plain /\ f2.disc = f.disc
    BY <1>2, <1>3, <1>4 DEF Contexts
  <1>6. /\ f.pending = <<>> /\ f.decoded = <<>> /\ f.checked = FALSE /\ f.plain = FALSE
        /\ g = <<>> /\ r = "none" /\ g \in Seq(Tokens) /\ r \in Results
    BY <1>2 DEF HandleOK, IdleOK, Going
  <1>7. HandleOK(h, f2, g, r)
    <2>1. Behind(f2) = First[h] /\ Len(f2.decoded) = 0 /\ Len(f2.pending) = 0
      BY <1>4, <1>5, <1>6 DEF Behind
    <2>2. Run(First[h], 0) = <<>> /\ Run(First[h] + 0, 0) = <<>>
      BY DEF Run
    <2>3. SamplesAre(g, First[h], First[h])
      BY <1>4, <1>6, NoSamples
    <2>4. InOrder(h, f2, g)
      BY <1>4, <1>5, <1>6, <2>1, <2>2, <2>3, Numbers DEF InOrder
    <2>5. IdleOK(f2, g, r) /\ EndOK(h, f2, r)
      BY <1>5, <1>6 DEF IdleOK, EndOK, Going
    <2>6. ProbeOK(f2)
      BY <1>2, <1>5 DEF HandleOK, ProbeOK
    <2> QED BY <1>5, <1>6, <2>4, <2>5, <2>6 DEF HandleOK
  <1>8. Moves(h, f2, g, r)
    BY <1>1, <1>3, HandleNow DEF RenderTag, Moves
  <1>9. TagTyped'
    BY <1>4 DEF RenderTag, TagTyped
  <1> QED BY <1>7, <1>8, <1>9, OneHandleMoves

LEMMA OpenFailsKeepsIInv == ASSUME IInv, NEW h \in Handles, OpenFails(h) PROVE IInv'
  <1>1. PICK f, g, r : f = file[h] /\ g = got[h] /\ r = result[h]
    OBVIOUS
  <1>2. f \in Contexts /\ HandleOK(h, f, g, r) /\ f.pc = "closed"
    BY <1>1, HandleNow DEF OpenFails
  <1>3. HandleOK(h, f, g, "failed")
    BY <1>2 DEF HandleOK, IdleOK, EndOK, Going, Results
  <1>4. Moves(h, f, g, "failed") /\ TagTyped'
    BY <1>1, HandleNow DEF OpenFails, Moves, TagTyped
  <1> QED BY <1>3, <1>4, OneHandleMoves

LEMMA CloseKeepsIInv == ASSUME IInv, NEW h \in Handles, Close(h) PROVE IInv'
  <1>1. PICK g, r : g = got[h] /\ r = result[h]
    OBVIOUS
  <1>2. HandleOK(h, Closed, g, r)
    BY <1>1, HandleNow, ClosedIsOK
  <1>3. Moves(h, Closed, g, r) /\ TagTyped'
    BY <1>1, HandleNow DEF Close, Moves, TagTyped
  <1> QED BY <1>2, <1>3, OneHandleMoves

-----------------------------------------------------------------------------
(* CSACDFile::Read.                                                        *)

LEMMA LeastOf ==
    ASSUME NEW a \in Nat, NEW b \in Nat
    PROVE  Least(a, b) \in Nat /\ Least(a, b) <= a /\ Least(a, b) <= b
  BY DEF Least

\* A piece of the tag or of the header is given.
LEMMA FrontGiven ==
    ASSUME NEW h \in Handles, NEW f, NEW g, NEW r, HandleOK(h, f, g, r), Going(f),
           NEW c \in Nat, NEW s \in Seq(Tokens), \A i \in 1..Len(s) : s[i].kind # "samples"
    PROVE  HandleOK(h, [f EXCEPT !.pos = f.pos + c], g \o s, "data")
  <1>1. PICK f2 : f2 = [f EXCEPT !.pos = f.pos + c]
    OBVIOUS
  <1>2. f \in Contexts /\ g \in Seq(Tokens)
    BY DEF HandleOK
  <1>8. f.pos + c \in Nat
    BY <1>2, Fields
  <1>3. /\ f2 \in Contexts /\ f2.pc = f.pc /\ f2.lsn = f.lsn
        /\ f2.pending = f.pending /\ f2.decoded = f.decoded
        /\ f2.checked = f.checked /\ f2.plain = f.plain /\ f2.disc = f.disc
    BY <1>1, <1>2, <1>8 DEF Contexts
  <1>4. Going(f2) /\ Behind(f2) = Behind(f) /\ f2.pc # "opening" /\ f2.pc # "closed"
    BY <1>3 DEF Going, Behind
  <1>5. PICK t \in Seq(Tokens) : t = g \o s
    BY <1>2, Joined
  <1>6. InOrder(h, f2, t)
    <2>1. /\ First[h] <= Behind(f) /\ f.lsn <= End[h]
          /\ f.decoded = Run(Behind(f), Len(f.decoded))
          /\ f.pending = Run(Behind(f) + Len(f.decoded), Len(f.pending))
          /\ Len(f.pending) <= MaxPending
          /\ SamplesAre(g, First[h], Behind(f))
      BY DEF HandleOK, InOrder
    <2>2. Behind(f) \in Nat /\ First[h] \in Nat
      BY <1>2, <2>1, Fields, Numbers DEF Behind
    <2>3. SamplesAre(t, First[h], Behind(f))
      BY <1>2, <1>5, <2>1, <2>2, SamplesStay
    <2> QED BY <1>3, <1>4, <2>1, <2>3 DEF InOrder
  <1>7. IdleOK(f2, t, "data") /\ ProbeOK(f2) /\ EndOK(h, f2, "data") /\ "data" \in Results
    BY <1>3, <1>4 DEF HandleOK, IdleOK, ProbeOK, EndOK, Going, Results
  <1> QED BY <1>1, <1>3, <1>5, <1>6, <1>7 DEF HandleOK

\* The pieces that ReadTag and ReadHeader give.
TagPiece(pos, n) == [i \in 1..n |-> TagToken(tagOwner, pos + i)]
HeaderPiece(h, at, n) == [i \in 1..n |-> HeaderToken(h, at + i)]

LEMMA PiecesAreTokens ==
    ASSUME TagTyped, NEW h \in Handles, NEW at \in Nat, NEW n \in Nat
    PROVE  /\ TagPiece(at, n) \in Seq(Tokens) /\ Len(TagPiece(at, n)) = n
           /\ \A i \in 1..n : TagPiece(at, n)[i] = TagToken(tagOwner, at + i)
           /\ \A i \in 1..n : TagPiece(at, n)[i].kind # "samples"
           /\ HeaderPiece(h, at, n) \in Seq(Tokens) /\ Len(HeaderPiece(h, at, n)) = n
           /\ \A i \in 1..n : HeaderPiece(h, at, n)[i] = HeaderToken(h, at + i)
           /\ \A i \in 1..n : HeaderPiece(h, at, n)[i].kind # "samples"
  <1>1. /\ \A i \in 1..n : TagPiece(at, n)[i] = TagToken(tagOwner, at + i)
        /\ \A i \in 1..n : HeaderPiece(h, at, n)[i] = HeaderToken(h, at + i)
    BY DEF TagPiece, HeaderPiece
  <1>2. \A i \in 1..n : at + i \in Nat
    OBVIOUS
  <1>3. TagPiece(at, n) \in [1..n -> Tokens]
    BY <1>2, TokensAreTokens DEF TagPiece, TagTyped
  <1>4. HeaderPiece(h, at, n) \in [1..n -> Tokens]
    BY <1>2, TokensAreTokens DEF HeaderPiece
  <1>5. TagPiece(at, n) \in Seq(Tokens) /\ Len(TagPiece(at, n)) = n
    BY <1>3
  <1>6. HeaderPiece(h, at, n) \in Seq(Tokens) /\ Len(HeaderPiece(h, at, n)) = n
    BY <1>4
  <1>7. /\ \A i \in 1..n : TagPiece(at, n)[i].kind # "samples"
        /\ \A i \in 1..n : HeaderPiece(h, at, n)[i].kind # "samples"
    <2>1. \A o, k : TagToken(o, k).kind # "samples" /\ HeaderToken(o, k).kind # "samples"
      BY DEF TagToken, HeaderToken
    <2> QED BY <1>1, <2>1
  <1> QED BY <1>1, <1>5, <1>6, <1>7

\* What ReadTag does, with its numbers.
LEMMA TagIsRead ==
    ASSUME IInv, NEW h \in Handles, NEW n \in 1..MaxRead, ReadTag(h, n)
    PROVE  \E c \in Nat : /\ c <= tagSize - file[h].pos /\ file[h].pc = "open"
                          /\ file[h].pos < tagSize
                          /\ Moves(h, [file[h] EXCEPT !.pos = file[h].pos + c],
                                   got[h] \o TagPiece(file[h].pos, c), "data")
                          /\ UNCHANGED <<tagSize, tagOwner>>
  <1>1. /\ file[h].pos \in Nat /\ tagSize \in Nat /\ n \in Nat /\ file[h].pos < tagSize
        /\ file[h].pc = "open"
    BY HandleNow, Fields, Numbers DEF ReadTag, TagTyped
  <1>2. PICK c : c = Least(n, tagSize - file[h].pos)
    OBVIOUS
  <1>3. c \in Nat /\ c <= tagSize - file[h].pos
    BY <1>1, <1>2, LeastOf
  <1>4. Moves(h, [file[h] EXCEPT !.pos = file[h].pos + c], got[h] \o TagPiece(file[h].pos, c), "data")
    BY <1>2 DEF ReadTag, Give, Moves, TagPiece
  <1> QED BY <1>1, <1>3, <1>4 DEF ReadTag

LEMMA HeaderIsRead ==
    ASSUME IInv, NEW h \in Handles, NEW n \in 1..MaxRead, ReadHeader(h, n)
    PROVE  \E c \in Nat : /\ c <= HeaderSize - (file[h].pos - tagSize) /\ file[h].pc = "open"
                          /\ file[h].pos >= tagSize /\ file[h].pos - tagSize < HeaderSize
                          /\ Moves(h, [file[h] EXCEPT !.pos = file[h].pos + c],
                                   got[h] \o HeaderPiece(h, file[h].pos - tagSize, c), "data")
                          /\ UNCHANGED <<tagSize, tagOwner>>
  <1>1. /\ file[h].pos \in Nat /\ tagSize \in Nat /\ n \in Nat /\ file[h].pos >= tagSize
        /\ file[h].pos - tagSize < HeaderSize /\ HeaderSize \in Nat
        /\ file[h].pc = "open"
    BY HandleNow, Fields, Numbers DEF ReadHeader, TagTyped
  <1>2. PICK c : c = Least(n, HeaderSize - (file[h].pos - tagSize))
    OBVIOUS
  <1>3. c \in Nat /\ c <= HeaderSize - (file[h].pos - tagSize)
    BY <1>1, <1>2, LeastOf
  <1>4. Moves(h, [file[h] EXCEPT !.pos = file[h].pos + c],
              got[h] \o HeaderPiece(h, file[h].pos - tagSize, c), "data")
    BY <1>2 DEF ReadHeader, Give, Moves, HeaderPiece
  <1> QED BY <1>1, <1>3, <1>4 DEF ReadHeader

LEMMA ReadTagKeepsIInv ==
    ASSUME IInv, NEW h \in Handles, NEW n \in 1..MaxRead, ReadTag(h, n) PROVE IInv'
  <1>1. PICK f, g, r : f = file[h] /\ g = got[h] /\ r = result[h]
    OBVIOUS
  <1>2. PICK c \in Nat : /\ f.pc = "open" /\ UNCHANGED <<tagSize, tagOwner>>
                         /\ Moves(h, [f EXCEPT !.pos = f.pos + c], g \o TagPiece(f.pos, c), "data")
    BY <1>1, TagIsRead
  <1>3. HandleOK(h, f, g, r) /\ TagTyped /\ f.pos \in Nat /\ Going(f)
    BY <1>1, <1>2, HandleNow, Fields DEF Going
  <1>4. PICK s \in Seq(Tokens) : s = TagPiece(f.pos, c) /\ \A i \in 1..Len(s) : s[i].kind # "samples"
    <2>1. /\ TagPiece(f.pos, c) \in Seq(Tokens) /\ Len(TagPiece(f.pos, c)) = c
          /\ \A i \in 1..c : TagPiece(f.pos, c)[i].kind # "samples"
      BY <1>3, PiecesAreTokens
    <2> QED BY <2>1
  <1>5. HandleOK(h, [f EXCEPT !.pos = f.pos + c], g \o s, "data")
    BY <1>3, <1>4, FrontGiven
  <1>6. TagTyped'
    BY <1>2, <1>3 DEF TagTyped
  <1> QED BY <1>2, <1>4, <1>5, <1>6, OneHandleMoves

LEMMA ReadHeaderKeepsIInv ==
    ASSUME IInv, NEW h \in Handles, NEW n \in 1..MaxRead, ReadHeader(h, n) PROVE IInv'
  <1>1. PICK f, g, r, at : f = file[h] /\ g = got[h] /\ r = result[h] /\ at = f.pos - tagSize
    OBVIOUS
  <1>2. PICK c \in Nat : /\ f.pc = "open" /\ UNCHANGED <<tagSize, tagOwner>> /\ f.pos >= tagSize
                         /\ Moves(h, [f EXCEPT !.pos = f.pos + c], g \o HeaderPiece(h, at, c), "data")
    BY <1>1, HeaderIsRead
  <1>3. HandleOK(h, f, g, r) /\ TagTyped /\ at \in Nat /\ Going(f)
    BY <1>1, <1>2, HandleNow, Fields DEF Going, TagTyped
  <1>4. PICK s \in Seq(Tokens) : s = HeaderPiece(h, at, c) /\ \A i \in 1..Len(s) : s[i].kind # "samples"
    <2>1. /\ HeaderPiece(h, at, c) \in Seq(Tokens) /\ Len(HeaderPiece(h, at, c)) = c
          /\ \A i \in 1..c : HeaderPiece(h, at, c)[i].kind # "samples"
      BY <1>3, PiecesAreTokens
    <2> QED BY <2>1
  <1>5. HandleOK(h, [f EXCEPT !.pos = f.pos + c], g \o s, "data")
    BY <1>3, <1>4, FrontGiven
  <1>6. TagTyped'
    BY <1>2, <1>3 DEF TagTyped
  <1> QED BY <1>2, <1>4, <1>5, <1>6, OneHandleMoves

\* What Decoding says of the context.
LEMMA DecodingIsGoing ==
    ASSUME IInv, NEW h \in Handles, Decoding(h)
    PROVE  Going(file[h])
  BY DEF Decoding, Going

\* Read ends with an error or at the end of the track.
LEMMA OnlyResult ==
    ASSUME NEW h \in Handles, NEW f, NEW g, NEW r, HandleOK(h, f, g, r), Going(f),
           NEW r2 \in Results, r2 = "end" => f.lsn = End[h] /\ Len(f.decoded) < LowWater
    PROVE  HandleOK(h, [f EXCEPT !.pc = "open"], g, r2)
  <1>1. PICK f2 : f2 = [f EXCEPT !.pc = "open"]
    OBVIOUS
  <1>2. f \in Contexts /\ g \in Seq(Tokens)
    BY DEF HandleOK
  <1>3. /\ f2 \in Contexts /\ f2.pc = "open" /\ f2.lsn = f.lsn
        /\ f2.pending = f.pending /\ f2.decoded = f.decoded
        /\ f2.checked = f.checked /\ f2.plain = f.plain /\ f2.disc = f.disc
    BY <1>1, <1>2 DEF Contexts
  <1>4. Going(f2) /\ Behind(f2) = Behind(f) /\ f.pc # "closed"
    BY <1>3 DEF Going, Behind
  <1>5. InOrder(h, f2, g)
    BY <1>3, <1>4 DEF HandleOK, InOrder
  <1>6. IdleOK(f2, g, r2) /\ ProbeOK(f2) /\ EndOK(h, f2, r2)
    BY <1>3, <1>4 DEF HandleOK, IdleOK, ProbeOK, EndOK, Going
  <1> QED BY <1>1, <1>2, <1>3, <1>5, <1>6 DEF HandleOK

LEMMA ReadFailsKeepsIInv == ASSUME IInv, NEW h \in Handles, ReadFails(h) PROVE IInv'
  <1>1. PICK f, g, r : f = file[h] /\ g = got[h] /\ r = result[h]
    OBVIOUS
  <1>2. HandleOK(h, f, g, r) /\ Going(f) /\ TagTyped
    BY <1>1, HandleNow, DecodingIsGoing DEF ReadFails
  <1>3. HandleOK(h, [f EXCEPT !.pc = "open"], g, "error")
    BY <1>2, OnlyResult DEF Results
  <1>4. Moves(h, [f EXCEPT !.pc = "open"], g, "error") /\ TagTyped'
    BY <1>1, <1>2, HandleNow DEF ReadFails, Moves, TagTyped
  <1> QED BY <1>3, <1>4, OneHandleMoves

LEMMA EndOfFileKeepsIInv == ASSUME IInv, NEW h \in Handles, EndOfFile(h) PROVE IInv'
  <1>1. PICK f, g, r : f = file[h] /\ g = got[h] /\ r = result[h]
    OBVIOUS
  <1>2. HandleOK(h, f, g, r) /\ Going(f) /\ TagTyped /\ f \in Contexts
    BY <1>1, HandleNow, DecodingIsGoing DEF EndOfFile
  <1>3. f.lsn = End[h] /\ Len(f.decoded) < LowWater
    BY <1>1, <1>2, Fields, Numbers DEF EndOfFile, Short, HandleOK, InOrder
  <1>4. HandleOK(h, [f EXCEPT !.pc = "open"], g, "end")
    BY <1>2, <1>3, OnlyResult DEF Results
  <1>5. Moves(h, [f EXCEPT !.pc = "open"], g, "end") /\ TagTyped'
    BY <1>1, <1>2, HandleNow DEF EndOfFile, Moves, TagTyped
  <1> QED BY <1>4, <1>5, OneHandleMoves

\* Where the samples that wait begin and how many they are.
LEMMA Waiting ==
    ASSUME NEW h \in Handles, NEW f, NEW g, NEW r, HandleOK(h, f, g, r), Going(f)
    PROVE  \E k \in Nat, m \in Nat, n \in Nat :
              /\ k = Behind(f) /\ m = Len(f.decoded) /\ n = Len(f.pending)
              /\ f.lsn = (k + m) + n /\ First[h] <= k /\ n <= MaxPending
              /\ f.decoded = Run(k, m) /\ f.pending = Run(k + m, n)
              /\ SamplesAre(g, First[h], k)
  <1>1. f \in Contexts
    BY DEF HandleOK
  <1>2. PICK m \in Nat, n \in Nat : m = Len(f.decoded) /\ n = Len(f.pending)
    BY <1>1, Fields
  <1>3. /\ First[h] <= Behind(f)
        /\ f.decoded = Run(Behind(f), Len(f.decoded))
        /\ f.pending = Run(Behind(f) + Len(f.decoded), Len(f.pending))
        /\ Len(f.pending) <= MaxPending
        /\ SamplesAre(g, First[h], Behind(f))
    BY DEF HandleOK, InOrder
  <1>4. f.lsn \in Nat /\ First[h] \in Nat
    BY <1>1, Fields, Numbers
  <1>5. PICK k \in Nat : k = Behind(f) /\ f.lsn = (k + m) + n
    <2>1. Behind(f) = f.lsn - n - m
      BY <1>2 DEF Behind
    <2> QED BY <1>3, <1>4, <2>1
  <1> QED BY <1>2, <1>3, <1>5

\* Samples are given from decode_buffer, ...
AfterGiving(f, c) == [f EXCEPT !.pc = "open", !.pos = f.pos + c,
                               !.decoded = SubSeq(f.decoded, c + 1, Len(f.decoded))]

LEMMA SamplesGiven ==
    ASSUME NEW h \in Handles, NEW f, NEW g, NEW r, HandleOK(h, f, g, r), Going(f),
           NEW c \in 0..Len(f.decoded), NEW f2, f2 = AfterGiving(f, c)
    PROVE  /\ HandleOK(h, f2, g \o SubSeq(f.decoded, 1, c), "data")
           /\ SubSeq(f.decoded, 1, c) = Run(Behind(f), c)
           /\ Behind(f2) = Behind(f) + c /\ f2.pos = f.pos + c /\ f2.pc = "open"
  <1>1. f \in Contexts /\ g \in Seq(Tokens)
    BY DEF HandleOK
  <1>2. PICK k \in Nat, m \in Nat, n \in Nat :
              /\ k = Behind(f) /\ m = Len(f.decoded) /\ n = Len(f.pending)
              /\ f.lsn = (k + m) + n /\ First[h] <= k /\ n <= MaxPending
              /\ f.decoded = Run(k, m) /\ f.pending = Run(k + m, n)
              /\ SamplesAre(g, First[h], k)
    BY Waiting
  <1>3. /\ f.lsn \in Nat /\ f.pos \in Nat /\ First[h] \in Nat /\ c \in Nat /\ c <= m
        /\ c \in 0..m /\ m - c \in Nat /\ k + c \in Nat
    <2>1. f.lsn \in Nat /\ f.pos \in Nat /\ First[h] \in Nat /\ c \in 0..m
      BY <1>1, <1>2, Fields, Numbers
    <2> QED BY <2>1
  <1>4. PICK d : d = f.decoded
    OBVIOUS
  <1>5. SubSeq(d, 1, c) = Run(k, c) /\ SubSeq(d, c + 1, m) = Run(k + c, m - c)
    <2>1. SubSeq(Run(k, m), 1, c) = Run(k, c) /\ SubSeq(Run(k, m), c + 1, m) = Run(k + c, m - c)
      BY <1>3, RunCut
    <2> QED BY <1>2, <1>4, <2>1
  <1>6. PICK e : e = Run(k + c, m - c)
    OBVIOUS
  <1>7. e \in Seq(Tokens) /\ Len(e) = m - c
    BY <1>3, <1>6, RunIsSeq
  <1>8. f.pos + c \in Nat
    BY <1>3
  <1>18. f2 = [f EXCEPT !.pc = "open", !.pos = f.pos + c, !.decoded = e]
    BY <1>2, <1>4, <1>5, <1>6 DEF AfterGiving
  <1>9. /\ f2 \in Contexts /\ f2.pc = "open" /\ f2.lsn = f.lsn /\ f2.pos = f.pos + c
        /\ f2.pending = f.pending /\ f2.decoded = e
        /\ f2.checked = f.checked /\ f2.plain = f.plain /\ f2.disc = f.disc
    BY <1>1, <1>7, <1>8, <1>18 DEF Contexts
  <1>10. Going(f2) /\ f.pc # "closed"
    BY <1>9 DEF Going
  <1>15. Behind(f2) = k + c
    <2>1. Behind(f2) = f.lsn - n - (m - c)
      BY <1>2, <1>7, <1>9 DEF Behind
    <2>2. ((k + m) + n) - n - (m - c) = k + c
      BY <1>3
    <2> QED BY <1>2, <2>1, <2>2
  <1>11. PICK t \in Seq(Tokens) : t = g \o Run(k, c)
    BY <1>1, <1>3, RunIsSeq, Joined
  <1>12. InOrder(h, f2, t)
    <2>1. SamplesAre(t, First[h], k + c)
      BY <1>1, <1>2, <1>3, <1>11, SamplesGoOn
    <2>2. First[h] <= k + c
      BY <1>2, <1>3
    <2>4. (k + c) + (m - c) = k + m
      BY <1>3
    <2>3. f2.pending = Run((k + c) + Len(f2.decoded), Len(f2.pending))
      BY <1>2, <1>7, <1>9, <2>4
    <2>5. f2.lsn <= End[h]
      BY <1>9 DEF HandleOK, InOrder
    <2>6. f2.decoded = Run(k + c, Len(f2.decoded)) /\ Len(f2.pending) <= MaxPending
      BY <1>2, <1>6, <1>7, <1>9
    <2> QED BY <1>15, <2>1, <2>2, <2>3, <2>5, <2>6 DEF InOrder
  <1>13. IdleOK(f2, t, "data") /\ ProbeOK(f2) /\ EndOK(h, f2, "data") /\ "data" \in Results
    BY <1>9, <1>10 DEF HandleOK, IdleOK, ProbeOK, EndOK, Going, Results
  <1>14. HandleOK(h, f2, t, "data")
    BY <1>9, <1>12, <1>13 DEF HandleOK
  <1> QED BY <1>2, <1>4, <1>5, <1>9, <1>11, <1>14, <1>15

LEMMA SamplesAreRead ==
    ASSUME IInv, NEW h \in Handles, NEW n \in 1..MaxRead, ReadSamples(h, n)
    PROVE  \E c \in 0..Len(file[h].decoded) :
              /\ Going(file[h]) /\ UNCHANGED <<tagSize, tagOwner>>
              /\ Moves(h, AfterGiving(file[h], c), got[h] \o SubSeq(file[h].decoded, 1, c), "data")
  <1>1. Len(file[h].decoded) \in Nat /\ n \in Nat /\ Going(file[h])
    BY HandleNow, Fields, Numbers, DecodingIsGoing DEF ReadSamples
  <1>2. PICK c : c = Least(n, Len(file[h].decoded))
    OBVIOUS
  <1>3. c \in 0..Len(file[h].decoded)
    <2>1. PICK m \in Nat : m = Len(file[h].decoded)
      BY <1>1
    <2>2. Least(n, m) \in Nat /\ Least(n, m) <= m
      BY <1>1, LeastOf
    <2> QED BY <1>2, <2>1, <2>2
  <1>4. Moves(h, AfterGiving(file[h], c), got[h] \o SubSeq(file[h].decoded, 1, c), "data")
    BY <1>2 DEF ReadSamples, Give, Moves, AfterGiving
  <1> QED BY <1>1, <1>3, <1>4 DEF ReadSamples

LEMMA ReadSamplesKeepsIInv ==
    ASSUME IInv, NEW h \in Handles, NEW n \in 1..MaxRead, ReadSamples(h, n) PROVE IInv'
  <1>1. PICK f, g, r : f = file[h] /\ g = got[h] /\ r = result[h]
    OBVIOUS
  <1>2. PICK c \in 0..Len(f.decoded) :
           /\ Going(f) /\ UNCHANGED <<tagSize, tagOwner>>
           /\ Moves(h, AfterGiving(f, c), g \o SubSeq(f.decoded, 1, c), "data")
    BY <1>1, SamplesAreRead
  <1>3. HandleOK(h, f, g, r) /\ TagTyped
    BY <1>1, HandleNow
  <1>4. PICK f2 : f2 = AfterGiving(f, c)
    OBVIOUS
  <1>5. HandleOK(h, f2, g \o SubSeq(f.decoded, 1, c), "data")
    BY <1>2, <1>3, <1>4, SamplesGiven
  <1>6. TagTyped'
    BY <1>2, <1>3 DEF TagTyped
  <1> QED BY <1>2, <1>4, <1>5, <1>6, OneHandleMoves

\* ... after batches have filled it.  Every sector of a batch is decrypted just
\* in case it is encrypted: the batch lies inside or outside of the areas, and
\* the probe of the first batch inside has told whether the disc is plain.
Decrypted(f, batch) == batch.encrypted /\ ~FoundPlain(f, batch)

BatchTokens(f, batch, count) ==
    [i \in 1..count |-> SectorToken(f.lsn + i - 1,
        Decrypted(f, batch) = (InEncryptedArea(f.lsn + i - 1) /\ f.disc.encrypted))]

LEMMA BatchIsRight ==
    ASSUME NEW h \in Handles, NEW f, f \in Contexts, ProbeOK(f), Going(f),
           0 < f.lsn, f.lsn < End[h], NEW batch, batch = NextBatch(f.lsn, End[h]),
           NEW count \in 1..batch.size
    PROVE  /\ f.lsn + count <= End[h] /\ count <= MaxBatch /\ count \in Nat /\ count > 0
           /\ BatchTokens(f, batch, count) = Run(f.lsn, count)
           /\ FoundPlain(f, batch) = ((f.checked \/ batch.encrypted) /\ ~f.disc.encrypted)
           /\ FoundPlain(f, batch) \in BOOLEAN /\ (f.checked \/ batch.encrypted) \in BOOLEAN
  <1>1. f.lsn \in Nat /\ End[h] \in Nat /\ MaxBatch \in Nat
    BY Fields, Numbers
  <1>2. /\ batch.size \in 1..MaxBatch /\ f.lsn + batch.size <= End[h]
        /\ \A n \in f.lsn..f.lsn + batch.size - 1 : InEncryptedArea(n) <=> batch.encrypted
    BY <1>1, NextBatchIsUniform
  <1>3. batch.encrypted \in BOOLEAN
    BY DEF NextBatch, Batch
  <1>4. f.lsn + count <= End[h] /\ count <= MaxBatch /\ count \in Nat /\ count > 0
    BY <1>1, <1>2
  <1>5. /\ f.checked \in BOOLEAN /\ f.plain \in BOOLEAN /\ f.disc.encrypted \in BOOLEAN
        /\ f.disc.probed \in BOOLEAN /\ f.plain = (f.checked /\ ~f.disc.encrypted)
        /\ ~f.disc.encrypted => f.disc.probed
    BY Fields, ProbeAssumption DEF ProbeOK, Going
  <1>6. FoundPlain(f, batch) = ((f.checked \/ batch.encrypted) /\ ~f.disc.encrypted)
    BY <1>3, <1>5 DEF FoundPlain
  <1>7. Decrypted(f, batch) = (batch.encrypted /\ f.disc.encrypted)
    BY <1>3, <1>5, <1>6 DEF Decrypted
  <1>8. ASSUME NEW i \in 1..count
        PROVE  (Decrypted(f, batch) = (InEncryptedArea(f.lsn + i - 1) /\ f.disc.encrypted)) = TRUE
    <2>1. f.lsn + i - 1 \in f.lsn..f.lsn + batch.size - 1
      BY <1>1, <1>2, <1>4
    <2>2. InEncryptedArea(f.lsn + i - 1) <=> batch.encrypted
      BY <1>2, <2>1
    <2> QED BY <1>3, <1>5, <1>7, <2>2
  <1>9. BatchTokens(f, batch, count) = Run(f.lsn, count)
    BY <1>8 DEF BatchTokens, Run
  <1> QED BY <1>3, <1>4, <1>5, <1>6, <1>9

\* The context that a batch leaves, of count sectors of which, with the ones
\* that were waiting, emitted are handed on.
BatchContext(f, batch, count, waiting, emitted) ==
    [f EXCEPT !.pc = "decoding", !.lsn = f.lsn + count,
              !.checked = f.checked \/ batch.encrypted, !.plain = FoundPlain(f, batch),
              !.pending = SubSeq(waiting, emitted + 1, Len(waiting)),
              !.decoded = IF emitted <= Capacity - Len(f.decoded)
                          THEN f.decoded \o SubSeq(waiting, 1, emitted) ELSE f.decoded]

BatchLeaves(h, f, batch, count, waiting, emitted) ==
    /\ Len(waiting) - emitted <= MaxPending
    /\ file' = [file EXCEPT ![h] = BatchContext(f, batch, count, waiting, emitted)]

\* decode_buffer always has room for what a batch can bring.
BatchFits(h, f, g, r, batch, count, waiting, emitted) ==
    /\ HandleOK(h, f, g, r) /\ Going(f) /\ Short(f) /\ f.lsn < End[h]
    /\ batch = NextBatch(f.lsn, End[h]) /\ count \in 1..batch.size
    /\ waiting = f.pending \o BatchTokens(f, batch, count)
    /\ emitted \in 0..Len(waiting) /\ Len(waiting) - emitted <= MaxPending

LEMMA BatchIsKept ==
    ASSUME NEW h \in Handles, NEW f, NEW g, NEW r, NEW batch, NEW count, NEW waiting, NEW emitted,
           BatchFits(h, f, g, r, batch, count, waiting, emitted),
           NEW f2, f2 = BatchContext(f, batch, count, waiting, emitted)
    PROVE  /\ HandleOK(h, f2, g, r)
           /\ Behind(f2) = Behind(f) /\ f2.pos = f.pos /\ f2.pc = "decoding"
  <1> HandleOK(h, f, g, r) /\ Going(f) /\ Short(f) /\ f.lsn < End[h]
      /\ batch = NextBatch(f.lsn, End[h]) /\ count \in 1..batch.size
      /\ waiting = f.pending \o BatchTokens(f, batch, count)
      /\ emitted \in 0..Len(waiting) /\ Len(waiting) - emitted <= MaxPending
    BY DEF BatchFits
  <1>1. f \in Contexts /\ g \in Seq(Tokens) /\ r \in Results /\ ProbeOK(f)
    BY DEF HandleOK
  <1>2. PICK k \in Nat, m \in Nat, n \in Nat :
              /\ k = Behind(f) /\ m = Len(f.decoded) /\ n = Len(f.pending)
              /\ f.lsn = (k + m) + n /\ First[h] <= k /\ n <= MaxPending
              /\ f.decoded = Run(k, m) /\ f.pending = Run(k + m, n)
              /\ SamplesAre(g, First[h], k)
    BY Waiting
  <1>3. /\ f.lsn \in Nat /\ f.pos \in Nat /\ m < LowWater
        /\ First[h] \in Nat /\ 0 < First[h] /\ MaxPending \in Nat /\ MaxBatch \in Nat
        /\ Capacity \in Nat /\ Capacity >= LowWater - 1 + MaxPending + MaxBatch
        /\ LowWater \in Nat /\ End[h] \in Nat
    BY <1>1, <1>2, Fields, Numbers DEF Short
  <1>4. PICK checked, plain : checked = (f.checked \/ batch.encrypted) /\ plain = FoundPlain(f, batch)
    OBVIOUS
  <1>5. 0 < f.lsn
    BY <1>2, <1>3
  <1>6. /\ f.lsn + count <= End[h] /\ count <= MaxBatch /\ count \in Nat /\ count > 0
        /\ BatchTokens(f, batch, count) = Run(f.lsn, count)
        /\ plain = (checked /\ ~f.disc.encrypted) /\ plain \in BOOLEAN /\ checked \in BOOLEAN
    BY <1>1, <1>4, <1>5, BatchIsRight
  <1>7. PICK number \in Nat : number = count /\ number <= MaxBatch /\ f.lsn + number <= End[h]
    BY <1>6
  <1>8. waiting = Run(k + m, n + number) /\ Len(waiting) = n + number
    <2>1. k + m \in Nat /\ n + number \in Nat
      OBVIOUS
    <2>2. Run(k + m, n) \o Run((k + m) + n, number) = Run(k + m, n + number)
      BY <2>1, RunsMeet
    <2>3. waiting = Run(k + m, n + number)
      BY <1>2, <1>6, <1>7, <2>2
    <2>4. Len(Run(k + m, n + number)) = n + number
      BY <2>1, RunIsSeq
    <2> QED BY <2>3, <2>4
  <1>9. PICK out \in 0..n + number : out = emitted /\ (n + number) - out <= MaxPending
    BY <1>8
  <1>10. out <= Capacity - m
    <2>1. out <= MaxPending + MaxBatch
      BY <1>2, <1>3, <1>7
    <2>2. MaxPending + MaxBatch <= Capacity - m
      BY <1>3
    <2> QED BY <1>3, <2>1, <2>2
  <1>11. /\ k + m \in Nat /\ n + number \in Nat /\ out \in Nat /\ m + out \in Nat
         /\ (n + number) - out \in Nat /\ k + (m + out) \in Nat /\ (k + m) + out = k + (m + out)
    OBVIOUS
  <1>12. PICK rest, d : rest = Run(k + (m + out), (n + number) - out) /\ d = Run(k, m + out)
    OBVIOUS
  <1>13. /\ SubSeq(waiting, emitted + 1, Len(waiting)) = rest
         /\ f.decoded \o SubSeq(waiting, 1, emitted) = d
    <2>1. /\ SubSeq(Run(k + m, n + number), 1, out) = Run(k + m, out)
          /\ SubSeq(Run(k + m, n + number), out + 1, n + number) = Run((k + m) + out, (n + number) - out)
      <3>1. k + m \in Nat /\ n + number \in Nat /\ out \in 0..n + number
        BY <1>11
      <3> QED BY ONLY <3>1, RunCut
    <2>2. Run(k, m) \o Run(k + m, out) = Run(k, m + out)
      <3>1. k \in Nat /\ m \in Nat /\ out \in Nat
        OBVIOUS
      <3> QED BY ONLY <3>1, RunsMeet
    <2>3. SubSeq(waiting, emitted + 1, Len(waiting)) = rest
      BY <1>8, <1>9, <1>11, <1>12, <2>1
    <2>4. f.decoded \o SubSeq(waiting, 1, emitted) = d
      BY <1>2, <1>8, <1>9, <1>12, <2>1, <2>2
    <2> QED BY <2>3, <2>4
  <1>14. /\ rest \in Seq(Tokens) /\ Len(rest) = (n + number) - out
         /\ d \in Seq(Tokens) /\ Len(d) = m + out
    BY <1>11, <1>12, RunIsSeq
  <1>15. f2 = [f EXCEPT !.pc = "decoding", !.lsn = f.lsn + number, !.checked = checked, !.plain = plain,
                        !.pending = rest, !.decoded = d]
    <2>1. (IF emitted <= Capacity - Len(f.decoded)
           THEN f.decoded \o SubSeq(waiting, 1, emitted) ELSE f.decoded) = d
      BY <1>2, <1>9, <1>10, <1>13
    <2> QED BY <1>4, <1>7, <1>13, <2>1 DEF BatchContext
  <1>16. f.lsn + number \in Nat
    BY <1>3
  <1>17. /\ f2 \in Contexts /\ f2.pc = "decoding" /\ f2.lsn = f.lsn + number /\ f2.pos = f.pos
         /\ f2.pending = rest /\ f2.decoded = d
         /\ f2.checked = checked /\ f2.plain = plain /\ f2.disc = f.disc
    BY <1>1, <1>6, <1>14, <1>15, <1>16 DEF Contexts
  <1>21. Behind(f2) = k
    <2>1. Behind(f2) = (((k + m) + n) + number) - ((n + number) - out) - (m + out)
      BY <1>2, <1>14, <1>17 DEF Behind
    <2>2. (((k + m) + n) + number) - ((n + number) - out) - (m + out) = k
      OBVIOUS
    <2> QED BY <2>1, <2>2
  <1>22. InOrder(h, f2, g)
    <2>1. f2.decoded = Run(k, Len(f2.decoded))
      BY <1>12, <1>14, <1>17
    <2>2. f2.pending = Run(k + Len(f2.decoded), Len(f2.pending)) /\ Len(f2.pending) <= MaxPending
      BY <1>9, <1>12, <1>14, <1>17
    <2>3. f2.lsn <= End[h]
      BY <1>7, <1>17
    <2> QED BY <1>2, <1>21, <2>1, <2>2, <2>3 DEF InOrder
  <1>18. IdleOK(f2, g, r)
    BY <1>17 DEF IdleOK, Going
  <1>19. ProbeOK(f2)
    BY <1>1, <1>6, <1>17 DEF ProbeOK, Going
  <1>20. EndOK(h, f2, r)
    <2>1. r # "end"
      BY <1>3, Numbers DEF HandleOK, EndOK
    <2> QED BY <2>1 DEF EndOK
  <1> QED BY <1>1, <1>2, <1>17, <1>18, <1>19, <1>20, <1>21, <1>22 DEF HandleOK

LEMMA DecodeBatchMoves ==
    ASSUME IInv, NEW h \in Handles, DecodeBatch(h)
    PROVE  \E f2 : /\ HandleOK(h, f2, got[h], result[h]) /\ Moves(h, f2, got[h], result[h])
                   /\ Behind(f2) = Behind(file[h]) /\ f2.pos = file[h].pos /\ f2.pc = "decoding"
                   /\ Decoding(h) /\ UNCHANGED <<tagSize, tagOwner>>
  <1>1. PICK f, g, r : f = file[h] /\ g = got[h] /\ r = result[h]
    OBVIOUS
  <1>2. HandleOK(h, f, g, r) /\ Going(f) /\ Short(f) /\ f.lsn < End[h] /\ Decoding(h)
    BY <1>1, HandleNow, DecodingIsGoing DEF DecodeBatch
  <1>3. PICK batch : batch = NextBatch(f.lsn, End[h])
    OBVIOUS
  <1>4. PICK count \in 1..batch.size :
           \E emitted \in 0..Len(f.pending \o BatchTokens(f, batch, count)) :
              BatchLeaves(h, f, batch, count, f.pending \o BatchTokens(f, batch, count), emitted)
    <2>1. \E count \in 1..NextBatch(file[h].lsn, End[h]).size :
           \E emitted \in 0..Len(file[h].pending \o BatchTokens(file[h], NextBatch(file[h].lsn, End[h]), count)) :
              BatchLeaves(h, file[h], NextBatch(file[h].lsn, End[h]), count,
                 file[h].pending \o BatchTokens(file[h], NextBatch(file[h].lsn, End[h]), count), emitted)
      BY Zenon DEF DecodeBatch, BatchTokens, Decrypted, BatchLeaves, BatchContext
    <2> QED BY <1>1, <1>3, <2>1
  <1>5. PICK waiting : waiting = f.pending \o BatchTokens(f, batch, count)
    OBVIOUS
  <1>6. PICK emitted \in 0..Len(waiting) : BatchLeaves(h, f, batch, count, waiting, emitted)
    BY <1>4, <1>5
  <1>7. PICK f2 : f2 = BatchContext(f, batch, count, waiting, emitted)
    OBVIOUS
  <1>8. /\ HandleOK(h, f2, g, r)
        /\ Behind(f2) = Behind(f) /\ f2.pos = f.pos /\ f2.pc = "decoding"
    <2>1. BatchFits(h, f, g, r, batch, count, waiting, emitted)
      BY <1>2, <1>3, <1>5, <1>6 DEF BatchLeaves, BatchFits
    <2> QED BY <1>7, <2>1, BatchIsKept
  <1>9. Moves(h, f2, g, r) /\ UNCHANGED <<tagSize, tagOwner>>
    BY <1>1, <1>6, <1>7, HandleNow DEF DecodeBatch, Moves, BatchLeaves
  <1> QED BY <1>1, <1>2, <1>8, <1>9

LEMMA DecodeBatchKeepsIInv == ASSUME IInv, NEW h \in Handles, DecodeBatch(h) PROVE IInv'
  <1>1. PICK g, r : g = got[h] /\ r = result[h]
    OBVIOUS
  <1>2. PICK f2 : HandleOK(h, f2, g, r) /\ Moves(h, f2, g, r) /\ UNCHANGED <<tagSize, tagOwner>>
    BY <1>1, DecodeBatchMoves
  <1>3. TagTyped'
    BY <1>2, HandleNow DEF TagTyped
  <1> QED BY <1>2, <1>3, OneHandleMoves

-----------------------------------------------------------------------------
(* With any number of files open.                                          *)

LEMMA InitIsOK == Init => IInv
  <1> SUFFICES ASSUME Init PROVE IInv
    OBVIOUS
  <1>1. tagSize \in Nat /\ tagOwner \in Handles \cup {NoOwner}
    BY DEF Init
  <1>2. ASSUME NEW h \in Handles PROVE HandleOK(h, file[h], got[h], result[h])
    <2>1. file[h] = Closed /\ got[h] = <<>> /\ result[h] = "none"
      BY DEF Init
    <2>2. <<>> \in Seq(Tokens) /\ "none" \in Results
      BY EmptySeq DEF Results
    <2> QED BY <2>1, <2>2, ClosedIsOK
  <1> QED BY <1>1, <1>2 DEF Init, IInv

LEMMA StepKeepsIInv == ASSUME IInv, [Next]_vars PROVE IInv'
  <1>1. CASE UNCHANGED vars
    BY <1>1 DEF vars, IInv
  <1>2. ASSUME NEW h \in Handles, Open(h) \/ RenderTag(h) \/ OpenFails(h) \/ Close(h) PROVE IInv'
    BY <1>2, OpenKeepsIInv, RenderTagKeepsIInv, OpenFailsKeepsIInv, CloseKeepsIInv
  <1>3. ASSUME NEW h \in Handles, NEW n \in 1..MaxRead, ReadTag(h, n) \/ ReadHeader(h, n) \/ ReadSamples(h, n)
        PROVE  IInv'
    BY <1>3, ReadTagKeepsIInv, ReadHeaderKeepsIInv, ReadSamplesKeepsIInv
  <1>4. ASSUME NEW h \in Handles, DecodeBatch(h) \/ ReadFails(h) \/ EndOfFile(h) PROVE IInv'
    BY <1>4, DecodeBatchKeepsIInv, ReadFailsKeepsIInv, EndOfFileKeepsIInv
  <1> QED BY <1>1, <1>2, <1>3, <1>4 DEF Next, Read

LEMMA AlwaysIInv == Spec => []IInv
  BY InitIsOK, StepKeepsIInv, PTL DEF Spec

\* Contexts keep their types: no position goes below zero, whatever is read
\* and whatever fails.
THEOREM TypesHold == Spec => []TypeOK
  <1>1. IInv => TypeOK
    <2> SUFFICES ASSUME IInv, NEW h \in Handles
                 PROVE  /\ file[h].pc \in {"closed", "opening", "open", "decoding"}
                        /\ file[h].lsn \in Nat /\ file[h].pos \in Nat
                        /\ file[h].pending \in Seq(Tokens) /\ file[h].decoded \in Seq(Tokens)
                        /\ {file[h].checked, file[h].plain} \subseteq BOOLEAN
                        /\ got[h] \in Seq(Tokens)
                        /\ result[h] \in {"none", "failed", "data", "error", "end"}
      BY DEF TypeOK, IInv
    <2> QED BY HandleNow, Fields DEF Results
  <1> QED BY <1>1, AlwaysIInv, PTL

\* What the player was given and what waits hold the samples of all the
\* sectors read so far, each once, in order and rightly decrypted; no batch
\* ever finds decode_buffer full.
THEOREM NoSectorIsLost == Spec => []NothingLost
  <1>1. IInv => NothingLost
    <2> SUFFICES ASSUME IInv, NEW h \in Handles, Started(h)
                 PROVE  SamplesAre(got[h] \o file[h].decoded \o file[h].pending, First[h], file[h].lsn)
      BY DEF NothingLost
    <2>1. PICK f, g, r : f = file[h] /\ g = got[h] /\ r = result[h]
      OBVIOUS
    <2>2. HandleOK(h, f, g, r) /\ Going(f) /\ g \in Seq(Tokens)
      BY <2>1, HandleNow DEF Started, Going
    <2>3. PICK k \in Nat, m \in Nat, n \in Nat :
              /\ k = Behind(f) /\ m = Len(f.decoded) /\ n = Len(f.pending)
              /\ f.lsn = (k + m) + n /\ First[h] <= k /\ n <= MaxPending
              /\ f.decoded = Run(k, m) /\ f.pending = Run(k + m, n)
              /\ SamplesAre(g, First[h], k)
      BY <2>2, Waiting
    <2>4. First[h] \in Nat /\ k + m \in Nat /\ First[h] <= k + m
      BY <2>3, Numbers
    <2>5. PICK t \in Seq(Tokens) : t = g \o Run(k, m)
      BY <2>2, RunIsSeq, Joined
    <2>6. SamplesAre(t, First[h], k + m)
      BY <2>2, <2>3, <2>4, <2>5, SamplesGoOn
    <2>7. SamplesAre(t \o Run(k + m, n), First[h], (k + m) + n)
      BY <2>4, <2>6, SamplesGoOn
    <2> QED BY <2>1, <2>3, <2>5, <2>7
  <1> QED BY <1>1, AlwaysIInv, PTL

\* When Read answers 0 the player has the samples of all sectors of the track but
\* those at its end that decode_buffer, below the low-water mark, and the frame
\* assembly with the DSF writer can hold.
THEOREM EndIsReached == Spec => []EndIsTheEnd
  <1>1. IInv => EndIsTheEnd
    <2> SUFFICES ASSUME IInv, NEW h \in Handles, Started(h), result[h] = "end",
                        NEW lsn \in First[h]..End[h] - LowWater - MaxPending
                 PROVE  \E i \in DOMAIN got[h] : got[h][i] = SectorToken(lsn, TRUE)
      BY DEF EndIsTheEnd
    <2>1. PICK f, g, r : f = file[h] /\ g = got[h] /\ r = result[h]
      OBVIOUS
    <2>2. HandleOK(h, f, g, r) /\ Going(f) /\ r = "end"
      BY <2>1, HandleNow DEF Started, Going
    <2>3. PICK k \in Nat, m \in Nat, n \in Nat :
              /\ k = Behind(f) /\ m = Len(f.decoded) /\ n = Len(f.pending)
              /\ f.lsn = (k + m) + n /\ First[h] <= k /\ n <= MaxPending
              /\ SamplesAre(g, First[h], k)
      BY <2>2, Waiting
    <2>4. f.lsn = End[h] /\ m < LowWater
      BY <2>2, <2>3 DEF HandleOK, EndOK
    <2>e. PICK e \in Nat, low \in Nat, most \in Nat, first \in Nat :
             e = End[h] /\ low = LowWater /\ most = MaxPending /\ first = First[h]
      BY Numbers
    <2>n. lsn \in Int /\ first <= lsn /\ lsn <= e - low - most
      BY <2>e
    <2>m. e = (k + m) + n /\ m < low /\ n <= most
      BY <2>3, <2>4, <2>e
    <2>k. lsn <= k - 1
      <3>1. ASSUME NEW x \in Int, NEW a \in Nat, NEW b \in Nat, NEW c \in Nat,
                   NEW p \in Nat, NEW q \in Nat, b < p, c <= q, x <= (a + b) + c - p - q
            PROVE  x <= a - 1
        BY <3>1
      <3>2. lsn <= (k + m) + n - low - most
        BY <2>e, <2>n, <2>m
      <3> QED BY <3>1, <3>2, <2>e, <2>m, <2>n, <2>3
    <2>5. lsn \in First[h]..k - 1
      BY <2>e, <2>n, <2>k
    <2>6. PICK i \in DOMAIN g : g[i].kind = "samples" /\ g[i].n = lsn
      BY <2>3, <2>5 DEF SamplesAre
    <2>7. PICK other \in First[h]..k - 1 : g[i] = SectorToken(other, TRUE)
      BY <2>3, <2>6 DEF SamplesAre
    <2>8. other = lsn
      BY <2>6, <2>7 DEF SectorToken
    <2> QED BY <2>1, <2>6, <2>7, <2>8
  <1> QED BY <1>1, AlwaysIInv, PTL

-----------------------------------------------------------------------------
(* The whole file, token by token, for a file that is open alone.          *)

DataAt(h) == TagSize[h] + HeaderSize
FileSize(h) == DataAt(h) + (End[h] - First[h])

Token(h, i) ==
    IF i <= TagSize[h] THEN TagToken(h, i)
    ELSE IF i <= DataAt(h) THEN HeaderToken(h, i - TagSize[h])
    ELSE SectorToken(First[h] + (i - DataAt(h)) - 1, TRUE)

IsFront(h, g) == Len(g) <= FileSize(h) /\ \A i \in 1..Len(g) : g[i] = Token(h, i)

\* The position is what was given: first the tag and the header, and then the
\* samples of the sectors before the ones that wait.
PositionOK(h, f, g) ==
    Going(f) =>
        /\ Len(g) = f.pos
        /\ f.pos < DataAt(h) => /\ f.pc = "open" /\ f.lsn = First[h]
                               /\ f.decoded = <<>> /\ f.pending = <<>>
        /\ f.pos >= DataAt(h) => f.pos = DataAt(h) + (Behind(f) - First[h])

FrontInv ==
    \A h \in Handles :
       /\ IsFront(h, got[h]) /\ PositionOK(h, file[h], got[h])
       /\ Going(file[h]) => tagSize = TagSize[h] /\ tagOwner = h


Alone == \A h, k \in Handles : h = k

LEMMA FrontMoves ==
    ASSUME Alone, IInv, NEW h \in Handles, NEW f, NEW g, NEW r, Moves(h, f, g, r),
           IsFront(h, g), PositionOK(h, f, g),
           Going(f) => tagSize' = TagSize[h] /\ tagOwner' = h
    PROVE  FrontInv'
  <1>1. file'[h] = f /\ got'[h] = g
    BY DEF IInv, Moves
  <1>2. SUFFICES ASSUME NEW k \in Handles
                 PROVE  /\ IsFront(k, got'[k]) /\ PositionOK(k, file'[k], got'[k])
                        /\ Going(file'[k]) => tagSize' = TagSize[k] /\ tagOwner' = k
    BY DEF FrontInv
  <1>3. k = h
    BY DEF Alone
  <1> QED BY <1>1, <1>3

LEMMA FrontNumbers ==
    ASSUME NEW h \in Handles
    PROVE  /\ TagSize[h] \in Nat /\ HeaderSize \in Nat /\ First[h] \in Nat /\ End[h] \in Nat
           /\ First[h] <= End[h] /\ DataAt(h) = TagSize[h] + HeaderSize /\ DataAt(h) \in Nat
           /\ FileSize(h) = DataAt(h) + (End[h] - First[h]) /\ FileSize(h) \in Nat
  BY Numbers DEF DataAt, FileSize

\* More of the file is given.
LEMMA FrontGrows ==
    ASSUME NEW h \in Handles, NEW g \in Seq(Tokens), IsFront(h, g), NEW s \in Seq(Tokens),
           Len(g) + Len(s) <= FileSize(h), \A i \in 1..Len(s) : s[i] = Token(h, Len(g) + i)
    PROVE  IsFront(h, g \o s) /\ Len(g \o s) = Len(g) + Len(s)
  <1>1. PICK t \in Seq(Tokens) : t = g \o s
    BY Joined
  <1>2. /\ Len(t) = Len(g) + Len(s) /\ Len(g) \in Nat /\ Len(s) \in Nat
        /\ \A i \in 1..Len(g) : t[i] = g[i]
        /\ \A i \in Len(g) + 1..Len(g) + Len(s) : t[i] = s[i - Len(g)]
    BY <1>1, Joined
  <1>3. ASSUME NEW i \in 1..Len(t) PROVE t[i] = Token(h, i)
    <2>1. CASE i \in 1..Len(g)
      BY <1>2, <2>1 DEF IsFront
    <2>2. CASE i \in Len(g) + 1..Len(g) + Len(s)
      <3>1. i - Len(g) \in 1..Len(s) /\ Len(g) + (i - Len(g)) = i
        BY <1>2, <2>2
      <3>2. s[i - Len(g)] = Token(h, Len(g) + (i - Len(g)))
        BY <3>1
      <3> QED BY <1>2, <2>2, <3>1, <3>2
    <2>3. i \in 1..Len(g) \/ i \in Len(g) + 1..Len(g) + Len(s)
      BY <1>2
    <2> QED BY <2>1, <2>2, <2>3
  <1> QED BY <1>1, <1>2, <1>3 DEF IsFront

LEMMA NothingIsFront == ASSUME NEW h \in Handles PROVE IsFront(h, <<>>)
  BY FrontNumbers, EmptySeq DEF IsFront

\* What the moving handle's part of the invariant says.
LEMMA FrontNow ==
    ASSUME IInv, FrontInv, NEW h \in Handles
    PROVE  /\ IsFront(h, got[h]) /\ PositionOK(h, file[h], got[h])
           /\ Going(file[h]) => tagSize = TagSize[h] /\ tagOwner = h
  BY DEF FrontInv

LEMMA OpenKeepsFront ==
    ASSUME Alone, IInv, FrontInv, NEW h \in Handles, Open(h) PROVE FrontInv'
  <1>1. PICK f : f = file[h]
    OBVIOUS
  <1>2. f \in Contexts
    BY <1>1, HandleNow
  <1>3. PICK disc \in Discs : file' = [file EXCEPT ![h].pc = "opening", ![h].disc = disc]
    BY DEF Open
  <1>4. PICK f2 : f2 = [f EXCEPT !.pc = "opening", !.disc = disc]
    OBVIOUS
  <1>5. ~Going(f2)
    BY <1>2, <1>4 DEF Contexts, Going
  <1>6. Moves(h, f2, <<>>, "none")
    BY <1>1, <1>3, <1>4, HandleNow DEF Open, Moves
  <1>7. PositionOK(h, f2, <<>>) /\ IsFront(h, <<>>)
    BY <1>5, NothingIsFront DEF PositionOK
  <1> QED BY <1>5, <1>6, <1>7, FrontMoves

LEMMA RenderTagKeepsFront ==
    ASSUME Alone, IInv, FrontInv, NEW h \in Handles, RenderTag(h) PROVE FrontInv'
  <1>1. PICK f, g, r : f = file[h] /\ g = got[h] /\ r = result[h]
    OBVIOUS
  <1>2. /\ f \in Contexts /\ f.pc = "opening" /\ g = <<>> /\ f.pos = 0
        /\ f.decoded = <<>> /\ f.pending = <<>>
    BY <1>1, HandleNow DEF RenderTag, HandleOK, IdleOK, Going
  <1>3. PICK f2 : f2 = [f EXCEPT !.pc = "open", !.lsn = First[h]]
    OBVIOUS
  <1>4. /\ f2.pc = "open" /\ f2.lsn = First[h] /\ f2.pos = 0
        /\ f2.decoded = <<>> /\ f2.pending = <<>>
    BY <1>2, <1>3 DEF Contexts
  <1>5. Behind(f2) = First[h]
    BY <1>4, FrontNumbers DEF Behind
  <1>6. Moves(h, f2, g, r)
    BY <1>1, <1>3, HandleNow DEF RenderTag, Moves
  <1>7. IsFront(h, g)
    BY <1>1, FrontNow
  <1>8. PositionOK(h, f2, g)
    <2>1. Len(g) = 0 /\ First[h] - First[h] = 0
      BY <1>2, FrontNumbers
    <2> QED BY <1>4, <1>5, <2>1, FrontNumbers DEF PositionOK
  <1>9. tagSize' = TagSize[h] /\ tagOwner' = h
    BY DEF RenderTag
  <1> QED BY <1>6, <1>7, <1>8, <1>9, FrontMoves

LEMMA OpenFailsKeepsFront ==
    ASSUME Alone, IInv, FrontInv, NEW h \in Handles, OpenFails(h) PROVE FrontInv'
  <1>1. PICK f, g : f = file[h] /\ g = got[h]
    OBVIOUS
  <1>2. ~Going(f)
    BY <1>1 DEF OpenFails, Going
  <1>3. Moves(h, f, g, "failed")
    BY <1>1, HandleNow DEF OpenFails, Moves
  <1> QED BY <1>1, <1>2, <1>3, FrontNow, FrontMoves

LEMMA CloseKeepsFront ==
    ASSUME Alone, IInv, FrontInv, NEW h \in Handles, Close(h) PROVE FrontInv'
  <1>1. PICK g, r : g = got[h] /\ r = result[h]
    OBVIOUS
  <1>2. ~Going(Closed)
    BY DEF Closed, Going
  <1>3. Moves(h, Closed, g, r)
    BY <1>1, HandleNow DEF Close, Moves
  <1>4. PositionOK(h, Closed, g) /\ IsFront(h, g)
    BY <1>1, <1>2, FrontNow DEF PositionOK
  <1> QED BY <1>2, <1>3, <1>4, FrontMoves

\* A piece of the tag or of the header is given.
LEMMA PieceKeepsFront ==
    ASSUME Alone, IInv, FrontInv, NEW h \in Handles, NEW f, f = file[h], Going(f),
           UNCHANGED <<tagSize, tagOwner>>,
           NEW s \in Seq(Tokens), f.pos < DataAt(h), f.pos + Len(s) <= DataAt(h),
           \A i \in 1..Len(s) : s[i] = Token(h, f.pos + i),
           Moves(h, [f EXCEPT !.pos = f.pos + Len(s)], got[h] \o s, "data")
    PROVE  FrontInv'
  <1>1. PICK g \in Seq(Tokens) : g = got[h]
    BY HandleNow
  <1>2. PICK c \in Nat : c = Len(s)
    OBVIOUS
  <1>3. /\ f \in Contexts /\ f.pos \in Nat /\ f.lsn \in Nat
        /\ IsFront(h, g) /\ Len(g) = f.pos /\ f.pc = "open" /\ f.lsn = First[h]
        /\ f.decoded = <<>> /\ f.pending = <<>>
        /\ tagSize = TagSize[h] /\ tagOwner = h
    BY <1>1, HandleNow, Fields, FrontNow DEF PositionOK
  <1>4. f.pos + c \in Nat /\ f.pos + c <= DataAt(h) /\ f.pos + c <= FileSize(h)
    <2>1. f.pos \in Nat /\ f.pos + c <= DataAt(h)
      BY <1>2, <1>3
    <2>2. PICK p \in Nat, D \in Nat, e \in Nat, b \in Nat :
             p = f.pos /\ D = DataAt(h) /\ e = End[h] /\ b = First[h] /\ b <= e
             /\ FileSize(h) = D + (e - b)
      BY ONLY <2>1, FrontNumbers, h \in Handles
    <2>3. p + c <= D /\ b <= e
      BY ONLY <2>1, <2>2
    <2>4. p + c \in Nat /\ p + c <= D + (e - b)
      BY ONLY <2>3, c \in Nat, p \in Nat, D \in Nat, e \in Nat, b \in Nat
    <2> QED BY ONLY <2>2, <2>3, <2>4
  <1>5. PICK f2 : f2 = [f EXCEPT !.pos = f.pos + c]
    OBVIOUS
  <1>6. /\ f2.pos = f.pos + c /\ f2.pc = "open" /\ f2.lsn = First[h]
        /\ f2.decoded = <<>> /\ f2.pending = <<>>
    BY <1>3, <1>4, <1>5 DEF Contexts
  <1>7. PICK t : t = g \o s
    OBVIOUS
  <1>8. IsFront(h, t) /\ Len(t) = f.pos + c
    BY <1>2, <1>3, <1>4, <1>7, FrontGrows
  <1>9. Behind(f2) = First[h]
    BY <1>6, FrontNumbers DEF Behind
  <1>10. PositionOK(h, f2, t)
    <2>1. f.pos + c >= DataAt(h) => f.pos + c = DataAt(h) + (First[h] - First[h])
      BY <1>4, FrontNumbers
    <2> QED BY <1>6, <1>8, <1>9, <2>1 DEF PositionOK
  <1>11. Moves(h, f2, t, "data")
    BY <1>1, <1>2, <1>5, <1>7
  <1> QED BY <1>3, <1>8, <1>10, <1>11, FrontMoves

LEMMA ReadTagKeepsFront ==
    ASSUME Alone, IInv, FrontInv, NEW h \in Handles, NEW n \in 1..MaxRead, ReadTag(h, n)
    PROVE  FrontInv'
  <1>1. PICK f : f = file[h]
    OBVIOUS
  <1>2. PICK c \in Nat : /\ c <= tagSize - f.pos /\ f.pc = "open" /\ f.pos < tagSize
                         /\ Moves(h, [f EXCEPT !.pos = f.pos + c], got[h] \o TagPiece(f.pos, c), "data")
                         /\ UNCHANGED <<tagSize, tagOwner>>
    BY <1>1, TagIsRead
  <1>3. Going(f) /\ f.pos \in Nat /\ TagTyped /\ tagSize = TagSize[h] /\ tagOwner = h
    BY <1>1, <1>2, HandleNow, Fields, FrontNow DEF Going
  <1>4. PICK s \in Seq(Tokens) : /\ s = TagPiece(f.pos, c) /\ Len(s) = c
                                 /\ \A i \in 1..c : s[i] = TagToken(tagOwner, f.pos + i)
    <2>1. /\ TagPiece(f.pos, c) \in Seq(Tokens) /\ Len(TagPiece(f.pos, c)) = c
          /\ \A i \in 1..c : TagPiece(f.pos, c)[i] = TagToken(tagOwner, f.pos + i)
      BY <1>3, PiecesAreTokens
    <2> QED BY <2>1
  <1>5. ASSUME NEW i \in 1..Len(s) PROVE s[i] = Token(h, f.pos + i)
    <2>1. i \in 1..c /\ f.pos + i <= TagSize[h]
      BY <1>2, <1>3, <1>4, FrontNumbers
    <2> QED BY <1>3, <1>4, <2>1 DEF Token
  <1>6. f.pos < DataAt(h) /\ f.pos + Len(s) <= DataAt(h)
    BY <1>2, <1>3, <1>4, FrontNumbers
  <1>7. Moves(h, [f EXCEPT !.pos = f.pos + Len(s)], got[h] \o s, "data")
    BY <1>2, <1>4
  <1> QED BY <1>1, <1>2, <1>3, <1>5, <1>6, <1>7, PieceKeepsFront

LEMMA ReadHeaderKeepsFront ==
    ASSUME Alone, IInv, FrontInv, NEW h \in Handles, NEW n \in 1..MaxRead, ReadHeader(h, n)
    PROVE  FrontInv'
  <1>1. PICK f, at : f = file[h] /\ at = f.pos - tagSize
    OBVIOUS
  <1>2. PICK c \in Nat : /\ c <= HeaderSize - at /\ f.pc = "open" /\ f.pos >= tagSize /\ at < HeaderSize
                         /\ Moves(h, [f EXCEPT !.pos = f.pos + c], got[h] \o HeaderPiece(h, at, c), "data")
                         /\ UNCHANGED <<tagSize, tagOwner>>
    BY <1>1, HeaderIsRead
  <1>3. /\ Going(f) /\ f.pos \in Nat /\ TagTyped /\ tagSize = TagSize[h] /\ tagOwner = h
        /\ at \in Nat /\ f.pos = TagSize[h] + at
    <2>1. Going(f) /\ f.pos \in Nat /\ TagTyped /\ tagSize = TagSize[h] /\ tagOwner = h
      BY <1>1, <1>2, HandleNow, Fields, FrontNow DEF Going
    <2> QED BY <1>1, <1>2, <2>1, FrontNumbers
  <1>4. PICK s \in Seq(Tokens) : /\ s = HeaderPiece(h, at, c) /\ Len(s) = c
                                 /\ \A i \in 1..c : s[i] = HeaderToken(h, at + i)
    <2>1. /\ HeaderPiece(h, at, c) \in Seq(Tokens) /\ Len(HeaderPiece(h, at, c)) = c
          /\ \A i \in 1..c : HeaderPiece(h, at, c)[i] = HeaderToken(h, at + i)
      BY <1>3, PiecesAreTokens
    <2> QED BY <2>1
  <1>5. ASSUME NEW i \in 1..Len(s) PROVE s[i] = Token(h, f.pos + i)
    <2>1. PICK p \in Nat, a \in Nat, T \in Nat, H \in Nat :
             p = f.pos /\ a = at /\ T = TagSize[h] /\ H = HeaderSize /\ p = T + a /\ DataAt(h) = T + H
      BY <1>3, FrontNumbers
    <2>2. i \in 1..c /\ c <= H - a
      BY <1>2, <1>4, <2>1
    <2>3. p = T + a /\ i \in Nat /\ 1 <= i /\ i <= c /\ c <= H - a
      BY ONLY <2>1, <2>2, c \in Nat
    <2>5. ~(p + i <= T) /\ p + i <= T + H /\ (p + i) - T = a + i
      BY ONLY <2>3, c \in Nat, p \in Nat, a \in Nat, T \in Nat, H \in Nat
    <2>4. /\ i \in 1..c /\ ~(f.pos + i <= TagSize[h]) /\ f.pos + i <= DataAt(h)
          /\ (f.pos + i) - TagSize[h] = at + i
      BY <2>1, <2>2, <2>5
    <2> QED BY <1>4, <2>4 DEF Token
  <1>6. f.pos < DataAt(h) /\ f.pos + Len(s) <= DataAt(h)
    BY <1>2, <1>3, <1>4, FrontNumbers
  <1>7. Moves(h, [f EXCEPT !.pos = f.pos + Len(s)], got[h] \o s, "data")
    BY <1>2, <1>4
  <1> QED BY <1>1, <1>2, <1>3, <1>5, <1>6, <1>7, PieceKeepsFront

\* With the tag and the header behind it the position counts the samples given.
LEMMA DecodingPosition ==
    ASSUME IInv, FrontInv, NEW h \in Handles, Decoding(h)
    PROVE  /\ file[h].pos \in Nat /\ file[h].pos >= DataAt(h)
           /\ file[h].pos = DataAt(h) + (Behind(file[h]) - First[h])
           /\ Len(got[h]) = file[h].pos /\ Going(file[h])
           /\ tagSize = TagSize[h] /\ tagOwner = h
  <1>1. Going(file[h]) /\ file[h].pos \in Nat
    BY DecodingIsGoing, HandleNow, Fields
  <1>2. PositionOK(h, file[h], got[h]) /\ tagSize = TagSize[h] /\ tagOwner = h
    BY <1>1, FrontNow
  <1>3. file[h].pos >= DataAt(h)
    <2>1. CASE file[h].pc = "decoding"
      BY <1>1, <1>2, <2>1, FrontNumbers DEF PositionOK
    <2>2. CASE file[h].pos >= tagSize + HeaderSize
      BY <1>2, <2>2, FrontNumbers
    <2> QED BY <2>1, <2>2 DEF Decoding
  <1> QED BY <1>1, <1>2, <1>3 DEF PositionOK

LEMMA DecodeBatchKeepsFront ==
    ASSUME Alone, IInv, FrontInv, NEW h \in Handles, DecodeBatch(h)
    PROVE  FrontInv'
  <1>1. PICK f, g, r : f = file[h] /\ g = got[h] /\ r = result[h]
    OBVIOUS
  <1>2. PICK f2 : /\ Moves(h, f2, g, r) /\ Behind(f2) = Behind(f) /\ f2.pos = f.pos
                  /\ f2.pc = "decoding" /\ Decoding(h) /\ UNCHANGED <<tagSize, tagOwner>>
    BY <1>1, DecodeBatchMoves
  <1>3. /\ f.pos \in Nat /\ f.pos >= DataAt(h) /\ f.pos = DataAt(h) + (Behind(f) - First[h])
        /\ Len(g) = f.pos /\ tagSize = TagSize[h] /\ tagOwner = h /\ IsFront(h, g)
    BY <1>1, <1>2, DecodingPosition, FrontNow
  <1>4. PositionOK(h, f2, g)
    BY <1>2, <1>3, FrontNumbers DEF PositionOK
  <1> QED BY <1>2, <1>3, <1>4, FrontMoves

LEMMA ReadSamplesKeepsFront ==
    ASSUME Alone, IInv, FrontInv, NEW h \in Handles, NEW n \in 1..MaxRead, ReadSamples(h, n)
    PROVE  FrontInv'
  <1>1. PICK f, g, r : f = file[h] /\ g = got[h] /\ r = result[h]
    OBVIOUS
  <1>2. PICK c \in 0..Len(f.decoded) :
           /\ UNCHANGED <<tagSize, tagOwner>>
           /\ Moves(h, AfterGiving(f, c), g \o SubSeq(f.decoded, 1, c), "data")
    BY <1>1, SamplesAreRead
  <1>3. /\ f.pos \in Nat /\ f.pos >= DataAt(h) /\ f.pos = DataAt(h) + (Behind(f) - First[h])
        /\ Len(g) = f.pos /\ tagSize = TagSize[h] /\ tagOwner = h /\ IsFront(h, g) /\ Going(f)
    BY <1>1, DecodingPosition, FrontNow DEF ReadSamples
  <1>4. HandleOK(h, f, g, r) /\ g \in Seq(Tokens)
    BY <1>1, HandleNow
  <1>5. PICK k \in Nat, m \in Nat, w \in Nat :
              /\ k = Behind(f) /\ m = Len(f.decoded) /\ w = Len(f.pending)
              /\ f.lsn = (k + m) + w /\ First[h] <= k
    <2>1. \E k \in Nat, m \in Nat, n0 \in Nat :
              /\ k = Behind(f) /\ m = Len(f.decoded) /\ n0 = Len(f.pending)
              /\ f.lsn = (k + m) + n0 /\ First[h] <= k /\ n0 <= MaxPending
              /\ f.decoded = Run(k, m) /\ f.pending = Run(k + m, n0)
              /\ SamplesAre(g, First[h], k)
      BY <1>3, <1>4, Waiting
    <2> QED BY <2>1
  <1>6. PICK f2 : f2 = AfterGiving(f, c)
    OBVIOUS
  <1>7. /\ SubSeq(f.decoded, 1, c) = Run(k, c)
        /\ Behind(f2) = k + c /\ f2.pos = f.pos + c /\ f2.pc = "open"
    <2>1. /\ SubSeq(f.decoded, 1, c) = Run(Behind(f), c)
          /\ Behind(f2) = Behind(f) + c /\ f2.pos = f.pos + c /\ f2.pc = "open"
      BY <1>3, <1>4, <1>6, SamplesGiven
    <2> QED BY <1>5, <2>1
  <1>8. PICK s \in Seq(Tokens) : s = Run(k, c) /\ Len(s) = c
                                 /\ \A i \in 1..c : s[i] = SectorToken(k + i - 1, TRUE)
    <2>1. c \in Nat
      BY <1>5
    <2>2. /\ Run(k, c) \in Seq(Tokens) /\ Len(Run(k, c)) = c
          /\ \A i \in 1..c : Run(k, c)[i] = SectorToken(k + i - 1, TRUE)
      BY <2>1, RunIsSeq
    <2> QED BY <2>2
  <1>9. f.lsn <= End[h]
    BY <1>3, <1>4 DEF HandleOK, InOrder
  <1>10. c \in Nat /\ c <= m /\ f.pos = DataAt(h) + (k - First[h])
    BY <1>3, <1>5
  <1>11. f.pos + c <= FileSize(h)
    <2>1. PICK D \in Nat, e \in Nat, b \in Nat :
             D = DataAt(h) /\ e = End[h] /\ b = First[h] /\ FileSize(h) = D + (e - b)
      BY FrontNumbers
    <2>2. (k + m) + w <= e /\ c <= m /\ b <= k /\ f.pos = D + (k - b)
      BY <1>5, <1>9, <1>10, <2>1
    <2>3. (D + (k - b)) + c <= D + (e - b)
      BY ONLY <2>2, <1>10, k \in Nat, m \in Nat, w \in Nat, D \in Nat, e \in Nat, b \in Nat, c \in Nat
    <2> QED BY <2>1, <2>2, <2>3
  <1>12. ASSUME NEW i \in 1..Len(s) PROVE s[i] = Token(h, Len(g) + i)
    <2>1. i \in 1..c /\ ~(f.pos + i <= TagSize[h]) /\ ~(f.pos + i <= DataAt(h))
      BY <1>3, <1>8, FrontNumbers
    <2>2. First[h] + ((f.pos + i) - DataAt(h)) - 1 = k + i - 1
      <3>1. PICK D \in Nat, b \in Nat : D = DataAt(h) /\ b = First[h] /\ f.pos = D + (k - b)
        BY <1>10, FrontNumbers
      <3>2. i \in Nat
        BY <2>1
      <3>3. b + (((D + (k - b)) + i) - D) - 1 = k + i - 1
        BY ONLY <3>2, k \in Nat, D \in Nat, b \in Nat
      <3> QED BY <3>1, <3>3
    <2> QED BY <1>3, <1>8, <2>1, <2>2 DEF Token
  <1>13. PICK t : t = g \o s
    OBVIOUS
  <1>14. IsFront(h, t) /\ Len(t) = f.pos + c
    BY <1>3, <1>4, <1>8, <1>11, <1>12, <1>13, FrontGrows
  <1>15. PositionOK(h, f2, t)
    <2>1. f.pos + c >= DataAt(h) /\ f.pos + c = DataAt(h) + ((k + c) - First[h])
      <3>1. PICK D \in Nat, b \in Nat : D = DataAt(h) /\ b = First[h] /\ f.pos = D + (k - b) /\ b <= k
        BY <1>3, <1>5, <1>10, FrontNumbers
      <3>2. b <= k
        BY <3>1
      <3>3. (D + (k - b)) + c >= D /\ (D + (k - b)) + c = D + ((k + c) - b)
        BY ONLY <3>2, k \in Nat, D \in Nat, b \in Nat, c \in Nat
      <3> QED BY <3>1, <3>3
    <2>2. ~(f.pos + c < DataAt(h))
      BY <1>3, <1>10, <2>1, FrontNumbers
    <2> QED BY <1>7, <1>14, <2>1, <2>2 DEF PositionOK
  <1>16. Moves(h, f2, t, "data")
    BY <1>2, <1>6, <1>7, <1>8, <1>13
  <1> QED BY <1>2, <1>3, <1>14, <1>15, <1>16, FrontMoves

\* Read ends with an error or at the end of the track.
LEMMA ResultKeepsFront ==
    ASSUME Alone, IInv, FrontInv, NEW h \in Handles, ReadFails(h) \/ EndOfFile(h)
    PROVE  FrontInv'
  <1>1. PICK f, g : f = file[h] /\ g = got[h]
    OBVIOUS
  <1>2. PICK f2 : f2 = [f EXCEPT !.pc = "open"]
    OBVIOUS
  <1>3. /\ Decoding(h) /\ file' = [file EXCEPT ![h] = f2] /\ UNCHANGED <<tagSize, tagOwner, got>>
        /\ \/ result' = [result EXCEPT ![h] = "error"]
           \/ result' = [result EXCEPT ![h] = "end"]
    BY <1>1, <1>2 DEF ReadFails, EndOfFile
  <1>4. /\ f.pos \in Nat /\ f.pos >= DataAt(h) /\ f.pos = DataAt(h) + (Behind(f) - First[h])
        /\ Len(g) = f.pos /\ tagSize = TagSize[h] /\ tagOwner = h /\ IsFront(h, g)
        /\ f \in Contexts
    BY <1>1, <1>3, DecodingPosition, FrontNow, HandleNow
  <1>5. Behind(f2) = Behind(f) /\ f2.pos = f.pos /\ f2.pc = "open"
    BY <1>2, <1>4 DEF Contexts, Behind
  <1>6. PositionOK(h, f2, g)
    BY <1>4, <1>5, FrontNumbers DEF PositionOK
  <1>7. PICK r : Moves(h, f2, g, r)
    BY <1>1, <1>3, HandleNow DEF Moves
  <1> QED BY <1>3, <1>4, <1>6, <1>7, FrontMoves

LEMMA StepKeepsFront == ASSUME Alone, IInv, FrontInv, [Next]_vars PROVE FrontInv'
  <1>1. CASE UNCHANGED vars
    BY <1>1 DEF vars, FrontInv
  <1>2. ASSUME NEW h \in Handles, Open(h) \/ RenderTag(h) \/ OpenFails(h) \/ Close(h) PROVE FrontInv'
    BY <1>2, OpenKeepsFront, RenderTagKeepsFront, OpenFailsKeepsFront, CloseKeepsFront
  <1>3. ASSUME NEW h \in Handles, NEW n \in 1..MaxRead, ReadTag(h, n) \/ ReadHeader(h, n) \/ ReadSamples(h, n)
        PROVE  FrontInv'
    BY <1>3, ReadTagKeepsFront, ReadHeaderKeepsFront, ReadSamplesKeepsFront
  <1>4. ASSUME NEW h \in Handles, DecodeBatch(h) \/ ReadFails(h) \/ EndOfFile(h) PROVE FrontInv'
    BY <1>4, DecodeBatchKeepsFront, ResultKeepsFront
  <1> QED BY <1>1, <1>2, <1>3, <1>4 DEF Next, Read

LEMMA WholeFileTokens ==
    ASSUME NEW h \in Handles
    PROVE  /\ WholeFile(h) \in Seq(Tokens) /\ Len(WholeFile(h)) = FileSize(h)
           /\ \A i \in 1..FileSize(h) : WholeFile(h)[i] = Token(h, i)
  <1>1. PICK T \in Nat, H \in Nat, N \in Nat : T = TagSize[h] /\ H = HeaderSize /\ N = End[h] - First[h]
    BY FrontNumbers
  <1>2. DataAt(h) = T + H /\ FileSize(h) = (T + H) + N
    BY <1>1, FrontNumbers
  <1>3. PICK p \in Seq(Tokens) : /\ p = [i \in 1..T |-> TagToken(h, i)] /\ Len(p) = T
                                 /\ \A i \in 1..T : p[i] = TagToken(h, i)
    <2>1. \A i \in 1..T : TagToken(h, i) \in Tokens
      BY TokensAreTokens
    <2>2. PICK p : p = [i \in 1..T |-> TagToken(h, i)]
      OBVIOUS
    <2>3. p \in [1..T -> Tokens] /\ \A i \in 1..T : p[i] = TagToken(h, i)
      BY <2>1, <2>2
    <2>4. p \in Seq(Tokens) /\ Len(p) = T
      BY <2>3
    <2> QED BY <2>2, <2>3, <2>4
  <1>4. PICK q \in Seq(Tokens) : /\ q = [i \in 1..H |-> HeaderToken(h, i)] /\ Len(q) = H
                                 /\ \A i \in 1..H : q[i] = HeaderToken(h, i)
    <2>1. \A i \in 1..H : HeaderToken(h, i) \in Tokens
      BY TokensAreTokens
    <2>2. PICK q : q = [i \in 1..H |-> HeaderToken(h, i)]
      OBVIOUS
    <2>3. q \in [1..H -> Tokens] /\ \A i \in 1..H : q[i] = HeaderToken(h, i)
      BY <2>1, <2>2
    <2>4. q \in Seq(Tokens) /\ Len(q) = H
      BY <2>3
    <2> QED BY <2>2, <2>3, <2>4
  <1>5. PICK s \in Seq(Tokens) : /\ s = Run(First[h], N) /\ Len(s) = N
                                 /\ \A i \in 1..N : s[i] = SectorToken(First[h] + i - 1, TRUE)
    <2>1. /\ Run(First[h], N) \in Seq(Tokens) /\ Len(Run(First[h], N)) = N
          /\ \A i \in 1..N : Run(First[h], N)[i] = SectorToken(First[h] + i - 1, TRUE)
      BY FrontNumbers, RunIsSeq
    <2> QED BY <2>1
  <1>6. WholeFile(h) = p \o q \o s
    BY <1>1, <1>3, <1>4, <1>5 DEF WholeFile, Run
  <1>7. PICK u \in Seq(Tokens) : u = p \o q
    BY Joined
  <1>8. /\ Len(u) = T + H
        /\ \A i \in 1..T : u[i] = p[i]
        /\ \A i \in T + 1..T + H : u[i] = q[i - T]
    BY <1>3, <1>4, <1>7, Joined
  <1>9. PICK t \in Seq(Tokens) : t = u \o s
    BY Joined
  <1>10. /\ Len(t) = (T + H) + N
         /\ \A i \in 1..T + H : t[i] = u[i]
         /\ \A i \in (T + H) + 1..(T + H) + N : t[i] = s[i - (T + H)]
    <2>1. /\ Len(t) = Len(u) + Len(s)
          /\ \A i \in 1..Len(u) : t[i] = u[i]
          /\ \A i \in Len(u) + 1..Len(u) + Len(s) : t[i] = s[i - Len(u)]
      BY <1>9, Joined
    <2> QED BY <1>5, <1>8, <2>1
  <1>11. ASSUME NEW i \in 1..(T + H) + N PROVE t[i] = Token(h, i)
    <2>1. CASE i \in 1..T
      <3>1. i \in 1..T + H /\ i <= TagSize[h]
        BY <1>1, <2>1
      <3> QED BY <1>3, <1>8, <1>10, <2>1, <3>1 DEF Token
    <2>2. CASE i \in T + 1..T + H
      <3>1. i \in 1..T + H /\ ~(i <= TagSize[h]) /\ i <= DataAt(h) /\ i - T \in 1..H
        BY <1>1, <1>2, <2>2
      <3>2. t[i] = HeaderToken(h, i - T)
        BY <1>4, <1>8, <1>10, <2>2, <3>1
      <3> QED BY <1>1, <3>1, <3>2 DEF Token
    <2>3. CASE i \in (T + H) + 1..(T + H) + N
      <3>1. ~(i <= TagSize[h]) /\ ~(i <= DataAt(h)) /\ i - (T + H) \in 1..N
        BY <1>1, <1>2, <2>3
      <3>2. t[i] = SectorToken(First[h] + (i - (T + H)) - 1, TRUE)
        BY <1>5, <1>10, <2>3, <3>1
      <3> QED BY <1>2, <3>1, <3>2 DEF Token
    <2>4. i \in 1..T \/ i \in T + 1..T + H \/ i \in (T + H) + 1..(T + H) + N
      OBVIOUS
    <2> QED BY <2>1, <2>2, <2>3, <2>4
  <1> QED BY <1>2, <1>6, <1>7, <1>9, <1>10, <1>11

LEMMA FrontIsPrefix ==
    ASSUME NEW h \in Handles, NEW g \in Seq(Tokens), IsFront(h, g)
    PROVE  IsPrefix(g, WholeFile(h))
  <1>1. PICK w \in Seq(Tokens) : w = WholeFile(h)
    BY WholeFileTokens
  <1>2. PICK n \in Nat : n = Len(g)
    OBVIOUS
  <1>3. /\ n <= Len(w) /\ Len(w) \in Nat /\ \A i \in 1..n : w[i] = g[i]
    <2>1. Len(w) = FileSize(h) /\ \A i \in 1..FileSize(h) : w[i] = Token(h, i)
      BY <1>1, WholeFileTokens
    <2>2. n <= Len(w) /\ \A i \in 1..n : g[i] = Token(h, i)
      BY <1>2, <2>1 DEF IsFront
    <2>3. \A i \in 1..n : i \in 1..FileSize(h)
      BY <2>1, <2>2
    <2> QED BY <2>1, <2>2, <2>3
  <1>4. PICK c : c = SubSeq(w, 1, n)
    OBVIOUS
  <1>5. c \in Seq(Tokens) /\ Len(c) = n /\ \A i \in 1..n : c[i] = w[i]
    BY <1>3, <1>4, Cut
  <1>6. c = g
    BY <1>2, <1>3, <1>5, SeqEqual
  <1>7. SubSeq(g, 1, n) = g
    BY <1>2, SubSeqFull
  <1> QED BY <1>1, <1>2, <1>3, <1>4, <1>6, <1>7 DEF IsPrefix

\* A file that is open alone reads as what it should be: its own tag, its
\* header, and its sectors from the first on.  (With two files open it does
\* not: the tag is the other's.)
THEOREM FileIsRead ==
    ASSUME Alone
    PROVE  Spec => []PlayerGetsTheFile
  <1>1. Init => FrontInv
    <2> SUFFICES ASSUME Init, NEW h \in Handles
                 PROVE  /\ IsFront(h, got[h]) /\ PositionOK(h, file[h], got[h]) /\ ~Going(file[h])
      BY DEF FrontInv
    <2>1. got[h] = <<>> /\ file[h] = Closed /\ ~Going(Closed)
      BY DEF Init, Closed, Going
    <2> QED BY <2>1, NothingIsFront DEF PositionOK
  <1>2. IInv /\ FrontInv /\ [Next]_vars => FrontInv'
    BY StepKeepsFront
  <1>3. IInv /\ FrontInv => PlayerGetsTheFile
    BY HandleNow, FrontNow, FrontIsPrefix DEF PlayerGetsTheFile
  <1> QED BY <1>1, <1>2, <1>3, AlwaysIInv, PTL DEF Spec
==============================================================================
