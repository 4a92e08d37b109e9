-------------------------- MODULE DstDecoder_proofs --------------------------
(***************************************************************************)
(* The DST decoder for every number of decode threads and of frames: its   *)
(* variables keep their types, its two locks describe the lists behind     *)
(* them, every job is in one place and every buffer has one owner, and     *)
(* what it delivers is what FrameDelivery allows.                          *)
(***************************************************************************)
EXTENDS DstDecoder, SequenceTheorems, FiniteSetTheorems, WellFoundedInduction, TLAPS

\* A set of numbers has its Min.
LEMMA MinIsLeast ==
    ASSUME NEW S \in SUBSET Nat, S # {}
    PROVE  Min(S) \in S /\ \A n \in S : Min(S) <= n
  <1> DEFINE Less == {pair \in Nat \X Nat : pair[1] < pair[2]}
  <1>1. OpToRel(<, Nat) = Less
    BY Zenon DEF OpToRel
  <1>2. IsWellFoundedOn(Less, Nat)
    BY <1>1, NatLessThanWellFounded, Zenon
  <1>3. PICK x \in S : \A y \in S : <<y, x>> \notin Less
    BY <1>2, WFMin, Zenon
  <1>4. ASSUME NEW y \in S PROVE x <= y
    <2>1. x \in Nat /\ y \in Nat /\ ~(<<y, x>> \in {pair \in Nat \X Nat : pair[1] < pair[2]})
      BY <1>3
    <2>2. ~(y < x)
      BY <2>1
    <2> QED BY <2>1, <2>2
  <1> QED BY <1>4 DEF Min

LEMMA JobSeq == ASSUME NEW job \in Jobs PROVE job.seq \in Int
  BY DEF Jobs

\* Where decode_thread's sorted insertion puts a job: behind the jobs that are
\* not later, before the first later one.
LEMMA InsertPosition ==
    ASSUME NEW list \in Seq(Jobs), NEW job \in Jobs
    PROVE  /\ Insert(list, job) \in Seq(Jobs)
           /\ Len(Insert(list, job)) = Len(list) + 1
           /\ \E k \in 1..Len(list) + 1 :
                 /\ \A i \in 1..Len(list) + 1 :
                       Insert(list, job)[i] = IF i < k THEN list[i]
                                              ELSE IF i = k THEN job ELSE list[i - 1]
                 /\ \A i \in 1..k - 1 : list[i].seq <= job.seq
                 /\ k <= Len(list) => job.seq < list[k].seq
  <1> DEFINE later == {i \in 1..Len(list) : list[i].seq > job.seq}
             here == IF later # {} THEN Min(later) ELSE 0
             Put(k) == /\ \A i \in 1..Len(list) + 1 :
                             Insert(list, job)[i] = IF i < k THEN list[i]
                                                    ELSE IF i = k THEN job ELSE list[i - 1]
                       /\ \A i \in 1..k - 1 : list[i].seq <= job.seq
                       /\ k <= Len(list) => job.seq < list[k].seq
  <1>0. SUFFICES /\ Insert(list, job) \in Seq(Jobs)
                 /\ Len(Insert(list, job)) = Len(list) + 1
                 /\ \E k \in 1..Len(list) + 1 : Put(k)
    OBVIOUS
  <1>1. Insert(list, job) = IF here = 0 THEN Append(list, job) ELSE InsertAt(list, here, job)
    BY DEF Insert, SelectInSeq
  <1>2. /\ Len(list) \in Nat /\ job.seq \in Int
        /\ \A i \in 1..Len(list) : list[i] \in Jobs
        /\ \A i \in 1..Len(list) : list[i].seq \in Int
    BY JobSeq
  <1>3. CASE later = {}
    <2>1. Insert(list, job) = Append(list, job)
      BY <1>1, <1>3
    <2>2. \A i \in 1..Len(list) : list[i].seq <= job.seq
      BY <1>2, <1>3
    <2> HIDE DEF later, here
    <2>3. /\ Append(list, job) \in Seq(Jobs) /\ Len(Append(list, job)) = Len(list) + 1
          /\ \A i \in 1..Len(list) + 1 :
                Append(list, job)[i] = IF i < Len(list) + 1 THEN list[i] ELSE job
      BY <1>2
    <2>4. Put(Len(list) + 1)
      BY <1>2, <2>1, <2>2, <2>3
    <2> HIDE DEF Put
    <2> QED BY <1>2, <2>1, <2>3, <2>4
  <1>4. CASE later # {}
    <2>1. here \in later /\ \A n \in later : here <= n
      <3>1. later \in SUBSET Nat
        BY <1>2
      <3> HIDE DEF later
      <3> QED BY <1>4, <3>1, MinIsLeast
    <2>2. here \in 1..Len(list) /\ list[here].seq > job.seq
      BY <2>1
    <2>3. \A i \in 1..here - 1 : list[i].seq <= job.seq
      <3> SUFFICES ASSUME NEW i \in 1..here - 1, ~(list[i].seq <= job.seq) PROVE FALSE
        OBVIOUS
      <3>1. i \in 1..Len(list) /\ i < here
        BY <2>2, <1>2
      <3>2. i \in later
        BY <3>1, <1>2
      <3>3. here <= i
        BY <2>1, <3>2
      <3> HIDE DEF here
      <3> QED BY <2>2, <3>1, <3>3, <1>2
    <2> HIDE DEF later, here
    <2>4. Insert(list, job) = InsertAt(list, here, job)
      BY <1>1, <1>2, <2>2
    <2> DEFINE front == SubSeq(list, 1, here - 1)
               back == SubSeq(list, here, Len(list))
    <2>5. /\ front \in Seq(Jobs) /\ Len(front) = here - 1
          /\ \A i \in 1..here - 1 : front[i] = list[i]
          /\ back \in Seq(Jobs) /\ Len(back) = Len(list) - here + 1
          /\ \A i \in 1..Len(list) - here + 1 : back[i] = list[here + i - 1]
      BY <1>2, <2>2
    <2>6. InsertAt(list, here, job) = front \o <<job>> \o back
      BY DEF InsertAt
    <2> HIDE DEF front, back
    <2>7. /\ front \o <<job>> \in Seq(Jobs) /\ Len(front \o <<job>>) = here
          /\ \A i \in 1..here : (front \o <<job>>)[i] = IF i < here THEN list[i] ELSE job
      BY <1>2, <2>2, <2>5
    <2> DEFINE left == front \o <<job>>
    <2> HIDE DEF left
    <2>8. /\ InsertAt(list, here, job) \in Seq(Jobs)
          /\ Len(InsertAt(list, here, job)) = Len(list) + 1
          /\ \A i \in 1..Len(list) + 1 :
                InsertAt(list, here, job)[i] = IF i < here THEN list[i]
                                               ELSE IF i = here THEN job ELSE list[i - 1]
      <3>1. /\ left \in Seq(Jobs) /\ Len(left) = here
            /\ \A i \in 1..here : left[i] = IF i < here THEN list[i] ELSE job
        BY <2>7 DEF left
      <3>2. InsertAt(list, here, job) = left \o back
        BY <2>6 DEF left
      <3>3. /\ left \o back \in Seq(Jobs)
            /\ Len(left \o back) = Len(left) + Len(back)
        BY <2>5, <3>1, ConcatProperties, Zenon
      <3>4. ASSUME NEW i \in 1..Len(list) + 1
            PROVE  (left \o back)[i] = IF i <= here THEN left[i] ELSE back[i - here]
        BY <1>2, <2>2, <2>5, <3>1
      <3>5. ASSUME NEW i \in 1..Len(list) + 1, here < i
            PROVE  back[i - here] = list[i - 1]
        <4>1. i - here \in 1..Len(list) - here + 1 /\ here + (i - here) - 1 = i - 1
          BY <1>2, <2>2, <3>5
        <4> QED BY <2>5, <4>1
      <3>6. Len(left \o back) = Len(list) + 1
        BY <1>2, <2>2, <2>5, <3>1, <3>3
      <3>7. ASSUME NEW i \in 1..Len(list) + 1
            PROVE  (left \o back)[i] = IF i < here THEN list[i]
                                       ELSE IF i = here THEN job ELSE list[i - 1]
        <4>1. CASE i <= here
          BY <1>2, <2>2, <3>1, <3>4, <4>1
        <4>2. CASE here < i
          <5>1. ~(i <= here) /\ ~(i < here) /\ i # here
            BY <1>2, <2>2, <4>2
          <5>2. (left \o back)[i] = back[i - here]
            BY <3>4, <5>1, Zenon
          <5> QED BY <3>5, <4>2, <5>1, <5>2, Zenon
        <4>3. i <= here \/ here < i
          BY <1>2, <2>2
        <4> QED BY <4>1, <4>2, <4>3, Zenon
      <3> QED BY <3>2, <3>3, <3>6, <3>7
    <2>9. Put(here)
      BY <1>2, <2>2, <2>3, <2>4, <2>8
    <2> HIDE DEF Put
    <2> QED BY <1>2, <2>2, <2>4, <2>8, <2>9
  <1> QED BY <1>3, <1>4
-----------------------------------------------------------------------------
(* The inductive invariant.  A thread may touch a job's buffers because    *)
(* they are spaces of the pools; the write list stays sorted because the   *)
(* decode list is handed out from its front, so that a job that was taken  *)
(* is earlier than all that were not and no two of them have one number.   *)

Spaces(pool) == 1..Made(pool)
Sound(pool) == pool \in Pools /\ pool.free \subseteq Spaces(pool)

\* The first number that no job in the lists or with a thread has yet.
Bound == IF mainPc \in {"launch", "enqueue"} THEN sequence - 1 ELSE sequence

Busy == {w \in Workers : workerPc[w] \in {"getOut", "decode", "insert"}}

\* A job with number n was taken from the decode list.
Taken(n) ==
    /\ n \in Nat /\ n < Bound
    /\ \A i \in 1..Len(decodeList) : decodeList[i].seq = -1 \/ n < decodeList[i].seq

Ended == {"verify", "verifyWrite", "returned"}

\* The last job of a decoder, which has no frame, is under way only while the
\* client waits for the write thread to take it.
FinalOK(job) ==
    ~job.more => mainPc = "joinWriter" /\ writerPc \notin Ended /\ job.seq = sequence - 1

ClientOK ==
    /\ mainPc = "getIn" => mainJob.seq = sequence
    /\ mainPc \in {"launch", "enqueue"} =>
          /\ sequence > 0 /\ mainJob.seq = sequence - 1
          /\ mainJob.more => mainJob.in \in Spaces(inPool)

DecodeListOK ==
    /\ \A i \in 1..Len(decodeList) :
          /\ decodeList[i].seq \in Nat \cup {-1} /\ decodeList[i].seq < Bound
          /\ decodeList[i].more => decodeList[i].in \in Spaces(inPool)
          /\ decodeList[i].seq # -1 => FinalOK(decodeList[i])
    /\ \A i, j \in 1..Len(decodeList) : i < j => decodeList[i].seq < decodeList[j].seq

WorkersOK ==
    /\ \A w \in Busy : Taken(workerJob[w].seq) /\ FinalOK(workerJob[w])
    /\ \A v, w \in Busy : v # w => workerJob[v].seq # workerJob[w].seq

WorkerSpacesOK ==
    \A w \in Busy :
       /\ workerPc[w] # "insert" => workerJob[w].in \in Spaces(inPool)
       /\ \/ workerPc[w] = "decode"
          \/ workerPc[w] = "insert" /\ workerJob[w].more
          => workerJob[w].out \in Spaces(outPool)

WriteListOK ==
    \A i \in 1..Len(writeList) :
       /\ Taken(writeList[i].seq) /\ FinalOK(writeList[i])
       /\ writeList[i].more => writeList[i].out \in Spaces(outPool)
       /\ \A w \in Busy : writeList[i].seq # workerJob[w].seq

WriterOK == writerPc \in {"deliver", "dropOut"} => writerJob.out \in Spaces(outPool)

\* After the write thread has verified that there are no more jobs, none comes.
EndOK ==
    /\ writerPc \in {"verify", "verifyWrite"} => mainPc = "joinWriter"
    /\ writerPc = "returned" => mainPc \notin {"idle", "getIn", "launch", "enqueue"}
    /\ writerPc \in {"verifyWrite", "returned"} /\ mainPc \in {"joinWriter", "poison"}
          => decodeHave = 0
    /\ mainPc = "poison" => writerPc = "returned"

PoolsOK == Sound(inPool) /\ Sound(outPool)

IInv == /\ TypeOK /\ LocksDescribeLists /\ PoolsOK /\ ClientOK /\ DecodeListOK
        /\ WorkersOK /\ WorkerSpacesOK /\ WriteListOK /\ WriterOK /\ EndOK
-----------------------------------------------------------------------------
(* Jobs and pools.                                                         *)

LEMMA NoJobIsAJob == NoJob \in Jobs /\ Poison \in Jobs /\ Poison.seq = -1 /\ ~Poison.more
  BY DEF NoJob, Poison, Jobs, NoSpace

LEMMA ChangedJob ==
    ASSUME NEW job \in Jobs
    PROVE  /\ \A s \in Nat : /\ [job EXCEPT !.in = s] \in Jobs /\ [job EXCEPT !.in = s].in = s
                            /\ [job EXCEPT !.in = s].seq = job.seq
                            /\ [job EXCEPT !.in = s].more = job.more
           /\ \A s \in Nat : /\ [job EXCEPT !.out = s] \in Jobs /\ [job EXCEPT !.out = s].out = s
                            /\ [job EXCEPT !.out = s].seq = job.seq
                            /\ [job EXCEPT !.out = s].more = job.more
                            /\ [job EXCEPT !.out = s].in = job.in
           /\ \A e \in BOOLEAN : /\ [job EXCEPT !.err = e] \in Jobs
                                /\ [job EXCEPT !.err = e].seq = job.seq
                                /\ [job EXCEPT !.err = e].more = job.more
                                /\ [job EXCEPT !.err = e].out = job.out
  BY DEF Jobs

LEMMA EmptyIsSound ==
    ASSUME NEW limit \in Nat \cup {NoLimit}
    PROVE  Sound(EmptyPool(limit))
  BY DEF EmptyPool, Sound, Pools, Spaces, Made

LEMMA GetIsSound ==
    ASSUME NEW pool, Sound(pool), NEW space \in Available(pool)
    PROVE  /\ Sound(AfterGet(pool, space))
           /\ space \in Nat /\ space \in Spaces(AfterGet(pool, space))
           /\ Spaces(pool) \subseteq Spaces(AfterGet(pool, space))
  <1>1. /\ pool \in Pools /\ Made(pool) \in Nat /\ pool.free \subseteq 1..Made(pool)
        /\ pool.data \in Seq(Contents)
    BY DEF Sound, Pools, Spaces, Made
  <1>2. CASE space \in pool.free
    <2>1. AfterGet(pool, space) = [pool EXCEPT !.free = @ \ {space}]
      BY <1>2 DEF AfterGet
    <2>2. /\ AfterGet(pool, space) \in Pools
          /\ AfterGet(pool, space).free \subseteq pool.free
          /\ AfterGet(pool, space).data = pool.data
      BY <1>1, <2>1 DEF Pools
    <2> QED BY <1>1, <1>2, <2>2 DEF Sound, Spaces, Made
  <1>3. CASE space \notin pool.free
    <2>1. space = Made(pool) + 1 /\ pool.limit # 0 /\ pool.free = {}
      BY <1>3 DEF Available
    <2> DEFINE limit == IF pool.limit > 0 THEN pool.limit - 1 ELSE pool.limit
               data == Append(pool.data, Garbage)
    <2>2. limit \in Nat \cup {NoLimit}
      BY <1>1, <2>1 DEF Pools, NoLimit
    <2>3. data \in Seq(Contents) /\ Len(data) = Made(pool) + 1
      BY <1>1 DEF Contents, Made
    <2>4. AfterGet(pool, space) = [pool EXCEPT !.limit = limit, !.data = data]
      BY <1>3 DEF AfterGet
    <2> HIDE DEF limit, data
    <2>5. /\ AfterGet(pool, space) \in Pools /\ AfterGet(pool, space).free = {}
          /\ AfterGet(pool, space).data = data
      BY <1>1, <2>1, <2>2, <2>3, <2>4 DEF Pools
    <2>6. Made(AfterGet(pool, space)) = Made(pool) + 1
      BY <2>3, <2>5 DEF Made
    <2> QED BY <1>1, <2>1, <2>5, <2>6 DEF Sound, Spaces
  <1> QED BY <1>2, <1>3

LEMMA FillIsSound ==
    ASSUME NEW pool, Sound(pool), NEW space \in Spaces(pool), NEW content \in Contents
    PROVE  /\ Sound(Fill(pool, space, content))
           /\ Spaces(Fill(pool, space, content)) = Spaces(pool)
  <1> DEFINE data == [pool.data EXCEPT ![space] = content]
  <1>1. /\ pool \in Pools /\ Len(pool.data) \in Nat /\ space \in 1..Len(pool.data)
        /\ pool.data \in Seq(Contents)
    BY DEF Sound, Pools, Spaces, Made
  <1>2. data \in Seq(Contents) /\ Len(data) = Len(pool.data)
    BY <1>1
  <1>3. Fill(pool, space, content) = [pool EXCEPT !.data = data]
    BY DEF Fill
  <1> HIDE DEF data
  <1>4. /\ Fill(pool, space, content) \in Pools
        /\ Fill(pool, space, content).free = pool.free
        /\ Fill(pool, space, content).data = data
    BY <1>1, <1>2, <1>3 DEF Pools
  <1> QED BY <1>1, <1>2, <1>4 DEF Sound, Spaces, Made

LEMMA DropIsSound ==
    ASSUME NEW pool, Sound(pool), NEW space \in Spaces(pool)
    PROVE  /\ Sound(AfterDrop(pool, space))
           /\ Spaces(AfterDrop(pool, space)) = Spaces(pool)
  <1> DEFINE filled == Fill(pool, space, Garbage)
  <1>1. Garbage \in Contents
    BY DEF Contents
  <1>2. Sound(filled) /\ Spaces(filled) = Spaces(pool)
    BY <1>1, FillIsSound
  <1>3. /\ pool \in Pools /\ filled \in Pools /\ filled.free = pool.free
        /\ space \in Nat \ {0}
    BY <1>2 DEF Fill, Pools, Sound, Spaces, NoSpace
  <1>4. AfterDrop(pool, space) = [filled EXCEPT !.free = pool.free \cup {space}]
    BY <1>3 DEF AfterDrop, Fill, Pools
  <1> HIDE DEF filled
  <1>5. /\ AfterDrop(pool, space) \in Pools
        /\ AfterDrop(pool, space).free = pool.free \cup {space}
        /\ AfterDrop(pool, space).data = filled.data
    BY <1>3, <1>4 DEF Pools, NoSpace
  <1> QED BY <1>2, <1>5 DEF Sound, Spaces, Made
-----------------------------------------------------------------------------
(* The steps.                                                              *)

\* A step that leaves the two lists alone, gives no thread a job and takes no
\* space away keeps what the invariant says of the jobs.
LEMMA ListsLeftAlone ==
    ASSUME IInv, TypeOK', UNCHANGED <<decodeList, writeList>>, Bound <= Bound',
           Busy' \subseteq Busy,
           \A job : FinalOK(job) => FinalOK(job)',
           \A w \in Busy' : /\ workerJob'[w].seq = workerJob[w].seq
                            /\ workerJob'[w].more = workerJob[w].more,
           Spaces(inPool) \subseteq Spaces(inPool)',
           Spaces(outPool) \subseteq Spaces(outPool)'
    PROVE  DecodeListOK' /\ WorkersOK' /\ WriteListOK'
  <1>1. Bound \in Int /\ Bound' \in Int
    BY DEF IInv, TypeOK, Bound
  <1>2. ASSUME NEW n, Taken(n) PROVE Taken(n)'
    BY <1>1, <1>2 DEF Taken
  <1>3. DecodeListOK'
    BY <1>1 DEF IInv, DecodeListOK
  <1>4. WorkersOK'
    <2>1. ASSUME NEW w \in Busy' PROVE Taken(workerJob[w].seq)' /\ FinalOK(workerJob[w])'
      <3>1. Taken(workerJob[w].seq) /\ FinalOK(workerJob[w])
        BY DEF IInv, WorkersOK
      <3>2. Taken(workerJob[w].seq)'
        BY <1>2, <3>1 DEF Taken
      <3>3. FinalOK(workerJob[w])'
        BY <3>1 DEF FinalOK
      <3> QED BY <3>2, <3>3
    <2>2. ASSUME NEW v \in Busy', NEW w \in Busy', v # w
          PROVE  workerJob'[v].seq # workerJob'[w].seq
      BY <2>2 DEF IInv, WorkersOK
    <2> QED BY <2>1, <2>2 DEF WorkersOK
  <1>5. WriteListOK'
    BY <1>2 DEF IInv, WriteListOK
  <1> QED BY <1>3, <1>4, <1>5

\* The steps of the client that only move it on, or give it another job.
ClientMoves == CallDecode \/ CallDestroy \/ JoinWriter \/ Pause \/ FreePools \/ FreeDecoder

LEMMA ClientMovesKeepIInv == ASSUME IInv, ClientMoves PROVE IInv'
  <1>1. /\ UNCHANGED <<decodeHave, decodeList, writeFirst, writeList, inPool, outPool>>
        /\ UNCHANGED <<workerPc, workerJob, writerPc, seq, writerJob, delivered>>
    BY DEF ClientMoves, CallDecode, CallDestroy, JoinWriter, Pause, FreePools, FreeDecoder,
           poolVars, workerVars, writerVars
  <1>2. /\ mainPc' \in MainPcs /\ mainJob' \in Jobs /\ sequence' \in Nat
        /\ cthreads' \in 0..Procs /\ ClientOK' /\ Bound <= Bound'
    <2>1. CASE CallDecode
      <3>1. mainJob' \in Jobs /\ mainJob'.seq = sequence
        BY <2>1 DEF CallDecode, IInv, TypeOK, NoJob, Jobs, NoSpace
      <3> QED BY <2>1, <3>1 DEF CallDecode, IInv, TypeOK, MainPcs, ClientOK, Bound
    <2>2. CASE CallDestroy
      <3>1. mainJob' \in Jobs /\ mainJob'.seq = sequence /\ ~mainJob'.more
        BY <2>2 DEF CallDestroy, IInv, TypeOK, NoJob, Jobs, NoSpace
      <3>2. /\ mainPc = "idle" /\ mainPc' = "launch" /\ sequence \in Nat
            /\ sequence' = sequence + 1 /\ cthreads' = cthreads /\ cthreads \in 0..Procs
        BY <2>2 DEF CallDestroy, IInv, TypeOK
      <3>3. ClientOK' /\ Bound' = sequence /\ Bound = sequence
        BY <3>1, <3>2 DEF ClientOK, Bound
      <3> QED BY <3>1, <3>2, <3>3 DEF MainPcs
    <2>3. CASE JoinWriter \/ Pause \/ FreePools \/ FreeDecoder
      BY <2>3, ProcsAssumption DEF JoinWriter, Pause, FreePools, FreeDecoder, IInv, TypeOK,
                                   MainPcs, ClientOK, Bound
    <2> QED BY <2>1, <2>2, <2>3 DEF ClientMoves
  <1>3. TypeOK'
    BY <1>1, <1>2 DEF IInv, TypeOK
  <1>4. /\ LocksDescribeLists' /\ PoolsOK' /\ WorkerSpacesOK' /\ WriterOK'
        /\ Busy' = Busy /\ Spaces(inPool)' = Spaces(inPool) /\ Spaces(outPool)' = Spaces(outPool)
    BY <1>1 DEF IInv, LocksDescribeLists, PoolsOK, WorkerSpacesOK, WriterOK, Busy, FirstSeq,
                Sound, Spaces, Made
  <1>5. EndOK' /\ \A job : FinalOK(job) => FinalOK(job)'
    BY <1>1 DEF ClientMoves, CallDecode, CallDestroy, JoinWriter, Pause, FreePools, FreeDecoder,
                IInv, EndOK, FinalOK, Ended
  <1> QED BY <1>1, <1>2, <1>3, <1>4, <1>5, ListsLeftAlone DEF IInv

LEMMA GetInKeepsIInv == ASSUME IInv, GetIn PROVE IInv'
  <1>1. PICK space \in Available(inPool) :
           /\ mainJob' = [mainJob EXCEPT !.in = space]
           /\ inPool' = Fill(AfterGet(inPool, space), space, sequence)
    BY DEF GetIn
  <1>2. /\ Sound(inPool)' /\ space \in Nat /\ space \in Spaces(inPool)'
        /\ Spaces(inPool) \subseteq Spaces(inPool)'
    <2> DEFINE gotten == AfterGet(inPool, space)
    <2>1. /\ Sound(gotten) /\ space \in Nat /\ space \in Spaces(gotten)
          /\ Spaces(inPool) \subseteq Spaces(gotten)
      BY GetIsSound DEF IInv, PoolsOK
    <2>2. inPool' = Fill(gotten, space, sequence) /\ sequence \in Contents
      BY <1>1 DEF IInv, TypeOK, Contents
    <2> HIDE DEF gotten
    <2>3. Sound(Fill(gotten, space, sequence))
          /\ Spaces(Fill(gotten, space, sequence)) = Spaces(gotten)
      BY <2>1, <2>2, FillIsSound
    <2>4. Sound(inPool') /\ Spaces(inPool') = Spaces(gotten)
      BY <2>2, <2>3
    <2> QED BY <2>1, <2>4 DEF Sound, Spaces, Made
  <1>3. /\ mainPc = "getIn" /\ mainPc' = "launch" /\ sequence' = sequence + 1
        /\ UNCHANGED <<cthreads, decodeHave, decodeList, writeFirst, writeList, outPool>>
        /\ UNCHANGED <<workerPc, workerJob, writerPc, seq, writerJob, delivered>>
    BY DEF GetIn, workerVars, writerVars
  <1>4. mainJob' \in Jobs /\ mainJob'.in = space /\ mainJob'.seq = sequence
    BY <1>1, <1>2, <1>3, ChangedJob DEF IInv, TypeOK, ClientOK
  <1>5. TypeOK'
    BY <1>2, <1>3, <1>4 DEF IInv, TypeOK, MainPcs, Sound
  <1>6. ClientOK' /\ Bound' = Bound
    BY <1>2, <1>3, <1>4 DEF IInv, TypeOK, ClientOK, Bound
  <1>7. /\ LocksDescribeLists' /\ PoolsOK' /\ WriterOK' /\ Busy' = Busy
        /\ Spaces(outPool)' = Spaces(outPool)
    BY <1>2, <1>3 DEF IInv, LocksDescribeLists, PoolsOK, WriterOK, Busy, FirstSeq, Sound, Spaces, Made
  <1>8. WorkerSpacesOK'
    BY <1>2, <1>3, <1>7 DEF IInv, WorkerSpacesOK
  <1>9. Bound \in Int
    BY DEF IInv, TypeOK, Bound
  <1>10. EndOK' /\ \A job : FinalOK(job) => FinalOK(job)'
    BY <1>3 DEF IInv, EndOK, FinalOK, Ended
  <1> QED BY <1>2, <1>3, <1>5, <1>6, <1>7, <1>8, <1>9, <1>10, ListsLeftAlone DEF IInv

LEMMA LaunchKeepsIInv == ASSUME IInv, Launch PROVE IInv'
  <1>1. /\ mainPc = "launch" /\ mainPc' = "enqueue"
        /\ UNCHANGED <<mainJob, sequence, decodeHave, decodeList, writeFirst, writeList, inPool,
                       outPool, workerJob, writerPc, seq, writerJob, delivered>>
    BY DEF Launch, poolVars, writerVars
  <1>2. /\ cthreads' \in 0..Procs /\ workerPc' \in [Workers -> WorkerPcs]
        /\ \A w \in Workers : workerPc'[w] \in {workerPc[w], "getJob"}
    <2>1. /\ cthreads \in 0..Procs /\ Procs \in Nat
          /\ workerPc \in [Workers -> WorkerPcs] /\ "getJob" \in WorkerPcs
      BY ProcsAssumption DEF IInv, TypeOK, WorkerPcs
    <2>2. CASE cthreads < Procs
      <3>1. cthreads' = cthreads + 1 /\ workerPc' = [workerPc EXCEPT ![cthreads + 1] = "getJob"]
        BY <2>2 DEF Launch
      <3> QED BY <2>1, <2>2, <3>1 DEF Workers
    <2>3. CASE ~(cthreads < Procs)
      BY <2>1, <2>3 DEF Launch
    <2> QED BY <2>2, <2>3
  <1>3. TypeOK' /\ ClientOK' /\ Bound' = Bound /\ Bound \in Int
    BY <1>1, <1>2 DEF IInv, TypeOK, MainPcs, ClientOK, Bound, Spaces, Made
  <1>4. /\ LocksDescribeLists' /\ PoolsOK' /\ WriterOK'
        /\ Spaces(inPool)' = Spaces(inPool) /\ Spaces(outPool)' = Spaces(outPool)
    BY <1>1 DEF IInv, LocksDescribeLists, PoolsOK, WriterOK, FirstSeq, Sound, Spaces, Made
  <1>5. Busy' \subseteq Busy /\ \A w \in Busy' : workerPc'[w] = workerPc[w]
    BY <1>2 DEF Busy
  <1>6. WorkerSpacesOK'
    BY <1>1, <1>4, <1>5 DEF IInv, WorkerSpacesOK
  <1>7. EndOK' /\ \A job : FinalOK(job) => FinalOK(job)'
    BY <1>1 DEF IInv, EndOK, FinalOK, Ended
  <1> QED BY <1>1, <1>3, <1>4, <1>5, <1>6, <1>7, ListsLeftAlone DEF IInv

\* A finished decoder leaves nothing to the next one.
LEMMA CreateKeepsIInv == ASSUME Create PROVE IInv'
  <1>1. /\ mainPc' = "idle" /\ mainJob' = NoJob /\ sequence' = 0 /\ cthreads' = 0
        /\ decodeHave' = 0 /\ decodeList' = <<>> /\ writeFirst' = -1 /\ writeList' = <<>>
        /\ inPool' = EmptyPool(InLimit) /\ outPool' = EmptyPool(NoLimit)
        /\ workerPc' = [w \in Workers |-> "absent"] /\ workerJob' = [w \in Workers |-> NoJob]
        /\ writerPc' = "getJob" /\ seq' = 0 /\ writerJob' = NoJob /\ delivered' = <<>>
    BY DEF Create
  <1>2. PoolsOK'
    <2>1. InLimit \in Nat
      BY LimitAssumption
    <2>2. Sound(EmptyPool(InLimit)) /\ Sound(EmptyPool(NoLimit))
      BY <2>1, EmptyIsSound
    <2> QED BY <1>1, <2>2 DEF PoolsOK, Sound, Spaces, Made
  <1>3. TypeOK'
    BY <1>1, <1>2, NoJobIsAJob, ProcsAssumption
    DEF TypeOK, MainPcs, WorkerPcs, WriterPcs, PoolsOK, Sound
  <1>4. Busy' = {}
    BY <1>1 DEF Busy
  <1>5. LocksDescribeLists' /\ ClientOK' /\ DecodeListOK' /\ WriteListOK' /\ WriterOK' /\ EndOK'
    BY <1>1 DEF LocksDescribeLists, FirstSeq, ClientOK, DecodeListOK, WriteListOK, WriterOK, EndOK
  <1>6. WorkersOK' /\ WorkerSpacesOK'
    BY <1>4 DEF WorkersOK, WorkerSpacesOK
  <1> QED BY <1>2, <1>3, <1>5, <1>6 DEF IInv

LEMMA InitHolds == Init => IInv
  <1> SUFFICES ASSUME Init PROVE IInv
    OBVIOUS
  <1>1. PoolsOK
    <2>1. InLimit \in Nat
      BY LimitAssumption
    <2> QED BY <2>1, EmptyIsSound DEF Init, PoolsOK
  <1>2. TypeOK
    BY <1>1, NoJobIsAJob, ProcsAssumption
    DEF Init, TypeOK, MainPcs, WorkerPcs, WriterPcs, PoolsOK, Sound
  <1>3. Busy = {}
    BY DEF Init, Busy
  <1>4. LocksDescribeLists /\ ClientOK /\ DecodeListOK /\ WriteListOK /\ WriterOK /\ EndOK
    BY DEF Init, LocksDescribeLists, FirstSeq, ClientOK, DecodeListOK, WriteListOK, WriterOK, EndOK
  <1>5. WorkersOK /\ WorkerSpacesOK
    BY <1>3 DEF WorkersOK, WorkerSpacesOK
  <1> QED BY <1>1, <1>2, <1>4, <1>5 DEF IInv

LEMMA EnqueueKeepsIInv == ASSUME IInv, Enqueue PROVE IInv'
  <1>1. /\ mainPc = "enqueue" /\ decodeList' = Append(decodeList, mainJob)
        /\ decodeHave' = decodeHave + 1 /\ mainJob' = NoJob
        /\ mainPc' = IF mainJob.more THEN "idle" ELSE "joinWriter"
        /\ UNCHANGED <<sequence, cthreads, writeFirst, writeList, inPool, outPool, workerPc,
                       workerJob, writerPc, seq, writerJob, delivered>>
    BY DEF Enqueue, poolVars, workerVars, writerVars
  <1>2. /\ sequence \in Nat /\ sequence > 0 /\ mainJob \in Jobs /\ mainJob.seq = sequence - 1
        /\ mainJob.more => mainJob.in \in Spaces(inPool)
        /\ decodeList \in Seq(Jobs) /\ Len(decodeList) \in Nat /\ decodeHave = Len(decodeList)
        /\ Bound = mainJob.seq /\ Bound' = mainJob.seq + 1
        /\ mainJob.seq \in Nat
    BY <1>1 DEF IInv, TypeOK, ClientOK, LocksDescribeLists, Bound
  <1>3. /\ decodeList' \in Seq(Jobs) /\ Len(decodeList') = Len(decodeList) + 1
        /\ \A i \in 1..Len(decodeList') :
              decodeList'[i] = IF i <= Len(decodeList) THEN decodeList[i] ELSE mainJob
    BY <1>1, <1>2
  <1>4. TypeOK'
    BY <1>1, <1>2, <1>3, NoJobIsAJob DEF IInv, TypeOK, MainPcs
  <1>5. /\ LocksDescribeLists' /\ PoolsOK' /\ WorkerSpacesOK' /\ WriterOK' /\ ClientOK'
        /\ Busy' = Busy /\ Spaces(inPool)' = Spaces(inPool)
    BY <1>1, <1>2, <1>3 DEF IInv, LocksDescribeLists, FirstSeq, PoolsOK, WorkerSpacesOK, WriterOK,
                            ClientOK, Busy, Sound, Spaces, Made
  <1>6. ASSUME NEW n, Taken(n) PROVE Taken(n)'
    <2>1. n \in Nat /\ n < mainJob.seq /\ n < Bound'
      BY <1>2, <1>6 DEF Taken
    <2> QED BY <1>2, <1>3, <1>6, <2>1 DEF Taken
  <1>6a. /\ EndOK' /\ \A job : FinalOK(job) => FinalOK(job)'
         /\ \A job : job = mainJob => FinalOK(job)'
    <2>1. mainJob.more \/ (writerPc' \notin Ended /\ mainPc' = "joinWriter")
      BY <1>1 DEF IInv, EndOK, Ended
    <2>2. EndOK'
      BY <1>1 DEF IInv, EndOK
    <2>3. \A job : FinalOK(job) => FinalOK(job)'
      BY <1>1 DEF FinalOK
    <2>4. ASSUME NEW job, job = mainJob PROVE FinalOK(job)'
      BY <1>1, <1>2, <2>1, <2>4 DEF FinalOK
    <2> QED BY <2>2, <2>3, <2>4
  <1>7. DecodeListOK'
    <2>1. ASSUME NEW i \in 1..Len(decodeList')
          PROVE  /\ decodeList'[i].seq \in Nat \cup {-1} /\ decodeList'[i].seq < Bound'
                 /\ decodeList'[i].more => decodeList'[i].in \in Spaces(inPool)'
                 /\ decodeList'[i].seq # -1 => FinalOK(decodeList[i])'
      <3>1. CASE i <= Len(decodeList)
        BY <1>2, <1>3, <1>5, <1>6a, <3>1 DEF IInv, DecodeListOK
      <3>2. CASE ~(i <= Len(decodeList))
        <4>1. decodeList'[i] = mainJob
          BY <1>3, <3>2
        <4>2. FinalOK(decodeList[i])'
          BY <1>6a, <4>1
        <4> QED BY <1>2, <1>5, <4>1, <4>2
      <3> QED BY <3>1, <3>2
    <2>2. ASSUME NEW i \in 1..Len(decodeList'), NEW j \in 1..Len(decodeList'), i < j
          PROVE  decodeList'[i].seq < decodeList'[j].seq
      BY <1>2, <1>3, <2>2 DEF IInv, DecodeListOK
    <2> QED BY <2>1, <2>2 DEF DecodeListOK
  <1>8. WorkersOK' /\ WriteListOK'
    BY <1>1, <1>5, <1>6, <1>6a DEF IInv, WorkersOK, WriteListOK, Spaces, Made
  <1> QED BY <1>4, <1>5, <1>6a, <1>7, <1>8 DEF IInv
LEMMA SendHomeKeepsIInv == ASSUME IInv, SendHome PROVE IInv'
  <1>1. /\ mainPc = "poison" /\ decodeList' = <<Poison>> /\ mainPc' = "pause"
        /\ decodeHave' = decodeHave + 1
        /\ UNCHANGED <<mainJob, sequence, cthreads, writeFirst, writeList, inPool, outPool,
                       workerPc, workerJob, writerPc, seq, writerJob, delivered>>
    BY DEF SendHome, poolVars, workerVars, writerVars
  <1>2. decodeHave = 0 /\ writerPc = "returned"
    BY <1>1 DEF IInv, EndOK
  <1>3. /\ decodeList' \in Seq(Jobs) /\ Len(decodeList') = 1 /\ decodeList'[1].seq = -1
        /\ ~decodeList'[1].more
    BY <1>1, NoJobIsAJob
  <1>4. Bound' = Bound /\ Bound \in Nat
    BY <1>1 DEF IInv, TypeOK, Bound
  <1>5. TypeOK'
    BY <1>1, <1>2, <1>3 DEF IInv, TypeOK, MainPcs
  <1>6. /\ LocksDescribeLists' /\ PoolsOK' /\ WorkerSpacesOK' /\ WriterOK' /\ ClientOK' /\ EndOK'
        /\ Busy' = Busy /\ Spaces(outPool)' = Spaces(outPool)
    BY <1>1, <1>2, <1>3 DEF IInv, LocksDescribeLists, FirstSeq, PoolsOK, WorkerSpacesOK, WriterOK,
                            ClientOK, EndOK, Busy, Sound, Spaces, Made
  <1>7. DecodeListOK'
    BY <1>3, <1>4 DEF DecodeListOK
  <1>8. /\ \A n : Taken(n) => Taken(n)'
        /\ \A job : FinalOK(job) => FinalOK(job)'
    BY <1>1, <1>3, <1>4 DEF Taken, FinalOK
  <1>9. WorkersOK' /\ WriteListOK'
    BY <1>1, <1>6, <1>8 DEF IInv, WorkersOK, WriteListOK
  <1> QED BY <1>5, <1>6, <1>7, <1>9 DEF IInv

LEMMA TakeJobKeepsIInv == ASSUME IInv, NEW w \in Workers, TakeJob(w) PROVE IInv'
  <1>0. PICK job : job = Head(decodeList)
    OBVIOUS
  <1>1. /\ workerPc[w] = "getJob" /\ decodeHave # 0 /\ job.seq # -1
        /\ workerJob' = [workerJob EXCEPT ![w] = job]
        /\ workerPc' = [workerPc EXCEPT ![w] = IF job.more THEN "getOut" ELSE "insert"]
        /\ decodeList' = Tail(decodeList) /\ decodeHave' = decodeHave - 1
        /\ UNCHANGED <<mainPc, mainJob, sequence, cthreads, writeFirst, writeList, inPool, outPool,
                       writerPc, seq, writerJob, delivered>>
    BY <1>0 DEF TakeJob, mainVars, poolVars, writerVars
  <1>2. /\ decodeList \in Seq(Jobs) /\ Len(decodeList) \in Nat \ {0}
        /\ decodeHave = Len(decodeList) /\ decodeList # <<>>
    BY <1>1 DEF IInv, TypeOK, LocksDescribeLists
  <1>3. /\ job = decodeList[1] /\ job \in Jobs
        /\ Tail(decodeList) \in Seq(Jobs) /\ Len(Tail(decodeList)) = Len(decodeList) - 1
        /\ \A i \in 1..Len(decodeList) - 1 : Tail(decodeList)[i] = decodeList[i + 1]
    BY <1>0, <1>2
  <1>4. /\ workerPc \in [Workers -> WorkerPcs] /\ workerJob \in [Workers -> Jobs]
        /\ workerPc' \in [Workers -> WorkerPcs] /\ workerJob' \in [Workers -> Jobs]
        /\ workerJob'[w] = job /\ workerPc'[w] = IF job.more THEN "getOut" ELSE "insert"
        /\ \A v \in Workers \ {w} : workerPc'[v] = workerPc[v] /\ workerJob'[v] = workerJob[v]
    BY <1>1, <1>3 DEF IInv, TypeOK, WorkerPcs
  <1>5. TypeOK'
    BY <1>1, <1>2, <1>3, <1>4 DEF IInv, TypeOK
  <1>6. /\ LocksDescribeLists' /\ PoolsOK' /\ WriterOK' /\ ClientOK' /\ EndOK' /\ Bound' = Bound
        /\ \A j : FinalOK(j) => FinalOK(j)'
        /\ Spaces(inPool)' = Spaces(inPool) /\ Spaces(outPool)' = Spaces(outPool)
    BY <1>1, <1>2, <1>3 DEF IInv, LocksDescribeLists, FirstSeq, PoolsOK, WriterOK, ClientOK, EndOK,
                            Bound, FinalOK, Sound, Spaces, Made
  <1>7. /\ job.seq \in Nat /\ job.seq < Bound /\ FinalOK(job)
        /\ job.more => job.in \in Spaces(inPool)
        /\ \A i \in 1..Len(decodeList) - 1 : job.seq < Tail(decodeList)[i].seq
    <2>1. ASSUME NEW i \in 1..Len(decodeList) - 1 PROVE job.seq < Tail(decodeList)[i].seq
      <3>1. 1 \in 1..Len(decodeList) /\ i + 1 \in 1..Len(decodeList) /\ 1 < i + 1
        BY <1>2
      <3> QED BY <1>3, <3>1 DEF IInv, DecodeListOK
    <2>2. 1 \in 1..Len(decodeList)
      BY <1>2
    <2> QED BY <1>1, <1>3, <2>1, <2>2 DEF IInv, DecodeListOK
  <1>8. w \notin Busy /\ Busy' \subseteq Busy \cup {w}
    BY <1>1, <1>4 DEF Busy
  <1>9. DecodeListOK'
    <2>1. ASSUME NEW i \in 1..Len(decodeList')
          PROVE  /\ decodeList'[i].seq \in Nat \cup {-1} /\ decodeList'[i].seq < Bound'
                 /\ decodeList'[i].more => decodeList'[i].in \in Spaces(inPool)'
                 /\ decodeList'[i].seq # -1 => FinalOK(decodeList[i])'
      <3>1. i + 1 \in 1..Len(decodeList) /\ decodeList'[i] = decodeList[i + 1]
        BY <1>1, <1>2, <1>3
      <3>2. decodeList[i]' = decodeList[i + 1]
        BY <3>1
      <3> QED BY <1>6, <3>1, <3>2 DEF IInv, DecodeListOK, FinalOK
    <2>2. ASSUME NEW i \in 1..Len(decodeList'), NEW j \in 1..Len(decodeList'), i < j
          PROVE  decodeList'[i].seq < decodeList'[j].seq
      BY <1>1, <1>2, <1>3, <2>2 DEF IInv, DecodeListOK
    <2> QED BY <2>1, <2>2 DEF DecodeListOK
  <1>10. ASSUME NEW n, Taken(n) PROVE Taken(n)' /\ n < job.seq
    BY <1>1, <1>2, <1>3, <1>6, <1>7, <1>10 DEF Taken
  <1>11. Taken(workerJob[w].seq)' /\ FinalOK(workerJob[w])'
    <2>1. Taken(job.seq)'
      BY <1>1, <1>2, <1>3, <1>6, <1>7 DEF Taken
    <2> QED BY <1>4, <1>6, <1>7, <2>1 DEF Taken, FinalOK
  <1>12. WorkersOK'
    <2>1. ASSUME NEW v \in Busy', v # w
          PROVE  /\ v \in Busy /\ workerJob'[v] = workerJob[v]
                 /\ Taken(workerJob[v].seq)' /\ FinalOK(workerJob[v])'
                 /\ workerJob'[v].seq < job.seq /\ workerJob'[v].seq \in Nat
      <3>1. v \in Busy /\ workerJob'[v] = workerJob[v]
        BY <1>4, <1>8, <2>1 DEF Busy
      <3>2. Taken(workerJob[v].seq) /\ FinalOK(workerJob[v])
        BY <3>1 DEF IInv, WorkersOK
      <3> QED BY <1>6, <1>10, <3>1, <3>2 DEF Taken, FinalOK
    <2>2. ASSUME NEW u \in Busy', NEW v \in Busy', u # v
          PROVE  workerJob'[u].seq # workerJob'[v].seq
      <3>1. CASE u # w /\ v # w
        BY <2>1, <2>2, <3>1 DEF IInv, WorkersOK
      <3>2. CASE u = w \/ v = w
        BY <1>4, <1>7, <2>1, <2>2, <3>2
      <3> QED BY <3>1, <3>2
    <2> QED BY <1>11, <2>1, <2>2 DEF WorkersOK
  <1>13. WorkerSpacesOK'
    BY <1>4, <1>6, <1>7, <1>8 DEF IInv, WorkerSpacesOK, Busy
  <1>14. WriteListOK'
    <2>1. writeList' = writeList
      BY <1>1
    <2>2. ASSUME NEW i \in 1..Len(writeList)
          PROVE  /\ Taken(writeList[i].seq)' /\ FinalOK(writeList[i])'
                 /\ writeList[i].more => writeList[i].out \in Spaces(outPool)'
                 /\ \A v \in Busy' : writeList[i].seq # workerJob'[v].seq
      <3>1. Taken(writeList[i].seq) /\ FinalOK(writeList[i])
        BY DEF IInv, WriteListOK
      <3>2. writeList[i].seq < job.seq /\ Taken(writeList[i].seq)' /\ FinalOK(writeList[i])'
        BY <1>6, <1>10, <2>1, <3>1 DEF Taken, FinalOK
      <3>3. ASSUME NEW v \in Busy' PROVE writeList[i].seq # workerJob'[v].seq
        <4>1. CASE v = w
          BY <1>4, <1>7, <3>1, <3>2, <4>1 DEF Taken
        <4>2. CASE v # w
          BY <1>4, <1>8, <4>2 DEF IInv, WriteListOK, Busy
        <4> QED BY <4>1, <4>2
      <3> QED BY <1>6, <3>2, <3>3 DEF IInv, WriteListOK
    <2> QED BY <2>1, <2>2 DEF WriteListOK
  <1> QED BY <1>5, <1>6, <1>9, <1>12, <1>13, <1>14 DEF IInv

LEMMA TakePoisonKeepsIInv == ASSUME IInv, NEW w \in Workers, TakePoison(w) PROVE IInv'
  <1>1. /\ workerPc' = [workerPc EXCEPT ![w] = "returned"]
        /\ UNCHANGED <<mainPc, mainJob, sequence, cthreads, decodeHave, decodeList, writeFirst,
                       writeList, inPool, outPool, workerJob, writerPc, seq, writerJob, delivered>>
    BY DEF TakePoison, mainVars, poolVars, writerVars
  <1>2. TypeOK' /\ Bound' = Bound /\ Bound \in Int
    BY <1>1 DEF IInv, TypeOK, WorkerPcs, Bound
  <1>3. Busy' \subseteq Busy /\ \A v \in Busy' : workerPc'[v] = workerPc[v]
    BY <1>1 DEF IInv, TypeOK, Busy
  <1>4. /\ LocksDescribeLists' /\ PoolsOK' /\ WriterOK' /\ ClientOK' /\ EndOK'
        /\ \A job : FinalOK(job) => FinalOK(job)'
        /\ Spaces(inPool)' = Spaces(inPool) /\ Spaces(outPool)' = Spaces(outPool)
    BY <1>1 DEF IInv, LocksDescribeLists, FirstSeq, PoolsOK, WriterOK, ClientOK, EndOK, FinalOK,
                Sound, Spaces, Made
  <1>5. WorkerSpacesOK'
    BY <1>1, <1>3, <1>4 DEF IInv, WorkerSpacesOK
  <1> QED BY <1>1, <1>2, <1>3, <1>4, <1>5, ListsLeftAlone DEF IInv

LEMMA GetOutKeepsIInv == ASSUME IInv, NEW w \in Workers, GetOut(w) PROVE IInv'
  <1>1. PICK space \in Available(outPool) :
           /\ workerJob' = [workerJob EXCEPT ![w].out = space]
           /\ outPool' = AfterGet(outPool, space)
    BY DEF GetOut
  <1>2. /\ workerPc[w] = "getOut" /\ workerPc' = [workerPc EXCEPT ![w] = "decode"]
        /\ UNCHANGED <<mainPc, mainJob, sequence, cthreads, decodeHave, decodeList, writeFirst,
                       writeList, inPool, writerPc, seq, writerJob, delivered>>
    BY DEF GetOut, mainVars, writerVars
  <1>3. /\ Sound(outPool)' /\ space \in Nat /\ space \in Spaces(outPool)'
        /\ Spaces(outPool) \subseteq Spaces(outPool)'
    <2>1. /\ Sound(outPool') /\ space \in Nat /\ space \in Spaces(outPool')
          /\ Spaces(outPool) \subseteq Spaces(outPool')
      BY <1>1, GetIsSound DEF IInv, PoolsOK
    <2> QED BY <2>1 DEF Sound, Spaces, Made
  <1>4. /\ workerJob \in [Workers -> Jobs] /\ workerJob' \in [Workers -> Jobs]
        /\ workerJob'[w].out = space /\ workerJob'[w].in = workerJob[w].in
        /\ workerJob'[w].seq = workerJob[w].seq /\ workerJob'[w].more = workerJob[w].more
        /\ \A v \in Workers \ {w} : workerJob'[v] = workerJob[v]
    <2>1. workerJob \in [Workers -> Jobs] /\ workerJob[w] \in Jobs
      BY DEF IInv, TypeOK
    <2>2. PICK job \in Jobs : job = [workerJob[w] EXCEPT !.out = space]
      BY <1>3, <2>1, ChangedJob
    <2>3. /\ job.out = space /\ job.in = workerJob[w].in /\ job.seq = workerJob[w].seq
          /\ job.more = workerJob[w].more
      BY <1>3, <2>1, <2>2, ChangedJob
    <2>4. workerJob' = [workerJob EXCEPT ![w] = job]
      BY <1>1, <2>2
    <2> QED BY <2>1, <2>3, <2>4
  <1>5. TypeOK' /\ Bound' = Bound /\ Bound \in Int /\ Busy' = Busy
    <2>1. outPool' \in Pools
      BY <1>3 DEF Sound
    <2>2. workerPc' \in [Workers -> WorkerPcs]
      BY <1>2 DEF IInv, TypeOK, WorkerPcs
    <2>3. TypeOK'
      BY <1>2, <1>4, <2>1, <2>2 DEF IInv, TypeOK
    <2>4. Bound' = Bound /\ Bound \in Int
      BY <1>2 DEF IInv, TypeOK, Bound
    <2>5. Busy' = Busy
      BY <1>2 DEF IInv, TypeOK, Busy
    <2> QED BY <2>3, <2>4, <2>5
  <1>6. /\ LocksDescribeLists' /\ PoolsOK' /\ WriterOK' /\ ClientOK' /\ EndOK'
        /\ \A job : FinalOK(job) => FinalOK(job)'
        /\ Spaces(inPool)' = Spaces(inPool)
    BY <1>2, <1>3 DEF IInv, LocksDescribeLists, FirstSeq, PoolsOK, WriterOK, ClientOK, EndOK,
                      FinalOK, Sound, Spaces, Made
  <1>7. WorkerSpacesOK'
    <2>1. ASSUME NEW v \in Busy', v = w
          PROVE  /\ workerPc'[v] # "insert" /\ workerJob'[v].in \in Spaces(inPool)'
                 /\ workerJob'[v].out \in Spaces(outPool)'
      BY <1>2, <1>3, <1>4, <1>5, <1>6, <2>1 DEF IInv, TypeOK, WorkerSpacesOK
    <2>2. ASSUME NEW v \in Busy', v # w
          PROVE  v \in Busy /\ workerPc'[v] = workerPc[v] /\ workerJob'[v] = workerJob[v]
      BY <1>2, <1>4, <1>5, <2>2 DEF IInv, TypeOK, Busy
    <2> QED BY <1>3, <1>6, <2>1, <2>2 DEF IInv, WorkerSpacesOK
  <1>8. \A v \in Busy' : /\ workerJob'[v].seq = workerJob[v].seq
                        /\ workerJob'[v].more = workerJob[v].more
    BY <1>4 DEF Busy
  <1> QED BY <1>2, <1>3, <1>5, <1>6, <1>7, <1>8, ListsLeftAlone DEF IInv

LEMMA DecodeFrameKeepsIInv == ASSUME IInv, NEW w \in Workers, DecodeFrame(w) PROVE IInv'
  <1>1. PICK job \in Jobs : job = workerJob[w]
    BY DEF IInv, TypeOK
  <1>2. PICK frame : frame = inPool.data[job.in]
    OBVIOUS
  <1>3. /\ workerPc[w] = "decode" /\ workerPc' = [workerPc EXCEPT ![w] = "insert"]
        /\ outPool' = Fill(outPool, job.out, Decode(frame))
        /\ workerJob' = [workerJob EXCEPT ![w].err = frame \in BadFrames]
        /\ inPool' = AfterDrop(inPool, job.in)
        /\ UNCHANGED <<mainPc, mainJob, sequence, cthreads, decodeHave, decodeList, writeFirst,
                       writeList, writerPc, seq, writerJob, delivered>>
    BY <1>1, <1>2 DEF DecodeFrame, mainVars, writerVars
  <1>4. job.in \in Spaces(inPool) /\ job.out \in Spaces(outPool) /\ w \in Busy
    BY <1>1, <1>3 DEF IInv, WorkerSpacesOK, Busy
  <1>5. Decode(frame) \in Contents
    BY <1>2, <1>4 DEF IInv, PoolsOK, Sound, Pools, Spaces, Made, Decode, Contents
  <1>6. /\ Sound(outPool)' /\ Spaces(outPool)' = Spaces(outPool)
        /\ Sound(inPool)' /\ Spaces(inPool)' = Spaces(inPool)
    <2>1. Sound(outPool') /\ Spaces(outPool') = Spaces(outPool)
      BY <1>3, <1>4, <1>5, FillIsSound DEF IInv, PoolsOK
    <2>2. Sound(inPool') /\ Spaces(inPool') = Spaces(inPool)
      BY <1>3, <1>4, DropIsSound DEF IInv, PoolsOK
    <2> QED BY <2>1, <2>2 DEF Sound, Spaces, Made
  <1>7. /\ workerJob \in [Workers -> Jobs] /\ workerJob' \in [Workers -> Jobs]
        /\ workerJob'[w].out = job.out
        /\ workerJob'[w].seq = job.seq /\ workerJob'[w].more = job.more
        /\ \A v \in Workers \ {w} : workerJob'[v] = workerJob[v]
    <2>1. workerJob \in [Workers -> Jobs]
      BY DEF IInv, TypeOK
    <2> DEFINE failed == frame \in BadFrames
    <2>2. failed \in BOOLEAN /\ workerJob' = [workerJob EXCEPT ![w].err = failed]
      BY <1>3
    <2> HIDE DEF failed
    <2>3. PICK done \in Jobs : done = [job EXCEPT !.err = failed]
      BY <2>2, ChangedJob
    <2>4. done.out = job.out /\ done.seq = job.seq /\ done.more = job.more
      BY <2>2, <2>3, ChangedJob
    <2>5. workerJob' = [workerJob EXCEPT ![w] = done]
      BY <1>1, <1>3, <2>1, <2>2, <2>3
    <2> QED BY <2>1, <2>4, <2>5
  <1>8. TypeOK' /\ Bound' = Bound /\ Bound \in Int /\ Busy' = Busy
    BY <1>3, <1>6, <1>7 DEF IInv, TypeOK, WorkerPcs, Bound, Sound, Busy
  <1>9. /\ LocksDescribeLists' /\ PoolsOK' /\ WriterOK' /\ ClientOK' /\ EndOK'
        /\ \A j : FinalOK(j) => FinalOK(j)'
    BY <1>3, <1>6 DEF IInv, LocksDescribeLists, FirstSeq, PoolsOK, WriterOK, ClientOK, EndOK, FinalOK
  <1>10. WorkerSpacesOK'
    <2>1. ASSUME NEW v \in Busy', v = w
          PROVE  workerPc'[v] = "insert" /\ workerJob'[v].out \in Spaces(outPool)'
      BY <1>3, <1>4, <1>6, <1>7, <2>1 DEF IInv, TypeOK
    <2>2. ASSUME NEW v \in Busy', v # w
          PROVE  v \in Busy /\ workerPc'[v] = workerPc[v] /\ workerJob'[v] = workerJob[v]
      BY <1>3, <1>7, <1>8, <2>2 DEF IInv, TypeOK, Busy
    <2> QED BY <1>6, <2>1, <2>2 DEF IInv, WorkerSpacesOK
  <1>11. \A v \in Busy' : /\ workerJob'[v].seq = workerJob[v].seq
                         /\ workerJob'[v].more = workerJob[v].more
    BY <1>1, <1>7 DEF Busy
  <1> QED BY <1>3, <1>6, <1>8, <1>9, <1>10, <1>11, ListsLeftAlone DEF IInv

\* A job whose number is not in a sorted list leaves it sorted.
LEMMA InsertKeepsOrder ==
    ASSUME NEW list \in Seq(Jobs), NEW job \in Jobs,
           \A i, j \in 1..Len(list) : i < j => list[i].seq < list[j].seq,
           \A i \in 1..Len(list) : list[i].seq # job.seq
    PROVE  /\ \A i, j \in 1..Len(list) + 1 :
                 i < j => Insert(list, job)[i].seq < Insert(list, job)[j].seq
           /\ \A i \in 1..Len(list) + 1 :
                 \/ Insert(list, job)[i] = job
                 \/ \E j \in 1..Len(list) : Insert(list, job)[i] = list[j]
  <1> DEFINE new == Insert(list, job)
  <1>1. PICK k \in 1..Len(list) + 1 :
           /\ \A i \in 1..Len(list) + 1 :
                 new[i] = IF i < k THEN list[i] ELSE IF i = k THEN job ELSE list[i - 1]
           /\ \A i \in 1..k - 1 : list[i].seq <= job.seq
           /\ k <= Len(list) => job.seq < list[k].seq
    BY InsertPosition
  <1>2. /\ Len(list) \in Nat /\ job.seq \in Int
        /\ \A i \in 1..Len(list) : list[i] \in Jobs /\ list[i].seq \in Int
    BY JobSeq
  <1> HIDE DEF new
  <1>3. \A i \in 1..Len(list) : i < k => list[i].seq < job.seq
    BY <1>1, <1>2
  <1>4. \A i \in 1..Len(list) : k <= i => job.seq < list[i].seq
    BY <1>1, <1>2
  <1>5. ASSUME NEW i \in 1..Len(list) + 1, NEW j \in 1..Len(list) + 1, i < j
        PROVE  new[i].seq < new[j].seq
    <2>1. CASE j < k
      <3>1. new[i] = list[i] /\ new[j] = list[j] /\ i \in 1..Len(list) /\ j \in 1..Len(list)
        BY <1>1, <1>2, <1>5, <2>1
      <3> QED BY <1>5, <3>1
    <2>2. CASE j = k
      <3>1. new[i] = list[i] /\ new[j] = job /\ i \in 1..Len(list) /\ i < k
        BY <1>1, <1>2, <1>5, <2>2
      <3> QED BY <1>3, <3>1
    <2>3. CASE k < j
      <3>1. new[j] = list[j - 1] /\ j - 1 \in 1..Len(list) /\ k <= j - 1
        BY <1>1, <1>2, <2>3
      <3>2. CASE i < k
        <4>1. new[i] = list[i] /\ i \in 1..Len(list) /\ list[i].seq < job.seq
          BY <1>1, <1>2, <1>3, <3>2
        <4> QED BY <1>2, <1>4, <3>1, <4>1
      <3>3. CASE i = k
        BY <1>1, <1>4, <3>1, <3>3
      <3>4. CASE k < i
        <4>1. new[i] = list[i - 1] /\ i - 1 \in 1..Len(list) /\ i - 1 < j - 1
          BY <1>1, <1>2, <1>5, <3>4
        <4> QED BY <3>1, <4>1
      <3> QED BY <1>2, <3>2, <3>3, <3>4
    <2> QED BY <1>2, <2>1, <2>2, <2>3
  <1>6. ASSUME NEW i \in 1..Len(list) + 1
        PROVE  new[i] = job \/ \E j \in 1..Len(list) : new[i] = list[j]
    <2>1. CASE i < k
      BY <1>1, <1>2, <2>1
    <2>2. CASE i = k
      BY <1>1, <1>2, <2>2
    <2>3. CASE k < i
      <3>1. new[i] = list[i - 1] /\ i - 1 \in 1..Len(list)
        BY <1>1, <1>2, <2>3
      <3> QED BY <3>1
    <2> QED BY <1>2, <2>1, <2>2, <2>3
  <1> QED BY <1>5, <1>6 DEF new

LEMMA InsertJobKeepsIInv == ASSUME IInv, NEW w \in Workers, InsertJob(w) PROVE IInv'
  <1>1. PICK job \in Jobs : job = workerJob[w]
    BY DEF IInv, TypeOK
  <1>2. /\ workerPc[w] = "insert" /\ workerPc' = [workerPc EXCEPT ![w] = "getJob"]
        /\ workerJob' = [workerJob EXCEPT ![w] = NoJob]
        /\ writeList' = Insert(writeList, job) /\ writeFirst' = FirstSeq(writeList')
        /\ UNCHANGED <<mainPc, mainJob, sequence, cthreads, decodeHave, decodeList, inPool, outPool,
                       writerPc, seq, writerJob, delivered>>
    BY <1>1 DEF InsertJob, mainVars, poolVars, writerVars
  <1>3. /\ writeList \in Seq(Jobs) /\ Len(writeList) \in Nat
        /\ writeList' \in Seq(Jobs) /\ Len(writeList') = Len(writeList) + 1
    BY <1>2, InsertPosition DEF IInv, TypeOK
  <1>4. /\ w \in Busy /\ Taken(job.seq) /\ FinalOK(job)
        /\ job.more => job.out \in Spaces(outPool)
    <2>1. w \in Busy
      BY <1>2 DEF Busy
    <2>2. Taken(job.seq)
      BY <1>1, <2>1 DEF IInv, WorkersOK, Taken
    <2>3. FinalOK(job)
      BY <1>1, <2>1 DEF IInv, WorkersOK, FinalOK
    <2> QED BY <1>1, <1>2, <2>1, <2>2, <2>3 DEF IInv, WorkerSpacesOK
  <1>5. \A i \in 1..Len(writeList) : writeList[i].seq # job.seq
    BY <1>1, <1>4 DEF IInv, WriteListOK
  <1>6. /\ \A i, j \in 1..Len(writeList') : i < j => writeList'[i].seq < writeList'[j].seq
        /\ \A i \in 1..Len(writeList') :
              \/ writeList'[i] = job
              \/ \E j \in 1..Len(writeList) : writeList'[i] = writeList[j]
    <2>1. \A i, j \in 1..Len(writeList) : i < j => writeList[i].seq < writeList[j].seq
      BY DEF IInv, LocksDescribeLists
    <2>2. PICK list \in Seq(Jobs) : list = writeList
      BY <1>3
    <2>3. /\ \A i, j \in 1..Len(list) + 1 :
                i < j => Insert(list, job)[i].seq < Insert(list, job)[j].seq
          /\ \A i \in 1..Len(list) + 1 :
                \/ Insert(list, job)[i] = job
                \/ \E j \in 1..Len(list) : Insert(list, job)[i] = list[j]
      BY <1>5, <2>1, <2>2, InsertKeepsOrder
    <2> QED BY <1>2, <1>3, <2>2, <2>3
  <1>7. /\ Busy' = Busy \ {w}
        /\ \A v \in Busy' : workerPc'[v] = workerPc[v] /\ workerJob'[v] = workerJob[v]
    BY <1>2 DEF IInv, TypeOK, Busy
  <1>8. /\ workerPc' \in [Workers -> WorkerPcs] /\ workerJob' \in [Workers -> Jobs]
        /\ Bound' = Bound
    BY <1>2, NoJobIsAJob DEF IInv, TypeOK, WorkerPcs, Bound
  <1>9. /\ \A n : Taken(n) => Taken(n)'
        /\ \A j : FinalOK(j) => FinalOK(j)'
        /\ Spaces(inPool)' = Spaces(inPool) /\ Spaces(outPool)' = Spaces(outPool)
        /\ PoolsOK' /\ WriterOK' /\ ClientOK' /\ EndOK'
    BY <1>2, <1>8 DEF IInv, Taken, FinalOK, Spaces, Made, PoolsOK, WriterOK, ClientOK, EndOK, Sound
  <1>10. \A i \in 1..Len(writeList') :
            /\ Taken(writeList'[i].seq) /\ FinalOK(writeList'[i])
            /\ writeList'[i].more => writeList'[i].out \in Spaces(outPool)
            /\ \A v \in Busy' : writeList'[i].seq # workerJob'[v].seq
    <2>1. ASSUME NEW i \in 1..Len(writeList'), writeList'[i] = job
          PROVE  /\ Taken(writeList'[i].seq) /\ FinalOK(writeList'[i])
                 /\ writeList'[i].more => writeList'[i].out \in Spaces(outPool)
                 /\ \A v \in Busy' : writeList'[i].seq # workerJob'[v].seq
      <3>1. \A v \in Busy' : job.seq # workerJob'[v].seq
        BY <1>1, <1>4, <1>7 DEF IInv, WorkersOK
      <3> QED BY <1>4, <2>1, <3>1
    <2>2. ASSUME NEW i \in 1..Len(writeList'), NEW j \in 1..Len(writeList),
                 writeList'[i] = writeList[j]
          PROVE  /\ Taken(writeList'[i].seq) /\ FinalOK(writeList'[i])
                 /\ writeList'[i].more => writeList'[i].out \in Spaces(outPool)
                 /\ \A v \in Busy' : writeList'[i].seq # workerJob'[v].seq
      BY <1>7, <2>2 DEF IInv, WriteListOK
    <2> QED BY <1>6, <2>1, <2>2
  <1>11. WriteListOK'
    <2>1. ASSUME NEW i \in 1..Len(writeList') PROVE Taken(writeList[i].seq)' /\ FinalOK(writeList[i])'
      BY <1>2, <1>8, <1>10 DEF Taken, FinalOK
    <2> QED BY <1>9, <1>10, <2>1 DEF WriteListOK
  <1>12. WorkersOK'
    <2>1. ASSUME NEW v \in Busy' PROVE Taken(workerJob[v].seq)' /\ FinalOK(workerJob[v])'
      <3>1. Taken(workerJob[v].seq) /\ FinalOK(workerJob[v])
        BY <1>7 DEF IInv, WorkersOK
      <3> QED BY <1>2, <1>7, <1>8, <3>1 DEF Taken, FinalOK
    <2> QED BY <1>7, <2>1 DEF IInv, WorkersOK
  <1>13. WorkerSpacesOK' /\ DecodeListOK'
    BY <1>2, <1>7, <1>8, <1>9 DEF IInv, WorkerSpacesOK, DecodeListOK
  <1>14. writeFirst' \in Nat \cup {-1}
    BY <1>2, <1>3, <1>10 DEF FirstSeq, Taken
  <1>15. TypeOK'
    BY <1>2, <1>3, <1>8, <1>14 DEF IInv, TypeOK
  <1>16. LocksDescribeLists'
    BY <1>2, <1>6 DEF IInv, LocksDescribeLists, FirstSeq
  <1> QED BY <1>9, <1>11, <1>12, <1>13, <1>15, <1>16 DEF IInv

LEMMA TakeResultKeepsIInv == ASSUME IInv, TakeResult PROVE IInv'
  <1>1. PICK job : job = Head(writeList)
    OBVIOUS
  <1>2. /\ writerPc = "getJob" /\ writeFirst = seq
        /\ writerJob' = job /\ writeList' = Tail(writeList) /\ writeFirst' = FirstSeq(writeList')
        /\ writerPc' = IF job.more THEN "deliver" ELSE "verify"
        /\ seq' = seq + 1
        /\ UNCHANGED <<mainPc, mainJob, sequence, cthreads, decodeHave, decodeList, inPool, outPool,
                       workerPc, workerJob, delivered>>
    BY <1>1 DEF TakeResult, mainVars, poolVars, workerVars
  <1>3. writeList # <<>> /\ writeList \in Seq(Jobs) /\ Len(writeList) \in Nat \ {0}
    BY <1>2 DEF IInv, TypeOK, LocksDescribeLists, FirstSeq
  <1>4. /\ job = writeList[1] /\ job \in Jobs
        /\ writeList' \in Seq(Jobs) /\ Len(writeList') = Len(writeList) - 1
        /\ \A i \in 1..Len(writeList') : writeList'[i] = writeList[i + 1]
    BY <1>1, <1>2, <1>3
  <1>5. /\ Taken(job.seq) /\ FinalOK(job)
        /\ job.more => job.out \in Spaces(outPool)
        /\ \A v \in Busy : workerJob[v].seq # job.seq
    <2>1. 1 \in 1..Len(writeList)
      BY <1>3
    <2> QED BY <1>4, <2>1 DEF IInv, WriteListOK
  <1>6. ASSUME NEW i \in 1..Len(writeList')
        PROVE  /\ i + 1 \in 1..Len(writeList) /\ writeList'[i] = writeList[i + 1]
               /\ writeList'[i].seq # job.seq
    <2>1. i + 1 \in 1..Len(writeList) /\ 1 \in 1..Len(writeList) /\ 1 < i + 1
      BY <1>3, <1>4
    <2>2. writeList[1].seq < writeList[i + 1].seq
      BY <2>1 DEF IInv, LocksDescribeLists
    <2> QED BY <1>3, <1>4, <2>1, <2>2, JobSeq
  <1>7. /\ Busy' = Busy /\ Bound' = Bound /\ \A n : Taken(n) => Taken(n)'
        /\ Spaces(inPool)' = Spaces(inPool) /\ Spaces(outPool)' = Spaces(outPool)
        /\ PoolsOK' /\ ClientOK' /\ WorkerSpacesOK'
    BY <1>2 DEF IInv, Busy, Bound, Taken, Spaces, Made, PoolsOK, ClientOK, WorkerSpacesOK, Sound
  \* A last job that is taken was the only one.
  <1>8. ASSUME NEW j, FinalOK(j), j.seq # job.seq PROVE FinalOK(j)'
    <2>1. CASE job.more
      BY <1>2, <1>8, <2>1 DEF FinalOK, Ended
    <2>2. CASE ~job.more
      <3>1. job.seq = sequence - 1
        BY <1>5, <2>2 DEF FinalOK
      <3> QED BY <1>8, <3>1 DEF FinalOK
    <2> QED BY <2>1, <2>2
  <1>9. DecodeListOK'
    <2>1. ASSUME NEW i \in 1..Len(decodeList), decodeList[i].seq # -1
          PROVE  FinalOK(decodeList[i])'
      <3>1. PICK j : j = decodeList[i]
        OBVIOUS
      <3>2. FinalOK(j)
        BY <2>1, <3>1 DEF IInv, DecodeListOK, FinalOK
      <3>3. j.seq # job.seq
        BY <1>5, <2>1, <3>1 DEF Taken
      <3>4. FinalOK(j)'
        BY <1>8, <3>2, <3>3
      <3> QED BY <1>2, <3>1, <3>4 DEF FinalOK
    <2> QED BY <1>2, <1>7, <2>1 DEF IInv, DecodeListOK
  <1>10. WorkersOK'
    <2>1. ASSUME NEW v \in Busy PROVE Taken(workerJob[v].seq)' /\ FinalOK(workerJob[v])'
      <3>1. PICK j : j = workerJob[v]
        OBVIOUS
      <3>2. FinalOK(j) /\ Taken(j.seq) /\ j.seq # job.seq
        BY <1>5, <3>1 DEF IInv, WorkersOK, FinalOK, Taken
      <3>3. FinalOK(j)' /\ Taken(j.seq)'
        BY <1>7, <1>8, <3>2
      <3> QED BY <1>2, <3>1, <3>3 DEF FinalOK, Taken
    <2> QED BY <1>2, <1>7, <2>1 DEF IInv, WorkersOK
  <1>11. WriteListOK'
    <2>1. ASSUME NEW i \in 1..Len(writeList') PROVE Taken(writeList[i].seq)' /\ FinalOK(writeList[i])'
      <3>1. PICK j : j = writeList'[i]
        OBVIOUS
      <3>2. FinalOK(j) /\ Taken(j.seq) /\ j.seq # job.seq
        BY <1>6, <3>1 DEF IInv, WriteListOK, FinalOK, Taken
      <3>3. FinalOK(j)' /\ Taken(j.seq)'
        BY <1>7, <1>8, <3>2
      <3> QED BY <3>1, <3>3 DEF FinalOK, Taken
    <2> QED BY <1>2, <1>6, <1>7, <2>1 DEF IInv, WriteListOK
  <1>12. WriterOK' /\ EndOK'
    <2>1. WriterOK'
      BY <1>2, <1>5, <1>7 DEF WriterOK
    <2>2. ~job.more => mainPc = "joinWriter"
      BY <1>5 DEF FinalOK
    <2> QED BY <1>2, <2>1, <2>2 DEF IInv, EndOK
  <1>13. writeFirst' \in Nat \cup {-1}
    <2>1. CASE writeList' = <<>>
      BY <1>2, <2>1 DEF FirstSeq
    <2>2. CASE writeList' # <<>>
      <3>1. 1 \in 1..Len(writeList') /\ Head(writeList') = writeList'[1]
        BY <1>4, <2>2
      <3>2. writeList'[1].seq \in Nat
        BY <1>6, <3>1 DEF IInv, WriteListOK, Taken
      <3> QED BY <1>2, <2>2, <3>1, <3>2 DEF FirstSeq
    <2> QED BY <2>1, <2>2
  <1>14. TypeOK'
    BY <1>2, <1>4, <1>13 DEF IInv, TypeOK, WriterPcs
  <1>15. LocksDescribeLists'
    <2>1. ASSUME NEW i \in 1..Len(writeList'), NEW j \in 1..Len(writeList'), i < j
          PROVE  writeList'[i].seq < writeList'[j].seq
      <3>1. i + 1 < j + 1
        BY <1>4, <2>1
      <3>2. i + 1 \in DOMAIN writeList /\ j + 1 \in DOMAIN writeList
        BY <1>3, <1>6
      <3> QED BY <1>6, <3>1, <3>2 DEF IInv, LocksDescribeLists
    <2>2. DOMAIN writeList' = 1..Len(writeList')
      BY <1>4
    <2> QED BY <1>2, <2>1, <2>2 DEF IInv, LocksDescribeLists
  <1> QED BY <1>7, <1>9, <1>10, <1>11, <1>12, <1>14, <1>15 DEF IInv

LEMMA DeliverKeepsIInv == ASSUME IInv, Deliver PROVE IInv'
  <1>1. /\ writerPc = "deliver" /\ writerPc' = "dropOut"
        /\ delivered' = Append(delivered, [data |-> outPool.data[writerJob.out],
                                           err |-> writerJob.err])
        /\ UNCHANGED <<mainPc, mainJob, sequence, cthreads, decodeHave, decodeList, writeFirst,
                       writeList, inPool, outPool, workerPc, workerJob, seq, writerJob>>
    BY DEF Deliver, mainVars, poolVars, workerVars
  <1>2. [data |-> outPool.data[writerJob.out], err |-> writerJob.err]
            \in [data : Contents, err : BOOLEAN]
    <2>1. writerJob.out \in 1..Len(outPool.data) /\ outPool.data \in Seq(Contents)
      BY <1>1 DEF IInv, WriterOK, PoolsOK, Sound, Pools, Spaces, Made
    <2>2. outPool.data[writerJob.out] \in Contents
      BY <2>1
    <2>3. writerJob.err \in BOOLEAN
      BY DEF IInv, TypeOK, Jobs
    <2> QED BY <2>2, <2>3
  <1>3. delivered' \in Seq([data : Contents, err : BOOLEAN])
    BY <1>1, <1>2 DEF IInv, TypeOK
  <1>4. TypeOK' /\ Bound' = Bound /\ Bound \in Int
    BY <1>1, <1>3 DEF IInv, TypeOK, WriterPcs, Bound
  <1>5. /\ LocksDescribeLists' /\ PoolsOK' /\ WriterOK' /\ ClientOK' /\ EndOK' /\ WorkerSpacesOK'
        /\ \A job : FinalOK(job) => FinalOK(job)'
        /\ Busy' = Busy /\ Spaces(inPool)' = Spaces(inPool) /\ Spaces(outPool)' = Spaces(outPool)
    BY <1>1 DEF IInv, LocksDescribeLists, FirstSeq, PoolsOK, WriterOK, ClientOK, EndOK, FinalOK,
                Ended, WorkerSpacesOK, Busy, Sound, Spaces, Made
  <1> QED BY <1>1, <1>4, <1>5, ListsLeftAlone DEF IInv

LEMMA DropOutKeepsIInv == ASSUME IInv, DropOut PROVE IInv'
  <1>1. /\ writerPc = "dropOut" /\ writerPc' = "getJob" /\ writerJob' = NoJob
        /\ outPool' = AfterDrop(outPool, writerJob.out)
        /\ UNCHANGED <<mainPc, mainJob, sequence, cthreads, decodeHave, decodeList, writeFirst,
                       writeList, inPool, workerPc, workerJob, seq, delivered>>
    BY DEF DropOut, mainVars, workerVars
  <1>2. Sound(outPool)' /\ Spaces(outPool)' = Spaces(outPool)
    <2>1. Sound(outPool) /\ writerJob.out \in Spaces(outPool)
      BY <1>1 DEF IInv, PoolsOK, WriterOK
    <2>2. Sound(outPool') /\ Spaces(outPool') = Spaces(outPool)
      BY <1>1, <2>1, DropIsSound
    <2> QED BY <2>2 DEF Sound, Spaces, Made
  <1>3. TypeOK' /\ Bound' = Bound /\ Bound \in Int
    BY <1>1, <1>2, NoJobIsAJob DEF IInv, TypeOK, WriterPcs, Bound, Sound
  <1>4. /\ LocksDescribeLists' /\ PoolsOK' /\ WriterOK' /\ ClientOK' /\ EndOK'
        /\ \A job : FinalOK(job) => FinalOK(job)'
        /\ Busy' = Busy /\ Spaces(inPool)' = Spaces(inPool)
    BY <1>1, <1>2 DEF IInv, LocksDescribeLists, FirstSeq, PoolsOK, WriterOK, ClientOK, EndOK,
                      FinalOK, Ended, Busy, Sound, Spaces, Made
  <1>5. WorkerSpacesOK'
    BY <1>1, <1>2, <1>4 DEF IInv, WorkerSpacesOK
  <1> QED BY <1>1, <1>2, <1>3, <1>4, <1>5, ListsLeftAlone DEF IInv

LEMMA VerifyKeepsIInv == ASSUME IInv, VerifyDecodeList \/ VerifyWriteList PROVE IInv'
  <1>1. /\ UNCHANGED <<mainPc, mainJob, sequence, cthreads, decodeHave, decodeList, writeList, inPool,
                       outPool, workerPc, workerJob, seq, delivered>>
        /\ writerPc \in {"verify", "verifyWrite"}
        /\ writerPc' \in {"verifyWrite", "returned", "assertFailed"}
        /\ writerJob' \in {NoJob, writerJob}
        /\ writeFirst' = writeFirst \/ (writeList = <<>> /\ writeFirst' = -1)
        /\ writerPc' \in {"verifyWrite"} => decodeHave = 0 /\ writerPc = "verify"
        /\ writerPc' = "returned" => writerPc = "verifyWrite"
    BY DEF VerifyDecodeList, VerifyWriteList, mainVars, poolVars, workerVars
  <1>2. TypeOK' /\ Bound' = Bound /\ Bound \in Int
    BY <1>1, NoJobIsAJob DEF IInv, TypeOK, WriterPcs, Bound
  <1>3. LocksDescribeLists'
    BY <1>1 DEF IInv, LocksDescribeLists, FirstSeq
  <1>4. /\ PoolsOK' /\ WriterOK' /\ ClientOK' /\ WorkerSpacesOK'
        /\ Busy' = Busy /\ Spaces(inPool)' = Spaces(inPool) /\ Spaces(outPool)' = Spaces(outPool)
    BY <1>1 DEF IInv, PoolsOK, WriterOK, ClientOK, WorkerSpacesOK, Busy, Sound, Spaces, Made
  <1>5. EndOK' /\ \A job : FinalOK(job) => FinalOK(job)'
    BY <1>1 DEF IInv, EndOK, FinalOK, Ended
  <1> QED BY <1>1, <1>2, <1>3, <1>4, <1>5, ListsLeftAlone DEF IInv

LEMMA StutterKeepsIInv == ASSUME IInv, UNCHANGED vars PROVE IInv'
  <1>1. UNCHANGED <<mainPc, mainJob, sequence, cthreads, decodeHave, decodeList, writeFirst,
                    writeList, inPool, outPool, workerPc, workerJob, writerPc, seq, writerJob,
                    delivered>>
    BY DEF vars, mainVars, poolVars, workerVars, writerVars
  <1>2. TypeOK' /\ Bound' = Bound /\ Bound \in Int
    BY <1>1 DEF IInv, TypeOK, Bound
  <1>3. /\ LocksDescribeLists' /\ PoolsOK' /\ WriterOK' /\ ClientOK' /\ EndOK' /\ WorkerSpacesOK'
        /\ \A job : FinalOK(job) => FinalOK(job)'
        /\ Busy' = Busy /\ Spaces(inPool)' = Spaces(inPool) /\ Spaces(outPool)' = Spaces(outPool)
    BY <1>1 DEF IInv, LocksDescribeLists, FirstSeq, PoolsOK, WriterOK, ClientOK, EndOK, FinalOK,
                WorkerSpacesOK, Busy, Sound, Spaces, Made
  <1> QED BY <1>1, <1>2, <1>3, ListsLeftAlone DEF IInv

LEMMA StepKeepsIInv == IInv /\ [Next]_vars => IInv'
  <1> SUFFICES ASSUME IInv, [Next]_vars PROVE IInv'
    OBVIOUS
  <1>1. CASE Main
    BY <1>1, CreateKeepsIInv, ClientMovesKeepIInv, GetInKeepsIInv, LaunchKeepsIInv,
       EnqueueKeepsIInv, SendHomeKeepsIInv
    DEF Main, MainStep, ClientMoves
  <1>2. CASE \E w \in Workers : Worker(w)
    BY <1>2, TakeJobKeepsIInv, TakePoisonKeepsIInv, GetOutKeepsIInv, DecodeFrameKeepsIInv,
       InsertJobKeepsIInv
    DEF Worker
  <1>3. CASE Writer
    BY <1>3, TakeResultKeepsIInv, DeliverKeepsIInv, DropOutKeepsIInv, VerifyKeepsIInv DEF Writer
  <1>4. CASE UNCHANGED vars
    BY <1>4, StutterKeepsIInv
  <1> QED BY <1>1, <1>2, <1>3, <1>4 DEF Next

LEMMA InvariantHolds == Spec => []IInv
  <1> QED BY InitHolds, StepKeepsIInv, PTL DEF Spec

\* The variables of a decoder keep the types of their C declarations, with any
\* number of threads and frames.
THEOREM TypesHold == Spec => []TypeOK
  <1>1. IInv => TypeOK
    BY DEF IInv
  <1> QED BY <1>1, InvariantHolds, PTL

\* decode_have counts the decode list, write_first is the number at the front of
\* the write list, and that list is sorted, whichever threads take and insert jobs:
\* a thread that is let through finds the job that it waits for.
THEOREM LocksAlwaysDescribeLists == Spec => []LocksDescribeLists
  <1>1. IInv => LocksDescribeLists
    BY DEF IInv
  <1> QED BY <1>1, InvariantHolds, PTL
-----------------------------------------------------------------------------
(* Where the jobs and the buffers are: what holds beside IInv.             *)

\* Whoever is not busy with a job has none; of the jobs without a frame, and of
\* those that wait to be decoded, which buffers they have.
HandsOK ==
    /\ mainPc \notin {"getIn", "launch", "enqueue"} => mainJob = NoJob
    /\ mainJob.out = NoSpace
    /\ mainPc = "getIn" => mainJob.more /\ mainJob.in = NoSpace
    /\ ~mainJob.more => mainJob.in = NoSpace
    /\ \A w \in Workers :
          /\ w \notin Busy => workerJob[w] = NoJob
          /\ w > cthreads => w \notin Busy
          /\ w > cthreads /\ mainPc \notin {"freePools", "freeLocks", "none"} => workerPc[w] = "absent"
          /\ workerPc[w] \in {"getOut", "decode"} => workerJob[w].more
          /\ workerPc[w] = "getOut" => workerJob[w].out = NoSpace
          /\ ~workerJob[w].more => workerJob[w].in = NoSpace /\ workerJob[w].out = NoSpace
    /\ writerPc \notin {"deliver", "dropOut", "verify"} => writerJob = NoJob
    /\ ~writerJob.more => writerJob.in = NoSpace /\ writerJob.out = NoSpace
    /\ writerPc \in {"deliver", "dropOut"} => writerJob.more
    /\ writerPc = "verify" => ~writerJob.more

ListedOK ==
    /\ \A job \in ToSet(decodeList) :
          /\ job.out = NoSpace /\ (~job.more => job.in = NoSpace)
          /\ job.seq = -1 => job = Poison /\ mainPc \in {"pause", "freePools", "freeLocks", "none"}
    /\ \A job \in ToSet(writeList) : ~job.more => job.in = NoSpace /\ job.out = NoSpace

\* The job with number n is on its way to the write thread.
Waits(n) == \/ mainJob.seq = n
            \/ \E job \in ToSet(decodeList) : job.seq = n
            \/ \E w \in Workers : workerJob[w].seq = n
            \/ \E job \in ToSet(writeList) : job.seq = n

\* The write thread has taken the jobs before seq, and the others wait.
NumbersOK ==
    /\ seq <= sequence
    /\ \A n \in Nat : n < seq => ~Waits(n)
    /\ \A n \in Nat : seq <= n /\ n < sequence => Waits(n)
    /\ writerPc \in {"deliver", "dropOut", "verify"} => seq > 0 /\ writerJob.seq = seq - 1
    /\ writerPc \in Ended => seq = sequence

\* The job with number n has input buffer s for its frame, output buffer s for its
\* samples.
HasIn(n, s) ==
    \/ mainJob.seq = n /\ mainJob.in = s
    \/ \E job \in ToSet(decodeList) : job.seq = n /\ job.in = s
    \/ \E w \in Workers : /\ workerPc[w] \in {"getOut", "decode"}
                          /\ workerJob[w].seq = n /\ workerJob[w].in = s
HasOut(n, s) ==
    \/ \E w \in Workers : /\ workerPc[w] \in {"decode", "insert"}
                          /\ workerJob[w].seq = n /\ workerJob[w].out = s
    \/ \E job \in ToSet(writeList) : job.seq = n /\ job.out = s
    \/ writerJob.seq = n /\ writerJob.out = s

InBuffersOK ==
    /\ \A s \in Spaces(inPool) : s \in inPool.free <=> \A n \in Nat : ~HasIn(n, s)
    /\ \A s \in Spaces(inPool) : \A m, n \in Nat : HasIn(m, s) /\ HasIn(n, s) => m = n
    /\ inPool.limit \in Nat /\ Made(inPool) + inPool.limit = InLimit

OutBuffersOK ==
    /\ \A s \in Spaces(outPool) : s \in outPool.free <=> \A n \in Nat : ~HasOut(n, s)
    /\ \A s \in Spaces(outPool) : \A m, n \in Nat : HasOut(m, s) /\ HasOut(n, s) => m = n

AfterwardsOK ==
    /\ mainPc \in {"poison", "pause", "freePools", "freeLocks"} => writerPc = "returned"
    /\ mainPc # "assertFailed" /\ writerPc # "assertFailed"

JobsOK == /\ HandsOK /\ ListedOK /\ NumbersOK /\ InBuffersOK /\ OutBuffersOK /\ AfterwardsOK

-----------------------------------------------------------------------------
(* The jobs and the buffers in lists and pools.                            *)

LEMMA SetOfAppended ==
    ASSUME NEW list \in Seq(Jobs), NEW job \in Jobs
    PROVE  ToSet(Append(list, job)) = ToSet(list) \cup {job}
  <1>1. /\ Len(list) \in Nat /\ DOMAIN list = 1..Len(list)
        /\ DOMAIN Append(list, job) = 1..Len(list) + 1
        /\ \A i \in 1..Len(list) : Append(list, job)[i] = list[i]
        /\ Append(list, job)[Len(list) + 1] = job
    BY LenProperties, AppendProperties
  <1>2. ASSUME NEW x \in ToSet(Append(list, job)) PROVE x \in ToSet(list) \cup {job}
    <2>1. PICK i \in 1..Len(list) + 1 : x = Append(list, job)[i]
      BY <1>1 DEF ToSet
    <2> QED BY <1>1, <2>1 DEF ToSet
  <1>3. ASSUME NEW x \in ToSet(list) \cup {job} PROVE x \in ToSet(Append(list, job))
    BY <1>1 DEF ToSet
  <1> QED BY <1>2, <1>3

LEMMA SetOfTail ==
    ASSUME NEW list \in Seq(Jobs), list # <<>>
    PROVE  /\ Head(list) \in Jobs /\ Tail(list) \in Seq(Jobs)
           /\ ToSet(list) = {Head(list)} \cup ToSet(Tail(list))
  <1>1. /\ Len(list) \in Nat \ {0} /\ DOMAIN list = 1..Len(list) /\ Head(list) = list[1]
        /\ Head(list) \in Jobs /\ Tail(list) \in Seq(Jobs) /\ DOMAIN Tail(list) = 1..Len(list) - 1
        /\ \A i \in 1..Len(list) - 1 : Tail(list)[i] = list[i + 1]
    BY EmptySeq, LenProperties, HeadTailProperties
  <1>2. ASSUME NEW x \in ToSet(list) PROVE x \in {Head(list)} \cup ToSet(Tail(list))
    <2>1. PICK i \in 1..Len(list) : x = list[i]
      BY <1>1 DEF ToSet
    <2>2. CASE i = 1
      BY <1>1, <2>1, <2>2
    <2>3. CASE i # 1
      <3>1. i - 1 \in 1..Len(list) - 1 /\ Tail(list)[i - 1] = list[i]
        BY <1>1, <2>3
      <3> QED BY <1>1, <2>1, <3>1 DEF ToSet
    <2> QED BY <2>2, <2>3
  <1>3. ASSUME NEW x \in {Head(list)} \cup ToSet(Tail(list)) PROVE x \in ToSet(list)
    <2>1. CASE x = Head(list)
      BY <1>1, <2>1 DEF ToSet
    <2>2. CASE x \in ToSet(Tail(list))
      <3>1. PICK i \in 1..Len(list) - 1 : x = Tail(list)[i]
        BY <1>1, <2>2 DEF ToSet
      <3>2. i + 1 \in 1..Len(list) /\ x = list[i + 1]
        BY <1>1, <3>1
      <3> QED BY <1>1, <3>2 DEF ToSet
    <2> QED BY <2>1, <2>2
  <1> QED BY <1>1, <1>2, <1>3

LEMMA SetOfInserted ==
    ASSUME NEW list \in Seq(Jobs), NEW job \in Jobs
    PROVE  ToSet(Insert(list, job)) = ToSet(list) \cup {job}
  <1> DEFINE new == Insert(list, job)
  <1>1. PICK k \in 1..Len(list) + 1 : \A i \in 1..Len(list) + 1 :
           new[i] = IF i < k THEN list[i] ELSE IF i = k THEN job ELSE list[i - 1]
    BY InsertPosition
  <1>2. /\ Len(list) \in Nat /\ DOMAIN list = 1..Len(list) /\ DOMAIN new = 1..Len(list) + 1
    BY InsertPosition, LenProperties
  <1> HIDE DEF new
  <1>3. ASSUME NEW x \in ToSet(new) PROVE x \in ToSet(list) \cup {job}
    <2>1. PICK i \in 1..Len(list) + 1 : x = new[i]
      BY <1>2 DEF ToSet
    <2>2. CASE i < k
      BY <1>1, <1>2, <2>1, <2>2 DEF ToSet
    <2>3. CASE i = k
      BY <1>1, <1>2, <2>1, <2>3
    <2>4. CASE i > k
      <3>1. i - 1 \in 1..Len(list) /\ x = list[i - 1]
        BY <1>1, <1>2, <2>1, <2>4
      <3> QED BY <1>2, <3>1 DEF ToSet
    <2> QED BY <1>2, <2>2, <2>3, <2>4
  <1>4. ASSUME NEW x \in ToSet(list) PROVE x \in ToSet(new)
    <2>1. PICK i \in 1..Len(list) : x = list[i]
      BY <1>2 DEF ToSet
    <2>2. CASE i < k
      BY <1>1, <1>2, <2>1, <2>2 DEF ToSet
    <2>3. CASE i >= k
      <3>1. i + 1 \in 1..Len(list) + 1 /\ x = new[i + 1]
        <4>1. i + 1 \in 1..Len(list) + 1 /\ i + 1 > k /\ (i + 1) - 1 = i
          BY <1>2, <2>3
        <4> QED BY <1>1, <2>1, <4>1
      <3> QED BY <1>2, <3>1 DEF ToSet
    <2> QED BY <1>2, <2>2, <2>3
  <1>5. job \in ToSet(new)
    BY <1>1, <1>2 DEF ToSet
  <1> QED BY <1>3, <1>4, <1>5 DEF new

\* What IInv says of the jobs on the lists.
LEMMA ListedJobs ==
    ASSUME IInv
    PROVE  /\ \A job \in ToSet(decodeList) :
                 /\ job \in Jobs /\ job.seq \in Nat \cup {-1} /\ job.seq < Bound
                 /\ job.more => job.in \in Spaces(inPool)
           /\ \A job \in ToSet(writeList) :
                 /\ job \in Jobs /\ Taken(job.seq) /\ FinalOK(job)
                 /\ job.more => job.out \in Spaces(outPool)
                 /\ \A w \in Busy : job.seq # workerJob[w].seq
           /\ Bound \in Int
  <1>1. /\ decodeList \in Seq(Jobs) /\ DOMAIN decodeList = 1..Len(decodeList)
        /\ writeList \in Seq(Jobs) /\ DOMAIN writeList = 1..Len(writeList)
    BY LenProperties DEF IInv, TypeOK
  <1>2. ASSUME NEW job \in ToSet(decodeList)
        PROVE  /\ job \in Jobs /\ job.seq \in Nat \cup {-1} /\ job.seq < Bound
               /\ job.more => job.in \in Spaces(inPool)
    <2>1. PICK i \in 1..Len(decodeList) : job = decodeList[i]
      BY <1>1 DEF ToSet
    <2> QED BY <1>1, <2>1, ElementOfSeq DEF IInv, DecodeListOK
  <1>3. ASSUME NEW job \in ToSet(writeList)
        PROVE  /\ job \in Jobs /\ Taken(job.seq) /\ FinalOK(job)
               /\ job.more => job.out \in Spaces(outPool)
               /\ \A w \in Busy : job.seq # workerJob[w].seq
    <2>1. PICK i \in 1..Len(writeList) : job = writeList[i]
      BY <1>1 DEF ToSet
    <2> QED BY <1>1, <2>1, ElementOfSeq DEF IInv, WriteListOK
  <1>4. Bound \in Int
    BY DEF IInv, TypeOK, Bound
  <1> QED BY <1>2, <1>3, <1>4

\* A number that was taken is not on the decode list.
LEMMA TakenIsOffTheList ==
    ASSUME IInv, NEW n, Taken(n)
    PROVE  n \in Nat /\ n < Bound /\ \A job \in ToSet(decodeList) : job.seq # n
  <1>1. DOMAIN decodeList = 1..Len(decodeList)
    BY LenProperties DEF IInv, TypeOK
  <1> QED BY <1>1 DEF Taken, ToSet

\* No two holders have jobs with one number.
LEMMA NumbersApart ==
    ASSUME IInv, HandsOK
    PROVE  /\ \A w \in Busy :
                 /\ workerJob[w].seq \in Nat /\ workerJob[w].seq < Bound
                 /\ mainJob.seq # workerJob[w].seq
                 /\ \A job \in ToSet(decodeList) : job.seq # workerJob[w].seq
                 /\ \A job \in ToSet(writeList) : job.seq # workerJob[w].seq
                 /\ \A v \in Busy : v # w => workerJob[v].seq # workerJob[w].seq
           /\ \A job \in ToSet(writeList) :
                 /\ job.seq \in Nat /\ job.seq < Bound /\ mainJob.seq # job.seq
                 /\ \A other \in ToSet(decodeList) : other.seq # job.seq
  <1>1. mainJob.seq = -2 \/ mainJob.seq = Bound
    BY DEF IInv, TypeOK, HandsOK, ClientOK, Bound, NoJob
  <1>2. \A w \in Busy : Taken(workerJob[w].seq)
    BY DEF IInv, WorkersOK
  <1>3. Bound \in Int /\ \A n \in Nat : n < Bound => n # -2 /\ n # Bound
    BY ListedJobs
  <1>4. ASSUME NEW n, Taken(n) PROVE n \in Nat /\ n < Bound /\ mainJob.seq # n
    BY <1>1, <1>3, <1>4, TakenIsOffTheList
  <1>5. ASSUME NEW w \in Busy
        PROVE  /\ workerJob[w].seq \in Nat /\ workerJob[w].seq < Bound
               /\ mainJob.seq # workerJob[w].seq
               /\ \A job \in ToSet(decodeList) : job.seq # workerJob[w].seq
               /\ \A job \in ToSet(writeList) : job.seq # workerJob[w].seq
               /\ \A v \in Busy : v # w => workerJob[v].seq # workerJob[w].seq
    <2>1. \A v \in Busy : v # w => workerJob[v].seq # workerJob[w].seq
      BY DEF IInv, WorkersOK
    <2> QED BY <1>2, <1>4, <2>1, ListedJobs, TakenIsOffTheList
  <1>6. ASSUME NEW job \in ToSet(writeList)
        PROVE  /\ job.seq \in Nat /\ job.seq < Bound /\ mainJob.seq # job.seq
               /\ \A other \in ToSet(decodeList) : other.seq # job.seq
    <2>1. Taken(job.seq)
      BY ListedJobs
    <2> QED BY <1>4, <2>1, TakenIsOffTheList
  <1> QED BY <1>5, <1>6

\* Buffers are spaces of the pools.
LEMMA BuffersAreSpaces ==
    ASSUME IInv, HandsOK, ListedOK
    PROVE  /\ \A n \in Nat : \A s : HasIn(n, s) => s = NoSpace \/ s \in Spaces(inPool)
           /\ \A n \in Nat : \A s : HasOut(n, s) => s = NoSpace \/ s \in Spaces(outPool)
  <1>1. mainJob.in = NoSpace \/ mainJob.in \in Spaces(inPool)
    BY DEF IInv, ClientOK, HandsOK, NoJob
  <1>2. \A job \in ToSet(decodeList) : job.in = NoSpace \/ job.in \in Spaces(inPool)
    BY ListedJobs DEF ListedOK
  <1>3. \A w \in Workers : workerPc[w] \in {"getOut", "decode"} => workerJob[w].in \in Spaces(inPool)
    BY DEF IInv, WorkerSpacesOK, Busy
  <1>4. \A w \in Workers : workerPc[w] \in {"decode", "insert"} =>
            workerJob[w].out = NoSpace \/ workerJob[w].out \in Spaces(outPool)
    BY DEF IInv, WorkerSpacesOK, Busy, HandsOK
  <1>5. \A job \in ToSet(writeList) : job.out = NoSpace \/ job.out \in Spaces(outPool)
    BY ListedJobs DEF ListedOK
  <1>6. writerJob.out = NoSpace \/ writerJob.out \in Spaces(outPool)
    BY DEF IInv, WriterOK, HandsOK, NoJob
  <1> QED BY <1>1, <1>2, <1>3, <1>4, <1>5, <1>6 DEF HasIn, HasOut

\* Once the write thread has taken the last job nobody has one that is numbered.
LEMMA AllDone ==
    ASSUME IInv, JobsOK, writerPc \in Ended, mainPc \notin {"launch", "enqueue", "getIn"}
    PROVE  /\ Busy = {} /\ writeList = <<>> /\ \A job \in ToSet(decodeList) : job.seq = -1
           /\ mainJob = NoJob
  <1>1. sequence = seq /\ Bound = sequence /\ mainJob = NoJob /\ \A n \in Nat : n < sequence => ~Waits(n)
    BY DEF JobsOK, NumbersOK, HandsOK, Bound
  <1>2. Busy = {}
    <2> SUFFICES ASSUME NEW w \in Busy PROVE FALSE
      OBVIOUS
    <2>1. workerJob[w].seq \in Nat /\ workerJob[w].seq < sequence /\ w \in Workers
      BY <1>1, NumbersApart DEF JobsOK, Busy
    <2> QED BY <1>1, <2>1 DEF Waits
  <1>3. ToSet(writeList) = {}
    <2> SUFFICES ASSUME NEW job \in ToSet(writeList) PROVE FALSE
      OBVIOUS
    <2>1. job.seq \in Nat /\ job.seq < sequence
      BY <1>1, NumbersApart DEF JobsOK
    <2> QED BY <1>1, <2>1 DEF Waits
  <1>4. writeList = <<>>
    BY <1>3, SetOfTail DEF IInv, TypeOK
  <1>5. ASSUME NEW job \in ToSet(decodeList) PROVE job.seq = -1
    <2>1. job.seq \in Nat \cup {-1} /\ job.seq < sequence
      BY <1>1, ListedJobs
    <2> QED BY <1>1, <2>1 DEF Waits
  <1> QED BY <1>1, <1>2, <1>4, <1>5

-----------------------------------------------------------------------------
(* The steps, once more.                                                   *)

LEMMA NumbersStay ==
    ASSUME NumbersOK, UNCHANGED <<seq, sequence, writerPc, writerJob>>,
           \A n \in Nat : Waits(n)' <=> Waits(n)
    PROVE  NumbersOK'
  BY DEF NumbersOK

LEMMA InBuffersStay ==
    ASSUME InBuffersOK, UNCHANGED inPool,
           \A n \in Nat, s \in Spaces(inPool) : HasIn(n, s)' <=> HasIn(n, s)
    PROVE  InBuffersOK'
  BY DEF InBuffersOK, Spaces, Made

LEMMA OutBuffersStay ==
    ASSUME OutBuffersOK, outPool'.free = outPool.free, Spaces(outPool)' = Spaces(outPool),
           \A n \in Nat, s \in Spaces(outPool) : HasOut(n, s)' <=> HasOut(n, s)
    PROVE  OutBuffersOK'
  BY DEF OutBuffersOK

\* Spaces have numbers.
LEMMA SpacesAreNumbers ==
    ASSUME IInv
    PROVE  /\ \A s \in Spaces(inPool) \cup Spaces(outPool) : s \in Nat /\ s # NoSpace
           /\ Made(inPool) \in Nat /\ Made(outPool) \in Nat
  BY DEF IInv, PoolsOK, Sound, Pools, Spaces, Made, NoSpace

LEMMA CreateKeepsJobs == ASSUME Create PROVE JobsOK'
  <1>1. /\ mainPc' = "idle" /\ mainJob' = NoJob /\ sequence' = 0 /\ cthreads' = 0
        /\ decodeList' = <<>> /\ writeList' = <<>>
        /\ inPool' = EmptyPool(InLimit) /\ outPool' = EmptyPool(NoLimit)
        /\ workerPc' = [w \in Workers |-> "absent"] /\ workerJob' = [w \in Workers |-> NoJob]
        /\ writerPc' = "getJob" /\ seq' = 0 /\ writerJob' = NoJob
    BY DEF Create
  <1>2. NoJob.seq = -2 /\ NoJob.in = NoSpace /\ NoJob.out = NoSpace /\ ~NoJob.more
    BY DEF NoJob
  <1>3. ToSet(decodeList') = {} /\ ToSet(writeList') = {}
    BY <1>1 DEF ToSet
  <1>4. /\ Spaces(inPool)' = {} /\ Spaces(outPool)' = {} /\ Made(inPool') = 0
        /\ inPool'.free = {} /\ outPool'.free = {} /\ inPool'.limit = InLimit
    BY <1>1 DEF Spaces, Made, EmptyPool
  <1>5. HandsOK'
    BY <1>1, <1>2 DEF HandsOK, Busy
  <1>6. ListedOK' /\ AfterwardsOK'
    BY <1>1, <1>3 DEF ListedOK, AfterwardsOK
  <1>7. NumbersOK'
    BY <1>1, <1>2, <1>3 DEF NumbersOK, Waits, Ended
  <1>8. InBuffersOK' /\ OutBuffersOK'
    BY <1>4, LimitAssumption DEF InBuffersOK, OutBuffersOK, Made
  <1> QED BY <1>5, <1>6, <1>7, <1>8 DEF JobsOK

LEMMA InitJobs == Init => JobsOK
  <1> SUFFICES ASSUME Init PROVE JobsOK
    OBVIOUS
  <1>1. /\ mainPc = "none" /\ mainJob = NoJob /\ sequence = 0 /\ cthreads = 0
        /\ decodeList = <<>> /\ writeList = <<>>
        /\ inPool = EmptyPool(InLimit) /\ outPool = EmptyPool(NoLimit)
        /\ workerPc = [w \in Workers |-> "absent"] /\ workerJob = [w \in Workers |-> NoJob]
        /\ writerPc = "absent" /\ seq = 0 /\ writerJob = NoJob
    BY DEF Init
  <1>2. NoJob.seq = -2 /\ NoJob.in = NoSpace /\ NoJob.out = NoSpace /\ ~NoJob.more
    BY DEF NoJob
  <1>3. ToSet(decodeList) = {} /\ ToSet(writeList) = {}
    BY <1>1 DEF ToSet
  <1>4. /\ Spaces(inPool) = {} /\ Spaces(outPool) = {} /\ Made(inPool) = 0
        /\ inPool.free = {} /\ outPool.free = {} /\ inPool.limit = InLimit
    BY <1>1 DEF Spaces, Made, EmptyPool
  <1>5. HandsOK
    BY <1>1, <1>2 DEF HandsOK, Busy
  <1>6. ListedOK /\ AfterwardsOK
    BY <1>1, <1>3 DEF ListedOK, AfterwardsOK
  <1>7. NumbersOK
    BY <1>1, <1>2, <1>3 DEF NumbersOK, Waits, Ended
  <1>8. InBuffersOK /\ OutBuffersOK
    BY <1>4, LimitAssumption DEF InBuffersOK, OutBuffersOK, Made
  <1> QED BY <1>5, <1>6, <1>7, <1>8 DEF JobsOK

\* Both calls make a job with the next number.
LEMMA CallsKeepJobs == ASSUME IInv, JobsOK, CallDecode \/ CallDestroy PROVE JobsOK'
  <1> USE DEF JobsOK
  <1>1. /\ mainPc = "idle" /\ mainJob = NoJob
        /\ \/ mainPc' = "getIn" /\ sequence' = sequence /\ mainJob'.more
           \/ mainPc' = "launch" /\ sequence' = sequence + 1 /\ ~mainJob'.more
        /\ mainJob'.seq = sequence /\ mainJob'.in = NoSpace /\ mainJob'.out = NoSpace
        /\ UNCHANGED <<cthreads, decodeList, writeList, inPool, outPool, workerPc, workerJob,
                       writerPc, seq, writerJob>>
    <2>1. mainPc = "idle" /\ mainJob = NoJob
      BY DEF CallDecode, CallDestroy, HandsOK
    <2>2. CASE CallDecode
      BY <2>1, <2>2 DEF CallDecode, NoJob, poolVars, workerVars, writerVars
    <2>3. CASE CallDestroy
      BY <2>1, <2>3 DEF CallDestroy, NoJob, poolVars, workerVars, writerVars
    <2> QED BY <2>1, <2>2, <2>3
  <1>2. NoJob.seq = -2 /\ NoJob.in = NoSpace /\ sequence \in Nat /\ seq \in Nat
    BY DEF NoJob, IInv, TypeOK
  <1>3. HandsOK' /\ ListedOK' /\ AfterwardsOK'
    BY <1>1 DEF HandsOK, ListedOK, AfterwardsOK, Busy
  <1>4. \A n \in Nat : Waits(n)' <=> Waits(n) \/ n = sequence
    BY <1>1, <1>2 DEF Waits
  <1>5. writerPc \notin Ended
    BY <1>1 DEF IInv, EndOK, Ended
  <1>6. NumbersOK'
    BY <1>1, <1>2, <1>4, <1>5 DEF NumbersOK
  <1>7. InBuffersOK'
    <2>1. \A n \in Nat, s \in Spaces(inPool) : HasIn(n, s)' <=> HasIn(n, s)
      BY <1>1, <1>2, SpacesAreNumbers DEF HasIn
    <2> QED BY <1>1, <2>1, InBuffersStay
  <1>8. OutBuffersOK'
    <2>1. \A n \in Nat, s \in Spaces(outPool) : HasOut(n, s)' <=> HasOut(n, s)
      BY <1>1 DEF HasOut
    <2> QED BY <1>1, <2>1, OutBuffersStay DEF Spaces, Made
  <1> QED BY <1>3, <1>6, <1>7, <1>8

\* What the pool that a space was got from says of its free spaces.
LEMMA GotFree ==
    ASSUME NEW pool, Sound(pool), NEW space \in Available(pool)
    PROVE  /\ AfterGet(pool, space).free = pool.free \ {space}
           /\ \/ space \in pool.free /\ Made(AfterGet(pool, space)) = Made(pool)
                 /\ AfterGet(pool, space).limit = pool.limit
              \/ space = Made(pool) + 1 /\ Made(AfterGet(pool, space)) = Made(pool) + 1
                 /\ pool.free = {} /\ pool.limit # 0
                 /\ AfterGet(pool, space).limit = IF pool.limit > 0 THEN pool.limit - 1 ELSE pool.limit
  <1>1. /\ pool \in Pools /\ Made(pool) \in Nat /\ pool.free \subseteq 1..Made(pool)
        /\ pool.data \in Seq(Contents)
    BY DEF Sound, Pools, Spaces, Made
  <1>2. CASE space \in pool.free
    BY <1>1, <1>2 DEF AfterGet, Pools, Made
  <1>3. CASE space \notin pool.free
    <2>1. space = Made(pool) + 1 /\ pool.limit # 0 /\ pool.free = {}
      BY <1>3 DEF Available
    <2> DEFINE limit == IF pool.limit > 0 THEN pool.limit - 1 ELSE pool.limit
               data == Append(pool.data, Garbage)
    <2>3. Len(data) = Made(pool) + 1
      BY <1>1 DEF Contents, Made
    <2>4. AfterGet(pool, space) = [pool EXCEPT !.limit = limit, !.data = data]
      BY <1>3 DEF AfterGet
    <2> HIDE DEF limit, data
    <2>5. /\ AfterGet(pool, space).free = {} /\ AfterGet(pool, space).data = data
          /\ AfterGet(pool, space).limit = limit
      BY <1>1, <2>1, <2>4 DEF Pools
    <2> QED BY <2>1, <2>3, <2>5 DEF Made, limit
  <1> QED BY <1>2, <1>3

LEMMA FilledFree ==
    ASSUME NEW pool, Sound(pool), NEW space \in Spaces(pool), NEW content \in Contents
    PROVE  /\ Fill(pool, space, content).free = pool.free
           /\ Fill(pool, space, content).limit = pool.limit
           /\ Made(Fill(pool, space, content)) = Made(pool)
           /\ AfterDrop(pool, space).free = pool.free \cup {space}
           /\ AfterDrop(pool, space).limit = pool.limit
           /\ Made(AfterDrop(pool, space)) = Made(pool)
  <1>1. /\ pool \in Pools /\ Len(pool.data) \in Nat /\ space \in 1..Len(pool.data)
        /\ pool.data \in Seq(Contents)
    BY DEF Sound, Pools, Spaces, Made
  <1>2. \A c \in Contents : Len([pool.data EXCEPT ![space] = c]) = Len(pool.data)
    BY <1>1
  <1>3. Garbage \in Contents
    BY DEF Contents
  <1>4. /\ Fill(pool, space, content).free = pool.free
        /\ Fill(pool, space, content).limit = pool.limit
        /\ Fill(pool, space, content).data = [pool.data EXCEPT ![space] = content]
    BY <1>1 DEF Fill, Pools
  <1>5. /\ AfterDrop(pool, space).free = pool.free \cup {space}
        /\ AfterDrop(pool, space).limit = pool.limit
        /\ AfterDrop(pool, space).data = [pool.data EXCEPT ![space] = Garbage]
    BY <1>1 DEF AfterDrop, Pools
  <1> QED BY <1>2, <1>3, <1>4, <1>5 DEF Made

LEMMA GetInKeepsJobs == ASSUME IInv, JobsOK, GetIn PROVE JobsOK'
  <1> USE DEF JobsOK
  <1>1. PICK space \in Available(inPool) :
           /\ mainJob' = [mainJob EXCEPT !.in = space]
           /\ inPool' = Fill(AfterGet(inPool, space), space, sequence)
    BY DEF GetIn
  <1>2. /\ mainPc = "getIn" /\ mainPc' = "launch" /\ sequence' = sequence + 1
        /\ UNCHANGED <<cthreads, decodeList, writeList, outPool, workerPc, workerJob, writerPc, seq, writerJob>>
    BY DEF GetIn, workerVars, writerVars
  <1>3. /\ Sound(AfterGet(inPool, space)) /\ space \in Nat /\ space \in Spaces(AfterGet(inPool, space))
        /\ sequence \in Contents /\ sequence \in Nat /\ seq \in Nat /\ mainJob \in Jobs
        /\ mainJob.seq = sequence /\ mainJob.in = NoSpace /\ mainJob.more /\ Sound(inPool)
    BY <1>2, GetIsSound DEF IInv, PoolsOK, TypeOK, Contents, ClientOK, HandsOK
  <1>4. /\ inPool'.free = inPool.free \ {space}
        /\ \/ space \in inPool.free /\ Made(inPool') = Made(inPool) /\ inPool'.limit = inPool.limit
           \/ /\ space = Made(inPool) + 1 /\ Made(inPool') = Made(inPool) + 1
              /\ inPool.free = {} /\ inPool.limit # 0
              /\ inPool'.limit = IF inPool.limit > 0 THEN inPool.limit - 1 ELSE inPool.limit
    BY <1>1, <1>3, GotFree, FilledFree
  <1>5. /\ mainJob'.seq = sequence /\ mainJob'.in = space /\ mainJob'.out = NoSpace /\ mainJob'.more
    BY <1>1, <1>3, ChangedJob DEF HandsOK, Jobs
  <1>6. HandsOK' /\ ListedOK' /\ AfterwardsOK'
    BY <1>2, <1>5 DEF HandsOK, ListedOK, AfterwardsOK, Busy
  <1>7. \A n \in Nat : Waits(n)' <=> Waits(n)
    BY <1>2, <1>3, <1>5 DEF Waits
  <1>8. writerPc \notin Ended
    BY <1>2 DEF IInv, EndOK, Ended
  <1>9. NumbersOK'
    <2>1. Waits(sequence)
      BY <1>3 DEF Waits
    <2> QED BY <1>2, <1>3, <1>7, <1>8, <2>1 DEF NumbersOK
  <1>10. /\ Made(inPool) \in Nat /\ Made(inPool)' \in Nat /\ inPool.free \subseteq Spaces(inPool)
         /\ space # NoSpace /\ space \in Spaces(inPool)' /\ Spaces(inPool) \subseteq Spaces(inPool)'
         /\ Spaces(inPool)' \subseteq Spaces(inPool) \cup {space}
    BY <1>3, <1>4, SpacesAreNumbers DEF Spaces, Sound, Made, NoSpace
  <1>11. \A n \in Nat, s \in Spaces(inPool)' : HasIn(n, s)' <=> HasIn(n, s) \/ (n = sequence /\ s = space)
    BY <1>2, <1>3, <1>5, <1>10, SpacesAreNumbers DEF HasIn, Spaces, NoSpace
  <1>12. \A n \in Nat : ~HasIn(n, space)
    <2>1. CASE space \in inPool.free
      BY <2>1, <1>10 DEF InBuffersOK
    <2>2. CASE space = Made(inPool) + 1
      <3>1. space \notin Spaces(inPool)
        BY <2>2, <1>10 DEF Spaces
      <3> QED BY <3>1, <1>10, BuffersAreSpaces
    <2> QED BY <1>4, <2>1, <2>2
  <1>13. InBuffersOK'
    <2>1. ASSUME NEW s \in Spaces(inPool)' PROVE s \in inPool'.free <=> \A n \in Nat : ~HasIn(n, s)'
      <3>1. CASE s = space
        BY <3>1, <1>3, <1>4, <1>11, <1>10
      <3>2. CASE s # space
        BY <3>2, <1>4, <1>10, <1>11, <2>1 DEF InBuffersOK
      <3> QED BY <3>1, <3>2
    <2>2. ASSUME NEW s \in Spaces(inPool)', NEW m \in Nat, NEW n \in Nat, HasIn(m, s)', HasIn(n, s)'
          PROVE  m = n
      <3>1. CASE s = space
        BY <3>1, <2>2, <1>11, <1>12, <1>10
      <3>2. CASE s # space
        BY <3>2, <2>2, <1>10, <1>11 DEF InBuffersOK
      <3> QED BY <3>1, <3>2
    <2>3. inPool'.limit \in Nat /\ Made(inPool)' + inPool'.limit = InLimit
      BY <1>4, <1>10 DEF InBuffersOK, Made
    <2> QED BY <2>1, <2>2, <2>3 DEF InBuffersOK, Made
  <1>14. OutBuffersOK'
    <2>1. \A n \in Nat, s \in Spaces(outPool) : HasOut(n, s)' <=> HasOut(n, s)
      BY <1>2 DEF HasOut
    <2> QED BY <1>2, <2>1, OutBuffersStay DEF Spaces, Made
  <1> QED BY <1>6, <1>9, <1>13, <1>14


LEMMA LaunchKeepsJobs == ASSUME IInv, JobsOK, Launch PROVE JobsOK'
  <1> USE DEF JobsOK
  <1>1. /\ mainPc = "launch" /\ mainPc' = "enqueue"
        /\ UNCHANGED <<mainJob, sequence, decodeList, writeList, inPool, outPool, workerJob,
                       writerPc, seq, writerJob>>
    BY DEF Launch, poolVars, writerVars
  <1>2. /\ cthreads' \in 0..Procs /\ cthreads <= cthreads' /\ Busy' = Busy
        /\ \A w \in Busy : workerPc'[w] = workerPc[w]
    <2>1. cthreads \in 0..Procs /\ Procs \in Nat /\ workerPc \in [Workers -> WorkerPcs]
      BY ProcsAssumption DEF IInv, TypeOK
    <2>2. CASE cthreads < Procs
      <3>1. cthreads' = cthreads + 1 /\ workerPc' = [workerPc EXCEPT ![cthreads + 1] = "getJob"]
        BY <2>2 DEF Launch
      <3>2. cthreads + 1 \in Workers /\ cthreads + 1 > cthreads
        BY <2>1, <2>2 DEF Workers
      <3>3. cthreads + 1 \notin Busy
        BY <3>2 DEF HandsOK
      <3> QED BY <2>1, <2>2, <3>1, <3>2, <3>3 DEF Busy
    <2>3. CASE ~(cthreads < Procs)
      BY <2>1, <2>3 DEF Launch, Busy
    <2> QED BY <2>2, <2>3
  <1>3. HandsOK'
    <2>1. \A w \in Workers : workerPc'[w] \in {"getOut", "decode"} =>
              workerPc[w] = workerPc'[w]
      BY <1>2 DEF Busy
    <2>2. \A w \in Workers : w > cthreads' => w \notin Busy /\ workerPc'[w] = "absent"
      <3>1. cthreads \in 0..Procs /\ \A w \in Workers : w \in Nat
        BY DEF IInv, TypeOK, Workers
      <3>2. \A w \in Workers : w > cthreads' => workerPc'[w] = workerPc[w]
        BY <3>1, ProcsAssumption DEF Launch, IInv, TypeOK
      <3> QED BY <1>1, <1>2, <3>1, <3>2 DEF HandsOK
    <2> QED BY <1>1, <1>2, <2>1, <2>2 DEF HandsOK
  <1>4. ListedOK' /\ AfterwardsOK'
    BY <1>1 DEF ListedOK, AfterwardsOK
  <1>5. NumbersOK'
    <2>1. \A n \in Nat : Waits(n)' <=> Waits(n)
      BY <1>1 DEF Waits
    <2> QED BY <1>1, <2>1, NumbersStay
  <1>6. \A w \in Workers : /\ workerPc'[w] \in {"getOut", "decode"} <=> workerPc[w] \in {"getOut", "decode"}
                           /\ workerPc'[w] \in {"decode", "insert"} <=> workerPc[w] \in {"decode", "insert"}
    BY <1>2 DEF Busy
  <1>7. InBuffersOK'
    <2>1. \A n \in Nat, s \in Spaces(inPool) : HasIn(n, s)' <=> HasIn(n, s)
      BY <1>1, <1>6 DEF HasIn
    <2> QED BY <1>1, <2>1, InBuffersStay
  <1>8. OutBuffersOK'
    <2>1. \A n \in Nat, s \in Spaces(outPool) : HasOut(n, s)' <=> HasOut(n, s)
      BY <1>1, <1>6 DEF HasOut
    <2> QED BY <1>1, <2>1, OutBuffersStay DEF Spaces, Made
  <1> QED BY <1>3, <1>4, <1>5, <1>7, <1>8

LEMMA EnqueueKeepsJobs == ASSUME IInv, JobsOK, Enqueue PROVE JobsOK'
  <1> USE DEF JobsOK
  <1>1. /\ mainPc = "enqueue" /\ mainPc' \in {"idle", "joinWriter"} /\ mainJob' = NoJob
        /\ ToSet(decodeList') = ToSet(decodeList) \cup {mainJob}
        /\ UNCHANGED <<sequence, cthreads, writeList, inPool, outPool, workerPc, workerJob,
                       writerPc, seq, writerJob>>
    BY SetOfAppended DEF Enqueue, IInv, TypeOK, poolVars, workerVars, writerVars
  <1>2. NoJob.seq = -2 /\ NoJob.in = NoSpace /\ NoJob.out = NoSpace /\ ~NoJob.more
    BY DEF NoJob
  <1>3. mainJob.seq \in Nat /\ mainJob.out = NoSpace /\ (~mainJob.more => mainJob.in = NoSpace)
    BY <1>1 DEF IInv, TypeOK, ClientOK, HandsOK
  <1>4. HandsOK' /\ AfterwardsOK'
    BY <1>1, <1>2 DEF HandsOK, AfterwardsOK, Busy
  <1>5. ListedOK'
    BY <1>1, <1>3 DEF ListedOK
  <1>6. NumbersOK'
    <2>1. \A n \in Nat : Waits(n)' <=> Waits(n)
      BY <1>1, <1>2 DEF Waits
    <2> QED BY <1>1, <2>1, NumbersStay
  <1>7. InBuffersOK'
    <2>1. \A n \in Nat, s \in Spaces(inPool) : HasIn(n, s)' <=> HasIn(n, s)
      BY <1>1, <1>2 DEF HasIn
    <2> QED BY <1>1, <2>1, InBuffersStay
  <1>8. OutBuffersOK'
    <2>1. \A n \in Nat, s \in Spaces(outPool) : HasOut(n, s)' <=> HasOut(n, s)
      BY <1>1 DEF HasOut
    <2> QED BY <1>1, <2>1, OutBuffersStay DEF Spaces, Made
  <1> QED BY <1>4, <1>5, <1>6, <1>7, <1>8

\* The write thread has returned and every buffer is back when the pools are freed.
LEMMA AllReturnedAtTheEnd ==
    ASSUME IInv, JobsOK, mainPc = "freePools"
    PROVE  AllReturned(outPool) /\ AllReturned(inPool)
  <1> USE DEF JobsOK
  <1>1. /\ Busy = {} /\ writeList = <<>> /\ \A job \in ToSet(decodeList) : job.seq = -1
        /\ mainJob = NoJob /\ writerJob = NoJob
    BY AllDone DEF AfterwardsOK, HandsOK, Ended
  <1>2. NoJob.seq = -2
    BY DEF NoJob
  <1>3. ToSet(writeList) = {}
    BY <1>1 DEF ToSet
  <1>4. \A n \in Nat : \A s : ~HasIn(n, s) /\ ~HasOut(n, s)
    BY <1>1, <1>2, <1>3 DEF HasIn, HasOut, Busy
  <1>5. Spaces(inPool) \subseteq inPool.free /\ Spaces(outPool) \subseteq outPool.free
    BY <1>4 DEF InBuffersOK, OutBuffersOK
  <1> QED BY <1>5 DEF IInv, PoolsOK, Sound, AllReturned, Spaces

LEMMA EndingKeepsJobs ==
    ASSUME IInv, JobsOK, JoinWriter \/ Pause \/ FreePools \/ FreeDecoder PROVE JobsOK'
  <1> USE DEF JobsOK
  <1>1. /\ UNCHANGED <<mainJob, sequence, decodeList, writeList, inPool, outPool, workerPc, workerJob,
                       writerPc, seq, writerJob>>
        /\ \/ mainPc = "joinWriter" /\ mainPc' = "poison" /\ writerPc = "returned" /\ cthreads' = cthreads
           \/ mainPc = "pause" /\ mainPc' = "freePools" /\ cthreads' = 0
           \/ mainPc = "freePools" /\ mainPc' = "freeLocks" /\ cthreads' = cthreads
           \/ mainPc = "freeLocks" /\ mainPc' = "none" /\ cthreads' = cthreads
    <2>1. CASE FreePools
      BY <2>1, AllReturnedAtTheEnd DEF FreePools, poolVars, workerVars, writerVars
    <2>2. CASE JoinWriter \/ Pause \/ FreeDecoder
      BY <2>2 DEF JoinWriter, Pause, FreeDecoder, poolVars, workerVars, writerVars
    <2> QED BY <2>1, <2>2
  <1>2. mainPc = "pause" => Busy = {}
    BY AllDone DEF AfterwardsOK, Ended
  <1>3. HandsOK'
    BY <1>1, <1>2 DEF HandsOK, Busy
  <1>4. ListedOK' /\ AfterwardsOK'
    BY <1>1 DEF ListedOK, AfterwardsOK
  <1>5. NumbersOK'
    <2>1. \A n \in Nat : Waits(n)' <=> Waits(n)
      BY <1>1 DEF Waits
    <2> QED BY <1>1, <2>1, NumbersStay
  <1>6. InBuffersOK'
    <2>1. \A n \in Nat, s \in Spaces(inPool) : HasIn(n, s)' <=> HasIn(n, s)
      BY <1>1 DEF HasIn
    <2> QED BY <1>1, <2>1, InBuffersStay
  <1>7. OutBuffersOK'
    <2>1. \A n \in Nat, s \in Spaces(outPool) : HasOut(n, s)' <=> HasOut(n, s)
      BY <1>1 DEF HasOut
    <2> QED BY <1>1, <2>1, OutBuffersStay DEF Spaces, Made
  <1> QED BY <1>3, <1>4, <1>5, <1>6, <1>7

\* There is nothing left on the list that the poison replaces.
LEMMA SendHomeKeepsJobs == ASSUME IInv, JobsOK, SendHome PROVE JobsOK'
  <1> USE DEF JobsOK
  <1>1. /\ mainPc = "poison" /\ mainPc' = "pause" /\ decodeList' = <<Poison>>
        /\ UNCHANGED <<mainJob, sequence, cthreads, writeList, inPool, outPool, workerPc, workerJob,
                       writerPc, seq, writerJob>>
    BY DEF SendHome, poolVars, workerVars, writerVars
  <1>2. ToSet(decodeList') = {Poison} /\ ToSet(decodeList) = {}
    <2>1. decodeList \in Seq(Jobs) /\ Len(decodeList) = 0
      BY <1>1 DEF IInv, EndOK, LocksDescribeLists, TypeOK
    <2>2. DOMAIN decodeList = {} /\ DOMAIN <<Poison>> = {1} /\ <<Poison>>[1] = Poison
      BY <2>1, LenProperties
    <2> QED BY <1>1, <2>2 DEF ToSet
  <1>3. Poison.seq = -1 /\ Poison.in = NoSpace /\ Poison.out = NoSpace
    BY DEF Poison, NoJob
  <1>4. HandsOK' /\ ListedOK' /\ AfterwardsOK'
    BY <1>1, <1>2, <1>3 DEF HandsOK, ListedOK, AfterwardsOK, Busy
  <1>5. NumbersOK'
    <2>1. \A n \in Nat : Waits(n)' <=> Waits(n)
      BY <1>1, <1>2, <1>3 DEF Waits
    <2> QED BY <1>1, <2>1, NumbersStay
  <1>6. InBuffersOK'
    <2>1. \A n \in Nat, s \in Spaces(inPool) : HasIn(n, s)' <=> HasIn(n, s)
      BY <1>1, <1>2, <1>3 DEF HasIn
    <2> QED BY <1>1, <2>1, InBuffersStay
  <1>7. OutBuffersOK'
    <2>1. \A n \in Nat, s \in Spaces(outPool) : HasOut(n, s)' <=> HasOut(n, s)
      BY <1>1 DEF HasOut
    <2> QED BY <1>1, <2>1, OutBuffersStay DEF Spaces, Made
  <1> QED BY <1>4, <1>5, <1>6, <1>7

LEMMA TakeJobKeepsJobs == ASSUME IInv, JobsOK, NEW w \in Workers, TakeJob(w) PROVE JobsOK'
  <1> USE DEF JobsOK
  <1>0. PICK job : job = Head(decodeList)
    OBVIOUS
  <1>1. /\ workerPc[w] = "getJob" /\ decodeHave # 0 /\ job.seq # -1
        /\ workerJob' = [workerJob EXCEPT ![w] = job]
        /\ workerPc' = [workerPc EXCEPT ![w] = IF job.more THEN "getOut" ELSE "insert"]
        /\ decodeList' = Tail(decodeList)
        /\ UNCHANGED <<mainPc, mainJob, sequence, cthreads, writeList, inPool, outPool,
                       writerPc, seq, writerJob>>
    BY <1>0 DEF TakeJob, mainVars, poolVars, writerVars
  <1>2. ToSet(decodeList) = {job} \cup ToSet(decodeList') /\ job \in Jobs
    <2>1. decodeList \in Seq(Jobs) /\ decodeList # <<>>
      BY <1>1 DEF IInv, TypeOK, LocksDescribeLists
    <2> QED BY <1>0, <1>1, <2>1, SetOfTail
  <1>3. job.out = NoSpace /\ (~job.more => job.in = NoSpace) /\ job.seq \in Nat
    BY <1>1, <1>2, ListedJobs DEF ListedOK
  <1>4. w \notin Busy /\ workerJob[w] = NoJob /\ NoJob.seq = -2
    BY <1>1 DEF HandsOK, Busy, NoJob
  <1>5. /\ workerJob'[w] = job /\ workerPc'[w] = IF job.more THEN "getOut" ELSE "insert"
        /\ \A v \in Workers : v # w => workerPc'[v] = workerPc[v] /\ workerJob'[v] = workerJob[v]
    BY <1>1 DEF IInv, TypeOK
  <1>6. HandsOK'
    <2>1. ~(w > cthreads)
      <3>1. CASE mainPc \in {"freePools", "freeLocks"}
        BY <3>1, <1>1, <1>2, AllDone DEF AfterwardsOK, Ended
      <3>2. CASE mainPc \notin {"freePools", "freeLocks"}
        BY <3>2, <1>1 DEF HandsOK, TakeJob, Live
      <3> QED BY <3>1, <3>2
    <2> QED BY <1>1, <1>3, <1>5, <2>1 DEF HandsOK, Busy
  <1>7. ListedOK' /\ AfterwardsOK'
    BY <1>1, <1>2 DEF ListedOK, AfterwardsOK
  <1>8. NumbersOK'
    <2>1. \A n \in Nat : Waits(n)' <=> Waits(n)
      BY <1>1, <1>2, <1>4, <1>5 DEF Waits
    <2> QED BY <1>1, <2>1, NumbersStay
  <1>9. InBuffersOK'
    <2>1. \A n \in Nat, s \in Spaces(inPool) : HasIn(n, s)' <=> HasIn(n, s)
      BY <1>1, <1>2, <1>3, <1>5, SpacesAreNumbers DEF HasIn
    <2> QED BY <1>1, <2>1, InBuffersStay
  <1>10. OutBuffersOK'
    <2>1. \A n \in Nat, s \in Spaces(outPool) : HasOut(n, s)' <=> HasOut(n, s)
      BY <1>1, <1>3, <1>5, SpacesAreNumbers DEF HasOut
    <2> QED BY <1>1, <2>1, OutBuffersStay DEF Spaces, Made
  <1> QED BY <1>6, <1>7, <1>8, <1>9, <1>10


LEMMA TakePoisonKeepsJobs == ASSUME IInv, JobsOK, NEW w \in Workers, TakePoison(w) PROVE JobsOK'
  <1> USE DEF JobsOK
  <1>1. /\ workerPc[w] = "getJob" /\ workerPc'[w] = "returned"
        /\ \A v \in Workers : v # w => workerPc'[v] = workerPc[v]
        /\ UNCHANGED <<mainPc, mainJob, sequence, cthreads, decodeList, writeList, inPool, outPool,
                       workerJob, writerPc, seq, writerJob>>
    BY DEF TakePoison, mainVars, poolVars, writerVars, IInv, TypeOK
  <1>2. HandsOK'
    BY <1>1 DEF HandsOK, Busy
  <1>3. ListedOK' /\ AfterwardsOK'
    BY <1>1 DEF ListedOK, AfterwardsOK
  <1>4. NumbersOK'
    <2>1. \A n \in Nat : Waits(n)' <=> Waits(n)
      BY <1>1 DEF Waits
    <2> QED BY <1>1, <2>1, NumbersStay
  <1>5. InBuffersOK'
    <2>1. \A n \in Nat, s \in Spaces(inPool) : HasIn(n, s)' <=> HasIn(n, s)
      BY <1>1 DEF HasIn
    <2> QED BY <1>1, <2>1, InBuffersStay
  <1>6. OutBuffersOK'
    <2>1. \A n \in Nat, s \in Spaces(outPool) : HasOut(n, s)' <=> HasOut(n, s)
      BY <1>1 DEF HasOut
    <2> QED BY <1>1, <2>1, OutBuffersStay DEF Spaces, Made
  <1> QED BY <1>2, <1>3, <1>4, <1>5, <1>6

LEMMA GetOutKeepsJobs == ASSUME IInv, JobsOK, NEW w \in Workers, GetOut(w) PROVE JobsOK'
  <1> USE DEF JobsOK
  <1>1. PICK space \in Available(outPool) :
           /\ workerJob' = [workerJob EXCEPT ![w].out = space]
           /\ outPool' = AfterGet(outPool, space)
    BY DEF GetOut
  <1>2. /\ workerPc[w] = "getOut" /\ workerPc' = [workerPc EXCEPT ![w] = "decode"]
        /\ UNCHANGED <<mainPc, mainJob, sequence, cthreads, decodeList, writeList, inPool,
                       writerPc, seq, writerJob>>
    BY DEF GetOut, mainVars, writerVars
  <1>3. /\ Sound(outPool) /\ space \in Nat /\ space \in Spaces(AfterGet(outPool, space)) /\ w \in Busy
        /\ workerJob \in [Workers -> Jobs] /\ workerPc \in [Workers -> WorkerPcs]
        /\ Sound(AfterGet(outPool, space)) /\ workerJob[w] \in Jobs
    BY <1>2, GetIsSound DEF IInv, PoolsOK, TypeOK, Busy
  <1>4. /\ outPool'.free = outPool.free \ {space}
        /\ \/ space \in outPool.free /\ Made(outPool') = Made(outPool)
           \/ space = Made(outPool) + 1 /\ Made(outPool') = Made(outPool) + 1 /\ outPool.free = {}
    BY <1>1, <1>3, GotFree
  <1>5. /\ workerPc'[w] = "decode"
        /\ \A v \in Workers : v # w => workerPc'[v] = workerPc[v] /\ workerJob'[v] = workerJob[v]
        /\ workerJob'[w].out = space /\ workerJob'[w].seq = workerJob[w].seq
        /\ workerJob'[w].in = workerJob[w].in /\ workerJob'[w].more = workerJob[w].more
    <2>1. workerJob'[w] = [workerJob[w] EXCEPT !.out = space]
      BY <1>1, <1>3
    <2>2. workerPc'[w] = "decode"
          /\ \A v \in Workers : v # w => workerPc'[v] = workerPc[v] /\ workerJob'[v] = workerJob[v]
      BY <1>1, <1>2, <1>3
    <2> QED BY <1>3, <2>1, <2>2, ChangedJob
  <1>6. HandsOK'
    BY <1>2, <1>3, <1>5 DEF HandsOK, Busy
  <1>7. ListedOK' /\ AfterwardsOK'
    BY <1>2 DEF ListedOK, AfterwardsOK
  <1>8. NumbersOK'
    <2>1. \A n \in Nat : Waits(n)' <=> Waits(n)
      BY <1>2, <1>5 DEF Waits
    <2> QED BY <1>2, <2>1, NumbersStay
  <1>9. InBuffersOK'
    <2>1. \A n \in Nat, s \in Spaces(inPool) : HasIn(n, s)' <=> HasIn(n, s)
      BY <1>2, <1>5 DEF HasIn
    <2> QED BY <1>2, <2>1, InBuffersStay
  <1>10. PICK number \in Nat : number = workerJob[w].seq
    BY <1>3, NumbersApart
  <1>11. /\ Made(outPool) \in Nat /\ outPool.free \subseteq Spaces(outPool)
         /\ space # NoSpace /\ space \in Spaces(outPool)' /\ Spaces(outPool) \subseteq Spaces(outPool)'
         /\ Spaces(outPool)' \subseteq Spaces(outPool) \cup {space}
    BY <1>1, <1>3, <1>4, SpacesAreNumbers DEF Spaces, Sound, Made, NoSpace
  <1>12. \A n \in Nat : \A s : s # NoSpace => (HasOut(n, s)' <=> HasOut(n, s) \/ (n = number /\ s = space))
    BY <1>2, <1>5, <1>10 DEF HasOut, HandsOK
  <1>13. \A n \in Nat : ~HasOut(n, space)
    <2>1. CASE space \in outPool.free
      BY <2>1, <1>11 DEF OutBuffersOK
    <2>2. CASE space = Made(outPool) + 1
      <3>1. space \notin Spaces(outPool)
        BY <2>2, <1>11 DEF Spaces
      <3> QED BY <3>1, <1>11, BuffersAreSpaces
    <2> QED BY <1>4, <2>1, <2>2
  <1>14. OutBuffersOK'
    <2>0. \A s \in Spaces(outPool)' : s # NoSpace /\ (s # space => s \in Spaces(outPool))
      BY <1>11, SpacesAreNumbers
    <2>1. ASSUME NEW s \in Spaces(outPool)' PROVE s \in outPool'.free <=> \A n \in Nat : ~HasOut(n, s)'
      <3>1. CASE s = space
        BY <3>1, <1>4, <1>10, <1>11, <1>12
      <3>2. CASE s # space
        BY <3>2, <2>0, <1>4, <1>12 DEF OutBuffersOK
      <3> QED BY <3>1, <3>2
    <2>2. ASSUME NEW s \in Spaces(outPool)', NEW m \in Nat, NEW n \in Nat, HasOut(m, s)', HasOut(n, s)'
          PROVE  m = n
      <3>1. CASE s = space
        BY <3>1, <2>2, <1>12, <1>13, <1>11
      <3>2. CASE s # space
        BY <3>2, <2>0, <2>2, <1>12 DEF OutBuffersOK
      <3> QED BY <3>1, <3>2
    <2> QED BY <2>1, <2>2 DEF OutBuffersOK
  <1> QED BY <1>6, <1>7, <1>8, <1>9, <1>14

LEMMA DecodeFrameKeepsJobs == ASSUME IInv, JobsOK, NEW w \in Workers, DecodeFrame(w) PROVE JobsOK'
  <1> USE DEF JobsOK
  <1>1. PICK job \in Jobs : job = workerJob[w]
    BY DEF IInv, TypeOK
  <1>2. PICK frame : frame = inPool.data[job.in]
    OBVIOUS
  <1>3. /\ workerPc[w] = "decode" /\ workerPc' = [workerPc EXCEPT ![w] = "insert"]
        /\ outPool' = Fill(outPool, job.out, Decode(frame))
        /\ workerJob' = [workerJob EXCEPT ![w].err = frame \in BadFrames]
        /\ inPool' = AfterDrop(inPool, job.in)
        /\ UNCHANGED <<mainPc, mainJob, sequence, cthreads, decodeList, writeList, writerPc, seq, writerJob>>
    BY <1>1, <1>2 DEF DecodeFrame, mainVars, writerVars
  <1>4. /\ job.in \in Spaces(inPool) /\ job.out \in Spaces(outPool) /\ w \in Busy
        /\ Sound(inPool) /\ Sound(outPool)
    BY <1>1, <1>3 DEF IInv, WorkerSpacesOK, Busy, PoolsOK
  <1>5. Decode(frame) \in Contents
    BY <1>2, <1>4 DEF Sound, Pools, Spaces, Made, Decode, Contents
  <1>6. /\ outPool'.free = outPool.free /\ Made(outPool') = Made(outPool)
        /\ inPool'.free = inPool.free \cup {job.in} /\ Made(inPool') = Made(inPool)
        /\ inPool'.limit = inPool.limit
    BY <1>3, <1>4, <1>5, FilledFree
  <1>7. /\ workerPc'[w] = "insert"
        /\ \A v \in Workers : v # w => workerPc'[v] = workerPc[v] /\ workerJob'[v] = workerJob[v]
        /\ workerJob'[w].out = job.out /\ workerJob'[w].seq = job.seq
        /\ workerJob'[w].in = job.in /\ workerJob'[w].more = job.more
    <2>1. workerJob \in [Workers -> Jobs] /\ workerPc \in [Workers -> WorkerPcs]
      BY DEF IInv, TypeOK
    <2> DEFINE failed == frame \in BadFrames
    <2>2. failed \in BOOLEAN /\ workerJob' = [workerJob EXCEPT ![w].err = failed]
      BY <1>3
    <2> HIDE DEF failed
    <2>3. workerJob'[w] = [job EXCEPT !.err = failed]
      BY <1>1, <2>1, <2>2
    <2>4. [job EXCEPT !.err = failed].in = job.in
      BY <1>1 DEF Jobs
    <2>5. \A v \in Workers : v # w => workerPc'[v] = workerPc[v] /\ workerJob'[v] = workerJob[v]
      BY <1>3, <2>1, <2>2
    <2>6. /\ workerJob'[w].out = job.out /\ workerJob'[w].seq = job.seq
          /\ workerJob'[w].in = job.in /\ workerJob'[w].more = job.more
      <3>1. PICK done : done = [job EXCEPT !.err = failed]
        OBVIOUS
      <3>2. done.out = job.out /\ done.seq = job.seq /\ done.in = job.in /\ done.more = job.more
        BY <3>1, <2>2, <2>4, ChangedJob
      <3>3. workerJob'[w] = done
        BY <2>3, <3>1
      <3> QED BY <3>2, <3>3
    <2>7. workerPc'[w] = "insert"
      BY <1>3, <2>1
    <2> QED BY <2>5, <2>6, <2>7
  <1>8. HandsOK'
    BY <1>1, <1>3, <1>4, <1>7 DEF HandsOK, Busy
  <1>9. ListedOK' /\ AfterwardsOK'
    BY <1>3 DEF ListedOK, AfterwardsOK
  <1>10. NumbersOK'
    <2>1. \A n \in Nat : Waits(n)' <=> Waits(n)
      BY <1>1, <1>3, <1>7 DEF Waits
    <2> QED BY <1>3, <2>1, NumbersStay
  <1>11. OutBuffersOK'
    <2>1. \A n \in Nat, s \in Spaces(outPool) : HasOut(n, s)' <=> HasOut(n, s)
      BY <1>1, <1>3, <1>7 DEF HasOut
    <2> QED BY <1>6, <2>1, OutBuffersStay DEF Spaces, Made
  <1>12. job.seq \in Nat /\ HasIn(job.seq, job.in)
    BY <1>1, <1>3, <1>4, NumbersApart DEF HasIn
  <1>13. \A n \in Nat : \A s : HasIn(n, s)' <=> HasIn(n, s) /\ n # job.seq
    <2>1. /\ mainJob.seq # job.seq /\ \A other \in ToSet(decodeList) : other.seq # job.seq
          /\ \A v \in Workers : v # w /\ workerPc[v] \in {"getOut", "decode"} => workerJob[v].seq # job.seq
      BY <1>1, <1>4, NumbersApart DEF Busy
    <2> QED BY <2>1, <1>1, <1>3, <1>7 DEF HasIn
  <1>14. InBuffersOK'
    <2>0. Spaces(inPool)' = Spaces(inPool)
      BY <1>6 DEF Spaces, Made
    <2>1. ASSUME NEW s \in Spaces(inPool) PROVE s \in inPool'.free <=> \A n \in Nat : ~HasIn(n, s)'
      <3>1. CASE s = job.in
        BY <3>1, <1>4, <1>6, <1>12, <1>13 DEF InBuffersOK
      <3>2. CASE s # job.in
        <4>1. ~HasIn(job.seq, s)
          BY <3>2, <1>1, <1>3, <1>4, NumbersApart DEF HasIn, Busy
        <4> QED BY <3>2, <4>1, <1>6, <1>13 DEF InBuffersOK
      <3> QED BY <3>1, <3>2
    <2>2. ASSUME NEW s \in Spaces(inPool), NEW m \in Nat, NEW n \in Nat, HasIn(m, s)', HasIn(n, s)'
          PROVE  m = n
      BY <2>2, <1>13 DEF InBuffersOK
    <2>3. inPool'.limit \in Nat /\ Made(inPool)' + inPool'.limit = InLimit
      BY <1>6 DEF InBuffersOK, Made
    <2> QED BY <2>0, <2>1, <2>2, <2>3 DEF InBuffersOK
  <1> QED BY <1>8, <1>9, <1>10, <1>11, <1>14

LEMMA InsertJobKeepsJobs == ASSUME IInv, JobsOK, NEW w \in Workers, InsertJob(w) PROVE JobsOK'
  <1> USE DEF JobsOK
  <1>1. PICK job \in Jobs : job = workerJob[w]
    BY DEF IInv, TypeOK
  <1>2. /\ workerPc[w] = "insert" /\ workerPc' = [workerPc EXCEPT ![w] = "getJob"]
        /\ workerJob' = [workerJob EXCEPT ![w] = NoJob]
        /\ ToSet(writeList') = ToSet(writeList) \cup {job}
        /\ UNCHANGED <<mainPc, mainJob, sequence, cthreads, decodeList, inPool, outPool,
                       writerPc, seq, writerJob>>
    BY <1>1, SetOfInserted DEF InsertJob, mainVars, poolVars, writerVars, IInv, TypeOK
  <1>3. /\ workerPc'[w] = "getJob" /\ workerJob'[w] = NoJob /\ w \in Busy
        /\ \A v \in Workers : v # w => workerPc'[v] = workerPc[v] /\ workerJob'[v] = workerJob[v]
        /\ NoJob.seq = -2 /\ NoJob.in = NoSpace /\ NoJob.out = NoSpace /\ ~NoJob.more
    BY <1>2 DEF IInv, TypeOK, Busy, NoJob
  <1>4. HandsOK'
    BY <1>2, <1>3 DEF HandsOK, Busy
  <1>5. ListedOK' /\ AfterwardsOK'
    BY <1>1, <1>2 DEF ListedOK, AfterwardsOK, HandsOK
  <1>6. NumbersOK'
    <2>1. \A n \in Nat : Waits(n)' <=> Waits(n)
      BY <1>1, <1>2, <1>3 DEF Waits
    <2> QED BY <1>2, <2>1, NumbersStay
  <1>7. InBuffersOK'
    <2>1. \A n \in Nat, s \in Spaces(inPool) : HasIn(n, s)' <=> HasIn(n, s)
      BY <1>2, <1>3 DEF HasIn
    <2> QED BY <1>2, <2>1, InBuffersStay
  <1>8. OutBuffersOK'
    <2>1. \A n \in Nat, s \in Spaces(outPool) : HasOut(n, s)' <=> HasOut(n, s)
      BY <1>1, <1>2, <1>3 DEF HasOut
    <2> QED BY <1>2, <2>1, OutBuffersStay DEF Spaces, Made
  <1> QED BY <1>4, <1>5, <1>6, <1>7, <1>8

LEMMA TakeResultKeepsJobs == ASSUME IInv, JobsOK, TakeResult PROVE JobsOK'
  <1> USE DEF JobsOK
  <1>0. PICK job : job = Head(writeList)
    OBVIOUS
  <1>1. /\ writerPc = "getJob" /\ writerJob' = job /\ writeList' = Tail(writeList)
        /\ writerPc' = IF job.more THEN "deliver" ELSE "verify"
        /\ seq' = seq + 1 /\ writeFirst = seq
        /\ UNCHANGED <<mainPc, mainJob, sequence, cthreads, decodeList, inPool, outPool,
                       workerPc, workerJob>>
    BY <1>0 DEF TakeResult, mainVars, poolVars, workerVars
  <1>2. writeList # <<>> /\ writeList \in Seq(Jobs) /\ Len(writeList) \in Nat \ {0} /\ seq \in Nat
    BY <1>1 DEF IInv, TypeOK, LocksDescribeLists, FirstSeq
  <1>3. ToSet(writeList) = {job} \cup ToSet(writeList') /\ job \in Jobs /\ job.seq = seq
    BY <1>0, <1>1, <1>2, SetOfTail DEF IInv, LocksDescribeLists, FirstSeq
  <1>4. \A other \in ToSet(writeList') : other.seq # seq
    <2>1. /\ Tail(writeList) \in Seq(Jobs) /\ DOMAIN Tail(writeList) = 1..Len(writeList) - 1
          /\ \A i \in 1..Len(writeList) - 1 : Tail(writeList)[i] = writeList[i + 1]
          /\ job = writeList[1] /\ DOMAIN writeList = 1..Len(writeList)
      BY <1>0, <1>2, LenProperties, HeadTailProperties
    <2>2. ASSUME NEW i \in 1..Len(writeList) - 1 PROVE Tail(writeList)[i].seq # seq
      <3>1. 1 \in DOMAIN writeList /\ i + 1 \in DOMAIN writeList /\ 1 < i + 1
        BY <1>2, <2>1
      <3>2. writeList[1].seq < writeList[i + 1].seq /\ Tail(writeList)[i] = writeList[i + 1]
        BY <2>1, <3>1 DEF IInv, LocksDescribeLists
      <3>3. writeList[i + 1] \in Jobs
        BY <1>2, <2>1, <3>1, ElementOfSeq
      <3> QED BY <1>2, <1>3, <2>1, <3>2, <3>3, JobSeq
    <2> QED BY <1>1, <2>1, <2>2 DEF ToSet
  <1>5. NoJob.seq = -2 /\ NoJob.in = NoSpace /\ NoJob.out = NoSpace /\ writerJob = NoJob
    BY <1>1 DEF NoJob, HandsOK
  <1>6. HandsOK' /\ ListedOK' /\ AfterwardsOK'
    BY <1>1, <1>3 DEF HandsOK, ListedOK, AfterwardsOK, Busy
  <1>7. \A n \in Nat : Waits(n)' <=> Waits(n) /\ n # seq
    <2>1. /\ mainJob.seq # seq /\ \A other \in ToSet(decodeList) : other.seq # seq
      BY <1>3, NumbersApart
    <2>2. \A v \in Workers : workerJob[v].seq # seq
      <3>1. \A v \in Busy : workerJob[v].seq # seq
        BY <1>3, NumbersApart
      <3> QED BY <3>1, <1>2, <1>5 DEF HandsOK
    <2> QED BY <2>1, <2>2, <1>1, <1>3, <1>4 DEF Waits
  <1>8. NumbersOK'
    <2>1. seq < Bound /\ Bound <= sequence /\ sequence \in Nat
      BY <1>3, NumbersApart DEF Bound, IInv, TypeOK
    <2>2. ~job.more => sequence = seq + 1
      <3>1. FinalOK(job)
        BY <1>3, ListedJobs
      <3> QED BY <3>1, <1>3, <2>1 DEF FinalOK
    <2>3. \A n \in Nat : n < seq' => ~Waits(n)'
      BY <1>1, <1>2, <1>7 DEF NumbersOK
    <2>4. \A n \in Nat : seq' <= n /\ n < sequence' => Waits(n)'
      BY <1>1, <1>2, <1>7, <2>1 DEF NumbersOK
    <2>5. seq' <= sequence' /\ seq' > 0 /\ writerJob'.seq = seq' - 1
      BY <1>1, <1>2, <1>3, <2>1, ListedJobs
    <2>6. writerPc' \in Ended => seq' = sequence'
      BY <1>1, <2>2 DEF Ended
    <2> QED BY <2>3, <2>4, <2>5, <2>6 DEF NumbersOK
  <1>9. InBuffersOK'
    <2>1. \A n \in Nat, s \in Spaces(inPool) : HasIn(n, s)' <=> HasIn(n, s)
      BY <1>1 DEF HasIn
    <2> QED BY <1>1, <2>1, InBuffersStay
  <1>10. OutBuffersOK'
    <2>1. \A n \in Nat, s \in Spaces(outPool) : HasOut(n, s)' <=> HasOut(n, s)
      BY <1>1, <1>3, <1>5 DEF HasOut
    <2> QED BY <1>1, <2>1, OutBuffersStay DEF Spaces, Made
  <1> QED BY <1>6, <1>8, <1>9, <1>10

LEMMA DeliverKeepsJobs == ASSUME IInv, JobsOK, Deliver PROVE JobsOK'
  <1> USE DEF JobsOK
  <1>1. /\ writerPc = "deliver" /\ writerPc' = "dropOut"
        /\ UNCHANGED <<mainPc, mainJob, sequence, cthreads, decodeList, writeList, inPool, outPool,
                       workerPc, workerJob, seq, writerJob>>
    BY DEF Deliver, mainVars, poolVars, workerVars
  <1>2. HandsOK' /\ ListedOK' /\ AfterwardsOK'
    BY <1>1 DEF HandsOK, ListedOK, AfterwardsOK, Busy
  <1>3. NumbersOK'
    BY <1>1 DEF NumbersOK, Waits, Ended
  <1>4. InBuffersOK'
    <2>1. \A n \in Nat, s \in Spaces(inPool) : HasIn(n, s)' <=> HasIn(n, s)
      BY <1>1 DEF HasIn
    <2> QED BY <1>1, <2>1, InBuffersStay
  <1>5. OutBuffersOK'
    <2>1. \A n \in Nat, s \in Spaces(outPool) : HasOut(n, s)' <=> HasOut(n, s)
      BY <1>1 DEF HasOut
    <2> QED BY <1>1, <2>1, OutBuffersStay DEF Spaces, Made
  <1> QED BY <1>2, <1>3, <1>4, <1>5

LEMMA DropOutKeepsJobs == ASSUME IInv, JobsOK, DropOut PROVE JobsOK'
  <1> USE DEF JobsOK
  <1>1. /\ writerPc = "dropOut" /\ writerPc' = "getJob" /\ writerJob' = NoJob
        /\ outPool' = AfterDrop(outPool, writerJob.out)
        /\ UNCHANGED <<mainPc, mainJob, sequence, cthreads, decodeList, writeList, inPool,
                       workerPc, workerJob, seq>>
    BY DEF DropOut, mainVars, workerVars
  <1>2. /\ writerJob.out \in Spaces(outPool) /\ Sound(outPool) /\ writerJob.seq = seq - 1
        /\ seq \in Nat /\ writerJob.seq \in Int /\ Garbage \in Contents
    BY <1>1 DEF IInv, WriterOK, PoolsOK, NumbersOK, TypeOK, Contents
  <1>3. outPool'.free = outPool.free \cup {writerJob.out} /\ Made(outPool') = Made(outPool)
    BY <1>1, <1>2, FilledFree
  <1>4. NoJob.seq = -2 /\ NoJob.in = NoSpace /\ NoJob.out = NoSpace /\ ~NoJob.more
    BY DEF NoJob
  <1>5. HandsOK' /\ ListedOK' /\ AfterwardsOK'
    BY <1>1, <1>4 DEF HandsOK, ListedOK, AfterwardsOK, Busy
  <1>6. NumbersOK'
    <2>1. \A n \in Nat : Waits(n)' <=> Waits(n)
      BY <1>1 DEF Waits
    <2> QED BY <1>1, <2>1 DEF NumbersOK, Ended
  <1>7. InBuffersOK'
    <2>1. \A n \in Nat, s \in Spaces(inPool) : HasIn(n, s)' <=> HasIn(n, s)
      BY <1>1 DEF HasIn
    <2> QED BY <1>1, <2>1, InBuffersStay
  <1>8. OutBuffersOK'
    <2>0. Spaces(outPool)' = Spaces(outPool) /\ \A s \in Spaces(outPool) : s # NoSpace
      BY <1>3, SpacesAreNumbers DEF Spaces, Made
    <2>1. \A n \in Nat : n < seq => ~Waits(n)
      BY DEF NumbersOK
    <2>2. \A n \in Nat, s \in Spaces(outPool) : HasOut(n, s)' <=> HasOut(n, s) /\ n # seq - 1
      <3>1. ASSUME NEW n \in Nat, n = seq - 1
            PROVE  /\ \A v \in Workers : workerJob[v].seq # n
                   /\ \A job \in ToSet(writeList) : job.seq # n
        BY <3>1, <1>2, <2>1 DEF Waits
      <3>2. ASSUME NEW n \in Nat, NEW s \in Spaces(outPool), n = seq - 1 PROVE ~HasOut(n, s)'
        BY <3>1, <3>2, <2>0, <1>1, <1>4 DEF HasOut
      <3>3. ASSUME NEW n \in Nat, NEW s \in Spaces(outPool), n # seq - 1 PROVE HasOut(n, s)' <=> HasOut(n, s)
        BY <3>3, <2>0, <1>1, <1>2, <1>4 DEF HasOut
      <3> QED BY <3>2, <3>3
    <2>3. seq - 1 \in Nat /\ HasOut(seq - 1, writerJob.out)
      <3>1. seq > 0
        BY <1>1 DEF NumbersOK
      <3> QED BY <3>1, <1>2 DEF HasOut
    <2>4. ASSUME NEW s \in Spaces(outPool) PROVE s \in outPool'.free <=> \A n \in Nat : ~HasOut(n, s)'
      <3>1. CASE s = writerJob.out
        BY <3>1, <1>2, <1>3, <2>2, <2>3 DEF OutBuffersOK
      <3>2. CASE s # writerJob.out
        <4>1. ~HasOut(seq - 1, s)
          <5>1. \A v \in Workers : workerJob[v].seq # seq - 1
            BY <1>2, <2>1, <2>3 DEF Waits
          <5>2. \A job \in ToSet(writeList) : job.seq # seq - 1
            BY <1>2, <2>1, <2>3 DEF Waits
          <5> QED BY <5>1, <5>2, <3>2 DEF HasOut
        <4> QED BY <3>2, <4>1, <1>3, <2>2, <2>3 DEF OutBuffersOK
      <3> QED BY <3>1, <3>2
    <2>5. ASSUME NEW s \in Spaces(outPool), NEW m \in Nat, NEW n \in Nat, HasOut(m, s)', HasOut(n, s)'
          PROVE  m = n
      BY <2>5, <2>2 DEF OutBuffersOK
    <2> QED BY <2>0, <2>4, <2>5 DEF OutBuffersOK
  <1> QED BY <1>5, <1>6, <1>7, <1>8

\* When the write thread looks, both lists are empty.
LEMMA VerifyKeepsJobs == ASSUME IInv, JobsOK, VerifyDecodeList \/ VerifyWriteList PROVE JobsOK'
  <1> USE DEF JobsOK
  <1>0. writerPc \in {"verify", "verifyWrite"} /\ mainPc = "joinWriter"
    BY DEF VerifyDecodeList, VerifyWriteList, IInv, EndOK
  <1>1. decodeList = <<>> /\ decodeHave = 0 /\ writeList = <<>>
    <2>1. writeList = <<>> /\ \A job \in ToSet(decodeList) : job.seq = -1
      BY <1>0, AllDone DEF Ended
    <2>2. ToSet(decodeList) = {}
      BY <1>0, <2>1 DEF ListedOK
    <2>3. decodeList = <<>>
      BY <2>2, SetOfTail DEF IInv, TypeOK
    <2> QED BY <2>1, <2>3 DEF IInv, LocksDescribeLists
  <1>2. /\ \/ writerPc = "verify" /\ writerPc' = "verifyWrite" /\ writerJob' = NoJob
           \/ writerPc = "verifyWrite" /\ writerPc' = "returned" /\ writerJob' = writerJob
        /\ UNCHANGED <<mainPc, mainJob, sequence, cthreads, decodeList, writeList, inPool, outPool,
                       workerPc, workerJob, seq>>
    BY <1>1 DEF VerifyDecodeList, VerifyWriteList, mainVars, poolVars, workerVars
  <1>3. NoJob.seq = -2 /\ NoJob.in = NoSpace /\ NoJob.out = NoSpace /\ ~NoJob.more
    BY DEF NoJob
  <1>4. HandsOK' /\ ListedOK' /\ AfterwardsOK'
    BY <1>2, <1>3 DEF HandsOK, ListedOK, AfterwardsOK, Busy
  <1>5. NumbersOK'
    <2>1. \A n \in Nat : Waits(n)' <=> Waits(n)
      BY <1>2 DEF Waits
    <2> QED BY <1>2, <2>1 DEF NumbersOK, Ended
  <1>6. InBuffersOK'
    <2>1. \A n \in Nat, s \in Spaces(inPool) : HasIn(n, s)' <=> HasIn(n, s)
      BY <1>2 DEF HasIn
    <2> QED BY <1>2, <2>1, InBuffersStay
  <1>7. OutBuffersOK'
    <2>1. writerJob.out = NoSpace
      BY <1>0, <1>3 DEF HandsOK
    <2>2. \A n \in Nat, s \in Spaces(outPool) : HasOut(n, s)' <=> HasOut(n, s)
      BY <1>2, <1>3, <2>1, SpacesAreNumbers DEF HasOut
    <2> QED BY <1>2, <2>2, OutBuffersStay DEF Spaces, Made
  <1> QED BY <1>4, <1>5, <1>6, <1>7

LEMMA StepKeepsJobs == ASSUME IInv, JobsOK, [Next]_vars PROVE JobsOK'
  <1>1. CASE Main
    BY <1>1, CreateKeepsJobs, CallsKeepJobs, GetInKeepsJobs, LaunchKeepsJobs, EnqueueKeepsJobs,
       EndingKeepsJobs, SendHomeKeepsJobs
    DEF Main, MainStep
  <1>2. CASE \E w \in Workers : Worker(w)
    BY <1>2, TakeJobKeepsJobs, TakePoisonKeepsJobs, GetOutKeepsJobs, DecodeFrameKeepsJobs,
       InsertJobKeepsJobs
    DEF Worker
  <1>3. CASE Writer
    BY <1>3, TakeResultKeepsJobs, DeliverKeepsJobs, DropOutKeepsJobs, VerifyKeepsJobs DEF Writer
  <1>4. CASE UNCHANGED vars
    <2>1. UNCHANGED <<mainPc, mainJob, sequence, cthreads, decodeList, writeList, inPool, outPool,
                      workerPc, workerJob, writerPc, seq, writerJob>>
      BY <1>4 DEF vars, mainVars, poolVars, workerVars, writerVars
    <2>2. HandsOK' /\ ListedOK' /\ AfterwardsOK'
      BY <2>1 DEF JobsOK, HandsOK, ListedOK, AfterwardsOK, Busy
    <2>3. /\ \A n \in Nat : Waits(n)' <=> Waits(n)
          /\ \A n \in Nat : \A s : HasIn(n, s)' <=> HasIn(n, s)
          /\ \A n \in Nat : \A s : HasOut(n, s)' <=> HasOut(n, s)
      BY <2>1 DEF Waits, HasIn, HasOut
    <2> QED BY <2>1, <2>2, <2>3, NumbersStay, InBuffersStay, OutBuffersStay DEF JobsOK, Spaces, Made
  <1> QED BY <1>1, <1>2, <1>3, <1>4 DEF Next

LEMMA JobsHold == Spec => []JobsOK
  <1>1. IInv /\ JobsOK /\ [Next]_vars => JobsOK'
    BY StepKeepsJobs
  <1> QED BY InitJobs, InvariantHolds, <1>1, PTL DEF Spec

-----------------------------------------------------------------------------
(* What that shows.                                                        *)

\* No assertion of dst_decoder.c and none of buffer_pool_free fails: the lists are
\* empty when the write thread has passed on the last job, and every buffer is
\* back in its pool before the pools are freed, although nobody waited for the
\* decode threads.
THEOREM AssertionsHold == Spec => []NoAssertionFails
  <1>1. JobsOK => NoAssertionFails
    BY DEF JobsOK, AfterwardsOK, NoAssertionFails
  <1> QED BY <1>1, JobsHold, PTL

\* A list that is sorted has a number once.
LEMMA OnceOnTheLists ==
    ASSUME IInv
    PROVE  /\ DOMAIN decodeList = 1..Len(decodeList) /\ DOMAIN writeList = 1..Len(writeList)
           /\ \A i, j \in DOMAIN decodeList : decodeList[i].seq = decodeList[j].seq => i = j
           /\ \A i, j \in DOMAIN writeList : writeList[i].seq = writeList[j].seq => i = j
  <1>1. /\ decodeList \in Seq(Jobs) /\ DOMAIN decodeList = 1..Len(decodeList) /\ Len(decodeList) \in Nat
        /\ writeList \in Seq(Jobs) /\ DOMAIN writeList = 1..Len(writeList) /\ Len(writeList) \in Nat
    BY LenProperties DEF IInv, TypeOK
  <1>2. /\ \A i \in DOMAIN decodeList : decodeList[i].seq \in Int
        /\ \A i \in DOMAIN writeList : writeList[i].seq \in Int
    BY <1>1, ElementOfSeq, JobSeq
  <1>3. \A i, j \in DOMAIN decodeList : i < j => decodeList[i].seq < decodeList[j].seq
    BY <1>1 DEF IInv, DecodeListOK
  <1>4. \A i, j \in DOMAIN writeList : i < j => writeList[i].seq < writeList[j].seq
    BY DEF IInv, LocksDescribeLists
  <1>5. ASSUME NEW i \in DOMAIN decodeList, NEW j \in DOMAIN decodeList,
               decodeList[i].seq = decodeList[j].seq
        PROVE  i = j
    BY <1>1, <1>2, <1>3, <1>5
  <1>6. ASSUME NEW i \in DOMAIN writeList, NEW j \in DOMAIN writeList,
               writeList[i].seq = writeList[j].seq
        PROVE  i = j
    BY <1>1, <1>2, <1>4, <1>6
  <1> QED BY <1>1, <1>5, <1>6

LEMMA JobsAreInOnePlace == ASSUME IInv, JobsOK PROVE EveryJobInOnePlace
  <1> SUFFICES ASSUME NEW n \in 0..sequence - 1
               PROVE  Cardinality(Places(n)) = IF n < seq THEN 0 ELSE 1
    BY DEF EveryJobInOnePlace
  <1>1. n \in Nat /\ n < sequence /\ sequence \in Nat /\ seq \in Nat
    BY DEF IInv, TypeOK
  <1>2. NoJob.seq = -2
    BY DEF NoJob
  <1> DEFINE client == {<<"client", 0>> : i \in {i \in {0} : mainJob.seq = n}}
             waiting == {<<"decodeList", i>> : i \in {i \in DOMAIN decodeList : decodeList[i].seq = n}}
             working == {<<"worker", w>> : w \in {w \in Workers : workerJob[w].seq = n}}
             done == {<<"writeList", i>> : i \in {i \in DOMAIN writeList : writeList[i].seq = n}}
  <1>3. Places(n) = client \cup waiting \cup working \cup done
    BY DEF Places
  <1>4. /\ client = {} \/ (mainJob.seq = n /\ client = {<<"client", 0>>})
        /\ waiting = {} \/ \E i \in DOMAIN decodeList : decodeList[i].seq = n /\ waiting = {<<"decodeList", i>>}
        /\ done = {} \/ \E i \in DOMAIN writeList : writeList[i].seq = n /\ done = {<<"writeList", i>>}
        /\ working = {} \/ \E w \in Busy : workerJob[w].seq = n /\ working = {<<"worker", w>>}
    <2>1. client = {} \/ (mainJob.seq = n /\ client = {<<"client", 0>>})
      OBVIOUS
    <2>2. waiting = {} \/ \E i \in DOMAIN decodeList : decodeList[i].seq = n /\ waiting = {<<"decodeList", i>>}
      BY OnceOnTheLists
    <2>3. done = {} \/ \E i \in DOMAIN writeList : writeList[i].seq = n /\ done = {<<"writeList", i>>}
      BY OnceOnTheLists
    <2>4. working = {} \/ \E w \in Busy : workerJob[w].seq = n /\ working = {<<"worker", w>>}
      <3>1. \A w \in Workers : workerJob[w].seq = n => w \in Busy
        BY <1>1, <1>2 DEF JobsOK, HandsOK
      <3>2. \A v, w \in Busy : workerJob[v].seq = workerJob[w].seq => v = w
        BY DEF IInv, WorkersOK
      <3>3. CASE \E w \in Workers : workerJob[w].seq = n
        <4>1. PICK w \in Workers : workerJob[w].seq = n
          BY <3>3
        <4>2. \A v \in Workers : workerJob[v].seq = n => v = w
          BY <3>1, <3>2, <4>1
        <4>3. working = {<<"worker", w>>}
          BY <4>1, <4>2
        <4> QED BY <3>1, <4>1, <4>3
      <3>4. CASE ~\E w \in Workers : workerJob[w].seq = n
        BY <3>4
      <3> QED BY <3>3, <3>4
    <2> QED BY <2>1, <2>2, <2>3, <2>4
  <1>5. /\ mainJob.seq = n <=> client # {}
        /\ (\E job \in ToSet(decodeList) : job.seq = n) <=> waiting # {}
        /\ (\E w \in Workers : workerJob[w].seq = n) <=> working # {}
        /\ (\E job \in ToSet(writeList) : job.seq = n) <=> done # {}
    BY DEF ToSet
  <1> HIDE DEF client, waiting, working, done
  <1>6. /\ client # {} => waiting = {} /\ working = {} /\ done = {}
        /\ waiting # {} => working = {} /\ done = {}
        /\ working # {} => done = {}
    <2>1. client # {} => waiting = {}
      <3>1. ASSUME mainJob.seq = n, NEW job \in ToSet(decodeList), job.seq = n PROVE FALSE
        <4>1. mainJob.seq = -2 \/ mainJob.seq = Bound
          BY DEF JobsOK, IInv, TypeOK, HandsOK, ClientOK, Bound, NoJob
        <4> QED BY <3>1, <4>1, <1>1, ListedJobs
      <3> QED BY <3>1, <1>5
    <2>2. \A w \in Workers : workerJob[w].seq = n => w \in Busy
      BY <1>1, <1>2 DEF JobsOK, HandsOK
    <2>3. client # {} => working = {}
      BY <1>5, <2>2, NumbersApart DEF JobsOK
    <2>4. client # {} => done = {}
      BY <1>5, NumbersApart DEF JobsOK
    <2>5. waiting # {} => working = {}
      BY <1>5, <2>2, NumbersApart DEF JobsOK
    <2>6. waiting # {} => done = {}
      BY <1>5, NumbersApart DEF JobsOK
    <2>7. working # {} => done = {}
      BY <1>5, <2>2, NumbersApart DEF JobsOK
    <2> QED BY <2>1, <2>3, <2>4, <2>5, <2>6, <2>7
  <1>7. CASE n < seq
    <2>1. ~Waits(n)
      BY <1>1, <1>7 DEF JobsOK, NumbersOK
    <2>2. Places(n) = {}
      BY <2>1, <1>3, <1>5 DEF Waits
    <2> QED BY <2>2, <1>7, FS_EmptySet
  <1>8. CASE ~(n < seq)
    <2>1. Waits(n)
      BY <1>1, <1>8 DEF JobsOK, NumbersOK
    <2>2. client # {} \/ waiting # {} \/ working # {} \/ done # {}
      BY <2>1, <1>5 DEF Waits
    <2>3. \E place : Places(n) = {place}
      BY <2>2, <1>3, <1>4, <1>6
    <2> QED BY <2>3, <1>8, FS_Singleton
  <1> QED BY <1>7, <1>8

\* Every job that was numbered and not yet taken by the write thread is at one
\* place, and one that was taken is at none: nothing is lost or done twice between
\* the client, the decode threads and the two lists, with any number of threads,
\* input buffers and frames.
THEOREM NoJobIsLostOrDoneTwice == Spec => []EveryJobInOnePlace
  <1>1. IInv /\ JobsOK => EveryJobInOnePlace
    BY JobsAreInOnePlace
  <1> QED BY <1>1, InvariantHolds, JobsHold, PTL

LEMMA InBuffersHaveOneOwner ==
    ASSUME IInv, JobsOK, NEW s \in 1..Made(inPool), NEW users,
           users = {job \in HeldJobs : job.in = s /\ job.out = NoSpace}
                   \cup {workerJob[w] : w \in {w \in Workers : workerPc[w] = "decode" /\ workerJob[w].in = s}}
    PROVE  IF s \in inPool.free THEN users = {} ELSE Cardinality(users) = 1
  <1> USE DEF JobsOK
  <1>1. s \in Spaces(inPool) /\ s # NoSpace /\ \A t \in Spaces(outPool) : t # NoSpace
    BY SpacesAreNumbers DEF Spaces
  <1>2. NoJob.seq = -2 /\ NoJob.in = NoSpace /\ NoJob.out = NoSpace
    BY DEF NoJob
  <1> DEFINE Undecoded(job) == \/ job = mainJob \/ job \in ToSet(decodeList)
                               \/ \E w \in Workers : workerPc[w] \in {"getOut", "decode"} /\ job = workerJob[w]
  <1>3. ASSUME NEW job \in users PROVE Undecoded(job) /\ job.in = s /\ HasIn(job.seq, s) /\ job.seq \in Nat
    <2>1. job.in = s
      OBVIOUS
    <2>2. job # NoJob /\ job # Poison
      BY <1>1, <1>2, <2>1 DEF Poison, NoJob
    <2>3. CASE job = mainJob
      BY <2>1, <2>2, <2>3 DEF HandsOK, IInv, ClientOK, TypeOK, HasIn
    <2>4. CASE job \in ToSet(decodeList)
      BY <2>1, <2>2, <2>4, ListedJobs DEF ListedOK, HasIn
    <2>5. ASSUME NEW w \in Workers, job = workerJob[w], workerPc[w] \in {"getOut", "decode"}
          PROVE  Undecoded(job) /\ HasIn(job.seq, s) /\ job.seq \in Nat
      BY <2>1, <2>5, NumbersApart DEF Busy, HasIn
    <2>6. ASSUME job \in HeldJobs, job.out = NoSpace, job # mainJob, job \notin ToSet(decodeList)
          PROVE  \E w \in Workers : workerPc[w] \in {"getOut", "decode"} /\ job = workerJob[w]
      <3>1. job # writerJob
        BY <2>1, <2>2, <2>6, <1>1 DEF HandsOK, IInv, WriterOK
      <3>2. job \notin ToSet(writeList)
        BY <2>1, <2>6, <1>1, ListedJobs DEF ListedOK
      <3>3. PICK w \in Workers : job = workerJob[w]
        BY <2>6, <3>1, <3>2 DEF HeldJobs
      <3>4. w \in Busy /\ workerPc[w] # "insert"
        BY <2>1, <2>2, <2>6, <3>3, <1>1 DEF HandsOK, IInv, WorkerSpacesOK, Busy
      <3> QED BY <3>3, <3>4 DEF Busy
    <2>7. \/ job = mainJob \/ job \in ToSet(decodeList)
          \/ \E w \in Workers : workerPc[w] \in {"getOut", "decode"} /\ job = workerJob[w]
      BY <2>6
    <2> QED BY <2>1, <2>3, <2>4, <2>5, <2>7
  <1>4. ASSUME NEW a, NEW b, Undecoded(a), Undecoded(b), a.seq = b.seq, a.seq \in Nat PROVE a = b
    <2>1. mainJob.seq = -2 \/ mainJob.seq = Bound
      BY DEF IInv, TypeOK, HandsOK, ClientOK, Bound, NoJob
    <2>2. \A job \in ToSet(decodeList) : job.seq = a.seq => mainJob.seq # a.seq
      BY <2>1, <1>4, ListedJobs
    <2>3. ASSUME a \in ToSet(decodeList), b \in ToSet(decodeList) PROVE a = b
      BY <2>3, <1>4, OnceOnTheLists DEF ToSet
    <2>4. \A w \in Workers : workerPc[w] \in {"getOut", "decode"} => w \in Busy
      BY DEF Busy
    <2> QED BY <2>2, <2>3, <2>4, <1>4, NumbersApart
  <1>5. \A n \in Nat : HasIn(n, s) => \E job : job \in users /\ job.seq = n
    <2>1. ASSUME NEW n \in Nat, HasIn(n, s)
          PROVE  \E job : /\ job.seq = n /\ job.in = s
                          /\ \/ job \in HeldJobs /\ job.out = NoSpace
                             \/ \E w \in Workers : workerPc[w] = "decode" /\ job = workerJob[w]
      BY <2>1 DEF HasIn, HeldJobs, HandsOK, ListedOK
    <2> QED BY <2>1
  <1>6. CASE s \in inPool.free
    <2>1. \A n \in Nat : ~HasIn(n, s)
      BY <1>1, <1>6 DEF InBuffersOK
    <2> QED BY <2>1, <1>3, <1>6
  <1>7. CASE s \notin inPool.free
    <2> HIDE DEF Undecoded
    <2>1. PICK n \in Nat : HasIn(n, s)
      BY <1>1, <1>7 DEF InBuffersOK
    <2>2. PICK job : job \in users /\ job.seq = n
      BY <2>1, <1>5
    <2>3. ASSUME NEW other \in users PROVE other = job
      <3>1. other.seq = job.seq
        BY <2>1, <2>2, <1>1, <1>3 DEF InBuffersOK
      <3> QED BY <3>1, <2>2, <1>3, <1>4
    <2>4. users = {job}
      BY <2>2, <2>3
    <2> QED BY <2>4, <1>7, FS_Singleton
  <1> QED BY <1>6, <1>7

LEMMA OutBuffersHaveOneOwner ==
    ASSUME IInv, JobsOK, NEW s \in 1..Made(outPool), NEW users,
           users = {job \in HeldJobs : job.out = s}
    PROVE  IF s \in outPool.free THEN users = {} ELSE Cardinality(users) = 1
  <1> USE DEF JobsOK
  <1>1. s \in Spaces(outPool) /\ s # NoSpace
    BY SpacesAreNumbers DEF Spaces
  <1>2. NoJob.seq = -2 /\ NoJob.in = NoSpace /\ NoJob.out = NoSpace
    BY DEF NoJob
  <1> DEFINE Decoded(job) == \/ job = writerJob \/ job \in ToSet(writeList)
                             \/ \E w \in Workers : workerPc[w] \in {"decode", "insert"} /\ job = workerJob[w]
  <1>3. ASSUME NEW job \in users PROVE Decoded(job) /\ HasOut(job.seq, s) /\ job.seq \in Nat
    <2>1. job.out = s /\ job # NoJob /\ job \in HeldJobs
      BY <1>1, <1>2
    <2>2. job # mainJob /\ job \notin ToSet(decodeList)
      BY <2>1, <1>1 DEF HandsOK, ListedOK
    <2>3. CASE job = writerJob
      <3>1. seq \in Nat /\ seq > 0 /\ writerJob.seq = seq - 1
        BY <2>1, <2>3 DEF HandsOK, NumbersOK, IInv, TypeOK
      <3> QED BY <3>1, <2>1, <2>3 DEF HasOut
    <2>4. CASE job \in ToSet(writeList)
      BY <2>1, <2>4, NumbersApart DEF HasOut
    <2>5. CASE \E w \in Workers : job = workerJob[w]
      <3>1. PICK w \in Workers : job = workerJob[w]
        BY <2>5
      <3>2. w \in Busy /\ workerPc[w] \in {"decode", "insert"}
        BY <2>1, <3>1, <1>1 DEF HandsOK, Busy
      <3> QED BY <2>1, <3>1, <3>2, NumbersApart DEF HasOut
    <2> QED BY <2>1, <2>2, <2>3, <2>4, <2>5 DEF HeldJobs
  <1>4. ASSUME NEW a, NEW b, Decoded(a), Decoded(b), a.seq = b.seq, a.seq \in Nat PROVE a = b
    <2>1. writerJob.seq = a.seq => /\ \A job \in ToSet(writeList) : job.seq # a.seq
                                   /\ \A w \in Workers : workerJob[w].seq # a.seq
      <3>1. writerJob.seq = a.seq => a.seq < seq
        BY <1>2, <1>4 DEF HandsOK, NumbersOK, IInv, TypeOK
      <3> QED BY <3>1, <1>4 DEF NumbersOK, Waits
    <2>2. ASSUME a \in ToSet(writeList), b \in ToSet(writeList) PROVE a = b
      BY <2>2, <1>4, OnceOnTheLists DEF ToSet
    <2>3. \A w \in Workers : workerPc[w] \in {"decode", "insert"} => w \in Busy
      BY DEF Busy
    <2> QED BY <2>1, <2>2, <2>3, <1>4, NumbersApart
  <1>5. \A n \in Nat : HasOut(n, s) => \E job : job \in users /\ job.seq = n
    BY DEF HasOut, HeldJobs
  <1>6. CASE s \in outPool.free
    <2>1. \A n \in Nat : ~HasOut(n, s)
      BY <1>1, <1>6 DEF OutBuffersOK
    <2> QED BY <2>1, <1>3, <1>6
  <1>7. CASE s \notin outPool.free
    <2> HIDE DEF Decoded
    <2>1. PICK n \in Nat : HasOut(n, s)
      BY <1>1, <1>7 DEF OutBuffersOK
    <2>2. PICK job : job \in users /\ job.seq = n
      BY <2>1, <1>5
    <2>3. ASSUME NEW other \in users PROVE other = job
      <3>1. other.seq = job.seq
        BY <2>1, <2>2, <1>1, <1>3 DEF OutBuffersOK
      <3> QED BY <3>1, <2>2, <1>3, <1>4
    <2>4. users = {job}
      BY <2>2, <2>3
    <2> QED BY <2>4, <1>7, FS_Singleton
  <1> QED BY <1>6, <1>7

\* Every input buffer is free or belongs to one job that is not decoded yet, every
\* output buffer is free or belongs to one job: no buffer is handed to two threads
\* and none leaks, with any number of threads, buffers and frames.
THEOREM BuffersAreOwnedOnce == Spec => []BuffersHaveOneOwner
  <1>1. ASSUME IInv, JobsOK PROVE BuffersHaveOneOwner
    <2>1. Made(inPool) + inPool.limit = InLimit
      BY <1>1 DEF JobsOK, InBuffersOK
    <2> QED BY <1>1, <2>1, InBuffersHaveOneOwner, OutBuffersHaveOneOwner DEF BuffersHaveOneOwner
  <1> QED BY <1>1, InvariantHolds, JobsHold, PTL

-----------------------------------------------------------------------------
(* What is in the buffers, and what was delivered: the decoder implements  *)
(* FrameDelivery.                                                          *)

\* The job with number n has been decoded: its samples are in output buffer s, and
\* err tells whether the decoder rejected the frame.
Finished(n, s, err) ==
    \/ \E w \in Workers : /\ workerPc[w] = "insert" /\ workerJob[w].more
                          /\ workerJob[w].seq = n /\ workerJob[w].out = s /\ workerJob[w].err = err
    \/ \E job \in ToSet(writeList) : job.more /\ job.seq = n /\ job.out = s /\ job.err = err
    \/ writerPc = "deliver" /\ writerJob.seq = n /\ writerJob.out = s /\ writerJob.err = err

\* The buffers hold what belongs to the number of the job they are with.
InContentsOK == \A n \in Nat, s \in Spaces(inPool) : HasIn(n, s) => inPool.data[s] = n
OutContentsOK ==
    \A n \in Nat, s \in Spaces(outPool), err \in BOOLEAN :
       Finished(n, s, err) => outPool.data[s] = Decode(n) /\ (err <=> n \in BadFrames)

\* The jobs with a frame are the submitted ones, the last job is not among them.
FramesOK ==
    /\ \A job \in ToSet(decodeList) : job.more => job.seq < Submitted
    /\ \A job \in ToSet(writeList) : job.more => job.seq < Submitted
    /\ \A w \in Workers : workerJob[w].more => workerJob[w].seq < Submitted
    /\ writerJob.more => writerJob.seq < Submitted

SubmittedOK ==
    /\ mainPc = "getIn" => sequence < MaxFrames
    /\ mainPc \notin {"none", "idle", "getIn"} => sequence > 0
    /\ mainPc = "none" => writerPc \in {"absent", "returned"}

\* What was delivered belongs to the jobs that the write thread is done with.
DeliveredOK ==
    /\ Len(delivered) = IF writerPc \in {"deliver"} \cup Ended THEN seq - 1 ELSE seq
    /\ \A i \in 1..Len(delivered) : delivered[i] = ResultOf(i - 1)

DeliveryOK == InContentsOK /\ OutContentsOK /\ FramesOK /\ SubmittedOK /\ DeliveredOK


\* The samples of space s in a pool that was got from, written to, dropped into.
LEMMA PoolData ==
    ASSUME NEW pool, Sound(pool)
    PROVE  /\ \A space \in Available(pool) : \A s \in Spaces(pool) :
                 AfterGet(pool, space).data[s] = pool.data[s]
           /\ \A space \in Spaces(pool), content \in Contents : \A s \in Spaces(pool) :
                 /\ Fill(pool, space, content).data[s] = IF s = space THEN content ELSE pool.data[s]
                 /\ s # space => AfterDrop(pool, space).data[s] = pool.data[s]
  <1>1. /\ pool \in Pools /\ Len(pool.data) \in Nat /\ pool.data \in Seq(Contents)
        /\ Spaces(pool) = 1..Len(pool.data) /\ pool.free \subseteq Spaces(pool)
    BY DEF Sound, Pools, Spaces, Made
  <1>2. ASSUME NEW space \in Available(pool), NEW s \in Spaces(pool)
        PROVE  AfterGet(pool, space).data[s] = pool.data[s]
    <2>1. CASE space \in pool.free
      BY <2>1, <1>1 DEF AfterGet, Pools
    <2>2. CASE space \notin pool.free
      <3>1. Append(pool.data, Garbage)[s] = pool.data[s]
        BY <1>1
      <3>2. AfterGet(pool, space).data = Append(pool.data, Garbage)
        BY <2>2, <1>1 DEF AfterGet, Pools
      <3> QED BY <3>1, <3>2
    <2> QED BY <2>1, <2>2
  <1>3. ASSUME NEW space \in Spaces(pool), NEW content \in Contents, NEW s \in Spaces(pool)
        PROVE  /\ Fill(pool, space, content).data[s] = IF s = space THEN content ELSE pool.data[s]
               /\ s # space => AfterDrop(pool, space).data[s] = pool.data[s]
    <2>1. Fill(pool, space, content).data = [pool.data EXCEPT ![space] = content]
      BY <1>1 DEF Fill, Pools
    <2>2. AfterDrop(pool, space).data = [pool.data EXCEPT ![space] = Garbage]
      BY <1>1 DEF AfterDrop, Pools
    <2> QED BY <1>1, <2>1, <2>2
  <1> QED BY <1>2, <1>3

LEMMA InContentsStay ==
    ASSUME InContentsOK, Spaces(inPool)' = Spaces(inPool),
           \A n \in Nat, s \in Spaces(inPool) :
              HasIn(n, s)' => HasIn(n, s) /\ inPool'.data[s] = inPool.data[s]
    PROVE  InContentsOK'
  BY DEF InContentsOK

LEMMA OutContentsStay ==
    ASSUME OutContentsOK, Spaces(outPool)' = Spaces(outPool),
           \A n \in Nat, s \in Spaces(outPool), err \in BOOLEAN :
              Finished(n, s, err)' => Finished(n, s, err) /\ outPool'.data[s] = outPool.data[s]
    PROVE  OutContentsOK'
  BY DEF OutContentsOK

LEMMA DeliveredStay ==
    ASSUME DeliveredOK, UNCHANGED <<delivered, seq, writerPc>> PROVE DeliveredOK'
  BY DEF DeliveredOK

LEMMA FrameFinished ==
    ASSUME IInv, JobsOK, NEW n \in Nat, NEW s, NEW err, Finished(n, s, err)
    PROVE  HasOut(n, s)
  BY DEF Finished, HasOut

LEMMA CreateKeepsDelivery == ASSUME Create PROVE DeliveryOK'
  <1>1. /\ mainPc' = "idle" /\ sequence' = 0 /\ decodeList' = <<>> /\ writeList' = <<>>
        /\ inPool' = EmptyPool(InLimit) /\ outPool' = EmptyPool(NoLimit)
        /\ workerJob' = [w \in Workers |-> NoJob]
        /\ writerPc' = "getJob" /\ seq' = 0 /\ writerJob' = NoJob /\ delivered' = <<>>
    BY DEF Create
  <1>2. ~NoJob.more /\ ToSet(decodeList') = {} /\ ToSet(writeList') = {}
    BY <1>1 DEF NoJob, ToSet
  <1>3. Spaces(inPool)' = {} /\ Spaces(outPool)' = {}
    BY <1>1 DEF Spaces, Made, EmptyPool
  <1>4. InContentsOK' /\ OutContentsOK'
    BY <1>3 DEF InContentsOK, OutContentsOK
  <1>5. FramesOK' /\ SubmittedOK'
    BY <1>1, <1>2 DEF FramesOK, SubmittedOK
  <1>6. DeliveredOK'
    BY <1>1 DEF DeliveredOK, Ended
  <1> QED BY <1>4, <1>5, <1>6 DEF DeliveryOK

LEMMA InitDelivery == Init => DeliveryOK
  <1> SUFFICES ASSUME Init PROVE DeliveryOK
    OBVIOUS
  <1>1. /\ mainPc = "none" /\ sequence = 0 /\ decodeList = <<>> /\ writeList = <<>>
        /\ inPool = EmptyPool(InLimit) /\ outPool = EmptyPool(NoLimit)
        /\ workerJob = [w \in Workers |-> NoJob]
        /\ writerPc = "absent" /\ seq = 0 /\ writerJob = NoJob /\ delivered = <<>>
    BY DEF Init
  <1>2. ~NoJob.more /\ ToSet(decodeList) = {} /\ ToSet(writeList) = {}
    BY <1>1 DEF NoJob, ToSet
  <1>3. Spaces(inPool) = {} /\ Spaces(outPool) = {}
    BY <1>1 DEF Spaces, Made, EmptyPool
  <1>4. InContentsOK /\ OutContentsOK
    BY <1>3 DEF InContentsOK, OutContentsOK
  <1>5. FramesOK /\ SubmittedOK
    BY <1>1, <1>2 DEF FramesOK, SubmittedOK
  <1>6. DeliveredOK
    BY <1>1 DEF DeliveredOK, Ended
  <1> QED BY <1>4, <1>5, <1>6 DEF DeliveryOK

\* The client's steps that touch no pool.
LEMMA ClientKeepsDelivery ==
    ASSUME IInv, JobsOK, DeliveryOK,
           \/ CallDecode \/ CallDestroy \/ Launch \/ Enqueue
           \/ JoinWriter \/ SendHome \/ Pause \/ FreePools \/ FreeDecoder
    PROVE  DeliveryOK'
  <1> USE DEF DeliveryOK, JobsOK
  <1>1. /\ UNCHANGED <<writeList, inPool, outPool, workerJob, writerPc, seq, writerJob, delivered>>
        /\ \A w \in Workers : workerPc'[w] # workerPc[w] => workerPc'[w] = "getJob"
    <2>1. CASE Launch
      BY <2>1 DEF Launch, poolVars, writerVars, IInv, TypeOK
    <2>2. CASE \/ CallDecode \/ CallDestroy \/ Enqueue \/ JoinWriter \/ SendHome \/ Pause
               \/ FreePools \/ FreeDecoder
      BY <2>2 DEF CallDecode, CallDestroy, Enqueue, JoinWriter, SendHome, Pause, FreePools,
                  FreeDecoder, poolVars, workerVars, writerVars
    <2> QED BY <2>1, <2>2
  <1>2. /\ NoJob.seq = -2 /\ NoJob.in = NoSpace /\ ~NoJob.more /\ Poison.seq = -1 /\ ~Poison.more
        /\ sequence \in Nat /\ mainJob.seq \in Int
    BY JobSeq DEF NoJob, Poison, IInv, TypeOK
  <1>3. \/ /\ mainPc = "idle" /\ mainPc' \in {"getIn", "launch"} /\ mainJob = NoJob
           /\ mainJob'.in = NoSpace /\ ToSet(decodeList') = ToSet(decodeList)
           /\ mainPc' = "getIn" => sequence' = sequence /\ sequence < MaxFrames
           /\ mainPc' = "launch" => sequence' = sequence + 1 /\ ~mainJob'.more
        \/ /\ mainPc = "launch" /\ mainPc' = "enqueue" /\ sequence' = sequence
           /\ mainJob' = mainJob /\ ToSet(decodeList') = ToSet(decodeList)
        \/ /\ mainPc = "enqueue" /\ sequence' = sequence /\ mainJob' = NoJob
           /\ mainPc' = IF mainJob.more THEN "idle" ELSE "joinWriter"
           /\ ToSet(decodeList') \subseteq ToSet(decodeList) \cup {mainJob}
        \/ /\ mainPc \in {"joinWriter", "poison", "pause", "freePools", "freeLocks"}
           /\ sequence' = sequence /\ mainJob' = mainJob
           /\ mainPc' \in {"poison", "pause", "freePools", "freeLocks", "none", "assertFailed"}
           /\ mainPc' = "none" => mainPc = "freeLocks"
           /\ ToSet(decodeList') \subseteq ToSet(decodeList) \cup {Poison}
    <2>1. CASE CallDecode \/ CallDestroy
      BY <2>1 DEF CallDecode, CallDestroy, NoJob, HandsOK
    <2>2. CASE Launch
      BY <2>2 DEF Launch
    <2>3. CASE Enqueue
      BY <2>3, SetOfAppended DEF Enqueue, IInv, TypeOK
    <2>4. CASE SendHome
      <3>1. DOMAIN <<Poison>> = {1} /\ <<Poison>>[1] = Poison
        OBVIOUS
      <3> QED BY <2>4, <3>1 DEF SendHome, ToSet
    <2>5. CASE JoinWriter \/ Pause \/ FreePools \/ FreeDecoder
      BY <2>5 DEF JoinWriter, Pause, FreePools, FreeDecoder
    <2> QED BY <2>1, <2>2, <2>3, <2>4, <2>5
  <1>4. \A n \in Nat, s \in Spaces(inPool) : HasIn(n, s)' => HasIn(n, s)
    <2>1. \A s \in Spaces(inPool) : s # NoSpace
      BY SpacesAreNumbers
    <2> QED BY <2>1, <1>1, <1>2, <1>3 DEF HasIn
  <1>5. InContentsOK'
    BY <1>1, <1>4, InContentsStay
  <1>6. OutContentsOK'
    <2>1. \A n \in Nat, s \in Spaces(outPool), err \in BOOLEAN : Finished(n, s, err)' => Finished(n, s, err)
      BY <1>1 DEF Finished
    <2> QED BY <1>1, <2>1, OutContentsStay
  <1>7. Submitted' = Submitted
    BY <1>2, <1>3 DEF Submitted, Submitting, SubmittedOK, HandsOK
  <1>8. FramesOK'
    <2>1. \A job \in ToSet(decodeList') : job.more => job \in ToSet(decodeList) \/ (job = mainJob /\ mainPc = "enqueue")
      BY <1>2, <1>3
    <2>2. mainPc = "enqueue" /\ mainJob.more => mainJob.seq < Submitted
      BY <1>2 DEF Submitted, Submitting, IInv, ClientOK
    <2> QED BY <1>1, <1>7, <2>1, <2>2 DEF FramesOK
  <1>9. SubmittedOK'
    BY <1>1, <1>2, <1>3 DEF SubmittedOK, AfterwardsOK
  <1> QED BY <1>1, <1>5, <1>6, <1>8, <1>9, DeliveredStay


LEMMA GetInKeepsDelivery == ASSUME IInv, JobsOK, DeliveryOK, GetIn PROVE DeliveryOK'
  <1> USE DEF DeliveryOK, JobsOK
  <1>1. PICK space \in Available(inPool) :
           /\ mainJob' = [mainJob EXCEPT !.in = space]
           /\ inPool' = Fill(AfterGet(inPool, space), space, sequence)
    BY DEF GetIn
  <1>2. /\ mainPc = "getIn" /\ mainPc' = "launch" /\ sequence' = sequence + 1
        /\ UNCHANGED <<decodeList, writeList, outPool, workerPc, workerJob, writerPc, seq, writerJob, delivered>>
    BY DEF GetIn, workerVars, writerVars
  <1>3. /\ Sound(inPool) /\ Sound(AfterGet(inPool, space)) /\ space \in Spaces(AfterGet(inPool, space))
        /\ sequence \in Contents /\ sequence \in Nat /\ space \in Nat
        /\ mainJob.seq = sequence /\ mainJob.in = NoSpace /\ mainJob.more /\ mainJob \in Jobs
        /\ Spaces(inPool) \subseteq Spaces(AfterGet(inPool, space))
    BY <1>2, GetIsSound DEF IInv, PoolsOK, TypeOK, Contents, ClientOK, HandsOK
  <1>4. Spaces(inPool') = Spaces(AfterGet(inPool, space))
    BY <1>1, <1>3, FillIsSound
  <1>5. mainJob'.seq = sequence /\ mainJob'.in = space /\ mainJob'.more
    BY <1>1, <1>3, ChangedJob
  <1>6. inPool'.data[space] = sequence
    BY <1>1, <1>3, PoolData
  <1>7. \A s \in Spaces(inPool) : s # space => inPool'.data[s] = inPool.data[s]
    <2>1. \A s \in Spaces(inPool) : AfterGet(inPool, space).data[s] = inPool.data[s]
      BY <1>3, PoolData
    <2> QED BY <2>1, <1>1, <1>3, PoolData
  <1>8. InContentsOK'
    <2> SUFFICES ASSUME NEW n \in Nat, NEW s \in Spaces(inPool'), HasIn(n, s)' PROVE inPool'.data[s] = n
      BY DEF InContentsOK
    <2>1. HasIn(n, s) \/ (n = sequence /\ s = space)
      BY <1>2, <1>5 DEF HasIn
    <2>2. CASE s = space
      <3>1. s # NoSpace /\ JobsOK'
        <4>1. IInv' /\ JobsOK'
          BY GetInKeepsIInv, GetInKeepsJobs
        <4> QED BY <4>1, <2>2, <1>3, <1>4 DEF Spaces, NoSpace
      <3>2. PICK number \in Nat : number = sequence
        BY <1>3
      <3>3. HasIn(number, space)' /\ HasIn(n, space)' /\ space \in Spaces(inPool)'
        BY <1>3, <1>4, <1>5, <2>2, <3>2 DEF HasIn, Spaces
      <3>4. n = number
        BY <3>1, <3>3 DEF InBuffersOK
      <3> QED BY <3>2, <3>4, <2>2, <1>6
    <2>3. CASE s # space
      <3>1. HasIn(n, s)
        BY <2>1, <2>3
      <3>2. s \in Spaces(inPool)
        <4>1. s # NoSpace
          BY <1>3, <1>4 DEF Spaces, NoSpace, Sound
        <4> QED BY <3>1, <4>1, BuffersAreSpaces
      <3> QED BY <3>1, <3>2, <2>3, <1>7 DEF InContentsOK
    <2> QED BY <2>2, <2>3
  <1>9. OutContentsOK'
    <2>1. \A n \in Nat, s \in Spaces(outPool), err \in BOOLEAN : Finished(n, s, err)' => Finished(n, s, err)
      BY <1>2 DEF Finished
    <2> QED BY <1>2, <2>1, OutContentsStay
  <1>10. Submitted = sequence /\ Submitted' = sequence + 1
    BY <1>2, <1>5 DEF Submitted, Submitting
  <1>11. FramesOK'
    <2>1. \A k \in Int : k < Submitted => k < Submitted'
      BY <1>3, <1>10
    <2>2. /\ \A job \in ToSet(decodeList) \cup ToSet(writeList) \cup {writerJob} : job.seq \in Int
          /\ \A w \in Workers : workerJob[w].seq \in Int
      BY ListedJobs, JobSeq DEF IInv, TypeOK
    <2> QED BY <1>2, <2>1, <2>2 DEF FramesOK
  <1>12. SubmittedOK'
    BY <1>2, <1>3 DEF SubmittedOK
  <1> QED BY <1>2, <1>8, <1>9, <1>11, <1>12, DeliveredStay

LEMMA SubmittedStays ==
    ASSUME UNCHANGED <<mainPc, mainJob, sequence>>
    PROVE  Submitted' = Submitted
  BY DEF Submitted, Submitting

LEMMA TakeJobKeepsDelivery ==
    ASSUME IInv, JobsOK, DeliveryOK, NEW w \in Workers, TakeJob(w) PROVE DeliveryOK'
  <1> USE DEF DeliveryOK, JobsOK
  <1>0. PICK job : job = Head(decodeList)
    OBVIOUS
  <1>1. /\ workerPc[w] = "getJob" /\ decodeHave # 0 /\ job.seq # -1
        /\ workerJob' = [workerJob EXCEPT ![w] = job]
        /\ workerPc' = [workerPc EXCEPT ![w] = IF job.more THEN "getOut" ELSE "insert"]
        /\ decodeList' = Tail(decodeList)
        /\ UNCHANGED <<mainPc, mainJob, sequence, writeList, inPool, outPool,
                       writerPc, seq, writerJob, delivered>>
    BY <1>0 DEF TakeJob, mainVars, poolVars, writerVars
  <1>2. ToSet(decodeList) = {job} \cup ToSet(decodeList') /\ job \in Jobs
    <2>1. decodeList \in Seq(Jobs) /\ decodeList # <<>>
      BY <1>1 DEF IInv, TypeOK, LocksDescribeLists
    <2> QED BY <1>0, <1>1, <2>1, SetOfTail
  <1>3. /\ workerJob'[w] = job /\ workerPc'[w] = IF job.more THEN "getOut" ELSE "insert"
        /\ \A v \in Workers : v # w => workerPc'[v] = workerPc[v] /\ workerJob'[v] = workerJob[v]
    BY <1>1 DEF IInv, TypeOK
  <1>4. InContentsOK'
    <2>1. \A n \in Nat, s \in Spaces(inPool) : HasIn(n, s)' => HasIn(n, s)
      BY <1>1, <1>2, <1>3 DEF HasIn
    <2> QED BY <1>1, <2>1, InContentsStay
  <1>5. OutContentsOK'
    <2>1. \A n \in Nat, s \in Spaces(outPool), err \in BOOLEAN : Finished(n, s, err)' => Finished(n, s, err)
      BY <1>1, <1>3 DEF Finished
    <2> QED BY <1>1, <2>1, OutContentsStay
  <1>6. FramesOK'
    BY <1>1, <1>2, <1>3, SubmittedStays DEF FramesOK
  <1>7. SubmittedOK'
    BY <1>1 DEF SubmittedOK
  <1> QED BY <1>1, <1>4, <1>5, <1>6, <1>7, DeliveredStay

LEMMA TakePoisonKeepsDelivery ==
    ASSUME IInv, JobsOK, DeliveryOK, NEW w \in Workers, TakePoison(w) PROVE DeliveryOK'
  <1> USE DEF DeliveryOK, JobsOK
  <1>1. /\ UNCHANGED <<mainPc, mainJob, sequence, decodeList, writeList, inPool, outPool, workerJob,
                       writerPc, seq, writerJob, delivered>>
        /\ \A v \in Workers : workerPc'[v] = IF v = w THEN "returned" ELSE workerPc[v]
    BY DEF TakePoison, mainVars, poolVars, writerVars, IInv, TypeOK
  <1>2. InContentsOK'
    <2>1. \A n \in Nat, s \in Spaces(inPool) : HasIn(n, s)' => HasIn(n, s)
      BY <1>1 DEF HasIn
    <2> QED BY <1>1, <2>1, InContentsStay
  <1>3. OutContentsOK'
    <2>1. \A n \in Nat, s \in Spaces(outPool), err \in BOOLEAN : Finished(n, s, err)' => Finished(n, s, err)
      BY <1>1 DEF Finished
    <2> QED BY <1>1, <2>1, OutContentsStay
  <1>4. FramesOK' /\ SubmittedOK'
    BY <1>1, SubmittedStays DEF FramesOK, SubmittedOK
  <1> QED BY <1>1, <1>2, <1>3, <1>4, DeliveredStay


LEMMA GetOutKeepsDelivery ==
    ASSUME IInv, JobsOK, DeliveryOK, NEW w \in Workers, GetOut(w) PROVE DeliveryOK'
  <1> USE DEF DeliveryOK, JobsOK
  <1>1. PICK space \in Available(outPool) :
           /\ workerJob' = [workerJob EXCEPT ![w].out = space]
           /\ outPool' = AfterGet(outPool, space)
    BY DEF GetOut
  <1>2. /\ workerPc[w] = "getOut" /\ workerPc' = [workerPc EXCEPT ![w] = "decode"]
        /\ UNCHANGED <<mainPc, mainJob, sequence, decodeList, writeList, inPool, writerPc, seq,
                       writerJob, delivered>>
    BY DEF GetOut, mainVars, writerVars
  <1>3. PICK job \in Jobs : job = workerJob[w]
    BY DEF IInv, TypeOK
  <1>4. /\ Sound(outPool) /\ space \in Nat
        /\ Spaces(outPool) \subseteq Spaces(outPool')
    BY <1>1, GetIsSound DEF IInv, PoolsOK
  <1>5. /\ workerPc'[w] = "decode" /\ workerJob'[w].seq = job.seq /\ workerJob'[w].in = job.in
        /\ workerJob'[w].more = job.more
        /\ \A v \in Workers : v # w => workerPc'[v] = workerPc[v] /\ workerJob'[v] = workerJob[v]
    <2>1. workerJob \in [Workers -> Jobs] /\ workerPc \in [Workers -> WorkerPcs]
      BY DEF IInv, TypeOK
    <2>2. workerJob'[w] = [job EXCEPT !.out = space]
      BY <1>1, <1>3, <2>1
    <2> QED BY <1>1, <1>2, <1>3, <1>4, <2>1, <2>2, ChangedJob
  <1>6. InContentsOK'
    <2>1. \A n \in Nat, s \in Spaces(inPool) : HasIn(n, s)' => HasIn(n, s)
      BY <1>2, <1>3, <1>5 DEF HasIn
    <2> QED BY <1>2, <2>1, InContentsStay
  <1>7. OutContentsOK'
    <2> SUFFICES ASSUME NEW n \in Nat, NEW s \in Spaces(outPool'), NEW err \in BOOLEAN, Finished(n, s, err)'
                 PROVE  outPool'.data[s] = Decode(n) /\ (err <=> n \in BadFrames)
      BY DEF OutContentsOK
    <2>1. Finished(n, s, err)
      BY <1>2, <1>5 DEF Finished
    <2>2. s \in Spaces(outPool)
      <3>1. HasOut(n, s) /\ s # NoSpace
        BY <2>1, FrameFinished DEF Spaces, NoSpace
      <3> QED BY <3>1, BuffersAreSpaces
    <2>3. outPool'.data[s] = outPool.data[s]
      BY <1>1, <1>4, <2>2, PoolData
    <2> QED BY <2>1, <2>2, <2>3 DEF OutContentsOK
  <1>8. FramesOK' /\ SubmittedOK'
    BY <1>2, <1>3, <1>5, SubmittedStays DEF FramesOK, SubmittedOK
  <1> QED BY <1>2, <1>6, <1>7, <1>8, DeliveredStay

LEMMA DecodeFrameKeepsDelivery ==
    ASSUME IInv, JobsOK, DeliveryOK, NEW w \in Workers, DecodeFrame(w) PROVE DeliveryOK'
  <1> USE DEF DeliveryOK, JobsOK
  <1>1. PICK job \in Jobs : job = workerJob[w]
    BY DEF IInv, TypeOK
  <1>2. PICK frame : frame = inPool.data[job.in]
    OBVIOUS
  <1>3. /\ workerPc[w] = "decode" /\ workerPc' = [workerPc EXCEPT ![w] = "insert"]
        /\ outPool' = Fill(outPool, job.out, Decode(frame))
        /\ workerJob' = [workerJob EXCEPT ![w].err = frame \in BadFrames]
        /\ inPool' = AfterDrop(inPool, job.in)
        /\ UNCHANGED <<mainPc, mainJob, sequence, decodeList, writeList, writerPc, seq, writerJob, delivered>>
    BY <1>1, <1>2 DEF DecodeFrame, mainVars, writerVars
  <1>4. /\ job.in \in Spaces(inPool) /\ job.out \in Spaces(outPool) /\ w \in Busy
        /\ Sound(inPool) /\ Sound(outPool)
    BY <1>1, <1>3 DEF IInv, WorkerSpacesOK, Busy, PoolsOK
  \* The frame in the buffer is the job's own.
  <1>5. job.seq \in Nat /\ HasIn(job.seq, job.in) /\ HasOut(job.seq, job.out) /\ frame = job.seq
    <2>1. job.seq \in Nat /\ HasIn(job.seq, job.in) /\ HasOut(job.seq, job.out)
      BY <1>1, <1>3, <1>4, NumbersApart DEF HasIn, HasOut
    <2> QED BY <2>1, <1>2, <1>4 DEF InContentsOK
  <1>6. Decode(frame) \in Contents
    BY <1>5 DEF Decode, Contents
  <1>7. /\ Spaces(outPool)' = Spaces(outPool) /\ Spaces(inPool)' = Spaces(inPool)
        /\ outPool'.data[job.out] = Decode(frame)
        /\ \A s \in Spaces(outPool) : s # job.out => outPool'.data[s] = outPool.data[s]
        /\ \A s \in Spaces(inPool) : s # job.in => inPool'.data[s] = inPool.data[s]
    <2>1. Spaces(outPool') = Spaces(outPool) /\ Spaces(inPool') = Spaces(inPool)
      BY <1>3, <1>4, <1>6, FillIsSound, DropIsSound
    <2>2. /\ outPool'.data[job.out] = Decode(frame)
          /\ \A s \in Spaces(outPool) : s # job.out => outPool'.data[s] = outPool.data[s]
      BY <1>3, <1>4, <1>6, PoolData
    <2>3. \A s \in Spaces(inPool) : s # job.in => inPool'.data[s] = inPool.data[s]
      BY <1>3, <1>4, <1>6, PoolData
    <2> QED BY <2>1, <2>2, <2>3 DEF Spaces, Made
  <1>8. /\ workerPc'[w] = "insert" /\ workerJob'[w].out = job.out /\ workerJob'[w].seq = job.seq
        /\ workerJob'[w].more = job.more /\ workerJob'[w].err = (frame \in BadFrames)
        /\ \A v \in Workers : v # w => workerPc'[v] = workerPc[v] /\ workerJob'[v] = workerJob[v]
    <2>1. workerJob \in [Workers -> Jobs] /\ workerPc \in [Workers -> WorkerPcs]
      BY DEF IInv, TypeOK
    <2> DEFINE failed == frame \in BadFrames
    <2>2. failed \in BOOLEAN
      OBVIOUS
    <2>3. workerJob' = [workerJob EXCEPT ![w].err = failed]
      BY <1>3
    <2> HIDE DEF failed
    <2>4. workerJob'[w] = [job EXCEPT !.err = failed]
      BY <1>1, <2>1, <2>3
    <2>5. PICK done : done = [job EXCEPT !.err = failed]
      OBVIOUS
    <2>6. done.out = job.out /\ done.seq = job.seq /\ done.more = job.more /\ done.err = failed
      BY <2>2, <2>5, ChangedJob DEF Jobs
    <2>7. \A v \in Workers : v # w => workerPc'[v] = workerPc[v] /\ workerJob'[v] = workerJob[v]
      BY <1>3, <2>1, <2>3
    <2>8. workerPc'[w] = "insert"
      BY <1>3, <2>1
    <2>9. /\ workerJob'[w].out = job.out /\ workerJob'[w].seq = job.seq
          /\ workerJob'[w].more = job.more /\ workerJob'[w].err = failed
      BY <2>4, <2>5, <2>6
    <2> QED BY <2>7, <2>8, <2>9 DEF failed
  <1>9. InContentsOK'
    <2> SUFFICES ASSUME NEW n \in Nat, NEW s \in Spaces(inPool), HasIn(n, s)'
                 PROVE  inPool'.data[s] = n
      BY <1>7 DEF InContentsOK
    <2>1. HasIn(n, s) /\ n # job.seq
      <3>1. /\ mainJob.seq # job.seq /\ \A other \in ToSet(decodeList) : other.seq # job.seq
            /\ \A v \in Workers : v # w /\ workerPc[v] \in {"getOut", "decode"} => workerJob[v].seq # job.seq
        BY <1>1, <1>4, NumbersApart DEF Busy
      <3> QED BY <3>1, <1>1, <1>3, <1>8 DEF HasIn
    <2>2. s # job.in
      BY <2>1, <1>4, <1>5 DEF InBuffersOK
    <2> QED BY <2>1, <2>2, <1>7 DEF InContentsOK
  <1>10. OutContentsOK'
    <2> SUFFICES ASSUME NEW n \in Nat, NEW s \in Spaces(outPool), NEW err \in BOOLEAN, Finished(n, s, err)'
                 PROVE  outPool'.data[s] = Decode(n) /\ (err <=> n \in BadFrames)
      BY <1>7 DEF OutContentsOK
    <2>1. CASE n = job.seq /\ s = job.out /\ err = (frame \in BadFrames)
      BY <2>1, <1>5, <1>7
    <2>2. CASE Finished(n, s, err)
      <3>1. n # job.seq
        <4>1. /\ \A other \in ToSet(writeList) : other.seq # job.seq
              /\ \A v \in Workers : workerPc[v] = "insert" => workerJob[v].seq # job.seq
          BY <1>1, <1>3, <1>4, NumbersApart DEF Busy
        <4>2. writerPc = "deliver" => writerJob.seq # job.seq
          <5>1. Waits(job.seq)
            BY <1>1 DEF Waits
          <5> QED BY <5>1, <1>5 DEF NumbersOK, IInv, TypeOK
        <4> QED BY <4>1, <4>2, <2>2 DEF Finished
      <3>2. HasOut(n, s)
        BY <2>2, FrameFinished
      <3>3. s # job.out
        BY <3>1, <3>2, <1>4, <1>5 DEF OutBuffersOK
      <3> QED BY <2>2, <3>3, <1>7 DEF OutContentsOK
    <2> QED BY <2>1, <2>2, <1>3, <1>8 DEF Finished
  <1>11. FramesOK' /\ SubmittedOK'
    BY <1>1, <1>3, <1>8, SubmittedStays DEF FramesOK, SubmittedOK
  <1> QED BY <1>3, <1>9, <1>10, <1>11, DeliveredStay

LEMMA InsertJobKeepsDelivery ==
    ASSUME IInv, JobsOK, DeliveryOK, NEW w \in Workers, InsertJob(w) PROVE DeliveryOK'
  <1> USE DEF DeliveryOK, JobsOK
  <1>1. PICK job \in Jobs : job = workerJob[w]
    BY DEF IInv, TypeOK
  <1>2. /\ workerPc[w] = "insert" /\ workerPc' = [workerPc EXCEPT ![w] = "getJob"]
        /\ workerJob' = [workerJob EXCEPT ![w] = NoJob]
        /\ ToSet(writeList') = ToSet(writeList) \cup {job}
        /\ UNCHANGED <<mainPc, mainJob, sequence, decodeList, inPool, outPool,
                       writerPc, seq, writerJob, delivered>>
    BY <1>1, SetOfInserted DEF InsertJob, mainVars, poolVars, writerVars, IInv, TypeOK
  <1>3. /\ workerPc'[w] = "getJob" /\ workerJob'[w] = NoJob /\ ~NoJob.more
        /\ \A v \in Workers : v # w => workerPc'[v] = workerPc[v] /\ workerJob'[v] = workerJob[v]
    BY <1>2 DEF IInv, TypeOK, NoJob
  <1>4. InContentsOK'
    <2>1. \A n \in Nat, s \in Spaces(inPool) : HasIn(n, s)' => HasIn(n, s)
      BY <1>2, <1>3 DEF HasIn
    <2> QED BY <1>2, <2>1, InContentsStay
  <1>5. OutContentsOK'
    <2>1. \A n \in Nat, s \in Spaces(outPool), err \in BOOLEAN : Finished(n, s, err)' => Finished(n, s, err)
      BY <1>1, <1>2, <1>3 DEF Finished
    <2> QED BY <1>2, <2>1, OutContentsStay
  <1>6. FramesOK' /\ SubmittedOK'
    BY <1>1, <1>2, <1>3, SubmittedStays DEF FramesOK, SubmittedOK
  <1> QED BY <1>2, <1>4, <1>5, <1>6, DeliveredStay


LEMMA TakeResultKeepsDelivery ==
    ASSUME IInv, JobsOK, DeliveryOK, TakeResult PROVE DeliveryOK'
  <1> USE DEF DeliveryOK, JobsOK
  <1>0. PICK job : job = Head(writeList)
    OBVIOUS
  <1>1. /\ writerPc = "getJob" /\ writerJob' = job /\ writeList' = Tail(writeList)
        /\ writerPc' = IF job.more THEN "deliver" ELSE "verify"
        /\ seq' = seq + 1 /\ writeFirst = seq
        /\ UNCHANGED <<mainPc, mainJob, sequence, decodeList, inPool, outPool,
                       workerPc, workerJob, delivered>>
    BY <1>0 DEF TakeResult, mainVars, poolVars, workerVars
  <1>2. writeList # <<>> /\ writeList \in Seq(Jobs) /\ seq \in Nat
    BY <1>1 DEF IInv, TypeOK, LocksDescribeLists, FirstSeq
  <1>3. ToSet(writeList) = {job} \cup ToSet(writeList')
    BY <1>0, <1>1, <1>2, SetOfTail
  <1>4. InContentsOK'
    <2>1. \A n \in Nat, s \in Spaces(inPool) : HasIn(n, s)' => HasIn(n, s)
      BY <1>1 DEF HasIn
    <2> QED BY <1>1, <2>1, InContentsStay
  <1>5. OutContentsOK'
    <2>1. \A n \in Nat, s \in Spaces(outPool), err \in BOOLEAN : Finished(n, s, err)' => Finished(n, s, err)
      BY <1>1, <1>3 DEF Finished
    <2> QED BY <1>1, <2>1, OutContentsStay
  <1>6. FramesOK'
    BY <1>1, <1>3, SubmittedStays DEF FramesOK
  <1>7. SubmittedOK'
    BY <1>1 DEF SubmittedOK
  <1>8. DeliveredOK'
    BY <1>1, <1>2 DEF DeliveredOK, Ended
  <1> QED BY <1>4, <1>5, <1>6, <1>7, <1>8

\* What the callbacks get is the decoding of the frame that is due.
LEMMA DeliveredFrame ==
    ASSUME IInv, JobsOK, DeliveryOK, Deliver
    PROVE  /\ Len(delivered) = seq - 1 /\ seq \in Nat /\ seq > 0
           /\ seq - 1 < Submitted
           /\ delivered' = Append(delivered, ResultOf(seq - 1))
  <1> USE DEF DeliveryOK, JobsOK
  <1>1. /\ writerPc = "deliver" /\ seq \in Nat /\ seq > 0 /\ writerJob.seq = seq - 1 /\ writerJob.more
        /\ writerJob.out \in Spaces(outPool) /\ writerJob.err \in BOOLEAN
    BY DEF Deliver, IInv, TypeOK, Jobs, HandsOK, NumbersOK, WriterOK
  <1>2. Finished(seq - 1, writerJob.out, writerJob.err)
    BY <1>1 DEF Finished
  <1>3. outPool.data[writerJob.out] = Decode(seq - 1) /\ writerJob.err = (seq - 1 \in BadFrames)
    <2>1. PICK n \in Nat : n = seq - 1
      BY <1>1
    <2>2. outPool.data[writerJob.out] = Decode(n) /\ (writerJob.err <=> n \in BadFrames)
      BY <1>1, <1>2, <2>1 DEF OutContentsOK
    <2> QED BY <1>1, <2>1, <2>2
  <1>4. delivered' = Append(delivered, ResultOf(seq - 1))
    BY <1>3 DEF Deliver, ResultOf
  <1>5. seq - 1 < Submitted
    BY <1>1 DEF FramesOK
  <1> QED BY <1>1, <1>4, <1>5 DEF DeliveredOK

LEMMA DeliverKeepsDelivery ==
    ASSUME IInv, JobsOK, DeliveryOK, Deliver PROVE DeliveryOK'
  <1> USE DEF DeliveryOK, JobsOK
  <1>1. /\ writerPc = "deliver" /\ writerPc' = "dropOut"
        /\ UNCHANGED <<mainPc, mainJob, sequence, decodeList, writeList, inPool, outPool,
                       workerPc, workerJob, seq, writerJob>>
    BY DEF Deliver, mainVars, poolVars, workerVars
  <1>2. InContentsOK'
    <2>1. \A n \in Nat, s \in Spaces(inPool) : HasIn(n, s)' => HasIn(n, s)
      BY <1>1 DEF HasIn
    <2> QED BY <1>1, <2>1, InContentsStay
  <1>3. OutContentsOK'
    <2>1. \A n \in Nat, s \in Spaces(outPool), err \in BOOLEAN : Finished(n, s, err)' => Finished(n, s, err)
      BY <1>1 DEF Finished
    <2> QED BY <1>1, <2>1, OutContentsStay
  <1>4. FramesOK' /\ SubmittedOK'
    BY <1>1, SubmittedStays DEF FramesOK, SubmittedOK
  <1>5. DeliveredOK'
    <2>1. PICK result : result = ResultOf(seq - 1)
      OBVIOUS
    <2>2. /\ delivered \in Seq([data : Contents, err : BOOLEAN])
          /\ Len(delivered) = seq - 1 /\ seq \in Nat /\ seq > 0
          /\ delivered' = Append(delivered, result)
      BY <2>1, DeliveredFrame DEF IInv, TypeOK
    <2>3. /\ Len(delivered') = seq /\ delivered'[seq] = result
          /\ \A i \in 1..seq - 1 : delivered'[i] = delivered[i]
      BY <2>2
    <2>4. \A i \in 1..seq : delivered'[i] = ResultOf(i - 1)
      <3> SUFFICES ASSUME NEW i \in 1..seq PROVE delivered'[i] = ResultOf(i - 1)
        OBVIOUS
      <3>1. CASE i = seq
        BY <3>1, <2>1, <2>3
      <3>2. CASE i \in 1..seq - 1
        BY <3>2, <2>2, <2>3 DEF DeliveredOK
      <3> QED BY <3>1, <3>2, <2>2
    <2> QED BY <1>1, <2>3, <2>4 DEF DeliveredOK, Ended
  <1> QED BY <1>2, <1>3, <1>4, <1>5

LEMMA DropOutKeepsDelivery ==
    ASSUME IInv, JobsOK, DeliveryOK, DropOut PROVE DeliveryOK'
  <1> USE DEF DeliveryOK, JobsOK
  <1>1. /\ writerPc = "dropOut" /\ writerPc' = "getJob" /\ writerJob' = NoJob
        /\ outPool' = AfterDrop(outPool, writerJob.out)
        /\ UNCHANGED <<mainPc, mainJob, sequence, decodeList, writeList, inPool,
                       workerPc, workerJob, seq, delivered>>
    BY DEF DropOut, mainVars, workerVars
  <1>2. /\ writerJob.out \in Spaces(outPool) /\ Sound(outPool) /\ Garbage \in Contents
        /\ seq \in Nat /\ seq > 0 /\ writerJob.seq = seq - 1
    BY <1>1 DEF IInv, WriterOK, PoolsOK, Contents, TypeOK, NumbersOK
  <1>3. PICK n0 \in Nat : n0 = seq - 1
    BY <1>2
  <1>4. HasOut(n0, writerJob.out) /\ n0 < seq
    BY <1>2, <1>3 DEF HasOut
  <1>5. /\ Spaces(outPool)' = Spaces(outPool)
        /\ \A s \in Spaces(outPool) : s # writerJob.out => outPool'.data[s] = outPool.data[s]
    <2>1. Spaces(outPool') = Spaces(outPool)
      BY <1>1, <1>2, DropIsSound
    <2> QED BY <2>1, <1>1, <1>2, PoolData DEF Spaces, Made
  <1>6. InContentsOK'
    <2>1. \A n \in Nat, s \in Spaces(inPool) : HasIn(n, s)' => HasIn(n, s)
      BY <1>1 DEF HasIn
    <2> QED BY <1>1, <2>1, InContentsStay
  <1>7. OutContentsOK'
    <2> SUFFICES ASSUME NEW n \in Nat, NEW s \in Spaces(outPool), NEW err \in BOOLEAN, Finished(n, s, err)'
                 PROVE  Finished(n, s, err) /\ outPool'.data[s] = outPool.data[s]
      BY <1>5, OutContentsStay
    <2>1. Finished(n, s, err) /\ Waits(n)
      BY <1>1 DEF Finished, Waits
    <2>2. n # n0
      BY <2>1, <1>4 DEF NumbersOK
    <2>3. s # writerJob.out
      BY <2>1, <2>2, <1>4, FrameFinished DEF OutBuffersOK
    <2> QED BY <2>1, <2>3, <1>5
  <1>8. FramesOK' /\ SubmittedOK'
    BY <1>1, SubmittedStays DEF FramesOK, SubmittedOK, NoJob
  <1>9. DeliveredOK'
    BY <1>1 DEF DeliveredOK, Ended
  <1> QED BY <1>6, <1>7, <1>8, <1>9

LEMMA VerifyKeepsDelivery ==
    ASSUME IInv, JobsOK, DeliveryOK, VerifyDecodeList \/ VerifyWriteList PROVE DeliveryOK'
  <1> USE DEF DeliveryOK, JobsOK
  <1>1. writerPc' # "assertFailed"
    BY VerifyKeepsJobs DEF AfterwardsOK
  <1>2. /\ \/ writerPc = "verify" /\ writerPc' = "verifyWrite" /\ writerJob' = NoJob
           \/ writerPc = "verifyWrite" /\ writerPc' = "returned" /\ writerJob' = writerJob
        /\ UNCHANGED <<mainPc, mainJob, sequence, decodeList, writeList, inPool, outPool,
                       workerPc, workerJob, seq, delivered>>
    BY <1>1 DEF VerifyDecodeList, VerifyWriteList, mainVars, poolVars, workerVars
  <1>3. InContentsOK'
    <2>1. \A n \in Nat, s \in Spaces(inPool) : HasIn(n, s)' => HasIn(n, s)
      BY <1>2 DEF HasIn
    <2> QED BY <1>2, <2>1, InContentsStay
  <1>4. OutContentsOK'
    <2>1. \A n \in Nat, s \in Spaces(outPool), err \in BOOLEAN : Finished(n, s, err)' => Finished(n, s, err)
      BY <1>2 DEF Finished
    <2> QED BY <1>2, <2>1, OutContentsStay
  <1>5. FramesOK' /\ SubmittedOK'
    BY <1>2, SubmittedStays DEF FramesOK, SubmittedOK, NoJob
  <1>6. DeliveredOK'
    BY <1>2 DEF DeliveredOK, Ended
  <1> QED BY <1>3, <1>4, <1>5, <1>6

LEMMA StepKeepsDelivery == ASSUME IInv, JobsOK, DeliveryOK, [Next]_vars PROVE DeliveryOK'
  <1>1. CASE Main
    BY <1>1, CreateKeepsDelivery, ClientKeepsDelivery, GetInKeepsDelivery DEF Main, MainStep
  <1>2. CASE \E w \in Workers : Worker(w)
    BY <1>2, TakeJobKeepsDelivery, TakePoisonKeepsDelivery, GetOutKeepsDelivery,
       DecodeFrameKeepsDelivery, InsertJobKeepsDelivery
    DEF Worker
  <1>3. CASE Writer
    BY <1>3, TakeResultKeepsDelivery, DeliverKeepsDelivery, DropOutKeepsDelivery, VerifyKeepsDelivery
    DEF Writer
  <1>4. CASE UNCHANGED vars
    <2>1. UNCHANGED <<mainPc, mainJob, sequence, decodeList, writeList, inPool, outPool,
                      workerPc, workerJob, writerPc, seq, writerJob, delivered>>
      BY <1>4 DEF vars, mainVars, poolVars, workerVars, writerVars
    <2>2. FramesOK' /\ SubmittedOK' /\ DeliveredOK'
      BY <2>1, SubmittedStays DEF DeliveryOK, FramesOK, SubmittedOK, DeliveredOK
    <2>3. /\ \A n \in Nat : \A s : HasIn(n, s)' => HasIn(n, s)
          /\ \A n \in Nat : \A s, err : Finished(n, s, err)' => Finished(n, s, err)
      BY <2>1 DEF HasIn, Finished
    <2> QED BY <2>1, <2>2, <2>3, InContentsStay, OutContentsStay DEF DeliveryOK
  <1> QED BY <1>1, <1>2, <1>3, <1>4 DEF Next

LEMMA DeliveryHolds == Spec => []DeliveryOK
  <1>1. IInv /\ JobsOK /\ DeliveryOK /\ [Next]_vars => DeliveryOK'
    BY StepKeepsDelivery
  <1> QED BY InitDelivery, InvariantHolds, JobsHold, <1>1, PTL DEF Spec

\* The initial states map to the initial states of FrameDelivery, and every step
\* to a step of it or to a stutter.
LEMMA StepIsPromised ==
    ASSUME IInv, JobsOK, DeliveryOK, [Next]_vars
    PROVE  [Promise!Next]_(Promise!vars)
  <1> USE DEF DeliveryOK, JobsOK
  <1> DEFINE phase == IF mainPc = "none" THEN "none" ELSE IF Submitting THEN "open" ELSE "closing"
  <1>1. ASSUME UNCHANGED <<phase, Submitted, delivered>> PROVE [Promise!Next]_(Promise!vars)
    BY <1>1 DEF Promise!vars
  <1>2. NoJob.more = FALSE /\ sequence \in Nat /\ seq \in Nat
    BY DEF NoJob, IInv, TypeOK
  <1>3. CASE Create
    BY <1>2, <1>3 DEF Create, Promise!Next, Promise!Create, Submitted, Submitting
  <1>4. CASE CallDecode
    <2>1. mainPc = "idle" /\ mainPc' = "getIn" /\ UNCHANGED <<sequence, delivered>>
      BY <1>4 DEF CallDecode, writerVars
    <2>2. UNCHANGED <<phase, Submitted, delivered>>
      BY <2>1 DEF Submitted, Submitting
    <2> QED BY <2>2, <1>1
  <1>5. CASE CallDestroy
    <2>1. /\ mainPc = "idle" /\ mainPc' = "launch" /\ sequence' = sequence + 1 /\ ~mainJob'.more
          /\ delivered' = delivered
      BY <1>5 DEF CallDestroy, writerVars, NoJob
    <2> QED BY <2>1, <1>2 DEF Promise!Next, Promise!Close, Submitted, Submitting
  <1>6. CASE GetIn
    <2>1. /\ mainPc = "getIn" /\ mainPc' = "launch" /\ sequence' = sequence + 1
          /\ delivered' = delivered /\ sequence < MaxFrames
      BY <1>6 DEF GetIn, writerVars, SubmittedOK
    <2>2. mainJob'.more
      <3>1. PICK space \in Available(inPool) : mainJob' = [mainJob EXCEPT !.in = space]
        BY <1>6 DEF GetIn
      <3> QED BY <2>1, <3>1 DEF IInv, TypeOK, Jobs, HandsOK
    <2> QED BY <2>1, <2>2, <1>2 DEF Promise!Next, Promise!Submit, Submitted, Submitting
  <1>7. CASE Enqueue
    <2>1. /\ mainPc = "enqueue" /\ mainPc' = IF mainJob.more THEN "idle" ELSE "joinWriter"
          /\ mainJob' = NoJob /\ UNCHANGED <<sequence, delivered>>
      BY <1>7 DEF Enqueue, writerVars
    <2>2. UNCHANGED <<phase, Submitted, delivered>>
      BY <2>1, <1>2 DEF Submitted, Submitting
    <2> QED BY <2>2, <1>1
  <1>8. CASE FreeDecoder
    <2>1. /\ mainPc = "freeLocks" /\ mainPc' = "none" /\ UNCHANGED <<mainJob, sequence, delivered>>
      BY <1>8 DEF FreeDecoder, writerVars
    <2>2. mainJob = NoJob /\ writerPc = "returned" /\ seq = sequence /\ sequence > 0
      BY <2>1 DEF HandsOK, AfterwardsOK, NumbersOK, Ended, SubmittedOK
    <2>3. Len(delivered) = sequence - 1
      BY <2>2 DEF DeliveredOK, Ended
    <2> QED BY <2>1, <2>2, <2>3, <1>2 DEF Promise!Next, Promise!Closed, Submitted, Submitting
  <1>9. CASE Launch \/ JoinWriter \/ SendHome \/ Pause \/ FreePools
    <2>1. /\ mainPc \in {"launch", "joinWriter", "poison", "pause", "freePools"}
          /\ mainPc' \in {"enqueue", "poison", "pause", "freePools", "freeLocks", "assertFailed"}
          /\ UNCHANGED <<mainJob, sequence, delivered>>
      BY <1>9 DEF Launch, JoinWriter, SendHome, Pause, FreePools, writerVars
    <2>2. UNCHANGED <<phase, Submitted, delivered>>
      BY <2>1 DEF Submitted, Submitting
    <2> QED BY <2>2, <1>1
  <1>10. CASE Deliver
    <2>1. UNCHANGED <<mainPc, mainJob, sequence>> /\ writerPc = "deliver"
      BY <1>10 DEF Deliver, mainVars
    <2>2. mainPc # "none"
      BY <2>1 DEF SubmittedOK
    <2>3. UNCHANGED <<phase, Submitted>> /\ phase # "none"
      BY <2>1, <2>2, SubmittedStays DEF Submitting
    <2>4. Len(delivered) < Submitted /\ delivered' = Append(delivered, ResultOf(Len(delivered)))
      BY <1>10, DeliveredFrame
    <2> QED BY <2>3, <2>4 DEF Promise!Next, Promise!Deliver
  <1>11. CASE \/ \E w \in Workers : Worker(w)
              \/ TakeResult \/ DropOut \/ VerifyDecodeList \/ VerifyWriteList \/ UNCHANGED vars
    <2>1. UNCHANGED <<mainPc, mainJob, sequence, delivered>>
      BY <1>11 DEF Worker, TakeJob, TakePoison, GetOut, DecodeFrame, InsertJob, TakeResult, DropOut,
                   VerifyDecodeList, VerifyWriteList, mainVars, writerVars, vars
    <2>2. UNCHANGED <<phase, Submitted, delivered>>
      BY <2>1, SubmittedStays DEF Submitting
    <2> QED BY <2>2, <1>1
  <1> QED BY <1>3, <1>4, <1>5, <1>6, <1>7, <1>8, <1>9, <1>10, <1>11 DEF Next, Main, MainStep, Writer

\* The parallel decoder does what FrameDelivery promises: whatever order the
\* decode threads finish their frames in, the client's callbacks get every frame
\* once, in the order of dst_decoder_decode, as the decoding of that very frame
\* with its own error flag, and dst_decoder_destroy returns only after the last.
THEOREM DeliversSafely == Spec => Promise!Safety
  <1>1. Init => Promise!Init
    BY DEF Init, Promise!Init, NoJob, Submitted
  <1>2. IInv /\ JobsOK /\ DeliveryOK /\ [Next]_vars => [Promise!Next]_(Promise!vars)
    BY StepIsPromised
  <1> QED BY <1>1, <1>2, InvariantHolds, JobsHold, DeliveryHolds, PTL DEF Spec, Promise!Safety
==============================================================================
