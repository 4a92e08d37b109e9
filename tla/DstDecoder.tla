----------------------------- MODULE DstDecoder ------------------------------
(***************************************************************************)
(* The parallel DST decoder (dstdec/dst_decoder.c): a client thread that   *)
(* submits frames, up to Procs decode threads that take them from a common *)
(* list, and one write thread that hands the results to the client's       *)
(* callbacks in the order of submission.                                   *)
(*                                                                         *)
(* A yarn lock is a mutex with a value and a condition: possess ... twist  *)
(* is one action here, wait_for is its guard (twist broadcasts, so nobody  *)
(* who waits misses a change), and everything a thread does between two    *)
(* critical sections touches only what that thread owns.                   *)
(***************************************************************************)
EXTENDS Integers, SequencesExt

CONSTANTS Procs,            \* processor_count(): the most decode threads
          InLimit,          \* the most input buffers: 2 * Procs + 2 in the code;
                            \* with less a client waits after fewer frames
          MaxFrames,        \* bound: frames submitted to one decoder
          BadFrames,        \* the frames that DST_FramDSTDecode rejects
          PauseOutlastsWorkers,
                            \* finish_decoding_jobs joins nobody, it sleeps for
                            \* 1 ms: whether every decode thread has returned
                            \* by then
          Garbage, Silence  \* uninitialised memory; a frame of DSD silence

ASSUME ProcsAssumption == Procs \in Nat \ {0}
ASSUME LimitAssumption == InLimit \in Nat \ {0}
ASSUME FramesAssumption == MaxFrames \in Nat /\ BadFrames \subseteq Nat
ASSUME PauseAssumption == PauseOutlastsWorkers \in BOOLEAN
ASSUME ContentAssumption == Garbage \notin Nat /\ Silence \notin Nat /\ Garbage # Silence

VARIABLES
    mainPc, mainJob,        \* the client thread and the job it is making
    sequence, cthreads,     \* dst_decoder->sequence and ->cthreads
    decodeHave, decodeList, \* the value of decode_have; the list at decode_head
    writeFirst, writeList,  \* the value of write_first; the list at write_head
    inPool, outPool,
    workerPc, workerJob,    \* the decode threads
    writerPc, seq, writerJob,
    delivered               \* history: what frame_decoded_callback was given,
                            \* with the error reported for it just before

mainVars == <<mainPc, mainJob, sequence, cthreads>>
poolVars == <<inPool, outPool>>
workerVars == <<workerPc, workerJob>>
writerVars == <<writerPc, seq, writerJob, delivered>>
vars == <<mainVars, decodeHave, decodeList, writeFirst, writeList,
          poolVars, workerVars, writerVars>>

INSTANCE SpacePool

Workers == 1..Procs
NoSpace == 0
NoJob == [seq |-> -2, more |-> FALSE, err |-> FALSE, in |-> NoSpace, out |-> NoSpace]

\* The job on finish_decoding_jobs' own stack that sends the threads home.
Poison == [NoJob EXCEPT !.seq = -1]

\* DST_FramDSTDecode turns a frame into its samples, or into silence when it
\* reports an error.
Decode(frame) == IF frame \in BadFrames THEN Silence ELSE frame

FirstSeq(list) == IF list = <<>> THEN -1 ELSE Head(list).seq

\* Mutant of Insert: the jobs are written in the order they are finished in.
InsertLast(list, job) == Append(list, job)

\* The sorted insertion of decode_thread: before the first later job.
Insert(list, job) ==
    LET here == SelectInSeq(list, LAMBDA other : other.seq > job.seq)
    IN IF here = 0 THEN Append(list, job) ELSE InsertAt(list, here, job)

Init ==
    /\ mainPc = "none" /\ mainJob = NoJob /\ sequence = 0 /\ cthreads = 0
    /\ decodeHave = 0 /\ decodeList = <<>>
    /\ writeFirst = -1 /\ writeList = <<>>
    /\ inPool = EmptyPool(InLimit) /\ outPool = EmptyPool(NoLimit)
    /\ workerPc = [w \in Workers |-> "absent"]
    /\ workerJob = [w \in Workers |-> NoJob]
    /\ writerPc = "absent" /\ seq = 0 /\ writerJob = NoJob
    /\ delivered = <<>>

-----------------------------------------------------------------------------
(* The client thread.                                                      *)

\* dst_decoder_create, setup_decoding_jobs: a fresh decoder and its write
\* thread.  The threads of an earlier decoder that are still running are not
\* this decoder's; one decoder at a time is followed.
Create ==
    /\ mainPc = "none"
    /\ \A w \in Workers : workerPc[w] \in {"absent", "returned"}
    /\ mainPc' = "idle" /\ mainJob' = NoJob /\ sequence' = 0 /\ cthreads' = 0
    /\ decodeHave' = 0 /\ decodeList' = <<>>
    /\ writeFirst' = -1 /\ writeList' = <<>>
    /\ inPool' = EmptyPool(InLimit) /\ outPool' = EmptyPool(NoLimit)
    /\ workerPc' = [w \in Workers |-> "absent"]
    /\ workerJob' = [w \in Workers |-> NoJob]
    /\ writerPc' = "getJob" /\ seq' = 0 /\ writerJob' = NoJob
    /\ delivered' = <<>>

\* dst_decoder_decode is called.
CallDecode ==
    /\ mainPc = "idle" /\ sequence < MaxFrames
    /\ mainPc' = "getIn"
    /\ mainJob' = [NoJob EXCEPT !.seq = sequence, !.more = TRUE]
    /\ UNCHANGED <<sequence, cthreads, decodeHave, decodeList, writeFirst,
                   writeList, poolVars, workerVars, writerVars>>

\* The frame is copied into an input buffer, for which the call may wait.
GetIn ==
    /\ mainPc = "getIn"
    /\ \E space \in Available(inPool) :
          /\ mainJob' = [mainJob EXCEPT !.in = space]
          /\ inPool' = Fill(AfterGet(inPool, space), space, sequence)
    /\ sequence' = sequence + 1
    /\ mainPc' = "launch"
    /\ UNCHANGED <<cthreads, decodeHave, decodeList, writeFirst, writeList,
                   outPool, workerVars, writerVars>>

\* dst_decoder_destroy is called; finish_write_job makes the last job.
CallDestroy ==
    /\ mainPc = "idle"
    /\ mainPc' = "launch"
    /\ mainJob' = [NoJob EXCEPT !.seq = sequence]
    /\ sequence' = sequence + 1
    /\ UNCHANGED <<cthreads, decodeHave, decodeList, writeFirst, writeList,
                   poolVars, workerVars, writerVars>>

\* Mutant of Launch: the limit on the threads is forgotten.
LaunchAnother ==
    /\ mainPc = "launch"
    /\ mainPc' = "enqueue"
    /\ cthreads' = cthreads + 1
    /\ workerPc' = [workerPc EXCEPT ![cthreads + 1] = "getJob"]
    /\ UNCHANGED <<mainJob, sequence, decodeHave, decodeList, writeFirst,
                   writeList, poolVars, workerJob, writerVars>>

\* Both start another decode thread while there are fewer than Procs.
Launch ==
    /\ mainPc = "launch"
    /\ mainPc' = "enqueue"
    /\ IF cthreads < Procs
       THEN /\ cthreads' = cthreads + 1
            /\ workerPc' = [workerPc EXCEPT ![cthreads + 1] = "getJob"]
       ELSE UNCHANGED <<cthreads, workerPc>>
    /\ UNCHANGED <<mainJob, sequence, decodeHave, decodeList, writeFirst,
                   writeList, poolVars, workerJob, writerVars>>

\* Both put the job at the end of the decode list.
Enqueue ==
    /\ mainPc = "enqueue"
    /\ decodeList' = Append(decodeList, mainJob)
    /\ decodeHave' = decodeHave + 1
    /\ mainPc' = IF mainJob.more THEN "idle" ELSE "joinWriter"
    /\ mainJob' = NoJob
    /\ UNCHANGED <<sequence, cthreads, writeFirst, writeList, poolVars,
                   workerVars, writerVars>>

JoinWriter ==
    /\ mainPc = "joinWriter" /\ writerPc = "returned"
    /\ mainPc' = "poison"
    /\ UNCHANGED <<mainJob, sequence, cthreads, decodeHave, decodeList,
                   writeFirst, writeList, poolVars, workerVars, writerVars>>

\* finish_decoding_jobs: the poison job becomes the whole list.
SendHome ==
    /\ mainPc = "poison"
    /\ decodeList' = <<Poison>>
    /\ decodeHave' = decodeHave + 1
    /\ mainPc' = "pause"
    /\ UNCHANGED <<mainJob, sequence, cthreads, writeFirst, writeList,
                   poolVars, workerVars, writerVars>>

\* In place of the join: cthreads is forgotten and the thread sleeps for 1 ms.
Pause ==
    /\ mainPc = "pause"
    /\ PauseOutlastsWorkers =>
          \A w \in Workers : workerPc[w] \in {"absent", "returned"}
    /\ cthreads' = 0
    /\ mainPc' = "freePools"
    /\ UNCHANGED <<mainJob, sequence, decodeHave, decodeList, writeFirst,
                   writeList, poolVars, workerVars, writerVars>>

\* buffer_pool_free for both pools; the assertion stops the program.
FreePools ==
    /\ mainPc = "freePools"
    /\ mainPc' = IF AllReturned(outPool) /\ AllReturned(inPool)
                 THEN "freeLocks" ELSE "assertFailed"
    /\ UNCHANGED <<mainJob, sequence, cthreads, decodeHave, decodeList,
                   writeFirst, writeList, poolVars, workerVars, writerVars>>

\* The locks and the decoder itself are freed, and dst_decoder_destroy returns.
FreeDecoder ==
    /\ mainPc = "freeLocks"
    /\ mainPc' = "none"
    /\ UNCHANGED <<mainJob, sequence, cthreads, decodeHave, decodeList,
                   writeFirst, writeList, poolVars, workerVars, writerVars>>

MainStep == GetIn \/ Launch \/ Enqueue \/ JoinWriter \/ SendHome \/ Pause
            \/ FreePools \/ FreeDecoder
Main == Create \/ CallDecode \/ CallDestroy \/ MainStep
-----------------------------------------------------------------------------
(* decode_thread.  A thread whose decoder has been freed has no defined    *)
(* next step: its behaviour is not followed from there.                    *)

Live == mainPc # "none"

TakeJob(w) ==
    /\ Live /\ workerPc[w] = "getJob" /\ decodeHave # 0
    /\ Head(decodeList).seq # -1
    /\ workerJob' = [workerJob EXCEPT ![w] = Head(decodeList)]
    /\ workerPc' = [workerPc EXCEPT
                      ![w] = IF Head(decodeList).more THEN "getOut" ELSE "insert"]
    /\ decodeList' = Tail(decodeList)
    /\ decodeHave' = decodeHave - 1
    /\ UNCHANGED <<mainVars, writeFirst, writeList, poolVars, writerVars>>

\* The poison stays in the list, for the other threads to find.
TakePoison(w) ==
    /\ Live /\ workerPc[w] = "getJob" /\ decodeHave # 0
    /\ Head(decodeList).seq = -1
    /\ workerPc' = [workerPc EXCEPT ![w] = "returned"]
    /\ UNCHANGED <<mainVars, decodeHave, decodeList, writeFirst, writeList,
                   poolVars, workerJob, writerVars>>

GetOut(w) ==
    /\ Live /\ workerPc[w] = "getOut"
    /\ \E space \in Available(outPool) :
          /\ workerJob' = [workerJob EXCEPT ![w].out = space]
          /\ outPool' = AfterGet(outPool, space)
    /\ workerPc' = [workerPc EXCEPT ![w] = "decode"]
    /\ UNCHANGED <<mainVars, decodeHave, decodeList, writeFirst, writeList,
                   inPool, writerVars>>

\* Mutants of DecodeFrame: the error is not recorded; the input is not dropped.
DecodeFrameHidesError(w) ==
    /\ Live /\ workerPc[w] = "decode"
    /\ LET job == workerJob[w] IN
       /\ outPool' = Fill(outPool, job.out, Decode(inPool.data[job.in]))
       /\ inPool' = AfterDrop(inPool, job.in)
    /\ workerPc' = [workerPc EXCEPT ![w] = "insert"]
    /\ UNCHANGED <<mainVars, decodeHave, decodeList, writeFirst, writeList,
                   workerJob, writerVars>>

DecodeFrameKeepsInput(w) ==
    /\ Live /\ workerPc[w] = "decode"
    /\ LET job == workerJob[w]
           frame == inPool.data[job.in] IN
       /\ outPool' = Fill(outPool, job.out, Decode(frame))
       /\ workerJob' = [workerJob EXCEPT ![w].err = frame \in BadFrames]
    /\ workerPc' = [workerPc EXCEPT ![w] = "insert"]
    /\ UNCHANGED <<mainVars, decodeHave, decodeList, writeFirst, writeList,
                   inPool, writerVars>>

\* DST_FramDSTDecode, and the input buffer goes back to its pool.
DecodeFrame(w) ==
    /\ Live /\ workerPc[w] = "decode"
    /\ LET job == workerJob[w]
           frame == inPool.data[job.in] IN
       /\ outPool' = Fill(outPool, job.out, Decode(frame))
       /\ workerJob' = [workerJob EXCEPT ![w].err = frame \in BadFrames]
       /\ inPool' = AfterDrop(inPool, job.in)
    /\ workerPc' = [workerPc EXCEPT ![w] = "insert"]
    /\ UNCHANGED <<mainVars, decodeHave, decodeList, writeFirst, writeList,
                   writerVars>>

\* Mutant of InsertJob: a frame that could not be decoded is not passed on.
InsertGoodJob(w) ==
    /\ Live /\ workerPc[w] = "insert"
    /\ writeList' = IF workerJob[w].err THEN writeList
                    ELSE Insert(writeList, workerJob[w])
    /\ writeFirst' = FirstSeq(writeList')
    /\ workerJob' = [workerJob EXCEPT ![w] = NoJob]
    /\ workerPc' = [workerPc EXCEPT ![w] = "getJob"]
    /\ UNCHANGED <<mainVars, decodeHave, decodeList, poolVars, writerVars>>

InsertJob(w) ==
    /\ Live /\ workerPc[w] = "insert"
    /\ writeList' = Insert(writeList, workerJob[w])
    /\ writeFirst' = FirstSeq(writeList')
    /\ workerJob' = [workerJob EXCEPT ![w] = NoJob]
    /\ workerPc' = [workerPc EXCEPT ![w] = "getJob"]
    /\ UNCHANGED <<mainVars, decodeHave, decodeList, poolVars, writerVars>>

Worker(w) == TakeJob(w) \/ TakePoison(w) \/ GetOut(w) \/ DecodeFrame(w) \/ InsertJob(w)
-----------------------------------------------------------------------------
(* write_thread.                                                           *)

TakeResult ==
    /\ writerPc = "getJob" /\ writeFirst = seq
    /\ writerJob' = Head(writeList)
    /\ writeList' = Tail(writeList)
    /\ writeFirst' = FirstSeq(writeList')
    /\ writerPc' = IF Head(writeList).more THEN "deliver" ELSE "verify"
    /\ seq' = seq + 1
    /\ UNCHANGED <<mainVars, decodeHave, decodeList, poolVars, workerVars,
                   delivered>>

\* frame_error_callback if the frame was bad, then frame_decoded_callback.
Deliver ==
    /\ writerPc = "deliver"
    /\ delivered' = Append(delivered, [data |-> outPool.data[writerJob.out],
                                       err |-> writerJob.err])
    /\ writerPc' = "dropOut"
    /\ UNCHANGED <<mainVars, decodeHave, decodeList, writeFirst, writeList,
                   poolVars, workerVars, seq, writerJob>>

\* Mutant of DropOut: the output buffer is not dropped.
KeepOut ==
    /\ writerPc = "dropOut"
    /\ writerJob' = NoJob
    /\ writerPc' = "getJob"
    /\ UNCHANGED <<mainVars, decodeHave, decodeList, writeFirst, writeList,
                   poolVars, workerVars, seq, delivered>>

DropOut ==
    /\ writerPc = "dropOut"
    /\ outPool' = AfterDrop(outPool, writerJob.out)
    /\ writerJob' = NoJob
    /\ writerPc' = "getJob"
    /\ UNCHANGED <<mainVars, decodeHave, decodeList, writeFirst, writeList,
                   inPool, workerVars, seq, delivered>>

\* "verify no more jobs": the assertion about the decode list ...
VerifyDecodeList ==
    /\ writerPc = "verify"
    /\ writerJob' = NoJob
    /\ writerPc' = IF decodeList = <<>> /\ decodeHave = 0
                   THEN "verifyWrite" ELSE "assertFailed"
    /\ UNCHANGED <<mainVars, decodeHave, decodeList, writeFirst, writeList,
                   poolVars, workerVars, seq, delivered>>

\* ... and the one about the write list.
VerifyWriteList ==
    /\ writerPc = "verifyWrite"
    /\ IF writeList = <<>>
       THEN writerPc' = "returned" /\ writeFirst' = -1
       ELSE writerPc' = "assertFailed" /\ UNCHANGED writeFirst
    /\ UNCHANGED <<mainVars, decodeHave, decodeList, writeList, poolVars,
                   workerVars, seq, writerJob, delivered>>

Writer == TakeResult \/ Deliver \/ DropOut \/ VerifyDecodeList \/ VerifyWriteList
-----------------------------------------------------------------------------
Next == Main \/ (\E w \in Workers : Worker(w)) \/ Writer

\* Threads are scheduled fairly; the client calls when it likes, but a call
\* that has begun goes on.
Fairness == /\ WF_vars(MainStep)
            /\ \A w \in Workers : WF_vars(Worker(w))
            /\ WF_vars(Writer)

Spec == Init /\ [][Next]_vars /\ Fairness
-----------------------------------------------------------------------------
(* Properties.                                                             *)

Contents == Nat \cup {Garbage, Silence}
Jobs == [seq : Nat \cup {-1, -2}, more : BOOLEAN, err : BOOLEAN, in : Nat, out : Nat]
Pools == [limit : Nat \cup {NoLimit}, free : SUBSET (Nat \ {NoSpace}), data : Seq(Contents)]

MainPcs == {"none", "idle", "getIn", "launch", "enqueue", "joinWriter", "poison",
            "pause", "freePools", "freeLocks", "assertFailed"}
WorkerPcs == {"absent", "getJob", "getOut", "decode", "insert", "returned"}
WriterPcs == {"absent", "getJob", "deliver", "dropOut", "verify", "verifyWrite",
              "returned", "assertFailed"}

\* Every variable keeps the type the C declarations give it.
TypeOK ==
    /\ mainPc \in MainPcs /\ mainJob \in Jobs
    /\ sequence \in Nat /\ cthreads \in 0..Procs
    /\ decodeHave \in Nat /\ decodeList \in Seq(Jobs)
    /\ writeFirst \in Nat \cup {-1} /\ writeList \in Seq(Jobs)
    /\ inPool \in Pools /\ outPool \in Pools
    /\ workerPc \in [Workers -> WorkerPcs] /\ workerJob \in [Workers -> Jobs]
    /\ writerPc \in WriterPcs /\ seq \in Nat /\ writerJob \in Jobs
    /\ delivered \in Seq([data : Contents, err : BOOLEAN])

\* The values of the two locks, on which the threads wait, describe the lists
\* behind them: a thread that is let through finds what it waits for.
LocksDescribeLists ==
    /\ decodeHave = Len(decodeList)
    /\ writeFirst = FirstSeq(writeList)
    /\ \A i, j \in DOMAIN writeList : i < j => writeList[i].seq < writeList[j].seq

\* Where the job with sequence number n is.
Places(n) ==
    {<<"client", 0>> : i \in {i \in {0} : mainJob.seq = n}}
    \cup {<<"decodeList", i>> : i \in {i \in DOMAIN decodeList : decodeList[i].seq = n}}
    \cup {<<"worker", w>> : w \in {w \in Workers : workerJob[w].seq = n}}
    \cup {<<"writeList", i>> : i \in {i \in DOMAIN writeList : writeList[i].seq = n}}

\* A job that was numbered and not yet taken by the write thread is in one
\* place, one that was taken is nowhere: none is lost, none is done twice,
\* whichever threads pass it on.
EveryJobInOnePlace ==
    \A n \in 0..sequence - 1 : Cardinality(Places(n)) = IF n < seq THEN 0 ELSE 1

\* The jobs that somebody holds.
HeldJobs ==
    {mainJob, writerJob} \cup ToSet(decodeList) \cup ToSet(writeList)
    \cup {workerJob[w] : w \in Workers}

\* The input buffers are free or belong to one undecoded job each, the output
\* buffers are free or belong to one job each: no thread's buffer is handed to
\* another, and none leaks, so a client that waits for an input buffer waits
\* for jobs that hold all of them.
BuffersHaveOneOwner ==
    LET UsersOfIn(s) == {job \in HeldJobs : job.in = s /\ job.out = NoSpace}
                        \cup {workerJob[w] : w \in {w \in Workers :
                                 workerPc[w] = "decode" /\ workerJob[w].in = s}}
        UsersOfOut(s) == {job \in HeldJobs : job.out = s}
        Users(s, pool, users) == IF s \in pool.free THEN users = {} ELSE Cardinality(users) = 1
    IN /\ \A s \in 1..Made(inPool) : Users(s, inPool, UsersOfIn(s))
       /\ \A s \in 1..Made(outPool) : Users(s, outPool, UsersOfOut(s))
       /\ Made(inPool) + inPool.limit = InLimit

\* No assertion of the code fails: write_thread's "verify no more jobs" and
\* the count of returned buffers in buffer_pool_free.
NoAssertionFails == mainPc # "assertFailed" /\ writerPc # "assertFailed"

\* finish_decoding_jobs says that it joins all of the decode threads and
\* verifies that they all came back; so when the locks they wait on are freed,
\* none of them should be left.
AllThreadsCameBack ==
    mainPc = "none" => \A w \in Workers : workerPc[w] \in {"absent", "returned"}

\* A call of dst_decoder_decode or dst_decoder_destroy that has begun returns:
\* the client is not left waiting for a buffer or for the write thread.
CallsReturn ==
    /\ mainPc = "getIn" ~> mainPc = "idle"
    /\ mainPc = "joinWriter" ~> mainPc = "none"

\* The client can submit; the frames it has submitted, which the last job is
\* not one of; and what the n-th of them decodes to.
Submitting == mainPc \in {"idle", "getIn"} \/ mainJob.more
Submitted == IF Submitting \/ sequence = 0 THEN sequence ELSE sequence - 1
ResultOf(n) == [data |-> Decode(n), err |-> n \in BadFrames]

\* The promise of FrameDelivery: order, no loss, no duplicate, the right
\* contents, and all of it before dst_decoder_destroy returns.
Promise == INSTANCE FrameDelivery WITH
    phase <- IF mainPc = "none" THEN "none" ELSE IF Submitting THEN "open" ELSE "closing",
    submitted <- Submitted,
    Result <- ResultOf

DeliversAsPromised == Promise!Spec
==============================================================================
