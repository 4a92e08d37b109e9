------------------------------ MODULE RipOutput ------------------------------
(***************************************************************************)
(* Ripping a queue of tracks to files (libsacd/scarletbook_output.c): an   *)
(* application thread that queues, starts, interrupts and destroys, the    *)
(* processing thread that copies one track after the other, and the        *)
(* parallel decoder, by its specification FrameDelivery, whose write       *)
(* thread writes into the file of a track that is decoded.                 *)
(*                                                                         *)
(* A file holds one token for each sector of its track; how frames lie in  *)
(* sectors is FrameAssembly's subject.  Writing to a file succeeds.  A     *)
(* token is right when the sector was given to sacd_decrypt just in case   *)
(* it was read encrypted; what sacd_decrypt does is the input's business.  *)
(* A read that fails gives 0 sectors, as those of the network and of the   *)
(* media player do (the -1 of DeviceInput is not followed here).           *)
(***************************************************************************)
EXTENDS EncryptedRanges, SequencesExt

CONSTANTS Requests,        \* what may be queued, each once
          TrackStart,      \* TrackStart[a][t]: area a's track t begins there
          DiscIsEncrypted, \* FALSE for the discs the probe is for
          ProbedFormat     \* the frame format is DSD 3 in 14 or 3 in 16

ASSUME RequestsAssumption ==
    Requests \subseteq [kind : {"track", "edit master", "raw"}, area : {1, 2},
                        track : Nat, start : Nat, length : Nat, decode : BOOLEAN]

ASSUME ProbeAssumption == ~DiscIsEncrypted => ProbedFormat

VARIABLES appPc,            \* the application thread
          queue,            \* output->ripping_queue
          stop, processing, \* output->stop_processing and ->processing
          pc, track, lsn,   \* the processing thread, its ft and ft->current_lsn
          todo,             \* the sectors of a batch that are still to process
          checked, plain,   \* checked_for_non_encrypted_disc, non_encrypted_disc
          stopping,         \* stop_processing was seen set
          file, data,       \* each file's state and what was written to it
          phase, fed,       \* the decoder's state and the frames it was given
          delivered         \* the numbers of the frames it gave back

appVars == <<appPc, queue>>
threadVars == <<track, lsn, todo, checked, plain, stopping>>
decoderVars == <<phase, fed, delivered>>
vars == <<appVars, stop, processing, pc, threadVars, file, data, decoderVars>>

Decoder == INSTANCE FrameDelivery WITH
    MaxFrames <- End2 + End1 + 1, submitted <- Len(fed), Result <- LAMBDA n : n

NoTrack == [kind |-> "none"]

\* scarletbook_output_enqueue_track and _raw_sectors: where a request's sectors
\* begin and how many they are.  A track that is not its area's last one takes
\* the first sector of the next track with it.
AreaStart(r) == IF r.area = 1 THEN Start1 ELSE Start2
AreaEnd(r) == IF r.area = 1 THEN End1 ELSE End2

StartLsn(r) ==
    CASE r.kind = "raw" -> r.start
      [] r.kind = "track" /\ r.track > 0 -> TrackStart[r.area][r.track]
      [] OTHER -> AreaStart(r)

LengthLsn(r) ==
    CASE r.kind = "raw" -> r.length
      [] r.kind = "edit master" -> AreaEnd(r) - AreaStart(r) + 1
      [] OTHER -> LET tracks == DOMAIN TrackStart[r.area] IN
                  IF r.track + 1 \in tracks
                  THEN TrackStart[r.area][r.track + 1] - StartLsn(r) + 1
                  ELSE AreaEnd(r) - StartLsn(r)

EndLsn(r) == StartLsn(r) + LengthLsn(r)

\* A request lies on the disc: the tracks of an area follow each other in it.
ASSUME DiscAssumption ==
    \A r \in Requests : StartLsn(r) \in Nat /\ LengthLsn(r) \in Nat

Sector(n, right) == [lsn |-> n, right |-> right]

Init == /\ appPc = "queueing" /\ queue = <<>>
        /\ stop = 0 /\ processing = 0
        /\ pc = "absent" /\ track = NoTrack /\ lsn = 0 /\ todo = <<>>
        /\ checked = FALSE /\ plain = FALSE /\ stopping = FALSE
        /\ file = [r \in Requests |-> "none"]
        /\ data = [r \in Requests |-> <<>>]
        /\ fed = <<>> /\ Decoder!Init
-----------------------------------------------------------------------------
(* The application.                                                        *)

Enqueue(r) ==
    /\ appPc = "queueing" /\ r \notin ToSet(queue)
    /\ queue' = Append(queue, r)
    /\ UNCHANGED <<appPc, stop, processing, pc, threadVars, file, data, decoderVars>>

Start ==
    /\ appPc = "queueing"
    /\ appPc' = "running" /\ pc' = "begin"
    /\ UNCHANGED <<queue, stop, processing, threadVars, file, data, decoderVars>>

Interrupt ==
    /\ appPc = "running"
    /\ stop' = 1
    /\ UNCHANGED <<appVars, processing, pc, threadVars, file, data, decoderVars>>

\* scarletbook_output_destroy interrupts, joins the thread, and frees output.
\* One that was never started has no thread to join and is not destroyed here.
Destroy ==
    /\ appPc = "running"
    /\ appPc' = "joining" /\ stop' = 1
    /\ UNCHANGED <<queue, processing, pc, threadVars, file, data, decoderVars>>

Free ==
    /\ appPc = "joining" /\ pc = "returned"
    /\ appPc' = "freed"
    /\ UNCHANGED <<queue, stop, processing, pc, threadVars, file, data, decoderVars>>
-----------------------------------------------------------------------------
(* processing_thread                                                       *)

Begin ==
    /\ pc = "begin"
    /\ processing' = 1 /\ pc' = "pick"
    /\ UNCHANGED <<appVars, stop, threadVars, file, data, decoderVars>>

PickTrack ==
    /\ pc = "pick" /\ queue # <<>>
    /\ track' = Head(queue) /\ queue' = Tail(queue)
    /\ IF Head(queue).decode THEN fed' = <<>> /\ Decoder!Create ELSE UNCHANGED decoderVars
    /\ pc' = "create"
    /\ UNCHANGED <<appPc, stop, processing, lsn, todo, checked, plain, stopping, file, data>>

\* Mutant of NoMoreTracks: a thread told to stop between two tracks waits on.
NoMoreTracksUnlessStopped ==
    /\ pc = "pick" /\ queue = <<>> /\ stop = 0
    /\ processing' = 0 /\ pc' = "returned"
    /\ UNCHANGED <<appVars, stop, threadVars, file, data, decoderVars>>

NoMoreTracks ==
    /\ pc = "pick" /\ queue = <<>>
    /\ processing' = 0 /\ pc' = "returned"
    /\ UNCHANGED <<appVars, stop, threadVars, file, data, decoderVars>>

CreateFile ==
    /\ pc = "create"
    /\ file' = [file EXCEPT ![track] = "open"]
    /\ lsn' = StartLsn(track)
    /\ pc' = "resetStop"
    /\ UNCHANGED <<appVars, stop, processing, track, todo, checked, plain, stopping,
                   data, decoderVars>>

\* create_output_file returns an error, and the file is not there.
CreateFails ==
    /\ pc = "create"
    /\ pc' = "check"
    /\ UNCHANGED <<appVars, stop, processing, threadVars, file, data, decoderVars>>

ResetStop ==
    /\ pc = "resetStop"
    /\ stop' = 0 /\ pc' = "loop"
    /\ UNCHANGED <<appVars, processing, threadVars, file, data, decoderVars>>

\* Mutant of LoopTest: an interrupt waits for the end of the track.
LoopUntilEnd ==
    /\ pc = "loop"
    /\ pc' = IF lsn < EndLsn(track) THEN "read" ELSE "check"
    /\ UNCHANGED <<appVars, stop, processing, threadVars, file, data, decoderVars>>

LoopTest ==
    /\ pc = "loop"
    /\ pc' = IF stop = 0 /\ lsn < EndLsn(track) THEN "read" ELSE "check"
    /\ UNCHANGED <<appVars, stop, processing, threadVars, file, data, decoderVars>>

\* Some sectors are read, or none when the disc has a bad day; the probe is
\* made, once for the whole queue, on whatever read_buffer then begins with;
\* and the sectors that were read are decrypted or not.
ReadBatch(count) ==
    LET batch == NextBatch(lsn, EndLsn(track))
        probing == batch.encrypted /\ ~checked /\ ProbedFormat IN
    /\ pc = "read" /\ count <= batch.size
    /\ lsn' = lsn + count
    /\ checked' = (checked \/ batch.encrypted)
    /\ plain' \in IF ~probing THEN {plain}
                  ELSE IF count > 0 THEN {~DiscIsEncrypted} ELSE BOOLEAN
    /\ todo' = [i \in 1..count |->
                  Sector(lsn + i - 1, (batch.encrypted /\ ~plain')
                           = (InEncryptedArea(lsn + i - 1) /\ DiscIsEncrypted))]
    /\ pc' = "process"
    /\ UNCHANGED <<appVars, stop, processing, track, stopping, file, data, decoderVars>>

\* Mutant of ReadNothing: the -1 of a failed read is added to the position.
ReadGoesBack == ReadBatch(-1)

ReadNothing == ReadBatch(0)
ReadSome == \E count \in 1..MaxBatch : ReadBatch(count)

\* The frames go to the decoder or into the file, one after the other.
Process ==
    /\ pc = "process" /\ todo # <<>>
    /\ IF track.decode
       THEN fed' = Append(fed, Head(todo)) /\ Decoder!Submit /\ UNCHANGED data
       ELSE /\ data' = [data EXCEPT ![track] = Append(@, Head(todo))]
            /\ UNCHANGED decoderVars
    /\ todo' = Tail(todo)
    /\ UNCHANGED <<appVars, stop, processing, pc, track, lsn, checked, plain, stopping, file>>

Processed ==
    /\ pc = "process" /\ todo = <<>>
    /\ pc' = "loop"
    /\ UNCHANGED <<appVars, stop, processing, threadVars, file, data, decoderVars>>

\* Mutant of CheckStop: an interrupted track is ended like any other.
CheckNothing ==
    /\ pc = "check"
    /\ stopping' = FALSE
    /\ pc' = "destroyDecoder"
    /\ UNCHANGED <<appVars, stop, processing, track, lsn, todo, checked, plain, file, data,
                   decoderVars>>

CheckStop ==
    /\ pc = "check"
    /\ stopping' = (stop = 1)
    /\ processing' = IF stop = 1 THEN 0 ELSE processing
    /\ pc' = "destroyDecoder"
    /\ UNCHANGED <<appVars, stop, track, lsn, todo, checked, plain, file, data, decoderVars>>

\* Mutant of DestroyDecoder: the decoder of an interrupted track is left alone.
DestroyUnlessStopping ==
    /\ pc = "destroyDecoder"
    /\ IF track.decode /\ ~stopping
       THEN UNCHANGED fed /\ Decoder!Close /\ pc' = "joinDecoder"
       ELSE UNCHANGED decoderVars /\ pc' = "closeFile"
    /\ UNCHANGED <<appVars, stop, processing, threadVars, file, data>>

DestroyDecoder ==
    /\ pc = "destroyDecoder"
    /\ IF track.decode
       THEN UNCHANGED fed /\ Decoder!Close /\ pc' = "joinDecoder"
       ELSE UNCHANGED decoderVars /\ pc' = "closeFile"
    /\ UNCHANGED <<appVars, stop, processing, threadVars, file, data>>

JoinDecoder ==
    /\ pc = "joinDecoder"
    /\ UNCHANGED fed /\ Decoder!Closed
    /\ pc' = "closeFile"
    /\ UNCHANGED <<appVars, stop, processing, threadVars, file, data>>

CloseFile ==
    /\ pc = "closeFile"
    /\ file' = [file EXCEPT ![track] = IF @ = "open" THEN "closed" ELSE @]
    /\ pc' = IF stopping THEN "remove" ELSE "pick"
    /\ UNCHANGED <<appVars, stop, processing, threadVars, data, decoderVars>>

RemoveFile ==
    /\ pc = "remove"
    /\ file' = [file EXCEPT ![track] = IF @ = "closed" THEN "removed" ELSE @]
    /\ pc' = "forgetQueue"
    /\ UNCHANGED <<appVars, stop, processing, threadVars, data, decoderVars>>

\* Mutant of ForgetQueue: the tracks after an interrupted one stay queued.
KeepQueue ==
    /\ pc = "forgetQueue"
    /\ pc' = "returned"
    /\ UNCHANGED <<appVars, stop, processing, threadVars, file, data, decoderVars>>

ForgetQueue ==
    /\ pc = "forgetQueue"
    /\ queue' = <<>> /\ pc' = "returned"
    /\ UNCHANGED <<appPc, stop, processing, threadVars, file, data, decoderVars>>

Thread == Begin \/ PickTrack \/ NoMoreTracks \/ CreateFile \/ CreateFails \/ ResetStop
          \/ LoopTest \/ ReadNothing \/ ReadSome \/ Process \/ Processed \/ CheckStop
          \/ DestroyDecoder \/ JoinDecoder \/ CloseFile \/ RemoveFile \/ ForgetQueue
-----------------------------------------------------------------------------
\* The decoder's write thread: frame_decoded_callback, whose userdata is the
\* track that the decoder was made for.
Callback ==
    /\ UNCHANGED fed /\ Decoder!Deliver
    /\ data' = [data EXCEPT ![track] = Append(@, fed[Len(delivered')])]
    /\ UNCHANGED <<appVars, stop, processing, pc, threadVars, file>>

Next == (\E r \in Requests : Enqueue(r)) \/ Start \/ Interrupt \/ Destroy \/ Free
        \/ Thread \/ Callback

\* The threads are scheduled; the application does what it likes, but a call
\* of destroy goes on.
Spec == /\ Init /\ [][Next]_vars
        /\ WF_vars(Thread) /\ WF_vars(Callback) /\ WF_vars(Free)
-----------------------------------------------------------------------------
(* Properties.                                                             *)

Sectors == [lsn : Nat, right : BOOLEAN]

TypeOK ==
    /\ appPc \in {"queueing", "running", "joining", "freed"}
    /\ queue \in Seq(Requests) /\ stop \in {0, 1} /\ processing \in {0, 1}
    /\ pc \in {"absent", "begin", "pick", "create", "resetStop", "loop", "read", "process",
               "check", "destroyDecoder", "joinDecoder", "closeFile", "remove",
               "forgetQueue", "returned"}
    /\ track \in Requests \cup {NoTrack} /\ lsn \in Nat /\ todo \in Seq(Sectors)
    /\ {checked, plain, stopping} \subseteq BOOLEAN
    /\ file \in [Requests -> {"none", "open", "closed", "removed"}]
    /\ data \in [Requests -> Seq(Sectors)]
    /\ phase \in {"none", "open", "closing"} /\ fed \in Seq(Sectors)
    /\ delivered \in Seq(Nat)

WholeTrack(r) == [i \in 1..LengthLsn(r) |-> Sector(StartLsn(r) + i - 1, TRUE)]

\* Whenever the application interrupts, and however the disc reads, a file that
\* is kept holds its whole track, each sector once, in order and rightly
\* decrypted; only a file that is being written or about to be removed is less.
CompleteOrGone ==
    \A r \in Requests :
       /\ IsPrefix(data[r], WholeTrack(r))
       /\ file[r] = "closed" /\ data[r] # WholeTrack(r) => track = r /\ pc = "remove"

\* While the decoder's write thread may call back, the track it writes to has
\* not been closed, its ft not been freed, nor the next track begun.
CallbacksFindTheirTrack ==
    /\ phase # "none" => pc \notin {"pick", "closeFile", "remove", "forgetQueue", "returned"}
    /\ Len(delivered) < Len(fed) => file[track] = "open"

\* Whichever way the thread ended, it left nothing to do: no file is half
\* written when scarletbook_output_destroy has joined it, no track still queued,
\* no decoder running, and scarletbook_output_is_busy says so.
NothingLeftBehind ==
    pc = "returned" => /\ processing = 0 /\ queue = <<>> /\ phase = "none"
                       /\ \A r \in Requests : file[r] # "open"

\* An interrupt that comes while a track is being copied ends the thread, even
\* when the disc never gives another sector.
InterruptIsObeyed == (stop = 1 /\ pc \in {"loop", "read", "process"}) ~> pc = "returned"

\* scarletbook_output_destroy returns, whenever it was called, if the disc
\* gives some of its sectors now and then.
DestroyReturns == SF_vars(ReadSome) => (appPc = "joining" ~> appPc = "freed")

\* A request to stop stands until it is obeyed: nobody takes it back.
StopRequestStands == [][stop = 1 => stop' = 1]_vars
==============================================================================
