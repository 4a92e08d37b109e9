-------------------------- MODULE RipOutput_proofs --------------------------
(***************************************************************************)
(* Whatever is queued, whenever the application interrupts or destroys,    *)
(* and however the disc reads: the decoder of a track is destroyed before  *)
(* its file is closed, the thread leaves nothing behind, and a file that   *)
(* is kept holds its whole track.                                          *)
(***************************************************************************)
EXTENDS RipOutput, SequenceTheorems, TLAPS
-----------------------------------------------------------------------------
(* The control: where the processing thread is, and what the decoder and   *)
(* the files are then like.                                                *)

Copying == {"resetStop", "loop", "read", "process"}
Ending == {"check", "destroyDecoder", "joinDecoder", "closeFile"}
Busy == {"create"} \cup Copying \cup Ending \cup {"remove", "forgetQueue"}
Decoding == {"create", "check", "destroyDecoder"} \cup Copying

ThreadOK ==
    /\ appPc = "queueing" <=> pc = "absent"
    /\ pc \in Busy => track \in Requests
    /\ pc \in Ending \ {"check"} /\ stopping => processing = 0
    /\ pc \in {"remove", "forgetQueue", "returned"} => processing = 0
    /\ pc = "returned" => queue = <<>>
    /\ pc # "process" => todo = <<>>

\* The decoder is there from the time a track is taken from the queue to the
\* time its file is closed, when all its frames have been given back.
DecoderOK ==
    /\ pc \in Decoding => phase = IF track.decode THEN "open" ELSE "none"
    /\ pc = "joinDecoder" => phase = "closing" /\ track.decode
    /\ pc \notin Decoding \cup {"joinDecoder"} => phase = "none"
    /\ Len(delivered) <= Len(fed)
    /\ phase = "none" => Len(delivered) = Len(fed)

\* Only the track that is being copied has an open file, and without a file
\* the decoder was given nothing.
FilesOK ==
    /\ \A r \in Requests : file[r] = "open" => r = track /\ pc \in Copying \cup Ending
    /\ pc \in Copying => file[track] = "open"
    /\ pc \in Decoding \cup {"joinDecoder"} /\ track.decode /\ file[track] # "open" => fed = <<>>

IInv == TypeOK /\ ThreadOK /\ DecoderOK /\ FilesOK

\* Reading sectors, with the batch's size and encryption left open.
LEMMA StepIsAnAction ==
    ASSUME [Next]_vars
    PROVE  \/ UNCHANGED vars
           \/ \E r \in Requests : Enqueue(r)
           \/ Start \/ Interrupt \/ Destroy \/ Free \/ Begin \/ PickTrack \/ NoMoreTracks
           \/ CreateFile \/ CreateFails \/ ResetStop \/ LoopTest
           \/ \E count \in Nat : ReadBatch(count)
           \/ Process \/ Processed \/ CheckStop \/ DestroyDecoder \/ JoinDecoder
           \/ CloseFile \/ RemoveFile \/ ForgetQueue \/ Callback
  <1>1. ReadNothing \/ ReadSome => \E count \in Nat : ReadBatch(count)
    BY BatchAssumption DEF ReadNothing, ReadSome
  <1> QED BY <1>1 DEF Next, Thread

\* The first and the others of a sequence.
LEMMA HeadAndTail ==
    ASSUME NEW S, NEW s \in Seq(S), s # <<>>
    PROVE  /\ Head(s) \in S /\ Head(s) = s[1] /\ Tail(s) \in Seq(S)
           /\ Len(s) \in Nat \ {0} /\ Len(Tail(s)) = Len(s) - 1
           /\ \A i \in 1..Len(s) - 1 : Tail(s)[i] = s[i + 1]
  OBVIOUS

\* A frame that is processed goes to the decoder of a track that is decoded,
\* and into the file of another.
LEMMA Processing ==
    ASSUME Process
    PROVE  /\ UNCHANGED <<phase, delivered>>
           /\ \/ track.decode /\ fed' = Append(fed, Head(todo)) /\ UNCHANGED data
              \/ /\ ~track.decode /\ UNCHANGED fed
                 /\ data' = [data EXCEPT ![track] = Append(@, Head(todo))]
  <1>1. CASE track.decode
    BY <1>1 DEF Process, Decoder!Submit
  <1>2. CASE ~track.decode
    BY <1>2 DEF Process, decoderVars
  <1> QED BY <1>1, <1>2

\* Only a track that is to be decoded has a decoder made for it.
LEMMA Picking ==
    ASSUME PickTrack
    PROVE  \/ /\ Head(queue).decode
              /\ fed' = <<>> /\ phase = "none" /\ phase' = "open" /\ delivered' = <<>>
           \/ ~Head(queue).decode /\ UNCHANGED <<phase, fed, delivered>>
  <1>1. CASE Head(queue).decode
    BY <1>1 DEF PickTrack, Decoder!Create
  <1>2. CASE ~Head(queue).decode
    BY <1>2 DEF PickTrack, decoderVars
  <1> QED BY <1>1, <1>2

\* The sectors that are read.
Rightly(n, encrypted) == (encrypted /\ ~plain') = (InEncryptedArea(n) /\ DiscIsEncrypted)

LEMMA BatchIsRead ==
    ASSUME lsn \in Nat, checked \in BOOLEAN, plain \in BOOLEAN, NEW count \in Nat, ReadBatch(count)
    PROVE  /\ plain' \in BOOLEAN /\ (~ProbedFormat => plain' = plain)
           /\ todo' \in Seq(Sectors) /\ Len(todo') = count
           /\ \A i \in 1..count : todo'[i] = Sector(lsn + i - 1,
                                       Rightly(lsn + i - 1, NextBatch(lsn, EndLsn(track)).encrypted))
  <1>1. PICK e : e = NextBatch(lsn, EndLsn(track)).encrypted
    OBVIOUS
  <1>2. PICK s : s = [i \in 1..count |-> Sector(lsn + i - 1, Rightly(lsn + i - 1, e))]
    OBVIOUS
  <1>3. todo' = s
    BY <1>1, <1>2 DEF ReadBatch, Rightly
  <1>4. \A i \in 1..count : Sector(lsn + i - 1, Rightly(lsn + i - 1, e)) \in Sectors
    BY DEF Sector, Sectors, Rightly
  <1>5. s \in [1..count -> Sectors]
    BY <1>2, <1>4
  <1>6. s \in Seq(Sectors) /\ Len(s) = count
    BY <1>5
  <1>7. \A i \in 1..count : s[i] = Sector(lsn + i - 1, Rightly(lsn + i - 1, e))
    BY <1>2
  <1>8. PICK probing : plain' \in (IF ~probing THEN {plain} ELSE IF count > 0 THEN {~DiscIsEncrypted} ELSE BOOLEAN)
                       /\ (~ProbedFormat => ~probing)
    BY DEF ReadBatch
  <1>9. plain' \in BOOLEAN /\ (~ProbedFormat => plain' = plain)
    BY <1>8
  <1> QED BY <1>1, <1>3, <1>6, <1>7, <1>9

LEMMA StepKeepsTypes == ASSUME IInv, [Next]_vars PROVE TypeOK'
  <1> USE DEF IInv, appVars, threadVars, decoderVars, TypeOK
  <1>0. CASE UNCHANGED vars
    BY <1>0 DEF vars
  <1>1. ASSUME NEW r \in Requests, Enqueue(r) PROVE TypeOK'
    BY <1>1 DEF Enqueue
  <1>2. CASE Start
    BY <1>2 DEF Start
  <1>3. CASE Interrupt
    BY <1>3 DEF Interrupt
  <1>4. CASE Destroy
    BY <1>4 DEF Destroy
  <1>5. CASE Free
    BY <1>5 DEF Free
  <1>6. CASE Begin
    BY <1>6 DEF Begin
  <1>7. CASE PickTrack
    <2>1. Head(queue) \in Requests /\ Tail(queue) \in Seq(Requests)
      BY <1>7, HeadAndTail DEF PickTrack
    <2>2. fed' \in Seq(Sectors) /\ phase' \in {"none", "open", "closing"} /\ delivered' \in Seq(Nat)
      <3>1. fed \in Seq(Sectors) /\ phase \in {"none", "open", "closing"} /\ delivered \in Seq(Nat)
        OBVIOUS
      <3>2. <<>> \in Seq(Sectors) /\ <<>> \in Seq(Nat)
        OBVIOUS
      <3> QED BY ONLY <1>7, <3>1, <3>2, Picking
    <2> QED BY <1>7, <2>1, <2>2 DEF PickTrack
  <1>8. CASE NoMoreTracks
    BY <1>8 DEF NoMoreTracks
  <1>9. CASE CreateFile
    <2>1. track \in Requests /\ StartLsn(track) \in Nat
      BY <1>9, DiscAssumption DEF CreateFile, ThreadOK, Busy
    <2> QED BY <1>9, <2>1 DEF CreateFile
  <1>10. CASE CreateFails
    BY <1>10 DEF CreateFails
  <1>11. CASE ResetStop
    BY <1>11 DEF ResetStop
  <1>12. CASE LoopTest
    BY <1>12 DEF LoopTest
  <1>13. ASSUME NEW count \in Nat, ReadBatch(count) PROVE TypeOK'
    <2>1. lsn' \in Nat /\ checked' \in BOOLEAN
      BY <1>13, BatchIsRead DEF ReadBatch
    <2>3. plain' \in BOOLEAN
      BY <1>13, BatchIsRead
    <2>2. todo' \in Seq(Sectors)
      BY <1>13, BatchIsRead
    <2> QED BY <1>13, <2>1, <2>2, <2>3 DEF ReadBatch
  <1>14. CASE Process
    <2>1. Head(todo) \in Sectors /\ Tail(todo) \in Seq(Sectors)
      BY <1>14, HeadAndTail DEF Process
    <2>2. track \in Requests
      BY <1>14 DEF Process, ThreadOK, Busy, Copying
    <2>3. /\ UNCHANGED <<phase, delivered>>
          /\ \/ fed' = Append(fed, Head(todo)) /\ UNCHANGED data
             \/ data' = [data EXCEPT ![track] = Append(@, Head(todo))] /\ UNCHANGED fed
      BY <1>14, Processing
    <2>6. fed \in Seq(Sectors) /\ data \in [Requests -> Seq(Sectors)]
      OBVIOUS
    <2>7. /\ Append(fed, Head(todo)) \in Seq(Sectors)
          /\ Append(data[track], Head(todo)) \in Seq(Sectors)
      BY <2>1, <2>2, <2>6
    <2>4. data' \in [Requests -> Seq(Sectors)]
      BY ONLY <2>2, <2>3, <2>6, <2>7
    <2>5. fed' \in Seq(Sectors)
      BY ONLY <2>3, <2>6, <2>7
    <2> QED BY <1>14, <2>1, <2>3, <2>4, <2>5 DEF Process
  <1>15. CASE Processed
    BY <1>15 DEF Processed
  <1>16. CASE CheckStop
    BY <1>16 DEF CheckStop
  <1>17. CASE DestroyDecoder
    BY <1>17 DEF DestroyDecoder, Decoder!Close
  <1>18. CASE JoinDecoder
    BY <1>18 DEF JoinDecoder, Decoder!Closed
  <1>19. CASE CloseFile
    BY <1>19 DEF CloseFile
  <1>20. CASE RemoveFile
    BY <1>20 DEF RemoveFile
  <1>21. CASE ForgetQueue
    BY <1>21 DEF ForgetQueue
  <1>22. CASE Callback
    <2>1. /\ phase # "none" /\ Len(delivered) < Len(fed)
          /\ delivered' = Append(delivered, Len(delivered)) /\ UNCHANGED phase
      BY <1>22 DEF Callback, Decoder!Deliver
    <2>2. track \in Requests
      BY <2>1 DEF DecoderOK, ThreadOK, Decoding, Busy, Copying, Ending
    <2>3. delivered' \in Seq(Nat) /\ Len(delivered') \in 1..Len(fed)
      BY <2>1
    <2>4. fed[Len(delivered')] \in Sectors
      BY <2>3
    <2>5. data' \in [Requests -> Seq(Sectors)]
      BY <1>22, <2>2, <2>4 DEF Callback
    <2> QED BY <1>22, <2>1, <2>3, <2>5 DEF Callback
  <1> QED BY <1>0, <1>1, <1>2, <1>3, <1>4, <1>5, <1>6, <1>7, <1>8, <1>9, <1>10, <1>11,
              <1>12, <1>13, <1>14, <1>15, <1>16, <1>17, <1>18, <1>19, <1>20, <1>21, <1>22, StepIsAnAction

LEMMA StepKeepsThread == ASSUME IInv, [Next]_vars PROVE ThreadOK'
  <1> USE DEF IInv, appVars, threadVars, decoderVars, Busy, Copying, Ending, Decoding,
              ThreadOK, TypeOK
  <1>0. CASE UNCHANGED vars
    BY <1>0 DEF vars
  <1>1. ASSUME NEW r \in Requests, Enqueue(r) PROVE ThreadOK'
    BY <1>1 DEF Enqueue
  <1>2. CASE Start
    BY <1>2 DEF Start
  <1>3. CASE Interrupt
    BY <1>3 DEF Interrupt
  <1>4. CASE Destroy
    BY <1>4 DEF Destroy
  <1>5. CASE Free
    BY <1>5 DEF Free
  <1>6. CASE Begin
    BY <1>6 DEF Begin
  <1>7. CASE PickTrack
    BY <1>7 DEF PickTrack, Decoder!Create
  <1>8. CASE NoMoreTracks
    BY <1>8 DEF NoMoreTracks
  <1>9. CASE CreateFile
    BY <1>9 DEF CreateFile
  <1>10. CASE CreateFails
    BY <1>10 DEF CreateFails
  <1>11. CASE ResetStop
    BY <1>11 DEF ResetStop
  <1>12. CASE LoopTest
    BY <1>12 DEF LoopTest
  <1>13. ASSUME NEW count \in Nat, ReadBatch(count) PROVE ThreadOK'
    BY <1>13 DEF ReadBatch
  <1>14. CASE Process
    BY <1>14 DEF Process, Decoder!Submit
  <1>15. CASE Processed
    BY <1>15 DEF Processed
  <1>16. CASE CheckStop
    BY <1>16 DEF CheckStop
  <1>17. CASE DestroyDecoder
    BY <1>17 DEF DestroyDecoder, Decoder!Close
  <1>18. CASE JoinDecoder
    BY <1>18 DEF JoinDecoder, Decoder!Closed
  <1>19. CASE CloseFile
    BY <1>19 DEF CloseFile
  <1>20. CASE RemoveFile
    BY <1>20 DEF RemoveFile
  <1>21. CASE ForgetQueue
    BY <1>21 DEF ForgetQueue
  <1>22. CASE Callback
    BY <1>22 DEF Callback, Decoder!Deliver
  <1> QED BY <1>0, <1>1, <1>2, <1>3, <1>4, <1>5, <1>6, <1>7, <1>8, <1>9, <1>10, <1>11,
              <1>12, <1>13, <1>14, <1>15, <1>16, <1>17, <1>18, <1>19, <1>20, <1>21, <1>22, StepIsAnAction

LEMMA StepKeepsDecoder == ASSUME IInv, [Next]_vars PROVE DecoderOK'
  <1> USE DEF IInv, appVars, threadVars, decoderVars, Busy, Copying, Ending, Decoding,
              DecoderOK, TypeOK, ThreadOK
  <1>0. CASE UNCHANGED vars
    BY <1>0 DEF vars
  <1>1. ASSUME NEW r \in Requests, Enqueue(r) PROVE DecoderOK'
    BY <1>1 DEF Enqueue
  <1>2. CASE Start
    BY <1>2 DEF Start
  <1>3. CASE Interrupt
    BY <1>3 DEF Interrupt
  <1>4. CASE Destroy
    BY <1>4 DEF Destroy
  <1>5. CASE Free
    BY <1>5 DEF Free
  <1>6. CASE Begin
    BY <1>6 DEF Begin
  <1>7. CASE PickTrack
    BY <1>7 DEF PickTrack, Decoder!Create
  <1>8. CASE NoMoreTracks
    BY <1>8 DEF NoMoreTracks
  <1>9. CASE CreateFile
    BY <1>9 DEF CreateFile
  <1>10. CASE CreateFails
    BY <1>10 DEF CreateFails
  <1>11. CASE ResetStop
    BY <1>11 DEF ResetStop
  <1>12. CASE LoopTest
    BY <1>12 DEF LoopTest
  <1>13. ASSUME NEW count \in Nat, ReadBatch(count) PROVE DecoderOK'
    BY <1>13 DEF ReadBatch
  <1>14. CASE Process
    BY <1>14 DEF Process, Decoder!Submit
  <1>15. CASE Processed
    BY <1>15 DEF Processed
  <1>16. CASE CheckStop
    BY <1>16 DEF CheckStop
  <1>17. CASE DestroyDecoder
    BY <1>17 DEF DestroyDecoder, Decoder!Close
  <1>18. CASE JoinDecoder
    BY <1>18 DEF JoinDecoder, Decoder!Closed
  <1>19. CASE CloseFile
    BY <1>19 DEF CloseFile
  <1>20. CASE RemoveFile
    BY <1>20 DEF RemoveFile
  <1>21. CASE ForgetQueue
    BY <1>21 DEF ForgetQueue
  <1>22. CASE Callback
    BY <1>22 DEF Callback, Decoder!Deliver
  <1> QED BY <1>0, <1>1, <1>2, <1>3, <1>4, <1>5, <1>6, <1>7, <1>8, <1>9, <1>10, <1>11,
              <1>12, <1>13, <1>14, <1>15, <1>16, <1>17, <1>18, <1>19, <1>20, <1>21, <1>22, StepIsAnAction

LEMMA StepKeepsFiles == ASSUME IInv, [Next]_vars PROVE FilesOK'
  <1> USE DEF IInv, appVars, threadVars, decoderVars, Busy, Copying, Ending, Decoding, FilesOK,
              TypeOK, ThreadOK, DecoderOK
  <1>0. CASE UNCHANGED vars
    BY <1>0 DEF vars
  <1>1. ASSUME NEW r \in Requests, Enqueue(r) PROVE FilesOK'
    BY <1>1 DEF Enqueue
  <1>2. CASE Start
    BY <1>2 DEF Start
  <1>3. CASE Interrupt
    BY <1>3 DEF Interrupt
  <1>4. CASE Destroy
    BY <1>4 DEF Destroy
  <1>5. CASE Free
    BY <1>5 DEF Free
  <1>6. CASE Begin
    BY <1>6 DEF Begin
  <1>7. CASE PickTrack
    BY <1>7 DEF PickTrack, Decoder!Create
  <1>8. CASE NoMoreTracks
    BY <1>8 DEF NoMoreTracks
  <1>9. CASE CreateFile
    BY <1>9 DEF CreateFile
  <1>10. CASE CreateFails
    BY <1>10 DEF CreateFails
  <1>11. CASE ResetStop
    BY <1>11 DEF ResetStop
  <1>12. CASE LoopTest
    BY <1>12 DEF LoopTest
  <1>13. ASSUME NEW count \in Nat, ReadBatch(count) PROVE FilesOK'
    BY <1>13 DEF ReadBatch
  <1>14. CASE Process
    BY <1>14 DEF Process, Decoder!Submit
  <1>15. CASE Processed
    BY <1>15 DEF Processed
  <1>16. CASE CheckStop
    BY <1>16 DEF CheckStop
  <1>17. CASE DestroyDecoder
    BY <1>17 DEF DestroyDecoder, Decoder!Close
  <1>18. CASE JoinDecoder
    BY <1>18 DEF JoinDecoder, Decoder!Closed
  <1>19. CASE CloseFile
    BY <1>19 DEF CloseFile
  <1>20. CASE RemoveFile
    BY <1>20 DEF RemoveFile
  <1>21. CASE ForgetQueue
    BY <1>21 DEF ForgetQueue
  <1>22. CASE Callback
    BY <1>22 DEF Callback, Decoder!Deliver
  <1> QED BY <1>0, <1>1, <1>2, <1>3, <1>4, <1>5, <1>6, <1>7, <1>8, <1>9, <1>10, <1>11,
              <1>12, <1>13, <1>14, <1>15, <1>16, <1>17, <1>18, <1>19, <1>20, <1>21, <1>22, StepIsAnAction
LEMMA InitIsControlled == Init => IInv
  <1> SUFFICES ASSUME Init PROVE IInv
    OBVIOUS
  <1>1. phase = "none" /\ delivered = <<>> /\ fed = <<>>
    BY DEF Init, Decoder!Init
  <1>2. TypeOK
    <2>1. <<>> \in Seq(Requests) /\ <<>> \in Seq(Sectors) /\ <<>> \in Seq(Nat)
      OBVIOUS
    <2>2. queue \in Seq(Requests) /\ todo \in Seq(Sectors) /\ fed \in Seq(Sectors) /\ delivered \in Seq(Nat)
      BY <1>1, <2>1 DEF Init
    <2>3. file \in [Requests -> {"none", "open", "closed", "removed"}]
      BY DEF Init
    <2>4. data \in [Requests -> Seq(Sectors)]
      BY <2>1 DEF Init
    <2> QED BY <1>1, <2>2, <2>3, <2>4 DEF Init, TypeOK
  <1>3. ThreadOK
    BY DEF Init, ThreadOK, Busy, Copying, Ending
  <1>4. DecoderOK
    BY <1>1 DEF Init, DecoderOK, Decoding, Copying
  <1>5. FilesOK
    BY DEF Init, FilesOK, Decoding, Copying, Ending
  <1> QED BY <1>2, <1>3, <1>4, <1>5 DEF IInv

LEMMA AlwaysIInv == Spec => []IInv
  <1>1. IInv /\ [Next]_vars => IInv'
    BY StepKeepsTypes, StepKeepsThread, StepKeepsDecoder, StepKeepsFiles DEF IInv
  <1> QED BY InitIsControlled, <1>1, PTL DEF Spec

\* Every variable keeps its type.
THEOREM TypesHold == Spec => []TypeOK
  <1>1. IInv => TypeOK
    BY DEF IInv
  <1> QED BY <1>1, AlwaysIInv, PTL

\* Whatever frame the decoder's write thread gives back, its track's file is
\* open, and the thread has not gone on to close it or to take the next track.
THEOREM CallbacksAreInTime == Spec => []CallbacksFindTheirTrack
  <1>1. IInv => CallbacksFindTheirTrack
    <2> SUFFICES ASSUME IInv PROVE CallbacksFindTheirTrack
      OBVIOUS
    <2>1. phase # "none" => pc \in Decoding \cup {"joinDecoder"} /\ track.decode
      BY DEF IInv, DecoderOK
    <2>2. Len(delivered) < Len(fed) => phase # "none" /\ fed # <<>>
      BY DEF IInv, TypeOK, DecoderOK
    <2> QED BY <2>1, <2>2 DEF CallbacksFindTheirTrack, IInv, FilesOK, Decoding, Copying
  <1> QED BY <1>1, AlwaysIInv, PTL

\* However the processing thread came to its end, nothing is left to do.
THEOREM ThreadEndsClean == Spec => []NothingLeftBehind
  <1>1. IInv => NothingLeftBehind
    BY DEF IInv, ThreadOK, DecoderOK, FilesOK, NothingLeftBehind, Decoding, Copying, Ending
  <1> QED BY <1>1, AlwaysIInv, PTL
-----------------------------------------------------------------------------
(* The data: what the files hold.                                          *)

\* The formats that are not probed; and no request takes sector 0 of a disc
\* without a first area, which the code takes for encrypted.
NotMisled ==
    /\ ~ProbedFormat
    /\ \A r \in Requests : StartLsn(r) # 0 \/ Start1 # 0

\* The sectors from start on, in order and rightly decrypted.
Ordered(s, start) == \A i \in 1..Len(s) : s[i] = Sector(start + i - 1, TRUE)

\* A request waits once, and nothing has been done for it yet; nor is it the
\* one at work.
QueueOK ==
    /\ \A i, j \in 1..Len(queue) : queue[i] = queue[j] => i = j
    /\ \A i \in 1..Len(queue) : file[queue[i]] = "none"
    /\ pc = "absent" => \A r \in Requests : file[r] = "none"
    /\ pc \in Busy => \A i \in 1..Len(queue) : queue[i] # track

ContentsOK ==
    \A r \in Requests :
       /\ Ordered(data[r], StartLsn(r)) /\ Len(data[r]) <= LengthLsn(r)
       /\ file[r] = "none" => data[r] = <<>>
       /\ file[r] = "closed" => \/ Len(data[r]) = LengthLsn(r)
                                \/ track = r /\ pc = "remove"

\* What was processed of the track at work; it reaches the file by way of the
\* decoder's write thread when the track is decoded.
SoFar == IF track.decode THEN fed ELSE data[track]

Reached(r, made, rest, at) ==
    /\ Ordered(made, StartLsn(r)) /\ Ordered(rest, StartLsn(r) + Len(made))
    /\ at = (StartLsn(r) + Len(made)) + Len(rest) /\ at <= EndLsn(r)

PositionOK ==
    pc \in Copying \cup Ending /\ file[track] = "open" =>
       /\ Reached(track, SoFar, todo, lsn)
       /\ pc = "read" => lsn < EndLsn(track)
       /\ track.decode => Len(data[track]) = Len(delivered)
       /\ pc = "check" => stop = 1 \/ lsn = EndLsn(track)
       /\ pc \in Ending \ {"check"} => stopping \/ lsn = EndLsn(track)

CreateOK == pc = "create" => file[track] = "none" /\ (track.decode => fed = <<>>)

DataInv == plain = FALSE /\ CreateOK /\ QueueOK /\ ContentsOK /\ PositionOK

LEMMA Appended ==
    ASSUME NEW S, NEW s \in Seq(S), NEW x \in S
    PROVE  /\ Append(s, x) \in Seq(S) /\ Len(Append(s, x)) = Len(s) + 1
           /\ Append(s, x)[Len(s) + 1] = x
           /\ \A i \in 1..Len(s) : Append(s, x)[i] = s[i]
  OBVIOUS

LEMMA Sizes == ASSUME NEW r \in Requests
               PROVE  /\ StartLsn(r) \in Nat /\ LengthLsn(r) \in Nat
                      /\ EndLsn(r) = StartLsn(r) + LengthLsn(r) /\ EndLsn(r) \in Nat
  BY DiscAssumption DEF EndLsn

\* A batch is not empty and stays in the track, and all its sectors are
\* encrypted or none is.
LEMMA NextBatchIsUniform ==
    ASSUME NEW first \in Nat, first # 0 \/ Start1 # 0, NEW end \in Nat, first < end
    PROVE  /\ NextBatch(first, end).size \in 1..MaxBatch
           /\ first + NextBatch(first, end).size <= end
           /\ \A n \in first..first + NextBatch(first, end).size - 1 :
                InEncryptedArea(n) <=> NextBatch(first, end).encrypted
  <1> USE BatchAssumption, AreasAssumption DEF Least, InEncryptedArea
  <1>1. PICK b : b = Batch(first)
    OBVIOUS
  <1>2. b.size \in 1..MaxBatch /\ \A n \in first..first + b.size - 1 : InEncryptedArea(n) <=> b.encrypted
    <2>1. CASE first <= End1
      BY <1>1, <2>1 DEF Batch
    <2>2. CASE End1 < first
      BY <1>1, <2>2 DEF Batch
    <2> QED BY <2>1, <2>2
  <1>3. NextBatch(first, end).size = Least(end - first, b.size) /\ NextBatch(first, end).encrypted = b.encrypted
    BY <1>1 DEF NextBatch, Batch
  <1> QED BY <1>2, <1>3

\* A disc of a format that is not probed is encrypted, and its sectors are all
\* decrypted rightly.
LEMMA BatchIsRight ==
    ASSUME NotMisled, track \in Requests, lsn \in Nat, StartLsn(track) <= lsn, lsn < EndLsn(track),
           checked \in BOOLEAN, plain = FALSE, NEW count \in Nat, ReadBatch(count)
    PROVE  /\ todo' \in Seq(Sectors) /\ Len(todo') = count /\ Ordered(todo', lsn)
           /\ lsn + count <= EndLsn(track) /\ plain' = FALSE
  <1>1. PICK b : b = NextBatch(lsn, EndLsn(track))
    OBVIOUS
  <1>2. /\ plain' = FALSE /\ todo' \in Seq(Sectors) /\ Len(todo') = count
        /\ \A i \in 1..count : todo'[i] = Sector(lsn + i - 1, Rightly(lsn + i - 1, b.encrypted))
    BY <1>1, BatchIsRead DEF NotMisled
  <1>3. lsn # 0 \/ Start1 # 0
    BY Sizes DEF NotMisled
  <1>4. /\ b.size \in 1..MaxBatch /\ lsn + b.size <= EndLsn(track)
        /\ \A n \in lsn..lsn + b.size - 1 : InEncryptedArea(n) <=> b.encrypted
    BY <1>1, <1>3, Sizes, NextBatchIsUniform
  <1>5. count <= b.size
    BY <1>1 DEF ReadBatch
  <1>6. PICK z \in Nat, e \in Nat : z = b.size /\ e = EndLsn(track)
    BY <1>4, Sizes, BatchAssumption
  <1>7. lsn + count <= EndLsn(track)
    BY <1>4, <1>5, <1>6
  <1>8. ASSUME NEW i \in 1..count PROVE todo'[i] = Sector(lsn + i - 1, TRUE)
    <2>1. lsn + i - 1 \in lsn..lsn + z - 1
      BY <1>5, <1>6
    <2>2. InEncryptedArea(lsn + i - 1) <=> b.encrypted
      BY <1>4, <1>6, <2>1
    <2>3. DiscIsEncrypted
      BY ProbeAssumption DEF NotMisled
    <2>4. Rightly(lsn + i - 1, b.encrypted) = TRUE
      BY <1>2, <2>2, <2>3 DEF Rightly
    <2> QED BY <1>2, <2>4
  <1> QED BY <1>2, <1>7, <1>8 DEF Ordered

\* A track begins with nothing done, ...
LEMMA ReachedAtFirst ==
    ASSUME NEW r \in Requests PROVE Reached(r, <<>>, <<>>, StartLsn(r))
  BY Sizes DEF Reached, Ordered

\* ... sectors are read, ...
LEMMA ReachedByReading ==
    ASSUME NEW r \in Requests, NEW made \in Seq(Sectors), NEW at, Reached(r, made, <<>>, at),
           NEW rest \in Seq(Sectors), at + Len(rest) <= EndLsn(r), Ordered(rest, at)
    PROVE  Reached(r, made, rest, at + Len(rest))
  <1>1. PICK n \in Nat, s \in Nat : n = Len(made) /\ s = StartLsn(r)
    BY Sizes
  <1>2. at = s + n
    BY <1>1 DEF Reached
  <1> QED BY <1>1, <1>2 DEF Reached

\* ... and processed one by one.
LEMMA ReachedByProcessing ==
    ASSUME NEW r \in Requests, NEW made \in Seq(Sectors), NEW rest \in Seq(Sectors), rest # <<>>,
           NEW at, Reached(r, made, rest, at)
    PROVE  /\ Append(made, Head(rest)) \in Seq(Sectors)
           /\ Reached(r, Append(made, Head(rest)), Tail(rest), at)
           /\ Ordered(Append(made, Head(rest)), StartLsn(r))
           /\ Len(Append(made, Head(rest))) <= LengthLsn(r)
  <1>1. PICK n \in Nat, s \in Nat, m \in Nat, l \in Nat :
              n = Len(made) /\ s = StartLsn(r) /\ m = Len(rest) /\ l = LengthLsn(r)
    BY Sizes
  <1>2. at = (s + n) + m /\ at <= s + l
    BY <1>1, Sizes DEF Reached
  <1>3. PICK x \in Sectors : x = Head(rest) /\ x = Sector(s + n, TRUE)
    <2>1. Head(rest) = rest[1] /\ Head(rest) \in Sectors /\ Len(rest) \in Nat \ {0}
      BY HeadAndTail
    <2>2. 1 \in 1..Len(rest)
      BY <2>1
    <2>3. rest[1] = Sector((s + n) + 1 - 1, TRUE)
      BY <1>1, <2>2 DEF Reached, Ordered
    <2>4. (s + n) + 1 - 1 = s + n
      OBVIOUS
    <2> QED BY <2>1, <2>3, <2>4
  <1>4. PICK t \in Seq(Sectors) : t = Tail(rest) /\ m >= 1 /\ Len(t) = m - 1
                                  /\ \A i \in 1..m - 1 : t[i] = rest[i + 1]
    <2>1. /\ Tail(rest) \in Seq(Sectors) /\ Len(rest) \in Nat \ {0} /\ Len(Tail(rest)) = Len(rest) - 1
          /\ \A i \in 1..Len(rest) - 1 : Tail(rest)[i] = rest[i + 1]
      BY HeadAndTail
    <2>2. m \in Nat \ {0} /\ Len(Tail(rest)) = m - 1 /\ \A i \in 1..m - 1 : Tail(rest)[i] = rest[i + 1]
      BY <1>1, <2>1
    <2>3. m >= 1
      BY <2>2
    <2> QED BY <2>1, <2>2, <2>3
  <1>5. PICK q \in Seq(Sectors) : /\ q = Append(made, x) /\ Len(q) = n + 1 /\ q[n + 1] = x
                                  /\ \A i \in 1..n : q[i] = made[i]
    <2>1. /\ Append(made, x) \in Seq(Sectors) /\ Len(Append(made, x)) = Len(made) + 1
          /\ Append(made, x)[Len(made) + 1] = x
          /\ \A i \in 1..Len(made) : Append(made, x)[i] = made[i]
      BY Appended
    <2> QED BY <1>1, <2>1
  <1>6. Ordered(q, s)
    <2> SUFFICES ASSUME NEW i \in 1..n + 1 PROVE q[i] = Sector(s + i - 1, TRUE)
      BY <1>5 DEF Ordered
    <2>1. CASE i = n + 1
      <3>1. s + i - 1 = s + n
        BY <2>1
      <3> QED BY <1>3, <1>5, <2>1, <3>1
    <2>2. CASE i \in 1..n
      BY <1>1, <1>5, <2>2 DEF Reached, Ordered
    <2>3. i = n + 1 \/ i \in 1..n
      OBVIOUS
    <2> QED BY <2>1, <2>2, <2>3
  <1>7. Ordered(t, s + (n + 1))
    <2> SUFFICES ASSUME NEW i \in 1..m - 1 PROVE t[i] = Sector((s + (n + 1)) + i - 1, TRUE)
      BY <1>4 DEF Ordered
    <2>1. i + 1 \in 1..m /\ (s + n) + (i + 1) - 1 = (s + (n + 1)) + i - 1
      BY <1>4
    <2>2. rest[i + 1] = Sector((s + n) + (i + 1) - 1, TRUE)
      BY <1>1, <2>1 DEF Reached, Ordered
    <2> QED BY <1>4, <2>1, <2>2
  <1>8. at = (s + (n + 1)) + (m - 1) /\ n + 1 <= l
    BY <1>2, <1>4
  <1>9. Reached(r, q, t, at)
    BY <1>1, <1>2, <1>4, <1>5, <1>6, <1>7, <1>8, Sizes DEF Reached
  <1> QED BY <1>1, <1>3, <1>4, <1>5, <1>6, <1>8, <1>9

LEMMA StepKeepsCreate == ASSUME NotMisled, IInv, DataInv, [Next]_vars PROVE CreateOK'
  <1> USE DEF IInv, DataInv, appVars, threadVars, decoderVars, CreateOK
  <1>0. CASE UNCHANGED vars
    BY <1>0 DEF vars, SoFar
  <1>1. ASSUME NEW r \in Requests, Enqueue(r) PROVE CreateOK'
    BY <1>1 DEF Enqueue
  <1>2. CASE Start
    BY <1>2 DEF Start
  <1>3. CASE Interrupt
    BY <1>3 DEF Interrupt
  <1>4. CASE Destroy
    BY <1>4 DEF Destroy
  <1>5. CASE Free
    BY <1>5 DEF Free
  <1>6. CASE Begin
    BY <1>6 DEF Begin
  <1>7. CASE PickTrack
    <2>1. Head(queue) = queue[1] /\ 1 \in 1..Len(queue)
      BY <1>7, HeadAndTail DEF PickTrack
    <2>2. file[Head(queue)] = "none"
      BY <2>1 DEF QueueOK
    <2> QED BY <1>7, <2>2, Picking DEF PickTrack
  <1>8. CASE NoMoreTracks
    BY <1>8 DEF NoMoreTracks
  <1>9. CASE CreateFile
    BY <1>9 DEF CreateFile
  <1>10. CASE CreateFails
    BY <1>10 DEF CreateFails
  <1>11. CASE ResetStop
    BY <1>11 DEF ResetStop
  <1>12. CASE LoopTest
    BY <1>12 DEF LoopTest
  <1>13. ASSUME NEW count \in Nat, ReadBatch(count) PROVE CreateOK'
    BY <1>13 DEF ReadBatch
  <1>14. CASE Process
    BY <1>14 DEF Process, Decoder!Submit
  <1>15. CASE Processed
    BY <1>15 DEF Processed
  <1>16. CASE CheckStop
    BY <1>16 DEF CheckStop
  <1>17. CASE DestroyDecoder
    BY <1>17 DEF DestroyDecoder, Decoder!Close
  <1>18. CASE JoinDecoder
    BY <1>18 DEF JoinDecoder, Decoder!Closed
  <1>19. CASE CloseFile
    BY <1>19 DEF CloseFile
  <1>20. CASE RemoveFile
    BY <1>20 DEF RemoveFile
  <1>21. CASE ForgetQueue
    BY <1>21 DEF ForgetQueue
  <1>22. CASE Callback
    BY <1>22 DEF Callback, Decoder!Deliver
  <1> QED BY <1>0, <1>1, <1>2, <1>3, <1>4, <1>5, <1>6, <1>7, <1>8, <1>9, <1>10, <1>11,
              <1>12, <1>13, <1>14, <1>15, <1>16, <1>17, <1>18, <1>19, <1>20, <1>21, <1>22, StepIsAnAction

LEMMA StepKeepsQueue == ASSUME NotMisled, IInv, DataInv, [Next]_vars PROVE QueueOK'
  <1> USE DEF IInv, DataInv, appVars, threadVars, decoderVars, Busy, Copying, Ending, Decoding,
              QueueOK, ThreadOK, FilesOK, DecoderOK, TypeOK
  <1>0. CASE UNCHANGED vars
    BY <1>0 DEF vars, SoFar
  <1>1. ASSUME NEW r \in Requests, Enqueue(r) PROVE QueueOK'
    <2>1. /\ queue' = Append(queue, r) /\ \A i \in 1..Len(queue) : queue[i] # r
          /\ pc = "absent" /\ UNCHANGED <<pc, file>>
      BY <1>1 DEF Enqueue, ToSet
    <2>2. PICK n \in Nat : n = Len(queue)
      OBVIOUS
    <2>3. Len(queue') = n + 1 /\ queue'[n + 1] = r /\ \A i \in 1..n : queue'[i] = queue[i]
      BY <2>1, <2>2
    <2>4. \A i \in 1..n + 1 : i = n + 1 \/ i \in 1..n
      OBVIOUS
    <2> QED BY <2>1, <2>2, <2>3, <2>4
  <1>2. CASE Start
    BY <1>2 DEF Start
  <1>3. CASE Interrupt
    BY <1>3 DEF Interrupt
  <1>4. CASE Destroy
    BY <1>4 DEF Destroy
  <1>5. CASE Free
    BY <1>5 DEF Free
  <1>6. CASE Begin
    BY <1>6 DEF Begin
  <1>7. CASE PickTrack
    BY <1>7 DEF PickTrack, Decoder!Create
  <1>8. CASE NoMoreTracks
    BY <1>8 DEF NoMoreTracks
  <1>9. CASE CreateFile
    BY <1>9 DEF CreateFile
  <1>10. CASE CreateFails
    BY <1>10 DEF CreateFails
  <1>11. CASE ResetStop
    BY <1>11 DEF ResetStop
  <1>12. CASE LoopTest
    BY <1>12 DEF LoopTest
  <1>13. ASSUME NEW count \in Nat, ReadBatch(count) PROVE QueueOK'
    BY <1>13 DEF ReadBatch
  <1>14. CASE Process
    BY <1>14 DEF Process, Decoder!Submit
  <1>15. CASE Processed
    BY <1>15 DEF Processed
  <1>16. CASE CheckStop
    BY <1>16 DEF CheckStop
  <1>17. CASE DestroyDecoder
    BY <1>17 DEF DestroyDecoder, Decoder!Close
  <1>18. CASE JoinDecoder
    BY <1>18 DEF JoinDecoder, Decoder!Closed
  <1>19. CASE CloseFile
    BY <1>19 DEF CloseFile
  <1>20. CASE RemoveFile
    BY <1>20 DEF RemoveFile
  <1>21. CASE ForgetQueue
    BY <1>21 DEF ForgetQueue
  <1>22. CASE Callback
    BY <1>22 DEF Callback, Decoder!Deliver
  <1> QED BY <1>0, <1>1, <1>2, <1>3, <1>4, <1>5, <1>6, <1>7, <1>8, <1>9, <1>10, <1>11,
              <1>12, <1>13, <1>14, <1>15, <1>16, <1>17, <1>18, <1>19, <1>20, <1>21, <1>22, StepIsAnAction

\* The file that is being written gets longer.
LEMMA FileGrows ==
    ASSUME data \in [Requests -> Seq(Sectors)], ContentsOK, track \in Requests, file[track] = "open",
           NEW q, Ordered(q, StartLsn(track)), Len(q) <= LengthLsn(track),
           data' = [data EXCEPT ![track] = q], UNCHANGED <<track, pc, file>>
    PROVE  ContentsOK'
  <1> SUFFICES ASSUME NEW r \in Requests
               PROVE  /\ Ordered(data'[r], StartLsn(r)) /\ Len(data'[r]) <= LengthLsn(r)
                      /\ file[r] = "none" => data'[r] = <<>>
                      /\ file[r] = "closed" => \/ Len(data'[r]) = LengthLsn(r)
                                               \/ track = r /\ pc = "remove"
    BY DEF ContentsOK, Ordered
  <1>1. CASE r = track
    BY <1>1
  <1>2. CASE r # track
    BY <1>2 DEF ContentsOK
  <1> QED BY <1>1, <1>2

LEMMA StepKeepsContents == ASSUME NotMisled, IInv, DataInv, [Next]_vars PROVE ContentsOK'
  <1> USE DEF IInv, DataInv, appVars, threadVars, decoderVars, Busy, Copying, Ending, Decoding,
              ContentsOK, ThreadOK, FilesOK, DecoderOK, TypeOK
  <1>0. CASE UNCHANGED vars
    BY <1>0 DEF vars, SoFar
  <1>1. ASSUME NEW r \in Requests, Enqueue(r) PROVE ContentsOK'
    BY <1>1 DEF Enqueue
  <1>2. CASE Start
    BY <1>2 DEF Start
  <1>3. CASE Interrupt
    BY <1>3 DEF Interrupt
  <1>4. CASE Destroy
    BY <1>4 DEF Destroy
  <1>5. CASE Free
    BY <1>5 DEF Free
  <1>6. CASE Begin
    BY <1>6 DEF Begin
  <1>7. CASE PickTrack
    BY <1>7 DEF PickTrack, Decoder!Create
  <1>8. CASE NoMoreTracks
    BY <1>8 DEF NoMoreTracks
  <1>9. CASE CreateFile
    BY <1>9 DEF CreateFile
  <1>10. CASE CreateFails
    BY <1>10 DEF CreateFails
  <1>11. CASE ResetStop
    BY <1>11 DEF ResetStop
  <1>12. CASE LoopTest
    BY <1>12 DEF LoopTest
  <1>13. ASSUME NEW count \in Nat, ReadBatch(count) PROVE ContentsOK'
    BY <1>13 DEF ReadBatch
  <1>14. CASE Process
    <2>1. /\ track \in Requests /\ todo # <<>> /\ pc = "process" /\ file[track] = "open"
          /\ SoFar \in Seq(Sectors) /\ Reached(track, SoFar, todo, lsn)
      BY <1>14 DEF Process, SoFar, PositionOK
    <2>2. UNCHANGED <<track, pc, file>>
      BY <1>14 DEF Process
    <2>3. CASE UNCHANGED data
      BY <2>2, <2>3
    <2>4. CASE ~track.decode /\ data' = [data EXCEPT ![track] = Append(@, Head(todo))]
      <3>1. PICK q : q = Append(data[track], Head(todo))
        OBVIOUS
      <3>2. Ordered(q, StartLsn(track)) /\ Len(q) <= LengthLsn(track)
        <4>1. SoFar = data[track]
          BY <2>4 DEF SoFar
        <4> QED BY <2>1, <3>1, <4>1, ReachedByProcessing
      <3>3. data' = [data EXCEPT ![track] = q]
        BY <2>4, <3>1
      <3> QED BY <2>1, <2>2, <3>2, <3>3, FileGrows
    <2> QED BY <1>14, <2>3, <2>4, Processing
  <1>15. CASE Processed
    BY <1>15 DEF Processed
  <1>16. CASE CheckStop
    BY <1>16 DEF CheckStop
  <1>17. CASE DestroyDecoder
    BY <1>17 DEF DestroyDecoder, Decoder!Close
  <1>18. CASE JoinDecoder
    BY <1>18 DEF JoinDecoder, Decoder!Closed
  <1>19. CASE CloseFile
    <2>1. track \in Requests /\ UNCHANGED <<track, data>>
      BY <1>19 DEF CloseFile
    <2>2. CASE file[track] = "open" /\ ~stopping
      <3>1. /\ lsn = EndLsn(track) /\ Reached(track, SoFar, <<>>, lsn)
            /\ track.decode => Len(data[track]) = Len(delivered)
        BY <1>19, <2>2 DEF CloseFile, PositionOK
      <3>2. Len(SoFar) = LengthLsn(track)
        <4>1. PICK s \in Nat, l \in Nat, a \in Nat :
                    s = StartLsn(track) /\ l = LengthLsn(track) /\ a = Len(SoFar) /\ EndLsn(track) = s + l
          BY <2>1, Sizes DEF SoFar
        <4>2. s + l = (s + a) + 0
          BY <3>1, <4>1 DEF Reached
        <4> QED BY <4>1, <4>2
      <3>3. Len(data[track]) = LengthLsn(track)
        <4>1. Len(delivered) = Len(fed)
          BY <1>19 DEF CloseFile
        <4> QED BY <3>1, <3>2, <4>1 DEF SoFar
      <3> QED BY <1>19, <2>1, <3>3 DEF CloseFile
    <2>3. CASE ~(file[track] = "open" /\ ~stopping)
      BY <1>19, <2>1, <2>3 DEF CloseFile
    <2> QED BY <2>2, <2>3
  <1>20. CASE RemoveFile
    BY <1>20 DEF RemoveFile
  <1>21. CASE ForgetQueue
    BY <1>21 DEF ForgetQueue
  <1>22. CASE Callback
    <2>1. /\ Len(delivered) < Len(fed) /\ phase # "none" /\ delivered' = Append(delivered, Len(delivered))
          /\ data' = [data EXCEPT ![track] = Append(@, fed[Len(delivered')])]
          /\ UNCHANGED <<track, pc, file>>
      BY <1>22 DEF Callback, Decoder!Deliver
    <2>2. /\ track.decode /\ track \in Requests /\ fed # <<>>
          /\ pc \in Decoding \cup {"joinDecoder"}
      BY <2>1
    <2>3. file[track] = "open"
      BY <2>2
    <2>4. Reached(track, fed, todo, lsn) /\ Len(data[track]) = Len(delivered)
      <3>1. pc # "create"
        BY <2>2, <2>3 DEF CreateOK
      <3>2. SoFar = fed
        BY <2>2 DEF SoFar
      <3> QED BY <2>2, <2>3, <3>1, <3>2 DEF PositionOK
    <2>5. PICK n \in Nat, d \in Seq(Sectors) : /\ n = Len(delivered) /\ d = data[track] /\ Len(d) = n
                                             /\ n + 1 \in 1..Len(fed) /\ Len(delivered') = n + 1
      BY <2>1, <2>2, <2>4
    <2>6. fed[n + 1] \in Sectors /\ fed[n + 1] = Sector(StartLsn(track) + (n + 1) - 1, TRUE)
      <3>1. fed \in Seq(Sectors)
        OBVIOUS
      <3>2. Ordered(fed, StartLsn(track)) /\ n + 1 \in 1..Len(fed)
        BY <2>4, <2>5 DEF Reached
      <3>3. fed[n + 1] = Sector(StartLsn(track) + (n + 1) - 1, TRUE)
        BY ONLY <3>2 DEF Ordered
      <3>4. fed[n + 1] \in Sectors
        BY ONLY <3>1, <3>2
      <3> QED BY <3>3, <3>4
    <2>7. Len(fed) <= LengthLsn(track)
      <3>1. PICK s \in Nat, l \in Nat, a \in Nat, b \in Nat :
                  s = StartLsn(track) /\ l = LengthLsn(track) /\ a = Len(fed) /\ b = Len(todo)
        BY <2>2, Sizes
      <3>2. (s + a) + b <= s + l
        BY <2>2, <2>4, <3>1, Sizes DEF Reached
      <3> QED BY <3>1, <3>2
    <2>8. PICK q \in Seq(Sectors) : /\ q = Append(d, fed[n + 1]) /\ Len(q) = n + 1 /\ q[n + 1] = fed[n + 1]
                                    /\ \A i \in 1..n : q[i] = d[i]
      <3>1. /\ Append(d, fed[n + 1]) \in Seq(Sectors) /\ Len(Append(d, fed[n + 1])) = Len(d) + 1
            /\ Append(d, fed[n + 1])[Len(d) + 1] = fed[n + 1]
            /\ \A i \in 1..Len(d) : Append(d, fed[n + 1])[i] = d[i]
        BY ONLY <2>6, d \in Seq(Sectors), Appended
      <3> QED BY <2>5, <3>1
    <2>9. Ordered(q, StartLsn(track)) /\ Len(q) <= LengthLsn(track)
      <3>1. \A i \in 1..n : d[i] = Sector(StartLsn(track) + i - 1, TRUE)
        BY <2>2, <2>5 DEF Ordered
      <3>2. \A i \in 1..n + 1 : i \in 1..n \/ i = n + 1
        OBVIOUS
      <3>3. \A i \in 1..n + 1 : q[i] = Sector(StartLsn(track) + i - 1, TRUE)
        BY <2>6, <2>8, <3>1, <3>2
      <3>4. n + 1 <= LengthLsn(track)
        BY <2>2, <2>5, <2>7, Sizes
      <3> QED BY <2>8, <3>3, <3>4 DEF Ordered
    <2>10. data' = [data EXCEPT ![track] = q]
      BY <2>1, <2>5, <2>8
    <2> QED BY <2>1, <2>2, <2>3, <2>9, <2>10, FileGrows
  <1> QED BY <1>0, <1>1, <1>2, <1>3, <1>4, <1>5, <1>6, <1>7, <1>8, <1>9, <1>10, <1>11,
              <1>12, <1>13, <1>14, <1>15, <1>16, <1>17, <1>18, <1>19, <1>20, <1>21, <1>22, StepIsAnAction

LEMMA StepKeepsPosition == ASSUME NotMisled, IInv, DataInv, [Next]_vars PROVE PositionOK'
  <1> USE DEF IInv, DataInv, appVars, threadVars, decoderVars, Busy, Copying, Ending, Decoding,
              PositionOK, ThreadOK, FilesOK, DecoderOK, TypeOK
  <1>0. CASE UNCHANGED vars
    BY <1>0 DEF vars, SoFar
  <1>1. ASSUME NEW r \in Requests, Enqueue(r) PROVE PositionOK'
    BY <1>1 DEF Enqueue, SoFar
  <1>2. CASE Start
    BY <1>2 DEF Start, SoFar
  <1>3. CASE Interrupt
    BY <1>3 DEF Interrupt, SoFar
  <1>4. CASE Destroy
    BY <1>4 DEF Destroy, SoFar
  <1>5. CASE Free
    BY <1>5 DEF Free, SoFar
  <1>6. CASE Begin
    BY <1>6 DEF Begin, SoFar
  <1>7. CASE PickTrack
    BY <1>7 DEF PickTrack, Decoder!Create, SoFar
  <1>8. CASE NoMoreTracks
    BY <1>8 DEF NoMoreTracks, SoFar
  <1>9. CASE CreateFile
    <2>1. track \in Requests /\ file[track] = "none" /\ todo = <<>>
      BY <1>9 DEF CreateFile, CreateOK
    <2>2. SoFar = <<>> /\ (track.decode => Len(delivered) = 0) /\ Len(data[track]) = 0
      <3>1. data[track] = <<>> /\ (track.decode => fed = <<>>) /\ Len(<<>>) = 0
        BY <1>9, <2>1 DEF CreateFile, CreateOK, ContentsOK
      <3>2. ~track.decode => phase = "none"
        BY <1>9 DEF CreateFile
      <3>3. SoFar = <<>> /\ Len(data[track]) = 0
        BY <3>1 DEF SoFar
      <3> QED BY <3>1, <3>3
    <2>3. Reached(track, <<>>, <<>>, StartLsn(track))
      BY <2>1, ReachedAtFirst
    <2> QED BY <1>9, <2>1, <2>2, <2>3 DEF CreateFile, SoFar
  <1>10. CASE CreateFails
    BY <1>10 DEF CreateFails, SoFar
  <1>11. CASE ResetStop
    BY <1>11 DEF ResetStop, SoFar
  <1>12. CASE LoopTest
    <2>1. track \in Requests /\ lsn \in Nat /\ stop \in {0, 1} /\ file[track] = "open" /\ PositionOK
      BY <1>12 DEF LoopTest
    <2>2. EndLsn(track) \in Nat /\ lsn <= EndLsn(track)
      BY <1>12, <2>1, Sizes DEF LoopTest, Reached
    <2>3. /\ pc' = "read" => lsn < EndLsn(track)
          /\ pc' = "check" => stop = 1 \/ lsn = EndLsn(track)
          /\ pc' \in {"read", "check"}
      BY <1>12, <2>1, <2>2 DEF LoopTest
    <2> QED BY <1>12, <2>1, <2>3 DEF LoopTest, SoFar
  <1>13. ASSUME NEW count \in Nat, ReadBatch(count) PROVE PositionOK'
    <2>1. /\ track \in Requests /\ lsn \in Nat /\ file[track] = "open" /\ todo = <<>>
          /\ SoFar \in Seq(Sectors) /\ Reached(track, SoFar, <<>>, lsn) /\ lsn < EndLsn(track)
          /\ track.decode => Len(data[track]) = Len(delivered)
      BY <1>13 DEF ReadBatch, SoFar
    <2>2. todo' \in Seq(Sectors) /\ Len(todo') = count /\ Ordered(todo', lsn) /\ lsn + count <= EndLsn(track)
      <3>1. StartLsn(track) <= lsn
        BY <2>1, Sizes DEF Reached
      <3> QED BY <1>13, <2>1, <3>1, BatchIsRight
    <2>3. Reached(track, SoFar, todo', lsn + count)
      BY <2>1, <2>2, ReachedByReading
    <2>4. /\ lsn' = lsn + count /\ pc' = "process"
          /\ UNCHANGED <<track, fed, data, file, delivered>>
      BY <1>13 DEF ReadBatch
    <2>5. SoFar' = SoFar
      BY <2>4 DEF SoFar
    <2> QED BY <2>1, <2>3, <2>4, <2>5
  <1>14. CASE Process
    <2>1. /\ track \in Requests /\ todo # <<>> /\ pc = "process"
          /\ SoFar \in Seq(Sectors) /\ Reached(track, SoFar, todo, lsn)
          /\ track.decode => Len(data[track]) = Len(delivered)
      BY <1>14 DEF Process, SoFar
    <2>2. Reached(track, Append(SoFar, Head(todo)), Tail(todo), lsn)
      BY <2>1, ReachedByProcessing
    <2>3. UNCHANGED <<track, lsn, pc, delivered>> /\ todo' = Tail(todo)
      BY <1>14, Processing DEF Process
    <2>4. /\ SoFar' = Append(SoFar, Head(todo))
          /\ track.decode => data'[track] = data[track]
      BY <1>14, <2>1, <2>3, Processing DEF SoFar
    <2> QED BY <2>1, <2>2, <2>3, <2>4
  <1>15. CASE Processed
    BY <1>15 DEF Processed, SoFar
  <1>16. CASE CheckStop
    BY <1>16 DEF CheckStop, SoFar
  <1>17. CASE DestroyDecoder
    BY <1>17 DEF DestroyDecoder, Decoder!Close, SoFar
  <1>18. CASE JoinDecoder
    BY <1>18 DEF JoinDecoder, Decoder!Closed, SoFar
  <1>19. CASE CloseFile
    BY <1>19 DEF CloseFile, SoFar
  <1>20. CASE RemoveFile
    BY <1>20 DEF RemoveFile, SoFar
  <1>21. CASE ForgetQueue
    BY <1>21 DEF ForgetQueue, SoFar
  <1>22. CASE Callback
    <2>1. /\ Len(delivered) < Len(fed) /\ phase # "none" /\ delivered' = Append(delivered, Len(delivered))
          /\ data' = [data EXCEPT ![track] = Append(@, fed[Len(delivered')])]
          /\ UNCHANGED <<fed, track, todo, lsn, pc, stop, stopping, file>>
      BY <1>22 DEF Callback, Decoder!Deliver
    <2>2. track.decode /\ track \in Requests
      BY <2>1
    <2>3. Len(delivered') = Len(delivered) + 1
      <3>1. delivered \in Seq(Nat)
        OBVIOUS
      <3> QED BY ONLY <2>1, <3>1
    <2>4. Len(data'[track]) = Len(data[track]) + 1
      BY <2>1, <2>2
    <2>5. SoFar' = SoFar
      BY <2>1, <2>2 DEF SoFar
    <2> QED BY <2>1, <2>2, <2>3, <2>4, <2>5
  <1> QED BY <1>0, <1>1, <1>2, <1>3, <1>4, <1>5, <1>6, <1>7, <1>8, <1>9, <1>10, <1>11,
              <1>12, <1>13, <1>14, <1>15, <1>16, <1>17, <1>18, <1>19, <1>20, <1>21, <1>22, StepIsAnAction

\* The probe is for the other formats.
LEMMA StepKeepsPlain == ASSUME NotMisled, IInv, DataInv, [Next]_vars PROVE plain' = FALSE
  <1>1. ASSUME NEW count \in Nat, ReadBatch(count) PROVE plain' = FALSE
    BY <1>1, BatchIsRead DEF IInv, TypeOK, DataInv, NotMisled
  <1>2. CASE \A count \in Nat : ~ReadBatch(count)
    BY <1>2, StepIsAnAction DEF DataInv, vars, threadVars, Enqueue, Start, Interrupt, Destroy, Free,
       Begin, PickTrack, NoMoreTracks, CreateFile, CreateFails, ResetStop, LoopTest, Process,
       Processed, CheckStop, DestroyDecoder, JoinDecoder, CloseFile, RemoveFile, ForgetQueue, Callback
  <1> QED BY <1>1, <1>2

LEMMA InitIsEmpty == Init => DataInv
  BY DiscAssumption DEF Init, DataInv, CreateOK, QueueOK, ContentsOK, PositionOK, Ordered, Busy, Copying, Ending

LEMMA AlwaysDataInv == ASSUME NotMisled PROVE Spec => []DataInv
  <1>1. IInv /\ DataInv /\ [Next]_vars => DataInv'
    BY StepKeepsPlain, StepKeepsCreate, StepKeepsQueue, StepKeepsContents, StepKeepsPosition DEF DataInv
  <1> QED BY InitIsEmpty, <1>1, AlwaysIInv, PTL DEF Spec

\* What a file holds in order is the beginning of its track, and all of it when
\* it is as long.
LEMMA OrderedIsPrefix ==
    ASSUME NEW r \in Requests, NEW s \in Seq(Sectors),
           Ordered(s, StartLsn(r)), Len(s) <= LengthLsn(r)
    PROVE  IsPrefix(s, WholeTrack(r)) /\ (Len(s) = LengthLsn(r) => s = WholeTrack(r))
  <1>1. PICK b \in Nat, l \in Nat, n \in Nat : b = StartLsn(r) /\ l = LengthLsn(r) /\ n = Len(s) /\ n <= l
    BY Sizes
  <1>2. PICK w : w = [i \in 1..l |-> Sector(b + i - 1, TRUE)]
    OBVIOUS
  <1>3. w = WholeTrack(r)
    BY <1>1, <1>2 DEF WholeTrack
  <1>4. \A i \in 1..l : Sector(b + i - 1, TRUE) \in Sectors
    BY DEF Sector, Sectors
  <1>5. w \in [1..l -> Sectors] /\ \A i \in 1..l : w[i] = Sector(b + i - 1, TRUE)
    BY <1>2, <1>4
  <1>6. w \in Seq(Sectors) /\ Len(w) = l
    BY <1>5
  <1>7. \A i \in 1..n : s[i] = w[i]
    <2> SUFFICES ASSUME NEW i \in 1..n PROVE s[i] = w[i]
      OBVIOUS
    <2>1. i \in 1..l
      BY <1>1
    <2>2. s[i] = Sector(b + i - 1, TRUE)
      BY <1>1 DEF Ordered
    <2> QED BY <1>5, <2>1, <2>2
  <1>8. SubSeq(s, 1, n) = SubSeq(w, 1, n)
    <2>1. SubSeq(s, 1, n) \in Seq(Sectors) /\ Len(SubSeq(s, 1, n)) = n /\ \A i \in 1..n : SubSeq(s, 1, n)[i] = s[i]
      BY <1>1
    <2>2. SubSeq(w, 1, n) \in Seq(Sectors) /\ Len(SubSeq(w, 1, n)) = n /\ \A i \in 1..n : SubSeq(w, 1, n)[i] = w[i]
      BY <1>1, <1>6
    <2> QED BY <1>7, <2>1, <2>2, SeqEqual
  <1>9. Len(s) = l => s = w
    BY <1>1, <1>6, <1>7, SeqEqual
  <1> QED BY <1>1, <1>3, <1>6, <1>8, <1>9 DEF IsPrefix

\* Every file that is kept holds its whole track, whenever the application
\* interrupts and however few sectors the disc gives at a time.
THEOREM FilesAreWhole ==
    ASSUME NotMisled
    PROVE  Spec => []CompleteOrGone
  <1>1. IInv /\ DataInv => CompleteOrGone
    <2> SUFFICES ASSUME IInv, DataInv, NEW r \in Requests
                 PROVE  /\ IsPrefix(data[r], WholeTrack(r))
                        /\ file[r] = "closed" /\ data[r] # WholeTrack(r) => track = r /\ pc = "remove"
      BY DEF CompleteOrGone
    <2>1. /\ data[r] \in Seq(Sectors) /\ Ordered(data[r], StartLsn(r)) /\ Len(data[r]) <= LengthLsn(r)
          /\ file[r] = "closed" => Len(data[r]) = LengthLsn(r) \/ (track = r /\ pc = "remove")
      BY DEF IInv, TypeOK, DataInv, ContentsOK
    <2> QED BY <2>1, OrderedIsPrefix
  <1> QED BY <1>1, AlwaysIInv, AlwaysDataInv, PTL
=============================================================================
