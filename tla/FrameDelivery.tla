---------------------------- MODULE FrameDelivery ----------------------------
(***************************************************************************)
(* What the parallel decoder promises to the thread that uses it: every    *)
(* frame given to dst_decoder_decode reaches the decoded callback once, in *)
(* the order of submission, as the decoding of that very frame, and        *)
(* dst_decoder_destroy returns only when all of them have been delivered.  *)
(***************************************************************************)
EXTENDS Naturals, Sequences

CONSTANTS MaxFrames,      \* bound on the frames submitted to one decoder
          Result(_)       \* what the n-th submitted frame decodes to

VARIABLES phase,          \* "none", "open" or "closing"
          submitted,      \* frames submitted so far
          delivered       \* what the callbacks were given, in order

vars == <<phase, submitted, delivered>>

Init == phase = "none" /\ submitted = 0 /\ delivered = <<>>

Create == /\ phase = "none"
          /\ phase' = "open" /\ submitted' = 0 /\ delivered' = <<>>

Submit == /\ phase = "open"
          /\ submitted < MaxFrames
          /\ submitted' = submitted + 1
          /\ UNCHANGED <<phase, delivered>>

Deliver == /\ phase # "none"
           /\ Len(delivered) < submitted
           /\ delivered' = Append(delivered, Result(Len(delivered)))
           /\ UNCHANGED <<phase, submitted>>

Close == phase = "open" /\ phase' = "closing" /\ UNCHANGED <<submitted, delivered>>

Closed == /\ phase = "closing"
          /\ Len(delivered) = submitted
          /\ phase' = "none"
          /\ UNCHANGED <<submitted, delivered>>

Next == Create \/ Submit \/ Deliver \/ Close \/ Closed

\* The order and the contents, without the promise that it comes to an end.
Safety == Init /\ [][Next]_vars

Spec == Safety /\ WF_vars(Deliver) /\ WF_vars(Closed)
==============================================================================
