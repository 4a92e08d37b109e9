---------------------------- MODULE MCDstDecoder -----------------------------
(***************************************************************************)
(* DstDecoder on a small instance: two decode threads, one more frame than *)
(* there are input buffers, so that the client has to wait, and a bad      *)
(* frame.                                                                  *)
(***************************************************************************)
EXTENDS DstDecoder

MCBadFrames == {1}
MCGarbage == -1
MCSilence == -2
==============================================================================
