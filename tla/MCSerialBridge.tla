--------------------------- MODULE MCSerialBridge ---------------------------
(***************************************************************************)
(* Three frames of the peer: one that fits the buffer, one that does not,  *)
(* and one without data.                                                   *)
(***************************************************************************)
EXTENDS MQSerialBridge

MCFrameLen == <<3, 5, 2>>
=============================================================================
