---------------------------- MODULE MCSv2Session ----------------------------
(* Sv2Session with three frames, the body of the first as long as a header. *)
EXTENDS Sv2Session

MCBodies == <<2, 1, 3>>
=============================================================================
