----------------------------- MODULE MCUpstream -----------------------------
(* Upstream on channels of capacity one, two templates, two connections.   *)
EXTENDS Upstream
=============================================================================
