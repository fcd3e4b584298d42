----------------------------- MODULE MCSv1Relay -----------------------------
(* Instance of Sv1Relay for TLC. *)
EXTENDS Sv1Relay

MCKeys == {<<"sv1", 0, t>> : t \in 0 .. MaxTemplates}
MCSeeds == 0 .. MaxTemplates
=============================================================================
