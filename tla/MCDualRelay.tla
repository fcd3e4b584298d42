----------------------------- MODULE MCDualRelay -----------------------------
(* Instances of DualRelay for TLC. *)
EXTENDS DualRelay, TLC

MCKeys == {<<"sv1", 0, t>> : t \in 0 .. MaxTemplates}
            \cup {<<"sv2", i, j>> : i, j \in 1 .. MaxJobId}
MCSeeds == 0 .. MaxTemplates
MCSources == {"sv1"} \cup Conns
=============================================================================
