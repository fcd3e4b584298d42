--------------------------- MODULE MCSv1Connection ---------------------------
(* Sv1Connection with two jobs, two floors and difficulties from 1 to 4.    *)
EXTENDS Sv1Connection
=============================================================================
