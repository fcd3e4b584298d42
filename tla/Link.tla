-------------------------------- MODULE Link --------------------------------
(***************************************************************************)
(* What the share path assumes of the DATUM connection.  It comes up, the  *)
(* pool may leave without the writer noticing ("stale"), only a failed     *)
(* write breaks it, and only a broken connection is torn down and          *)
(* replaced.  Sv1Relay and DualRelay have these four steps among their     *)
(* own; Upstream implements them in detail.                                *)
(***************************************************************************)
VARIABLE link

Init == link = "down"

Connect   == link = "down" /\ link' = "up"
PeerClose == link = "up" /\ link' = "stale"
WriteFail == link \in {"up", "stale"} /\ link' = "broken"
Teardown  == link = "broken" /\ link' = "down"

Next == Connect \/ PeerClose \/ WriteFail \/ Teardown

Spec == Init /\ [][Next]_link
=============================================================================
