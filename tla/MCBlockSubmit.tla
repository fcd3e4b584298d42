--------------------------- MODULE MCBlockSubmit ---------------------------
(* BlockSubmit for model checking. *)
EXTENDS BlockSubmit
=============================================================================
