------------------------- MODULE MCTemplatePipeline -------------------------
(* TemplatePipeline with two templates, two connections and blobs of one     *)
(* output more than the cap, which the higher value covers and the lower     *)
(* does not.                                                                 *)
EXTENDS TemplatePipeline

MCOffers == {<<1, 1, 1>>}
=============================================================================
