-------------------------- MODULE MCChannelManager --------------------------
(* ChannelManager with one connection, three channel openings, a slot fewer *)
(* than that, and two TemplateStates.                                       *)
EXTENDS ChannelManager
=============================================================================
