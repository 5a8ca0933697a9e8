-------------------------- MODULE MCChannelManager --------------------------
(* Two channels; the names are interchangeable.                              *)
EXTENDS ChannelManager
=============================================================================
