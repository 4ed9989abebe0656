---------------------------- MODULE MCChanSelect ----------------------------
(* Three channels; another thread also pops from the second. *)
EXTENDS ChanSelect

MCRivals == {1}
=============================================================================
