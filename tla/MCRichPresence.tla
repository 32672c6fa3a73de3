---------------------------- MODULE MCRichPresence ----------------------------
(* Names for the constants of RichPresence in TLC. *)
EXTENDS RichPresence
CONSTANTS game, other
=============================================================================
