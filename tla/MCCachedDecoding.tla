-------------------------- MODULE MCCachedDecoding --------------------------
(* Two requests' worth of prompts for TLC.                                 *)
EXTENDS CachedDecoding, TLC

CONSTANT MaxPrompt

MCPrompts == UNION {[1 .. n -> Token] : n \in 1 .. MaxPrompt}
============================================================================
