---------------------------- MODULE MCBlindVote ----------------------------
(* Instances of BlindVote for TLC. *)
EXTENDS BlindVote

CONSTANTS x, y, z

Three == <<x, y, z>>
=============================================================================
