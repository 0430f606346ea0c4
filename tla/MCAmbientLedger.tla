-------------------------- MODULE MCAmbientLedger --------------------------
(* Two agents that read one room.                                          *)
EXTENDS AmbientLedger

CONSTANTS x, y
=============================================================================
