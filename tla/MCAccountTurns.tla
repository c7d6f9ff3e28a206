---------------------------- MODULE MCAccountTurns ----------------------------
(* AccountTurns for TLC: its constants need nothing but their .cfg values.  *)
EXTENDS AccountTurns
=============================================================================
