---------------------------- MODULE MCSessionTiers ----------------------------
(* Values for the constants of SessionTiers that a .cfg file cannot write:  *)
(* a task is named after its process and what it does.                      *)
EXTENDS SessionTiers

TaskProcess == [t \in Tasks |-> IF t \in {"qt1", "qt2", "qt3", "qr", "qx"} THEN "q" ELSE "p"]

TaskKind == [t \in Tasks |-> IF t \in {"pr", "qr"} THEN "read"
                             ELSE IF t = "qx" THEN "purge" ELSE "turn"]
=============================================================================
