---------------------------- MODULE MCCiteStream ----------------------------
(* CiteStream for TLC: its constants need nothing but their .cfg values.    *)
EXTENDS CiteStream
=============================================================================
