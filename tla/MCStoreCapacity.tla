--------------------------- MODULE MCStoreCapacity ---------------------------
(* StoreCapacity for TLC.                                                    *)
EXTENDS StoreCapacity

Interchangeable == Permutations(ConvClients)
=============================================================================
