---------------------------- MODULE MCUploadTiers ----------------------------
(* UploadTiers for TLC: neither processes nor clients differ in anything.   *)
EXTENDS UploadTiers

Interchangeable == Permutations(Procs) \cup Permutations(Clients)
=============================================================================
