---------------------------- MODULE MCWorkQueue ----------------------------
(* The model-checking instances of WorkQueue. *)
EXTENDS WorkQueue, TLC
Perms == Permutations(Items) \cup Permutations(Procs)
=============================================================================
