----------------------------- MODULE MCWorkRun -----------------------------
(* The model-checking instances of WorkRun. *)
EXTENDS WorkRunWriteOnce, TLC
Perms == Permutations(Procs) \cup Permutations(AttemptIds)
=============================================================================
