----------------------------- MODULE MCBootControl -----------------------------
(* Instances of BootControl for TLC. *)
EXTENDS BootControl, TLC

Interchangeable == Permutations(Procs)
=============================================================================
