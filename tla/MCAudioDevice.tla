----------------------------- MODULE MCAudioDevice -----------------------------
(* Instances of AudioDevice for TLC. *)
EXTENDS AudioDevice, TLC

Interchangeable == Permutations(Threads)
=============================================================================
