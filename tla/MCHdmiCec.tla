------------------------------- MODULE MCHdmiCec -------------------------------
(* Instances of HdmiCec for TLC. *)
EXTENDS HdmiCec, TLC

Interchangeable == Permutations(Clients)
=============================================================================
