-------------------------- MODULE MCGrallocReference --------------------------
\* GrallocReference on a small instance: handles and addresses are alike.
EXTENDS GrallocReference, TLC

Symmetry == Permutations(Handles) \cup Permutations(Addrs) \cup Permutations(Buffers)
===============================================================================
