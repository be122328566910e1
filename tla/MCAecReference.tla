---------------------------- MODULE MCAecReference ----------------------------
\* An instance of AecReference for TLC.
EXTENDS AecReference
===============================================================================
