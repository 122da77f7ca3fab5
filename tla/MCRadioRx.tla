------------------------------ MODULE MCRadioRx ------------------------------
(***************************************************************************)
(* Instances of RadioRx for TLC, and plausible mutations of it.            *)
(***************************************************************************)
EXTENDS RadioRx, FiniteSets

\* Blocks are interchangeable.
CONSTANTS b1, b2
TwoBuffers == {b1, b2}
BothHosts  == {1, 2}
OneHost    == {2}
NoMultiPan == {0}
=============================================================================
