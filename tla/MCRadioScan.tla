---------------------------- MODULE MCRadioScan ----------------------------
(* RadioScan for TLC.  No symmetry: the hosts are in a liveness property.  *)
EXTENDS RadioScan
=============================================================================
