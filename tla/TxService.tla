------------------------------ MODULE TxService ------------------------------
(***************************************************************************)
(* What the radio driver promises the stack about a transmission: a frame  *)
(* that otPlatRadioTransmit accepted is decided once, and its outcome is   *)
(* reported once by otPlatRadioTxDone.  Nothing is lost, nothing is        *)
(* reported twice, and an outcome never changes once decided.              *)
(***************************************************************************)

CONSTANTS Outcomes, NoOutcome \* NoOutcome is none of Outcomes

VARIABLES phase, outcome

TypeOK == /\ phase \in {"idle", "inflight", "decided"}
          /\ outcome \in Outcomes \cup {NoOutcome}

Init == phase = "idle" /\ outcome = NoOutcome

Accept == phase = "idle" /\ phase' = "inflight" /\ UNCHANGED outcome

Decide == /\ phase = "inflight"
          /\ phase' = "decided"
          /\ outcome' \in Outcomes

Report == phase = "decided" /\ phase' = "idle" /\ outcome' = NoOutcome

Next == Accept \/ Decide \/ Report

Safety == Init /\ [][Next]_<<phase, outcome>>

\* Every accepted frame is reported: the stack never waits for ever.
Answered == phase = "inflight" ~> phase = "idle"
=============================================================================
