------------------------------ MODULE MCRadioTx ------------------------------
(***************************************************************************)
(* Instances of RadioTx for TLC.                                           *)
(***************************************************************************)
EXTENDS RadioTx

\* A broadcast data frame, an acknowledged data frame, a poll, and a
\* scheduled acknowledged frame: every branch of the code on a frame.
Broadcast == [ack |-> FALSE, cmd |-> FALSE, csma |-> TRUE,  delay |-> FALSE]
Data      == [ack |-> TRUE,  cmd |-> FALSE, csma |-> FALSE, delay |-> FALSE]
Poll      == [ack |-> TRUE,  cmd |-> TRUE,  csma |-> TRUE,  delay |-> FALSE]
Scheduled == [ack |-> TRUE,  cmd |-> FALSE, csma |-> TRUE,  delay |-> TRUE]

SomeFrames == {Broadcast, Data, Poll, Scheduled}
=============================================================================
