------------------------------- MODULE MCHdlc -------------------------------
(* The link parameters and the circumstances of the runs about Hdlc. *)
EXTENDS Hdlc

Limits(tx, rx) == [tx |-> tx, rx |-> rx, windowTx |-> 1, windowRx |-> 1]

ProposedLimits == [client |-> Limits(3, 1), server |-> Limits(2, 2)]
DefaultLimits == Limits(3, 3)

\* For units of many segments: one piece to a frame.
ShortLimits == [client |-> Limits(1, 1), server |-> Limits(1, 1)]

\* Hosts that wait for a round trip, with and without loss, with a station that is
\* polled and with a buffer that is too small for the longest unit.
PatientModes ==
  {[lossy |-> l, polled |-> p, patient |-> TRUE, capacity |-> 4] : l, p \in BOOLEAN}
    \union {[lossy |-> FALSE, polled |-> FALSE, patient |-> TRUE, capacity |-> 2]}

\* A buffer for a long unit, over a line that loses.
LossyModes == {[lossy |-> TRUE, polled |-> FALSE, patient |-> TRUE, capacity |-> 20]}
=============================================================================
