---------------------------- MODULE MCServices ------------------------------
(* Instances of Services: two attributes, one of them read-only, one method. *)
EXTENDS Services

CONSTANTS a, b, m

TwoObjects == {a, b}
OneMethod == {m}
NoMethod == {}
NoList == {}
OneList == {<<a, b>>}

\* One waits for every answer; one gives up, and reads between the blocks of a write.
Patient == [impatient |-> FALSE, interleaving |-> {}]
Hasty == [impatient |-> TRUE, interleaving |-> {"set"}]
BothCallers == {Patient, Hasty}

\* One reads something else between the blocks of a read.
Interrupting == {[impatient |-> FALSE, interleaving |-> {"get"}]}
=============================================================================
