------------------------------- MODULE MCGbt --------------------------------
(* Instances of Gbt: the modes its runs choose from. *)
EXTENDS Gbt

\* Stop and wait over a link that loses, or streaming over one that does not.
SafeModes == {[streaming |-> FALSE, lossy |-> TRUE], [streaming |-> TRUE, lossy |-> FALSE]}

\* Streaming over a link that loses.
StreamingLossy == {[streaming |-> TRUE, lossy |-> TRUE]}
=============================================================================
