--------------------------- MODULE MCAssociation ----------------------------
(* Instances of Association: one client or two, and what they run in. *)
EXTENDS Association

OneClient == {"c"}
TwoClients == {"c", "d"}

\* One client with the password and no more than one association, left in peace.
Plainly ==
  [clients |-> OneClient, mechanism |-> "none", knows |-> OneClient, dedicated |-> FALSE,
   general |-> FALSE, duplicating |-> FALSE, disrupted |-> FALSE, restarts |-> {}, entropyFails |-> FALSE,
   attempts |-> 1, requests |-> 1]

\* One client over a link that repeats what it carried: without authentication, and the
\* server losing power; with high level security, and the client losing power.  Two
\* clients in turn, exceptions protected, with high level security and with a password
\* one of them does not have.  One client that is refused again and again, for its
\* counter.  One client left in peace, for what must happen.
UsualSettings ==
  {[Plainly EXCEPT !.dedicated = TRUE, !.duplicating = TRUE, !.disrupted = TRUE,
                   !.restarts = {"server"}, !.attempts = 2, !.requests = 2],
   [Plainly EXCEPT !.mechanism = "gmac", !.dedicated = TRUE, !.duplicating = TRUE,
                   !.disrupted = TRUE, !.restarts = {"client"}, !.attempts = 2],
   [Plainly EXCEPT !.clients = TwoClients, !.mechanism = "gmac", !.general = TRUE,
                   !.disrupted = TRUE],
   [Plainly EXCEPT !.clients = TwoClients, !.mechanism = "low", !.general = TRUE,
                   !.disrupted = TRUE],
   [Plainly EXCEPT !.duplicating = TRUE, !.attempts = 4],
   [Plainly EXCEPT !.mechanism = "gmac", !.dedicated = TRUE, !.requests = 2]}

\* Two clients over a link that repeats what it carried.
TakingTurns ==
  {[Plainly EXCEPT !.clients = TwoClients, !.duplicating = TRUE, !.disrupted = TRUE,
                   !.attempts = 2]}

\* One client that authenticates, and a random source that fails.
NoEntropy ==
  {[Plainly EXCEPT !.mechanism = "gmac", !.disrupted = TRUE, !.entropyFails = TRUE,
                   !.attempts = 2]}
=============================================================================
