----------------------------- MODULE Association ----------------------------
(***************************************************************************)
(* A ciphered association (src/client/session.rs, src/server/mod.rs,       *)
(* src/security/wrap.rs): AARQ / AARE, the high-level-security exchange,   *)
(* the switch to a dedicated key, protected requests and responses,        *)
(* release and re-association, with the invocation counters and replay     *)
(* windows of both ends.  Several clients, each with its system title,     *)
(* may use the one server in turn.  The link delays, reorders and loses    *)
(* (never delivers) messages, and may duplicate them.  Either end may lose *)
(* power: its host has stored, after each call, what the documentation     *)
(* asks it to, and makes a new ClientSession or Server from that.          *)
(*                                                                         *)
(* A protected message is a record naming its sender, its counter and its  *)
(* key set; the tag verifies exactly when the receiver holds that sender   *)
(* for its peer.  Challenges are drawn from a counter, so each is new.     *)
(***************************************************************************)
EXTENDS ReplayWindow, Sequences

CONSTANTS
  Clients,   \* the system titles of the clients
  Width,     \* replay_window of both configurations
  Settings   \* the configurations and circumstances to run in

\* clients: who is there.  mechanism: high level security (GMAC), a password or
\* nothing.  knows: who has the password.  dedicated: the clients deliver a dedicated
\* key.  general: both ends propose GENERAL_PROTECTION, under which an exception is
\* protected.  duplicating: the link delivers a message more than once.  disrupted: clients
\* release and start over, and the link drops.  restarts: which ends may lose power.
\* entropyFails: the server's random source may fail.  attempts, requests: bounds on
\* how often each client associates and how many requests it makes.
ASSUME AssociationConstants ==
  /\ Settings \subseteq
       [clients : SUBSET Clients, mechanism : {"none", "low", "gmac"},
        knows : SUBSET Clients, dedicated : BOOLEAN, general : BOOLEAN,
        duplicating : BOOLEAN, disrupted : BOOLEAN,
        restarts : SUBSET {"client", "server"}, entropyFails : BOOLEAN, attempts : Nat, requests : Nat]
  /\ Width \in Nat
  /\ "server" \notin Clients /\ "nobody" \notin Clients

VARIABLES
  setting,   \* which of Settings it is
  session,   \* ClientSession of each client
  server,    \* Server
  drawn,     \* how many random challenges have been drawn
  toServer,  \* the link, clients to server
  toClient,  \* the link, server to clients
  sealed,    \* history: every use of an invocation counter, in order
  proven,    \* history: who has shown the password, or passed HLS, in the server's
             \* current association
  agreed,    \* history: the HLS exchanges the server has accepted
  executed,  \* history: the requests the server has carried out
  taken      \* history: the responses the clients have taken

history == <<sealed, proven, agreed, executed, taken>>
vars == <<setting, session, server, drawn, toServer, toClient, history>>

Server == "server"
Nobody == "nobody"
NoChallenge == 0

Hls == setting.mechanism = "gmac"

\* ClientSession::new, with the counter the configuration gives it, in the hands of a
\* caller that has yet to make its attempts and requests.
NewSession(counter) ==
  [state |-> "idle", counter |-> counter, window |-> NewWindow(Width), dedicated |-> FALSE,
   peer |-> Nobody, mine |-> NoChallenge, theirs |-> NoChallenge, replied |-> FALSE,
   attempts |-> 0, requests |-> 0]

\* Server::new.
NewServer(counter) ==
  [state |-> "idle", counter |-> counter, window |-> NewWindow(Width), dedicated |-> FALSE,
   general |-> FALSE, peer |-> Nobody, owner |-> Nobody, mine |-> NoChallenge,
   theirs |-> NoChallenge]

Init ==
  /\ setting \in Settings
  /\ session = [c \in Clients |-> NewSession(0)]
  /\ server = NewServer(0)
  /\ drawn = NoChallenge
  /\ toServer = {} /\ toClient = {}
  /\ sealed = <<>> /\ proven = Nobody /\ agreed = {} /\ executed = <<>> /\ taken = <<>>

-----------------------------------------------------------------------------
(* Protection, the same at both ends. *)

KeySet(dedicated) == IF dedicated THEN "ded" ELSE "glo"

\* protect_apdu and protect_as: a frame under a counter just taken.
Frame(kind, from, to, counter, dedicated, body) ==
  [kind |-> kind, from |-> from, to |-> to, ic |-> counter, key |-> KeySet(dedicated),
   body |-> body]

\* The messages that carry no protection.
Plain(kind, from, to, body) == [kind |-> kind, from |-> from, to |-> to, body |-> body]

\* What an invocation counter is spent on: it is the nonce of exactly that.
Use(from, counter, what) == [from |-> from, ic |-> counter, what |-> what]

\* unprotect_apdu: the key set first, then the counter, then the tag.
Verdict(frame, peer, dedicated, window) ==
  IF frame.key # KeySet(dedicated) \/ peer = Nobody THEN "bad"
  ELSE IF ~Fresh(window, frame.ic) THEN "replay"
  ELSE IF frame.from # peer THEN "bad" ELSE "ok"

\* Mutant: the frame around an HLS proof goes out under the proof's counter.
CounterAfterProofShared(proof) == proof

\* The frame around an HLS proof takes a counter of its own.
CounterAfterProof(proof) == NextCounter(proof)

Delivered(link, m) == IF setting.duplicating THEN link ELSE link \ {m}

-----------------------------------------------------------------------------
(* The client: ClientSession, and a caller that feeds it what arrives. *)

\* Mutant: the InitiateRequest is protected with the key set it is carrying.
InitiateKeySetOwn(s) == setting.dedicated

\* The InitiateRequest is always under the global key set.
InitiateKeySet(s) == FALSE

\* associate_request; it needs a counter, and the caller may call it in any state.  A
\* challenge is drawn for high level security only.
AssociateRequest(c) ==
  LET s == session[c]
      ic == NextCounter(s.counter)
      challenge == IF Hls THEN drawn + 1 ELSE NoChallenge
  IN  /\ c \in setting.clients /\ s.attempts < setting.attempts
      /\ s.state \in {"idle", "closed"} \/ setting.disrupted
      /\ HasNext(s.counter)
      /\ drawn' = IF Hls THEN drawn + 1 ELSE drawn
      /\ session' = [session EXCEPT ![c].counter = ic, ![c].state = "associating",
                                    ![c].mine = IF Hls THEN challenge ELSE @,
                                    ![c].attempts = @ + 1]
      /\ toServer' = toServer \union
           {Frame("aarq", c, Server, ic, InitiateKeySet(s), challenge)}
      /\ sealed' = Append(sealed, Use(c, ic, "aarq"))
      /\ UNCHANGED <<setting, server, toClient, proven, agreed, executed, taken>>

\* handle_associate_response on an accepted AARE: the server's title is learned from
\* it first, and the InitiateResponse inside it is unprotected under the global key set.
TakeAare(c, m) ==
  LET s == [session[c] EXCEPT !.peer = Server]
  IN  session' = [session EXCEPT ![c] =
        IF Verdict(m, s.peer, FALSE, s.window) = "ok"
          THEN [s EXCEPT !.window = Accept(s.window, m.ic), !.dedicated = setting.dedicated,
                         !.theirs = m.body, !.replied = FALSE,
                         !.state = IF Hls THEN "authenticating" ELSE "associated"]
          ELSE s]

\* set_invocation_counter by a caller that was told, by an exception anyone can send,
\* which counter the server expects: forward, or not at all.
Resynchronised(counter, m) ==
  {counter} \union {n \in {m.body} : m.kind = "exception" /\ n > counter}

\* An exception or a rejection, which is an AARE with the server's title, ends the attempt.
TakeRefusal(c, m) ==
  \E n \in Resynchronised(session[c].counter, m) :
    session' = [session EXCEPT ![c].state = "closed", ![c].counter = n,
                               ![c].peer = IF m.kind = "refused" THEN Server ELSE @]

\* hls_reply_request: one counter for the proof, another for the frame around it.
HlsReplyRequest(c) ==
  LET s == session[c]
      proof == NextCounter(s.counter)
      frame == CounterAfterProof(proof)
  IN  /\ s.state = "authenticating"
      /\ ~s.replied
      /\ HasNext(s.counter)
      /\ IF HasNext(proof)
           THEN /\ session' = [session EXCEPT ![c].counter = frame, ![c].replied = TRUE]
                /\ toServer' = toServer \union
                     {Frame("hls", c, Server, frame, s.dedicated, s.theirs)}
                /\ sealed' = sealed \o <<Use(c, proof, "proof"), Use(c, frame, "hls")>>
           ELSE /\ session' = [session EXCEPT ![c].counter = proof]
                /\ sealed' = Append(sealed, Use(c, proof, "proof"))
                /\ UNCHANGED toServer
      /\ UNCHANGED <<setting, server, drawn, toClient, proven, agreed, executed, taken>>

\* get_request and the like, in an open association.
Request(c) ==
  LET s == session[c]
      ic == NextCounter(s.counter)
  IN  /\ s.state = "associated"
      /\ s.requests < setting.requests
      /\ HasNext(s.counter)
      /\ session' = [session EXCEPT ![c].counter = ic, ![c].requests = @ + 1]
      /\ toServer' = toServer \union {Frame("request", c, Server, ic, s.dedicated, ic)}
      /\ sealed' = Append(sealed, Use(c, ic, "request"))
      /\ UNCHANGED <<setting, server, drawn, toClient, proven, agreed, executed, taken>>

\* release_request: neither protected nor answered under protection.
ReleaseRequest(c) ==
  /\ setting.disrupted
  /\ session[c].state = "associated"
  /\ session' = [session EXCEPT ![c].state = "releasing"]
  /\ toServer' = toServer \union {Plain("rlrq", c, Server, 0)}
  /\ UNCHANGED <<setting, server, drawn, toClient, history>>

\* verify_hls_gmac over the challenge this client sent last.
ProofHolds(s, m) == m.body = s.mine

\* handle_hls_reply_response and handle_response: what a protected answer does to a
\* session once its protection is off.
Opened(s, m) ==
  [s EXCEPT !.window = Accept(s.window, m.ic),
            !.state = IF @ = "authenticating" /\ m.kind = "denied" THEN "closed"
                      ELSE IF @ = "authenticating" /\ m.kind = "hlsReply" /\ ProofHolds(s, m)
                             THEN "associated"
                      ELSE @]

TakeAnswer(c, m) ==
  LET s == session[c]
      ok == Verdict(m, s.peer, s.dedicated, s.window) = "ok"
  IN  /\ session' = [session EXCEPT ![c] = IF ok THEN Opened(s, m) ELSE s]
      /\ taken' = IF ok /\ s.state # "authenticating" /\ m.kind = "response"
                    THEN Append(taken, [by |-> c, ic |-> m.ic, to |-> m.body]) ELSE taken

\* The caller gives what arrives to the method its state calls for; what that
\* method cannot use (an AARE that is late, say) it refuses, and nothing changes.
Receive(c) ==
  \E m \in toClient :
    /\ m.to = c
    /\ toClient' = Delivered(toClient, m)
    /\ \/ /\ session[c].state = "associating"
          /\ \/ m.kind = "aare" /\ TakeAare(c, m)
             \/ m.kind \in {"refused", "exception"} /\ TakeRefusal(c, m)
             \/ m.kind \notin {"aare", "refused", "exception"} /\ UNCHANGED session
          /\ UNCHANGED taken
       \/ /\ session[c].state # "associating"
          /\ \/ /\ m.kind \in {"hlsReply", "denied", "response", "protectedException"}
                /\ TakeAnswer(c, m)
             \/ /\ m.kind = "rlre"
                /\ session' = IF session[c].state = "authenticating" THEN session
                              ELSE [session EXCEPT ![c].state = "closed"]
                /\ UNCHANGED taken
             \/ /\ m.kind \in {"aare", "refused", "exception"}
                /\ UNCHANGED <<session, taken>>
    /\ UNCHANGED <<setting, server, drawn, toServer, sealed, proven, agreed, executed>>

\* The client's host starts over with the counter it has stored.  There is nothing by
\* which it could restore the window, nor the server's title.
ClientRestart(c) ==
  /\ "client" \in setting.restarts
  /\ session[c].state # "idle"
  /\ session' = [session EXCEPT ![c] =
       [NewSession(@.counter) EXCEPT !.attempts = session[c].attempts,
                                     !.requests = session[c].requests]]
  /\ UNCHANGED <<setting, server, drawn, toServer, toClient, history>>

-----------------------------------------------------------------------------
(* The server. *)

\* clear_association: what outlives it is the counter, the window and its owner.
ClearAssociation(s) ==
  [s EXCEPT !.peer = Nobody, !.mine = NoChallenge, !.theirs = NoChallenge,
            !.dedicated = FALSE, !.general = FALSE]

\* Mutant: the window goes with the association.
OwnedByRenewed(s, title) == [s EXCEPT !.owner = title, !.window = NewWindow(Width)]

\* The window belongs to a peer: another title starts a fresh one.
OwnedBy(s, title) ==
  IF s.owner = title THEN s
  ELSE [s EXCEPT !.owner = title, !.window = NewWindow(Width)]

Say(messages) == toClient' = toClient \union messages

\* Mutant: the association is open before the HLS reply.
AcceptedStateOpen == "associated"

\* The state an accepted AARQ leads to.
AcceptedState == IF Hls THEN "awaitingHls" ELSE "associated"

\* Low level security compares the password in the AARQ, before anything is opened.
PasswordFails(m) == setting.mechanism = "low" /\ m.from \notin setting.knows

\* handle_aarq.  The state is set before the AARE is built: without a counter for
\* it the caller gets an error and nothing is sent.
HandleAarq(m) ==
  LET called == [OwnedBy(ClearAssociation(server), m.from) EXCEPT !.peer = m.from]
      verdict == Verdict(m, m.from, FALSE, called.window)
      opened == [called EXCEPT !.window = Accept(called.window, m.ic),
                               !.dedicated = setting.dedicated,
                               !.general = setting.general]
      ic == NextCounter(server.counter)
      refuse == /\ server' = [called EXCEPT !.state = "closed"]
                /\ Say({Plain("refused", Server, m.from, 0)})
                /\ UNCHANGED <<drawn, sealed>>
      resync == /\ server' = [called EXCEPT !.state = "idle"]
                /\ Say({Plain("exception", Server, m.from, ExpectedNext(called.window))})
                /\ UNCHANGED <<drawn, sealed>>
      noEntropy == /\ server' = [opened EXCEPT !.theirs = m.body]
                   /\ UNCHANGED <<drawn, toClient, sealed>>
      accept ==
        LET challenged ==
              [opened EXCEPT !.state = AcceptedState,
                             !.theirs = IF Hls THEN m.body ELSE NoChallenge,
                             !.mine = IF Hls THEN drawn + 1 ELSE NoChallenge]
        IN  /\ drawn' = IF Hls THEN drawn + 1 ELSE drawn
            /\ IF HasNext(server.counter)
                 THEN /\ server' = [challenged EXCEPT !.counter = ic]
                      /\ Say({Frame("aare", Server, m.from, ic, FALSE, challenged.mine)})
                      /\ sealed' = Append(sealed, Use(Server, ic, "aare"))
                 ELSE server' = challenged /\ UNCHANGED <<toClient, sealed>>
  IN  /\ m.kind = "aarq"
      /\ proven' = IF setting.mechanism = "low" /\ ~PasswordFails(m) THEN m.from ELSE Nobody
      /\ CASE PasswordFails(m) \/ verdict = "bad" -> refuse
           [] ~PasswordFails(m) /\ verdict = "replay" -> resync
           [] ~PasswordFails(m) /\ verdict = "ok" ->
                accept \/ (Hls /\ setting.entropyFails /\ noEntropy)
      /\ UNCHANGED <<setting, session, agreed, executed, taken>>

\* handle_release.
HandleRelease(m) ==
  /\ m.kind = "rlrq"
  /\ server' = [server EXCEPT !.state = "closed", !.dedicated = FALSE]
  /\ Say({Plain("rlre", Server, m.from, 0)})
  /\ UNCHANGED <<setting, session, drawn, history>>

\* send: a protected reply, or an error when the counter is exhausted.
Send(s, kind, to, body) ==
  LET ic == NextCounter(s.counter)
  IN  IF HasNext(s.counter)
        THEN /\ server' = [s EXCEPT !.counter = ic]
             /\ Say({Frame(kind, Server, to, ic, s.dedicated, body)})
             /\ sealed' = Append(sealed, Use(Server, ic, kind))
        ELSE server' = s /\ UNCHANGED <<toClient, sealed>>

\* Mutant: any proof will do.
VerifiesAnything(s, m) == TRUE

\* verify_hls_gmac over the challenge sent in this association's AARE.
Verifies(s, m) == m.body = s.mine

\* handle_hls_reply: the proof this end gives back has a counter of its own.
HandleHlsReply(s, m) ==
  LET ic == NextCounter(s.counter)
      proved == [s EXCEPT !.counter = ic, !.state = "associated"]
      frame == CounterAfterProof(ic)
  IN  IF ~Verifies(s, m) THEN
        Send([s EXCEPT !.state = "closed"], "denied", m.from, 0)
        /\ UNCHANGED <<proven, agreed>>
      ELSE IF ~HasNext(s.counter) THEN
        server' = s /\ UNCHANGED <<toClient, sealed, proven, agreed>>
      ELSE
        /\ proven' = s.peer
        /\ agreed' = agreed \union {[client |-> s.peer, its |-> s.theirs, ours |-> s.mine]}
        /\ IF HasNext(ic)
             THEN /\ server' = [proved EXCEPT !.counter = frame]
                  /\ Say({Frame("hlsReply", Server, m.from, frame, s.dedicated, s.theirs)})
                  /\ sealed' = sealed \o
                       <<Use(Server, ic, "proof"), Use(Server, frame, "hlsReply")>>
             ELSE /\ server' = proved
                  /\ sealed' = Append(sealed, Use(Server, ic, "proof"))
                  /\ UNCHANGED toClient

\* exception: protected as every other reply where GENERAL_PROTECTION is negotiated,
\* which release does not undo; bare where it is not.
Exception(s, to) ==
  IF s.general THEN Send(s, "protectedException", to, 0)
  ELSE /\ server' = s
       /\ Say({Plain("exception", Server, to, 0)})
       /\ UNCHANGED sealed

\* A service request once its protection is off: carried out in an open
\* association, refused while the HLS reply is awaited.
HandleService(s, m) ==
  IF s.state = "associated"
    THEN /\ executed' = Append(executed, [from |-> m.from, ic |-> m.ic, proven |-> proven])
         /\ Send(s, "response", m.from, m.ic)
    ELSE Exception(s, m.from) /\ UNCHANGED executed

\* counter_exception: never protected, it names the counter expected next.
CounterException(m) ==
  /\ Say({Plain("exception", Server, m.from, ExpectedNext(server.window))})
  /\ UNCHANGED <<server, sealed>>

\* Server::handle for a protected APDU.
HandleProtected(m) ==
  LET verdict == Verdict(m, server.peer, server.dedicated, server.window)
      s == [server EXCEPT !.window = Accept(server.window, m.ic)]
  IN  /\ m.kind \in {"hls", "request"}
      /\ IF server.state \notin {"associated", "awaitingHls"} \/ verdict # "ok" THEN
           /\ IF server.state \in {"associated", "awaitingHls"} /\ verdict = "replay"
                THEN CounterException(m) ELSE Exception(server, m.from)
           /\ UNCHANGED <<proven, agreed, executed>>
         ELSE IF s.state = "awaitingHls" /\ m.kind = "hls" THEN
           HandleHlsReply(s, m) /\ UNCHANGED executed
         ELSE
           HandleService(s, m) /\ UNCHANGED <<proven, agreed>>
      /\ UNCHANGED <<setting, session, drawn, taken>>

Handle ==
  \E m \in toServer :
    /\ toServer' = Delivered(toServer, m)
    /\ HandleAarq(m) \/ HandleRelease(m) \/ HandleProtected(m)

\* Server::reset, when the transport says that the link is gone.
Reset ==
  /\ setting.disrupted
  /\ server.state # "idle"
  /\ server' = [ClearAssociation(server) EXCEPT !.state = "idle"]
  /\ proven' = Nobody
  /\ UNCHANGED <<setting, session, drawn, toServer, toClient, sealed, agreed, executed, taken>>

\* The server's host starts over with the counter, the owner and the highest counter of
\* the window as they were after the last call, through resume_replay_window.
ServerRestart ==
  /\ "server" \in setting.restarts
  /\ server' =
       IF server.window.highest = NoCounter THEN NewServer(server.counter)
       ELSE [NewServer(server.counter) EXCEPT
               !.owner = server.owner, !.window = ResumedWindow(server.window.highest, Width)]
  /\ proven' = Nobody
  /\ UNCHANGED <<setting, session, drawn, toServer, toClient, sealed, agreed, executed, taken>>

-----------------------------------------------------------------------------
Next ==
  \/ \E c \in Clients :
       \/ AssociateRequest(c)
       \/ HlsReplyRequest(c)
       \/ Request(c)
       \/ ReleaseRequest(c)
       \/ Receive(c)
       \/ ClientRestart(c)
  \/ Handle
  \/ Reset
  \/ ServerRestart

Spec == Init /\ [][Next]_vars

\* Each end serves what reaches it, and a client asked for its HLS reply gives it.
FairSpec ==
  /\ Spec
  /\ WF_vars(Handle)
  /\ \A c \in Clients : /\ WF_vars(HlsReplyRequest(c))
                        /\ WF_vars(Receive(c))

-----------------------------------------------------------------------------
ClientStates ==
  {"idle", "associating", "authenticating", "associated", "releasing", "closed"}
ServerStates == {"idle", "awaitingHls", "associated", "closed"}

\* Types; every counter and window stays in range.
TypeOK ==
  /\ \A c \in Clients : /\ session[c].state \in ClientStates
                        /\ session[c].counter \in Counter
                        /\ session[c].window \in Window
                        /\ session[c].dedicated \in BOOLEAN
  /\ server.state \in ServerStates
  /\ server.counter \in Counter /\ server.window \in Window
  /\ server.dedicated \in BOOLEAN
  /\ {server.peer, server.owner, proven} \subseteq Clients \union {Nobody}

\* No invocation counter of either end is spent twice, over every association, on
\* frames, InitiateRequests and HLS proofs alike: the nonce is title and counter,
\* and GCM does not survive a repeated one.
NonceUsedOnce ==
  \A i, j \in DOMAIN sealed :
    (sealed[i].from = sealed[j].from /\ sealed[i].ic = sealed[j].ic) => i = j

\* A request is carried out at most once and a response taken at most once, though
\* the link repeats them, in the same association or in a later one of that client, and
\* though the server is restarted from what its host has stored.  (The window of a client
\* that is restarted is lost: then it is for the link to repeat nothing.)
AtMostOnce ==
  /\ \A i, j \in DOMAIN executed :
       (executed[i].from = executed[j].from /\ executed[i].ic = executed[j].ic) => i = j
  /\ (setting.duplicating => "client" \notin setting.restarts) =>
       \A i, j \in DOMAIN taken :
         (taken[i].by = taken[j].by /\ taken[i].ic = taken[j].ic) => i = j

\* With high level security the server carries out a request only for a client that
\* has answered the challenge of the very association the request arrives in, and with
\* a password only for one that has shown it there.
ProvenBeforeUse ==
  setting.mechanism # "none" => \A i \in DOMAIN executed : executed[i].proven = executed[i].from

\* A client that believes its association open has completed, with the server, the
\* exchange of the two challenges it holds: not an earlier attempt's.
MutualAuthentication ==
  Hls => \A c \in Clients :
    session[c].state = "associated" =>
      [client |-> c, its |-> session[c].mine, ours |-> session[c].theirs] \in agreed

\* Nobody starts over and nothing is repeated.  (The exception that a repeated AARQ draws
\* may overtake the AARE, and the client takes it for the answer.)
Undisturbed == ~setting.disrupted /\ ~setting.duplicating

\* Without disturbance a client that asks for an association gets it: the HLS exchange
\* and the switch to the dedicated key complete at both ends.
Opens == \A c \in Clients :
  (Undisturbed /\ session[c].state = "associating") ~> (session[c].state = "associated")

\* Without disturbance every request is answered, though requests and responses
\* overtake each other within the replay windows' width.
Served == []<>(Undisturbed =>
  \A i \in DOMAIN sealed : sealed[i].what = "request" =>
    \E j \in DOMAIN taken : taken[j].by = sealed[i].from /\ taken[j].to = sealed[i].ic)
=============================================================================
