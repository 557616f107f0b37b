------------------------- MODULE AssociationProofs --------------------------
(***************************************************************************)
(* Proofs about Association, for every set of clients and of settings,     *)
(* every counter and window size and every width.                          *)
(***************************************************************************)
EXTENDS Association, ReplayWindowProofs

(***************************************************************************)
(* The inductive invariant, in parts.                                      *)
(***************************************************************************)
\* The shapes of what the two ends keep.
SessionRecords ==
  [state : ClientStates, counter : Counter, window : Window, dedicated : BOOLEAN,
   peer : {Nobody, Server}, mine : Nat, theirs : Nat, replied : BOOLEAN,
   attempts : Nat, requests : Nat]

ServerRecords ==
  [state : ServerStates, counter : Counter, window : Window, dedicated : BOOLEAN,
   general : BOOLEAN, peer : Clients \union {Nobody}, owner : Clients \union {Nobody},
   mine : Nat, theirs : Nat]

UseKinds == {"aarq", "proof", "hls", "request", "aare", "hlsReply", "denied", "response",
             "protectedException"}
Uses == [from : Clients \union {Server}, ic : Counter, what : UseKinds]
Executions == [from : Clients, ic : Counter, proven : Clients \union {Nobody}]
Answers == [by : Clients, ic : Counter, to : Nat]

Shapes ==
  /\ setting \in Settings
  /\ session \in [Clients -> SessionRecords]
  /\ server \in ServerRecords
  /\ drawn \in Nat
  /\ agreed \subseteq [client : Clients, its : Nat, ours : Nat]
  /\ proven \in Clients \union {Nobody}
  /\ sealed \in Seq(Uses)
  /\ executed \in Seq(Executions)
  /\ taken \in Seq(Answers)

\* Only the clients of the setting ever leave their initial state; the server's window is
\* that of the client it is associated with.
Present ==
  /\ \A c \in Clients : session[c].state # "idle" => c \in setting.clients
  /\ {server.peer, server.owner} \subseteq setting.clients \union {Nobody}
  /\ server.peer # Nobody => server.owner = server.peer

\* What is on its way to the server was sent by a client of the setting, under a
\* counter that client has used.
ToServerInv ==
  \A m \in toServer :
    /\ m.kind \in {"aarq", "hls", "request", "rlrq"}
    /\ m.from \in setting.clients
    /\ m.kind # "rlrq" => /\ m.ic \in Counter /\ m.ic <= session[m.from].counter
                          /\ m.body \in Nat

\* What is on its way to a client and protected was sent under a counter the server
\* has used; an exception names a counter.
SealedKinds == {"aare", "hlsReply", "denied", "response", "protectedException"}

ToClientInv ==
  \A m \in toClient :
    /\ m.kind \in SealedKinds \union {"refused", "exception", "rlre"}
    /\ m.to \in setting.clients
    /\ m.kind \in SealedKinds => /\ m.ic \in Counter /\ m.ic <= server.counter
                                 /\ m.body \in Nat
    /\ m.kind = "exception" => m.body \in Counter

\* No counter is sealed beyond the one its owner has reached, and none twice.
Reached ==
  [e \in Clients \union {Server} |-> IF e = Server THEN server.counter ELSE session[e].counter]

SpentOnce(uses, reached) ==
  /\ \A i \in DOMAIN uses : uses[i].ic <= reached[uses[i].from]
  /\ \A i, j \in DOMAIN uses :
       (uses[i].from = uses[j].from /\ uses[i].ic = uses[j].ic) => i = j

NonceInv == SpentOnce(sealed, Reached)

\* An association that is open belongs to whoever has been proven in it.
EntropyHolds == ~(Hls /\ setting.entropyFails)

ProvenInv ==
  EntropyHolds =>
    /\ (setting.mechanism # "none" /\ server.state = "associated") => proven = server.peer
    /\ ProvenBeforeUse

\* Challenges: every one about was drawn, none is zero where it counts.
ChallengeInv ==
  Hls =>
    /\ \A c \in Clients :
         /\ session[c].mine <= drawn
         /\ session[c].state = "authenticating" => session[c].theirs \in 1 .. drawn
    /\ server.theirs <= drawn /\ server.mine <= drawn
    /\ server.mine # 0 => server.theirs # 0
    /\ \A m \in toServer : m.kind \in {"aarq", "hls"} => m.body \in 1 .. drawn
    /\ \A m \in toClient : m.kind = "aare" => m.body \in 1 .. drawn
    /\ \A r \in agreed : r.client \in Clients /\ r.its \in 1 .. drawn

\* A client whose challenge is `its` and whose answer to `ours` is under way or has been
\* accepted has taken the server's challenge `ours` for that very attempt.
Paired(c, its, ours) ==
  session[c].mine = its => session[c].state # "associating" /\ session[c].theirs = ours

PairInv ==
  Hls =>
    /\ \A m \in toServer :
         (m.kind = "hls" /\ m.from = server.peer /\ m.body = server.mine) =>
           Paired(m.from, server.theirs, server.mine)
    /\ \A r \in agreed : Paired(r.client, r.its, r.ours)
    /\ \A m \in toClient : m.kind = "hlsReply" =>
         \E r \in agreed : r.client = m.to /\ r.its = m.body

\* One window per peer: the link repeats nothing, or the server never has to give up
\* the window of one client for another's; and the client is not restarted.
OneOwner == ~setting.duplicating \/ \A c, d \in setting.clients : c = d
WindowKept == ~setting.duplicating \/ "client" \notin setting.restarts

\* What was carried out will not be again: where the link may repeat it the window
\* refuses it, and where it does not it is gone.
ExecutedInv ==
  OneOwner =>
    /\ \A i \in DOMAIN executed :
         /\ executed[i].from \in setting.clients
         /\ executed[i].ic <= session[executed[i].from].counter
         /\ setting.duplicating =>
              server.owner = executed[i].from /\ ~Fresh(server.window, executed[i].ic)
         /\ ~setting.duplicating =>
              \A m \in toServer : m.kind \in {"hls", "request"} =>
                ~(m.from = executed[i].from /\ m.ic = executed[i].ic)
    /\ \A i, j \in DOMAIN executed :
         (executed[i].from = executed[j].from /\ executed[i].ic = executed[j].ic) => i = j

\* The same of what the clients have taken.
TakenInv ==
  WindowKept =>
    /\ \A i \in DOMAIN taken :
         /\ taken[i].ic <= server.counter
         /\ setting.duplicating => ~Fresh(session[taken[i].by].window, taken[i].ic)
         /\ ~setting.duplicating =>
              \A m \in toClient : m.kind = "response" =>
                ~(m.to = taken[i].by /\ m.ic = taken[i].ic)
    /\ \A i, j \in DOMAIN taken :
         (taken[i].by = taken[j].by /\ taken[i].ic = taken[j].ic) => i = j

\* A counter tells one protected message from another, in each direction.
FramesDiffer ==
  /\ \A m, n \in toServer :
       (m.kind # "rlrq" /\ n.kind # "rlrq" /\ m.from = n.from /\ m.ic = n.ic) => m = n
  /\ \A m, n \in toClient :
       (m.kind \in SealedKinds /\ n.kind \in SealedKinds /\ m.ic = n.ic) => m = n

IInv ==
  /\ Shapes /\ Present /\ ToServerInv /\ ToClientInv
  /\ NonceInv /\ ProvenInv /\ ChallengeInv /\ PairInv /\ MutualAuthentication
  /\ FramesDiffer /\ ExecutedInv /\ TakenInv
-----------------------------------------------------------------------------
(***************************************************************************)
(* Lemmas about the histories.                                             *)
(***************************************************************************)

\* A history is indexed from one, and each entry has its type.
LEMMA Entries ==
  ASSUME NEW S, NEW s \in Seq(S)
  PROVE  DOMAIN s = 1 .. Len(s) /\ Len(s) \in Nat /\ \A i \in DOMAIN s : s[i] \in S
OBVIOUS

\* One entry more: the others stay where they are.
LEMMA OneMore ==
  ASSUME NEW S, NEW s \in Seq(S), NEW x \in S
  PROVE  /\ Append(s, x) \in Seq(S)
         /\ DOMAIN Append(s, x) = 1 .. Len(s) + 1
         /\ Append(s, x)[Len(s) + 1] = x
         /\ \A i \in DOMAIN s : Append(s, x)[i] = s[i]
OBVIOUS

\* The HLS exchange spends two counters, one after the other.
LEMMA TwoMore ==
  ASSUME NEW S, NEW s \in Seq(S), NEW x \in S, NEW y \in S
  PROVE  s \o <<x, y>> = Append(Append(s, x), y)
OBVIOUS

\* A counter beyond the one its owner had reached is spent for the first time.
LEMMA Spending ==
  ASSUME NEW s \in Seq(Uses), NEW u \in Uses,
         NEW old \in [Clients \union {Server} -> Counter],
         NEW new \in [Clients \union {Server} -> Counter],
         SpentOnce(s, old),
         \A e \in Clients \union {Server} : old[e] <= new[e],
         old[u.from] < u.ic, u.ic <= new[u.from]
  PROVE  SpentOnce(Append(s, u), new)
<1>1. \A i \in DOMAIN s : s[i] \in Uses
  BY Entries
<1>2. \A i \in DOMAIN Append(s, u) :
        (i \in DOMAIN s /\ Append(s, u)[i] = s[i]) \/ (i = Len(s) + 1 /\ Append(s, u)[i] = u)
  BY Entries, OneMore
<1>3. \A i \in DOMAIN s : s[i].from = u.from => s[i].ic < u.ic
  BY <1>1, CounterMaxAssumption DEF SpentOnce, Uses, Counter
<1>4. \A i \in DOMAIN Append(s, u) : Append(s, u)[i].ic <= new[Append(s, u)[i].from]
  <2> TAKE i \in DOMAIN Append(s, u)
  <2>1. CASE i \in DOMAIN s /\ Append(s, u)[i] = s[i]
    BY <1>1, <2>1, CounterMaxAssumption DEF SpentOnce, Uses, Counter
  <2> QED
    BY <1>2, <2>1
<1>5. \A i, j \in DOMAIN Append(s, u) :
        (/\ Append(s, u)[i].from = Append(s, u)[j].from
         /\ Append(s, u)[i].ic = Append(s, u)[j].ic) => i = j
  BY <1>1, <1>2, <1>3, CounterMaxAssumption DEF SpentOnce, Uses, Counter
<1> QED
  BY <1>4, <1>5 DEF SpentOnce

\* Counters that only move on keep what has been spent in order.
LEMMA NothingSpent ==
  ASSUME NEW s \in Seq(Uses),
         NEW old \in [Clients \union {Server} -> Counter],
         NEW new \in [Clients \union {Server} -> Counter],
         SpentOnce(s, old),
         \A e \in Clients \union {Server} : old[e] <= new[e]
  PROVE  SpentOnce(s, new)
<1>1. \A i \in DOMAIN s : s[i] \in Uses
  BY Entries
<1>2. \A i \in DOMAIN s : s[i].ic <= new[s[i].from]
  BY <1>1, CounterMaxAssumption DEF SpentOnce, Uses, Counter
<1> QED
  BY <1>2 DEF SpentOnce

\* The counters of both ends only move on.
CountersMoveOn ==
  /\ Reached \in [Clients \union {Server} -> Counter]
  /\ Reached' \in [Clients \union {Server} -> Counter]
  /\ \A e \in Clients \union {Server} : Reached[e] <= Reached'[e]

\* An end that spends a counter beyond the one it had reached.
LEMMA SpendsOne ==
  ASSUME IInv, CountersMoveOn, NEW e \in Clients \union {Server},
         NEW what \in UseKinds, NEW ic \in Counter,
         Reached[e] < ic, ic <= Reached'[e],
         sealed' = Append(sealed, Use(e, ic, what))
  PROVE  NonceInv' /\ sealed' \in Seq(Uses)
<1> DEFINE u == Use(e, ic, what)
<1>1. u \in Uses /\ u.from = e /\ u.ic = ic
  BY DEF Use, Uses
<1>2. sealed \in Seq(Uses) /\ SpentOnce(sealed, Reached)
  BY DEF IInv, Shapes, NonceInv
<1> HIDE DEF u
<1>3. SpentOnce(Append(sealed, u), Reached')
  BY <1>1, <1>2, Spending DEF CountersMoveOn
<1> QED
  BY <1>1, <1>2, <1>3, OneMore DEF NonceInv, u

\* One that spends two, one after the other.
LEMMA SpendsTwo ==
  ASSUME IInv, CountersMoveOn, NEW e \in Clients \union {Server},
         NEW what \in UseKinds, NEW ic \in Counter, NEW that \in UseKinds, NEW jc \in Counter,
         Reached[e] < ic, ic < jc, jc <= Reached'[e],
         sealed' = sealed \o <<Use(e, ic, what), Use(e, jc, that)>>
  PROVE  NonceInv' /\ sealed' \in Seq(Uses)
<1> DEFINE u == Use(e, ic, what)
           v == Use(e, jc, that)
           between == [Reached EXCEPT ![e] = ic]
<1>1. u \in Uses /\ u.from = e /\ u.ic = ic /\ v \in Uses /\ v.from = e /\ v.ic = jc
  BY DEF Use, Uses
<1>2. sealed \in Seq(Uses) /\ SpentOnce(sealed, Reached)
  BY DEF IInv, Shapes, NonceInv
<1>4. /\ between \in [Clients \union {Server} -> Counter]
      /\ \A d \in Clients \union {Server} : Reached[d] <= between[d] /\ between[d] <= Reached'[d]
      /\ between[e] = ic
  BY CounterMaxAssumption DEF Counter, CountersMoveOn
<1> HIDE DEF u, v, between
<1>5. Append(sealed, u) \in Seq(Uses) /\ Append(Append(sealed, u), v) \in Seq(Uses)
  BY <1>1, <1>2, OneMore
<1>6. SpentOnce(Append(sealed, u), between)
  <2>1. Reached[u.from] < u.ic /\ u.ic <= between[u.from]
    BY <1>1, <1>4 DEF Counter
  <2> QED
    BY <1>1, <1>2, <1>4, <2>1, Spending DEF CountersMoveOn
<1>7. SpentOnce(Append(Append(sealed, u), v), Reached')
  <2>1. between[v.from] < v.ic /\ v.ic <= Reached'[v.from]
    BY <1>1, <1>4
  <2> QED
    BY <1>1, <1>4, <1>5, <1>6, <2>1, Spending DEF CountersMoveOn
<1>8. sealed' = Append(Append(sealed, u), v)
  BY <1>1, <1>2, TwoMore DEF u, v
<1> QED
  BY <1>5, <1>7, <1>8 DEF NonceInv

\* A step that spends none.
LEMMA SpendsNone ==
  ASSUME IInv, CountersMoveOn, sealed' = sealed
  PROVE  NonceInv'
<1>1. sealed \in Seq(Uses) /\ SpentOnce(sealed, Reached)
  BY DEF IInv, Shapes, NonceInv
<1>2. SpentOnce(sealed, Reached')
  BY <1>1, NothingSpent DEF CountersMoveOn
<1> QED
  BY <1>2 DEF NonceInv
-----------------------------------------------------------------------------
(***************************************************************************)
(* What the steps of a client have in common, and those of the server.     *)
(***************************************************************************)

\* Client c moves its own session on, and sends at most one message, under a counter
\* it has just taken.
ClientStep(c, sent) ==
  /\ session' \in [Clients -> SessionRecords]
  /\ \A d \in Clients : d # c => session'[d] = session[d]
  /\ session[c].counter <= session'[c].counter
  /\ session'[c].state # "idle" => c \in setting.clients
  /\ toServer' = toServer \union sent
  /\ \A m \in sent :
       /\ m.kind \in {"aarq", "hls", "request", "rlrq"}
       /\ m.from = c /\ c \in setting.clients
       /\ m.kind # "rlrq" =>
            m.ic \in Counter /\ session[c].counter < m.ic /\ m.ic <= session'[c].counter
            /\ m.body \in Nat
  /\ \A m, n \in sent : m = n
  /\ toClient' \subseteq toClient
  /\ UNCHANGED <<setting, server, proven, agreed, executed>>

\* What such a step can not disturb.
LEMMA ClientStepInv ==
  ASSUME IInv, NEW c \in Clients, NEW sent, ClientStep(c, sent)
  PROVE  /\ Present' /\ ToServerInv' /\ ToClientInv' /\ ProvenInv' /\ FramesDiffer'
         /\ ExecutedInv'
         /\ Reached \in [Clients \union {Server} -> Counter]
         /\ Reached' \in [Clients \union {Server} -> Counter]
         /\ \A e \in Clients \union {Server} : Reached[e] <= Reached'[e]
         /\ Reached[c] = session[c].counter /\ Reached'[c] = session'[c].counter
<1> USE CounterMaxAssumption
<1>0. setting.clients \subseteq Clients
  BY AssociationConstants DEF IInv, Shapes
<1>1. \A d \in Clients : /\ session[d] \in SessionRecords /\ session'[d] \in SessionRecords
                          /\ session[d].counter \in Nat /\ session'[d].counter \in Nat
                          /\ session[d].counter <= session'[d].counter
  <2>1. \A d \in Clients : session[d] \in SessionRecords /\ session'[d] \in SessionRecords
    BY DEF IInv, Shapes, ClientStep
  <2>2. \A d \in Clients : session[d].counter \in Nat /\ session'[d].counter \in Nat
    BY <2>1 DEF SessionRecords, Counter
  <2> QED
    BY <2>1, <2>2 DEF ClientStep
<1>2. Present'
  BY DEF IInv, Present, ClientStep
<1>3. ToServerInv'
  <2> SUFFICES ASSUME NEW m \in toServer'
               PROVE  /\ m.kind \in {"aarq", "hls", "request", "rlrq"}
                      /\ m.from \in setting.clients
                      /\ m.kind # "rlrq" => /\ m.ic \in Counter
                                            /\ m.ic <= session'[m.from].counter
                                            /\ m.body \in Nat
    BY DEF ToServerInv, ClientStep
  <2>1. CASE m \in toServer
    BY <1>0, <1>1, <2>1 DEF IInv, ToServerInv, Counter
  <2>2. CASE m \in sent
    BY <2>2 DEF ClientStep
  <2> QED
    BY <2>1, <2>2 DEF ClientStep
<1>4. ToClientInv'
  BY DEF IInv, ToClientInv, ClientStep
<1>5. ProvenInv'
  BY DEF IInv, ProvenInv, EntropyHolds, Hls, ProvenBeforeUse, ClientStep
<1>6. FramesDiffer'
  <2>1. \A m, n \in toServer' :
         (m.kind # "rlrq" /\ n.kind # "rlrq" /\ m.from = n.from /\ m.ic = n.ic) => m = n
    BY <1>1 DEF IInv, FramesDiffer, ToServerInv, ClientStep, Counter
  <2> QED
    BY <2>1 DEF IInv, FramesDiffer, ClientStep
<1>7. ExecutedInv'
  <2>1. CASE ~OneOwner
    BY <2>1 DEF ExecutedInv, OneOwner, ClientStep
  <2>2. CASE OneOwner
    <3>1. ASSUME NEW i \in DOMAIN executed
          PROVE  executed[i].ic \in Nat /\ executed[i].from \in Clients
      <4>1. executed[i] \in Executions
        BY Entries DEF IInv, Shapes
      <4> QED
        BY <4>1 DEF Executions, Counter
    <3>2. ASSUME NEW i \in DOMAIN executed
          PROVE  executed[i].ic <= session'[executed[i].from].counter
      BY <1>1, <2>2, <3>1 DEF IInv, ExecutedInv
    <3>3. ASSUME NEW i \in DOMAIN executed, ~setting.duplicating, NEW m \in toServer',
                 m.kind \in {"hls", "request"}
          PROVE  ~(m.from = executed[i].from /\ m.ic = executed[i].ic)
      BY <1>1, <2>2, <3>1, <3>3 DEF IInv, ExecutedInv, ClientStep, Counter
    <3> QED
      BY <2>2, <3>2, <3>3 DEF IInv, ExecutedInv, OneOwner, ClientStep
  <2> QED
    BY <2>1, <2>2
<1>8. Server \notin Clients /\ server.counter \in Counter /\ server' = server
  BY AssociationConstants DEF IInv, Shapes, ServerRecords, ClientStep, Server
<1>9. \A d \in Clients : session[d].counter \in Counter /\ session'[d].counter \in Counter
  BY <1>1 DEF SessionRecords
<1> QED
  BY <1>1, <1>2, <1>3, <1>4, <1>5, <1>6, <1>7, <1>8, <1>9 DEF Reached, Counter

\* Nothing is taken, and the window stays or takes in one counter more.
LEMMA TakenKept ==
  ASSUME IInv, NEW c \in Clients, NEW sent, ClientStep(c, sent), taken' = taken,
         setting.duplicating /\ WindowKept =>
           \/ session'[c].window = session[c].window
           \/ \E ic \in Counter : /\ Fresh(session[c].window, ic)
                                  /\ session'[c].window = Accept(session[c].window, ic)
  PROVE  TakenInv'
<1>1. CASE ~WindowKept
  BY <1>1 DEF TakenInv, WindowKept, ClientStep
<1>2. CASE WindowKept
  <2>1. \A i \in DOMAIN taken : taken[i].by \in Clients /\ taken[i].ic \in Counter
    <3>1. \A i \in DOMAIN taken : taken[i] \in Answers
      BY Entries DEF IInv, Shapes
    <3> QED
      BY <3>1 DEF Answers
  <2>2. session[c].window \in Window
    BY DEF IInv, Shapes, SessionRecords
  <2>3. ASSUME NEW i \in DOMAIN taken, setting.duplicating
        PROVE  ~Fresh(session'[taken[i].by].window, taken[i].ic)
    <3>1. ~Fresh(session[taken[i].by].window, taken[i].ic)
      BY <1>2, <2>3 DEF IInv, TakenInv
    <3>2. CASE taken[i].by = c
      BY <1>2, <2>1, <2>2, <2>3, <3>1, <3>2, RefusedStaysRefused
    <3>3. CASE taken[i].by # c
      BY <2>1, <3>1, <3>3 DEF ClientStep
    <3> QED
      BY <3>2, <3>3
  <2> QED
    BY <1>2, <2>3 DEF IInv, TakenInv, WindowKept, ClientStep
<1> QED
  BY <1>1, <1>2

\* A client that spends the counter it has moved to.
LEMMA ClientSpends ==
  ASSUME IInv, NEW c \in Clients, NEW sent, ClientStep(c, sent),
         NEW what \in UseKinds, NEW ic \in Counter,
         session[c].counter < ic, ic <= session'[c].counter,
         sealed' = Append(sealed, Use(c, ic, what))
  PROVE  NonceInv' /\ sealed' \in Seq(Uses)
<1>1. CountersMoveOn /\ Reached[c] = session[c].counter /\ Reached'[c] = session'[c].counter
  BY ClientStepInv DEF CountersMoveOn
<1> QED
  BY <1>1, SpendsOne

\* A client that spends two, one after the other.
LEMMA ClientSpendsTwo ==
  ASSUME IInv, NEW c \in Clients, NEW sent, ClientStep(c, sent),
         NEW what \in UseKinds, NEW ic \in Counter, NEW that \in UseKinds, NEW jc \in Counter,
         session[c].counter < ic, ic < jc, jc <= session'[c].counter,
         sealed' = sealed \o <<Use(c, ic, what), Use(c, jc, that)>>
  PROVE  NonceInv' /\ sealed' \in Seq(Uses)
<1>1. CountersMoveOn /\ Reached[c] = session[c].counter /\ Reached'[c] = session'[c].counter
  BY ClientStepInv DEF CountersMoveOn
<1> QED
  BY <1>1, SpendsTwo

\* A client that spends none.
LEMMA ClientSpendsNone ==
  ASSUME IInv, NEW c \in Clients, NEW sent, ClientStep(c, sent), sealed' = sealed
  PROVE  NonceInv'
<1>1. CountersMoveOn
  BY ClientStepInv DEF CountersMoveOn
<1> QED
  BY <1>1, SpendsNone

\* A client holds on to its pair of challenges, or starts over with one not seen before.
HoldsPair(c) ==
  \/ session'[c].mine = 0
  \/ session'[c].mine > drawn
  \/ /\ session'[c].mine = session[c].mine
     /\ \/ session[c].state = "associating"
        \/ session'[c].theirs = session[c].theirs /\ session'[c].state # "associating"

\* Such a step keeps what is known of the challenges: a new hls_reply_request answers the
\* challenge its client holds.
LEMMA ClientChallenges ==
  ASSUME IInv, NEW c \in Clients, NEW sent, ClientStep(c, sent),
         drawn' \in Nat, drawn <= drawn',
         Hls => /\ HoldsPair(c)
                /\ session'[c].mine <= drawn'
                /\ session'[c].state = "authenticating" => session'[c].theirs \in 1 .. drawn'
                /\ \A m \in sent : m.kind = "aarq" => m.body \in 1 .. drawn'
                /\ \A m \in sent : m.kind = "hls" =>
                     /\ m.body = session[c].theirs /\ m.body \in 1 .. drawn'
                     /\ session'[c].theirs = session[c].theirs
                     /\ session'[c].state # "associating"
  PROVE  ChallengeInv' /\ PairInv'
<1>1. CASE ~Hls
  BY <1>1 DEF ChallengeInv, PairInv, Hls, ClientStep
<1>2. CASE Hls
  <2>1. /\ setting' = setting /\ server' = server /\ agreed' = agreed
        /\ toServer' = toServer \union sent /\ toClient' \subseteq toClient
        /\ \A d \in Clients : d # c => session'[d] = session[d]
        /\ \A m \in sent : m.from = c
    BY DEF ClientStep
  <2>2. /\ drawn \in Nat /\ server.theirs \in Nat /\ server.mine \in Nat
        /\ \A d \in Clients : session[d].mine \in Nat /\ session[d].theirs \in Nat
        /\ \A d \in Clients : session'[d].mine \in Nat /\ session'[d].theirs \in Nat
    BY DEF IInv, Shapes, ServerRecords, SessionRecords, ClientStep
  <2>3. ChallengeInv
    BY DEF IInv
  <2>4. ChallengeInv'
    <3>1. \A d \in Clients :
            /\ session'[d].mine <= drawn'
            /\ session'[d].state = "authenticating" => session'[d].theirs \in 1 .. drawn'
      BY <1>2, <2>1, <2>2, <2>3 DEF ChallengeInv
    <3>2. server.theirs <= drawn' /\ server.mine <= drawn'
      BY <1>2, <2>2, <2>3 DEF ChallengeInv
    <3>3. \A m \in toServer' : m.kind \in {"aarq", "hls"} => m.body \in 1 .. drawn'
      BY <1>2, <2>1, <2>2, <2>3 DEF ChallengeInv
    <3>4. \A m \in toClient' : m.kind = "aare" => m.body \in 1 .. drawn'
      BY <1>2, <2>1, <2>2, <2>3 DEF ChallengeInv
    <3>5. \A r \in agreed : r.client \in Clients /\ r.its \in 1 .. drawn'
      BY <1>2, <2>2, <2>3 DEF ChallengeInv
    <3> QED
      BY <1>2, <2>1, <2>3, <3>1, <3>2, <3>3, <3>4, <3>5 DEF ChallengeInv
  <2>5. ASSUME NEW d \in Clients, NEW its \in 1 .. drawn, NEW ours, Paired(d, its, ours)
        PROVE  Paired(d, its, ours)'
    <3>1. CASE d # c
      BY <2>1, <2>5, <3>1 DEF Paired
    <3>2. CASE d = c
      BY <1>2, <2>2, <2>5, <3>2 DEF Paired, HoldsPair
    <3> QED
      BY <3>1, <3>2
  <2>6. \A m \in toServer' :
          (m.kind = "hls" /\ m.from = server.peer /\ m.body = server.mine) =>
            Paired(m.from, server.theirs, server.mine)'
    <3> SUFFICES ASSUME NEW m \in toServer', m.kind = "hls", m.from = server.peer,
                        m.body = server.mine
                 PROVE  Paired(m.from, server.theirs, server.mine)'
      OBVIOUS
    <3>1. CASE m \in sent
      BY <1>2, <2>1, <3>1 DEF Paired
    <3>2. CASE m \in toServer
      <4>1. server.theirs \in 1 .. drawn
        BY <1>2, <2>2, <2>3, <3>2 DEF ChallengeInv
      <4>2. m.from \in Clients
        BY <3>2, AssociationConstants DEF IInv, Shapes, ToServerInv
      <4>3. Paired(m.from, server.theirs, server.mine)
        BY <1>2, <3>2 DEF IInv, PairInv
      <4>4. Paired(m.from, server.theirs, server.mine)'
            <=> (session'[m.from].mine = server.theirs =>
                   session'[m.from].state # "associating" /\ session'[m.from].theirs = server.mine)
        BY <2>1 DEF Paired
      <4> QED
        BY <2>1, <2>5, <4>1, <4>2, <4>3
    <3> QED
      BY <2>1, <3>1, <3>2
  <2>7. \A r \in agreed : Paired(r.client, r.its, r.ours)'
    BY <1>2, <2>3, <2>5 DEF IInv, PairInv, ChallengeInv
  <2> QED
    BY <1>2, <2>1, <2>4, <2>6, <2>7 DEF IInv, PairInv, Paired, Hls
<1> QED
  BY <1>1, <1>2

-----------------------------------------------------------------------------
(***************************************************************************)
(* The clients.                                                            *)
(***************************************************************************)

\* associate_request draws a challenge nobody has seen, and spends one counter.
LEMMA AssociateRequestIInv ==
  ASSUME IInv, NEW c \in Clients, AssociateRequest(c)
  PROVE  IInv'
<1> DEFINE s == session[c]
           ic == NextCounter(s.counter)
           challenge == IF Hls THEN drawn + 1 ELSE NoChallenge
           f == Frame("aarq", c, Server, ic, FALSE, challenge)
<1> USE CounterMaxAssumption
<1>1. s \in SessionRecords /\ s.counter \in Nat /\ s.attempts \in Nat /\ drawn \in Nat
  BY DEF IInv, Shapes, SessionRecords, Counter
<1>2. /\ c \in setting.clients /\ ic \in Counter /\ s.counter < ic /\ ic \in Nat
      /\ drawn' = IF Hls THEN drawn + 1 ELSE drawn
      /\ toServer' = toServer \union {f}
      /\ sealed' = Append(sealed, Use(c, ic, "aarq"))
      /\ UNCHANGED <<setting, server, toClient, proven, agreed, executed, taken>>
  BY <1>1 DEF AssociateRequest, InitiateKeySet, HasNext, NextCounter, Counter
<1>3. challenge \in Nat /\ challenge <= drawn' /\ drawn' \in Nat /\ drawn <= drawn'
  BY <1>1, <1>2 DEF NoChallenge
<1>4. /\ session' \in [Clients -> SessionRecords]
      /\ \A d \in Clients : d # c => session'[d] = session[d]
      /\ session'[c].counter = ic /\ session'[c].state = "associating"
      /\ session'[c].window = s.window /\ session'[c].theirs = s.theirs
      /\ session'[c].mine = IF Hls THEN challenge ELSE s.mine
  <2>1. session \in [Clients -> SessionRecords]
    BY DEF IInv, Shapes
  <2>2. session' = [session EXCEPT ![c].counter = ic, ![c].state = "associating",
                                   ![c].mine = IF Hls THEN challenge ELSE @,
                                   ![c].attempts = @ + 1]
    BY DEF AssociateRequest
  <2> HIDE DEF challenge
  <2> QED
    BY <1>1, <1>2, <1>3, <2>1, <2>2, SMTT(40) DEF SessionRecords, ClientStates
<1>5. f.kind = "aarq" /\ f.from = c /\ f.ic = ic /\ f.body = challenge
  BY DEF Frame
<1> HIDE DEF f, ic, challenge
<1>6. ClientStep(c, {f})
  BY <1>1, <1>2, <1>3, <1>4, <1>5 DEF ClientStep
<1>7. NonceInv' /\ sealed' \in Seq(Uses)
  BY <1>2, <1>4, <1>6, ClientSpends DEF UseKinds
<1>8. Shapes'
  BY <1>2, <1>3, <1>4, <1>7 DEF IInv, Shapes
<1>9. TakenInv'
  BY <1>2, <1>4, <1>6, TakenKept
<1>10. ChallengeInv' /\ PairInv'
  <2>1. Hls => session'[c].mine > drawn /\ session'[c].mine <= drawn' /\ f.body \in 1 .. drawn'
    BY <1>1, <1>2, <1>3, <1>4, <1>5 DEF challenge
  <2> QED
    BY <1>3, <1>4, <1>5, <1>6, <2>1, ClientChallenges DEF HoldsPair
<1>11. MutualAuthentication'
  BY <1>2, <1>4 DEF IInv, MutualAuthentication, Hls
<1> QED
  BY <1>6, <1>7, <1>8, <1>9, <1>10, <1>11, ClientStepInv DEF IInv

\* hls_reply_request answers the challenge of this attempt, under a counter for the proof
\* and another for the frame; if there is but one left, it is spent for nothing.
LEMMA HlsReplyRequestIInv ==
  ASSUME IInv, NEW c \in Clients, HlsReplyRequest(c)
  PROVE  IInv'
<1> DEFINE s == session[c]
           proof == NextCounter(s.counter)
           frame == CounterAfterProof(proof)
           f == Frame("hls", c, Server, frame, s.dedicated, s.theirs)
<1> USE CounterMaxAssumption
<1>1. s \in SessionRecords /\ s.counter \in Nat /\ s.theirs \in Nat /\ s.mine \in Nat
      /\ session \in [Clients -> SessionRecords]
  BY SMTT(40) DEF IInv, Shapes, SessionRecords, Counter
<1>2. /\ s.state = "authenticating" /\ c \in setting.clients
      /\ proof \in Counter /\ s.counter < proof
      /\ UNCHANGED <<setting, server, drawn, toClient, proven, agreed, executed, taken>>
  BY <1>1 DEF IInv, Present, HlsReplyRequest, HasNext, NextCounter, Counter
<1>3. drawn \in Nat /\ (Hls => s.theirs \in 1 .. drawn /\ s.mine <= drawn)
  BY <1>2 DEF IInv, Shapes, ChallengeInv
<1>4. CASE HasNext(proof)
  <2>1. /\ session' = [session EXCEPT ![c].counter = frame, ![c].replied = TRUE]
        /\ toServer' = toServer \union {f}
        /\ sealed' = sealed \o <<Use(c, proof, "proof"), Use(c, frame, "hls")>>
    BY <1>4 DEF HlsReplyRequest
  <2>2. frame \in Counter /\ proof < frame
    BY <1>2, <1>4 DEF CounterAfterProof, HasNext, NextCounter, Counter
  <2>3. f.kind = "hls" /\ f.from = c /\ f.ic = frame /\ f.body = s.theirs
    BY DEF Frame
  <2> HIDE DEF proof, frame, f
  <2>4. /\ session' \in [Clients -> SessionRecords]
        /\ \A d \in Clients : d # c => session'[d] = session[d]
        /\ session'[c].counter = frame /\ session'[c].state = s.state
        /\ session'[c].window = s.window /\ session'[c].theirs = s.theirs
        /\ session'[c].mine = s.mine
    BY <1>1, <2>1, <2>2 DEF SessionRecords
  <2>5. s.counter < frame
    BY <1>1, <1>2, <2>2 DEF Counter
  <2>6. ClientStep(c, {f})
    BY <1>1, <1>2, <2>1, <2>2, <2>3, <2>4, <2>5 DEF ClientStep, Counter
  <2>7. NonceInv' /\ sealed' \in Seq(Uses)
    <3>1. frame <= session'[c].counter /\ "proof" \in UseKinds /\ "hls" \in UseKinds
      BY <2>2, <2>4 DEF Counter, UseKinds
    <3> QED
      BY <1>2, <2>1, <2>2, <2>6, <3>1, ClientSpendsTwo
  <2>8. Shapes'
    BY <1>2, <2>4, <2>7 DEF IInv, Shapes
  <2>9. TakenInv'
    BY <1>2, <2>4, <2>6, TakenKept
  <2>10. ChallengeInv' /\ PairInv'
    BY <1>1, <1>2, <1>3, <2>3, <2>4, <2>6, ClientChallenges DEF HoldsPair
  <2>11. MutualAuthentication'
    BY <1>2, <2>4 DEF IInv, MutualAuthentication, Hls
  <2> QED
    BY <2>6, <2>7, <2>8, <2>9, <2>10, <2>11, ClientStepInv DEF IInv
<1>5. CASE ~HasNext(proof)
  <2>1. /\ session' = [session EXCEPT ![c].counter = proof]
        /\ toServer' = toServer
        /\ sealed' = Append(sealed, Use(c, proof, "proof"))
    BY <1>5 DEF HlsReplyRequest
  <2> HIDE DEF proof
  <2>4. /\ session' \in [Clients -> SessionRecords]
        /\ \A d \in Clients : d # c => session'[d] = session[d]
        /\ session'[c].counter = proof /\ session'[c].state = s.state
        /\ session'[c].window = s.window /\ session'[c].theirs = s.theirs
        /\ session'[c].mine = s.mine
    BY <1>1, <1>2, <2>1 DEF SessionRecords
  <2>6. ClientStep(c, {})
    BY <1>1, <1>2, <2>1, <2>4 DEF ClientStep, Counter
  <2>7. NonceInv' /\ sealed' \in Seq(Uses)
    BY <1>2, <2>1, <2>4, <2>6, ClientSpends DEF UseKinds, Counter
  <2>8. Shapes'
    BY <1>2, <2>4, <2>7 DEF IInv, Shapes
  <2>9. TakenInv'
    BY <1>2, <2>4, <2>6, TakenKept
  <2>10. ChallengeInv' /\ PairInv'
    BY <1>1, <1>2, <1>3, <2>4, <2>6, ClientChallenges DEF HoldsPair
  <2>11. MutualAuthentication'
    BY <1>2, <2>4 DEF IInv, MutualAuthentication, Hls
  <2> QED
    BY <2>6, <2>7, <2>8, <2>9, <2>10, <2>11, ClientStepInv DEF IInv
<1> QED
  BY <1>4, <1>5

\* A protected request spends one counter; the association stays as it is.
LEMMA RequestIInv ==
  ASSUME IInv, NEW c \in Clients, Request(c)
  PROVE  IInv'
<1> DEFINE s == session[c]
           ic == NextCounter(s.counter)
           f == Frame("request", c, Server, ic, s.dedicated, ic)
<1> USE CounterMaxAssumption
<1>1. s \in SessionRecords /\ s.counter \in Nat /\ s.requests \in Nat /\ s.mine \in Nat
      /\ session \in [Clients -> SessionRecords] /\ drawn \in Nat
  BY SMTT(40) DEF IInv, Shapes, SessionRecords, Counter
<1>2. /\ s.state = "associated" /\ c \in setting.clients
      /\ ic \in Counter /\ s.counter < ic /\ ic \in Nat
      /\ toServer' = toServer \union {f}
      /\ sealed' = Append(sealed, Use(c, ic, "request"))
      /\ UNCHANGED <<setting, server, drawn, toClient, proven, agreed, executed, taken>>
  BY <1>1 DEF IInv, Present, Request, HasNext, NextCounter, Counter
<1>3. session' = [session EXCEPT ![c].counter = ic, ![c].requests = @ + 1]
  BY DEF Request
<1>4. f.kind = "request" /\ f.from = c /\ f.ic = ic /\ f.body = ic
  BY DEF Frame
<1> HIDE DEF ic, f
<1>5. /\ session' \in [Clients -> SessionRecords]
      /\ \A d \in Clients : d # c => session'[d] = session[d]
      /\ session'[c].counter = ic /\ session'[c].state = s.state
      /\ session'[c].window = s.window /\ session'[c].theirs = s.theirs
      /\ session'[c].mine = s.mine
  <2>1. ic \in Counter
    BY <1>2
  <2> QED
    BY <1>1, <1>3, <2>1 DEF SessionRecords
<1>6. ClientStep(c, {f})
  BY <1>1, <1>2, <1>4, <1>5 DEF ClientStep
<1>7. NonceInv' /\ sealed' \in Seq(Uses)
  BY <1>2, <1>5, <1>6, ClientSpends DEF UseKinds
<1>8. Shapes'
  BY <1>2, <1>5, <1>7 DEF IInv, Shapes
<1>9. TakenInv'
  BY <1>2, <1>5, <1>6, TakenKept
<1>10. ChallengeInv' /\ PairInv'
  <2>1. Hls => s.mine <= drawn
    BY DEF IInv, ChallengeInv
  <2> QED
    BY <1>1, <1>2, <1>4, <1>5, <1>6, <2>1, ClientChallenges DEF HoldsPair
<1>11. MutualAuthentication'
  BY <1>2, <1>5 DEF IInv, MutualAuthentication, Hls
<1> QED
  BY <1>6, <1>7, <1>8, <1>9, <1>10, <1>11, ClientStepInv DEF IInv

\* release_request is neither protected nor numbered.
LEMMA ReleaseRequestIInv ==
  ASSUME IInv, NEW c \in Clients, ReleaseRequest(c)
  PROVE  IInv'
<1> DEFINE s == session[c]
           f == Plain("rlrq", c, Server, 0)
<1> USE CounterMaxAssumption
<1>1. s \in SessionRecords /\ s.counter \in Nat /\ s.mine \in Nat
      /\ session \in [Clients -> SessionRecords] /\ drawn \in Nat
  BY DEF IInv, Shapes, SessionRecords, Counter
<1>2. /\ s.state = "associated" /\ c \in setting.clients
      /\ toServer' = toServer \union {f}
      /\ sealed' = sealed
      /\ UNCHANGED <<setting, server, drawn, toClient, proven, agreed, executed, taken>>
  BY DEF IInv, Present, ReleaseRequest, history
<1>3. session' = [session EXCEPT ![c].state = "releasing"]
  BY DEF ReleaseRequest
<1>4. f.kind = "rlrq" /\ f.from = c
  BY DEF Plain
<1> HIDE DEF f
<1>5. /\ session' \in [Clients -> SessionRecords]
      /\ \A d \in Clients : d # c => session'[d] = session[d]
      /\ session'[c].counter = s.counter /\ session'[c].state = "releasing"
      /\ session'[c].window = s.window /\ session'[c].theirs = s.theirs
      /\ session'[c].mine = s.mine
  BY <1>1, <1>3 DEF SessionRecords, ClientStates
<1>6. ClientStep(c, {f})
  BY <1>1, <1>2, <1>4, <1>5 DEF ClientStep
<1>7. NonceInv'
  BY <1>2, <1>6, ClientSpendsNone
<1>8. Shapes'
  BY <1>2, <1>5 DEF IInv, Shapes
<1>9. TakenInv'
  BY <1>2, <1>5, <1>6, TakenKept
<1>10. ChallengeInv' /\ PairInv'
  <2>1. Hls => s.mine <= drawn
    BY DEF IInv, ChallengeInv
  <2> QED
    BY <1>1, <1>2, <1>4, <1>5, <1>6, <2>1, ClientChallenges DEF HoldsPair
<1>11. MutualAuthentication'
  BY <1>2, <1>5 DEF IInv, MutualAuthentication, Hls
<1> QED
  BY <1>6, <1>7, <1>8, <1>9, <1>10, <1>11, ClientStepInv DEF IInv

\* A client that is restarted goes on from its stored counter, and forgets its window,
\* its peer and its challenges.
LEMMA ClientRestartIInv ==
  ASSUME IInv, NEW c \in Clients, ClientRestart(c)
  PROVE  IInv'
<1> DEFINE s == session[c]
<1> USE CounterMaxAssumption
<1>1. s \in SessionRecords /\ s.counter \in Nat /\ s.counter \in Counter
      /\ s.attempts \in Nat /\ s.requests \in Nat
      /\ session \in [Clients -> SessionRecords] /\ drawn \in Nat
  BY SMTT(40) DEF IInv, Shapes, SessionRecords, Counter
<1>2. /\ "client" \in setting.restarts
      /\ toServer' = toServer /\ sealed' = sealed
      /\ UNCHANGED <<setting, server, drawn, toClient, proven, agreed, executed, taken>>
  BY DEF ClientRestart, history
<1>3. session' = [session EXCEPT ![c] =
        [NewSession(s.counter) EXCEPT !.attempts = s.attempts, !.requests = s.requests]]
  BY <1>1 DEF ClientRestart
<1>4. NewWindow(Width) \in Window
  BY AssociationConstants, NewWindowFacts
<1>5. /\ session' \in [Clients -> SessionRecords]
      /\ \A d \in Clients : d # c => session'[d] = session[d]
      /\ session'[c].counter = s.counter /\ session'[c].state = "idle"
      /\ session'[c].mine = 0
  BY <1>1, <1>3, <1>4 DEF NewSession, SessionRecords, ClientStates, NoChallenge
<1>6. ClientStep(c, {})
  BY <1>1, <1>2, <1>5 DEF ClientStep
<1>7. NonceInv'
  BY <1>2, <1>6, ClientSpendsNone
<1>8. Shapes'
  BY <1>2, <1>5 DEF IInv, Shapes
<1>9. TakenInv'
  BY <1>2, <1>6, TakenKept DEF WindowKept
<1>10. ChallengeInv' /\ PairInv'
  BY <1>1, <1>2, <1>5, <1>6, ClientChallenges DEF HoldsPair
<1>11. MutualAuthentication'
  BY <1>2, <1>5 DEF IInv, MutualAuthentication, Hls
<1> QED
  BY <1>6, <1>7, <1>8, <1>9, <1>10, <1>11, ClientStepInv DEF IInv

\* What arrives leaves a client's challenge alone, and its answer to the server's unless
\* an AARE was awaited: everything but what it has taken is then as it should be.
LEMMA ClientReceives ==
  ASSUME IInv, NEW c \in Clients, NEW t \in SessionRecords,
         toClient' \subseteq toClient,
         session' = [session EXCEPT ![c] = t],
         session[c].counter <= t.counter,
         c \in setting.clients,
         t.mine = session[c].mine,
         \/ session[c].state = "associating"
         \/ t.theirs = session[c].theirs /\ t.state # "associating",
         Hls /\ t.state = "authenticating" => t.theirs \in 1 .. drawn,
         Hls /\ t.state = "associated" =>
           [client |-> c, its |-> t.mine, ours |-> t.theirs] \in agreed,
         UNCHANGED <<setting, server, drawn, toServer, sealed, proven, agreed, executed>>
  PROVE  ClientStep(c, {}) /\ (taken' \in Seq(Answers) /\ TakenInv' => IInv')
<1>1. session \in [Clients -> SessionRecords] /\ drawn \in Nat
  BY DEF IInv, Shapes
<1>2. /\ session' \in [Clients -> SessionRecords]
      /\ \A d \in Clients : d # c => session'[d] = session[d]
      /\ session'[c] = t
  BY <1>1
<1>3. ClientStep(c, {})
  BY <1>2 DEF ClientStep, IInv, Present
<1>4. NonceInv'
  BY <1>3, ClientSpendsNone
<1>5. taken' \in Seq(Answers) => Shapes'
  BY <1>2 DEF IInv, Shapes
<1>6. ChallengeInv' /\ PairInv'
  <2>1. Hls => t.mine <= drawn
    BY DEF IInv, ChallengeInv
  <2> QED
    BY <1>1, <1>2, <1>3, <2>1, ClientChallenges DEF HoldsPair
<1>7. MutualAuthentication'
  BY <1>2 DEF IInv, MutualAuthentication, Hls
<1> QED
  BY <1>3, <1>4, <1>5, <1>6, <1>7, ClientStepInv DEF IInv

\* handle_associate_response on an accepted AARE takes the server's challenge, and opens
\* the association only without high level security.
LEMMA TakeAareIInv ==
  ASSUME IInv, NEW c \in Clients, NEW m \in toClient, m.to = c, m.kind = "aare",
         toClient' \subseteq toClient, session[c].state = "associating", TakeAare(c, m),
         UNCHANGED <<setting, server, drawn, toServer, sealed, proven, agreed, executed, taken>>
  PROVE  IInv'
<1> DEFINE s == [session[c] EXCEPT !.peer = Server]
           ok == Verdict(m, s.peer, FALSE, s.window) = "ok"
           a == [s EXCEPT !.window = Accept(s.window, m.ic), !.dedicated = setting.dedicated,
                          !.theirs = m.body, !.replied = FALSE,
                          !.state = IF Hls THEN "authenticating" ELSE "associated"]
           t == IF ok THEN a ELSE s
<1> USE CounterMaxAssumption
<1>1. session[c] \in SessionRecords /\ session[c].counter \in Nat /\ drawn \in Nat
  BY DEF IInv, Shapes, SessionRecords, Counter
<1>2. m.ic \in Counter /\ m.body \in Nat /\ (Hls => m.body \in 1 .. drawn)
  BY DEF IInv, ToClientInv, SealedKinds, ChallengeInv
<1>3. setting.dedicated \in BOOLEAN
  BY AssociationConstants DEF IInv, Shapes
<1>4. /\ s \in SessionRecords /\ s.window = session[c].window /\ s.counter = session[c].counter
      /\ s.mine = session[c].mine /\ s.theirs = session[c].theirs /\ s.state = "associating"
      /\ s.window \in Window
  BY <1>1 DEF SessionRecords
<1>5. session' = [session EXCEPT ![c] = t]
  BY DEF TakeAare
<1> HIDE DEF s
<1>6. ok => Fresh(s.window, m.ic) /\ Accept(s.window, m.ic) \in Window
  <2>1. ok => Fresh(s.window, m.ic)
    BY DEF Verdict
  <2> QED
    BY <1>2, <1>4, <2>1, AcceptFacts
<1> HIDE DEF ok
<1>7. ok => /\ a \in SessionRecords /\ a.window = Accept(s.window, m.ic)
            /\ a.counter = s.counter /\ a.mine = s.mine /\ a.theirs = m.body
            /\ Hls => a.state = "authenticating"
  BY <1>2, <1>3, <1>4, <1>6 DEF SessionRecords, ClientStates, Hls
<1> HIDE DEF a
<1>8. /\ t \in SessionRecords /\ session[c].counter <= t.counter /\ t.mine = session[c].mine
      /\ Hls /\ t.state = "authenticating" => t.theirs \in 1 .. drawn
      /\ Hls => t.state # "associated"
      /\ \/ t.window = session[c].window
         \/ Fresh(session[c].window, m.ic) /\ t.window = Accept(session[c].window, m.ic)
  <2>1. CASE ok
    <3>1. t = a
      BY <2>1
    <3> HIDE DEF t
    <3>2. /\ t \in SessionRecords /\ t.counter = session[c].counter /\ t.mine = session[c].mine
          /\ t.window = Accept(session[c].window, m.ic) /\ Fresh(session[c].window, m.ic)
      BY <1>4, <1>6, <1>7, <2>1, <3>1
    <3>3. t.theirs = m.body /\ (Hls => t.state = "authenticating")
      BY <1>7, <2>1, <3>1
    <3> QED
      BY <1>1, <1>2, <3>2, <3>3
  <2>2. CASE ~ok
    <3>1. t = s
      BY <2>2
    <3> QED
      BY <1>1, <1>4, <3>1
  <2> QED
    BY <2>1, <2>2
<1> HIDE DEF t
<1>9. ClientStep(c, {}) /\ (taken' \in Seq(Answers) /\ TakenInv' => IInv')
  <2>1. c \in setting.clients
    BY DEF IInv, ToClientInv
  <2> QED
    BY <1>1, <1>5, <1>8, <2>1, ClientReceives
<1>10. session'[c].window = t.window /\ taken \in Seq(Answers)
  BY <1>5 DEF IInv, Shapes
<1>11. TakenInv'
  BY <1>2, <1>8, <1>9, <1>10, TakenKept
<1> QED
  BY <1>9, <1>10, <1>11

\* An exception or a rejection closes the attempt; the counter may only move on.
LEMMA TakeRefusalIInv ==
  ASSUME IInv, NEW c \in Clients, NEW m \in toClient, m.to = c,
         m.kind \in {"refused", "exception"},
         toClient' \subseteq toClient, session[c].state = "associating", TakeRefusal(c, m),
         UNCHANGED <<setting, server, drawn, toServer, sealed, proven, agreed, executed, taken>>
  PROVE  IInv'
<1> USE CounterMaxAssumption
<1>1. session \in [Clients -> SessionRecords] /\ session[c] \in SessionRecords
      /\ session[c].counter \in Nat /\ session[c].counter \in Counter
  BY DEF IInv, Shapes, SessionRecords, Counter
<1>2. PICK n \in Resynchronised(session[c].counter, m) :
        session' = [session EXCEPT ![c].state = "closed", ![c].counter = n,
                                   ![c].peer = IF m.kind = "refused" THEN Server ELSE @]
  BY DEF TakeRefusal
<1>3. n \in Counter /\ session[c].counter <= n
  BY <1>1, <1>2 DEF Resynchronised, IInv, ToClientInv, Counter
<1>4. /\ session' \in [Clients -> SessionRecords]
      /\ \A d \in Clients : d # c => session'[d] = session[d]
      /\ session'[c].state = "closed" /\ session'[c].counter = n
      /\ session'[c].window = session[c].window
      /\ session'[c].mine = session[c].mine /\ session'[c].theirs = session[c].theirs
  BY <1>1, <1>2, <1>3 DEF SessionRecords, ClientStates
<1>5. session' = [session EXCEPT ![c] = session'[c]] /\ session'[c] \in SessionRecords
  BY <1>1, <1>4
<1>6. ClientStep(c, {}) /\ (taken' \in Seq(Answers) /\ TakenInv' => IInv')
  <2>1. c \in setting.clients
    BY DEF IInv, ToClientInv
  <2> QED
    BY <1>1, <1>3, <1>4, <1>5, <2>1, ClientReceives
<1>7. TakenInv' /\ taken \in Seq(Answers)
  BY <1>4, <1>6, TakenKept DEF IInv, Shapes
<1> QED
  BY <1>6, <1>7

\* A response that is taken is new to the window, and from then on refused by it or gone.
LEMMA TakenMore ==
  ASSUME IInv, NEW c \in Clients, ClientStep(c, {}), NEW m \in toClient, m.to = c,
         m.kind = "response", toClient' = Delivered(toClient, m),
         Fresh(session[c].window, m.ic),
         session'[c].window = Accept(session[c].window, m.ic),
         taken' = Append(taken, [by |-> c, ic |-> m.ic, to |-> m.body])
  PROVE  taken' \in Seq(Answers) /\ TakenInv'
<1> DEFINE x == [by |-> c, ic |-> m.ic, to |-> m.body]
           n == Len(taken) + 1
<1> USE CounterMaxAssumption
<1>1. /\ m.ic \in Counter /\ m.ic <= server.counter /\ m.body \in Nat
      /\ taken \in Seq(Answers) /\ session[c].window \in Window
  BY DEF IInv, Shapes, ToClientInv, SealedKinds, SessionRecords
<1>2. x \in Answers /\ x.by = c /\ x.ic = m.ic
  BY <1>1 DEF Answers
<1>3. \A i \in DOMAIN taken : taken[i].by \in Clients /\ taken[i].ic \in Counter
  <2>1. \A i \in DOMAIN taken : taken[i] \in Answers
    BY <1>1, Entries
  <2> QED
    BY <2>1 DEF Answers
<1> HIDE DEF x
<1>4. /\ taken' \in Seq(Answers)
      /\ \A i \in DOMAIN taken' :
           (i \in DOMAIN taken /\ taken'[i] = taken[i]) \/ (i = n /\ taken'[i] = x)
  <2>1. taken' = Append(taken, x)
    BY DEF x
  <2> QED
    BY <1>1, <1>2, <2>1, Entries, OneMore
<1>5. CASE ~WindowKept
  BY <1>4, <1>5 DEF TakenInv, WindowKept, ClientStep
<1>6. CASE WindowKept
  <2>1. /\ setting' = setting /\ server' = server /\ toClient' \subseteq toClient
        /\ \A d \in Clients : d # c => session'[d] = session[d]
    BY DEF ClientStep
  <2>2. \A i \in DOMAIN taken : ~(taken[i].by = c /\ taken[i].ic = m.ic)
    <3>1. CASE setting.duplicating
      BY <1>6, <3>1 DEF IInv, TakenInv
    <3>2. CASE ~setting.duplicating
      BY <1>6, <3>2 DEF IInv, TakenInv
    <3> QED
      BY <3>1, <3>2
  <2>3. ASSUME NEW i \in DOMAIN taken', setting.duplicating
        PROVE  ~Fresh(session'[taken'[i].by].window, taken'[i].ic)
    <3>1. CASE i \in DOMAIN taken /\ taken'[i] = taken[i]
      <4>1. ~Fresh(session[taken[i].by].window, taken[i].ic)
        BY <1>6, <2>3, <3>1 DEF IInv, TakenInv
      <4>2. CASE taken[i].by = c
        BY <1>1, <1>3, <3>1, <4>1, <4>2, RefusedStaysRefused
      <4>3. CASE taken[i].by # c
        BY <1>3, <2>1, <3>1, <4>1, <4>3
      <4> QED
        BY <4>2, <4>3
    <3>2. CASE taken'[i] = x
      BY <1>1, <1>2, <3>2, AcceptedIsRefused
    <3> QED
      BY <1>4, <3>1, <3>2
  <2>4. ASSUME NEW i \in DOMAIN taken', ~setting.duplicating, NEW l \in toClient',
               l.kind = "response"
        PROVE  ~(l.to = taken'[i].by /\ l.ic = taken'[i].ic)
    <3>1. l \in toClient /\ l # m
      BY <2>4 DEF Delivered
    <3>2. l.ic # m.ic
      BY <3>1, <2>4 DEF IInv, FramesDiffer, SealedKinds
    <3>3. CASE i \in DOMAIN taken /\ taken'[i] = taken[i]
      BY <1>6, <2>4, <3>1, <3>3 DEF IInv, TakenInv
    <3>4. CASE taken'[i] = x
      BY <1>2, <3>2, <3>4
    <3> QED
      BY <1>4, <3>3, <3>4
  <2>5. \A i \in DOMAIN taken' : taken'[i].ic <= server.counter
    BY <1>1, <1>2, <1>4, <1>6 DEF IInv, TakenInv
  <2>6. \A i, j \in DOMAIN taken' :
          (taken'[i].by = taken'[j].by /\ taken'[i].ic = taken'[j].ic) => i = j
    BY <1>2, <1>4, <1>6, <2>2 DEF IInv, TakenInv
  <2> QED
    BY <1>4, <2>1, <2>3, <2>4, <2>5, <2>6 DEF TakenInv
<1> QED
  BY <1>5, <1>6

\* A protected answer: the server's proof completes the exchange of the very challenges
\* the client holds, and a response is taken.
LEMMA TakeAnswerIInv ==
  ASSUME IInv, NEW c \in Clients, NEW m \in toClient, m.to = c,
         m.kind \in {"hlsReply", "denied", "response", "protectedException"},
         toClient' = Delivered(toClient, m), session[c].state # "associating",
         TakeAnswer(c, m),
         UNCHANGED <<setting, server, drawn, toServer, sealed, proven, agreed, executed>>
  PROVE  IInv'
<1> DEFINE s == session[c]
           ok == Verdict(m, s.peer, s.dedicated, s.window) = "ok"
           takes == ok /\ s.state # "authenticating" /\ m.kind = "response"
<1> USE CounterMaxAssumption
<1>1. s \in SessionRecords /\ s.counter \in Nat /\ s.window \in Window
      /\ session \in [Clients -> SessionRecords] /\ taken \in Seq(Answers)
  BY DEF IInv, Shapes, SessionRecords, Counter
<1>2. m.ic \in Counter /\ toClient' \subseteq toClient
  BY DEF IInv, ToClientInv, SealedKinds, Delivered
<1>3. /\ session' = [session EXCEPT ![c] = IF ok THEN Opened(s, m) ELSE s]
      /\ taken' = IF takes THEN Append(taken, [by |-> c, ic |-> m.ic, to |-> m.body]) ELSE taken
  BY DEF TakeAnswer
<1>4. ok => Fresh(s.window, m.ic) /\ Accept(s.window, m.ic) \in Window
  <2>1. ok => Fresh(s.window, m.ic)
    BY DEF Verdict
  <2> QED
    BY <1>1, <1>2, <2>1, AcceptFacts
<1>5. Hls /\ s.state = "authenticating" => s.theirs \in 1 .. drawn
  BY DEF IInv, ChallengeInv
<1>6. Hls /\ s.state = "associated" => [client |-> c, its |-> s.mine, ours |-> s.theirs] \in agreed
  BY DEF IInv, MutualAuthentication
<1>7. Hls /\ m.kind = "hlsReply" /\ ProofHolds(s, m) =>
        [client |-> c, its |-> s.mine, ours |-> s.theirs] \in agreed
  <2> SUFFICES ASSUME Hls, m.kind = "hlsReply", ProofHolds(s, m)
               PROVE  [client |-> c, its |-> s.mine, ours |-> s.theirs] \in agreed
    OBVIOUS
  <2>1. PICK r \in agreed : r.client = c /\ r.its = s.mine
    BY DEF IInv, PairInv, ProofHolds
  <2>2. r.ours = s.theirs
    BY <2>1 DEF IInv, PairInv, Paired
  <2>3. r \in [client : Clients, its : Nat, ours : Nat]
    BY <2>1 DEF IInv, Shapes
  <2> QED
    BY <2>1, <2>2, <2>3
<1>8. CASE ok
  <2> DEFINE t == Opened(s, m)
  <2>1. /\ t \in SessionRecords /\ t.counter = s.counter /\ t.mine = s.mine
        /\ t.theirs = s.theirs /\ t.window = Accept(s.window, m.ic)
        /\ \/ t.state = s.state
           \/ s.state = "authenticating" /\ t.state = "closed"
           \/ /\ s.state = "authenticating" /\ t.state = "associated"
              /\ m.kind = "hlsReply" /\ ProofHolds(s, m)
    BY <1>1, <1>4, <1>8, ZenonT(40) DEF Opened, SessionRecords, ClientStates
  <2>2. session' = [session EXCEPT ![c] = t]
    BY <1>3, <1>8
  <2> HIDE DEF t, ok
  <2>3. ClientStep(c, {}) /\ (taken' \in Seq(Answers) /\ TakenInv' => IInv')
    <3>1. session[c].counter <= t.counter /\ c \in setting.clients
      BY <1>1, <2>1 DEF IInv, ToClientInv
    <3>2. t.theirs = session[c].theirs /\ t.state # "associating" /\ t.mine = session[c].mine
      BY <2>1
    <3>3. Hls /\ t.state = "authenticating" => t.theirs \in 1 .. drawn
      BY <1>5, <2>1
    <3>4. Hls /\ t.state = "associated" =>
            [client |-> c, its |-> t.mine, ours |-> t.theirs] \in agreed
      BY <1>6, <1>7, <2>1
    <3> HIDE DEF s, takes
    <3> QED
      BY <1>2, <2>1, <2>2, <3>1, <3>2, <3>3, <3>4, ClientReceives
  <2>4. session'[c].window = Accept(s.window, m.ic)
    BY <1>1, <2>1, <2>2
  <2>5. CASE takes
    BY <1>3, <1>4, <1>8, <2>3, <2>4, <2>5, TakenMore
  <2>6. CASE ~takes
    <3>1. taken' = taken
      BY <1>3, <2>6
    <3>2. TakenInv'
      BY <1>2, <1>4, <1>8, <2>3, <2>4, <3>1, TakenKept
    <3> QED
      BY <1>1, <2>3, <3>1, <3>2
  <2> QED
    BY <2>5, <2>6
<1>9. CASE ~ok
  <2>1. session' = [session EXCEPT ![c] = s] /\ taken' = taken
    BY <1>3, <1>9
  <2> HIDE DEF ok
  <2>2. ClientStep(c, {}) /\ (taken' \in Seq(Answers) /\ TakenInv' => IInv')
    <3>1. session[c].counter <= s.counter /\ s.theirs = session[c].theirs /\ s.mine = session[c].mine
      BY <1>1
    <3>2. s.state # "associating" /\ c \in setting.clients
      BY DEF IInv, ToClientInv
    <3> HIDE DEF s, takes
    <3> QED
      BY <1>1, <1>2, <1>5, <1>6, <2>1, <3>1, <3>2, ClientReceives
  <2>3. TakenInv'
    BY <1>1, <2>1, <2>2, TakenKept
  <2> QED
    BY <1>1, <2>1, <2>2, <2>3
<1> QED
  BY <1>8, <1>9

\* Whatever a client receives.
LEMMA ReceiveIInv ==
  ASSUME IInv, NEW c \in Clients, Receive(c)
  PROVE  IInv'
<1>1. PICK m \in toClient :
        /\ m.to = c
        /\ toClient' = Delivered(toClient, m)
        /\ \/ /\ session[c].state = "associating"
              /\ \/ m.kind = "aare" /\ TakeAare(c, m)
                 \/ m.kind \in {"refused", "exception"} /\ TakeRefusal(c, m)
                 \/ m.kind \notin {"aare", "refused", "exception"} /\ UNCHANGED session
              /\ UNCHANGED taken
           \/ /\ session[c].state # "associating"
              /\ \/ /\ m.kind \in {"hlsReply", "denied", "response", "protectedException"}
                    /\ TakeAnswer(c, m)
                 \/ /\ m.kind = "rlre"
                    /\ session' = IF session[c].state = "authenticating" THEN session
                                  ELSE [session EXCEPT ![c].state = "closed"]
                    /\ UNCHANGED taken
                 \/ /\ m.kind \in {"aare", "refused", "exception"}
                    /\ UNCHANGED <<session, taken>>
        /\ UNCHANGED <<setting, server, drawn, toServer, sealed, proven, agreed, executed>>
  BY DEF Receive
<1>2. toClient' \subseteq toClient
  BY <1>1 DEF Delivered
<1>3. /\ session \in [Clients -> SessionRecords] /\ session[c] \in SessionRecords
      /\ session[c].counter <= session[c].counter /\ taken \in Seq(Answers)
  BY CounterMaxAssumption DEF IInv, Shapes, SessionRecords, Counter
<1>4. /\ Hls /\ session[c].state = "authenticating" => session[c].theirs \in 1 .. drawn
      /\ Hls /\ session[c].state = "associated" =>
           [client |-> c, its |-> session[c].mine, ours |-> session[c].theirs] \in agreed
      /\ c \in setting.clients
  BY <1>1 DEF IInv, ChallengeInv, MutualAuthentication, ToClientInv
<1>5. CASE session[c].state = "associating" /\ m.kind = "aare" /\ TakeAare(c, m) /\ taken' = taken
  BY <1>1, <1>2, <1>5, TakeAareIInv
<1>6. CASE /\ session[c].state = "associating" /\ m.kind \in {"refused", "exception"}
           /\ TakeRefusal(c, m) /\ taken' = taken
  BY <1>1, <1>2, <1>6, TakeRefusalIInv
<1>7. CASE /\ session[c].state # "associating"
           /\ m.kind \in {"hlsReply", "denied", "response", "protectedException"}
           /\ TakeAnswer(c, m)
  BY <1>1, <1>7, TakeAnswerIInv
<1>8. CASE session' = session /\ taken' = taken
  <2>1. session' = [session EXCEPT ![c] = session[c]]
    BY <1>3, <1>8
  <2>2. ClientStep(c, {}) /\ (taken' \in Seq(Answers) /\ TakenInv' => IInv')
    <3>1. \/ session[c].state = "associating"
          \/ session[c].theirs = session[c].theirs /\ session[c].state # "associating"
      OBVIOUS
    <3> QED
      BY <1>1, <1>2, <1>3, <1>4, <2>1, <3>1, ClientReceives
  <2>3. TakenInv'
    BY <1>8, <2>2, TakenKept
  <2> QED
    BY <1>3, <1>8, <2>2, <2>3
<1>9. CASE /\ session[c].state \notin {"associating", "authenticating"} /\ taken' = taken
           /\ session' = [session EXCEPT ![c].state = "closed"]
  <2>1. /\ session'[c] \in SessionRecords /\ session'[c].state = "closed"
        /\ session'[c].counter = session[c].counter /\ session'[c].window = session[c].window
        /\ session'[c].mine = session[c].mine /\ session'[c].theirs = session[c].theirs
        /\ \A d \in Clients : d # c => session'[d] = session[d]
        /\ session' \in [Clients -> SessionRecords]
    BY <1>3, <1>9 DEF SessionRecords, ClientStates
  <2>2. session' = [session EXCEPT ![c] = session'[c]] /\ session[c].counter <= session'[c].counter
    BY <1>3, <2>1
  <2>3. ClientStep(c, {}) /\ (taken' \in Seq(Answers) /\ TakenInv' => IInv')
    BY <1>1, <1>2, <2>1, <2>2, <1>4, ClientReceives
  <2>4. TakenInv'
    BY <1>9, <2>1, <2>3, TakenKept
  <2> QED
    BY <1>3, <1>9, <2>3, <2>4
<1> QED
  BY <1>1, <1>5, <1>6, <1>7, <1>8, <1>9

-----------------------------------------------------------------------------
(***************************************************************************)
(* The server.                                                             *)
(***************************************************************************)

\* The server moves on, and sends at most one message, under a counter it has just taken.
ServerStep(sent) ==
  /\ server' \in ServerRecords
  /\ server.counter <= server'.counter
  /\ {server'.peer, server'.owner} \subseteq setting.clients \union {Nobody}
  /\ server'.peer # Nobody => server'.owner = server'.peer
  /\ toServer' \subseteq toServer
  /\ toClient' = toClient \union sent
  /\ \A m \in sent :
       /\ m.kind \in SealedKinds \union {"refused", "exception", "rlre"}
       /\ m.to \in setting.clients
       /\ m.kind \in SealedKinds =>
            /\ m.ic \in Counter /\ server.counter < m.ic /\ m.ic <= server'.counter
            /\ m.body \in Nat
       /\ m.kind = "exception" => m.body \in Counter
  /\ \A m, n \in sent : m = n
  /\ agreed \subseteq agreed'
  /\ UNCHANGED <<setting, session, taken>>

\* What such a step can not disturb.
LEMMA ServerStepInv ==
  ASSUME IInv, NEW sent, ServerStep(sent)
  PROVE  /\ Present' /\ ToServerInv' /\ ToClientInv' /\ MutualAuthentication' /\ FramesDiffer'
         /\ TakenInv' /\ CountersMoveOn
         /\ Reached[Server] = server.counter /\ Reached'[Server] = server'.counter
<1> USE CounterMaxAssumption
<1>1. /\ server \in ServerRecords /\ server' \in ServerRecords
      /\ server.counter \in Nat /\ server'.counter \in Nat
      /\ server.counter \in Counter /\ server'.counter \in Counter
      /\ server.counter <= server'.counter
  BY DEF IInv, Shapes, ServerStep, ServerRecords, Counter
<1>2. Present'
  BY DEF IInv, Present, ServerStep
<1>3. ToServerInv'
  BY DEF IInv, ToServerInv, ServerStep
<1>4. ToClientInv'
  <2> SUFFICES ASSUME NEW m \in toClient'
               PROVE  /\ m.kind \in SealedKinds \union {"refused", "exception", "rlre"}
                      /\ m.to \in setting.clients
                      /\ m.kind \in SealedKinds => /\ m.ic \in Counter /\ m.ic <= server'.counter
                                                   /\ m.body \in Nat
                      /\ m.kind = "exception" => m.body \in Counter
    BY DEF ToClientInv, ServerStep
  <2>1. CASE m \in toClient
    BY <1>1, <2>1 DEF IInv, ToClientInv, Counter
  <2>2. CASE m \in sent
    BY <2>2 DEF ServerStep
  <2> QED
    BY <2>1, <2>2 DEF ServerStep
<1>5. MutualAuthentication'
  BY DEF IInv, MutualAuthentication, Hls, ServerStep
<1>6. FramesDiffer'
  <2>1. \A m, n \in toClient' :
         (m.kind \in SealedKinds /\ n.kind \in SealedKinds /\ m.ic = n.ic) => m = n
    BY <1>1 DEF IInv, FramesDiffer, ToClientInv, ServerStep, Counter
  <2> QED
    BY <2>1 DEF IInv, FramesDiffer, ServerStep
<1>7. TakenInv'
  <2>1. CASE ~WindowKept
    BY <2>1 DEF TakenInv, WindowKept, ServerStep
  <2>2. CASE WindowKept
    <3>1. ASSUME NEW i \in DOMAIN taken PROVE taken[i].ic \in Nat
      <4>1. taken[i] \in Answers
        BY Entries DEF IInv, Shapes
      <4> QED
        BY <4>1 DEF Answers, Counter
    <3>2. ASSUME NEW i \in DOMAIN taken PROVE taken[i].ic <= server'.counter
      BY <1>1, <2>2, <3>1 DEF IInv, TakenInv
    <3>3. ASSUME NEW i \in DOMAIN taken, ~setting.duplicating, NEW m \in toClient',
                 m.kind = "response"
          PROVE  ~(m.to = taken[i].by /\ m.ic = taken[i].ic)
      <4>1. CASE m \in toClient
        BY <2>2, <3>3, <4>1 DEF IInv, TakenInv
      <4>2. CASE m \in sent
        <5>1. m.ic \in Nat /\ server.counter < m.ic
          BY <3>3, <4>2 DEF ServerStep, SealedKinds, Counter
        <5>2. taken[i].ic <= server.counter
          BY <2>2 DEF IInv, TakenInv
        <5> QED
          BY <1>1, <3>1, <5>1, <5>2
      <4> QED
        BY <4>1, <4>2 DEF ServerStep
    <3> QED
      BY <2>2, <3>2, <3>3 DEF IInv, TakenInv, WindowKept, ServerStep
  <2> QED
    BY <2>1, <2>2
<1>8. Server \notin Clients
  BY AssociationConstants DEF Server
<1>9. \A d \in Clients : session[d].counter \in Counter /\ session'[d].counter \in Counter
                          /\ session[d].counter <= session'[d].counter
  BY DEF IInv, Shapes, SessionRecords, ServerStep, Counter
<1>10. CountersMoveOn /\ Reached[Server] = server.counter /\ Reached'[Server] = server'.counter
  BY <1>1, <1>8, <1>9 DEF Reached, CountersMoveOn
<1> QED
  BY <1>2, <1>3, <1>4, <1>5, <1>6, <1>7, <1>10

\* The server's challenge is the one it had, or one that no answer under way is for.
ServerHoldsPair ==
  \/ server'.mine = 0
  \/ server'.mine > drawn
  \/ server'.mine = server.mine /\ server'.theirs = server.theirs /\ server'.peer = server.peer

\* Such a step keeps what is known of the challenges: an exchange is agreed with a client
\* that holds both challenges, and answered for.
LEMMA ServerChallenges ==
  ASSUME IInv, NEW sent, ServerStep(sent), drawn' \in Nat, drawn <= drawn',
         Hls => /\ ServerHoldsPair
                /\ server'.theirs <= drawn' /\ server'.mine <= drawn'
                /\ server'.mine # 0 => server'.theirs # 0
                /\ \A m \in sent : m.kind = "aare" => m.body \in 1 .. drawn'
                /\ \A r \in agreed' : r \in agreed \/
                     (r.client \in Clients /\ r.its \in 1 .. drawn' /\ Paired(r.client, r.its, r.ours))
                /\ \A m \in sent : m.kind = "hlsReply" =>
                     \E r \in agreed' : r.client = m.to /\ r.its = m.body
  PROVE  ChallengeInv' /\ PairInv'
<1>1. CASE ~Hls
  BY <1>1 DEF ChallengeInv, PairInv, Hls, ServerStep
<1>2. CASE Hls
  <2>1. /\ setting' = setting /\ session' = session /\ agreed \subseteq agreed'
        /\ toServer' \subseteq toServer /\ toClient' = toClient \union sent
    BY DEF ServerStep
  <2>2. /\ drawn \in Nat /\ server'.theirs \in Nat /\ server'.mine \in Nat
        /\ \A d \in Clients : session[d].mine \in Nat /\ session[d].theirs \in Nat
    BY DEF IInv, Shapes, ServerRecords, SessionRecords, ServerStep
  <2>3. ChallengeInv
    BY DEF IInv
  <2>4. ChallengeInv'
    <3>1. \A d \in Clients :
            /\ session[d].mine <= drawn'
            /\ session[d].state = "authenticating" => session[d].theirs \in 1 .. drawn'
      BY <1>2, <2>2, <2>3 DEF ChallengeInv
    <3>2. \A m \in toServer' : m.kind \in {"aarq", "hls"} => m.body \in 1 .. drawn'
      BY <1>2, <2>1, <2>2, <2>3 DEF ChallengeInv
    <3>3. \A m \in toClient' : m.kind = "aare" => m.body \in 1 .. drawn'
      BY <1>2, <2>1, <2>2, <2>3 DEF ChallengeInv
    <3>4. \A r \in agreed' : r.client \in Clients /\ r.its \in 1 .. drawn'
      BY <1>2, <2>2, <2>3 DEF ChallengeInv
    <3> QED
      BY <1>2, <2>1, <3>1, <3>2, <3>3, <3>4 DEF ChallengeInv
  <2>5. \A m \in toServer' :
          (m.kind = "hls" /\ m.from = server'.peer /\ m.body = server'.mine) =>
            Paired(m.from, server'.theirs, server'.mine)
    <3> SUFFICES ASSUME NEW m \in toServer', m.kind = "hls", m.from = server'.peer,
                        m.body = server'.mine
                 PROVE  Paired(m.from, server'.theirs, server'.mine)
      OBVIOUS
    <3>1. m \in toServer /\ m.body \in 1 .. drawn
      BY <1>2, <2>1, <2>3 DEF ChallengeInv
    <3>2. /\ server'.mine = server.mine /\ server'.theirs = server.theirs
          /\ server'.peer = server.peer
      BY <1>2, <2>2, <3>1 DEF ServerHoldsPair
    <3> QED
      BY <1>2, <3>1, <3>2 DEF IInv, PairInv
  <2>6. \A r \in agreed' : Paired(r.client, r.its, r.ours)
    BY <1>2 DEF IInv, PairInv
  <2>7. \A m \in toClient' : m.kind = "hlsReply" =>
          \E r \in agreed' : r.client = m.to /\ r.its = m.body
    BY <1>2, <2>1 DEF IInv, PairInv
  <2> QED
    BY <1>2, <2>1, <2>4, <2>5, <2>6, <2>7 DEF PairInv, Paired
<1> QED
  BY <1>1, <1>2

\* A window that is its client's still refuses what it has refused.
StillRefuses ==
  \A c \in Clients, n \in Counter :
    (server.owner = c /\ ~Fresh(server.window, n)) =>
      (server'.owner = c /\ ~Fresh(server'.window, n))

\* Nothing is carried out, and what was is still refused.
LEMMA ExecutedKept ==
  ASSUME IInv, NEW sent, ServerStep(sent), executed' = executed,
         OneOwner /\ setting.duplicating => StillRefuses
  PROVE  ExecutedInv'
<1>1. CASE ~OneOwner
  BY <1>1 DEF ExecutedInv, OneOwner, ServerStep
<1>2. CASE OneOwner
  <2>1. \A i \in DOMAIN executed : executed[i].from \in Clients /\ executed[i].ic \in Counter
    <3>1. \A i \in DOMAIN executed : executed[i] \in Executions
      BY Entries DEF IInv, Shapes
    <3> QED
      BY <3>1 DEF Executions
  <2>2. ASSUME NEW i \in DOMAIN executed, setting.duplicating
        PROVE  server'.owner = executed[i].from /\ ~Fresh(server'.window, executed[i].ic)
    BY <1>2, <2>1, <2>2 DEF IInv, ExecutedInv, StillRefuses
  <2> QED
    BY <1>2, <2>2 DEF IInv, ExecutedInv, OneOwner, ServerStep
<1> QED
  BY <1>1, <1>2

\* A request that is carried out is new to the window, and from then on refused by it or
\* gone.
LEMMA ExecutedMore ==
  ASSUME IInv, NEW sent, ServerStep(sent), NEW m \in toServer,
         m.kind \in {"hls", "request"}, toServer' = Delivered(toServer, m),
         m.from = server.peer, Fresh(server.window, m.ic),
         server'.owner = server.owner, server'.window = Accept(server.window, m.ic),
         executed' = Append(executed, [from |-> m.from, ic |-> m.ic, proven |-> proven])
  PROVE  executed' \in Seq(Executions) /\ ExecutedInv'
<1> DEFINE x == [from |-> m.from, ic |-> m.ic, proven |-> proven]
           n == Len(executed) + 1
<1> USE CounterMaxAssumption
<1>1. /\ m.ic \in Counter /\ m.from \in setting.clients /\ m.from \in Clients
      /\ m.ic <= session[m.from].counter
      /\ executed \in Seq(Executions) /\ server.window \in Window
  BY AssociationConstants DEF IInv, Shapes, ToServerInv, ServerRecords
<1>2. server.owner = m.from
  BY <1>1, AssociationConstants DEF IInv, Present, Nobody
<1>3. x \in Executions /\ x.from = m.from /\ x.ic = m.ic
  BY <1>1 DEF Executions, IInv, Shapes
<1>4. \A i \in DOMAIN executed : executed[i].from \in Clients /\ executed[i].ic \in Counter
  <2>1. \A i \in DOMAIN executed : executed[i] \in Executions
    BY <1>1, Entries
  <2> QED
    BY <2>1 DEF Executions
<1> HIDE DEF x
<1>5. /\ executed' \in Seq(Executions)
      /\ \A i \in DOMAIN executed' :
           (i \in DOMAIN executed /\ executed'[i] = executed[i]) \/ (i = n /\ executed'[i] = x)
  <2>1. executed' = Append(executed, x)
    BY DEF x
  <2> QED
    BY <1>1, <1>3, <2>1, Entries, OneMore
<1>6. CASE ~OneOwner
  BY <1>5, <1>6 DEF ExecutedInv, OneOwner, ServerStep
<1>7. CASE OneOwner
  <2>1. /\ setting' = setting /\ session' = session /\ toServer' \subseteq toServer
    BY DEF ServerStep
  <2>2. \A i \in DOMAIN executed : ~(executed[i].from = m.from /\ executed[i].ic = m.ic)
    <3>1. CASE setting.duplicating
      BY <1>7, <3>1 DEF IInv, ExecutedInv
    <3>2. CASE ~setting.duplicating
      BY <1>7, <3>2 DEF IInv, ExecutedInv
    <3> QED
      BY <3>1, <3>2
  <2>3. ASSUME NEW i \in DOMAIN executed', setting.duplicating
        PROVE  server'.owner = executed'[i].from /\ ~Fresh(server'.window, executed'[i].ic)
    <3>1. CASE i \in DOMAIN executed /\ executed'[i] = executed[i]
      <4>1. server.owner = executed[i].from /\ ~Fresh(server.window, executed[i].ic)
        BY <1>7, <2>3, <3>1 DEF IInv, ExecutedInv
      <4> QED
        BY <1>1, <1>4, <3>1, <4>1, RefusedStaysRefused
    <3>2. CASE executed'[i] = x
      BY <1>1, <1>2, <1>3, <3>2, AcceptedIsRefused
    <3> QED
      BY <1>5, <3>1, <3>2
  <2>4. ASSUME NEW i \in DOMAIN executed', ~setting.duplicating, NEW l \in toServer',
               l.kind \in {"hls", "request"}
        PROVE  ~(l.from = executed'[i].from /\ l.ic = executed'[i].ic)
    <3>1. l \in toServer /\ l # m
      BY <2>4 DEF Delivered
    <3>2. ~(l.from = m.from /\ l.ic = m.ic)
      BY <3>1, <2>4 DEF IInv, FramesDiffer
    <3>3. CASE i \in DOMAIN executed /\ executed'[i] = executed[i]
      BY <1>7, <2>4, <3>1, <3>3 DEF IInv, ExecutedInv
    <3>4. CASE executed'[i] = x
      BY <1>3, <3>2, <3>4
    <3> QED
      BY <1>5, <3>3, <3>4
  <2>5. \A i \in DOMAIN executed' : /\ executed'[i].from \in setting.clients
                                    /\ executed'[i].ic <= session[executed'[i].from].counter
    BY <1>1, <1>3, <1>5, <1>7 DEF IInv, ExecutedInv
  <2>6. \A i, j \in DOMAIN executed' :
          (executed'[i].from = executed'[j].from /\ executed'[i].ic = executed'[j].ic) => i = j
    BY <1>3, <1>5, <1>7, <2>2 DEF IInv, ExecutedInv
  <2> QED
    BY <1>5, <2>1, <2>3, <2>4, <2>5, <2>6 DEF ExecutedInv
<1> QED
  BY <1>6, <1>7

\* The association an AARQ starts over with: the caller's, unproven, with the caller's
\* window.
Called(title) == [OwnedBy(ClearAssociation(server), title) EXCEPT !.peer = title]

\* It is the old one with these fields changed.
LEMMA CalledFacts ==
  ASSUME server \in ServerRecords, NEW title \in Clients
  PROVE  /\ Called(title) \in ServerRecords
         /\ Called(title).state = server.state /\ Called(title).counter = server.counter
         /\ Called(title).peer = title /\ Called(title).owner = title
         /\ Called(title).mine = 0 /\ Called(title).theirs = 0
         /\ Called(title).window =
              IF server.owner = title THEN server.window ELSE NewWindow(Width)
<1> DEFINE cleared == ClearAssociation(server)
           owned == OwnedBy(cleared, title)
<1>1. /\ cleared \in ServerRecords /\ cleared.owner = server.owner
      /\ cleared.state = server.state /\ cleared.counter = server.counter
      /\ cleared.window = server.window /\ cleared.mine = 0 /\ cleared.theirs = 0
  BY DEF ClearAssociation, ServerRecords, NoChallenge
<1> HIDE DEF cleared
<1>2. NewWindow(Width) \in Window
  BY AssociationConstants, NewWindowFacts
<1>3. /\ owned \in ServerRecords /\ owned.owner = title
      /\ owned.state = server.state /\ owned.counter = server.counter
      /\ owned.mine = 0 /\ owned.theirs = 0
      /\ owned.window = IF server.owner = title THEN server.window ELSE NewWindow(Width)
  <2>1. CASE server.owner = title
    BY <1>1, <2>1 DEF OwnedBy
  <2>2. CASE server.owner # title
    BY <1>1, <1>2, <2>2 DEF OwnedBy, ServerRecords
  <2> QED
    BY <2>1, <2>2
<1>4. Called(title) = [owned EXCEPT !.peer = title]
  BY DEF Called, cleared
<1> HIDE DEF owned
<1> QED
  BY <1>3, <1>4 DEF ServerRecords

\* The caller's window, as it was or with one counter more.
CallersWindow(title) ==
  {Called(title).window} \union
  {Accept(Called(title).window, n) : n \in {k \in Counter : Fresh(Called(title).window, k)}}

\* With one window to a server that window goes on refusing what it has refused, an
\* AARQ or not.
LEMMA CalledStillRefuses ==
  ASSUME IInv, NEW title \in setting.clients, OneOwner /\ setting.duplicating,
         server'.owner = title,
         server'.window \in CallersWindow(title)
  PROVE  StillRefuses
<1>1. server \in ServerRecords /\ title \in Clients /\ server.window \in Window
  BY AssociationConstants DEF IInv, Shapes, ServerRecords
<1>2. CASE server.owner = title
  <2>1. Called(title).window = server.window
    BY <1>1, <1>2, CalledFacts
  <2> QED
    BY <1>1, <1>2, <2>1, RefusedStaysRefused DEF StillRefuses, CallersWindow
<1>3. CASE server.owner # title
  <2>1. server.owner = Nobody
    BY <1>3 DEF IInv, Present, OneOwner
  <2> QED
    BY <2>1, AssociationConstants DEF StillRefuses, Nobody
<1> QED
  BY <1>2, <1>3

\* At most one message answers an AARQ.
AarqAnswer(m, sent) ==
  /\ \A l \in sent :
       /\ l.kind \in {"aare", "refused", "exception"} /\ l.to = m.from
       /\ l.kind = "aare" =>
            /\ l.ic \in Counter /\ server.counter < l.ic /\ l.ic <= server'.counter
            /\ l.body \in Nat
            /\ Hls => l.body \in 1 .. drawn'
       /\ l.kind = "exception" => l.body \in Counter
  /\ \A l, n \in sent : l = n

\* What the outcomes of handle_aarq have in common: the caller is the peer and the window
\* its own, a challenge is fresh or there is none, and nothing is carried out.
LEMMA AarqOutcome ==
  ASSUME IInv, NEW m \in toServer, toServer' \subseteq toServer, NEW sent,
         server' \in ServerRecords, server.counter <= server'.counter,
         server'.peer = m.from, server'.owner = m.from,
         server'.window \in CallersWindow(m.from),
         toClient' = toClient \union sent,
         AarqAnswer(m, sent),
         drawn' \in Nat, drawn <= drawn',
         Hls => /\ server'.theirs <= drawn'
                /\ \/ server'.mine = 0
                   \/ /\ server'.mine > drawn /\ server'.mine <= drawn' /\ server'.theirs # 0,
         proven' \in Clients \union {Nobody},
         (EntropyHolds /\ setting.mechanism # "none" /\ server'.state = "associated") =>
           proven' = m.from,
         UNCHANGED <<setting, session, agreed, executed, taken>>
  PROVE  ServerStep(sent) /\ (sealed' \in Seq(Uses) /\ NonceInv' => IInv')
<1>1. m.from \in setting.clients /\ m.from \in Clients
  BY AssociationConstants DEF IInv, Shapes, ToServerInv
<1>2. ServerStep(sent)
  BY <1>1 DEF ServerStep, SealedKinds, AarqAnswer
<1>3. ExecutedInv'
  <2>1. OneOwner /\ setting.duplicating => StillRefuses
    BY <1>1, CalledStillRefuses
  <2> QED
    BY <1>2, <2>1, ExecutedKept
<1>4. ProvenInv'
  BY DEF IInv, ProvenInv, EntropyHolds, Hls, ProvenBeforeUse
<1>5. ChallengeInv' /\ PairInv'
  <2>1. drawn \in Nat /\ server'.mine \in Nat
    BY DEF IInv, Shapes, ServerRecords
  <2>2. Hls => /\ ServerHoldsPair /\ server'.mine <= drawn'
               /\ server'.mine # 0 => server'.theirs # 0
    BY <2>1 DEF ServerHoldsPair
  <2>3. /\ \A l \in sent : l.kind # "hlsReply"
        /\ Hls => \A l \in sent : l.kind = "aare" => l.body \in 1 .. drawn'
    BY DEF AarqAnswer
  <2> QED
    BY <1>2, <2>2, <2>3, ServerChallenges
<1>6. sealed' \in Seq(Uses) => Shapes'
  BY DEF IInv, Shapes
<1> QED
  BY <1>2, <1>3, <1>4, <1>5, <1>6, ServerStepInv DEF IInv

\* handle_aarq.
LEMMA HandleAarqIInv ==
  ASSUME IInv, NEW m \in toServer, toServer' = Delivered(toServer, m), HandleAarq(m)
  PROVE  IInv'
<1> DEFINE called == Called(m.from)
           verdict == Verdict(m, m.from, FALSE, called.window)
           opened == [called EXCEPT !.window = Accept(called.window, m.ic),
                                    !.dedicated = setting.dedicated,
                                    !.general = setting.general]
           ic == NextCounter(server.counter)
           refuse == /\ server' = [called EXCEPT !.state = "closed"]
                     /\ Say({Plain("refused", Server, m.from, 0)})
                     /\ UNCHANGED <<drawn, sealed>>
           resync == /\ server' = [called EXCEPT !.state = "idle"]
                     /\ Say({Plain("exception", Server, m.from, ExpectedNext(called.window))})
                     /\ UNCHANGED <<drawn, sealed>>
           noEntropy == /\ server' = [opened EXCEPT !.theirs = m.body]
                        /\ UNCHANGED <<drawn, toClient, sealed>>
           its == IF Hls THEN m.body ELSE NoChallenge
           ours == IF Hls THEN drawn + 1 ELSE NoChallenge
           challenged == [opened EXCEPT !.state = AcceptedState, !.theirs = its, !.mine = ours]
           accept == /\ drawn' = IF Hls THEN drawn + 1 ELSE drawn
                     /\ IF HasNext(server.counter)
                          THEN /\ server' = [challenged EXCEPT !.counter = ic]
                               /\ Say({Frame("aare", Server, m.from, ic, FALSE, challenged.mine)})
                               /\ sealed' = Append(sealed, Use(Server, ic, "aare"))
                          ELSE server' = challenged /\ UNCHANGED <<toClient, sealed>>
<1> USE CounterMaxAssumption
<1>1. /\ m.kind = "aarq"
      /\ proven' = IF setting.mechanism = "low" /\ ~PasswordFails(m) THEN m.from ELSE Nobody
      /\ CASE PasswordFails(m) \/ verdict = "bad" -> refuse
           [] ~PasswordFails(m) /\ verdict = "replay" -> resync
           [] ~PasswordFails(m) /\ verdict = "ok" ->
                accept \/ (Hls /\ setting.entropyFails /\ noEntropy)
      /\ UNCHANGED <<setting, session, agreed, executed, taken>>
  BY DEF HandleAarq, Called
<1>2. verdict \in {"bad", "replay", "ok"} /\ (verdict = "ok" => Fresh(called.window, m.ic))
  BY DEF Verdict
<1> HIDE DEF refuse, resync, noEntropy, accept, verdict
<1>3. \/ refuse \/ resync
      \/ /\ ~PasswordFails(m) /\ verdict = "ok"
         /\ accept \/ (Hls /\ setting.entropyFails /\ noEntropy)
  BY <1>1, <1>2
<1>4. /\ m.from \in setting.clients /\ m.from \in Clients /\ m.ic \in Counter /\ m.body \in Nat
      /\ Hls => m.body \in 1 .. drawn
      /\ drawn \in Nat /\ sealed \in Seq(Uses)
      /\ setting.dedicated \in BOOLEAN /\ setting.general \in BOOLEAN
  BY <1>1, AssociationConstants DEF IInv, Shapes, ToServerInv, ChallengeInv
<1>5. /\ server \in ServerRecords /\ server.counter \in Counter /\ server.counter \in Nat
      /\ called \in ServerRecords /\ called.counter = server.counter /\ called.window \in Window
      /\ called.peer = m.from /\ called.owner = m.from /\ called.mine = 0 /\ called.theirs = 0
  <2>1. server \in ServerRecords
    BY DEF IInv, Shapes
  <2> HIDE DEF called
  <2>2. /\ called \in ServerRecords /\ called.counter = server.counter
        /\ called.peer = m.from /\ called.owner = m.from /\ called.mine = 0 /\ called.theirs = 0
    BY <1>4, <2>1, CalledFacts DEF called
  <2> QED
    BY <2>1, <2>2 DEF ServerRecords, Counter
<1>6. toServer' \subseteq toServer /\ proven' \in Clients \union {Nobody}
  BY <1>1, <1>4 DEF Delivered
<1> HIDE DEF called
<1>13. /\ called.window \in CallersWindow(m.from)
       /\ verdict = "ok" => Accept(called.window, m.ic) \in CallersWindow(m.from)
  BY <1>2, <1>4 DEF CallersWindow, called
<1>7. verdict = "ok" => Accept(called.window, m.ic) \in Window
  BY <1>2, <1>4, <1>5, AcceptFacts
<1>8. verdict = "ok" =>
        /\ opened \in ServerRecords /\ opened.counter = server.counter
        /\ opened.peer = m.from /\ opened.owner = m.from /\ opened.mine = 0 /\ opened.theirs = 0
        /\ opened.window = Accept(called.window, m.ic)
  BY <1>4, <1>5, <1>7 DEF ServerRecords
<1> HIDE DEF opened
<1>9. CASE refuse
  <2> DEFINE f == Plain("refused", Server, m.from, 0)
  <2>1. /\ server' \in ServerRecords /\ server'.counter = server.counter
        /\ server'.peer = m.from /\ server'.owner = m.from /\ server'.mine = 0
        /\ server'.theirs = 0 /\ server'.window = called.window /\ server'.state = "closed"
    BY <1>5, <1>9 DEF refuse, ServerRecords, ServerStates
  <2>2. toClient' = toClient \union {f} /\ drawn' = drawn /\ sealed' = sealed
    BY <1>9 DEF refuse, Say
  <2>3. f.kind = "refused" /\ f.to = m.from
    BY DEF Plain
  <2> HIDE DEF f
  <2>4. ServerStep({f}) /\ (sealed' \in Seq(Uses) /\ NonceInv' => IInv')
    <3>1. AarqAnswer(m, {f})
      BY <2>3 DEF AarqAnswer
    <3>2. server'.window \in CallersWindow(m.from)
      BY <1>13, <2>1
    <3>3. server.counter <= server'.counter /\ server'.theirs <= drawn'
      BY <1>4, <1>5, <2>1, <2>2
    <3> QED
      BY <1>1, <1>4, <1>6, <2>1, <2>2, <3>1, <3>2, <3>3, AarqOutcome
  <2> QED
    BY <1>4, <2>2, <2>4, ServerStepInv, SpendsNone
<1>10. CASE resync
  <2> DEFINE f == Plain("exception", Server, m.from, ExpectedNext(called.window))
  <2>1. /\ server' \in ServerRecords /\ server'.counter = server.counter
        /\ server'.peer = m.from /\ server'.owner = m.from /\ server'.mine = 0
        /\ server'.theirs = 0 /\ server'.window = called.window /\ server'.state = "idle"
    BY <1>5, <1>10 DEF resync, ServerRecords, ServerStates
  <2>2. toClient' = toClient \union {f} /\ drawn' = drawn /\ sealed' = sealed
    BY <1>10 DEF resync, Say
  <2>3. f.kind = "exception" /\ f.to = m.from /\ f.body \in Counter
    BY <1>5 DEF Plain, ExpectedNext, Window, Counter, NoCounter
  <2> HIDE DEF f
  <2>4. ServerStep({f}) /\ (sealed' \in Seq(Uses) /\ NonceInv' => IInv')
    <3>1. AarqAnswer(m, {f})
      BY <2>3 DEF AarqAnswer
    <3>2. server'.window \in CallersWindow(m.from)
      BY <1>13, <2>1
    <3>3. server.counter <= server'.counter /\ server'.theirs <= drawn'
      BY <1>4, <1>5, <2>1, <2>2
    <3> QED
      BY <1>1, <1>4, <1>6, <2>1, <2>2, <3>1, <3>2, <3>3, AarqOutcome
  <2> QED
    BY <1>4, <2>2, <2>4, ServerStepInv, SpendsNone
<1>11. CASE verdict = "ok" /\ Hls /\ setting.entropyFails /\ noEntropy
  <2>1. /\ server' \in ServerRecords /\ server'.counter = server.counter
        /\ server'.peer = m.from /\ server'.owner = m.from /\ server'.mine = 0
        /\ server'.theirs = m.body /\ server'.window = Accept(called.window, m.ic)
    BY <1>4, <1>8, <1>11 DEF noEntropy, ServerRecords
  <2>2. toClient' = toClient \union {} /\ drawn' = drawn /\ sealed' = sealed
    BY <1>11 DEF noEntropy
  <2>3. ~EntropyHolds
    BY <1>11 DEF EntropyHolds
  <2>4. ServerStep({}) /\ (sealed' \in Seq(Uses) /\ NonceInv' => IInv')
    <3>1. AarqAnswer(m, {})
      BY DEF AarqAnswer
    <3>2. server'.window \in CallersWindow(m.from)
      BY <1>13, <1>11, <2>1
    <3>3. server.counter <= server'.counter /\ server'.theirs <= drawn'
      BY <1>4, <1>5, <1>11, <2>1, <2>2
    <3> QED
      BY <1>1, <1>4, <1>6, <2>1, <2>2, <2>3, <3>1, <3>2, <3>3, AarqOutcome
  <2> QED
    BY <1>4, <2>2, <2>4, ServerStepInv, SpendsNone
<1>12. CASE verdict = "ok" /\ ~PasswordFails(m) /\ accept
  <2>1. /\ challenged \in ServerRecords /\ challenged.counter = server.counter
        /\ challenged.peer = m.from /\ challenged.owner = m.from
        /\ challenged.window = Accept(called.window, m.ic)
        /\ Hls => /\ challenged.mine = drawn + 1 /\ challenged.theirs = m.body
                  /\ challenged.state = "awaitingHls"
        /\ challenged.mine \in Nat
    <3>1. /\ its \in Nat /\ ours \in Nat /\ AcceptedState \in ServerStates
          /\ Hls => its = m.body /\ ours = drawn + 1 /\ AcceptedState = "awaitingHls"
      BY <1>4 DEF ServerStates, AcceptedState, NoChallenge
    <3>2. opened \in ServerRecords
      BY <1>8, <1>12
    <3> HIDE DEF its, ours
    <3>3. /\ challenged \in ServerRecords /\ challenged.counter = opened.counter
          /\ challenged.peer = opened.peer /\ challenged.owner = opened.owner
          /\ challenged.window = opened.window /\ challenged.state = AcceptedState
          /\ challenged.mine = ours /\ challenged.theirs = its
      BY <3>1, <3>2 DEF ServerRecords
    <3> QED
      BY <1>8, <1>12, <3>1, <3>3
  <2> HIDE DEF challenged
  <2>2. drawn' \in Nat /\ drawn <= drawn' /\ (Hls => drawn' = drawn + 1)
    BY <1>4, <1>12 DEF accept
  <2>3. setting.mechanism # "none" /\ ~Hls => proven' = m.from
    <3>1. setting.mechanism \in {"none", "low", "gmac"}
      BY AssociationConstants DEF IInv, Shapes
    <3> QED
      BY <1>1, <1>12, <3>1 DEF Hls
  <2>4. CASE HasNext(server.counter)
    <3> DEFINE f == Frame("aare", Server, m.from, ic, FALSE, challenged.mine)
    <3>1. ic \in Counter /\ server.counter < ic
      BY <1>5, <2>4 DEF HasNext, NextCounter, Counter
    <3>2. /\ server' = [challenged EXCEPT !.counter = ic] /\ toClient' = toClient \union {f}
          /\ sealed' = Append(sealed, Use(Server, ic, "aare"))
      BY <1>12, <2>4 DEF accept, Say
    <3>3. f.kind = "aare" /\ f.to = m.from /\ f.ic = ic /\ f.body = challenged.mine
      BY DEF Frame
    <3> HIDE DEF f, ic
    <3>4. /\ server' \in ServerRecords /\ server'.counter = ic
          /\ server'.peer = m.from /\ server'.owner = m.from
          /\ server'.window = Accept(called.window, m.ic)
          /\ server'.mine = challenged.mine /\ server'.theirs = challenged.theirs
          /\ server'.state = challenged.state
      BY <2>1, <3>1, <3>2 DEF ServerRecords
    <3>5. server.counter <= server'.counter /\ ic <= server'.counter
      BY <1>5, <3>1, <3>4 DEF Counter
    <3>6. Hls => /\ server'.mine > drawn /\ server'.mine <= drawn' /\ server'.theirs # 0
                 /\ server'.theirs <= drawn' /\ f.body \in 1 .. drawn'
                 /\ server'.state # "associated"
      BY <1>4, <2>1, <2>2, <3>3, <3>4
    <3>7. ServerStep({f}) /\ (sealed' \in Seq(Uses) /\ NonceInv' => IInv')
      <4>1. (EntropyHolds /\ setting.mechanism # "none" /\ server'.state = "associated") =>
              proven' = m.from
        BY <2>3, <3>6
      <4>2. AarqAnswer(m, {f})
        BY <2>1, <3>1, <3>3, <3>5, <3>6 DEF AarqAnswer
      <4>3. server'.window \in CallersWindow(m.from)
        BY <1>13, <1>12, <3>4
      <4> QED
        BY <1>1, <1>6, <2>2, <3>2, <3>4, <3>5, <3>6, <4>1, <4>2, <4>3, AarqOutcome
    <3>8. sealed' \in Seq(Uses) /\ NonceInv'
      BY <3>1, <3>2, <3>5, <3>7, ServerStepInv, SpendsOne DEF UseKinds
    <3> QED
      BY <3>7, <3>8
  <2>5. CASE ~HasNext(server.counter)
    <3>1. server' = challenged /\ toClient' = toClient \union {} /\ sealed' = sealed
      BY <1>12, <2>5 DEF accept
    <3>2. Hls => /\ server'.mine > drawn /\ server'.mine <= drawn' /\ server'.theirs # 0
                 /\ server'.theirs <= drawn' /\ server'.state # "associated"
      BY <1>4, <2>1, <2>2, <3>1
    <3>3. server.counter <= server'.counter
      BY <1>5, <2>1, <3>1
    <3>4. ServerStep({}) /\ (sealed' \in Seq(Uses) /\ NonceInv' => IInv')
      <4>1. (EntropyHolds /\ setting.mechanism # "none" /\ server'.state = "associated") =>
              proven' = m.from
        BY <2>3, <3>2
      <4>2. AarqAnswer(m, {})
        BY DEF AarqAnswer
      <4>3. server'.window \in CallersWindow(m.from)
        BY <1>13, <1>12, <2>1, <3>1
      <4>4. server' \in ServerRecords /\ server'.peer = m.from /\ server'.owner = m.from
        BY <2>1, <3>1
      <4> QED
        BY <1>1, <1>6, <2>2, <3>1, <3>2, <3>3, <4>1, <4>2, <4>3, <4>4, AarqOutcome
    <3> QED
      BY <1>4, <3>1, <3>4, ServerStepInv, SpendsNone
  <2> QED
    BY <2>4, <2>5
<1> QED
  BY <1>3, <1>9, <1>10, <1>11, <1>12

\* At most one message answers anything else.
OneAnswer(sent) ==
  /\ \A l \in sent :
       /\ l.kind \in {"hlsReply", "denied", "response", "protectedException", "exception",
                    "rlre"}
       /\ l.to \in setting.clients
       /\ l.kind \in SealedKinds =>
            /\ l.ic \in Counter /\ server.counter < l.ic /\ l.ic <= server'.counter
            /\ l.body \in Nat
       /\ l.kind = "exception" => l.body \in Counter
  /\ \A l, n \in sent : l = n

\* What the server's other steps have in common: the peer and the challenges stay, and so
\* does the window, or it takes in one counter more.
LEMMA AnswerOutcome ==
  ASSUME IInv, toServer' \subseteq toServer, NEW sent,
         server' \in ServerRecords, server.counter <= server'.counter,
         server'.peer = server.peer, server'.owner = server.owner,
         server'.mine = server.mine, server'.theirs = server.theirs,
         \/ server'.window = server.window
         \/ \E n \in Counter : /\ Fresh(server.window, n)
                               /\ server'.window = Accept(server.window, n),
         toClient' = toClient \union sent, OneAnswer(sent),
         agreed \subseteq agreed',
         Hls => /\ \A r \in agreed' : r \in agreed \/
                     (r.client \in Clients /\ r.its \in 1 .. drawn /\ Paired(r.client, r.its, r.ours))
                /\ \A m \in sent : m.kind = "hlsReply" =>
                     \E r \in agreed' : r.client = m.to /\ r.its = m.body,
         UNCHANGED <<setting, session, drawn, taken>>
  PROVE  /\ ServerStep(sent) /\ ChallengeInv' /\ PairInv'
         /\ executed' = executed => ExecutedInv'
<1>1. ServerStep(sent)
  BY DEF ServerStep, OneAnswer, SealedKinds, IInv, Present
<1>2. ChallengeInv' /\ PairInv'
  <2>1. drawn \in Nat /\ drawn' = drawn
    BY DEF IInv, Shapes
  <2>2. Hls => /\ server'.theirs <= drawn' /\ server'.mine <= drawn'
               /\ server'.mine # 0 => server'.theirs # 0
    BY DEF IInv, ChallengeInv
  <2>3. ServerHoldsPair
    BY DEF ServerHoldsPair
  <2>4. \A m \in sent : m.kind # "aare"
    BY DEF OneAnswer
  <2>5. drawn <= drawn'
    BY <2>1
  <2> QED
    BY <1>1, <2>1, <2>2, <2>3, <2>4, <2>5, ServerChallenges
<1>3. StillRefuses
  <2>1. server.window \in Window
    BY DEF IInv, Shapes, ServerRecords
  <2> QED
    BY <2>1, RefusedStaysRefused DEF StillRefuses
<1> QED
  BY <1>1, <1>2, <1>3, ExecutedKept

\* send: under a counter of its own, or not at all.
LEMMA SendOutcome ==
  ASSUME IInv, NEW s \in ServerRecords, s.counter = server.counter,
         NEW kind \in {"denied", "response", "protectedException"}, NEW to \in setting.clients, NEW body \in Nat,
         Send(s, kind, to, body)
  PROVE  /\ server' \in ServerRecords /\ server.counter <= server'.counter
         /\ server'.state = s.state /\ server'.window = s.window
         /\ server'.peer = s.peer /\ server'.owner = s.owner
         /\ server'.mine = s.mine /\ server'.theirs = s.theirs
         /\ \E sent : /\ toClient' = toClient \union sent /\ OneAnswer(sent)
                      /\ \A l \in sent : l.kind = kind
         /\ (/\ CountersMoveOn
             /\ Reached[Server] = server.counter /\ Reached'[Server] = server'.counter) =>
              NonceInv' /\ sealed' \in Seq(Uses)
<1> DEFINE ic == NextCounter(s.counter)
           f == Frame(kind, Server, to, ic, s.dedicated, body)
<1> USE CounterMaxAssumption
<1>1. s.counter \in Counter /\ s.counter \in Nat /\ sealed \in Seq(Uses)
  BY DEF ServerRecords, Counter, IInv, Shapes
<1>2. CASE HasNext(s.counter)
  <2>1. ic \in Counter /\ s.counter < ic /\ ic \in Nat
    BY <1>1, <1>2 DEF HasNext, NextCounter, Counter
  <2>2. /\ server' = [s EXCEPT !.counter = ic] /\ toClient' = toClient \union {f}
        /\ sealed' = Append(sealed, Use(Server, ic, kind))
    BY <1>2 DEF Send, Say
  <2>3. f.kind = kind /\ f.to = to /\ f.ic = ic /\ f.body = body
    BY DEF Frame
  <2> HIDE DEF f, ic
  <2>4. /\ server' \in ServerRecords /\ server'.counter = ic
        /\ server'.state = s.state /\ server'.window = s.window
        /\ server'.peer = s.peer /\ server'.owner = s.owner
        /\ server'.mine = s.mine /\ server'.theirs = s.theirs
    BY <2>1, <2>2 DEF ServerRecords
  <2>5. server.counter <= server'.counter /\ ic <= server'.counter
    BY <1>1, <2>1, <2>4
  <2>6. OneAnswer({f}) /\ \A l \in {f} : l.kind = kind
    BY <2>1, <2>3, <2>5 DEF OneAnswer
  <2>7. (/\ CountersMoveOn
         /\ Reached[Server] = server.counter /\ Reached'[Server] = server'.counter) =>
          NonceInv' /\ sealed' \in Seq(Uses)
    BY <2>1, <2>2, <2>5, SpendsOne DEF UseKinds
  <2> QED
    BY <2>2, <2>4, <2>5, <2>6, <2>7
<1>3. CASE ~HasNext(s.counter)
  <2>1. server' = s /\ toClient' = toClient \union {} /\ sealed' = sealed
    BY <1>3 DEF Send
  <2>2. OneAnswer({}) /\ \A l \in {} : l.kind = kind
    BY DEF OneAnswer
  <2>3. CountersMoveOn => NonceInv'
    BY <2>1, SpendsNone
  <2>4. server.counter <= server'.counter
    BY <1>1, <2>1
  <2> QED
    BY <1>1, <2>1, <2>2, <2>3, <2>4
<1> QED
  BY <1>2, <1>3

\* handle_release closes the association; its answer is not protected.
LEMMA HandleReleaseIInv ==
  ASSUME IInv, NEW m \in toServer, toServer' = Delivered(toServer, m), HandleRelease(m)
  PROVE  IInv'
<1> DEFINE f == Plain("rlre", Server, m.from, 0)
<1> USE CounterMaxAssumption
<1>1. /\ server' = [server EXCEPT !.state = "closed", !.dedicated = FALSE]
      /\ toClient' = toClient \union {f}
      /\ UNCHANGED <<setting, session, drawn, sealed, proven, agreed, executed, taken>>
  BY DEF HandleRelease, Say, history
<1>2. f.kind = "rlre" /\ f.to = m.from /\ m.from \in setting.clients
  BY DEF Plain, IInv, ToServerInv
<1> HIDE DEF f
<1>3. server \in ServerRecords /\ toServer' \subseteq toServer
  BY DEF IInv, Shapes, Delivered
<1>4. /\ server' \in ServerRecords /\ server'.counter = server.counter
      /\ server'.peer = server.peer /\ server'.owner = server.owner
      /\ server'.mine = server.mine /\ server'.theirs = server.theirs
      /\ server'.window = server.window /\ server'.state = "closed"
  BY <1>1, <1>3 DEF ServerRecords, ServerStates
<1>5. server.counter <= server'.counter
  BY <1>3, <1>4 DEF ServerRecords, Counter
<1>6. OneAnswer({f})
  BY <1>2 DEF OneAnswer, SealedKinds
<1>7. ServerStep({f}) /\ ChallengeInv' /\ PairInv' /\ ExecutedInv'
  BY <1>1, <1>2, <1>3, <1>4, <1>5, <1>6, AnswerOutcome
<1>8. ProvenInv'
  BY <1>1, <1>4 DEF IInv, ProvenInv, EntropyHolds, Hls, ProvenBeforeUse
<1>9. NonceInv' /\ Shapes'
  BY <1>1, <1>4, <1>7, ServerStepInv, SpendsNone DEF IInv, Shapes
<1> QED
  BY <1>7, <1>8, <1>9, ServerStepInv DEF IInv

\* Server::reset forgets the association, not the window nor whose it is.
LEMMA ResetIInv ==
  ASSUME IInv, Reset
  PROVE  IInv'
<1> USE CounterMaxAssumption
<1>1. /\ server' = [ClearAssociation(server) EXCEPT !.state = "idle"] /\ proven' = Nobody
      /\ UNCHANGED <<setting, session, drawn, toServer, toClient, sealed, agreed, executed, taken>>
  BY DEF Reset
<1>2. server \in ServerRecords /\ drawn \in Nat
  BY DEF IInv, Shapes
<1>3. /\ server' \in ServerRecords /\ server'.counter = server.counter
      /\ server'.peer = Nobody /\ server'.owner = server.owner
      /\ server'.mine = 0 /\ server'.theirs = 0
      /\ server'.window = server.window /\ server'.state = "idle"
  BY <1>1, <1>2 DEF ServerRecords, ServerStates, ClearAssociation, NoChallenge
<1>4. server.counter <= server'.counter
  BY <1>2, <1>3 DEF ServerRecords, Counter
<1>5. ServerStep({})
  BY <1>1, <1>3, <1>4 DEF ServerStep, IInv, Present
<1>6. ChallengeInv' /\ PairInv'
  BY <1>1, <1>2, <1>3, <1>5, ServerChallenges DEF ServerHoldsPair
<1>7. ExecutedInv'
  BY <1>1, <1>3, <1>5, ExecutedKept DEF StillRefuses
<1>8. ProvenInv'
  BY <1>1, <1>3 DEF IInv, ProvenInv, EntropyHolds, Hls, ProvenBeforeUse
<1>9. NonceInv' /\ Shapes'
  BY <1>1, <1>3, <1>5, ServerStepInv, SpendsNone DEF IInv, Shapes
<1> QED
  BY <1>5, <1>6, <1>7, <1>8, <1>9, ServerStepInv DEF IInv

\* A server restarted from what its host has stored refuses at least what it did.
LEMMA ServerRestartIInv ==
  ASSUME IInv, ServerRestart
  PROVE  IInv'
<1> DEFINE new == NewServer(server.counter)
           resumed == ResumedWindow(server.window.highest, Width)
<1> USE CounterMaxAssumption
<1>1. /\ server' = IF server.window.highest = NoCounter THEN new
                   ELSE [new EXCEPT !.owner = server.owner, !.window = resumed]
      /\ proven' = Nobody
      /\ UNCHANGED <<setting, session, drawn, toServer, toClient, sealed, agreed, executed, taken>>
  BY DEF ServerRestart
<1>2. /\ server \in ServerRecords /\ server.counter \in Counter /\ server.window \in Window
      /\ drawn \in Nat /\ Width \in Nat
  BY AssociationConstants DEF IInv, Shapes, ServerRecords
<1>3. /\ new \in ServerRecords /\ new.counter = server.counter /\ new.peer = Nobody
      /\ new.owner = Nobody /\ new.mine = 0 /\ new.theirs = 0 /\ new.state = "idle"
  BY <1>2, NewWindowFacts DEF NewServer, ServerRecords, ServerStates, NoChallenge
<1> HIDE DEF new
<1>4. server.window.highest # NoCounter =>
        /\ server.window.highest \in Counter /\ resumed \in Window
        /\ \A n \in Counter : n <= server.window.highest => ~Fresh(resumed, n)
  BY <1>2, ResumedWindowFacts DEF Window
<1> HIDE DEF resumed
<1>5. /\ server' \in ServerRecords /\ server'.counter = server.counter /\ server'.peer = Nobody
      /\ server'.owner \in {server.owner, Nobody}
      /\ server'.mine = 0 /\ server'.theirs = 0 /\ server'.state = "idle"
      /\ server.window.highest # NoCounter =>
           server'.owner = server.owner /\ server'.window = resumed
  <2>1. CASE server.window.highest = NoCounter
    BY <1>1, <1>3, <2>1
  <2>2. CASE server.window.highest # NoCounter
    BY <1>1, <1>2, <1>3, <1>4, <2>2 DEF ServerRecords
  <2> QED
    BY <2>1, <2>2
<1>6. server.counter <= server'.counter
  BY <1>2, <1>5 DEF Counter
<1>7. ServerStep({})
  BY <1>1, <1>5, <1>6 DEF ServerStep, IInv, Present
<1>8. ChallengeInv' /\ PairInv'
  BY <1>1, <1>2, <1>5, <1>7, ServerChallenges DEF ServerHoldsPair
<1>9. StillRefuses
  <2> SUFFICES ASSUME NEW n \in Counter, ~Fresh(server.window, n)
               PROVE  server'.owner = server.owner /\ ~Fresh(server'.window, n)
    BY DEF StillRefuses
  <2>1. server.window.highest # NoCounter /\ n <= server.window.highest
    BY <1>2 DEF Fresh, Window, Counter, NoCounter
  <2> QED
    BY <1>4, <1>5, <2>1
<1>10. ExecutedInv'
  BY <1>1, <1>7, <1>9, ExecutedKept
<1>11. ProvenInv'
  BY <1>1, <1>5 DEF IInv, ProvenInv, EntropyHolds, Hls, ProvenBeforeUse
<1>12. NonceInv' /\ Shapes'
  BY <1>1, <1>5, <1>7, ServerStepInv, SpendsNone DEF IInv, Shapes
<1> QED
  BY <1>7, <1>8, <1>10, <1>11, <1>12, ServerStepInv DEF IInv

\* handle_hls_reply: a proof over the server's challenge opens the association, for the
\* peer whose proof it is, and is agreed with the challenge that peer sent last.
LEMMA HandleHlsReplyIInv ==
  ASSUME IInv, NEW m \in toServer, m.kind = "hls", toServer' = Delivered(toServer, m),
         m.from = server.peer, Fresh(server.window, m.ic),
         NEW s \in ServerRecords, s = [server EXCEPT !.window = Accept(server.window, m.ic)],
         HandleHlsReply(s, m),
         UNCHANGED <<setting, session, drawn, executed, taken>>
  PROVE  IInv'
<1> DEFINE ic == NextCounter(s.counter)
           frame == CounterAfterProof(ic)
           proved == [s EXCEPT !.counter = ic, !.state = "associated"]
           r == [client |-> s.peer, its |-> s.theirs, ours |-> s.mine]
           f == Frame("hlsReply", Server, m.from, frame, s.dedicated, s.theirs)
           closed == [s EXCEPT !.state = "closed"]
<1> USE CounterMaxAssumption
<1>1. /\ m.from \in setting.clients /\ m.from \in Clients /\ m.ic \in Counter
      /\ toServer' \subseteq toServer
  BY AssociationConstants DEF IInv, Shapes, ToServerInv, Delivered
<1>2. /\ server \in ServerRecords /\ server.counter \in Counter /\ server.counter \in Nat
      /\ sealed \in Seq(Uses) /\ drawn \in Nat /\ server.theirs \in Nat /\ server.mine \in Nat
      /\ agreed \subseteq [client : Clients, its : Nat, ours : Nat]
      /\ proven \in Clients \union {Nobody}
      /\ executed \in Seq(Executions) /\ taken \in Seq(Answers)
  BY DEF IInv, Shapes, ServerRecords, Counter
<1>3. /\ s.counter = server.counter /\ s.state = server.state
      /\ s.peer = server.peer /\ s.owner = server.owner
      /\ s.mine = server.mine /\ s.theirs = server.theirs
      /\ s.window = Accept(server.window, m.ic)
  BY <1>2 DEF ServerRecords
<1>4. CASE ~Verifies(s, m)
  <2>1. Send(closed, "denied", m.from, 0) /\ proven' = proven /\ agreed' = agreed
    BY <1>4 DEF HandleHlsReply
  <2>2. /\ closed \in ServerRecords /\ closed.counter = s.counter /\ closed.state = "closed"
        /\ closed.peer = s.peer /\ closed.owner = s.owner
        /\ closed.mine = s.mine /\ closed.theirs = s.theirs /\ closed.window = s.window
    BY DEF ServerRecords, ServerStates
  <2> HIDE DEF closed
  <2>3. /\ server' \in ServerRecords /\ server.counter <= server'.counter
        /\ server'.state = closed.state /\ server'.window = closed.window
        /\ server'.peer = closed.peer /\ server'.owner = closed.owner
        /\ server'.mine = closed.mine /\ server'.theirs = closed.theirs
        /\ \E sent : /\ toClient' = toClient \union sent /\ OneAnswer(sent)
                     /\ \A l \in sent : l.kind = "denied"
        /\ (/\ CountersMoveOn
            /\ Reached[Server] = server.counter /\ Reached'[Server] = server'.counter) =>
             NonceInv' /\ sealed' \in Seq(Uses)
    BY <1>1, <1>3, <2>1, <2>2, SendOutcome
  <2>4. PICK sent : /\ toClient' = toClient \union sent /\ OneAnswer(sent)
                    /\ \A l \in sent : l.kind = "denied"
    BY <2>3
  <2>5. ServerStep(sent) /\ ChallengeInv' /\ PairInv' /\ ExecutedInv'
    <3>1. /\ server'.peer = server.peer /\ server'.owner = server.owner
          /\ server'.mine = server.mine /\ server'.theirs = server.theirs
          /\ server'.window = Accept(server.window, m.ic)
      BY <1>3, <2>2, <2>3
    <3>2. \A l \in sent : l.kind # "hlsReply"
      BY <2>4
    <3> QED
      BY <1>1, <2>1, <2>3, <2>4, <3>1, <3>2, AnswerOutcome
  <2>6. ProvenInv'
    BY <2>1, <2>2, <2>3 DEF IInv, ProvenInv, EntropyHolds, Hls, ProvenBeforeUse
  <2>7. NonceInv' /\ Shapes'
    <3>1. NonceInv' /\ sealed' \in Seq(Uses)
      BY <2>3, <2>5, ServerStepInv
    <3> QED
      BY <1>2, <2>1, <2>3, <3>1 DEF IInv, Shapes
  <2> QED
    BY <2>5, <2>6, <2>7, ServerStepInv DEF IInv
<1>5. CASE Verifies(s, m) /\ ~HasNext(s.counter)
  <2>1. /\ server' = s /\ toClient' = toClient \union {} /\ sealed' = sealed
        /\ proven' = proven /\ agreed' = agreed
    BY <1>5 DEF HandleHlsReply
  <2>2. OneAnswer({}) /\ server.counter <= server'.counter
    BY <1>2, <1>3, <2>1 DEF OneAnswer
  <2>3. ServerStep({}) /\ ChallengeInv' /\ PairInv' /\ ExecutedInv'
    BY <1>1, <1>3, <2>1, <2>2, AnswerOutcome
  <2>4. ProvenInv'
    BY <1>3, <2>1 DEF IInv, ProvenInv, EntropyHolds, Hls, ProvenBeforeUse
  <2>5. NonceInv' /\ Shapes'
    BY <2>1, <2>3, ServerStepInv, SpendsNone DEF IInv, Shapes
  <2> QED
    BY <2>3, <2>4, <2>5, ServerStepInv DEF IInv
<1>6. CASE Verifies(s, m) /\ HasNext(s.counter)
  <2>1. /\ proven' = s.peer
        /\ agreed' = agreed \union {r}
        /\ IF HasNext(ic)
             THEN /\ server' = [proved EXCEPT !.counter = frame]
                  /\ toClient' = toClient \union {f}
                  /\ sealed' = sealed \o
                       <<Use(Server, ic, "proof"), Use(Server, frame, "hlsReply")>>
             ELSE /\ server' = proved
                  /\ sealed' = Append(sealed, Use(Server, ic, "proof"))
                  /\ toClient' = toClient \union {}
    BY <1>6 DEF HandleHlsReply, Say
  <2>2. ic \in Counter /\ ic \in Nat /\ server.counter < ic
    BY <1>2, <1>3, <1>6 DEF HasNext, NextCounter, Counter
  <2>3. HasNext(ic) => frame \in Counter /\ ic < frame /\ frame \in Nat
    BY <2>2 DEF HasNext, CounterAfterProof, NextCounter, Counter
  <2>4. /\ r.client = s.peer /\ r.its = s.theirs /\ r.ours = s.mine
        /\ r \in [client : Clients, its : Nat, ours : Nat]
    BY <1>1, <1>2, <1>3
  <2>5. Hls => r.client \in Clients /\ r.its \in 1 .. drawn /\ Paired(r.client, r.its, r.ours)
    <3> SUFFICES ASSUME Hls
                 PROVE  r.client \in Clients /\ r.its \in 1 .. drawn
                        /\ Paired(r.client, r.its, r.ours)
      OBVIOUS
    <3>1. m.body = server.mine /\ m.body \in 1 .. drawn
      BY <1>3, <1>6 DEF Verifies, IInv, ChallengeInv
    <3>2. server.theirs \in 1 .. drawn
      BY <1>2, <3>1 DEF IInv, ChallengeInv
    <3>3. Paired(m.from, server.theirs, server.mine)
      BY <3>1 DEF IInv, PairInv
    <3> QED
      BY <1>1, <1>3, <2>4, <3>2, <3>3
  <2>6. f.kind = "hlsReply" /\ f.to = m.from /\ f.ic = frame /\ f.body = s.theirs
    BY DEF Frame
  <2>7. /\ proved \in ServerRecords /\ proved.counter = ic /\ proved.state = "associated"
        /\ proved.peer = s.peer /\ proved.owner = s.owner
        /\ proved.mine = s.mine /\ proved.theirs = s.theirs /\ proved.window = s.window
    BY <2>2 DEF ServerRecords, ServerStates
  <2> HIDE DEF f, r, proved, ic, frame
  <2>8. /\ server' \in ServerRecords /\ server'.state = "associated"
        /\ server'.peer = server.peer /\ server'.owner = server.owner
        /\ server'.mine = server.mine /\ server'.theirs = server.theirs
        /\ server'.window = Accept(server.window, m.ic)
        /\ server'.counter = IF HasNext(ic) THEN frame ELSE ic
    <3>1. CASE HasNext(ic)
      <4>1. server' = [proved EXCEPT !.counter = frame]
        BY <2>1, <3>1
      <4>2. /\ server' \in ServerRecords /\ server'.counter = frame
            /\ server'.state = proved.state /\ server'.window = proved.window
            /\ server'.peer = proved.peer /\ server'.owner = proved.owner
            /\ server'.mine = proved.mine /\ server'.theirs = proved.theirs
        BY <2>3, <2>7, <3>1, <4>1 DEF ServerRecords
      <4> QED
        BY <1>3, <2>7, <3>1, <4>2
    <3>2. CASE ~HasNext(ic)
      BY <1>3, <2>1, <2>7, <3>2
    <3> QED
      BY <3>1, <3>2
  <2>9. agreed \subseteq agreed' /\ agreed' \subseteq [client : Clients, its : Nat, ours : Nat]
        /\ r \in agreed' /\ \A q \in agreed' : q \in agreed \/ q = r
    BY <1>2, <2>1, <2>4
  <2>10. ProvenInv'
    BY <1>3, <2>1, <2>8 DEF IInv, ProvenInv, EntropyHolds, Hls, ProvenBeforeUse
  <2>11. proven' \in Clients \union {Nobody}
    BY <1>1, <1>3, <2>1
  <2>12. CASE HasNext(ic)
    <3>1. server.counter <= server'.counter /\ frame <= server'.counter /\ server.counter < frame
      BY <1>2, <2>2, <2>3, <2>8, <2>12
    <3>2. OneAnswer({f})
      BY <1>1, <1>2, <1>3, <2>3, <2>6, <2>12, <3>1 DEF OneAnswer
    <3>3. ServerStep({f}) /\ ChallengeInv' /\ PairInv' /\ ExecutedInv'
      <4>1. toClient' = toClient \union {f}
        BY <2>1, <2>12
      <4>2. \A l \in {f} : \E q \in agreed' : q.client = l.to /\ q.its = l.body
        BY <1>3, <2>4, <2>6, <2>9
      <4>3. Hls => \A q \in agreed' : q \in agreed \/
              (q.client \in Clients /\ q.its \in 1 .. drawn /\ Paired(q.client, q.its, q.ours))
        BY <2>5, <2>9
      <4> QED
        BY <1>1, <2>8, <2>9, <3>1, <3>2, <4>1, <4>2, <4>3, AnswerOutcome
    <3>4. sealed' \in Seq(Uses) /\ NonceInv'
      <4>1. sealed' = sealed \o <<Use(Server, ic, "proof"), Use(Server, frame, "hlsReply")>>
        BY <2>1, <2>12
      <4> QED
        BY <2>2, <2>3, <2>12, <3>1, <3>3, <4>1, ServerStepInv, SpendsTwo DEF UseKinds
    <3>5. Shapes'
      BY <1>2, <2>8, <2>9, <2>11, <3>4 DEF IInv, Shapes
    <3> QED
      BY <2>10, <3>3, <3>4, <3>5, ServerStepInv DEF IInv
  <2>13. CASE ~HasNext(ic)
    <3>1. server.counter <= server'.counter /\ ic <= server'.counter
      BY <1>2, <2>2, <2>8, <2>13
    <3>2. OneAnswer({})
      BY DEF OneAnswer
    <3>3. ServerStep({}) /\ ChallengeInv' /\ PairInv' /\ ExecutedInv'
      <4>1. toClient' = toClient \union {}
        BY <2>1, <2>13
      <4>2. Hls => \A q \in agreed' : q \in agreed \/
              (q.client \in Clients /\ q.its \in 1 .. drawn /\ Paired(q.client, q.its, q.ours))
        BY <2>5, <2>9
      <4> QED
        BY <1>1, <2>8, <2>9, <3>1, <3>2, <4>1, <4>2, AnswerOutcome
    <3>4. sealed' \in Seq(Uses) /\ NonceInv'
      <4>1. sealed' = Append(sealed, Use(Server, ic, "proof"))
        BY <2>1, <2>13
      <4> QED
        BY <2>2, <3>1, <3>3, <4>1, ServerStepInv, SpendsOne DEF UseKinds
    <3>5. Shapes'
      BY <1>2, <2>8, <2>9, <2>11, <3>4 DEF IInv, Shapes
    <3> QED
      BY <2>10, <3>3, <3>4, <3>5, ServerStepInv DEF IInv
  <2> QED
    BY <2>12, <2>13
<1> QED
  BY <1>4, <1>5, <1>6

\* An exception changes nothing but the link and, when it is protected, the counter.
LEMMA ExceptionIInv ==
  ASSUME IInv, toServer' \subseteq toServer, NEW to \in setting.clients,
         NEW s \in ServerRecords, s.counter = server.counter, s.state = server.state,
         s.peer = server.peer, s.owner = server.owner,
         s.mine = server.mine, s.theirs = server.theirs,
         \/ s.window = server.window
         \/ \E n \in Counter : Fresh(server.window, n) /\ s.window = Accept(server.window, n),
         Exception(s, to),
         UNCHANGED <<setting, session, drawn, proven, agreed, executed, taken>>
  PROVE  IInv'
<1> USE CounterMaxAssumption
<1>1. server \in ServerRecords /\ server.counter \in Nat /\ sealed \in Seq(Uses)
  BY DEF IInv, Shapes, ServerRecords, Counter
<1>2. PICK sent :
        /\ toClient' = toClient \union sent /\ OneAnswer(sent)
        /\ \A l \in sent : l.kind # "hlsReply"
        /\ server' \in ServerRecords /\ server.counter <= server'.counter
        /\ server'.state = s.state /\ server'.window = s.window
        /\ server'.peer = s.peer /\ server'.owner = s.owner
        /\ server'.mine = s.mine /\ server'.theirs = s.theirs
        /\ (/\ CountersMoveOn
            /\ Reached[Server] = server.counter /\ Reached'[Server] = server'.counter) =>
             NonceInv' /\ sealed' \in Seq(Uses)
  <2>1. CASE s.general
    <3>1. Send(s, "protectedException", to, 0)
      BY <2>1 DEF Exception
    <3> QED
      BY <3>1, SendOutcome
  <2>2. CASE ~s.general
    <3> DEFINE f == Plain("exception", Server, to, 0)
    <3>1. server' = s /\ toClient' = toClient \union {f} /\ sealed' = sealed
      BY <2>2 DEF Exception, Say
    <3>2. f.kind = "exception" /\ f.to = to /\ f.body \in Counter
      BY DEF Plain, Counter
    <3> HIDE DEF f
    <3>3. OneAnswer({f}) /\ \A l \in {f} : l.kind # "hlsReply"
      BY <3>2 DEF OneAnswer, SealedKinds
    <3>4. CountersMoveOn => NonceInv'
      BY <3>1, SpendsNone
    <3> QED
      BY <1>1, <3>1, <3>3, <3>4
  <2> QED
    BY <2>1, <2>2
<1>3. /\ server'.state = server.state
      /\ server'.peer = server.peer /\ server'.owner = server.owner
      /\ server'.mine = server.mine /\ server'.theirs = server.theirs
  BY <1>2
<1>4. \/ server'.window = server.window
      \/ \E n \in Counter : Fresh(server.window, n) /\ server'.window = Accept(server.window, n)
  BY <1>2
<1>5. ServerStep(sent) /\ ChallengeInv' /\ PairInv' /\ ExecutedInv'
  <2>1. Hls => /\ \A r \in agreed' : r \in agreed \/
                   (r.client \in Clients /\ r.its \in 1 .. drawn /\ Paired(r.client, r.its, r.ours))
               /\ \A l \in sent : l.kind = "hlsReply" =>
                   \E r \in agreed' : r.client = l.to /\ r.its = l.body
    BY <1>2
  <2> QED
    BY <1>2, <1>3, <1>4, <2>1, AnswerOutcome
<1>6. ProvenInv'
  BY <1>3 DEF IInv, ProvenInv, EntropyHolds, Hls, ProvenBeforeUse
<1>7. NonceInv' /\ sealed' \in Seq(Uses)
  BY <1>2, <1>5, ServerStepInv
<1>8. Shapes'
  BY <1>2, <1>7 DEF IInv, Shapes
<1> QED
  BY <1>5, <1>6, <1>7, <1>8, ServerStepInv DEF IInv

\* A service request, once its protection is off: carried out for the peer that is proven,
\* or answered by an exception.
LEMMA HandleServiceIInv ==
  ASSUME IInv, NEW m \in toServer, m.kind \in {"hls", "request"},
         toServer' = Delivered(toServer, m),
         m.from = server.peer, Fresh(server.window, m.ic),
         NEW s \in ServerRecords, s = [server EXCEPT !.window = Accept(server.window, m.ic)],
         HandleService(s, m),
         UNCHANGED <<setting, session, drawn, proven, agreed, taken>>
  PROVE  IInv'
<1> USE CounterMaxAssumption
<1>1. /\ m.from \in setting.clients /\ m.from \in Clients /\ m.ic \in Counter /\ m.ic \in Nat
      /\ toServer' \subseteq toServer
  BY AssociationConstants DEF IInv, Shapes, ToServerInv, Delivered, Counter
<1>2. server \in ServerRecords /\ server.counter \in Nat
  BY DEF IInv, Shapes, ServerRecords, Counter
<1>3. /\ s.counter = server.counter /\ s.state = server.state
      /\ s.peer = server.peer /\ s.owner = server.owner
      /\ s.mine = server.mine /\ s.theirs = server.theirs
      /\ s.window = Accept(server.window, m.ic)
  BY <1>2 DEF ServerRecords
<1>4. CASE s.state = "associated"
  <2>1. /\ executed' = Append(executed, [from |-> m.from, ic |-> m.ic, proven |-> proven])
        /\ Send(s, "response", m.from, m.ic)
    BY <1>4 DEF HandleService
  <2>2. /\ server' \in ServerRecords /\ server.counter <= server'.counter
        /\ server'.state = s.state /\ server'.window = s.window
        /\ server'.peer = s.peer /\ server'.owner = s.owner
        /\ server'.mine = s.mine /\ server'.theirs = s.theirs
        /\ \E sent : /\ toClient' = toClient \union sent /\ OneAnswer(sent)
                     /\ \A l \in sent : l.kind = "response"
        /\ (/\ CountersMoveOn
            /\ Reached[Server] = server.counter /\ Reached'[Server] = server'.counter) =>
             NonceInv' /\ sealed' \in Seq(Uses)
    BY <1>1, <1>3, <2>1, SendOutcome
  <2>3. PICK sent : /\ toClient' = toClient \union sent /\ OneAnswer(sent)
                    /\ \A l \in sent : l.kind = "response"
    BY <2>2
  <2>4. /\ server'.peer = server.peer /\ server'.owner = server.owner
        /\ server'.mine = server.mine /\ server'.theirs = server.theirs
        /\ server'.window = Accept(server.window, m.ic)
    BY <1>3, <2>2
  <2>5. ServerStep(sent) /\ ChallengeInv' /\ PairInv'
    <3>1. \A l \in sent : l.kind # "hlsReply"
      BY <2>3
    <3> QED
      BY <1>1, <2>2, <2>3, <2>4, <3>1, AnswerOutcome
  <2>6. executed' \in Seq(Executions) /\ ExecutedInv'
    BY <2>1, <2>4, <2>5, ExecutedMore
  <2>7. ProvenInv'
    <3> DEFINE x == [from |-> m.from, ic |-> m.ic, proven |-> proven]
    <3> SUFFICES ASSUME EntropyHolds
                 PROVE  /\ setting.mechanism # "none" => proven = server.peer
                        /\ (setting.mechanism # "none" =>
                             \A i \in DOMAIN executed' : executed'[i].proven = executed'[i].from)
      BY <2>4 DEF ProvenInv, EntropyHolds, Hls, ProvenBeforeUse
    <3>1. setting.mechanism # "none" => proven = server.peer
      BY <1>3, <1>4 DEF IInv, ProvenInv
    <3>2. x.proven = proven /\ x.from = m.from /\ x \in Executions /\ executed \in Seq(Executions)
      BY <1>1 DEF Executions, IInv, Shapes
    <3>3. executed' = Append(executed, x)
      BY <2>1
    <3> HIDE DEF x
    <3>4. \A i \in DOMAIN executed' :
            (i \in DOMAIN executed /\ executed'[i] = executed[i]) \/ executed'[i] = x
      BY <3>2, <3>3, Entries, OneMore
    <3>5. setting.mechanism # "none" =>
            \A i \in DOMAIN executed : executed[i].proven = executed[i].from
      BY DEF IInv, ProvenInv, ProvenBeforeUse
    <3> QED
      BY <3>1, <3>2, <3>4, <3>5
  <2>8. NonceInv' /\ Shapes'
    <3>1. NonceInv' /\ sealed' \in Seq(Uses)
      BY <2>2, <2>5, ServerStepInv
    <3> QED
      BY <2>2, <2>6, <3>1 DEF IInv, Shapes
  <2> QED
    BY <2>5, <2>6, <2>7, <2>8, ServerStepInv DEF IInv
<1>5. CASE s.state # "associated"
  <2>1. Exception(s, m.from) /\ executed' = executed
    BY <1>5 DEF HandleService
  <2> QED
    BY <1>1, <1>3, <2>1, ExceptionIInv
<1> QED
  BY <1>4, <1>5

\* Server::handle for a protected APDU.
LEMMA HandleProtectedIInv ==
  ASSUME IInv, NEW m \in toServer, toServer' = Delivered(toServer, m), HandleProtected(m)
  PROVE  IInv'
<1> DEFINE verdict == Verdict(m, server.peer, server.dedicated, server.window)
           s == [server EXCEPT !.window = Accept(server.window, m.ic)]
           refused == server.state \notin {"associated", "awaitingHls"} \/ verdict # "ok"
<1> USE CounterMaxAssumption
<1>1. /\ m.kind \in {"hls", "request"}
      /\ UNCHANGED <<setting, session, drawn, taken>>
      /\ refused => /\ CounterException(m) \/ Exception(server, m.from)
                    /\ UNCHANGED <<proven, agreed, executed>>
      /\ ~refused => IF s.state = "awaitingHls" /\ m.kind = "hls"
                       THEN HandleHlsReply(s, m) /\ UNCHANGED executed
                       ELSE HandleService(s, m) /\ UNCHANGED <<proven, agreed>>
  BY DEF HandleProtected
<1>2. /\ server \in ServerRecords /\ server.window \in Window /\ server.counter \in Nat
      /\ m.from \in setting.clients /\ m.ic \in Counter /\ toServer' \subseteq toServer
  BY <1>1 DEF IInv, Shapes, ServerRecords, Counter, ToServerInv, Delivered
<1>3. CASE refused
  <2>1. CASE Exception(server, m.from)
    <3> HIDE DEF refused, s, verdict
    <3> QED
      BY <1>1, <1>2, <1>3, <2>1, ExceptionIInv
  <2>2. CASE CounterException(m)
    <3> DEFINE f == Plain("exception", Server, m.from, ExpectedNext(server.window))
    <3>1. toClient' = toClient \union {f} /\ UNCHANGED <<server, sealed>>
      BY <2>2 DEF CounterException, Say
    <3>2. f.kind = "exception" /\ f.to = m.from /\ f.body \in Counter
      <4>1. ExpectedNext(server.window) \in Counter
        BY <1>2 DEF ExpectedNext, Window, Counter, NoCounter
      <4> QED
        BY <4>1 DEF Plain
    <3> HIDE DEF f
    <3>3. OneAnswer({f}) /\ server.counter <= server'.counter
      BY <1>1, <1>2, <3>1, <3>2 DEF OneAnswer, SealedKinds
    <3>4. UNCHANGED <<setting, session, drawn, taken, proven, agreed, executed>>
      BY <1>1, <1>3
    <3> HIDE DEF refused, s, verdict
    <3>5. ServerStep({f}) /\ ChallengeInv' /\ PairInv' /\ ExecutedInv'
      BY <1>2, <3>1, <3>2, <3>3, <3>4, AnswerOutcome
    <3>6. ProvenInv'
      BY <3>1, <3>4 DEF IInv, ProvenInv, EntropyHolds, Hls, ProvenBeforeUse
    <3>7. NonceInv' /\ Shapes'
      BY <3>1, <3>4, <3>5, ServerStepInv, SpendsNone DEF IInv, Shapes
    <3> QED
      BY <3>5, <3>6, <3>7, ServerStepInv DEF IInv
  <2> QED
    BY <1>1, <1>3, <2>1, <2>2
<1>4. CASE ~refused
  <2>1. m.from = server.peer /\ Fresh(server.window, m.ic)
    BY <1>4 DEF Verdict
  <2>2. s \in ServerRecords
    BY <1>2, <2>1, AcceptFacts DEF ServerRecords
  <2>3. CASE s.state = "awaitingHls" /\ m.kind = "hls"
    <3>1. HandleHlsReply(s, m) /\ UNCHANGED executed
      BY <1>1, <1>4, <2>3
    <3>2. s = [server EXCEPT !.window = Accept(server.window, m.ic)]
      OBVIOUS
    <3> HIDE DEF s, refused
    <3> QED
      BY <1>1, <2>1, <2>2, <2>3, <3>1, <3>2, HandleHlsReplyIInv
  <2>4. CASE ~(s.state = "awaitingHls" /\ m.kind = "hls")
    <3>1. HandleService(s, m) /\ UNCHANGED <<proven, agreed>>
      BY <1>1, <1>4, <2>4
    <3>2. s = [server EXCEPT !.window = Accept(server.window, m.ic)]
      OBVIOUS
    <3> HIDE DEF s, refused
    <3> QED
      BY <1>1, <2>1, <2>2, <3>1, <3>2, HandleServiceIInv
  <2> QED
    BY <2>3, <2>4
<1> QED
  BY <1>3, <1>4
-----------------------------------------------------------------------------
(***************************************************************************)
(* The invariant, and what follows from it.                                *)
(***************************************************************************)

\* ClientSession::new and Server::new, with nothing on the link.
LEMMA InitIInv ==
  ASSUME Init
  PROVE  IInv
<1> USE CounterMaxAssumption
<1>1. Width \in Nat /\ NewWindow(Width) \in Window /\ 0 \in Counter
  BY AssociationConstants, NewWindowFacts DEF Counter
<1>2. /\ NewSession(0) \in SessionRecords /\ NewSession(0).state = "idle"
      /\ NewSession(0).mine = 0 /\ NewSession(0).counter = 0
  BY <1>1 DEF NewSession, SessionRecords, ClientStates, NoChallenge
<1>3. /\ NewServer(0) \in ServerRecords /\ NewServer(0).state = "idle"
      /\ NewServer(0).peer = Nobody /\ NewServer(0).owner = Nobody
      /\ NewServer(0).mine = 0 /\ NewServer(0).theirs = 0
  BY <1>1 DEF NewServer, ServerRecords, ServerStates, NoChallenge
<1>4. /\ setting \in Settings /\ server = NewServer(0) /\ drawn = 0
      /\ session \in [Clients -> SessionRecords]
      /\ \A c \in Clients : session[c] = NewSession(0)
      /\ toServer = {} /\ toClient = {} /\ agreed = {} /\ proven = Nobody
      /\ sealed = <<>> /\ executed = <<>> /\ taken = <<>>
  BY <1>2 DEF Init, NoChallenge
<1>5. Shapes
  BY <1>3, <1>4 DEF Shapes
<1>6. Present /\ ToServerInv /\ ToClientInv /\ FramesDiffer
  BY <1>2, <1>3, <1>4 DEF Present, ToServerInv, ToClientInv, FramesDiffer
<1>7. NonceInv
  BY <1>4 DEF NonceInv, SpentOnce
<1>8. ProvenInv /\ ExecutedInv /\ TakenInv
  BY <1>3, <1>4 DEF ProvenInv, ProvenBeforeUse, ExecutedInv, TakenInv
<1>9. ChallengeInv /\ PairInv /\ MutualAuthentication
  BY <1>2, <1>3, <1>4 DEF ChallengeInv, PairInv, MutualAuthentication
<1> QED
  BY <1>5, <1>6, <1>7, <1>8, <1>9 DEF IInv

\* Every step of every actor keeps the invariant.
LEMMA NextIInv ==
  ASSUME IInv, [Next]_vars
  PROVE  IInv'
<1>1. CASE \E c \in Clients : AssociateRequest(c)
  BY <1>1, AssociateRequestIInv
<1>2. CASE \E c \in Clients : HlsReplyRequest(c)
  BY <1>2, HlsReplyRequestIInv
<1>3. CASE \E c \in Clients : Request(c)
  BY <1>3, RequestIInv
<1>4. CASE \E c \in Clients : ReleaseRequest(c)
  BY <1>4, ReleaseRequestIInv
<1>5. CASE \E c \in Clients : Receive(c)
  BY <1>5, ReceiveIInv
<1>6. CASE \E c \in Clients : ClientRestart(c)
  BY <1>6, ClientRestartIInv
<1>7. CASE Handle
  BY <1>7, HandleAarqIInv, HandleReleaseIInv, HandleProtectedIInv DEF Handle
<1>8. CASE Reset
  BY <1>8, ResetIInv
<1>9. CASE ServerRestart
  BY <1>9, ServerRestartIInv
<1>10. CASE UNCHANGED vars
  <2>1. /\ setting' = setting /\ session' = session /\ server' = server /\ drawn' = drawn
        /\ toServer' = toServer /\ toClient' = toClient /\ sealed' = sealed
        /\ proven' = proven /\ agreed' = agreed /\ executed' = executed /\ taken' = taken
    BY <1>10 DEF vars, history
  <2>2. Shapes' /\ Present' /\ ToServerInv' /\ ToClientInv' /\ FramesDiffer'
    BY <2>1 DEF IInv, Shapes, Present, ToServerInv, ToClientInv, FramesDiffer
  <2>3. NonceInv'
    BY <2>1 DEF IInv, NonceInv, Reached, SpentOnce
  <2>4. ProvenInv' /\ MutualAuthentication'
    BY <2>1 DEF IInv, ProvenInv, EntropyHolds, ProvenBeforeUse, MutualAuthentication, Hls
  <2>5. ChallengeInv' /\ PairInv'
    BY <2>1 DEF IInv, ChallengeInv, PairInv, Paired, Hls
  <2>6. ExecutedInv' /\ TakenInv'
    BY <2>1 DEF IInv, ExecutedInv, OneOwner, TakenInv, WindowKept
  <2> QED
    BY <2>2, <2>3, <2>4, <2>5, <2>6 DEF IInv
<1> QED
  BY <1>1, <1>2, <1>3, <1>4, <1>5, <1>6, <1>7, <1>8, <1>9, <1>10 DEF Next

\* The inductive invariant holds of every behaviour, in every setting.
THEOREM Invariance == Spec => []IInv
<1>1. Init => IInv
  BY InitIInv
<1>2. IInv /\ [Next]_vars => IInv'
  BY NextIInv
<1> QED
  BY <1>1, <1>2, PTL DEF Spec

\* Every counter and window of both ends stays in range, whatever is received, replayed or
\* restarted.
THEOREM TypeCorrect == Spec => []TypeOK
<1>1. IInv => TypeOK
  <2> SUFFICES ASSUME IInv PROVE TypeOK
    OBVIOUS
  <2>1. \A c \in Clients : /\ session[c].state \in ClientStates
                           /\ session[c].counter \in Counter
                           /\ session[c].window \in Window
                           /\ session[c].dedicated \in BOOLEAN
    <3>1. \A c \in Clients : session[c] \in SessionRecords
      BY DEF IInv, Shapes
    <3> QED
      BY <3>1 DEF SessionRecords
  <2>2. /\ server.state \in ServerStates
        /\ server.counter \in Counter /\ server.window \in Window
        /\ server.dedicated \in BOOLEAN
        /\ {server.peer, server.owner, proven} \subseteq Clients \union {Nobody}
    BY DEF IInv, Shapes, ServerRecords
  <2> QED
    BY <2>1, <2>2 DEF TypeOK
<1> QED
  BY <1>1, Invariance, PTL

\* InvocationCounter: neither end ever spends a counter twice, on an AARQ, an HLS proof, the
\* frame around it, a request or a response, over all associations and restarts.
THEOREM NoncesAreUnique == Spec => []NonceUsedOnce
<1>1. IInv => NonceUsedOnce
  BY DEF IInv, NonceInv, SpentOnce, NonceUsedOnce
<1> QED
  BY <1>1, Invariance, PTL

\* ClientSession and Server with high level security: an association a client believes open
\* was agreed by the server over the two challenges that client holds.
THEOREM AuthenticationIsMutual == Spec => []MutualAuthentication
<1>1. IInv => MutualAuthentication
  BY DEF IInv
<1> QED
  BY <1>1, Invariance, PTL

\* Server::handle: as long as its random source does not fail in handle_aarq, the server
\* carries a request out only for a client proven in the very association it came in.
THEOREM OnlyTheProvenAreServed == Spec => [](EntropyHolds => ProvenBeforeUse)
<1>1. IInv => (EntropyHolds => ProvenBeforeUse)
  BY DEF IInv, ProvenInv
<1> QED
  BY <1>1, Invariance, PTL

\* The replay windows: a server with one client, or any number of clients on a link that
\* repeats nothing, carries each request out at most once, and each response is taken at
\* most once.
THEOREM NothingIsReplayed == Spec => [](OneOwner => AtMostOnce)
<1>1. IInv => (OneOwner => AtMostOnce)
  <2> SUFFICES ASSUME IInv, OneOwner PROVE AtMostOnce
    OBVIOUS
  <2>1. \A i, j \in DOMAIN executed :
          (executed[i].from = executed[j].from /\ executed[i].ic = executed[j].ic) => i = j
    BY DEF IInv, ExecutedInv
  <2>2. (setting.duplicating => "client" \notin setting.restarts) =>
          \A i, j \in DOMAIN taken :
            (taken[i].by = taken[j].by /\ taken[i].ic = taken[j].ic) => i = j
    BY DEF IInv, TakenInv, WindowKept
  <2> QED
    BY <2>1, <2>2 DEF AtMostOnce
<1> QED
  BY <1>1, Invariance, PTL
=============================================================================
