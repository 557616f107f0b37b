-------------------------------- MODULE Hdlc --------------------------------
(***************************************************************************)
(* An HDLC link of src/transport/hdlc.rs: a Connection, a Segmenter and a  *)
(* Reassembler at each end, over a wire that keeps frames in order and may *)
(* lose them (a frame whose check sequence fails never reaches handle).    *)
(*                                                                         *)
(* The client's host opens the link, sends a request, waits for the        *)
(* response and goes on to the next request; the server's host answers.    *)
(* HDLC here has no clock: a client that waits in vain sends its last      *)
(* frame again or resets the link, and a station told of an error resets   *)
(* the link, as the Connection's documentation asks.                       *)
(*                                                                         *)
(* A service data unit is a sequence of pieces; a piece names its sender,  *)
(* its unit and its place, which no station can see, so that a unit with a *)
(* missing, repeated or foreign piece is visible in the model.             *)
(***************************************************************************)
EXTENDS Integers, Sequences, SequencesExt

CONSTANTS
  Mod,      \* sequence numbers are counted modulo this (8)
  Units,    \* bound: how many requests the client makes
  Sizes,    \* how many pieces a unit may have
  Proposed, \* the Parameters each end proposes
  Default,  \* Parameters::DEFAULT
  Modes     \* the circumstances there may be

ASSUME ModAssumption == Mod \in Nat /\ Mod > 2
ASSUME UnitsAssumption == Units \in Nat /\ Sizes \subseteq Nat \ {0}

Ends == {"client", "server"}
Peer(e) == IF e = "client" THEN "server" ELSE "client"

\* max_info_tx, max_info_rx, window_tx and window_rx.
Parameters == [tx : Nat \ {0}, rx : Nat \ {0}, windowTx : Nat, windowRx : Nat]
\* lossy: frames may be lost.  polled: the server is a station that hands over the
\* line after every segment.  patient: a host waits longer than a round trip takes.
\* capacity: how many pieces a reassembly buffer holds.
ModeSet == [lossy : BOOLEAN, polled : BOOLEAN, patient : BOOLEAN, capacity : Nat]

ASSUME ParametersAssumption ==
  Default \in Parameters /\ Proposed \in [Ends -> Parameters]
ASSUME ModesAssumption == Modes \subseteq ModeSet

VARIABLES
  mode,   \* which of Modes it is
  conn,   \* each end's Connection
  into,   \* each end's Reassembler
  out,    \* each end's Segmenter: the unit and how much of it has been sent
  event,  \* what handle last told each host, until the host has acted on it
  wire,   \* the frames on their way to each end
  last,   \* the last information frame the client has sent
  asking, \* the request the client is at
  got,    \* the last unit each end's host has taken from its reassembler
  handed, \* history: the requests handed to the server's host since the link opened
  bus     \* whether a frame for a neighbour on the bus is still to come

vars == <<mode, conn, into, out, event, wire, last, asking, got, handed, bus>>

None == "none"
NoFrame == [ctl |-> None]
Nothing == [unit |-> <<>>, sent |-> 0]
EmptyInto == [data |-> <<>>, expect |-> Mod, complete |-> FALSE]

Smaller(a, b) == IF a < b THEN a ELSE b

\* Mutant: each limit is taken from the proposer's own side of the agreement.
NegotiateOwn(p, q) ==
  [tx |-> p.tx, rx |-> Smaller(p.rx, q.tx),
   windowTx |-> Smaller(p.windowTx, q.windowRx), windowRx |-> Smaller(p.windowRx, q.windowTx)]

\* Parameters::negotiate.
Negotiate(p, q) ==
  [tx |-> Smaller(p.tx, q.rx), rx |-> Smaller(p.rx, q.tx),
   windowTx |-> Smaller(p.windowTx, q.windowRx), windowRx |-> Smaller(p.windowRx, q.windowTx)]

\* Connection::new.
NewConnection ==
  [state |-> "Disconnected", ns |-> 0, nr |-> 0, par |-> Default, acknowledging |-> None]

\* Connection::reset.
ResetConnection(c) == NewConnection

Unit(e, u, n) == [i \in 1 .. n |-> [from |-> e, unit |-> u, at |-> i, of |-> n]]

Init ==
  /\ mode \in Modes
  /\ conn = [e \in Ends |-> NewConnection]
  /\ into = [e \in Ends |-> EmptyInto]
  /\ out = [e \in Ends |-> Nothing]
  /\ event = [e \in Ends |-> "Idle"]
  /\ wire = [e \in Ends |-> <<>>]
  /\ last = NoFrame
  /\ asking = 1
  /\ got = [e \in Ends |-> <<>>]
  /\ handed = <<>>
  /\ bus = TRUE

-----------------------------------------------------------------------------
(* Sending. *)

\* A frame of e's to its peer.  Only what the client sends may be sent again.
Transmit(e, frame) ==
  /\ wire' = [wire EXCEPT ![Peer(e)] = Append(@, frame)]
  /\ last' = IF e = "client" /\ frame.ctl = "I" THEN frame ELSE last

\* Segmenter::is_done.
SegmenterDone(e) == out[e].sent >= Len(out[e].unit)

\* The end has frames it will send without being asked: a polled station sends only
\* the first segment of its own accord.
Sending(e) == ~SegmenterDone(e) /\ (e = "server" /\ mode.polled => out[e].sent = 0)

\* Both hosts have acted on everything and nothing is under way.
Quiet == \A e \in Ends : wire[e] = <<>> /\ event[e] = "Idle" /\ ~Sending(e)

\* The client's host has waited in vain.
TimedOut == event["client"] = "Idle" /\ ~Sending("client") /\ (mode.patient => Quiet)

\* Connection::connect: the SNRM that opens the link, or opens it once more.
Connect ==
  /\ asking <= Units
  /\ TimedOut
  /\ conn["client"].state # "Connected"
  /\ Transmit("client", [to |-> "server", ctl |-> "SNRM", par |-> Proposed["client"]])
  /\ conn' = [conn EXCEPT !["client"].state = "Connecting"]
  /\ UNCHANGED <<mode, into, out, event, asking, got, handed, bus>>

\* Connection::disconnect, at any time the client's host waits for no response, or has
\* waited in vain; what it was sending is dropped.
Disconnect ==
  /\ conn["client"].state = "Connected"
  /\ event["client"] = "Idle"
  /\ out["client"] = Nothing \/ TimedOut
  /\ Transmit("client", [to |-> "server", ctl |-> "DISC"])
  /\ conn' = [conn EXCEPT !["client"].state = "Disconnecting"]
  /\ out' = [out EXCEPT !["client"] = Nothing]
  /\ UNCHANGED <<mode, into, event, asking, got, handed, bus>>

\* Mutant: acknowledge forgets to take what it has answered.
AcknowledgeKeeps(e) ==
  /\ conn[e].acknowledging # None
  /\ Transmit(e, [to |-> Peer(e), ctl |-> "UA",
                  par |-> IF conn[e].acknowledging = "SNRM" THEN conn[e].par ELSE Default])
  /\ event' = [event EXCEPT ![e] = "Idle"]
  /\ UNCHANGED <<mode, conn, into, out, asking, got, handed, bus>>

\* Connection::acknowledge.  The answer to a DISC carries no parameters, which decodes
\* as the defaults.
Acknowledge(e) ==
  /\ conn[e].acknowledging # None
  /\ Transmit(e, [to |-> Peer(e), ctl |-> "UA",
                  par |-> IF conn[e].acknowledging = "SNRM" THEN conn[e].par ELSE Default])
  /\ conn' = [conn EXCEPT ![e].acknowledging = None]
  /\ event' = [event EXCEPT ![e] = "Idle"]
  /\ UNCHANGED <<mode, into, out, asking, got, handed, bus>>

\* Connection::segmenter, for the client's next request.
Request ==
  /\ asking <= Units
  /\ conn["client"].state = "Connected"
  /\ event["client"] = "Idle"
  /\ out["client"] = Nothing
  /\ \E n \in Sizes : out' = [out EXCEPT !["client"] = [unit |-> Unit("client", asking, n), sent |-> 0]]
  /\ UNCHANGED <<mode, conn, into, event, wire, last, asking, got, handed, bus>>

\* Segmenter::next_frame: the information field from a place on, its segmentation bit and
\* P/F bit.
FieldEnd(e, at) == Smaller(at + conn[e].par.tx, Len(out[e].unit))

Field(e, at, ns) ==
  LET more == FieldEnd(e, at) < Len(out[e].unit)
  IN  [to |-> Peer(e), ctl |-> "I", ns |-> ns, nr |-> conn[e].nr,
       segmented |-> more, pf |-> ~more \/ (e = "server" /\ mode.polled),
       info |-> SubSeq(out[e].unit, at + 1, FieldEnd(e, at))]

SegmentEnd(e) == FieldEnd(e, out[e].sent)
InformationFrame(e) == Field(e, out[e].sent, conn[e].ns)

\* Mutant: the number advances only with a complete unit.
NextNsPerUnit(e) == IF SegmentEnd(e) < Len(out[e].unit) THEN conn[e].ns ELSE (conn[e].ns + 1) % Mod

\* Mutant: the number is not reduced.
NextNsUnreduced(e) == conn[e].ns + 1

NextNs(e) == (conn[e].ns + 1) % Mod

\* Connection::next_frame.  Nothing looks at the window.
NextFrame(e) ==
  /\ conn[e].state = "Connected"
  /\ event[e] = "Idle"
  /\ Sending(e)
  /\ Transmit(e, InformationFrame(e))
  /\ out' = [out EXCEPT ![e].sent = SegmentEnd(e)]
  /\ conn' = [conn EXCEPT ![e].ns = NextNs(e)]
  /\ UNCHANGED <<mode, into, event, asking, got, handed, bus>>

\* Connection::poll, because handle asked for it or because the answer does not come.
Poll ==
  /\ mode.polled
  /\ conn["client"].state = "Connected"
  /\ out["client"] # Nothing
  /\ \/ event["client"] = "PollRequired"
     \/ TimedOut
  /\ Transmit("client", [to |-> "server", ctl |-> "RR", nr |-> conn["client"].nr])
  /\ event' = [event EXCEPT !["client"] = "Idle"]
  /\ UNCHANGED <<mode, conn, into, out, asking, got, handed, bus>>

\* The client's host sends its last information frame again.
Resend ==
  /\ TimedOut
  /\ conn["client"].state = "Connected"
  /\ out["client"] # Nothing
  /\ last.ctl = "I"
  /\ Transmit("client", last)
  /\ UNCHANGED <<mode, conn, into, out, event, asking, got, handed, bus>>

\* The client's host resets the link: it has waited in vain, was told of an error, or
\* was told that the link is down.
GiveUp ==
  /\ \/ /\ TimedOut
        /\ conn["client"].state \in {"Connecting", "Disconnecting"} \/ out["client"] # Nothing
     \/ event["client"] \in {"Err", "Disconnected"}
  /\ conn' = [conn EXCEPT !["client"] = ResetConnection(@)]
  /\ out' = [out EXCEPT !["client"] = Nothing]
  /\ event' = [event EXCEPT !["client"] = "Idle"]
  /\ UNCHANGED <<mode, into, wire, last, asking, got, handed, bus>>

\* The server's host resets the link after an error, silently or with a DISC.
ServerGivesUp ==
  /\ event["server"] \in {"Err", "Disconnected"}
  /\ out' = [out EXCEPT !["server"] = Nothing]
  /\ event' = [event EXCEPT !["server"] = "Idle"]
  /\ \/ /\ conn' = [conn EXCEPT !["server"] = ResetConnection(@)]
        /\ UNCHANGED <<wire, last>>
     \/ /\ event["server"] = "Err"
        /\ Transmit("server", [to |-> "client", ctl |-> "DISC"])
        /\ conn' = [conn EXCEPT !["server"].state = "Disconnecting"]
  /\ UNCHANGED <<mode, into, asking, got, handed, bus>>

-----------------------------------------------------------------------------
(* Receiving. *)

\* Reassembler::push: what becomes of the reassembler, and what push returns.
PushInto(r, frame) ==
  LET s == IF r.complete THEN EmptyInto ELSE r
      data == s.data \o frame.info
  IN  IF s.expect # Mod /\ frame.ns # s.expect THEN [into |-> s, result |-> "Err"]
      ELSE IF Len(data) > mode.capacity THEN [into |-> s, result |-> "Err"]
      ELSE [into |-> [data |-> data, expect |-> (frame.ns + 1) % Mod,
                      complete |-> ~frame.segmented],
            result |-> IF frame.segmented THEN "More" ELSE "Complete"]

\* The end, its reassembler and the event after one frame.
Outcome(c, r, ev) == [conn |-> c, into |-> r, event |-> ev]

\* The link comes up with the parameters p the peer named.
ComeUp(e, c, p) ==
  [c EXCEPT !.par = Negotiate(Proposed[e], p), !.ns = 0, !.nr = 0, !.state = "Connected"]

HandleSnrm(e, c, r, frame) ==
  IF e # "server" THEN Outcome(c, r, "Err")
  ELSE Outcome([ComeUp(e, c, frame.par) EXCEPT !.acknowledging = "SNRM"], EmptyInto,
               "AcknowledgeRequired")

HandleUa(e, c, r, frame) ==
  IF c.state = "Connecting" THEN Outcome(ComeUp(e, c, frame.par), EmptyInto, "Connected")
  ELSE Outcome([c EXCEPT !.state = "Disconnected"], r, "Disconnected")

\* The frame accepted last, once more.
IsRepeat(c, frame) == frame.ns = (c.nr + Mod - 1) % Mod

\* Mutant: the reassembler is trusted to notice a repeat.
HandleInformationUnchecked(c, r, frame) ==
  IF c.state # "Connected" THEN Outcome(c, r, "Err")
  ELSE LET pushed == PushInto(r, frame)
       IN  Outcome([c EXCEPT !.nr = (frame.ns + 1) % Mod], pushed.into,
                   IF pushed.result = "Complete" THEN "Lsdu" ELSE "Idle")

\* The number is counted before the reassembler has taken the frame.
HandleInformation(c, r, frame) ==
  IF c.state # "Connected" THEN Outcome(c, r, "Err")
  ELSE IF IsRepeat(c, frame) THEN Outcome(c, r, "Idle")
  ELSE IF frame.ns # c.nr THEN Outcome(c, r, "Err")
  ELSE LET pushed == PushInto(r, frame)
           d == [c EXCEPT !.nr = (@ + 1) % Mod]
       IN  Outcome(d, pushed.into,
                   CASE pushed.result = "Err" -> "Err"
                     [] pushed.result = "Complete" -> "Lsdu"
                     [] OTHER -> IF frame.pf THEN "PollRequired" ELSE "Idle")

\* Mutant: frames for other stations are taken for one's own.
ForMeAlways(e, frame) == TRUE

ForMe(e, frame) == frame.to = e

\* Connection::handle.
Handled(e, frame) ==
  LET c == conn[e] r == into[e]
  IN  IF ~ForMe(e, frame) THEN Outcome(c, r, "Idle")
      ELSE CASE frame.ctl = "SNRM" -> HandleSnrm(e, c, r, frame)
             [] frame.ctl = "UA" -> HandleUa(e, c, r, frame)
             [] frame.ctl = "DISC" ->
                  Outcome([c EXCEPT !.state = "Disconnected", !.acknowledging = "DISC"], r,
                          "AcknowledgeRequired")
             [] frame.ctl = "DM" -> Outcome([c EXCEPT !.state = "Disconnected"], r, "Disconnected")
             [] frame.ctl = "I" -> HandleInformation(c, r, frame)
             [] frame.ctl = "RR" -> Outcome(c, r, "Idle")

\* A station reads only when it has nothing to send.
Listening(e) == event[e] = "Idle" /\ ~Sending(e)

\* Where the polled station goes on: with the next segment or, when the client still
\* expects the last one, with that.
ResumeAt ==
  LET c == conn["server"] sent == out["server"].sent
  IN  IF Head(wire["server"]).nr = c.ns THEN sent ELSE ((sent - 1) \div c.par.tx) * c.par.tx

\* The frame is a poll that the polled station answers with a segment.
AsksForMore(e) ==
  /\ e = "server" /\ mode.polled
  /\ wire[e] # <<>> /\ Head(wire[e]).ctl = "RR"
  /\ conn[e].state = "Connected"
  /\ out[e].sent > 0
  /\ ResumeAt < Len(out[e].unit)

\* One received frame, with what the host does with it at once: it forgets what it was
\* sending when the link is opened or closed, and a link that came up is used.
Handle(e) ==
  /\ wire[e] # <<>>
  /\ Listening(e) /\ ~AsksForMore(e)
  /\ LET frame == Head(wire[e])
         after == Handled(e, frame)
         opened == frame.ctl \in {"SNRM", "DISC"} /\ after.event = "AcknowledgeRequired"
     IN  /\ conn' = [conn EXCEPT ![e] = after.conn]
         /\ into' = [into EXCEPT ![e] = after.into]
         /\ event' = [event EXCEPT ![e] = IF after.event = "Connected" THEN "Idle" ELSE after.event]
         /\ out' = IF opened THEN [out EXCEPT ![e] = Nothing] ELSE out
         /\ handed' = IF opened /\ e = "server" THEN <<>> ELSE handed
  /\ wire' = [wire EXCEPT ![e] = Tail(@)]
  /\ UNCHANGED <<mode, last, asking, got, bus>>

\* The server's host takes a request and answers it.
Respond ==
  /\ event["server"] = "Lsdu"
  /\ got' = [got EXCEPT !["server"] = into["server"].data]
  /\ handed' = Append(handed, into["server"].data[1].unit)
  /\ \E n \in Sizes :
       out' = [out EXCEPT !["server"] =
                 [unit |-> Unit("server", into["server"].data[1].unit, n), sent |-> 0]]
  /\ event' = [event EXCEPT !["server"] = "Idle"]
  /\ UNCHANGED <<mode, conn, into, wire, last, asking, bus>>

\* The client's host takes the response.
TakeResponse ==
  /\ event["client"] = "Lsdu"
  /\ got' = [got EXCEPT !["client"] = into["client"].data]
  /\ out' = [out EXCEPT !["client"] = Nothing]
  /\ asking' = asking + 1
  /\ event' = [event EXCEPT !["client"] = "Idle"]
  /\ UNCHANGED <<mode, conn, into, wire, last, handed, bus>>

\* The polled station, told where the client stands, sends the segment asked for: the
\* last one once more, or the next.
PolledSend ==
  /\ event["server"] = "Idle"
  /\ AsksForMore("server")
  /\ LET again == ResumeAt < out["server"].sent
         frame == Field("server", ResumeAt, Head(wire["server"]).nr)
     IN  /\ wire' = [wire EXCEPT !["server"] = Tail(@), !["client"] = Append(@, frame)]
         /\ out' = [out EXCEPT !["server"].sent = FieldEnd("server", ResumeAt)]
         /\ conn' = [conn EXCEPT !["server"].ns = IF again THEN @ ELSE NextNs("server")]
  /\ UNCHANGED <<mode, into, event, last, asking, got, handed, bus>>

\* A polled station that is not connected says so.
PolledRefuses ==
  /\ mode.polled
  /\ wire["server"] # <<>> /\ Head(wire["server"]).ctl \in {"I", "RR"}
  /\ ForMe("server", Head(wire["server"]))
  /\ event["server"] = "Idle"
  /\ conn["server"].state # "Connected"
  /\ wire' = [wire EXCEPT !["server"] = Tail(@),
                          !["client"] = Append(@, [to |-> "client", ctl |-> "DM"])]
  /\ UNCHANGED <<mode, conn, into, out, event, last, asking, got, handed, bus>>

-----------------------------------------------------------------------------
(* The wire. *)

\* A frame is lost.
Lose(e) ==
  /\ mode.lossy
  /\ wire[e] # <<>>
  /\ wire' = [wire EXCEPT ![e] = Tail(@)]
  /\ UNCHANGED <<mode, conn, into, out, event, last, asking, got, handed, bus>>

\* A frame of some other conversation on the same bus, with any number.
Neighbour ==
  /\ bus
  /\ bus' = FALSE
  /\ \E n \in 0 .. Mod - 1 :
       wire' = [wire EXCEPT !["server"] =
                  Append(@, [to |-> "neighbour", ctl |-> "I", ns |-> n, nr |-> 0, segmented |-> FALSE,
                             pf |-> TRUE, info |-> Unit("neighbour", 1, 1)])]
  /\ UNCHANGED <<mode, conn, into, out, event, last, asking, got, handed>>

Progress(e) == Handle(e) \/ NextFrame(e) \/ Acknowledge(e)
HostStep ==
  \/ Connect \/ Request \/ Respond \/ TakeResponse \/ Poll \/ GiveUp \/ ServerGivesUp
  \/ PolledSend

Next ==
  \/ \E e \in Ends : Handle(e) \/ NextFrame(e) \/ Acknowledge(e) \/ Lose(e)
  \/ Connect \/ Request \/ Respond \/ TakeResponse \/ Poll \/ GiveUp \/ ServerGivesUp
  \/ PolledSend \/ PolledRefuses
  \/ Disconnect \/ Resend \/ Neighbour

Spec == Init /\ [][Next]_vars

\* Both hosts read what reaches them and go on with what they were told; nobody is
\* obliged to close the link, to send again or to lose anything.
FairSpec ==
  Spec /\ WF_vars(HostStep) /\ \A e \in Ends : WF_vars(Progress(e))

-----------------------------------------------------------------------------
(* Properties. *)

Frames(e) == {wire[e][i] : i \in DOMAIN wire[e]}

\* Types: the sequence numbers stay below the modulus, and a reassembler holds no more
\* than its buffer (Reassembler::push), whatever is repeated or out of turn.
TypeOK ==
  /\ mode \in Modes /\ asking \in Nat /\ bus \in BOOLEAN
  /\ \A e \in Ends :
       /\ conn[e].state \in {"Disconnected", "Connecting", "Connected", "Disconnecting"}
       /\ conn[e].ns \in 0 .. Mod - 1 /\ conn[e].nr \in 0 .. Mod - 1
       /\ conn[e].par \in Parameters
       /\ conn[e].acknowledging \in {None, "SNRM", "DISC"}
       /\ Len(into[e].data) <= mode.capacity /\ into[e].expect \in 0 .. Mod
       /\ event[e] \in {"Idle", "Err", "Disconnected", "AcknowledgeRequired", "Lsdu", "PollRequired"}

\* A unit handed to a host is one unit of its peer, every piece of it in its place:
\* Connection::handle and Reassembler::push put no gap, no repeat, no frame of another
\* unit, link or station into it.
UnitsIntact ==
  \A e \in Ends : got[e] # <<>> =>
    \E u \in 1 .. Units, n \in Sizes : got[e] = Unit(Peer(e), u, n)

\* While a link lasts each request is handed to the server's host at most once, in the
\* order they were made, however often frames are repeated (the repeat in handle), and
\* the client's host is handed one response to each request.
OncePerLink ==
  /\ \A i, j \in DOMAIN handed : i < j => handed[i] < handed[j]
  /\ asking <= Units + 1

\* No information field is longer than its receiver, being connected, said it accepts:
\* SNRM and UA leave both ends with limits that fit.
FitsReceiver ==
  \A e \in Ends : \A frame \in Frames(e) :
    frame.ctl = "I" /\ frame.to = e /\ conn[e].state = "Connected" =>
      Len(frame.info) <= Proposed[e].rx

\* With hosts that wait for a round trip, handle takes the client's link down only when
\* the server has closed it or refuses frames: no UA is left over from an earlier SNRM.
DownOnlyWhenAsked ==
  [][ conn["client"].state = "Connected" /\ conn'["client"].state = "Disconnected"
        => event'["client"] # "Disconnected" \/ Head(wire["client"]).ctl = "DM" ]_vars

\* Where nothing is lost and units fit, every request is answered, unless the client's
\* host closes the link again and again for ever: the handshake, the polls and the
\* sequence numbers of the two ends never leave both waiting.
AllAnswered ==
  ~mode.lossy /\ (\A n \in Sizes : n <= mode.capacity) /\ <>[][~Disconnect]_vars
    => <>(asking > Units)
=============================================================================
