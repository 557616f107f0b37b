----------------------------- MODULE HdlcProofs -----------------------------
(***************************************************************************)
(* Proofs about Hdlc, for every modulus, every pair of proposed parameters *)
(* and every size of unit and of buffer.                                   *)
(***************************************************************************)
EXTENDS Hdlc, SequenceTheorems, TLAPS

Numbers == 0 .. Mod - 1
States == {"Disconnected", "Connecting", "Connected", "Disconnecting"}
Events == {"Idle", "Err", "Disconnected", "AcknowledgeRequired", "Lsdu", "PollRequired"}
Pieces == [from : Ends \union {"neighbour"}, unit : Nat, at : Nat, of : Nat]
Text == Seq(Pieces)

(***************************************************************************)
(* Frames.                                                                 *)
(***************************************************************************)
Snrms == [to : Ends, ctl : {"SNRM"}, par : Parameters]
Uas == [to : Ends, ctl : {"UA"}, par : Parameters]
Discs == [to : Ends, ctl : {"DISC"}]
Dms == [to : Ends, ctl : {"DM"}]
Rrs == [to : Ends, ctl : {"RR"}, nr : Numbers]
Informations ==
  [to : Ends \union {"neighbour"}, ctl : {"I"}, ns : Numbers, nr : Numbers,
   segmented : BOOLEAN, pf : BOOLEAN, info : Text \ {<<>>}]
Letters == Snrms \union Uas \union Discs \union Dms \union Rrs \union Informations

\* What may be on its way to e: to the client, fields within what it accepts; to the
\* server, no proposal but the client's own.
Fit(e, f) ==
  /\ e = "client" /\ f.ctl = "I" => Len(f.info) <= Proposed["client"].rx
  /\ e = "server" /\ f.ctl = "SNRM" => f.par = Proposed["client"]

Fitting(e) == {f \in Letters : Fit(e, f)}
Wires == {w \in [Ends -> Seq(Letters)] : \A e \in Ends : w[e] \in Seq(Fitting(e))}

(***************************************************************************)
(* Each end.                                                               *)
(***************************************************************************)
Connections ==
  [state : States, ns : Numbers, nr : Numbers, par : Parameters,
   acknowledging : {None, "SNRM", "DISC"}]
Reassemblers == [data : Text, expect : 0 .. Mod, complete : BOOLEAN]
Segmenters == [unit : Text, sent : Nat]

\* A server never connects by itself, and sends and acknowledges by the client's proposal.
LinkOK(e, c) ==
  e = "server" => /\ c.state # "Connecting"
                  /\ c.state = "Connected" => c.par.tx <= Proposed["client"].rx
                  /\ c.acknowledging = "SNRM" => c.par.rx <= Proposed["server"].rx

EndOK(e, c, r, o, ev, capacity) ==
  /\ c \in Connections /\ r \in Reassemblers /\ o \in Segmenters /\ ev \in Events
  /\ o.sent <= Len(o.unit) /\ Len(r.data) <= capacity
  /\ LinkOK(e, c)
  /\ ev = "Lsdu" => c.state = "Connected" /\ r.data # <<>>

LastOK(f) == f = NoFrame \/ f \in Informations

Inv ==
  /\ mode \in Modes /\ bus \in BOOLEAN /\ asking \in Nat
  /\ conn \in [Ends -> Connections] /\ into \in [Ends -> Reassemblers]
  /\ out \in [Ends -> Segmenters] /\ event \in [Ends -> Events]
  /\ \A e \in Ends : EndOK(e, conn[e], into[e], out[e], event[e], mode.capacity)
  /\ wire \in Wires
  /\ LastOK(last)

-----------------------------------------------------------------------------
(***************************************************************************)
(* The parts.                                                              *)
(***************************************************************************)

\* The constants, in the form the steps below use them in.
LEMMA Bounds ==
  /\ Mod \in Nat /\ Mod > 2 /\ Units \in Nat /\ \A n \in Sizes : n \in Nat \ {0}
  /\ Default \in Parameters /\ Proposed["client"] \in Parameters /\ Proposed["server"] \in Parameters
  /\ \A m \in Modes : m.capacity \in Nat
BY ModAssumption, UnitsAssumption, ParametersAssumption, ModesAssumption DEF Ends, ModeSet

\* There are two ends.
LEMMA TwoEnds ==
  /\ "client" \in Ends /\ "server" \in Ends /\ Peer("client") = "server" /\ Peer("server") = "client"
  /\ \A e \in Ends : /\ e = "client" \/ e = "server"
                     /\ Peer(e) \in Ends /\ Peer(e) # e /\ Proposed[e] \in Parameters
BY Bounds DEF Ends, Peer

\* A limit.
LEMMA SmallerFacts ==
  ASSUME NEW a \in Nat, NEW b \in Nat
  PROVE  /\ Smaller(a, b) \in Nat /\ Smaller(a, b) <= a /\ Smaller(a, b) <= b
         /\ Smaller(a, b) = a \/ Smaller(a, b) = b
BY DEF Smaller

\* Parameters::negotiate: nothing beyond what either end named.
LEMMA NegotiateFacts ==
  ASSUME NEW p \in Parameters, NEW q \in Parameters
  PROVE  /\ Negotiate(p, q) \in Parameters
         /\ Negotiate(p, q).tx <= q.rx /\ Negotiate(p, q).rx <= p.rx
<1>1. /\ p.tx \in Nat \ {0} /\ p.rx \in Nat \ {0} /\ p.windowTx \in Nat /\ p.windowRx \in Nat
      /\ q.tx \in Nat \ {0} /\ q.rx \in Nat \ {0} /\ q.windowTx \in Nat /\ q.windowRx \in Nat
  BY DEF Parameters
<1>2. /\ Smaller(p.tx, q.rx) \in Nat \ {0} /\ Smaller(p.tx, q.rx) <= q.rx
      /\ Smaller(p.rx, q.tx) \in Nat \ {0} /\ Smaller(p.rx, q.tx) <= p.rx
      /\ Smaller(p.windowTx, q.windowRx) \in Nat /\ Smaller(p.windowRx, q.windowTx) \in Nat
  BY <1>1 DEF Smaller
<1> QED
  BY <1>2 DEF Negotiate, Parameters

\* A unit is made of pieces.
LEMMA UnitFacts ==
  ASSUME NEW e \in Ends, NEW u \in Nat, NEW n \in Nat
  PROVE  Unit(e, u, n) \in Text /\ Len(Unit(e, u, n)) = n
<1>1. \A i \in 1 .. n : [from |-> e, unit |-> u, at |-> i, of |-> n] \in Pieces
  BY DEF Pieces
<1> QED
  BY <1>1 DEF Unit, Text

\* Part of a unit.
LEMMA Segment ==
  ASSUME NEW s \in Text, NEW a \in Nat, NEW b \in Nat, a < b, b <= Len(s)
  PROVE  /\ SubSeq(s, a + 1, b) \in Text \ {<<>>} /\ Len(SubSeq(s, a + 1, b)) = b - a
<1>1. Len(s) \in Nat /\ s \in Seq(Pieces)
  BY DEF Text
<1>2. \A i \in a + 1 .. b : s[i] \in Pieces
  BY <1>1
<1>3. SubSeq(s, a + 1, b) \in Seq(Pieces) /\ Len(SubSeq(s, a + 1, b)) = b - a
  BY <1>1, <1>2
<1> QED
  BY <1>3 DEF Text

\* A field is appended to what has been received.
LEMMA Joined ==
  ASSUME NEW s \in Text, NEW t \in Text, t # <<>>
  PROVE  s \o t \in Text /\ s \o t # <<>> /\ Len(s \o t) \in Nat
<1>1. s \in Seq(Pieces) /\ t \in Seq(Pieces) /\ Len(s) \in Nat /\ Len(t) \in Nat
  BY DEF Text
<1>2. Len(t) # 0
  BY <1>1
<1>3. s \o t \in Seq(Pieces) /\ Len(s \o t) = Len(s) + Len(t)
  BY <1>1
<1>4. Len(s \o t) \in Nat /\ Len(s \o t) # 0
  BY <1>1, <1>2, <1>3
<1> QED
  BY <1>3, <1>4 DEF Text

\* The kinds of frame there are.
LEMMA Kinds ==
  ASSUME NEW f \in Letters
  PROVE  /\ f.ctl \in {"SNRM", "UA", "DISC", "DM", "I", "RR"}
         /\ f.ctl = "SNRM" => f \in Snrms
         /\ f.ctl = "UA" => f \in Uas
         /\ f.ctl = "I" => f \in Informations
         /\ f.ctl = "RR" => f \in Rrs
<1>1. \/ f \in Snrms \/ f \in Uas \/ f \in Discs \/ f \in Dms \/ f \in Rrs \/ f \in Informations
  BY DEF Letters
<1>2. /\ f \in Snrms => f.ctl = "SNRM"
      /\ f \in Uas => f.ctl = "UA"
      /\ f \in Discs => f.ctl = "DISC"
      /\ f \in Dms => f.ctl = "DM"
      /\ f \in Rrs => f.ctl = "RR"
      /\ f \in Informations => f.ctl = "I"
  BY DEF Snrms, Uas, Discs, Dms, Rrs, Informations
<1> QED
  BY <1>1, <1>2

\* A frame is put on the wire.
LEMMA Sent ==
  ASSUME NEW w \in Wires, NEW e \in Ends, NEW f \in Fitting(e)
  PROVE  [w EXCEPT ![e] = Append(@, f)] \in Wires
<1>1. w \in [Ends -> Seq(Letters)] /\ f \in Letters /\ \A d \in Ends : w[d] \in Seq(Fitting(d))
  BY DEF Wires, Fitting
<1>2. Append(w[e], f) \in Seq(Letters)
  BY <1>1
<1>3. Append(w[e], f) \in Seq(Fitting(e))
  BY <1>1
<1> QED
  BY <1>1, <1>2, <1>3 DEF Wires

\* A frame is taken off it.
LEMMA Taken ==
  ASSUME NEW w \in Wires, NEW e \in Ends, w[e] # <<>>
  PROVE  [w EXCEPT ![e] = Tail(@)] \in Wires /\ Head(w[e]) \in Fitting(e)
<1>1. w \in [Ends -> Seq(Letters)] /\ \A d \in Ends : w[d] \in Seq(Fitting(d))
  BY DEF Wires
<1>2. Tail(w[e]) \in Seq(Letters)
  BY <1>1
<1>3. Tail(w[e]) \in Seq(Fitting(e)) /\ Head(w[e]) \in Fitting(e)
  BY <1>1
<1> QED
  BY <1>1, <1>2, <1>3 DEF Wires

\* One end changes, and perhaps what is on the wire.
LEMMA EndKeeps ==
  ASSUME Inv, mode' = mode, asking' \in Nat, bus' \in BOOLEAN, NEW e \in Ends,
         NEW c, NEW r, NEW o, NEW ev, EndOK(e, c, r, o, ev, mode.capacity),
         conn' = [conn EXCEPT ![e] = c], into' = [into EXCEPT ![e] = r],
         out' = [out EXCEPT ![e] = o], event' = [event EXCEPT ![e] = ev],
         wire' \in Wires, LastOK(last')
  PROVE  Inv'
<1>1. c \in Connections /\ r \in Reassemblers /\ o \in Segmenters /\ ev \in Events
  BY DEF EndOK
<1>2. /\ conn' \in [Ends -> Connections] /\ into' \in [Ends -> Reassemblers]
      /\ out' \in [Ends -> Segmenters] /\ event' \in [Ends -> Events]
      /\ conn'[e] = c /\ into'[e] = r /\ out'[e] = o /\ event'[e] = ev
      /\ \A d \in Ends : d # e => /\ conn'[d] = conn[d] /\ into'[d] = into[d]
                                  /\ out'[d] = out[d] /\ event'[d] = event[d]
  BY <1>1 DEF Inv
<1>3. ASSUME NEW d \in Ends
      PROVE  EndOK(d, conn'[d], into'[d], out'[d], event'[d], mode.capacity)
  <2>1. CASE d = e
    BY <1>2, <2>1
  <2>2. CASE d # e
    BY <1>2, <2>2 DEF Inv
  <2> QED
    BY <2>1, <2>2
<1> QED
  BY <1>2, <1>3 DEF Inv

\* What does not change, written as a change.
LEMMA Same ==
  ASSUME NEW S, NEW f \in [Ends -> S], NEW e \in Ends
  PROVE  f = [f EXCEPT ![e] = f[e]]
OBVIOUS

(***************************************************************************)
(* Sending.                                                                *)
(***************************************************************************)

\* Connection::connect.
LEMMA ConnectKeeps ==
  ASSUME Inv, Connect
  PROVE  Inv'
<1> DEFINE c == [conn["client"] EXCEPT !.state = "Connecting"]
           f == [to |-> "server", ctl |-> "SNRM", par |-> Proposed["client"]]
<1>1. /\ asking <= Units /\ event["client"] = "Idle"
      /\ wire' = [wire EXCEPT !["server"] = Append(@, f)] /\ last' = last
      /\ conn' = [conn EXCEPT !["client"] = c]
      /\ UNCHANGED <<mode, into, out, event, asking, got, handed, bus>>
  BY TwoEnds DEF Connect, Transmit, TimedOut, Inv
<1>2. f \in Letters /\ f.ctl = "SNRM" /\ f.par = Proposed["client"]
  BY Bounds, TwoEnds DEF Letters, Snrms
<1>3. f \in Fitting("server")
  BY <1>2 DEF Fitting, Fit
<1>4. wire' \in Wires
  <2>1. wire \in Wires
    BY DEF Inv
  <2> HIDE DEF f
  <2> QED
    BY <1>1, <1>3, <2>1, TwoEnds, Sent
<1>5. EndOK("client", conn["client"], into["client"], out["client"], "Idle", mode.capacity)
  BY <1>1, TwoEnds DEF Inv
<1>6. c \in Connections /\ c.state = "Connecting"
  BY <1>5 DEF EndOK, Connections, States
<1> HIDE DEF c
<1>8. LinkOK("client", c)
  BY DEF LinkOK
<1>9. EndOK("client", c, into["client"], out["client"], "Idle", mode.capacity)
  BY <1>5, <1>6, <1>8 DEF EndOK
<1>10. /\ into' = [into EXCEPT !["client"] = into["client"]]
       /\ out' = [out EXCEPT !["client"] = out["client"]]
       /\ event' = [event EXCEPT !["client"] = "Idle"]
  BY <1>1, TwoEnds, Same DEF Inv
<1>11. mode' = mode /\ asking' \in Nat /\ bus' \in BOOLEAN /\ LastOK(last')
  BY <1>1 DEF Inv
<1>12. "client" \in Ends /\ conn' = [conn EXCEPT !["client"] = c]
  BY <1>1, TwoEnds
<1> QED
  BY <1>4, <1>9, <1>10, <1>11, <1>12, EndKeeps

\* Connection::acknowledge.
LEMMA AcknowledgeFits ==
  ASSUME Inv, NEW e \in Ends, Acknowledge(e)
  PROVE  Inv'
<1> DEFINE c == [conn[e] EXCEPT !.acknowledging = None]
           f == [to |-> Peer(e), ctl |-> "UA",
                 par |-> IF conn[e].acknowledging = "SNRM" THEN conn[e].par ELSE Default]
<1>1. /\ conn[e].acknowledging # None
      /\ wire' = [wire EXCEPT ![Peer(e)] = Append(@, f)] /\ last' = last
      /\ conn' = [conn EXCEPT ![e] = c] /\ event' = [event EXCEPT ![e] = "Idle"]
      /\ UNCHANGED <<mode, into, out, asking, got, handed, bus>>
  BY DEF Acknowledge, Transmit, Inv
<1>2. EndOK(e, conn[e], into[e], out[e], event[e], mode.capacity)
  BY DEF Inv
<1>3. /\ conn[e] \in Connections /\ conn[e].par \in Parameters
      /\ conn[e].acknowledging \in {None, "SNRM", "DISC"} /\ LinkOK(e, conn[e])
  BY <1>2 DEF EndOK, Connections
<1>4. f \in Letters /\ f.ctl = "UA"
  BY <1>3, Bounds, TwoEnds DEF Letters, Uas
<1>5. f \in Fitting(Peer(e))
  BY <1>4 DEF Fitting, Fit
<1>6. wire' \in Wires
  <2>1. wire \in Wires
    BY DEF Inv
  <2> HIDE DEF f
  <2> QED
    BY <1>1, <1>5, <2>1, TwoEnds, Sent
<1>7. c \in Connections /\ c.state = conn[e].state /\ c.par = conn[e].par /\ c.acknowledging = None
  BY <1>3 DEF Connections
<1> HIDE DEF c
<1>8. LinkOK(e, c)
  BY <1>3, <1>7 DEF LinkOK, None
<1>9. EndOK(e, c, into[e], out[e], "Idle", mode.capacity)
  BY <1>2, <1>7, <1>8 DEF EndOK, Events
<1>10. into' = [into EXCEPT ![e] = into[e]] /\ out' = [out EXCEPT ![e] = out[e]]
  BY <1>1, Same DEF Inv
<1>11. mode' = mode /\ asking' \in Nat /\ bus' \in BOOLEAN /\ LastOK(last')
  BY <1>1 DEF Inv
<1> QED
  BY <1>1, <1>6, <1>9, <1>10, <1>11, EndKeeps

\* An information field of an end that is connected is within what was negotiated.
LEMMA InfoFits ==
  ASSUME Inv, NEW e \in Ends, conn[e].state = "Connected", NEW at \in Nat, at < Len(out[e].unit)
  PROVE  /\ FieldEnd(e, at) \in Nat /\ FieldEnd(e, at) <= Len(out[e].unit)
         /\ SubSeq(out[e].unit, at + 1, FieldEnd(e, at)) \in Text \ {<<>>}
         /\ Len(SubSeq(out[e].unit, at + 1, FieldEnd(e, at))) <= conn[e].par.tx
<1> DEFINE tx == conn[e].par.tx
           unit == out[e].unit
           end == Smaller(at + tx, Len(unit))
<1>1. EndOK(e, conn[e], into[e], out[e], event[e], mode.capacity)
  BY DEF Inv
<1>2. tx \in Nat \ {0} /\ unit \in Text
  BY <1>1 DEF EndOK, Connections, Parameters, Segmenters
<1>3. Len(unit) \in Nat
  BY <1>2 DEF Text
<1> HIDE DEF tx, unit
<1>4. /\ end \in Nat /\ at < end /\ end <= Len(unit) /\ end - at <= tx
  <2>1. at < Len(unit)
    BY DEF unit
  <2> QED
    BY <1>2, <1>3, <2>1 DEF Smaller
<1> HIDE DEF end
<1>5. SubSeq(unit, at + 1, end) \in Text \ {<<>>} /\ Len(SubSeq(unit, at + 1, end)) = end - at
  BY <1>2, <1>4, Segment
<1>6. Len(SubSeq(unit, at + 1, end)) <= tx
  BY <1>2, <1>3, <1>4, <1>5
<1> QED
  BY <1>4, <1>5, <1>6 DEF end, unit, tx, FieldEnd

\* Segmenter::next_frame: so is the frame that carries it.
LEMMA FieldFits ==
  ASSUME Inv, NEW e \in Ends, conn[e].state = "Connected", NEW at \in Nat, at < Len(out[e].unit),
         NEW ns \in Numbers
  PROVE  /\ Field(e, at, ns) \in Informations /\ Field(e, at, ns) \in Fitting(Peer(e))
         /\ Field(e, at, ns).ctl = "I" /\ Len(Field(e, at, ns).info) <= conn[e].par.tx
<1> DEFINE more == FieldEnd(e, at) < Len(out[e].unit)
           pf == ~more \/ (e = "server" /\ mode.polled)
           info == SubSeq(out[e].unit, at + 1, FieldEnd(e, at))
           f == Field(e, at, ns)
<1>1. conn[e].nr \in Numbers
  BY DEF Inv, EndOK, Connections
<1>2. info \in Text \ {<<>>} /\ Len(info) <= conn[e].par.tx
  BY InfoFits
<1>3. more \in BOOLEAN /\ pf \in BOOLEAN
  OBVIOUS
<1>4. f = [to |-> Peer(e), ctl |-> "I", ns |-> ns, nr |-> conn[e].nr, segmented |-> more,
           pf |-> pf, info |-> info]
  BY DEF Field
<1> HIDE DEF more, pf, info, f
<1>5. f \in Informations /\ f.ctl = "I" /\ f.info = info
  BY <1>1, <1>2, <1>3, <1>4, TwoEnds DEF Informations
<1>6. f \in Fitting(Peer(e))
  <2>1. e = "server" => conn[e].par.tx <= Proposed["client"].rx
    BY DEF Inv, EndOK, LinkOK
  <2>2. conn[e].par \in Parameters /\ Proposed["client"] \in Parameters /\ info \in Seq(Pieces)
    BY <1>2, Bounds DEF Inv, Connections, Text
  <2>3. conn[e].par.tx \in Nat /\ Proposed["client"].rx \in Nat /\ Len(info) \in Nat
    BY <2>2 DEF Parameters
  <2>4. e = "server" => Len(info) <= Proposed["client"].rx
    BY <1>2, <2>1, <2>3
  <2> QED
    BY <1>5, <2>4, TwoEnds DEF Fitting, Fit, Letters
<1> QED
  BY <1>2, <1>5, <1>6 DEF f

\* Connection::next_frame.
LEMMA NextFrameKeeps ==
  ASSUME Inv, NEW e \in Ends, NextFrame(e)
  PROVE  Inv'
<1> DEFINE c == [conn[e] EXCEPT !.ns = NextNs(e)]
           o == [out[e] EXCEPT !.sent = SegmentEnd(e)]
           f == InformationFrame(e)
<1>1. /\ conn[e].state = "Connected" /\ event[e] = "Idle" /\ Sending(e)
      /\ wire' = [wire EXCEPT ![Peer(e)] = Append(@, f)]
      /\ last' = IF e = "client" /\ f.ctl = "I" THEN f ELSE last
      /\ out' = [out EXCEPT ![e] = o] /\ conn' = [conn EXCEPT ![e] = c]
      /\ UNCHANGED <<mode, into, event, asking, got, handed, bus>>
  BY DEF NextFrame, Transmit, Inv
<1>2. EndOK(e, conn[e], into[e], out[e], "Idle", mode.capacity)
  BY <1>1 DEF Inv
<1>3. /\ conn[e] \in Connections /\ conn[e].ns \in Numbers /\ conn[e].nr \in Numbers
      /\ LinkOK(e, conn[e]) /\ out[e] \in Segmenters /\ out[e].sent \in Nat
      /\ out[e].unit \in Text
  BY <1>2 DEF EndOK, Connections, Segmenters
<1>4. out[e].sent < Len(out[e].unit)
  <2>1. Len(out[e].unit) \in Nat
    BY <1>3 DEF Text
  <2> QED
    BY <1>1, <1>3, <2>1 DEF Sending, SegmenterDone
<1>5. SegmentEnd(e) \in Nat /\ SegmentEnd(e) <= Len(out[e].unit)
  BY <1>1, <1>3, <1>4, InfoFits DEF SegmentEnd
<1>6. f \in Informations /\ f.ctl = "I" /\ f \in Fitting(Peer(e))
  BY <1>1, <1>3, <1>4, FieldFits DEF InformationFrame
<1> HIDE DEF f
<1>7. wire' \in Wires
  <2>1. wire \in Wires
    BY DEF Inv
  <2> QED
    BY <1>1, <1>6, <2>1, TwoEnds, Sent
<1>8. LastOK(last')
  BY <1>1, <1>6, TwoEnds DEF Inv, LastOK
<1>9. NextNs(e) \in Numbers
  BY <1>3, Bounds DEF NextNs, Numbers
<1>10. /\ c \in Connections /\ c.state = conn[e].state /\ c.par = conn[e].par
       /\ c.acknowledging = conn[e].acknowledging
  BY <1>3, <1>9 DEF Connections
<1>11. o \in Segmenters /\ o.sent <= Len(o.unit)
  BY <1>3, <1>5 DEF Segmenters
<1> HIDE DEF c, o
<1>12. LinkOK(e, c)
  BY <1>3, <1>10 DEF LinkOK
<1>13. EndOK(e, c, into[e], o, "Idle", mode.capacity)
  BY <1>2, <1>10, <1>11, <1>12 DEF EndOK
<1>14. into' = [into EXCEPT ![e] = into[e]] /\ event' = [event EXCEPT ![e] = "Idle"]
  BY <1>1, Same DEF Inv
<1>15. mode' = mode /\ asking' \in Nat /\ bus' \in BOOLEAN
  BY <1>1 DEF Inv
<1> QED
  BY <1>1, <1>7, <1>8, <1>13, <1>14, <1>15, EndKeeps

\* A Segmenter that has nothing to send and a Reassembler that has received nothing.
LEMMA Empties ==
  /\ Nothing \in Segmenters /\ Nothing.sent <= Len(Nothing.unit)
  /\ EmptyInto \in Reassemblers /\ EmptyInto.data = <<>> /\ Len(EmptyInto.data) = 0
<1>1. Mod \in 0 .. Mod /\ <<>> \in Text /\ Len(<<>>) = 0
  BY Bounds DEF Text
<1> QED
  BY <1>1 DEF Nothing, Segmenters, EmptyInto, Reassemblers

\* The Connection of an end that has just started.
LEMMA Fresh ==
  ASSUME NEW e \in Ends
  PROVE  /\ NewConnection \in Connections /\ LinkOK(e, NewConnection)
         /\ NewConnection.state = "Disconnected" /\ NewConnection.acknowledging = None
<1>1. 0 \in Numbers /\ Default \in Parameters
  BY Bounds DEF Numbers
<1>2. NewConnection \in Connections /\ NewConnection.state = "Disconnected" /\ NewConnection.acknowledging = None
  BY <1>1 DEF NewConnection, Connections, States
<1>3. LinkOK(e, NewConnection)
  BY <1>2 DEF LinkOK, None
<1> QED
  BY <1>2, <1>3

\* Connection::disconnect.
LEMMA DisconnectKeeps ==
  ASSUME Inv, Disconnect
  PROVE  Inv'
<1> DEFINE c == [conn["client"] EXCEPT !.state = "Disconnecting"]
           f == [to |-> "server", ctl |-> "DISC"]
<1>1. /\ event["client"] = "Idle"
      /\ wire' = [wire EXCEPT !["server"] = Append(@, f)] /\ last' = last
      /\ conn' = [conn EXCEPT !["client"] = c] /\ out' = [out EXCEPT !["client"] = Nothing]
      /\ UNCHANGED <<mode, into, event, asking, got, handed, bus>>
  BY TwoEnds DEF Disconnect, Transmit, Inv
<1>2. f \in Letters /\ f.ctl = "DISC"
  BY TwoEnds DEF Letters, Discs
<1>3. f \in Fitting("server")
  BY <1>2 DEF Fitting, Fit
<1>4. wire' \in Wires
  <2>1. wire \in Wires
    BY DEF Inv
  <2> HIDE DEF f
  <2> QED
    BY <1>1, <1>3, <2>1, TwoEnds, Sent
<1>5. EndOK("client", conn["client"], into["client"], out["client"], "Idle", mode.capacity)
  BY <1>1, TwoEnds DEF Inv
<1>6. c \in Connections /\ c.state = "Disconnecting"
  BY <1>5 DEF EndOK, Connections, States
<1> HIDE DEF c
<1>7. LinkOK("client", c)
  BY DEF LinkOK
<1>8. EndOK("client", c, into["client"], Nothing, "Idle", mode.capacity)
  BY <1>5, <1>6, <1>7, Empties DEF EndOK
<1>9. /\ into' = [into EXCEPT !["client"] = into["client"]]
      /\ event' = [event EXCEPT !["client"] = "Idle"]
  BY <1>1, TwoEnds, Same DEF Inv
<1>10. mode' = mode /\ asking' \in Nat /\ bus' \in BOOLEAN /\ LastOK(last')
  BY <1>1 DEF Inv
<1>11. /\ "client" \in Ends /\ conn' = [conn EXCEPT !["client"] = c]
       /\ out' = [out EXCEPT !["client"] = Nothing]
  BY <1>1, TwoEnds
<1> QED
  BY <1>4, <1>8, <1>9, <1>10, <1>11, EndKeeps

\* Connection::segmenter.
LEMMA RequestKeeps ==
  ASSUME Inv, Request
  PROVE  Inv'
<1>1. PICK n \in Sizes :
        out' = [out EXCEPT !["client"] = [unit |-> Unit("client", asking, n), sent |-> 0]]
  BY DEF Request
<1> DEFINE o == [unit |-> Unit("client", asking, n), sent |-> 0]
<1>2. event["client"] = "Idle" /\ UNCHANGED <<mode, conn, into, event, wire, last, asking, got, handed, bus>>
  BY DEF Request
<1>3. o \in Segmenters /\ o.sent <= Len(o.unit)
  <2>1. asking \in Nat /\ n \in Nat /\ "client" \in Ends
    BY Bounds, TwoEnds DEF Inv
  <2>2. Unit("client", asking, n) \in Text /\ Len(Unit("client", asking, n)) = n
    BY <2>1, UnitFacts
  <2> QED
    BY <2>1, <2>2 DEF Segmenters
<1>4. out' = [out EXCEPT !["client"] = o]
  BY <1>1
<1> HIDE DEF o
<1>5. EndOK("client", conn["client"], into["client"], out["client"], "Idle", mode.capacity)
  BY <1>2, TwoEnds DEF Inv
<1>6. EndOK("client", conn["client"], into["client"], o, "Idle", mode.capacity)
  BY <1>3, <1>5 DEF EndOK
<1>7. /\ into' = [into EXCEPT !["client"] = into["client"]]
      /\ conn' = [conn EXCEPT !["client"] = conn["client"]]
      /\ event' = [event EXCEPT !["client"] = "Idle"]
  BY <1>2, TwoEnds, Same DEF Inv
<1>8. /\ mode' = mode /\ asking' \in Nat /\ bus' \in BOOLEAN /\ LastOK(last')
      /\ wire' \in Wires /\ "client" \in Ends
  BY <1>2, TwoEnds DEF Inv
<1> QED
  BY <1>4, <1>6, <1>7, <1>8, EndKeeps

\* Connection::poll.
LEMMA PollKeeps ==
  ASSUME Inv, Poll
  PROVE  Inv'
<1> DEFINE f == [to |-> "server", ctl |-> "RR", nr |-> conn["client"].nr]
<1>1. /\ wire' = [wire EXCEPT !["server"] = Append(@, f)] /\ last' = last
      /\ event' = [event EXCEPT !["client"] = "Idle"]
      /\ UNCHANGED <<mode, conn, into, out, asking, got, handed, bus>>
  BY TwoEnds DEF Poll, Transmit
<1>2. EndOK("client", conn["client"], into["client"], out["client"], event["client"], mode.capacity)
  BY TwoEnds DEF Inv
<1>3. conn["client"].nr \in Numbers
  BY <1>2 DEF EndOK, Connections
<1>4. f \in Letters /\ f.ctl = "RR"
  BY <1>3, TwoEnds DEF Letters, Rrs
<1>5. f \in Fitting("server")
  BY <1>4 DEF Fitting, Fit
<1>6. wire' \in Wires
  <2>1. wire \in Wires
    BY DEF Inv
  <2> HIDE DEF f
  <2> QED
    BY <1>1, <1>5, <2>1, TwoEnds, Sent
<1>7. EndOK("client", conn["client"], into["client"], out["client"], "Idle", mode.capacity)
  BY <1>2 DEF EndOK, Events
<1>8. /\ into' = [into EXCEPT !["client"] = into["client"]]
      /\ out' = [out EXCEPT !["client"] = out["client"]]
      /\ conn' = [conn EXCEPT !["client"] = conn["client"]]
      /\ event' = [event EXCEPT !["client"] = "Idle"]
  BY <1>1, TwoEnds, Same DEF Inv
<1>9. mode' = mode /\ asking' \in Nat /\ bus' \in BOOLEAN /\ LastOK(last') /\ "client" \in Ends
  BY <1>1, TwoEnds DEF Inv
<1> QED
  BY <1>6, <1>7, <1>8, <1>9, EndKeeps

\* Only the wire changes.
LEMMA WireKeeps ==
  ASSUME Inv, wire' \in Wires, bus' \in BOOLEAN,
         UNCHANGED <<mode, conn, into, out, event, last, asking>>
  PROVE  Inv'
BY DEF Inv

\* The last information frame once more.
LEMMA ResendKeeps ==
  ASSUME Inv, Resend
  PROVE  Inv'
<1>1. /\ last.ctl = "I" /\ wire' = [wire EXCEPT !["server"] = Append(@, last)] /\ last' = last
      /\ UNCHANGED <<mode, conn, into, out, event, asking, got, handed, bus>>
  BY TwoEnds DEF Resend, Transmit
<1>2. last \in Informations
  BY <1>1 DEF Inv, LastOK, NoFrame, None
<1>3. last \in Fitting("server")
  BY <1>1, <1>2 DEF Fitting, Fit, Letters
<1>4. wire \in Wires
  BY DEF Inv
<1>5. wire' \in Wires
  BY <1>1, <1>3, <1>4, TwoEnds, Sent
<1> QED
  BY <1>1, <1>5, WireKeeps DEF Inv

\* The client's host resets the link.
LEMMA GiveUpKeeps ==
  ASSUME Inv, GiveUp
  PROVE  Inv'
<1>1. /\ conn' = [conn EXCEPT !["client"] = NewConnection]
      /\ out' = [out EXCEPT !["client"] = Nothing]
      /\ event' = [event EXCEPT !["client"] = "Idle"]
      /\ UNCHANGED <<mode, into, wire, last, asking, got, handed, bus>>
  BY DEF GiveUp, ResetConnection
<1>2. EndOK("client", conn["client"], into["client"], out["client"], event["client"], mode.capacity)
  BY TwoEnds DEF Inv
<1>3. EndOK("client", NewConnection, into["client"], Nothing, "Idle", mode.capacity)
  BY <1>2, TwoEnds, Fresh, Empties DEF EndOK, Events
<1>4. into' = [into EXCEPT !["client"] = into["client"]]
  BY <1>1, TwoEnds, Same DEF Inv
<1>5. /\ mode' = mode /\ asking' \in Nat /\ bus' \in BOOLEAN /\ LastOK(last')
      /\ wire' \in Wires /\ "client" \in Ends
  BY <1>1, TwoEnds DEF Inv
<1> QED
  BY <1>1, <1>3, <1>4, <1>5, EndKeeps

\* The server's host resets the link, silently or with a DISC.
LEMMA ServerGivesUpKeeps ==
  ASSUME Inv, ServerGivesUp
  PROVE  Inv'
<1> DEFINE d == [conn["server"] EXCEPT !.state = "Disconnecting"]
           f == [to |-> "client", ctl |-> "DISC"]
<1>1. /\ out' = [out EXCEPT !["server"] = Nothing]
      /\ event' = [event EXCEPT !["server"] = "Idle"]
      /\ UNCHANGED <<mode, into, asking, got, handed, bus>>
      /\ \/ conn' = [conn EXCEPT !["server"] = NewConnection] /\ UNCHANGED <<wire, last>>
         \/ /\ wire' = [wire EXCEPT !["client"] = Append(@, f)] /\ last' = last
            /\ conn' = [conn EXCEPT !["server"] = d]
  BY TwoEnds DEF ServerGivesUp, ResetConnection, Transmit, Inv
<1>2. EndOK("server", conn["server"], into["server"], out["server"], event["server"], mode.capacity)
  BY TwoEnds DEF Inv
<1>3. EndOK("server", NewConnection, into["server"], Nothing, "Idle", mode.capacity)
  BY <1>2, TwoEnds, Fresh, Empties DEF EndOK, Events
<1>4. /\ d \in Connections /\ d.state = "Disconnecting" /\ d.par = conn["server"].par
      /\ d.acknowledging = conn["server"].acknowledging /\ LinkOK("server", conn["server"])
  BY <1>2 DEF EndOK, Connections, States
<1> HIDE DEF d
<1>5. LinkOK("server", d)
  BY <1>4 DEF LinkOK
<1>6. EndOK("server", d, into["server"], Nothing, "Idle", mode.capacity)
  BY <1>2, <1>4, <1>5, Empties DEF EndOK, Events
<1>7. f \in Letters /\ f.ctl = "DISC"
  BY TwoEnds DEF Letters, Discs
<1>8. f \in Fitting("client")
  BY <1>7 DEF Fitting, Fit
<1> HIDE DEF f
<1>9. wire \in Wires /\ [wire EXCEPT !["client"] = Append(@, f)] \in Wires
  BY <1>8, TwoEnds, Sent DEF Inv
<1>10. /\ mode' = mode /\ asking' \in Nat /\ bus' \in BOOLEAN /\ LastOK(last')
       /\ wire' \in Wires /\ "server" \in Ends
       /\ into' = [into EXCEPT !["server"] = into["server"]]
  BY <1>1, <1>9, TwoEnds, Same DEF Inv
<1>11. CASE conn' = [conn EXCEPT !["server"] = NewConnection]
  BY <1>1, <1>3, <1>10, <1>11, EndKeeps
<1>12. CASE conn' = [conn EXCEPT !["server"] = d]
  BY <1>1, <1>6, <1>10, <1>12, EndKeeps
<1> QED
  BY <1>1, <1>11, <1>12

(***************************************************************************)
(* Receiving.                                                              *)
(***************************************************************************)

\* What the host is told: a link that came up is used at once.
Told(ev) == IF ev = "Connected" THEN "Idle" ELSE ev

\* An outcome, the segmenter being o.
OutcomeOK(e, h, o) == EndOK(e, h.conn, h.into, o, Told(h.event), mode.capacity)

\* An event that leaves both parts of an end as they are.
LEMMA Unmoved ==
  ASSUME NEW e \in Ends, NEW c, NEW r, NEW o, EndOK(e, c, r, o, "Idle", mode.capacity)
  PROVE  OutcomeOK(e, Outcome(c, r, "Idle"), o) /\ OutcomeOK(e, Outcome(c, r, "Err"), o)
BY DEF OutcomeOK, EndOK, Outcome, Told, Events

\* Reassembler::push: never more than the buffer holds, and a complete unit has pieces.
LEMMA PushFacts ==
  ASSUME mode.capacity \in Nat, NEW r \in Reassemblers, Len(r.data) <= mode.capacity,
         NEW f \in Informations
  PROVE  LET p == PushInto(r, f)
         IN  /\ p.into \in Reassemblers /\ Len(p.into.data) <= mode.capacity
             /\ p.result \in {"Err", "More", "Complete"}
             /\ p.result = "Complete" => p.into.data # <<>>
<1> DEFINE s == IF r.complete THEN EmptyInto ELSE r
           data == s.data \o f.info
           p == PushInto(r, f)
<1>1. s \in Reassemblers /\ Len(s.data) <= mode.capacity
  BY Empties
<1>2. f.info \in Text /\ f.info # <<>> /\ f.segmented \in BOOLEAN /\ f.ns \in Numbers
  BY DEF Informations
<1>3. s.data \in Text
  BY <1>1 DEF Reassemblers
<1>4. p = IF s.expect # Mod /\ f.ns # s.expect THEN [into |-> s, result |-> "Err"]
          ELSE IF Len(data) > mode.capacity THEN [into |-> s, result |-> "Err"]
          ELSE [into |-> [data |-> data, expect |-> (f.ns + 1) % Mod, complete |-> ~f.segmented],
                result |-> IF f.segmented THEN "More" ELSE "Complete"]
  BY DEF PushInto
<1> HIDE DEF s, p
<1>5. data \in Text /\ data # <<>> /\ Len(data) \in Nat
  BY <1>2, <1>3, Joined
<1> HIDE DEF data
<1>6. (f.ns + 1) % Mod \in 0 .. Mod
  BY <1>2, Bounds DEF Numbers
<1>7. CASE p = [into |-> s, result |-> "Err"]
  BY <1>1, <1>7 DEF p
<1>8. CASE /\ ~(Len(data) > mode.capacity)
           /\ p = [into |-> [data |-> data, expect |-> (f.ns + 1) % Mod, complete |-> ~f.segmented],
                   result |-> IF f.segmented THEN "More" ELSE "Complete"]
  <2>1. p.into \in Reassemblers /\ p.into.data = data /\ p.result \in {"More", "Complete"}
    BY <1>2, <1>5, <1>6, <1>8 DEF Reassemblers
  <2>2. Len(data) <= mode.capacity
    BY <1>5, <1>8
  <2> QED
    BY <1>5, <2>1, <2>2 DEF p
<1> QED
  BY <1>4, <1>7, <1>8

\* The link comes up with what the peer accepts.
LEMMA ComesUp ==
  ASSUME NEW e \in Ends, NEW c \in Connections, NEW p \in Parameters
  PROVE  LET d == ComeUp(e, c, p)
         IN  /\ d \in Connections /\ d.state = "Connected" /\ d.acknowledging = c.acknowledging
             /\ d.par.tx <= p.rx /\ d.par.rx <= Proposed[e].rx
             /\ [d EXCEPT !.acknowledging = "SNRM"] \in Connections
             /\ [d EXCEPT !.acknowledging = "SNRM"].state = "Connected"
             /\ [d EXCEPT !.acknowledging = "SNRM"].par = d.par
             /\ [d EXCEPT !.acknowledging = "SNRM"].acknowledging = "SNRM"
<1> DEFINE g == Negotiate(Proposed[e], p)
           d == ComeUp(e, c, p)
           a == [d EXCEPT !.acknowledging = "SNRM"]
<1>1. Proposed[e] \in Parameters
  BY TwoEnds
<1>2. g \in Parameters /\ g.tx <= p.rx /\ g.rx <= Proposed[e].rx
  BY <1>1, NegotiateFacts
<1>3. d = [c EXCEPT !.par = g, !.ns = 0, !.nr = 0, !.state = "Connected"]
  BY DEF ComeUp
<1> HIDE DEF g, d
<1>4. 0 \in Numbers
  BY Bounds DEF Numbers
<1>5. d \in Connections /\ d.state = "Connected" /\ d.acknowledging = c.acknowledging /\ d.par = g
  BY <1>2, <1>3, <1>4 DEF Connections, States
<1>6. a \in Connections /\ a.state = "Connected" /\ a.par = d.par /\ a.acknowledging = "SNRM"
  BY <1>5 DEF Connections
<1> QED
  BY <1>2, <1>5, <1>6 DEF d

\* handle, SNRM.
LEMMA SnrmOK ==
  ASSUME mode.capacity \in Nat, NEW e \in Ends, NEW c, NEW r, NEW o,
         EndOK(e, c, r, o, "Idle", mode.capacity), NEW f \in Fitting(e), f.ctl = "SNRM"
  PROVE  OutcomeOK(e, HandleSnrm(e, c, r, f), o)
<1>1. CASE e # "server"
  BY <1>1, Unmoved DEF HandleSnrm
<1>2. CASE e = "server"
  <2> DEFINE d == ComeUp(e, c, f.par)
             a == [d EXCEPT !.acknowledging = "SNRM"]
             h == Outcome(a, EmptyInto, "AcknowledgeRequired")
  <2>1. f.par = Proposed["client"] /\ Proposed["client"] \in Parameters /\ c \in Connections
    BY <1>2, Bounds DEF Fitting, Fit, EndOK
  <2>2. /\ a \in Connections /\ a.state = "Connected" /\ a.acknowledging = "SNRM"
        /\ a.par.tx <= Proposed["client"].rx /\ a.par.rx <= Proposed["server"].rx
    BY <1>2, <2>1, ComesUp
  <2>3. HandleSnrm(e, c, r, f) = h
    BY <1>2 DEF HandleSnrm
  <2>4. h.conn = a /\ h.into = EmptyInto /\ h.event = "AcknowledgeRequired"
    BY DEF Outcome
  <2> HIDE DEF a, h
  <2>5. LinkOK(e, a)
    BY <1>2, <2>2, TwoEnds DEF LinkOK
  <2>6. EndOK(e, a, EmptyInto, o, "AcknowledgeRequired", mode.capacity)
    BY <2>2, <2>5, Empties DEF EndOK, Events
  <2> QED
    BY <2>3, <2>4, <2>6 DEF OutcomeOK, Told
<1> QED
  BY <1>1, <1>2

\* An end goes down.
LEMMA DownOK ==
  ASSUME NEW e \in Ends, NEW c, NEW r, NEW o, EndOK(e, c, r, o, "Idle", mode.capacity)
  PROVE  /\ OutcomeOK(e, Outcome([c EXCEPT !.state = "Disconnected"], r, "Disconnected"), o)
         /\ OutcomeOK(e, Outcome([c EXCEPT !.state = "Disconnected", !.acknowledging = "DISC"], r,
                                 "AcknowledgeRequired"), o)
<1> DEFINE d == [c EXCEPT !.state = "Disconnected"]
           a == [c EXCEPT !.state = "Disconnected", !.acknowledging = "DISC"]
           h == Outcome(d, r, "Disconnected")
           k == Outcome(a, r, "AcknowledgeRequired")
<1>1. c \in Connections /\ LinkOK(e, c)
  BY DEF EndOK
<1>2. /\ d \in Connections /\ d.state = "Disconnected" /\ d.acknowledging = c.acknowledging /\ d.par = c.par
      /\ a \in Connections /\ a.state = "Disconnected" /\ a.acknowledging = "DISC"
  BY <1>1 DEF Connections, States
<1>3. /\ h.conn = d /\ h.into = r /\ h.event = "Disconnected"
      /\ k.conn = a /\ k.into = r /\ k.event = "AcknowledgeRequired"
  BY DEF Outcome
<1> HIDE DEF d, a, h, k
<1>4. LinkOK(e, d)
  BY <1>1, <1>2 DEF LinkOK
<1>5. OutcomeOK(e, h, o)
  BY <1>2, <1>3, <1>4 DEF OutcomeOK, EndOK, Told, Events
<1>6. OutcomeOK(e, k, o)
  <2>1. LinkOK(e, a)
    BY <1>2 DEF LinkOK
  <2> QED
    BY <1>2, <1>3, <2>1 DEF OutcomeOK, EndOK, Told, Events
<1> QED
  BY <1>5, <1>6 DEF d, a, h, k

\* handle, UA: the client that is still opening takes the limits the UA names.
LEMMA UaOK ==
  ASSUME mode.capacity \in Nat, NEW e \in Ends, NEW c, NEW r, NEW o,
         EndOK(e, c, r, o, "Idle", mode.capacity), NEW f \in Fitting(e), f.ctl = "UA"
  PROVE  OutcomeOK(e, HandleUa(e, c, r, f), o)
<1>1. CASE c.state # "Connecting"
  BY <1>1, DownOK DEF HandleUa
<1>2. CASE c.state = "Connecting"
  <2> DEFINE d == ComeUp(e, c, f.par)
             h == Outcome(d, EmptyInto, "Connected")
  <2>1. c \in Connections /\ e = "client" /\ f \in Letters
    BY <1>2, TwoEnds DEF EndOK, LinkOK, Fitting
  <2>2. f.par \in Parameters
    BY <2>1, Kinds DEF Uas
  <2>3. d \in Connections /\ d.state = "Connected"
    BY <2>1, <2>2, ComesUp
  <2>4. HandleUa(e, c, r, f) = h /\ h.conn = d /\ h.into = EmptyInto /\ h.event = "Connected"
    BY <1>2 DEF HandleUa, Outcome
  <2> HIDE DEF d, h
  <2>5. LinkOK(e, d)
    BY <2>1 DEF LinkOK
  <2>6. EndOK(e, d, EmptyInto, o, "Idle", mode.capacity)
    BY <2>3, <2>5, Empties DEF EndOK, Events
  <2> QED
    BY <2>4, <2>6 DEF OutcomeOK, Told
<1> QED
  BY <1>1, <1>2

\* handle, I.
LEMMA InformationOK ==
  ASSUME mode.capacity \in Nat, NEW e \in Ends, NEW c, NEW r, NEW o,
         EndOK(e, c, r, o, "Idle", mode.capacity), NEW f \in Informations
  PROVE  OutcomeOK(e, HandleInformation(c, r, f), o)
<1>1. CASE c.state # "Connected" \/ IsRepeat(c, f) \/ f.ns # c.nr
  BY <1>1, Unmoved DEF HandleInformation
<1>2. CASE c.state = "Connected" /\ ~IsRepeat(c, f) /\ f.ns = c.nr
  <2> DEFINE p == PushInto(r, f)
             d == [c EXCEPT !.nr = (@ + 1) % Mod]
             ev == CASE p.result = "Err" -> "Err"
                     [] p.result = "Complete" -> "Lsdu"
                     [] OTHER -> IF f.pf THEN "PollRequired" ELSE "Idle"
             h == Outcome(d, p.into, ev)
  <2>1. HandleInformation(c, r, f) = h /\ h.conn = d /\ h.into = p.into /\ h.event = ev
    BY <1>2 DEF HandleInformation, Outcome
  <2>2. c \in Connections /\ r \in Reassemblers /\ Len(r.data) <= mode.capacity /\ LinkOK(e, c)
    BY DEF EndOK
  <2>3. /\ p.into \in Reassemblers /\ Len(p.into.data) <= mode.capacity
        /\ p.result \in {"Err", "More", "Complete"}
        /\ p.result = "Complete" => p.into.data # <<>>
    BY <2>2, PushFacts
  <2>4. (c.nr + 1) % Mod \in Numbers
    BY <2>2, Bounds DEF Numbers, Connections
  <2>5. /\ d \in Connections /\ d.state = c.state /\ d.par = c.par
        /\ d.acknowledging = c.acknowledging
    BY <2>2, <2>4 DEF Connections
  <2> HIDE DEF p, d, h
  <2>6. ev \in Events /\ Told(ev) = ev /\ (ev = "Lsdu" => p.into.data # <<>>)
    BY <2>3 DEF Told, Events
  <2> HIDE DEF ev
  <2>7. LinkOK(e, d)
    BY <2>2, <2>5 DEF LinkOK
  <2>8. EndOK(e, d, p.into, o, ev, mode.capacity)
    BY <1>2, <2>3, <2>5, <2>6, <2>7 DEF EndOK
  <2> QED
    BY <2>1, <2>6, <2>8 DEF OutcomeOK
<1> QED
  BY <1>1, <1>2

\* Connection::handle, whatever the host is sending.
LEMMA HandledOK ==
  ASSUME Inv, NEW e \in Ends, event[e] = "Idle", NEW f \in Fitting(e),
         NEW o \in Segmenters, o.sent <= Len(o.unit)
  PROVE  OutcomeOK(e, Handled(e, f), o)
<1> DEFINE c == conn[e]
           r == into[e]
<1>1. EndOK(e, c, r, o, "Idle", mode.capacity)
  <2>1. EndOK(e, conn[e], into[e], out[e], "Idle", mode.capacity)
    BY DEF Inv
  <2> QED
    BY <2>1 DEF EndOK
<1>2. f \in Letters /\ mode.capacity \in Nat
  BY Bounds DEF Fitting, Inv
<1>3. Handled(e, f) = IF ~ForMe(e, f) THEN Outcome(c, r, "Idle")
        ELSE CASE f.ctl = "SNRM" -> HandleSnrm(e, c, r, f)
               [] f.ctl = "UA" -> HandleUa(e, c, r, f)
               [] f.ctl = "DISC" ->
                    Outcome([c EXCEPT !.state = "Disconnected", !.acknowledging = "DISC"], r,
                            "AcknowledgeRequired")
               [] f.ctl = "DM" -> Outcome([c EXCEPT !.state = "Disconnected"], r, "Disconnected")
               [] f.ctl = "I" -> HandleInformation(c, r, f)
               [] f.ctl = "RR" -> Outcome(c, r, "Idle")
  BY DEF Handled
<1> HIDE DEF c, r
<1>4. OutcomeOK(e, Outcome(c, r, "Idle"), o)
  BY <1>1, Unmoved
<1>5. CASE ~ForMe(e, f) \/ f.ctl = "RR"
  BY <1>3, <1>4, <1>5
<1>6. CASE ForMe(e, f) /\ f.ctl = "SNRM"
  <2>1. OutcomeOK(e, HandleSnrm(e, c, r, f), o)
    BY <1>1, <1>2, <1>6, SnrmOK
  <2> QED
    BY <1>3, <1>6, <2>1
<1>7. CASE ForMe(e, f) /\ f.ctl = "UA"
  <2>1. OutcomeOK(e, HandleUa(e, c, r, f), o)
    BY <1>1, <1>2, <1>7, UaOK
  <2> QED
    BY <1>3, <1>7, <2>1
<1>8. CASE ForMe(e, f) /\ f.ctl = "DISC"
  <2>1. OutcomeOK(e, Outcome([c EXCEPT !.state = "Disconnected", !.acknowledging = "DISC"], r,
                             "AcknowledgeRequired"), o)
    BY <1>1, DownOK
  <2> QED
    BY <1>3, <1>8, <2>1
<1>9. CASE ForMe(e, f) /\ f.ctl = "DM"
  <2>1. OutcomeOK(e, Outcome([c EXCEPT !.state = "Disconnected"], r, "Disconnected"), o)
    BY <1>1, DownOK
  <2> QED
    BY <1>3, <1>9, <2>1
<1>10. CASE ForMe(e, f) /\ f.ctl = "I"
  <2>1. f \in Informations
    BY <1>2, <1>10, Kinds
  <2>2. OutcomeOK(e, HandleInformation(c, r, f), o)
    BY <1>1, <1>2, <2>1, InformationOK
  <2> QED
    BY <1>3, <1>10, <2>2
<1> QED
  BY <1>2, <1>5, <1>6, <1>7, <1>8, <1>9, <1>10, Kinds

\* One received frame.
LEMMA HandleKeeps ==
  ASSUME Inv, NEW e \in Ends, Handle(e)
  PROVE  Inv'
<1> DEFINE f == Head(wire[e])
           h == Handled(e, f)
           opened == f.ctl \in {"SNRM", "DISC"} /\ h.event = "AcknowledgeRequired"
           o == IF opened THEN Nothing ELSE out[e]
           ev == Told(h.event)
<1>1. /\ wire[e] # <<>> /\ event[e] = "Idle"
      /\ conn' = [conn EXCEPT ![e] = h.conn] /\ into' = [into EXCEPT ![e] = h.into]
      /\ event' = [event EXCEPT ![e] = ev]
      /\ out' = IF opened THEN [out EXCEPT ![e] = Nothing] ELSE out
      /\ wire' = [wire EXCEPT ![e] = Tail(@)]
      /\ UNCHANGED <<mode, last, asking, got, bus>>
  BY DEF Handle, Listening, Told
<1>2. f \in Fitting(e) /\ wire' \in Wires
  <2>1. wire \in Wires
    BY DEF Inv
  <2> QED
    BY <1>1, <2>1, Taken
<1>3. out[e] \in Segmenters /\ out[e].sent <= Len(out[e].unit)
  BY DEF Inv, EndOK
<1>4. o \in Segmenters /\ o.sent <= Len(o.unit)
  BY <1>3, Empties
<1>5. out' = [out EXCEPT ![e] = o]
  BY <1>1, Same DEF Inv
<1> HIDE DEF o, f
<1>6. OutcomeOK(e, h, o)
  BY <1>1, <1>2, <1>4, HandledOK
<1> HIDE DEF h
<1>7. EndOK(e, h.conn, h.into, o, ev, mode.capacity)
  BY <1>6 DEF OutcomeOK
<1>8. mode' = mode /\ asking' \in Nat /\ bus' \in BOOLEAN /\ LastOK(last')
  BY <1>1 DEF Inv
<1> HIDE DEF ev, opened
<1> QED
  BY <1>1, <1>2, <1>5, <1>7, <1>8, EndKeeps

\* The server's host takes a request and answers it.
LEMMA RespondKeeps ==
  ASSUME Inv, Respond
  PROVE  Inv'
<1> DEFINE u == into["server"].data[1].unit
<1>1. PICK n \in Sizes : out' = [out EXCEPT !["server"] = [unit |-> Unit("server", u, n), sent |-> 0]]
  BY DEF Respond
<1> DEFINE o == [unit |-> Unit("server", u, n), sent |-> 0]
<1>2. /\ event["server"] = "Lsdu" /\ event' = [event EXCEPT !["server"] = "Idle"]
      /\ UNCHANGED <<mode, conn, into, wire, last, asking, bus>>
  BY DEF Respond
<1>3. EndOK("server", conn["server"], into["server"], out["server"], "Lsdu", mode.capacity)
  BY <1>2, TwoEnds DEF Inv
<1>4. u \in Nat
  <2>1. into["server"].data \in Seq(Pieces) /\ into["server"].data # <<>>
    BY <1>3 DEF EndOK, Reassemblers, Text
  <2>2. into["server"].data[1] \in Pieces
    BY <2>1
  <2> QED
    BY <2>2 DEF Pieces
<1> HIDE DEF u
<1>5. o \in Segmenters /\ o.sent <= Len(o.unit)
  <2>1. n \in Nat /\ "server" \in Ends
    BY Bounds, TwoEnds
  <2>2. Unit("server", u, n) \in Text /\ Len(Unit("server", u, n)) = n
    BY <1>4, <2>1, UnitFacts
  <2> QED
    BY <2>1, <2>2 DEF Segmenters
<1>6. out' = [out EXCEPT !["server"] = o]
  BY <1>1
<1> HIDE DEF o
<1>7. EndOK("server", conn["server"], into["server"], o, "Idle", mode.capacity)
  BY <1>3, <1>5 DEF EndOK, Events
<1>8. /\ into' = [into EXCEPT !["server"] = into["server"]]
      /\ conn' = [conn EXCEPT !["server"] = conn["server"]]
      /\ event' = [event EXCEPT !["server"] = "Idle"]
  BY <1>2, TwoEnds, Same DEF Inv
<1>9. /\ mode' = mode /\ asking' \in Nat /\ bus' \in BOOLEAN /\ LastOK(last')
      /\ wire' \in Wires /\ "server" \in Ends
  BY <1>2, TwoEnds DEF Inv
<1> QED
  BY <1>6, <1>7, <1>8, <1>9, EndKeeps

\* The client's host takes the response.
LEMMA TakeResponseKeeps ==
  ASSUME Inv, TakeResponse
  PROVE  Inv'
<1>1. /\ event["client"] = "Lsdu"
      /\ out' = [out EXCEPT !["client"] = Nothing]
      /\ event' = [event EXCEPT !["client"] = "Idle"]
      /\ asking' = asking + 1 /\ UNCHANGED <<mode, conn, into, wire, last, handed, bus>>
  BY DEF TakeResponse
<1>2. EndOK("client", conn["client"], into["client"], out["client"], "Lsdu", mode.capacity)
  BY <1>1, TwoEnds DEF Inv
<1>3. EndOK("client", conn["client"], into["client"], Nothing, "Idle", mode.capacity)
  BY <1>2, Empties DEF EndOK, Events
<1>4. /\ into' = [into EXCEPT !["client"] = into["client"]]
      /\ conn' = [conn EXCEPT !["client"] = conn["client"]]
  BY <1>1, TwoEnds, Same DEF Inv
<1>5. /\ mode' = mode /\ asking' \in Nat /\ bus' \in BOOLEAN /\ LastOK(last')
      /\ wire' \in Wires /\ "client" \in Ends
  BY <1>1, TwoEnds DEF Inv
<1> QED
  BY <1>1, <1>3, <1>4, <1>5, EndKeeps

\* A multiple of a segment's length.
LEMMA Multiple ==
  ASSUME NEW a \in Nat, NEW b \in Nat \ {0}
  PROVE  (a \div b) * b \in Nat
<1>1. a \div b \in Nat
  OBVIOUS
<1>2. ASSUME NEW c \in Nat
      PROVE  c * b \in Nat
  OBVIOUS
<1> QED
  BY <1>1, <1>2

\* The polled station sends the segment asked for.
LEMMA PolledSendKeeps ==
  ASSUME Inv, PolledSend
  PROVE  Inv'
<1> DEFINE k == conn["server"]
           unit == out["server"].unit
           sent == out["server"].sent
           rr == Head(wire["server"])
           end == FieldEnd("server", ResumeAt)
           f == Field("server", ResumeAt, rr.nr)
           ns == IF ResumeAt < sent THEN k.ns ELSE NextNs("server")
           c == [k EXCEPT !.ns = ns]
           o == [out["server"] EXCEPT !.sent = end]
<1>1. /\ event["server"] = "Idle" /\ wire["server"] # <<>> /\ rr.ctl = "RR"
      /\ k.state = "Connected" /\ sent > 0 /\ ResumeAt < Len(unit)
      /\ wire' = [wire EXCEPT !["server"] = Tail(@), !["client"] = Append(@, f)]
      /\ out' = [out EXCEPT !["server"] = o] /\ conn' = [conn EXCEPT !["server"] = c]
      /\ UNCHANGED <<mode, into, event, last, asking, got, handed, bus>>
  BY TwoEnds DEF PolledSend, AsksForMore, Inv
<1>2. EndOK("server", k, into["server"], out["server"], "Idle", mode.capacity)
  BY <1>1, TwoEnds DEF Inv
<1>3. /\ k \in Connections /\ k.ns \in Numbers /\ k.nr \in Numbers /\ k.par.tx \in Nat \ {0}
      /\ LinkOK("server", k) /\ out["server"] \in Segmenters /\ sent \in Nat /\ unit \in Text
  BY <1>2 DEF EndOK, Connections, Segmenters, Parameters
<1>4. wire \in Wires
  BY DEF Inv
<1>5. rr \in Fitting("server") /\ [wire EXCEPT !["server"] = Tail(@)] \in Wires
  BY <1>1, <1>4, TwoEnds, Taken
<1>6. rr.nr \in Numbers
  <2>1. rr \in Letters
    BY <1>5 DEF Fitting
  <2>2. rr \in Rrs
    BY <1>1, <2>1, Kinds
  <2> QED
    BY <2>2 DEF Rrs
<1>7. ResumeAt \in Nat
  <2>1. sent - 1 \in Nat
    BY <1>1, <1>3
  <2>2. ((sent - 1) \div k.par.tx) * k.par.tx \in Nat
    BY <1>3, <2>1, Multiple
  <2> QED
    BY <1>3, <2>2 DEF ResumeAt
<1>8. end \in Nat /\ end <= Len(unit)
  BY <1>1, <1>7, TwoEnds, InfoFits
<1>9. f \in Fitting("client")
  BY <1>1, <1>6, <1>7, TwoEnds, FieldFits
<1>10. wire' \in Wires
  <2> DEFINE w == [wire EXCEPT !["server"] = Tail(@)]
  <2> HIDE DEF f
  <2>1. wire' = [w EXCEPT !["client"] = Append(@, f)]
    BY <1>1, <1>4, TwoEnds DEF Wires
  <2>2. w \in Wires
    BY <1>5
  <2> HIDE DEF w
  <2> QED
    BY <1>9, <2>1, <2>2, TwoEnds, Sent
<1>11. NextNs("server") \in Numbers
  BY <1>3, Bounds DEF NextNs, Numbers
<1>12. /\ c \in Connections /\ c.state = k.state /\ c.par = k.par /\ c.acknowledging = k.acknowledging
  <2>1. ns \in Numbers
    BY <1>3, <1>11
  <2> HIDE DEF ns, k
  <2> QED
    BY <1>3, <2>1 DEF Connections
<1>13. o \in Segmenters /\ o.sent <= Len(o.unit)
  <2> HIDE DEF end
  <2> QED
    BY <1>3, <1>8 DEF Segmenters
<1> HIDE DEF c, o, f, k, end, ns
<1>14. LinkOK("server", c)
  BY <1>3, <1>12 DEF LinkOK
<1>15. EndOK("server", c, into["server"], o, "Idle", mode.capacity)
  BY <1>2, <1>12, <1>13, <1>14 DEF EndOK
<1>16. /\ into' = [into EXCEPT !["server"] = into["server"]] /\ event' = [event EXCEPT !["server"] = "Idle"]
       /\ out' = [out EXCEPT !["server"] = o] /\ conn' = [conn EXCEPT !["server"] = c]
  BY <1>1, TwoEnds, Same DEF Inv
<1>17. mode' = mode /\ asking' \in Nat /\ bus' \in BOOLEAN /\ LastOK(last') /\ "server" \in Ends
  BY <1>1, TwoEnds DEF Inv
<1> QED
  BY <1>10, <1>15, <1>16, <1>17, EndKeeps

\* A polled station that is not connected says so.
LEMMA PolledRefusesKeeps ==
  ASSUME Inv, PolledRefuses
  PROVE  Inv'
<1> DEFINE f == [to |-> "client", ctl |-> "DM"]
           w == [wire EXCEPT !["server"] = Tail(@)]
<1>1. /\ wire["server"] # <<>> /\ wire' = [wire EXCEPT !["server"] = Tail(@), !["client"] = Append(@, f)]
      /\ UNCHANGED <<mode, conn, into, out, event, last, asking, bus>>
  BY DEF PolledRefuses
<1>2. f \in Letters /\ f.ctl = "DM"
  BY TwoEnds DEF Letters, Dms
<1>3. f \in Fitting("client")
  BY <1>2 DEF Fitting, Fit
<1> HIDE DEF f
<1>4. wire \in Wires
  BY DEF Inv
<1>5. w \in Wires
  BY <1>1, <1>4, TwoEnds, Taken
<1>6. wire' = [w EXCEPT !["client"] = Append(@, f)]
  BY <1>1, <1>4, TwoEnds DEF Wires
<1> HIDE DEF w
<1>7. wire' \in Wires
  BY <1>3, <1>5, <1>6, TwoEnds, Sent
<1> QED
  BY <1>1, <1>7, WireKeeps DEF Inv

\* A frame is lost.
LEMMA LoseKeeps ==
  ASSUME Inv, NEW e \in Ends, Lose(e)
  PROVE  Inv'
<1>1. /\ wire[e] # <<>> /\ wire' = [wire EXCEPT ![e] = Tail(@)]
      /\ UNCHANGED <<mode, conn, into, out, event, last, asking, bus>>
  BY DEF Lose
<1>2. wire \in Wires
  BY DEF Inv
<1>3. wire' \in Wires
  BY <1>1, <1>2, Taken
<1> QED
  BY <1>1, <1>3, WireKeeps DEF Inv

\* A frame of another conversation.
LEMMA NeighbourKeeps ==
  ASSUME Inv, Neighbour
  PROVE  Inv'
<1>1. PICK n \in 0 .. Mod - 1 :
        wire' = [wire EXCEPT !["server"] =
                   Append(@, [to |-> "neighbour", ctl |-> "I", ns |-> n, nr |-> 0, segmented |-> FALSE,
                              pf |-> TRUE, info |-> Unit("neighbour", 1, 1)])]
  BY DEF Neighbour
<1> DEFINE f == [to |-> "neighbour", ctl |-> "I", ns |-> n, nr |-> 0, segmented |-> FALSE,
                 pf |-> TRUE, info |-> Unit("neighbour", 1, 1)]
<1>2. bus' = FALSE /\ UNCHANGED <<mode, conn, into, out, event, last, asking>>
  BY DEF Neighbour
<1>3. Unit("neighbour", 1, 1) \in Text \ {<<>>}
  <2>1. \A i \in 1 .. 1 : [from |-> "neighbour", unit |-> 1, at |-> i, of |-> 1] \in Pieces
    BY DEF Pieces
  <2>2. Unit("neighbour", 1, 1) \in Seq(Pieces) /\ Len(Unit("neighbour", 1, 1)) = 1
    BY <2>1 DEF Unit
  <2> QED
    BY <2>2 DEF Text
<1>4. n \in Numbers /\ 0 \in Numbers
  BY Bounds DEF Numbers
<1>5. f \in Informations /\ f.ctl = "I" /\ f.to = "neighbour"
  BY <1>3, <1>4 DEF Informations
<1>6. wire' = [wire EXCEPT !["server"] = Append(@, f)]
  BY <1>1
<1> HIDE DEF f
<1>7. f \in Fitting("server")
  BY <1>5 DEF Fitting, Fit, Letters
<1>8. wire \in Wires
  BY DEF Inv
<1>9. wire' \in Wires
  BY <1>6, <1>7, <1>8, TwoEnds, Sent
<1> QED
  BY <1>2, <1>9, WireKeeps

(***************************************************************************)
(* The theorems.                                                           *)
(***************************************************************************)

\* Two ends that have just started.
LEMMA InitInv == Init => Inv
<1> SUFFICES ASSUME Init PROVE Inv
  OBVIOUS
<1>1. /\ mode \in Modes /\ mode.capacity \in Nat /\ asking = 1 /\ bus = TRUE /\ last = NoFrame
  BY Bounds DEF Init
<1>2. /\ conn = [e \in Ends |-> NewConnection] /\ into = [e \in Ends |-> EmptyInto]
      /\ out = [e \in Ends |-> Nothing] /\ event = [e \in Ends |-> "Idle"]
      /\ wire = [e \in Ends |-> <<>>]
  BY DEF Init
<1>3. NewConnection \in Connections
  BY TwoEnds, Fresh
<1>4. /\ conn \in [Ends -> Connections] /\ into \in [Ends -> Reassemblers]
      /\ out \in [Ends -> Segmenters] /\ event \in [Ends -> Events]
  BY <1>2, <1>3, Empties DEF Events
<1>5. \A e \in Ends : EndOK(e, conn[e], into[e], out[e], event[e], mode.capacity)
  BY <1>1, <1>2, Fresh, Empties DEF EndOK, Events
<1>6. wire \in Wires
  <2>1. <<>> \in Seq(Letters) /\ \A e \in Ends : <<>> \in Seq(Fitting(e))
    OBVIOUS
  <2> QED
    BY <1>2, <2>1 DEF Wires
<1> QED
  BY <1>1, <1>4, <1>5, <1>6 DEF Inv, LastOK

\* Every step keeps the invariant.
LEMMA NextInv == Inv /\ [Next]_vars => Inv'
<1> SUFFICES ASSUME Inv, [Next]_vars PROVE Inv'
  OBVIOUS
<1>1. CASE Next
  <2>1. CASE \E e \in Ends : Handle(e) \/ NextFrame(e) \/ Acknowledge(e) \/ Lose(e)
    BY <2>1, HandleKeeps, NextFrameKeeps, AcknowledgeFits, LoseKeeps
  <2>2. CASE Connect \/ Request \/ Respond \/ TakeResponse \/ Poll \/ GiveUp \/ ServerGivesUp
    BY <2>2, ConnectKeeps, RequestKeeps, RespondKeeps, TakeResponseKeeps, PollKeeps, GiveUpKeeps,
       ServerGivesUpKeeps
  <2>3. CASE PolledSend \/ PolledRefuses \/ Disconnect \/ Resend \/ Neighbour
    BY <2>3, PolledSendKeeps, PolledRefusesKeeps, DisconnectKeeps, ResendKeeps, NeighbourKeeps
  <2> QED
    BY <1>1, <2>1, <2>2, <2>3 DEF Next
<1>2. CASE UNCHANGED vars
  BY <1>2 DEF vars, Inv
<1> QED
  BY <1>1, <1>2

\* The invariant holds of every behaviour.
THEOREM Invariance == Spec => []Inv
BY InitInv, NextInv, PTL DEF Spec

\* Types: sequence numbers stay below the modulus and a reassembly buffer is never
\* overrun, for every modulus and every capacity.
THEOREM TypeCorrect == Spec => []TypeOK
<1>1. Inv => TypeOK
  BY DEF Inv, TypeOK, EndOK, Connections, Reassemblers, States, Numbers, Events
<1> QED
  BY <1>1, Invariance, PTL

(***************************************************************************)
(* The handshake, between hosts that wait for a round trip.                *)
(***************************************************************************)
Asks == {"SNRM", "DISC"}
Answers == {"UA"}

\* There is no frame of the kinds in K on the wire w; there is one at most.
Free(w, K) == \A i \in DOMAIN w : w[i].ctl \notin K
AtMostOne(w, K) == \A i, j \in DOMAIN w : w[i].ctl \in K /\ w[j].ctl \in K => i = j

\* v holds no more of them than w.
NoMore(v, w, K) == (Free(w, K) => Free(v, K)) /\ (AtMostOne(w, K) => AtMostOne(v, K))

\* cs is the client's state, ack what the server is acknowledging, ev what its host was
\* told, ws and wc are the wires to the server and to the client.  What the server has to
\* acknowledge its host knows of.  While the client opens the link one SNRM, its
\* acknowledgement or its UA is under way; once the link is open none of them is.
Handshake(cs, ack, ev, ws, wc) ==
  /\ ack # None => ev = "AcknowledgeRequired"
  /\ cs = "Connected" => ack = None /\ Free(ws, Asks) /\ Free(wc, Answers)
  /\ cs = "Connecting" =>
       /\ AtMostOne(ws, Asks) /\ AtMostOne(wc, Answers)
       /\ ack = None \/ Free(ws, Asks)
       /\ ack = None \/ Free(wc, Answers)
       /\ Free(ws, Asks) \/ Free(wc, Answers)

HandshakeInv ==
  Handshake(conn["client"].state, conn["server"].acknowledging, event["server"],
            wire["server"], wire["client"])

\* What becomes of a wire.
LEMMA WireFacts ==
  ASSUME NEW S, NEW w \in Seq(S), NEW K
  PROVE  /\ NoMore(w, w, K)
         /\ \A f : f.ctl \notin K => NoMore(Append(w, f), w, K)
         /\ \A f : Free(w, K) => AtMostOne(Append(w, f), K)
         /\ w # <<>> => NoMore(Tail(w), w, K)
         /\ w # <<>> /\ AtMostOne(w, K) /\ Head(w).ctl \in K => Free(Tail(w), K)
<1>1. NoMore(w, w, K)
  BY DEF NoMore
<1>2. ASSUME NEW f
      PROVE  /\ Len(Append(w, f)) = Len(w) + 1 /\ DOMAIN Append(w, f) = 1 .. Len(w) + 1
             /\ \A i \in 1 .. Len(w) : Append(w, f)[i] = w[i]
             /\ Append(w, f)[Len(w) + 1] = f
             /\ DOMAIN w = 1 .. Len(w) /\ Len(w) \in Nat
  OBVIOUS
<1>3. ASSUME NEW f, f.ctl \notin K
      PROVE  NoMore(Append(w, f), w, K)
  BY <1>2, <1>3 DEF NoMore, Free, AtMostOne
<1>4. ASSUME NEW f, Free(w, K)
      PROVE  AtMostOne(Append(w, f), K)
  BY <1>2, <1>4 DEF Free, AtMostOne
<1>5. ASSUME w # <<>>
      PROVE  NoMore(Tail(w), w, K) /\ (AtMostOne(w, K) /\ Head(w).ctl \in K => Free(Tail(w), K))
  <2>1. /\ Len(w) \in Nat \ {0} /\ DOMAIN w = 1 .. Len(w) /\ DOMAIN Tail(w) = 1 .. Len(w) - 1
        /\ \A i \in 1 .. Len(w) - 1 : Tail(w)[i] = w[i + 1]
        /\ Head(w) = w[1]
    BY <1>5
  <2>2. \A i \in DOMAIN Tail(w) : i + 1 \in DOMAIN w /\ i + 1 # 1 /\ i \in Int
    BY <2>1
  <2>3. \A i \in DOMAIN Tail(w) : Tail(w)[i] = w[i + 1]
    BY <2>1
  <2>4. 1 \in DOMAIN w
    BY <2>1
  <2>5. Free(w, K) => Free(Tail(w), K)
    BY <2>2, <2>3 DEF Free
  <2>6. ASSUME AtMostOne(w, K)
        PROVE  AtMostOne(Tail(w), K)
    <3>1. ASSUME NEW i \in DOMAIN Tail(w), NEW j \in DOMAIN Tail(w),
                 Tail(w)[i].ctl \in K, Tail(w)[j].ctl \in K
          PROVE  i = j
      <4>1. i + 1 = j + 1
        BY <2>2, <2>3, <2>6, <3>1 DEF AtMostOne
      <4> QED
        BY <2>2, <4>1
    <3> QED
      BY <3>1 DEF AtMostOne
  <2>7. AtMostOne(w, K) /\ Head(w).ctl \in K => Free(Tail(w), K)
    BY <2>1, <2>2, <2>3, <2>4 DEF AtMostOne, Free
  <2> QED
    BY <2>5, <2>6, <2>7 DEF NoMore
<1> QED
  BY <1>1, <1>3, <1>4, <1>5

\* A step that opens nothing.
LEMMA HandshakeKeeps ==
  ASSUME NEW cs, NEW ack, NEW ev, NEW ws, NEW wc, Handshake(cs, ack, ev, ws, wc),
         NEW cs2, NEW ack2, NEW ev2, NEW ws2, NEW wc2,
         cs2 = cs \/ cs2 \notin {"Connected", "Connecting"},
         ack2 = ack \/ ack2 = None, ack2 # None => ev2 = "AcknowledgeRequired",
         NoMore(ws2, ws, Asks), NoMore(wc2, wc, Answers)
  PROVE  Handshake(cs2, ack2, ev2, ws2, wc2)
<1>1. CASE cs2 \notin {"Connected", "Connecting"}
  BY <1>1 DEF Handshake
<1>2. CASE cs2 = cs
  BY <1>2 DEF Handshake, NoMore
<1> QED
  BY <1>1, <1>2

\* What the invariant says of the wires and of the client.
LEMMA Parts ==
  ASSUME Inv
  PROVE  /\ wire \in [Ends -> Seq(Letters)]
         /\ wire["server"] \in Seq(Letters) /\ wire["client"] \in Seq(Letters)
         /\ conn["client"] \in Connections /\ conn["server"] \in Connections
BY TwoEnds DEF Inv, Wires

\* Connection::connect: nothing is under way when the host has waited in vain.
LEMMA ConnectShakes ==
  ASSUME \A m \in Modes : m.patient, Inv, HandshakeInv, Connect
  PROVE  HandshakeInv'
<1> DEFINE f == [to |-> "server", ctl |-> "SNRM", par |-> Proposed["client"]]
<1>1. mode.patient
  BY DEF Inv
<1>2. wire["server"] = <<>> /\ wire["client"] = <<>> /\ event["server"] = "Idle"
  BY <1>1, TwoEnds DEF Connect, TimedOut, Quiet
<1>3. /\ wire' = [wire EXCEPT !["server"] = Append(@, f)]
      /\ conn' = [conn EXCEPT !["client"].state = "Connecting"] /\ event' = event
  BY TwoEnds DEF Connect, Transmit
<1> HIDE DEF f
<1>4. /\ wire'["server"] = Append(wire["server"], f) /\ wire'["client"] = wire["client"]
      /\ conn'["client"].state = "Connecting" /\ conn'["server"] = conn["server"]
  BY <1>3, Parts, TwoEnds DEF Inv, Connections
<1>5. Free(wire["server"], Asks) /\ Free(wire["client"], Answers)
  BY <1>2 DEF Free
<1>6. AtMostOne(wire'["server"], Asks)
  BY <1>4, <1>5, Parts, WireFacts
<1>7. Free(wire'["client"], Answers) /\ AtMostOne(wire'["client"], Answers)
  BY <1>2, <1>4 DEF Free, AtMostOne
<1>8. conn'["server"].acknowledging = None
  BY <1>2, <1>4 DEF HandshakeInv, Handshake
<1> QED
  BY <1>4, <1>6, <1>7, <1>8 DEF HandshakeInv, Handshake

\* Connection::acknowledge, by the server: the UA takes the place of what it answers.
LEMMA AcknowledgeShakes ==
  ASSUME Inv, HandshakeInv, Acknowledge("server")
  PROVE  HandshakeInv'
<1> DEFINE s == conn["server"]
           f == [to |-> "client", ctl |-> "UA",
                 par |-> IF s.acknowledging = "SNRM" THEN s.par ELSE Default]
<1>1. /\ s.acknowledging # None
      /\ wire' = [wire EXCEPT !["client"] = Append(@, f)]
      /\ conn' = [conn EXCEPT !["server"].acknowledging = None]
  BY TwoEnds DEF Acknowledge, Transmit
<1> HIDE DEF f
<1>2. /\ wire'["client"] = Append(wire["client"], f) /\ wire'["server"] = wire["server"]
      /\ conn'["client"] = conn["client"] /\ conn'["server"].acknowledging = None
  BY <1>1, Parts, TwoEnds DEF Inv, Connections
<1>3. /\ conn["client"].state # "Connected"
      /\ conn["client"].state = "Connecting" =>
           Free(wire["server"], Asks) /\ Free(wire["client"], Answers) /\ AtMostOne(wire["server"], Asks)
  BY <1>1 DEF HandshakeInv, Handshake
<1>4. Free(wire["client"], Answers) => AtMostOne(wire'["client"], Answers)
  BY <1>2, Parts, WireFacts
<1> QED
  BY <1>2, <1>3, <1>4 DEF HandshakeInv, Handshake

\* The steps that put nothing on the wire and leave the server's Connection, and what its
\* host knows of it, as they were, or settle it.
LEMMA HostShakes ==
  ASSUME Inv, HandshakeInv,
         Request \/ Respond \/ TakeResponse \/ GiveUp \/ UNCHANGED vars
  PROVE  HandshakeInv'
<1>1. wire' = wire
  BY DEF Request, Respond, TakeResponse, GiveUp, vars
<1>2. /\ NoMore(wire'["server"], wire["server"], Asks)
      /\ NoMore(wire'["client"], wire["client"], Answers)
  BY <1>1, Parts, WireFacts
<1>3. /\ conn'["server"] = conn["server"]
      /\ conn'["client"] = conn["client"] \/ conn'["client"].state = "Disconnected"
  <2>1. CASE GiveUp
    <3>1. conn' = [conn EXCEPT !["client"] = NewConnection]
      BY <2>1 DEF GiveUp, ResetConnection
    <3> QED
      BY <3>1, TwoEnds DEF Inv, NewConnection
  <2>2. CASE Request \/ Respond \/ TakeResponse \/ UNCHANGED vars
    BY <2>2 DEF Request, Respond, TakeResponse, vars
  <2> QED
    BY <2>1, <2>2
<1>4. conn["server"].acknowledging # None => event["server"] = "AcknowledgeRequired"
  BY DEF HandshakeInv, Handshake
<1>5. event["server"] = "AcknowledgeRequired" => event'["server"] = event["server"]
  BY TwoEnds DEF Request, Respond, TakeResponse, GiveUp, vars, Inv
<1> HIDE DEF HandshakeInv
<1> QED
  BY <1>2, <1>3, <1>4, <1>5, HandshakeKeeps DEF HandshakeInv

\* The client opens nothing and the server takes nothing to acknowledge.
Settled ==
  /\ conn'["client"].state \in {conn["client"].state, "Disconnected", "Disconnecting"}
  /\ conn'["server"].acknowledging \in {conn["server"].acknowledging, None}
  /\ conn'["server"].acknowledging # None => event'["server"] = "AcknowledgeRequired"

\* A frame that opens, closes and answers nothing is sent.
LEMMA SendShakes ==
  ASSUME Inv, HandshakeInv, Settled, NEW e \in Ends, NEW f,
         f.ctl \notin (IF e = "server" THEN Asks ELSE Answers),
         wire' = [wire EXCEPT ![e] = Append(@, f)]
  PROVE  HandshakeInv'
<1>1. /\ wire'[e] = Append(wire[e], f) /\ \A d \in Ends : d # e => wire'[d] = wire[d]
  BY Parts
<1>2. NoMore(wire'["server"], wire["server"], Asks)
  BY <1>1, Parts, TwoEnds, WireFacts
<1>3. NoMore(wire'["client"], wire["client"], Answers)
  BY <1>1, Parts, TwoEnds, WireFacts
<1> QED
  BY <1>2, <1>3, HandshakeKeeps DEF HandshakeInv, Settled

\* A frame is taken off the wire, or lost.
LEMMA TakeShakes ==
  ASSUME Inv, HandshakeInv, Settled, NEW e \in Ends, wire[e] # <<>>,
         wire' = [wire EXCEPT ![e] = Tail(@)]
  PROVE  HandshakeInv'
<1>1. /\ wire'[e] = Tail(wire[e]) /\ \A d \in Ends : d # e => wire'[d] = wire[d]
  BY Parts
<1>2. NoMore(wire'["server"], wire["server"], Asks)
  BY <1>1, Parts, TwoEnds, WireFacts
<1>3. NoMore(wire'["client"], wire["client"], Answers)
  BY <1>1, Parts, TwoEnds, WireFacts
<1> QED
  BY <1>2, <1>3, HandshakeKeeps DEF HandshakeInv, Settled

\* The station that is polled takes a frame and sends one.
LEMMA PolledShakes ==
  ASSUME Inv, HandshakeInv, Settled, NEW f, f.ctl \notin Answers, wire["server"] # <<>>,
         wire' = [wire EXCEPT !["server"] = Tail(@), !["client"] = Append(@, f)]
  PROVE  HandshakeInv'
<1>1. wire'["server"] = Tail(wire["server"]) /\ wire'["client"] = Append(wire["client"], f)
  BY Parts, TwoEnds
<1>2. NoMore(wire'["server"], wire["server"], Asks)
  BY <1>1, Parts, WireFacts
<1>3. NoMore(wire'["client"], wire["client"], Answers)
  <2>1. NoMore(Append(wire["client"], f), wire["client"], Answers)
    BY Parts, WireFacts
  <2> QED
    BY <1>1, <2>1
<1> QED
  BY <1>2, <1>3, HandshakeKeeps DEF HandshakeInv, Settled

\* What the server has to acknowledge its host knows of.
LEMMA Known ==
  ASSUME HandshakeInv
  PROVE  conn["server"].acknowledging # None => event["server"] = "AcknowledgeRequired"
BY DEF HandshakeInv, Handshake

\* The steps that send.
LEMMA SendersShake ==
  ASSUME Inv, HandshakeInv,
         \/ Disconnect \/ Poll \/ Resend \/ Neighbour \/ ServerGivesUp
         \/ Acknowledge("client") \/ \E e \in Ends : NextFrame(e)
  PROVE  HandshakeInv'
<1>1. CASE Disconnect
  <2> DEFINE f == [to |-> "server", ctl |-> "DISC"]
  <2>1. /\ wire' = [wire EXCEPT !["server"] = Append(@, f)]
        /\ conn' = [conn EXCEPT !["client"].state = "Disconnecting"] /\ event' = event
        /\ conn["client"].state = "Connected"
    BY <1>1, TwoEnds DEF Disconnect, Transmit
  <2> HIDE DEF f
  <2>2. /\ wire'["client"] = wire["client"] /\ event'["server"] = event["server"]
        /\ conn'["client"].state = "Disconnecting" /\ conn'["server"] = conn["server"]
    BY <2>1, Parts, TwoEnds DEF Inv, Connections
  <2> QED
    BY <2>2, Known DEF HandshakeInv, Handshake
<1>2. CASE Poll
  <2> DEFINE f == [to |-> "server", ctl |-> "RR", nr |-> conn["client"].nr]
  <2>1. /\ wire' = [wire EXCEPT !["server"] = Append(@, f)]
        /\ conn' = conn /\ event' = [event EXCEPT !["client"] = "Idle"]
    BY <1>2, TwoEnds DEF Poll, Transmit
  <2>2. f.ctl \notin Asks
    BY DEF Asks
  <2>3. event'["server"] = event["server"]
    BY <2>1, TwoEnds DEF Inv
  <2>4. Settled
    BY <2>1, <2>3, Known DEF Settled
  <2> HIDE DEF f
  <2> QED
    BY <2>1, <2>2, <2>4, TwoEnds, SendShakes
<1>3. CASE Resend
  <2>1. /\ wire' = [wire EXCEPT !["server"] = Append(@, last)]
        /\ conn' = conn /\ event' = event /\ last.ctl = "I"
    BY <1>3, TwoEnds DEF Resend, Transmit
  <2>2. last.ctl \notin Asks
    BY <2>1 DEF Asks
  <2>3. Settled
    BY <2>1, Known DEF Settled
  <2> QED
    BY <2>1, <2>2, <2>3, TwoEnds, SendShakes
<1>4. CASE Neighbour
  <2>1. PICK n \in 0 .. Mod - 1 :
          wire' = [wire EXCEPT !["server"] =
                     Append(@, [to |-> "neighbour", ctl |-> "I", ns |-> n, nr |-> 0, segmented |-> FALSE,
                                pf |-> TRUE, info |-> Unit("neighbour", 1, 1)])]
    BY <1>4 DEF Neighbour
  <2> DEFINE f == [to |-> "neighbour", ctl |-> "I", ns |-> n, nr |-> 0, segmented |-> FALSE,
                   pf |-> TRUE, info |-> Unit("neighbour", 1, 1)]
  <2>2. conn' = conn /\ event' = event
    BY <1>4 DEF Neighbour
  <2>3. f.ctl \notin Asks
    BY DEF Asks
  <2>4. wire' = [wire EXCEPT !["server"] = Append(@, f)]
    BY <2>1
  <2> HIDE DEF f
  <2>5. Settled
    BY <2>2, Known DEF Settled
  <2> QED
    BY <2>3, <2>4, <2>5, TwoEnds, SendShakes
<1>5. CASE ServerGivesUp
  <2> DEFINE f == [to |-> "client", ctl |-> "DISC"]
  <2>1. /\ event["server"] \in {"Err", "Disconnected"}
        /\ \/ conn' = [conn EXCEPT !["server"] = NewConnection] /\ wire' = wire
           \/ /\ wire' = [wire EXCEPT !["client"] = Append(@, f)]
              /\ conn' = [conn EXCEPT !["server"].state = "Disconnecting"]
    BY <1>5, TwoEnds DEF ServerGivesUp, Transmit, ResetConnection
  <2>2. conn["server"].acknowledging = None
    BY <2>1, Known
  <2>3. conn'["client"] = conn["client"] /\ conn'["server"].acknowledging = None
    BY <2>1, <2>2, Parts, TwoEnds DEF Inv, NewConnection, Connections
  <2>4. Settled
    BY <2>3 DEF Settled
  <2>5. f.ctl \notin Answers
    BY DEF Answers
  <2> HIDE DEF f
  <2>6. CASE wire' = wire
    <3>1. /\ NoMore(wire'["server"], wire["server"], Asks)
          /\ NoMore(wire'["client"], wire["client"], Answers)
      BY <2>6, Parts, WireFacts
    <3> QED
      BY <2>4, <3>1, HandshakeKeeps DEF HandshakeInv, Settled
  <2>7. CASE wire' = [wire EXCEPT !["client"] = Append(@, f)]
    BY <2>4, <2>5, <2>7, TwoEnds, SendShakes
  <2> QED
    BY <2>1, <2>6, <2>7
<1>6. CASE Acknowledge("client")
  <2> DEFINE k == conn["client"]
             f == [to |-> "server", ctl |-> "UA",
                   par |-> IF k.acknowledging = "SNRM" THEN k.par ELSE Default]
  <2>1. /\ wire' = [wire EXCEPT !["server"] = Append(@, f)]
        /\ conn' = [conn EXCEPT !["client"].acknowledging = None]
        /\ event' = [event EXCEPT !["client"] = "Idle"]
    BY <1>6, TwoEnds DEF Acknowledge, Transmit
  <2>2. f.ctl \notin Asks
    BY DEF Asks
  <2>3. /\ conn'["client"].state = conn["client"].state /\ conn'["server"] = conn["server"]
        /\ event'["server"] = event["server"]
    BY <2>1, Parts, TwoEnds DEF Inv, Connections
  <2>4. Settled
    BY <2>3, Known DEF Settled
  <2> HIDE DEF f
  <2> QED
    BY <2>1, <2>2, <2>4, TwoEnds, SendShakes
<1>7. ASSUME NEW e \in Ends, NextFrame(e)
      PROVE  HandshakeInv'
  <2> DEFINE f == InformationFrame(e)
  <2>1. /\ wire' = [wire EXCEPT ![Peer(e)] = Append(@, f)] /\ event' = event
        /\ conn' = [conn EXCEPT ![e].ns = NextNs(e)]
    BY <1>7 DEF NextFrame, Transmit
  <2>2. f.ctl = "I"
    BY DEF InformationFrame, Field
  <2>3. /\ conn'["client"].state = conn["client"].state
        /\ conn'["server"].acknowledging = conn["server"].acknowledging
    BY <2>1, Parts, TwoEnds DEF Inv, Connections
  <2>4. Settled
    BY <2>1, <2>3, Known DEF Settled
  <2> HIDE DEF f
  <2>5. f.ctl \notin (IF Peer(e) = "server" THEN Asks ELSE Answers)
    BY <2>2 DEF Asks, Answers
  <2> QED
    BY <2>1, <2>2, <2>4, <2>5, TwoEnds, SendShakes
<1> QED
  BY <1>1, <1>2, <1>3, <1>4, <1>5, <1>6, <1>7

\* What Connection::handle makes of a Connection.  Only a UA opens the client's link, with
\* the limits it names, and only an SNRM or a DISC gives the server something to acknowledge.
LEMMA HandledShape ==
  ASSUME Inv, NEW e \in Ends, NEW f \in Letters
  PROVE  LET h == Handled(e, f)
         IN  /\ \/ h.conn.state \in {conn[e].state, "Disconnected"} /\ h.conn.par = conn[e].par
                \/ /\ f.ctl = "UA" /\ conn[e].state = "Connecting" /\ h.conn.state = "Connected"
                   /\ h.conn.par.tx <= f.par.rx
                \/ e = "server"
             /\ \/ h.conn.acknowledging = conn[e].acknowledging
                \/ /\ f.ctl \in Asks /\ h.event = "AcknowledgeRequired"
                   /\ h.conn.acknowledging = f.ctl
             /\ h.event = "Disconnected" => f.ctl \in {"UA", "DM"}
<1> DEFINE c == conn[e]
           r == into[e]
           h == Handled(e, f)
           down == [c EXCEPT !.state = "Disconnected"]
           closed == [c EXCEPT !.state = "Disconnected", !.acknowledging = "DISC"]
<1>1. c \in Connections
  BY DEF Inv
<1>2. h = IF ~ForMe(e, f) THEN Outcome(c, r, "Idle")
        ELSE CASE f.ctl = "SNRM" -> HandleSnrm(e, c, r, f)
               [] f.ctl = "UA" -> HandleUa(e, c, r, f)
               [] f.ctl = "DISC" -> Outcome(closed, r, "AcknowledgeRequired")
               [] f.ctl = "DM" -> Outcome(down, r, "Disconnected")
               [] f.ctl = "I" -> HandleInformation(c, r, f)
               [] f.ctl = "RR" -> Outcome(c, r, "Idle")
  BY DEF Handled
<1> HIDE DEF r
<1>3. \A d, s, ev : /\ Outcome(d, s, ev).conn = d /\ Outcome(d, s, ev).event = ev
  BY DEF Outcome
<1>4. /\ down.state = "Disconnected" /\ down.acknowledging = c.acknowledging /\ down.par = c.par
      /\ closed.state = "Disconnected" /\ closed.acknowledging = "DISC" /\ closed.par = c.par
  BY <1>1 DEF Connections
<1>5. \A p \in Parameters :
        /\ ComeUp(e, c, p).state = "Connected" /\ ComeUp(e, c, p).acknowledging = c.acknowledging
        /\ ComeUp(e, c, p).par.tx <= p.rx
        /\ [ComeUp(e, c, p) EXCEPT !.acknowledging = "SNRM"].acknowledging = "SNRM"
  <2> HIDE DEF c
  <2> TAKE p \in Parameters
  <2> DEFINE d == ComeUp(e, c, p)
  <2>1. d.state = "Connected" /\ d.acknowledging = c.acknowledging /\ d.par.tx <= p.rx
    BY <1>1, ComesUp
  <2>2. [d EXCEPT !.acknowledging = "SNRM"].acknowledging = "SNRM"
    BY <1>1, ComesUp
  <2> QED
    BY <2>1, <2>2
<1>6. CASE ~ForMe(e, f) \/ f.ctl = "RR"
  BY <1>2, <1>3, <1>6
<1>7. CASE ForMe(e, f) /\ f.ctl = "SNRM"
  <2>1. h = HandleSnrm(e, c, r, f)
    BY <1>2, <1>7
  <2>2. f.par \in Parameters
    BY <1>7, Kinds DEF Snrms
  <2>3. CASE e = "server"
    <3>1. /\ h.conn = [ComeUp(e, c, f.par) EXCEPT !.acknowledging = "SNRM"]
          /\ h.event = "AcknowledgeRequired"
      BY <1>3, <2>1, <2>3 DEF HandleSnrm
    <3> QED
      BY <1>5, <1>7, <2>2, <2>3, <3>1 DEF Asks
  <2>4. CASE e # "server"
    BY <1>3, <1>7, <2>1, <2>4 DEF HandleSnrm
  <2> QED
    BY <2>3, <2>4
<1>8. CASE ForMe(e, f) /\ f.ctl = "UA"
  <2>1. h = HandleUa(e, c, r, f)
    BY <1>2, <1>8
  <2>2. CASE c.state = "Connecting"
    <3>1. h.conn = ComeUp(e, c, f.par) /\ h.event = "Connected"
      BY <1>3, <2>1, <2>2 DEF HandleUa
    <3>2. f.par \in Parameters
      BY <1>8, Kinds DEF Uas
    <3> QED
      BY <1>5, <1>8, <2>2, <3>1, <3>2
  <2>3. CASE c.state # "Connecting"
    <3>1. h.conn = down
      BY <1>3, <2>1, <2>3 DEF HandleUa
    <3> HIDE DEF down
    <3> QED
      BY <1>4, <1>8, <3>1
  <2> QED
    BY <2>2, <2>3
<1>9. CASE ForMe(e, f) /\ f.ctl = "DISC"
  <2>1. h.conn = closed /\ h.event = "AcknowledgeRequired"
    BY <1>2, <1>3, <1>9
  <2> HIDE DEF closed
  <2> QED
    BY <1>4, <1>9, <2>1 DEF Asks
<1>10. CASE ForMe(e, f) /\ f.ctl = "DM"
  <2>1. h.conn = down
    BY <1>2, <1>3, <1>10
  <2> HIDE DEF down
  <2> QED
    BY <1>4, <1>10, <2>1
<1>11. CASE ForMe(e, f) /\ f.ctl = "I"
  <2>1. h = HandleInformation(c, r, f)
    BY <1>2, <1>11
  <2> DEFINE d == [c EXCEPT !.nr = (@ + 1) % Mod]
  <2>2. d.state = c.state /\ d.acknowledging = c.acknowledging /\ d.par = c.par
    BY <1>1 DEF Connections
  <2>3. (h.conn = c \/ h.conn = d) /\ h.event # "Disconnected"
    BY <1>3, <2>1 DEF HandleInformation
  <2> HIDE DEF d
  <2> QED
    BY <1>11, <2>2, <2>3
<1> QED
  BY <1>6, <1>7, <1>8, <1>9, <1>10, <1>11, Kinds

\* A frame that is taken.
LEMMA HandleShakes ==
  ASSUME Inv, HandshakeInv, NEW e \in Ends, Handle(e)
  PROVE  HandshakeInv'
<1> DEFINE f == Head(wire[e])
           h == Handled(e, f)
<1>1. /\ wire[e] # <<>> /\ event[e] = "Idle" /\ wire' = [wire EXCEPT ![e] = Tail(@)]
      /\ conn' = [conn EXCEPT ![e] = h.conn]
      /\ event' = [event EXCEPT ![e] = Told(h.event)]
  BY DEF Handle, Listening, Told
<1>2. f \in Letters
  BY <1>1, Parts
<1>3. /\ \/ h.conn.state \in {conn[e].state, "Disconnected"}
         \/ f.ctl = "UA" /\ conn[e].state = "Connecting" /\ h.conn.state = "Connected"
         \/ e = "server"
      /\ \/ h.conn.acknowledging = conn[e].acknowledging
         \/ f.ctl \in Asks /\ h.event = "AcknowledgeRequired"
  BY <1>2, HandledShape
<1> HIDE DEF h, f
<1>4. /\ conn'[e] = h.conn /\ event'[e] = Told(h.event)
      /\ \A d \in Ends : d # e => conn'[d] = conn[d] /\ event'[d] = event[d] /\ wire'[d] = wire[d]
      /\ wire'[e] = Tail(wire[e])
  BY <1>1, Parts DEF Inv
<1>5. CASE e = "client" /\ h.conn.state \in {conn[e].state, "Disconnected"}
  <2>1. Settled
    BY <1>4, <1>5, TwoEnds, Known DEF Settled
  <2> QED
    BY <1>1, <2>1, TakeShakes
<1>6. CASE e = "client" /\ f.ctl = "UA" /\ conn[e].state = "Connecting" /\ h.conn.state = "Connected"
  <2>1. ~Free(wire["client"], Answers)
    <3>1. 1 \in DOMAIN wire["client"] /\ wire["client"][1] = f
      BY <1>1, <1>6, Parts DEF f
    <3> QED
      BY <1>6, <3>1 DEF Free, Answers
  <2>2. conn["server"].acknowledging = None /\ Free(wire["server"], Asks) /\ AtMostOne(wire["client"], Answers)
    BY <1>6, <2>1 DEF HandshakeInv, Handshake
  <2>3. Free(Tail(wire["client"]), Answers)
    BY <1>1, <1>6, <2>2, Parts, WireFacts DEF Answers, f
  <2> QED
    BY <1>4, <1>6, <2>2, <2>3, TwoEnds DEF HandshakeInv, Handshake
<1>7. CASE e = "server" /\ h.conn.acknowledging = conn[e].acknowledging
  <2>1. conn["server"].acknowledging = None
    BY <1>1, <1>7, Known
  <2>2. Settled
    BY <1>4, <1>7, <2>1, TwoEnds DEF Settled
  <2> QED
    BY <1>1, <2>2, TakeShakes
<1>8. CASE e = "server" /\ f.ctl \in Asks /\ h.event = "AcknowledgeRequired"
  <2>1. ~Free(wire["server"], Asks)
    <3>1. 1 \in DOMAIN wire["server"] /\ wire["server"][1] = f
      BY <1>1, <1>8, Parts DEF f
    <3> QED
      BY <1>8, <3>1 DEF Free
  <2>2. /\ conn["client"].state # "Connected"
        /\ conn["client"].state = "Connecting" =>
             /\ Free(wire["client"], Answers) /\ AtMostOne(wire["client"], Answers)
             /\ AtMostOne(wire["server"], Asks)
    BY <2>1 DEF HandshakeInv, Handshake
  <2>3. AtMostOne(wire["server"], Asks) => Free(Tail(wire["server"]), Asks) /\ AtMostOne(Tail(wire["server"]), Asks)
    BY <1>1, <1>8, Parts, WireFacts DEF NoMore, f
  <2> QED
    BY <1>4, <1>8, <2>2, <2>3, TwoEnds DEF HandshakeInv, Handshake, Told
<1> QED
  BY <1>3, <1>5, <1>6, <1>7, <1>8, TwoEnds

\* The steps of the polled station, and a loss.
LEMMA LineShakes ==
  ASSUME Inv, HandshakeInv, PolledSend \/ PolledRefuses \/ \E e \in Ends : Lose(e)
  PROVE  HandshakeInv'
<1>1. CASE PolledSend
  <2> DEFINE f == Field("server", ResumeAt, Head(wire["server"]).nr)
             n == IF ResumeAt < out["server"].sent THEN conn["server"].ns ELSE NextNs("server")
  <2>1. /\ wire["server"] # <<>> /\ event' = event
        /\ wire' = [wire EXCEPT !["server"] = Tail(@), !["client"] = Append(@, f)]
        /\ conn' = [conn EXCEPT !["server"].ns = n]
    BY <1>1, TwoEnds DEF PolledSend, AsksForMore, Inv
  <2>2. f.ctl \notin Answers
    BY DEF Field, Answers
  <2> HIDE DEF f, n
  <2>3. conn'["client"] = conn["client"] /\ conn'["server"].acknowledging = conn["server"].acknowledging
    BY <2>1, Parts, TwoEnds DEF Inv, Connections
  <2>4. Settled
    BY <2>1, <2>3, Known DEF Settled
  <2> QED
    BY <2>1, <2>2, <2>4, PolledShakes
<1>2. CASE PolledRefuses
  <2> DEFINE f == [to |-> "client", ctl |-> "DM"]
  <2>1. /\ wire["server"] # <<>> /\ event' = event /\ conn' = conn
        /\ wire' = [wire EXCEPT !["server"] = Tail(@), !["client"] = Append(@, f)]
    BY <1>2 DEF PolledRefuses
  <2>2. f.ctl \notin Answers
    BY DEF Answers
  <2> HIDE DEF f
  <2>3. Settled
    BY <2>1, Known DEF Settled
  <2> QED
    BY <2>1, <2>2, <2>3, PolledShakes
<1>3. ASSUME NEW e \in Ends, Lose(e)
      PROVE  HandshakeInv'
  <2>1. wire[e] # <<>> /\ wire' = [wire EXCEPT ![e] = Tail(@)] /\ event' = event /\ conn' = conn
    BY <1>3 DEF Lose
  <2>2. Settled
    BY <2>1, Known DEF Settled
  <2> QED
    BY <2>1, <2>2, TakeShakes
<1> QED
  BY <1>1, <1>2, <1>3

\* Nothing is under way at first.
LEMMA InitShakes == Init => HandshakeInv
<1> SUFFICES ASSUME Init PROVE HandshakeInv
  OBVIOUS
<1>1. conn["client"] = NewConnection /\ conn["server"] = NewConnection
  BY TwoEnds DEF Init
<1>2. conn["client"].state = "Disconnected" /\ conn["server"].acknowledging = None
  BY <1>1 DEF NewConnection
<1> QED
  BY <1>2 DEF HandshakeInv, Handshake

\* Every step keeps the handshake, when no host is impatient.
LEMMA NextShakes ==
  ASSUME \A m \in Modes : m.patient
  PROVE  Inv /\ HandshakeInv /\ [Next]_vars => HandshakeInv'
<1> SUFFICES ASSUME Inv, HandshakeInv, [Next]_vars PROVE HandshakeInv'
  OBVIOUS
<1>1. CASE Next
  <2>1. ASSUME NEW e \in Ends, Handle(e) \/ NextFrame(e) \/ Acknowledge(e) \/ Lose(e)
        PROVE  HandshakeInv'
    <3>1. CASE Acknowledge(e)
      BY <3>1, TwoEnds, AcknowledgeShakes, SendersShake
    <3>2. CASE Handle(e) \/ NextFrame(e) \/ Lose(e)
      BY <3>2, HandleShakes, SendersShake, LineShakes
    <3> QED
      BY <2>1, <3>1, <3>2
  <2>2. CASE Connect
    BY <2>2, ConnectShakes
  <2>3. CASE Request \/ Respond \/ TakeResponse \/ GiveUp
    BY <2>3, HostShakes
  <2>4. CASE Poll \/ ServerGivesUp \/ Disconnect \/ Resend \/ Neighbour
    BY <2>4, SendersShake
  <2>5. CASE PolledSend \/ PolledRefuses
    BY <2>5, LineShakes
  <2> QED
    BY <1>1, <2>1, <2>2, <2>3, <2>4, <2>5 DEF Next
<1>2. CASE UNCHANGED vars
  BY <1>2, HostShakes
<1> QED
  BY <1>1, <1>2

\* A step that takes down an open link of the client and leaves its host to be told.
LEMMA DownStep ==
  ASSUME Inv, HandshakeInv, Next, conn["client"].state = "Connected",
         conn'["client"].state = "Disconnected", event'["client"] = "Disconnected"
  PROVE  Head(wire["client"]).ctl = "DM"
<1> DEFINE f == Head(wire["client"])
           h == Handled("client", f)
<1>1. Handle("client")
  <2>1. CASE \E e \in Ends : Handle(e)
    <3>1. PICK e \in Ends : Handle(e)
      BY <2>1
    <3>2. CASE e = "server"
      <4>1. conn'["client"] = conn["client"]
        BY <3>1, <3>2, TwoEnds DEF Handle, Inv
      <4> QED
        BY <4>1
    <3> QED
      BY <3>1, <3>2, TwoEnds
  <2>2. CASE Connect \/ Disconnect
    <3>1. conn'["client"].state \in {"Connecting", "Disconnecting"}
      BY <2>2, Parts, TwoEnds DEF Connect, Disconnect, Inv, Connections
    <3> QED
      BY <3>1
  <2>3. CASE GiveUp
    <3>1. event'["client"] = "Idle"
      BY <2>3, TwoEnds DEF GiveUp, Inv
    <3> QED
      BY <3>1
  <2>4. CASE \E e \in Ends : NextFrame(e) \/ Acknowledge(e) \/ Lose(e)
    <3>1. PICK e \in Ends : NextFrame(e) \/ Acknowledge(e) \/ Lose(e)
      BY <2>4
    <3>2. \/ conn' = conn
          \/ conn' = [conn EXCEPT ![e].ns = NextNs(e)]
          \/ conn' = [conn EXCEPT ![e].acknowledging = None]
      BY <3>1 DEF NextFrame, Acknowledge, Lose
    <3>3. conn'["client"].state = conn["client"].state
      <4>1. CASE conn' = [conn EXCEPT ![e].ns = NextNs(e)]
        BY <4>1, Parts, TwoEnds DEF Inv, Connections
      <4>2. CASE conn' = [conn EXCEPT ![e].acknowledging = None]
        BY <4>2, Parts, TwoEnds DEF Inv, Connections
      <4> QED
        BY <3>2, <4>1, <4>2
    <3> QED
      BY <3>3
  <2>5. CASE Request \/ Respond \/ TakeResponse \/ Poll \/ ServerGivesUp \/ PolledSend \/ PolledRefuses
             \/ Resend \/ Neighbour
    <3>1. conn'["client"] = conn["client"]
      <4>1. CASE ServerGivesUp
        <5>1. \/ conn' = [conn EXCEPT !["server"] = ResetConnection(@)]
              \/ conn' = [conn EXCEPT !["server"].state = "Disconnecting"]
          BY <4>1 DEF ServerGivesUp
        <5> QED
          BY <5>1, TwoEnds DEF Inv
      <4>2. CASE PolledSend
        <5> DEFINE n == IF ResumeAt < out["server"].sent THEN conn["server"].ns ELSE NextNs("server")
        <5>1. conn' = [conn EXCEPT !["server"].ns = n]
          BY <4>2 DEF PolledSend
        <5> HIDE DEF n
        <5> QED
          BY <5>1, TwoEnds DEF Inv
      <4>3. CASE Request \/ Respond \/ TakeResponse \/ Poll \/ PolledRefuses \/ Resend \/ Neighbour
        BY <4>3 DEF Request, Respond, TakeResponse, Poll, PolledRefuses, Resend, Neighbour
      <4> QED
        BY <2>5, <4>1, <4>2, <4>3
    <3> QED
      BY <3>1
  <2> QED
    BY <2>1, <2>2, <2>3, <2>4, <2>5 DEF Next
<1>2. /\ wire["client"] # <<>> /\ event' = [event EXCEPT !["client"] = Told(h.event)]
  BY <1>1 DEF Handle, Told
<1>3. f \in Letters
  BY <1>2, Parts
<1>4. h.event = "Disconnected"
  <2>1. Told(h.event) = "Disconnected"
    BY <1>2, TwoEnds DEF Inv
  <2> QED
    BY <2>1 DEF Told
<1>5. f.ctl \in {"UA", "DM"}
  BY <1>3, <1>4, TwoEnds, HandledShape
<1>6. f.ctl # "UA"
  <2>1. Free(wire["client"], Answers)
    BY DEF HandshakeInv, Handshake
  <2>2. 1 \in DOMAIN wire["client"] /\ wire["client"][1] = f
    BY <1>2, Parts
  <2> QED
    BY <2>1, <2>2 DEF Free, Answers
<1> QED
  BY <1>5, <1>6

\* With hosts that wait for a round trip, the client's link goes down under its host only
\* when the server has closed it or refuses frames: no UA that handle takes is left over
\* from an earlier SNRM, whatever is lost and whenever the hosts start over.
THEOREM LinkStaysUp ==
  ASSUME \A m \in Modes : m.patient
  PROVE  Spec => DownOnlyWhenAsked
<1>1. Init => Inv /\ HandshakeInv
  BY InitInv, InitShakes
<1>2. Inv /\ HandshakeInv /\ [Next]_vars => (Inv /\ HandshakeInv)'
  BY NextInv, NextShakes
<1>3. Inv /\ HandshakeInv /\ [Next]_vars =>
        [conn["client"].state = "Connected" /\ conn'["client"].state = "Disconnected"
           => event'["client"] # "Disconnected" \/ Head(wire["client"]).ctl = "DM"]_vars
  BY DownStep
<1> QED
  BY <1>1, <1>2, <1>3, PTL DEF Spec, DownOnlyWhenAsked

-----------------------------------------------------------------------------
(***************************************************************************)
(* The lengths of the fields.                                              *)
(*                                                                         *)
(* A UA to a DISC carries no parameters, which decodes as the defaults; a  *)
(* client that opens the link again while it is under way is brought up by *)
(* it.  So fields fit when the hosts wait for a round trip, or when the    *)
(* server accepts fields of the default length.                            *)
(***************************************************************************)

\* A client that comes up with these limits sends no more than the server accepts.
Allows(p) == p.rx <= Proposed["server"].rx

Short(f) == f.ctl = "I" /\ f.to = "server" => Len(f.info) <= Proposed["server"].rx

Careful == (\A m \in Modes : m.patient) \/ Allows(Default)

\* What the client sends is short, the last frame it may send again included; while it
\* opens the link, the UAs under way allow no more, and the server has no DISC to answer.
FitInv ==
  /\ conn["client"].state = "Connected" => conn["client"].par.tx <= Proposed["server"].rx
  /\ last.ctl = "I" => Len(last.info) <= Proposed["server"].rx
  /\ \A f \in Frames("server") : Short(f)
  /\ conn["client"].state = "Connecting" \/ Allows(Default) =>
       \A f \in Frames("client") : f.ctl = "UA" => Allows(f.par)
  /\ conn["client"].state = "Connecting" /\ ~Allows(Default) =>
       /\ conn["server"].acknowledging # "DISC"
       /\ \A f \in Frames("server") : f.ctl # "DISC"

\* The frames of a wire to which one is added, or from which one is taken.
LEMMA FrameSets ==
  ASSUME Inv, NEW e \in Ends
  PROVE  /\ \A f : wire' = [wire EXCEPT ![e] = Append(@, f)] =>
                     /\ Frames(e)' \subseteq Frames(e) \union {f}
                     /\ \A d \in Ends : d # e => Frames(d)' = Frames(d)
         /\ wire[e] # <<>> /\ wire' = [wire EXCEPT ![e] = Tail(@)] =>
              /\ Frames(e)' \subseteq Frames(e)
              /\ \A d \in Ends : d # e => Frames(d)' = Frames(d)
         /\ wire[e] # <<>> => Head(wire[e]) \in Frames(e)
<1>1. wire \in [Ends -> Seq(Letters)]
  BY Parts
<1>2. ASSUME NEW f, wire' = [wire EXCEPT ![e] = Append(@, f)]
      PROVE  /\ Frames(e)' \subseteq Frames(e) \union {f}
             /\ \A d \in Ends : d # e => Frames(d)' = Frames(d)
  <2>1. wire'[e] = Append(wire[e], f) /\ \A d \in Ends : d # e => wire'[d] = wire[d]
    BY <1>1, <1>2
  <2>2. /\ DOMAIN Append(wire[e], f) = 1 .. Len(wire[e]) + 1 /\ Append(wire[e], f)[Len(wire[e]) + 1] = f
        /\ \A i \in 1 .. Len(wire[e]) : Append(wire[e], f)[i] = wire[e][i]
        /\ DOMAIN wire[e] = 1 .. Len(wire[e]) /\ Len(wire[e]) \in Nat
    BY <1>1
  <2> QED
    BY <2>1, <2>2 DEF Frames
<1>3. ASSUME wire[e] # <<>>, wire' = [wire EXCEPT ![e] = Tail(@)]
      PROVE  /\ Frames(e)' \subseteq Frames(e)
             /\ \A d \in Ends : d # e => Frames(d)' = Frames(d)
  <2>1. wire'[e] = Tail(wire[e]) /\ \A d \in Ends : d # e => wire'[d] = wire[d]
    BY <1>1, <1>3
  <2>2. /\ Len(wire[e]) \in Nat \ {0} /\ DOMAIN wire[e] = 1 .. Len(wire[e])
        /\ DOMAIN Tail(wire[e]) = 1 .. Len(wire[e]) - 1
        /\ \A i \in 1 .. Len(wire[e]) - 1 : Tail(wire[e])[i] = wire[e][i + 1]
    BY <1>1, <1>3
  <2>3. \A i \in DOMAIN Tail(wire[e]) : i + 1 \in DOMAIN wire[e]
    BY <2>2
  <2> QED
    BY <2>1, <2>2, <2>3 DEF Frames
<1>4. ASSUME wire[e] # <<>>
      PROVE  Head(wire[e]) \in Frames(e)
  <2>1. 1 \in DOMAIN wire[e] /\ Head(wire[e]) = wire[e][1]
    BY <1>1, <1>4
  <2> QED
    BY <2>1 DEF Frames
<1> QED
  BY <1>2, <1>3, <1>4

\* A step that neither opens the client's link nor gives the server a DISC to answer.
LEMMA FitKeeps ==
  ASSUME FitInv,
         conn'["client"].state \in {conn["client"].state, "Disconnected", "Disconnecting"},
         conn'["client"].par = conn["client"].par \/ conn'["client"].state # "Connected",
         conn'["server"].acknowledging # "DISC" \/ conn'["server"].acknowledging = conn["server"].acknowledging,
         last' = last \/ (last'.ctl = "I" => Len(last'.info) <= Proposed["server"].rx),
         \A f \in Frames("server")' : f \in Frames("server") \/ (Short(f) /\ f.ctl # "DISC"),
         \A f \in Frames("client")' : f \in Frames("client") \/ f.ctl # "UA"
  PROVE  FitInv'
<1>1. conn'["client"].state = "Connected" => conn'["client"].par.tx <= Proposed["server"].rx
  BY DEF FitInv
<1>2. last'.ctl = "I" => Len(last'.info) <= Proposed["server"].rx
  BY DEF FitInv
<1>3. \A f \in Frames("server")' : Short(f)
  BY DEF FitInv
<1>4. conn'["client"].state = "Connecting" => conn["client"].state = "Connecting"
  OBVIOUS
<1>5. conn'["client"].state = "Connecting" \/ Allows(Default) =>
        \A f \in Frames("client")' : f.ctl = "UA" => Allows(f.par)
  BY <1>4 DEF FitInv
<1>6. conn'["client"].state = "Connecting" /\ ~Allows(Default) =>
        /\ conn'["server"].acknowledging # "DISC"
        /\ \A f \in Frames("server")' : f.ctl # "DISC"
  BY <1>4 DEF FitInv
<1> QED
  BY <1>1, <1>2, <1>3, <1>5, <1>6 DEF FitInv, Allows, Short

LEMMA InitFits == Init => FitInv
<1> SUFFICES ASSUME Init
             PROVE  FitInv
  OBVIOUS
<1>1. /\ conn["client"].state = "Disconnected" /\ last.ctl = None
  BY TwoEnds DEF Init, NewConnection, NoFrame
<1>2. Frames("client") = {} /\ Frames("server") = {}
  BY TwoEnds DEF Init, Frames
<1> QED
  BY <1>1, <1>2 DEF FitInv, None

\* Connection::connect: when its host has waited for a round trip nothing is under way.
LEMMA ConnectFits ==
  ASSUME Careful, (\A m \in Modes : m.patient) => HandshakeInv, Inv, FitInv, Connect
  PROVE  FitInv'
<1> DEFINE f == [to |-> "server", ctl |-> "SNRM", par |-> Proposed["client"]]
<1>1. /\ wire' = [wire EXCEPT !["server"] = Append(@, f)] /\ last' = last
      /\ conn' = [conn EXCEPT !["client"].state = "Connecting"] /\ TimedOut
  BY TwoEnds DEF Connect, Transmit
<1>2. f.ctl = "SNRM"
  OBVIOUS
<1> HIDE DEF f
<1>3. /\ Frames("server")' \subseteq Frames("server") \union {f}
      /\ Frames("client")' = Frames("client")
  BY <1>1, FrameSets, TwoEnds
<1>4. conn'["client"].state = "Connecting" /\ conn'["server"] = conn["server"]
  BY <1>1, Parts, TwoEnds DEF Inv, Connections
<1>5. \A g \in Frames("server")' : Short(g)
  BY <1>2, <1>3 DEF FitInv, Short
<1>6. CASE Allows(Default)
  BY <1>1, <1>3, <1>4, <1>5, <1>6 DEF FitInv, Allows, Short
<1>7. CASE ~Allows(Default)
  <2>1. mode.patient /\ HandshakeInv
    BY <1>7 DEF Careful, Inv
  <2>2. wire["client"] = <<>> /\ wire["server"] = <<>> /\ event["server"] = "Idle"
    BY <1>1, <2>1, TwoEnds DEF TimedOut, Quiet
  <2>3. Frames("client") = {} /\ Frames("server") = {}
    BY <2>2 DEF Frames
  <2>4. conn["server"].acknowledging = None
    BY <2>1, <2>2, Known
  <2> QED
    BY <1>1, <1>2, <1>3, <1>4, <1>5, <2>3, <2>4 DEF FitInv, Allows, Short, None
<1> QED
  BY <1>6, <1>7

\* Connection::acknowledge.
LEMMA AcknowledgeKeepsFit ==
  ASSUME Careful, Inv, FitInv, NEW e \in Ends, Acknowledge(e)
  PROVE  FitInv'
<1> DEFINE k == conn[e]
           f == [to |-> Peer(e), ctl |-> "UA",
                 par |-> IF k.acknowledging = "SNRM" THEN k.par ELSE Default]
<1>1. /\ wire' = [wire EXCEPT ![Peer(e)] = Append(@, f)] /\ last' = last
      /\ conn' = [conn EXCEPT ![e].acknowledging = None] /\ conn[e].acknowledging # None
  BY DEF Acknowledge, Transmit
<1>2. f.ctl = "UA" /\ f.par = IF k.acknowledging = "SNRM" THEN k.par ELSE Default
  OBVIOUS
<1> HIDE DEF f
<1>3. /\ Frames(Peer(e))' \subseteq Frames(Peer(e)) \union {f}
      /\ Frames(e)' = Frames(e)
  BY <1>1, FrameSets, TwoEnds
<1>4. /\ conn'["client"].state = conn["client"].state /\ conn'["client"].par = conn["client"].par
      /\ conn'["server"].acknowledging \in {conn["server"].acknowledging, None}
  BY <1>1, Parts, TwoEnds DEF Inv, Connections
<1>5. Short(f) /\ f.ctl # "DISC"
  BY <1>2 DEF Short
<1>6. CASE e = "client"
  BY <1>1, <1>3, <1>4, <1>5, <1>6, TwoEnds, FitKeeps DEF None
<1>7. CASE e = "server"
  <2>1. /\ Frames("client")' \subseteq Frames("client") \union {f}
        /\ Frames("server")' = Frames("server")
    BY <1>3, <1>7, TwoEnds
  <2>2. conn["server"] \in Connections /\ LinkOK("server", conn["server"])
    BY <1>7 DEF Inv, EndOK
  <2>3. k.acknowledging \in {"SNRM", "DISC"}
    BY <1>1, <1>7, <2>2 DEF Connections
  <2>4. CASE k.acknowledging = "SNRM"
    <3>1. Allows(f.par)
      BY <1>2, <1>7, <2>2, <2>4 DEF LinkOK, Allows
    <3> QED
      BY <1>1, <1>4, <2>1, <3>1 DEF FitInv, Allows, Short, None
  <2>5. CASE k.acknowledging = "DISC"
    <3>1. f.par = Default
      BY <1>2, <2>5
    <3>2. conn["client"].state = "Connecting" => Allows(Default)
      BY <1>7, <2>5 DEF FitInv
    <3> QED
      BY <1>1, <1>4, <2>1, <3>1, <3>2 DEF FitInv, Allows, Short, None
  <2> QED
    BY <2>3, <2>4, <2>5
<1> QED
  BY <1>6, <1>7, TwoEnds

\* Connection::next_frame: the client's fields are as long as its limit allows.
LEMMA NextFrameFits ==
  ASSUME Inv, FitInv, NEW e \in Ends, NextFrame(e)
  PROVE  FitInv'
<1> DEFINE f == InformationFrame(e)
<1>1. /\ wire' = [wire EXCEPT ![Peer(e)] = Append(@, f)] /\ last' = IF e = "client" THEN f ELSE last
      /\ conn' = [conn EXCEPT ![e].ns = NextNs(e)] /\ conn[e].state = "Connected"
  BY DEF NextFrame, Transmit, InformationFrame, Field
<1>2. f.ctl = "I" /\ f.to = Peer(e) /\ f.info = SubSeq(out[e].unit, out[e].sent + 1, SegmentEnd(e))
  BY DEF InformationFrame, Field, SegmentEnd
<1>3. f \in Informations /\ Len(f.info) <= conn[e].par.tx
  <2>1. out[e] \in Segmenters /\ conn[e] \in Connections /\ out[e].sent < Len(out[e].unit)
    BY DEF NextFrame, Sending, SegmenterDone, Inv, Segmenters, Text
  <2>2. out[e].sent \in Nat /\ conn[e].ns \in Numbers
    BY <2>1 DEF Segmenters, Connections
  <2> QED
    BY <1>1, <2>1, <2>2, FieldFits DEF InformationFrame
<1>4. Len(f.info) \in Nat
  <2>1. f.info \in Seq(Pieces)
    BY <1>3 DEF Informations, Text
  <2> QED
    BY <2>1
<1> HIDE DEF f
<1>5. /\ Frames(Peer(e))' \subseteq Frames(Peer(e)) \union {f}
      /\ Frames(e)' = Frames(e)
  BY <1>1, FrameSets, TwoEnds
<1>6. /\ conn'["client"].state = conn["client"].state /\ conn'["client"].par = conn["client"].par
      /\ conn'["server"].acknowledging = conn["server"].acknowledging
  BY <1>1, Parts, TwoEnds DEF Inv, Connections
<1>7. CASE e = "client"
  <2>1. Len(f.info) <= Proposed["server"].rx
    <3>1. Len(f.info) \in Nat /\ conn["client"].par.tx \in Nat /\ Proposed["server"].rx \in Nat
      BY <1>4, Bounds, TwoEnds, Parts DEF Connections, Parameters
    <3> QED
      BY <1>1, <1>3, <1>7, <3>1 DEF FitInv
  <2>2. Short(f) /\ f.ctl # "DISC"
    BY <1>2, <2>1 DEF Short
  <2> QED
    BY <1>1, <1>5, <1>6, <1>7, <2>1, <2>2, TwoEnds, FitKeeps
<1>8. CASE e = "server"
  BY <1>1, <1>2, <1>5, <1>6, <1>8, TwoEnds, FitKeeps
<1> QED
  BY <1>7, <1>8, TwoEnds

\* The steps of the hosts that add no frame, and the loss of one.
LEMMA QuietFits ==
  ASSUME Inv, FitInv,
         \/ UNCHANGED vars \/ Request \/ Respond \/ TakeResponse \/ GiveUp
         \/ \E e \in Ends : Lose(e)
  PROVE  FitInv'
<1>1. CASE UNCHANGED vars \/ Request \/ Respond \/ TakeResponse
  <2>1. conn' = conn /\ wire' = wire /\ last' = last
    BY <1>1 DEF vars, Request, Respond, TakeResponse
  <2>2. \A e \in Ends : Frames(e)' = Frames(e)
    BY <2>1 DEF Frames
  <2> QED
    BY <2>1, <2>2, TwoEnds, FitKeeps
<1>2. CASE GiveUp
  <2>1. conn' = [conn EXCEPT !["client"] = NewConnection] /\ wire' = wire /\ last' = last
    BY <1>2 DEF GiveUp, ResetConnection
  <2>2. \A e \in Ends : Frames(e)' = Frames(e)
    BY <2>1 DEF Frames
  <2>3. conn'["client"].state = "Disconnected" /\ conn'["server"] = conn["server"]
    BY <2>1, TwoEnds DEF Inv, NewConnection
  <2> QED
    BY <2>1, <2>2, <2>3, TwoEnds, FitKeeps
<1>3. ASSUME NEW e \in Ends, Lose(e)
      PROVE  FitInv'
  <2>1. wire[e] # <<>> /\ wire' = [wire EXCEPT ![e] = Tail(@)] /\ conn' = conn /\ last' = last
    BY <1>3 DEF Lose
  <2>2. Frames("client")' \subseteq Frames("client") /\ Frames("server")' \subseteq Frames("server")
    BY <2>1, TwoEnds, FrameSets
  <2> QED
    BY <2>1, <2>2, FitKeeps
<1> QED
  BY <1>1, <1>2, <1>3

\* The client's host sends something that carries no new field, or a neighbour anything.
LEMMA ClientFits ==
  ASSUME Inv, FitInv, Disconnect \/ Poll \/ Resend \/ Neighbour
  PROVE  FitInv'
<1>1. CASE Disconnect
  <2> DEFINE f == [to |-> "server", ctl |-> "DISC"]
  <2>1. /\ wire' = [wire EXCEPT !["server"] = Append(@, f)] /\ last' = last
        /\ conn' = [conn EXCEPT !["client"].state = "Disconnecting"]
    BY <1>1, TwoEnds DEF Disconnect, Transmit
  <2>2. Short(f)
    BY DEF Short
  <2> HIDE DEF f
  <2>3. conn'["client"].state = "Disconnecting"
    BY <2>1, Parts, TwoEnds DEF Inv, Connections
  <2>4. Frames("server")' \subseteq Frames("server") \union {f} /\ Frames("client")' = Frames("client")
    BY <2>1, TwoEnds, FrameSets
  <2> QED
    BY <2>1, <2>2, <2>3, <2>4 DEF FitInv, Allows, Short
<1>2. CASE Poll
  <2> DEFINE f == [to |-> "server", ctl |-> "RR", nr |-> conn["client"].nr]
  <2>1. wire' = [wire EXCEPT !["server"] = Append(@, f)] /\ last' = last /\ conn' = conn
    BY <1>2, TwoEnds DEF Poll, Transmit
  <2>2. Short(f) /\ f.ctl # "DISC"
    BY DEF Short
  <2> HIDE DEF f
  <2>3. Frames("server")' \subseteq Frames("server") \union {f} /\ Frames("client")' = Frames("client")
    BY <2>1, TwoEnds, FrameSets
  <2> QED
    BY <2>1, <2>2, <2>3, FitKeeps
<1>3. CASE Resend
  <2>1. wire' = [wire EXCEPT !["server"] = Append(@, last)] /\ last' = last /\ conn' = conn /\ last.ctl = "I"
    BY <1>3, TwoEnds DEF Resend, Transmit
  <2>2. Short(last)
    BY <2>1 DEF FitInv, Short
  <2>3. Frames("server")' \subseteq Frames("server") \union {last} /\ Frames("client")' = Frames("client")
    BY <2>1, TwoEnds, FrameSets
  <2> QED
    BY <2>1, <2>2, <2>3, FitKeeps
<1>4. CASE Neighbour
  <2>1. PICK n \in 0 .. Mod - 1 :
          wire' = [wire EXCEPT !["server"] =
                     Append(@, [to |-> "neighbour", ctl |-> "I", ns |-> n, nr |-> 0, segmented |-> FALSE,
                                pf |-> TRUE, info |-> Unit("neighbour", 1, 1)])]
    BY <1>4 DEF Neighbour
  <2> DEFINE f == [to |-> "neighbour", ctl |-> "I", ns |-> n, nr |-> 0, segmented |-> FALSE,
                   pf |-> TRUE, info |-> Unit("neighbour", 1, 1)]
  <2>2. conn' = conn /\ last' = last
    BY <1>4 DEF Neighbour
  <2>3. Short(f) /\ f.ctl # "DISC"
    BY DEF Short
  <2>4. wire' = [wire EXCEPT !["server"] = Append(@, f)]
    BY <2>1
  <2> HIDE DEF f
  <2>5. Frames("server")' \subseteq Frames("server") \union {f} /\ Frames("client")' = Frames("client")
    BY <2>4, TwoEnds, FrameSets
  <2> QED
    BY <2>2, <2>3, <2>5, FitKeeps
<1> QED
  BY <1>1, <1>2, <1>3, <1>4

\* What the server's host sends of its own accord is no UA.
LEMMA ServerFits ==
  ASSUME Inv, FitInv, ServerGivesUp \/ PolledSend \/ PolledRefuses
  PROVE  FitInv'
<1>1. CASE ServerGivesUp
  <2> DEFINE f == [to |-> "client", ctl |-> "DISC"]
  <2>1. \/ conn' = [conn EXCEPT !["server"] = NewConnection] /\ wire' = wire /\ last' = last
        \/ /\ wire' = [wire EXCEPT !["client"] = Append(@, f)] /\ last' = last
           /\ conn' = [conn EXCEPT !["server"].state = "Disconnecting"]
    BY <1>1, TwoEnds DEF ServerGivesUp, Transmit, ResetConnection
  <2>2. f.ctl = "DISC"
    OBVIOUS
  <2> HIDE DEF f
  <2>3. /\ conn'["client"] = conn["client"] /\ last' = last
        /\ conn'["server"].acknowledging \in {None, conn["server"].acknowledging}
    BY <2>1, Parts, TwoEnds DEF Inv, NewConnection, Connections
  <2>4. Frames("client")' \subseteq Frames("client") \union {f} /\ Frames("server")' = Frames("server")
    <3>1. CASE wire' = wire
      BY <3>1 DEF Frames
    <3>2. CASE wire' = [wire EXCEPT !["client"] = Append(@, f)]
      BY <3>2, TwoEnds, FrameSets
    <3> QED
      BY <2>1, <3>1, <3>2
  <2> QED
    BY <2>2, <2>3, <2>4, FitKeeps DEF None
<1>2. CASE PolledSend \/ PolledRefuses
  <2>1. PICK f : /\ wire["server"] # <<>> /\ f.ctl # "UA"
                 /\ wire' = [wire EXCEPT !["server"] = Tail(@), !["client"] = Append(@, f)]
    <3>1. CASE PolledSend
      <4> DEFINE f == Field("server", ResumeAt, Head(wire["server"]).nr)
      <4>1. f.ctl = "I"
        BY DEF Field
      <4> HIDE DEF f
      <4> QED
        BY <3>1, <4>1 DEF PolledSend, AsksForMore, f
    <3>2. CASE PolledRefuses
      <4> DEFINE f == [to |-> "client", ctl |-> "DM"]
      <4>1. f.ctl = "DM"
        OBVIOUS
      <4>2. wire["server"] # <<>> /\ wire' = [wire EXCEPT !["server"] = Tail(@), !["client"] = Append(@, f)]
        BY <3>2 DEF PolledRefuses
      <4> HIDE DEF f
      <4> QED
        BY <4>1, <4>2
    <3> QED
      BY <1>2, <3>1, <3>2
  <2>2. last' = last /\ conn'["client"] = conn["client"]
    BY <1>2, TwoEnds DEF PolledSend, PolledRefuses, Inv
  <2>3. conn'["server"].acknowledging = conn["server"].acknowledging
    <3>1. CASE conn' = conn
      BY <3>1
    <3>2. CASE PolledSend
      BY <3>2, Parts, TwoEnds DEF PolledSend, Inv, Connections
    <3> QED
      BY <1>2, <3>1, <3>2 DEF PolledRefuses
  <2>4. Frames("client")' \subseteq Frames("client") \union {f} /\ Frames("server")' \subseteq Frames("server")
    <3> DEFINE v == wire["client"]
               w == wire["server"]
    <3>1. /\ v \in Seq(Letters) /\ w \in Seq(Letters) /\ w # <<>>
          /\ wire'["client"] = Append(v, f) /\ wire'["server"] = Tail(w)
      BY <2>1, Parts, TwoEnds
    <3> HIDE DEF v, w
    <3>2. /\ DOMAIN Append(v, f) = 1 .. Len(v) + 1 /\ Append(v, f)[Len(v) + 1] = f
          /\ \A i \in 1 .. Len(v) : Append(v, f)[i] = v[i]
          /\ DOMAIN v = 1 .. Len(v) /\ Len(v) \in Nat
      BY <3>1
    <3>3. /\ Len(w) \in Nat \ {0} /\ DOMAIN w = 1 .. Len(w) /\ DOMAIN Tail(w) = 1 .. Len(w) - 1
          /\ \A i \in 1 .. Len(w) - 1 : Tail(w)[i] = w[i + 1]
      BY <3>1
    <3>4. \A i \in DOMAIN Tail(w) : i + 1 \in DOMAIN w
      BY <3>3
    <3> QED
      BY <3>1, <3>2, <3>3, <3>4 DEF Frames, v, w
  <2> QED
    BY <2>1, <2>2, <2>3, <2>4, FitKeeps
<1> QED
  BY <1>1, <1>2

\* A frame that is taken: a UA opens the client's link with limits the server stands by.
LEMMA HandleFits ==
  ASSUME Inv, FitInv, NEW e \in Ends, Handle(e)
  PROVE  FitInv'
<1> DEFINE f == Head(wire[e])
           h == Handled(e, f)
<1>1. /\ wire[e] # <<>> /\ wire' = [wire EXCEPT ![e] = Tail(@)] /\ last' = last
      /\ conn' = [conn EXCEPT ![e] = h.conn]
  BY DEF Handle
<1>2. f \in Letters /\ f \in Frames(e)
  <2>1. wire[e] \in Seq(Letters)
    BY Parts
  <2>2. f \in Letters
    BY <1>1, <2>1
  <2>3. f \in Frames(e)
    BY <1>1, FrameSets
  <2> QED
    BY <2>2, <2>3
<1>3. /\ \/ h.conn.state \in {conn[e].state, "Disconnected"} /\ h.conn.par = conn[e].par
         \/ /\ f.ctl = "UA" /\ conn[e].state = "Connecting" /\ h.conn.state = "Connected"
            /\ h.conn.par.tx <= f.par.rx
         \/ e = "server"
      /\ \/ h.conn.acknowledging = conn[e].acknowledging
         \/ f.ctl \in Asks /\ h.conn.acknowledging = f.ctl
  BY <1>2, HandledShape
<1>4. conn'[e] \in Connections
  BY HandleKeeps DEF Inv
<1> HIDE DEF f, h
<1>5. Frames("client")' \subseteq Frames("client") /\ Frames("server")' \subseteq Frames("server")
  BY <1>1, TwoEnds, FrameSets
<1>6. conn'[e] = h.conn /\ \A d \in Ends : d # e => conn'[d] = conn[d]
  BY <1>1 DEF Inv
<1>7. CASE e = "server"
  <2>1. h.conn.acknowledging = "DISC" =>
          conn["server"].acknowledging = "DISC" \/ f.ctl = "DISC"
    BY <1>3, <1>7 DEF Asks
  <2>2. /\ conn'["client"] = conn["client"] /\ conn'["server"] = h.conn
        /\ f \in Frames("server")
    BY <1>2, <1>6, <1>7, TwoEnds
  <2> QED
    BY <1>1, <1>5, <2>1, <2>2 DEF FitInv, Allows, Short
<1>8. CASE e = "client"
  <2>1. conn'["client"] = h.conn /\ conn'["server"] = conn["server"] /\ f \in Frames("client")
    BY <1>2, <1>6, <1>8, TwoEnds
  <2>2. CASE h.conn.state \in {conn[e].state, "Disconnected"} /\ h.conn.par = conn[e].par
    BY <1>1, <1>5, <1>8, <2>1, <2>2, FitKeeps
  <2>3. CASE /\ f.ctl = "UA" /\ conn[e].state = "Connecting" /\ h.conn.state = "Connected"
             /\ h.conn.par.tx <= f.par.rx
    <3>1. Allows(f.par)
      BY <1>8, <2>1, <2>3 DEF FitInv
    <3>2. f.par \in Parameters
      BY <1>2, <2>3, Kinds DEF Uas
    <3>3. h.conn.par.tx <= Proposed["server"].rx
      BY <1>4, <1>6, <2>3, <3>1, <3>2, Bounds, TwoEnds DEF Allows, Connections, Parameters
    <3>4. Allows(Default) => \A g \in Frames("client")' : g.ctl = "UA" => Allows(g.par)
      BY <1>5 DEF FitInv
    <3> QED
      BY <1>1, <1>5, <2>1, <2>3, <3>3, <3>4 DEF FitInv, Allows, Short
  <2> QED
    BY <1>3, <1>8, <2>2, <2>3, TwoEnds
<1> QED
  BY <1>7, <1>8, TwoEnds

LEMMA FitStep ==
  ASSUME Careful, (\A m \in Modes : m.patient) => HandshakeInv, Inv, FitInv, [Next]_vars
  PROVE  FitInv'
<1>1. CASE UNCHANGED vars
  BY <1>1, QuietFits
<1>2. ASSUME NEW e \in Ends, Handle(e) \/ NextFrame(e) \/ Acknowledge(e) \/ Lose(e)
      PROVE  FitInv'
  BY <1>2, HandleFits, NextFrameFits, AcknowledgeKeepsFit, QuietFits
<1>3. CASE Connect
  BY <1>3, ConnectFits
<1>4. CASE Request \/ Respond \/ TakeResponse \/ GiveUp
  BY <1>4, QuietFits
<1>5. CASE Poll \/ Disconnect \/ Resend \/ Neighbour
  BY <1>5, ClientFits
<1>6. CASE ServerGivesUp \/ PolledSend \/ PolledRefuses
  BY <1>6, ServerFits
<1> QED
  BY <1>1, <1>2, <1>3, <1>4, <1>5, <1>6 DEF Next

\* Fields to a receiver that is connected are no longer than it said it accepts
\* (Parameters::negotiate at both ends, Segmenter::next_frame), however often the link is
\* closed and opened again and whatever is lost, when the hosts wait for a round trip, or
\* when the server accepts fields of the default length.
THEOREM FieldsFit == ASSUME Careful PROVE Spec => []FitsReceiver
<1> DEFINE Waits == \A m \in Modes : m.patient
           J == Inv /\ (Waits => HandshakeInv) /\ FitInv
<1>1. Init => J
  BY InitInv, InitShakes, InitFits
<1>2. J /\ [Next]_vars => J'
  <2> SUFFICES ASSUME J, [Next]_vars
               PROVE  J'
    OBVIOUS
  <2>1. Inv'
    BY NextInv
  <2>2. Waits => HandshakeInv'
    BY NextShakes
  <2>3. FitInv'
    BY FitStep
  <2> QED
    BY <2>1, <2>2, <2>3
<1>3. J => FitsReceiver
  <2> SUFFICES ASSUME Inv, FitInv, NEW e \in Ends, NEW f \in Frames(e), f.ctl = "I", f.to = e
               PROVE  Len(f.info) <= Proposed[e].rx
    BY DEF FitsReceiver
  <2>1. CASE e = "server"
    BY <2>1 DEF FitInv, Short
  <2>2. CASE e = "client"
    <3>1. wire["client"] \in Seq(Fitting("client"))
      BY TwoEnds DEF Inv, Wires
    <3>2. f \in Fitting("client")
      BY <2>2, <3>1 DEF Frames
    <3> QED
      BY <2>2, <3>2 DEF Fitting, Fit
  <2> QED
    BY <2>1, <2>2, TwoEnds
<1> QED
  BY <1>1, <1>2, <1>3, PTL DEF Spec

-----------------------------------------------------------------------------
(***************************************************************************)
(* Units and their numbers, between hosts that wait for a round trip.      *)
(***************************************************************************)

\* How many pieces a field of e's holds when both ends have negotiated.
Limit(e) == Smaller(Proposed[e].tx, Proposed[Peer(e)].rx)

\* A line that loses has to have a number for every segment of a unit.
Countable ==
  \A m \in Modes : m.lossy => \A n \in Sizes : \A e \in Ends : n <= Mod * Limit(e)

\* Where segment x of a unit begins that is cut into fields of t pieces.
Place(t, x) == x * t

\* The end is connected, and its host has not been told otherwise.
Up(e) == conn[e].state = "Connected" /\ event[e] \notin {"Err", "Disconnected"}

\* A field for d; a frame for the server that it counts or answers.
Mine(f, d) == f.ctl = "I" /\ f.to = d
Talk(f) == f.ctl = "RR" \/ Mine(f, "server")

\* Segment x of unit u, when the first is numbered b.
IsSegment(f, u, t, b, x) ==
  /\ f.ns = (b + x) % Mod
  /\ Place(t, x) < Len(u)
  /\ f.segmented <=> Place(t, x + 1) < Len(u)
  /\ f.info = SubSeq(u, Place(t, x) + 1, Smaller(Place(t, x + 1), Len(u)))

\* All of the unit is there.
Whole(u, t, j) == j > 0 /\ Place(t, j) >= Len(u)

\* A reassembler that takes whatever comes for the start of a unit.
Clean(r) == r.complete \/ (r.data = <<>> /\ r.expect = Mod)

\* Units: every piece is in its place.
Ordered == {u \in Text : \A k \in 1 .. Len(u) : u[k].at = k}

\* The first i segments have been sent, the first j received.
Gone(c, o, u, t, b, i) ==
  /\ c.ns = (b + i) % Mod /\ o.unit = u /\ o.sent = Smaller(Place(t, i), Len(u))
  /\ i > 0 => Place(t, i - 1) < Len(u)

Come(c, r, u, t, b, j) ==
  /\ c.nr = (b + j) % Mod
  /\ j = 0 => Clean(r)
  /\ Whole(u, t, j) => r.complete /\ r.data = u
  /\ j > 0 /\ ~Whole(u, t, j) =>
       ~r.complete /\ r.data = SubSeq(u, 1, Place(t, j)) /\ r.expect = (b + j) % Mod

\* The wire w to d holds some of the segments j to i - 1, in order, and none twice; all
\* of them on a line that does not lose.
Between(lossy, w, d, u, t, b, i, j) ==
  /\ \A p \in DOMAIN w : Mine(w[p], d) => \E x \in j .. i - 1 : IsSegment(w[p], u, t, b, x)
  /\ \A p, q \in DOMAIN w : \A x, y \in j .. i - 1 :
       p < q /\ Mine(w[p], d) /\ Mine(w[q], d) /\ IsSegment(w[p], u, t, b, x)
         /\ IsSegment(w[q], u, t, b, y) => x < y
  /\ ~lossy => \A x \in j .. i - 1 : \E p \in DOMAIN w :
                 Mine(w[p], d) /\ IsSegment(w[p], u, t, b, x)

\* The unit on its way from e to d.
Flow(e, d, u, b, i, j) ==
  /\ j <= i /\ Gone(conn[e], out[e], u, Limit(e), b, i)
  /\ Come(conn[d], into[d], u, Limit(e), b, j)
  /\ Between(mode.lossy, wire[d], d, u, Limit(e), b, i, j)

\* Every request handed over was before number n.
Earlier(n) == \A k \in DOMAIN handed : handed[k] < n

\* Nothing is on its way from the server.
Silent ==
  /\ SegmenterDone("server") /\ conn["server"].ns = conn["client"].nr /\ Clean(into["client"])
  /\ wire["client"] = <<>> /\ event["client"] = "Idle"

\* All the client has said was received, and it waits for no poll.
Heard ==
  /\ conn["client"].ns = conn["server"].nr /\ Clean(into["server"]) /\ event["server"] # "Lsdu"

\* There is a field for d on the wire, a poll, a frame that the server counts or answers;
\* there is one of these at most.
Fields(w, d) == \E p \in DOMAIN w : Mine(w[p], d)
Polls(w) == \E p \in DOMAIN w : w[p].ctl = "RR"
Talks(w) == \E p \in DOMAIN w : Talk(w[p])
Alone(w, p) == \A q \in DOMAIN w : Talk(w[q]) => p = q

\* A poll tells where the client stands, nr, and nothing else is under way.
Polling(w, nr) == \A p \in DOMAIN w : w[p].ctl = "RR" => w[p].nr = nr /\ Alone(w, p)

\* Between two requests.
Rest ==
  /\ Silent /\ Heard /\ out["client"] = Nothing /\ Earlier(asking) /\ ~Talks(wire["server"])

\* A request on its way: n is its size.
Requesting(n, b, i, j) ==
  LET u == Unit("client", asking, n)
  IN  /\ Flow("client", "server", u, b, i, j)
      /\ event["server"] = "Lsdu" <=> Whole(u, Limit("client"), j)
      /\ SegmenterDone("client") =>
           Mine(last, "server") /\ IsSegment(last, u, Limit("client"), b, i - 1)

Asking ==
  /\ Silent /\ asking <= Units /\ Earlier(asking) /\ Polling(wire["server"], conn["client"].nr)
  /\ Polls(wire["server"]) => SegmenterDone("client") /\ event["server"] # "Lsdu"
  /\ \E n \in Sizes, b \in Numbers, i, j \in Nat : Requesting(n, b, i, j)

\* The frame the server accepted last, when it expects number nr.
IsOld(f, nr) == Mine(f, "server") /\ f.ns = (nr + Mod - 1) % Mod

\* Such a frame, or a poll, is all there is.
Waiting(w, sn, cn) ==
  \A p \in DOMAIN w : Talk(w[p]) =>
    (IsOld(w[p], sn) \/ (w[p].ctl = "RR" /\ w[p].nr = cn)) /\ Alone(w, p)

\* A response on its way.
Responding(n, b, i, j) ==
  LET u == Unit("server", asking, n)
  IN  /\ Flow("server", "client", u, b, i, j)
      /\ event["client"] = "Lsdu" <=> Whole(u, Limit("server"), j)
      /\ mode.polled => i <= j + 1
      /\ mode.polled /\ event["client"] = "PollRequired" => i = j /\ j > 0

Answering ==
  /\ Heard /\ asking <= Units /\ Earlier(asking + 1)
  /\ Waiting(wire["server"], conn["server"].nr, conn["client"].nr)
  /\ Talks(wire["server"]) =>
       event["client"] = "Idle" /\ wire["client"] = <<>> /\ ~Sending("server")
  /\ out["client"] # Nothing /\ SegmenterDone("client") /\ IsOld(last, conn["server"].nr)
  /\ event["client"] \in {"Idle", "PollRequired", "Lsdu"}
  /\ \E n \in Sizes, b \in Numbers, i, j \in Nat : Responding(n, b, i, j)

Only(w, K) == \A p \in DOMAIN w : w[p].ctl \in K

AllMine(w, d) == \A p \in DOMAIN w : Mine(w[p], d)

\* Both ends are up.
BothUp ==
  /\ conn["client"].par.tx = Limit("client") /\ conn["server"].par.tx = Limit("server")
  /\ Only(wire["server"], {"I", "RR"}) /\ AllMine(wire["client"], "client")
  /\ Rest \/ Asking \/ Answering

\* The server is down and the client does not know.
ClientOnly ==
  /\ event["client"] = "Idle" /\ (out["client"] # Nothing => asking <= Units)
  /\ Only(wire["client"], {"DM", "DISC"}) /\ Only(wire["server"], {"I", "RR"})

\* The client is down, and the server may not know.
ServerOnly ==
  /\ event["server"] # "Lsdu"
  /\ ~Fields(wire["server"], "server")

\* The server as an SNRM leaves it.
Opened ==
  /\ Up("server") /\ conn["server"].ns = 0 /\ conn["server"].nr = 0
  /\ conn["server"].par.tx = Limit("server") /\ conn["server"].par.rx = Limit("client")
  /\ into["server"] = EmptyInto /\ out["server"] = Nothing /\ handed = <<>>

Snrm(w) == \A p \in DOMAIN w : w[p].ctl = "SNRM" \/ w[p].to = "neighbour"
Ua(w) == \A p \in DOMAIN w : w[p].ctl = "UA" /\ w[p].par.rx = Limit("client")

\* The client opens the link.
Opening ==
  /\ event["client"] = "Idle" /\ event["server"] \in {"Idle", "AcknowledgeRequired"}
  /\ ~Sending("server") /\ conn["server"].acknowledging # "DISC"
  /\ Snrm(wire["server"]) /\ Ua(wire["client"])
  /\ event["server"] = "AcknowledgeRequired" \/ wire["client"] # <<>> => Opened

\* What has been handed over so far.
History ==
  UnitsIntact /\ OncePerLink /\ asking > 0 /\ handed \in Seq(Nat) /\ Earlier(asking + 1)

\* What holds of the client whatever the server is at.
ClientOK ==
  /\ conn["client"].acknowledging # None =>
       event["client"] = "AcknowledgeRequired" /\ conn["client"].state = "Disconnected"
  /\ conn["client"].state # "Connected" => out["client"] = Nothing \/ event["client"] = "Disconnected"
  /\ conn["client"].state # "Connecting" => Free(wire["server"], {"SNRM"})

Situation ==
  /\ ClientOK
  /\ conn["client"].state = "Connecting" => Opening
  /\ Up("client") /\ Up("server") => BothUp
  /\ Up("client") /\ ~Up("server") => ClientOnly
  /\ ~Up("client") /\ Up("server") /\ conn["client"].state # "Connecting" => ServerOnly

UnitsInv == History /\ Situation

-----------------------------------------------------------------------------
\* Where segments begin.
LEMMA Places ==
  ASSUME NEW t \in Nat \ {0}
  PROVE  /\ \A x \in Nat : Place(t, x) \in Nat /\ Place(t, x + 1) = Place(t, x) + t
         /\ Place(t, 0) = 0
         /\ \A x, y \in Nat : x < y => Place(t, x) + t <= Place(t, y)
         /\ Place(t, Mod) = Mod * t
<1>1. ASSUME NEW x \in Nat
      PROVE  x * t \in Nat /\ (x + 1) * t = x * t + t
  OBVIOUS
<1>2. ASSUME NEW x \in Nat, NEW y \in Nat, x < y
      PROVE  x * t + t <= y * t
  <2>1. PICK k \in Nat : y = (x + 1) + k
    BY <1>2
  <2>2. y * t = (x + 1) * t + k * t
    BY <2>1
  <2>3. k * t \in Nat
    OBVIOUS
  <2> QED
    BY <1>1, <2>2, <2>3
<1> QED
  BY <1>1, <1>2 DEF Place

\* What is left of a number.
LEMMA Remainder ==
  ASSUME NEW a \in Nat
  PROVE  a % Mod \in Numbers /\ \E q \in Nat : a = Place(Mod, q) + (a % Mod)
<1>1. Mod \in Nat \ {0}
  BY Bounds
<1>2. a % Mod \in 0 .. Mod - 1 /\ a \div Mod \in Nat
  BY <1>1
<1>3. a = Mod * (a \div Mod) + (a % Mod)
  BY <1>1
<1>4. Mod * (a \div Mod) = (a \div Mod) * Mod
  BY <1>1, <1>2
<1> QED
  BY <1>2, <1>3, <1>4 DEF Numbers, Place

\* There is one way to write a number as a multiple and what is left.
LEMMA OneRemainder ==
  ASSUME NEW q \in Nat, NEW p \in Nat, NEW r \in Numbers, NEW s \in Numbers,
         Place(Mod, q) + r = Place(Mod, p) + s
  PROVE  r = s
<1>1. Mod \in Nat \ {0}
  BY Bounds
<1>2. Place(Mod, q) \in Nat /\ Place(Mod, p) \in Nat
  BY <1>1, Places
<1>3. ~(q < p)
  BY <1>1, <1>2, Places DEF Numbers
<1>4. ~(p < q)
  BY <1>1, <1>2, Places DEF Numbers
<1>5. q = p
  BY <1>3, <1>4
<1> QED
  BY <1>2, <1>5 DEF Numbers

\* Numbers modulo Mod: the next one, the one before, and none twice within Mod.
LEMMA Modular ==
  /\ \A a \in Nat : a % Mod \in Numbers
  /\ \A a \in Nat : ((a % Mod) + 1) % Mod = (a + 1) % Mod
  /\ \A a \in Nat : (((a + 1) % Mod) + Mod - 1) % Mod = a % Mod
  /\ \A a \in Numbers : a # (a + Mod - 1) % Mod /\ a % Mod = a
  /\ \A a, k \in Nat : k < Mod /\ (a + k) % Mod = a % Mod => k = 0
<1>1. Mod \in Nat \ {0} /\ Mod > 2
  BY Bounds
<1>2. \A a \in Nat : a % Mod \in Numbers
  BY <1>1 DEF Numbers
<1>3. ASSUME NEW r \in Numbers
      PROVE  /\ (r + 1) % Mod = (IF r = Mod - 1 THEN 0 ELSE r + 1)
             /\ (r + Mod - 1) % Mod = (IF r = 0 THEN Mod - 1 ELSE r - 1)
             /\ r % Mod = r
  BY <1>1 DEF Numbers
<1>4. ASSUME NEW a \in Nat, NEW k \in Nat, k < Mod
      PROVE  (a + k) % Mod = IF (a % Mod) + k < Mod THEN (a % Mod) + k ELSE (a % Mod) + k - Mod
  <2>1. PICK q \in Nat : a = Place(Mod, q) + (a % Mod)
    BY Remainder
  <2>2. PICK p \in Nat : a + k = Place(Mod, p) + ((a + k) % Mod)
    BY Remainder
  <2>3. a % Mod \in Numbers /\ (a + k) % Mod \in Numbers
    BY <1>2
  <2>4. PICK r \in Nat, s \in Nat : r = a % Mod /\ s = (a + k) % Mod /\ r \in Numbers /\ s \in Numbers
    BY <2>3 DEF Numbers
  <2>5. Place(Mod, q) \in Nat /\ Place(Mod, q + 1) = Place(Mod, q) + Mod /\ Place(Mod, p) \in Nat
    BY <1>1, Places
  <2>6. CASE r + k < Mod
    <3>1. r + k \in Numbers /\ Place(Mod, p) + s = Place(Mod, q) + (r + k)
      BY <1>1, <2>1, <2>2, <2>4, <2>5, <2>6 DEF Numbers
    <3>2. s = r + k
      BY <2>4, <3>1, OneRemainder
    <3> QED
      BY <2>4, <2>6, <3>2
  <2>7. CASE ~(r + k < Mod)
    <3>1. PICK z \in Numbers, m \in Nat : z = r + k - Mod /\ m = q + 1
      BY <1>1, <1>4, <2>4, <2>7 DEF Numbers
    <3>2. Place(Mod, m) + z = Place(Mod, p) + s
      BY <1>1, <2>1, <2>2, <2>4, <2>5, <3>1 DEF Numbers
    <3>3. z = s
      BY <2>4, <3>2, OneRemainder
    <3> QED
      BY <2>4, <2>7, <3>1, <3>3
  <2> QED
    BY <2>6, <2>7
<1>5. ASSUME NEW a \in Nat
      PROVE  (a + 1) % Mod = IF a % Mod = Mod - 1 THEN 0 ELSE (a % Mod) + 1
  <2>1. PICK r \in Numbers : r = a % Mod
    BY <1>2
  <2>2. PICK k \in Nat : k = 1 /\ k < Mod
    BY <1>1
  <2>3. (a + k) % Mod = IF (a % Mod) + k < Mod THEN (a % Mod) + k ELSE (a % Mod) + k - Mod
    BY <1>4, <2>2
  <2> QED
    BY <1>1, <2>1, <2>2, <2>3 DEF Numbers
<1>6. ASSUME NEW a \in Nat
      PROVE  /\ ((a % Mod) + 1) % Mod = (a + 1) % Mod
             /\ (((a + 1) % Mod) + Mod - 1) % Mod = a % Mod
  <2>1. PICK r \in Numbers : r = a % Mod
    BY <1>2
  <2>2. (a + 1) % Mod = IF r = Mod - 1 THEN 0 ELSE r + 1
    BY <1>5, <2>1
  <2>3. PICK s \in Numbers : s = (a + 1) % Mod
    BY <1>2
  <2>4. (s + Mod - 1) % Mod = r
    BY <1>1, <1>3, <2>2, <2>3 DEF Numbers
  <2>5. (r + 1) % Mod = s
    BY <1>3, <2>2, <2>3
  <2> QED
    BY <2>1, <2>3, <2>4, <2>5
<1>7. \A r \in Numbers : r # (r + Mod - 1) % Mod /\ r % Mod = r
  BY <1>1, <1>3 DEF Numbers
<1>8. ASSUME NEW a \in Nat, NEW k \in Nat, k < Mod, (a + k) % Mod = a % Mod
      PROVE  k = 0
  <2>1. PICK r \in Numbers : r = a % Mod
    BY <1>2
  <2>2. r = IF r + k < Mod THEN r + k ELSE r + k - Mod
    BY <1>4, <1>8, <2>1
  <2> QED
    BY <1>1, <1>8, <2>2 DEF Numbers
<1> QED
  BY <1>2, <1>6, <1>7, <1>8


\* The unit a host sends.
LEMMA UnitOrdered ==
  ASSUME NEW e \in Ends, NEW v \in Nat, NEW n \in Nat
  PROVE  /\ Unit(e, v, n) \in Ordered /\ Len(Unit(e, v, n)) = n
         /\ \A k \in 1 .. n : Unit(e, v, n)[k].unit = v
<1>1. Unit(e, v, n) \in Text /\ Len(Unit(e, v, n)) = n
  BY UnitFacts
<1>2. \A k \in 1 .. n : Unit(e, v, n)[k].at = k /\ Unit(e, v, n)[k].unit = v
  BY DEF Unit
<1> QED
  BY <1>1, <1>2 DEF Ordered

\* A frame is one segment of a unit.
LEMMA OneSegment ==
  ASSUME NEW u \in Ordered, NEW t \in Nat \ {0}, NEW b, NEW f, NEW x \in Nat, NEW y \in Nat,
         IsSegment(f, u, t, b, x), IsSegment(f, u, t, b, y)
  PROVE  x = y
<1>1. u \in Seq(Pieces) /\ Len(u) \in Nat /\ \A k \in 1 .. Len(u) : u[k].at = k
  BY DEF Ordered, Text
<1>2. ASSUME NEW z \in Nat, IsSegment(f, u, t, b, z)
      PROVE  f.info[1].at = Place(t, z) + 1
  <2> DEFINE m == Smaller(Place(t, z + 1), Len(u))
  <2>1. PICK a \in Nat : a = Place(t, z) /\ Place(t, z + 1) = a + t /\ a < Len(u)
    BY <1>2, Places DEF IsSegment
  <2>2. a < m /\ m <= Len(u) /\ m \in Nat
    BY <1>1, <2>1 DEF Smaller
  <2>3. f.info = SubSeq(u, a + 1, m)
    BY <1>2, <2>1 DEF IsSegment
  <2> HIDE DEF m
  <2>4. SubSeq(u, a + 1, m)[1] = u[a + 1]
    BY <1>1, <2>2
  <2>5. a + 1 \in 1 .. Len(u)
    BY <1>1, <2>2
  <2>6. u[a + 1].at = a + 1
    BY <1>1, <2>5
  <2> QED
    BY <2>1, <2>3, <2>4, <2>6
<1>3. Place(t, x) \in Nat /\ Place(t, y) \in Nat
  BY Places
<1>4. Place(t, x) + 1 = Place(t, y) + 1
  BY <1>2
<1>5. /\ x < y => Place(t, x) + t <= Place(t, y)
      /\ y < x => Place(t, y) + t <= Place(t, x)
  BY Places
<1>6. ~(x < y) /\ ~(y < x)
  BY <1>3, <1>4, <1>5
<1> QED
  BY <1>6

\* Segmenter::next_frame yields the next segment.
LEMMA NextSegment ==
  ASSUME NEW e \in Ends, NEW u \in Text, NEW t \in Nat \ {0}, NEW b \in Nat, NEW i \in Nat,
         NEW at, NEW ns, out[e].unit = u, conn[e].par.tx = t, at = Place(t, i), at < Len(u),
         ns = (b + i) % Mod
  PROVE  /\ IsSegment(Field(e, at, ns), u, t, b, i) /\ Mine(Field(e, at, ns), Peer(e))
         /\ FieldEnd(e, at) = Smaller(Place(t, i + 1), Len(u))
<1>1. Len(u) \in Nat /\ Place(t, i) \in Nat /\ Place(t, i + 1) = Place(t, i) + t
  BY Places DEF Text
<1>2. FieldEnd(e, at) = Smaller(Place(t, i + 1), Len(u))
  BY <1>1 DEF FieldEnd
<1>3. FieldEnd(e, at) < Len(u) <=> Place(t, i + 1) < Len(u)
  BY <1>1, <1>2 DEF Smaller
<1>4. /\ Field(e, at, ns).ns = ns /\ Field(e, at, ns).to = Peer(e) /\ Field(e, at, ns).ctl = "I"
      /\ Field(e, at, ns).segmented = (FieldEnd(e, at) < Len(u))
      /\ Field(e, at, ns).info = SubSeq(u, at + 1, FieldEnd(e, at))
  BY DEF Field
<1> QED
  BY <1>2, <1>3, <1>4 DEF IsSegment, Mine

\* A segmenter that is not done stands at a segment; when it has sent it, at the next.
LEMMA GoneFacts ==
  ASSUME NEW u \in Text, NEW t \in Nat \ {0}, NEW b \in Nat, NEW i \in Nat, NEW c, NEW o,
         Gone(c, o, u, t, b, i)
  PROVE  /\ o.sent < Len(o.unit) <=> Place(t, i) < Len(u)
         /\ o.sent < Len(o.unit) => o.sent = Place(t, i)
         /\ o.sent \in Nat /\ Len(o.unit) \in Nat /\ c.ns \in Numbers
         /\ \A d, s : /\ Place(t, i) < Len(u) /\ d.ns = (c.ns + 1) % Mod /\ s.unit = o.unit
                      /\ s.sent = Smaller(Place(t, i + 1), Len(u))
                      => Gone(d, s, u, t, b, i + 1)
<1>1. Len(u) \in Nat /\ Place(t, i) \in Nat
  BY Places DEF Text
<1>2. c.ns = (b + i) % Mod /\ o.unit = u /\ o.sent = Smaller(Place(t, i), Len(u))
  BY DEF Gone
<1>3. (c.ns + 1) % Mod = (b + (i + 1)) % Mod /\ c.ns \in Numbers
  <2>1. PICK a \in Nat : a = b + i
    OBVIOUS
  <2>2. ((a % Mod) + 1) % Mod = (a + 1) % Mod /\ a % Mod \in Numbers
    BY Modular
  <2>3. a + 1 = b + (i + 1)
    BY <2>1
  <2> QED
    BY <1>2, <2>1, <2>2, <2>3
<1>4. (i + 1) - 1 = i
  OBVIOUS
<1> QED
  BY <1>1, <1>2, <1>3, <1>4 DEF Smaller, Gone

\* What a wire is after a frame has been sent on it, and after one has been taken off it.
LEMMA LineFacts ==
  ASSUME NEW S, NEW w \in Seq(S)
  PROVE  /\ Len(w) \in Nat /\ DOMAIN w = 1 .. Len(w)
         /\ \A f : /\ DOMAIN Append(w, f) = 1 .. Len(w) + 1 /\ Append(w, f)[Len(w) + 1] = f
                   /\ \A k \in 1 .. Len(w) : Append(w, f)[k] = w[k]
         /\ w # <<>> => /\ Len(w) > 0 /\ DOMAIN Tail(w) = 1 .. Len(w) - 1 /\ Head(w) = w[1]
                        /\ \A k \in 1 .. Len(w) - 1 : Tail(w)[k] = w[k + 1]
<1>1. Len(w) \in Nat /\ DOMAIN w = 1 .. Len(w)
  OBVIOUS
<1>2. ASSUME NEW f
      PROVE  /\ DOMAIN Append(w, f) = 1 .. Len(w) + 1 /\ Append(w, f)[Len(w) + 1] = f
             /\ \A k \in 1 .. Len(w) : Append(w, f)[k] = w[k]
  OBVIOUS
<1>3. ASSUME w # <<>>
      PROVE  /\ Len(w) > 0 /\ DOMAIN Tail(w) = 1 .. Len(w) - 1 /\ Head(w) = w[1]
             /\ \A k \in 1 .. Len(w) - 1 : Tail(w)[k] = w[k + 1]
  BY <1>3
<1> QED
  BY <1>1, <1>2, <1>3

\* The next segment is sent.
LEMMA BetweenSend ==
  ASSUME NEW lossy, NEW S, NEW w \in Seq(S), NEW d, NEW u \in Ordered, NEW t \in Nat \ {0},
         NEW b, NEW i \in Nat, NEW j \in Nat, j <= i, Between(lossy, w, d, u, t, b, i, j),
         NEW f, Mine(f, d), IsSegment(f, u, t, b, i)
  PROVE  Between(lossy, Append(w, f), d, u, t, b, i + 1, j)
<1> DEFINE v == Append(w, f)
           n == Len(w)
<1>1. /\ n \in Nat /\ DOMAIN w = 1 .. n /\ DOMAIN v = 1 .. n + 1 /\ v[n + 1] = f
      /\ \A k \in 1 .. n : v[k] = w[k]
  BY LineFacts
<1> HIDE DEF v, n
<1>2. i \in j .. (i + 1) - 1 /\ \A x \in j .. i - 1 : x \in j .. (i + 1) - 1 /\ x \in Nat
  OBVIOUS
<1>3. \A x \in j .. (i + 1) - 1 : x \in Nat /\ (x \in j .. i - 1 \/ x = i)
  OBVIOUS
<1>4. ASSUME NEW p \in DOMAIN v, Mine(v[p], d)
      PROVE  \E x \in j .. (i + 1) - 1 : IsSegment(v[p], u, t, b, x)
  <2>1. CASE p = n + 1
    BY <1>1, <1>2, <2>1
  <2>2. CASE p \in 1 .. n
    BY <1>1, <1>2, <1>4, <2>2 DEF Between
  <2> QED
    BY <1>1, <2>1, <2>2
<1>5. ASSUME NEW p \in DOMAIN v, NEW q \in DOMAIN v, NEW x \in j .. (i + 1) - 1, NEW y \in j .. (i + 1) - 1,
             p < q, Mine(v[p], d), Mine(v[q], d), IsSegment(v[p], u, t, b, x), IsSegment(v[q], u, t, b, y)
      PROVE  x < y
  <2>1. p \in 1 .. n /\ v[p] = w[p] /\ p \in DOMAIN w
    BY <1>1, <1>5
  <2>2. PICK z \in j .. i - 1 : IsSegment(w[p], u, t, b, z)
    BY <1>5, <2>1 DEF Between
  <2>3. x = z
    BY <1>2, <1>3, <1>5, <2>1, <2>2, OneSegment
  <2>4. CASE q = n + 1
    <3>1. y = i
      BY <1>1, <1>3, <1>5, <2>4, OneSegment
    <3> QED
      BY <2>3, <3>1
  <2>5. CASE q \in 1 .. n
    <3>1. v[q] = w[q] /\ q \in DOMAIN w
      BY <1>1, <2>5
    <3>2. PICK z2 \in j .. i - 1 : IsSegment(w[q], u, t, b, z2)
      BY <1>5, <3>1 DEF Between
    <3>3. y = z2
      BY <1>2, <1>3, <1>5, <3>1, <3>2, OneSegment
    <3> QED
      BY <1>5, <2>1, <2>3, <3>1, <3>3 DEF Between
  <2> QED
    BY <1>1, <2>4, <2>5
<1>6. ASSUME ~lossy, NEW x \in j .. (i + 1) - 1
      PROVE  \E p \in DOMAIN v : Mine(v[p], d) /\ IsSegment(v[p], u, t, b, x)
  <2>1. CASE x = i
    BY <1>1, <2>1
  <2>2. CASE x \in j .. i - 1
    <3>1. PICK p \in DOMAIN w : Mine(w[p], d) /\ IsSegment(w[p], u, t, b, x)
      BY <1>6, <2>2 DEF Between
    <3>2. p \in DOMAIN v /\ v[p] = w[p]
      BY <1>1
    <3> QED
      BY <3>1, <3>2
  <2> QED
    BY <1>3, <2>1, <2>2
<1> QED
  BY <1>4, <1>5, <1>6 DEF Between, v

\* The segment that is expected is taken.
LEMMA BetweenTake ==
  ASSUME NEW lossy, NEW S, NEW w \in Seq(S), w # <<>>, NEW d, NEW u \in Ordered,
         NEW t \in Nat \ {0}, NEW b, NEW i \in Nat, NEW j \in Nat,
         Between(lossy, w, d, u, t, b, i, j), Mine(Head(w), d), IsSegment(Head(w), u, t, b, j)
  PROVE  Between(lossy, Tail(w), d, u, t, b, i, j + 1)
<1> DEFINE v == Tail(w)
           n == Len(w)
<1>1. /\ n \in Nat /\ n > 0 /\ DOMAIN w = 1 .. n /\ DOMAIN v = 1 .. n - 1 /\ Head(w) = w[1]
      /\ \A k \in 1 .. n - 1 : v[k] = w[k + 1]
  BY LineFacts
<1> HIDE DEF v, n
<1>2. \A p \in DOMAIN v : p + 1 \in DOMAIN w /\ v[p] = w[p + 1] /\ 1 < p + 1
  BY <1>1
<1>3. 1 \in DOMAIN w /\ \E x \in j .. i - 1 : IsSegment(w[1], u, t, b, x)
  BY <1>1 DEF Between
<1>4. j \in j .. i - 1
  BY <1>3
<1>5. ASSUME NEW p \in DOMAIN v, Mine(v[p], d)
      PROVE  \E x \in j + 1 .. i - 1 : IsSegment(v[p], u, t, b, x)
  <2>1. PICK x \in j .. i - 1 : IsSegment(w[p + 1], u, t, b, x)
    BY <1>2, <1>5 DEF Between
  <2>2. j < x
    BY <1>1, <1>2, <1>3, <1>4, <1>5, <2>1 DEF Between
  <2> QED
    BY <1>2, <2>1, <2>2
<1>6. ASSUME NEW p \in DOMAIN v, NEW q \in DOMAIN v, NEW x \in j + 1 .. i - 1, NEW y \in j + 1 .. i - 1,
             p < q, Mine(v[p], d), Mine(v[q], d), IsSegment(v[p], u, t, b, x), IsSegment(v[q], u, t, b, y)
      PROVE  x < y
  <2>1. x \in j .. i - 1 /\ y \in j .. i - 1 /\ p + 1 < q + 1
    BY <1>1, <1>6
  <2> QED
    BY <1>2, <1>6, <2>1 DEF Between
<1>7. ASSUME ~lossy, NEW x \in j + 1 .. i - 1
      PROVE  \E p \in DOMAIN v : Mine(v[p], d) /\ IsSegment(v[p], u, t, b, x)
  <2>1. x \in j .. i - 1 /\ x # j /\ x \in Nat
    OBVIOUS
  <2>2. PICK p \in DOMAIN w : Mine(w[p], d) /\ IsSegment(w[p], u, t, b, x)
    BY <1>7, <2>1 DEF Between
  <2>3. p # 1
    BY <1>1, <2>1, <2>2, OneSegment
  <2>4. p - 1 \in DOMAIN v /\ v[p - 1] = w[p]
    BY <1>1, <2>3
  <2> QED
    BY <2>2, <2>4
<1> QED
  BY <1>5, <1>6, <1>7 DEF Between, v

\* A frame that is for nobody, or lost, is taken; or one is sent that is not for d.
LEMMA BetweenKeeps ==
  ASSUME NEW lossy, NEW S, NEW w \in Seq(S), NEW d, NEW u, NEW t, NEW b, NEW i \in Nat, NEW j \in Nat,
         Between(lossy, w, d, u, t, b, i, j)
  PROVE  /\ w # <<>> /\ (lossy \/ ~Mine(Head(w), d)) => Between(lossy, Tail(w), d, u, t, b, i, j)
         /\ \A f : ~Mine(f, d) => Between(lossy, Append(w, f), d, u, t, b, i, j)
<1>1. ASSUME w # <<>>, lossy \/ ~Mine(Head(w), d)
      PROVE  Between(lossy, Tail(w), d, u, t, b, i, j)
  <2> DEFINE v == Tail(w)
             n == Len(w)
  <2>1. /\ n \in Nat /\ n > 0 /\ DOMAIN w = 1 .. n /\ DOMAIN v = 1 .. n - 1 /\ Head(w) = w[1]
        /\ \A k \in 1 .. n - 1 : v[k] = w[k + 1]
    BY <1>1, LineFacts
  <2> HIDE DEF v, n
  <2>2. \A p \in DOMAIN v : p + 1 \in DOMAIN w /\ v[p] = w[p + 1] /\ p \in Nat
    BY <2>1
  <2>3. \A p \in DOMAIN v : Mine(v[p], d) => \E x \in j .. i - 1 : IsSegment(v[p], u, t, b, x)
    BY <2>2 DEF Between
  <2>4. ASSUME NEW p \in DOMAIN v, NEW q \in DOMAIN v, NEW x \in j .. i - 1, NEW y \in j .. i - 1,
               p < q, Mine(v[p], d), Mine(v[q], d), IsSegment(v[p], u, t, b, x), IsSegment(v[q], u, t, b, y)
        PROVE  x < y
    <3>1. p + 1 < q + 1
      BY <2>2, <2>4
    <3> QED
      BY <2>2, <2>4, <3>1 DEF Between
  <2>5. ASSUME ~lossy, NEW x \in j .. i - 1
        PROVE  \E p \in DOMAIN v : Mine(v[p], d) /\ IsSegment(v[p], u, t, b, x)
    <3>1. PICK p \in DOMAIN w : Mine(w[p], d) /\ IsSegment(w[p], u, t, b, x)
      BY <2>5 DEF Between
    <3>2. p # 1
      BY <1>1, <2>1, <2>5, <3>1
    <3>3. p - 1 \in DOMAIN v /\ v[p - 1] = w[p]
      BY <2>1, <3>2
    <3> QED
      BY <3>1, <3>3
  <2> QED
    BY <2>3, <2>4, <2>5 DEF Between, v
<1>2. ASSUME NEW f, ~Mine(f, d)
      PROVE  Between(lossy, Append(w, f), d, u, t, b, i, j)
  <2> DEFINE v == Append(w, f)
             n == Len(w)
  <2>1. /\ n \in Nat /\ DOMAIN w = 1 .. n /\ DOMAIN v = 1 .. n + 1 /\ v[n + 1] = f
        /\ \A k \in 1 .. n : v[k] = w[k]
    BY LineFacts
  <2> HIDE DEF v, n
  <2>2. \A p \in DOMAIN v : Mine(v[p], d) => p \in DOMAIN w /\ v[p] = w[p]
    BY <1>2, <2>1
  <2>3. \A p \in DOMAIN w : p \in DOMAIN v /\ v[p] = w[p]
    BY <2>1
  <2>4. \A p \in DOMAIN v : Mine(v[p], d) => \E x \in j .. i - 1 : IsSegment(v[p], u, t, b, x)
    BY <2>2 DEF Between
  <2>5. ASSUME NEW p \in DOMAIN v, NEW q \in DOMAIN v, NEW x \in j .. i - 1, NEW y \in j .. i - 1,
               p < q, Mine(v[p], d), Mine(v[q], d), IsSegment(v[p], u, t, b, x), IsSegment(v[q], u, t, b, y)
        PROVE  x < y
    BY <2>2, <2>5 DEF Between
  <2>6. ASSUME ~lossy, NEW x \in j .. i - 1
        PROVE  \E p \in DOMAIN v : Mine(v[p], d) /\ IsSegment(v[p], u, t, b, x)
    BY <2>3, <2>6 DEF Between
  <2> QED
    BY <2>4, <2>5, <2>6 DEF Between, v
<1> QED
  BY <1>1, <1>2

\* The first frame on the wire is the segment expected, where nothing is lost.
LEMMA BetweenHead ==
  ASSUME NEW lossy, NEW S, NEW w \in Seq(S), w # <<>>, NEW d, NEW u \in Ordered,
         NEW t \in Nat \ {0}, NEW b, NEW i \in Nat, NEW j \in Nat,
         Between(lossy, w, d, u, t, b, i, j), Mine(Head(w), d)
  PROVE  \E x \in j .. i - 1 : IsSegment(Head(w), u, t, b, x) /\ (~lossy => x = j)
<1>1. /\ DOMAIN w = 1 .. Len(w) /\ Len(w) \in Nat /\ Len(w) > 0 /\ Head(w) = w[1]
  BY LineFacts
<1>2. PICK x \in j .. i - 1 : IsSegment(w[1], u, t, b, x)
  BY <1>1 DEF Between
<1>3. ASSUME ~lossy
      PROVE  x = j
  <2>1. j \in j .. i - 1
    OBVIOUS
  <2>2. PICK p \in DOMAIN w : Mine(w[p], d) /\ IsSegment(w[p], u, t, b, j)
    BY <1>3, <2>1 DEF Between
  <2>3. CASE p = 1
    <3>1. x \in Nat
      OBVIOUS
    <3> QED
      BY <1>2, <2>2, <2>3, <3>1, OneSegment
  <2>4. CASE p # 1
    <3>1. 1 < p /\ 1 \in DOMAIN w
      BY <1>1, <2>4
    <3>2. x < j
      BY <1>1, <1>2, <2>1, <2>2, <3>1 DEF Between
    <3> QED
      BY <3>2
  <2> QED
    BY <2>3, <2>4
<1> QED
  BY <1>1, <1>2, <1>3

\* The front of a unit, and the segment behind it.
LEMMA Glue ==
  ASSUME NEW S, NEW u \in Seq(S), NEW a \in Nat, NEW m \in Nat, a <= m, m <= Len(u)
  PROVE  /\ SubSeq(u, 1, a) \o SubSeq(u, a + 1, m) = SubSeq(u, 1, m)
         /\ SubSeq(u, 1, Len(u)) = u /\ SubSeq(u, 1, 0) = <<>>
<1>1. 1 \in 1 .. Len(u) + 1 /\ a \in 1 - 1 .. Len(u) /\ m \in a .. Len(u)
  OBVIOUS
<1>2. SubSeq(u, 1, a) \o SubSeq(u, a + 1, m) = SubSeq(u, 1, m)
  BY <1>1, ConcatAdjacentSubSeq
<1>3. SubSeq(u, 1, Len(u)) = u /\ SubSeq(u, 1, 0) = <<>>
  BY SubSeqFull
<1> QED
  BY <1>2, <1>3

\* Reassembler::push of the segment that is expected: the buffer is too small, or one more
\* segment is there, and the event says whether it was the last.
LEMMA PushedOn ==
  ASSUME NEW u \in Ordered, NEW t \in Nat \ {0}, NEW b \in Nat, NEW j \in Nat, NEW c, NEW r,
         Come(c, r, u, t, b, j), ~Whole(u, t, j), NEW f, IsSegment(f, u, t, b, j)
  PROVE  LET p == PushInto(r, f)
         IN  \/ p.result = "Err"
             \/ /\ p.result = (IF Whole(u, t, j + 1) THEN "Complete" ELSE "More")
                /\ \A d : d.nr = (b + (j + 1)) % Mod => Come(d, p.into, u, t, b, j + 1)
<1> DEFINE s == IF r.complete THEN EmptyInto ELSE r
           m == Smaller(Place(t, j + 1), Len(u))
           n == [data |-> s.data \o f.info, expect |-> (f.ns + 1) % Mod, complete |-> ~f.segmented]
<1>1. u \in Seq(Pieces) /\ Len(u) \in Nat /\ Mod \in Nat
  BY Bounds DEF Ordered, Text
<1>2. PICK a \in Nat : a = Place(t, j) /\ Place(t, j + 1) = a + t /\ a < Len(u)
  BY Places DEF IsSegment
<1>3. /\ f.ns = (b + j) % Mod /\ f.info = SubSeq(u, a + 1, m)
      /\ f.segmented <=> Place(t, j + 1) < Len(u)
  BY <1>2 DEF IsSegment
<1>4. (f.ns + 1) % Mod = (b + (j + 1)) % Mod
  <2>1. PICK k \in Nat : k = b + j /\ k + 1 = b + (j + 1)
    OBVIOUS
  <2>2. ((k % Mod) + 1) % Mod = (k + 1) % Mod
    BY Modular
  <2> QED
    BY <1>3, <2>1, <2>2
<1>5. s.data = SubSeq(u, 1, a) /\ (s.expect = Mod \/ s.expect = f.ns)
  <2>1. CASE j = 0
    <3>1. s.data = <<>> /\ s.expect = Mod
      BY <2>1 DEF Come, Clean, EmptyInto
    <3>2. a = 0
      BY <1>2, <2>1, Places
    <3>3. SubSeq(u, 1, 0) = <<>>
      BY <1>1, Glue
    <3> QED
      BY <3>1, <3>2, <3>3
  <2>2. CASE j > 0
    BY <1>2, <1>3, <2>2 DEF Come
  <2> QED
    BY <2>1, <2>2
<1>6. m \in Nat /\ a <= m /\ m <= Len(u) /\ (Place(t, j + 1) >= Len(u) => m = Len(u))
      /\ (Place(t, j + 1) < Len(u) => m = Place(t, j + 1))
  BY <1>1, <1>2 DEF Smaller
<1>7. s.data \o f.info = SubSeq(u, 1, m)
  <2> HIDE DEF s, m
  <2>1. SubSeq(u, 1, a) \o SubSeq(u, a + 1, m) = SubSeq(u, 1, m)
    BY <1>1, <1>6, Glue
  <2> QED
    BY <1>3, <1>5, <2>1
<1>8. \/ PushInto(r, f).result = "Err"
      \/ /\ PushInto(r, f).into = n
         /\ PushInto(r, f).result = IF f.segmented THEN "More" ELSE "Complete"
  BY <1>5 DEF PushInto
<1>9. Whole(u, t, j + 1) <=> ~f.segmented
  BY <1>1, <1>2, <1>3 DEF Whole
<1>10. /\ n.data = SubSeq(u, 1, m) /\ n.expect = (b + (j + 1)) % Mod
       /\ n.complete <=> ~f.segmented
  BY <1>4, <1>7
<1> HIDE DEF n, s
<1>11. ASSUME NEW d, d.nr = (b + (j + 1)) % Mod
       PROVE  Come(d, n, u, t, b, j + 1)
  <2>1. CASE Whole(u, t, j + 1)
    <3>1. m = Len(u)
      BY <1>6, <2>1 DEF Whole
    <3>2. n.data = u /\ n.complete
      BY <1>1, <1>9, <1>10, <2>1, <3>1, Glue
    <3> QED
      BY <1>11, <2>1, <3>2 DEF Come
  <2>2. CASE ~Whole(u, t, j + 1)
    <3>1. m = Place(t, j + 1)
      BY <1>3, <1>6, <1>9, <2>2
    <3>2. n.data = SubSeq(u, 1, Place(t, j + 1))
      BY <1>10, <3>1
    <3>3. ~n.complete
      BY <1>9, <1>10, <2>2
    <3>4. j + 1 # 0
      OBVIOUS
    <3> QED
      BY <1>10, <1>11, <2>2, <3>2, <3>3, <3>4 DEF Come
  <2> QED
    BY <2>1, <2>2
<1> QED
  BY <1>8, <1>9, <1>11

\* Connection::handle of a segment that is on its way: an error, a number that happens to
\* be that of the segment before, or the segment that is expected.
LEMMA Accepts ==
  ASSUME NEW u \in Ordered, NEW t \in Nat \ {0}, NEW b \in Nat, NEW j \in Nat, NEW x \in Nat, j <= x,
         NEW c \in Connections, NEW r, c.state = "Connected", Come(c, r, u, t, b, j),
         ~Whole(u, t, j), NEW f, IsSegment(f, u, t, b, x), x = j \/ Len(u) <= Mod * t
  PROVE  LET h == HandleInformation(c, r, f)
         IN  /\ h.conn.state = c.state /\ h.conn.ns = c.ns /\ h.conn.par = c.par
             /\ h.conn.acknowledging = c.acknowledging
             /\ \/ h.event = "Err"
                \/ h.event = "Idle" /\ h.conn = c /\ h.into = r /\ x # j
                \/ /\ x = j /\ Come(h.conn, h.into, u, t, b, j + 1)
                   /\ IF Whole(u, t, j + 1) THEN h.event = "Lsdu" ELSE h.event \in {"Idle", "PollRequired"}
<1> DEFINE h == HandleInformation(c, r, f)
           d == [c EXCEPT !.nr = (@ + 1) % Mod]
           p == PushInto(r, f)
<1>1. c.nr = (b + j) % Mod /\ c.nr \in Numbers /\ f.ns = (b + x) % Mod
  BY DEF Come, IsSegment, Connections
<1>2. /\ d.state = c.state /\ d.ns = c.ns /\ d.par = c.par /\ d.acknowledging = c.acknowledging
      /\ d.nr = (c.nr + 1) % Mod
  BY DEF Connections
<1>3. \A k, s, ev : /\ Outcome(k, s, ev).conn = k /\ Outcome(k, s, ev).into = s
                    /\ Outcome(k, s, ev).event = ev
  BY DEF Outcome
<1> HIDE DEF d
<1>4. h = IF IsRepeat(c, f) THEN Outcome(c, r, "Idle")
          ELSE IF f.ns # c.nr THEN Outcome(c, r, "Err")
          ELSE Outcome(d, p.into,
                       CASE p.result = "Err" -> "Err"
                         [] p.result = "Complete" -> "Lsdu"
                         [] OTHER -> IF f.pf THEN "PollRequired" ELSE "Idle")
  BY DEF HandleInformation, d
<1> HIDE DEF h, p
<1>5. CASE IsRepeat(c, f)
  <2>1. x # j
    BY <1>1, <1>5, Modular DEF IsRepeat
  <2> QED
    BY <1>3, <1>4, <1>5, <2>1 DEF h
<1>6. CASE ~IsRepeat(c, f) /\ f.ns # c.nr
  BY <1>3, <1>4, <1>6 DEF h
<1>7. CASE ~IsRepeat(c, f) /\ f.ns = c.nr
  <2>1. x = j
    <3>1. SUFFICES ASSUME Len(u) <= Mod * t
                   PROVE  x = j
      OBVIOUS
    <3>2. Len(u) \in Nat /\ Mod \in Nat /\ Place(t, x) < Len(u) /\ Place(t, x) \in Nat /\ Place(t, Mod) = Mod * t
      BY Bounds, Places DEF Ordered, Text, IsSegment
    <3>3. Mod < x => Place(t, Mod) + t <= Place(t, x)
      BY <3>2, Places
    <3>4. x < Mod
      BY <3>1, <3>2, <3>3
    <3>5. PICK k \in Nat, a \in Nat : k = x - j /\ a = b + j /\ a + k = b + x /\ k < Mod
      BY <3>2, <3>4
    <3>6. (a + k) % Mod = a % Mod
      BY <1>1, <1>7, <3>5
    <3>7. k = 0
      BY <3>5, <3>6, Modular
    <3> QED
      BY <3>5, <3>7
  <2>2. d.nr = (b + (j + 1)) % Mod
    <3>1. PICK k \in Nat : k = b + j /\ k + 1 = b + (j + 1)
      OBVIOUS
    <3>2. ((k % Mod) + 1) % Mod = (k + 1) % Mod
      BY Modular
    <3> QED
      BY <1>1, <1>2, <3>1, <3>2
  <2>3. \/ p.result = "Err"
        \/ /\ p.result = (IF Whole(u, t, j + 1) THEN "Complete" ELSE "More")
           /\ Come(d, p.into, u, t, b, j + 1)
    BY <2>1, <2>2, PushedOn DEF p
  <2>4. /\ h.conn = d /\ h.into = p.into
        /\ h.event = CASE p.result = "Err" -> "Err"
                       [] p.result = "Complete" -> "Lsdu"
                       [] OTHER -> IF f.pf THEN "PollRequired" ELSE "Idle"
    BY <1>3, <1>4, <1>7
  <2> QED
    BY <1>2, <2>1, <2>3, <2>4 DEF h
<1> QED
  BY <1>5, <1>6, <1>7

-----------------------------------------------------------------------------
(***************************************************************************)
(* What the steps below have in common.                                    *)
(***************************************************************************)

\* A negotiated limit; a line that loses has a number for every segment.
LEMMA LimitFacts ==
  ASSUME NEW e \in Ends
  PROVE  /\ Limit(e) \in Nat \ {0}
         /\ Countable /\ mode \in Modes /\ mode.lossy => \A n \in Sizes : n <= Mod * Limit(e)
<1>1. Proposed[e].tx \in Nat \ {0} /\ Proposed[Peer(e)].rx \in Nat \ {0}
  BY TwoEnds DEF Parameters
<1>2. Limit(e) \in Nat \ {0}
  BY <1>1 DEF Limit, Smaller
<1> QED
  BY <1>2 DEF Countable

\* A patient host that has waited in vain finds nothing under way.
LEMMA Waited ==
  ASSUME \A m \in Modes : m.patient, Inv, TimedOut
  PROVE  /\ wire["client"] = <<>> /\ wire["server"] = <<>>
         /\ event["client"] = "Idle" /\ event["server"] = "Idle"
         /\ ~Sending("client") /\ ~Sending("server")
BY TwoEnds DEF Inv, TimedOut, Quiet

\* Nothing is on an empty wire.
LEMMA EmptyWire ==
  ASSUME NEW w, w = <<>>
  PROVE  /\ ~Talks(w) /\ ~Polls(w) /\ \A d : ~Fields(w, d) /\ AllMine(w, d)
         /\ \A K : Only(w, K) /\ Free(w, K)
         /\ \A nr : Polling(w, nr)
         /\ \A sn, cn : Waiting(w, sn, cn)
         /\ Snrm(w) /\ Ua(w)
<1>1. DOMAIN w = {}
  OBVIOUS
<1> QED
  BY <1>1 DEF Talks, Polls, Fields, AllMine, Only, Free, Polling, Waiting, Snrm, Ua

\* A frame is taken off the wire.
LEMMA TailKeeps ==
  ASSUME NEW S, NEW w \in Seq(S), w # <<>>
  PROVE  /\ Talks(Tail(w)) => Talks(w)
         /\ Polls(Tail(w)) => Polls(w)
         /\ \A d : (Fields(Tail(w), d) => Fields(w, d)) /\ (AllMine(w, d) => AllMine(Tail(w), d))
         /\ \A K : (Only(w, K) => Only(Tail(w), K)) /\ (Free(w, K) => Free(Tail(w), K))
         /\ \A nr : Polling(w, nr) => /\ Polling(Tail(w), nr)
                                      /\ Head(w).ctl = "RR" => ~Talks(Tail(w)) /\ Head(w).nr = nr
         /\ \A sn, cn : Waiting(w, sn, cn) =>
              /\ Waiting(Tail(w), sn, cn)
              /\ Talk(Head(w)) => /\ ~Talks(Tail(w))
                                  /\ IsOld(Head(w), sn) \/ (Head(w).ctl = "RR" /\ Head(w).nr = cn)
         /\ (Snrm(w) => Snrm(Tail(w))) /\ (Ua(w) => Ua(Tail(w)))
<1> DEFINE v == Tail(w)
           n == Len(w)
<1>1. /\ n \in Nat /\ n > 0 /\ DOMAIN w = 1 .. n /\ DOMAIN v = 1 .. n - 1 /\ Head(w) = w[1]
      /\ \A k \in 1 .. n - 1 : v[k] = w[k + 1]
  BY LineFacts
<1> HIDE DEF v, n
<1>2. \A p \in DOMAIN v : p + 1 \in DOMAIN w /\ v[p] = w[p + 1] /\ p \in Nat /\ p + 1 # 1
  BY <1>1
<1>3. 1 \in DOMAIN w /\ Head(w) = w[1]
  BY <1>1
<1>4. /\ Talks(v) => Talks(w)
      /\ Polls(v) => Polls(w)
      /\ \A d : (Fields(v, d) => Fields(w, d)) /\ (AllMine(w, d) => AllMine(v, d))
      /\ \A K : (Only(w, K) => Only(v, K)) /\ (Free(w, K) => Free(v, K))
      /\ (Snrm(w) => Snrm(v)) /\ (Ua(w) => Ua(v))
  BY <1>2 DEF Talks, Polls, Fields, AllMine, Only, Free, Snrm, Ua
<1>5. ASSUME NEW p \in DOMAIN v, Alone(w, p + 1)
      PROVE  Alone(v, p)
  <2>1. ASSUME NEW q \in DOMAIN v, Talk(v[q])
        PROVE  p = q
    <3>1. p + 1 = q + 1
      BY <1>2, <1>5, <2>1 DEF Alone
    <3> QED
      BY <1>2, <3>1
  <2> QED
    BY <2>1 DEF Alone
<1>6. Alone(w, 1) => ~Talks(v)
  BY <1>2 DEF Alone, Talks
<1>7. ASSUME NEW nr, Polling(w, nr)
      PROVE  /\ Polling(v, nr)
             /\ Head(w).ctl = "RR" => ~Talks(v) /\ Head(w).nr = nr
  BY <1>2, <1>3, <1>5, <1>6, <1>7 DEF Polling
<1>8. ASSUME NEW sn, NEW cn, Waiting(w, sn, cn)
      PROVE  /\ Waiting(v, sn, cn)
             /\ Talk(Head(w)) => /\ ~Talks(v)
                                 /\ IsOld(Head(w), sn) \/ (Head(w).ctl = "RR" /\ Head(w).nr = cn)
  <2>1. \A p \in DOMAIN v : Talk(v[p]) =>
          (IsOld(v[p], sn) \/ (v[p].ctl = "RR" /\ v[p].nr = cn)) /\ Alone(v, p)
    BY <1>2, <1>5, <1>8 DEF Waiting
  <2>2. Talk(Head(w)) => /\ Alone(w, 1)
                         /\ IsOld(Head(w), sn) \/ (Head(w).ctl = "RR" /\ Head(w).nr = cn)
    BY <1>3, <1>8 DEF Waiting
  <2> QED
    BY <1>6, <2>1, <2>2 DEF Waiting
<1> QED
  BY <1>4, <1>7, <1>8 DEF v

\* A frame is sent.
LEMMA AppendKeeps ==
  ASSUME NEW S, NEW w \in Seq(S), NEW f
  PROVE  /\ ~Talk(f) => (Talks(Append(w, f)) => Talks(w))
         /\ f.ctl # "RR" => (Polls(Append(w, f)) => Polls(w))
         /\ \A d : /\ ~Mine(f, d) => (Fields(Append(w, f), d) => Fields(w, d))
                   /\ Mine(f, d) /\ AllMine(w, d) => AllMine(Append(w, f), d)
         /\ \A K : /\ Only(w, K) /\ f.ctl \in K => Only(Append(w, f), K)
                   /\ Free(w, K) /\ f.ctl \notin K => Free(Append(w, f), K)
         /\ \A nr : /\ ~Polls(w) /\ f.ctl # "RR" => Polling(Append(w, f), nr)
                    /\ ~Talks(w) /\ f.ctl = "RR" /\ f.nr = nr => Polling(Append(w, f), nr)
                    /\ Polling(w, nr) /\ ~Talk(f) => Polling(Append(w, f), nr)
         /\ \A sn, cn :
              /\ Waiting(w, sn, cn) /\ ~Talk(f) => Waiting(Append(w, f), sn, cn)
              /\ ~Talks(w) /\ (IsOld(f, sn) \/ (f.ctl = "RR" /\ f.nr = cn)) => Waiting(Append(w, f), sn, cn)
         /\ Snrm(w) /\ (f.ctl = "SNRM" \/ f.to = "neighbour") => Snrm(Append(w, f))
         /\ Ua(w) /\ f.ctl = "UA" /\ f.par.rx = Limit("client") => Ua(Append(w, f))
         /\ Append(w, f) # <<>>
<1> DEFINE v == Append(w, f)
           n == Len(w)
<1>1. /\ n \in Nat /\ DOMAIN w = 1 .. n /\ DOMAIN v = 1 .. n + 1 /\ v[n + 1] = f
      /\ \A k \in 1 .. n : v[k] = w[k]
  BY LineFacts
<1>9. v # <<>>
  BY <1>1
<1> HIDE DEF v, n
<1>2. \A p \in DOMAIN v : (p \in DOMAIN w /\ v[p] = w[p]) \/ (p = n + 1 /\ v[p] = f)
  BY <1>1
<1>3. /\ ~Talk(f) => (Talks(v) => Talks(w))
      /\ f.ctl # "RR" => (Polls(v) => Polls(w))
      /\ \A d : /\ ~Mine(f, d) => (Fields(v, d) => Fields(w, d))
                /\ Mine(f, d) /\ AllMine(w, d) => AllMine(v, d)
      /\ \A K : /\ Only(w, K) /\ f.ctl \in K => Only(v, K)
                /\ Free(w, K) /\ f.ctl \notin K => Free(v, K)
      /\ Snrm(w) /\ (f.ctl = "SNRM" \/ f.to = "neighbour") => Snrm(v)
      /\ Ua(w) /\ f.ctl = "UA" /\ f.par.rx = Limit("client") => Ua(v)
  BY <1>2 DEF Talks, Polls, Fields, AllMine, Only, Free, Snrm, Ua
<1>4. \A p \in DOMAIN w : Alone(w, p) /\ ~Talk(f) => Alone(v, p)
  BY <1>2 DEF Alone
<1>5. ~Talks(w) => Alone(v, n + 1)
  BY <1>2 DEF Alone, Talks
<1>6. \A g : g.ctl = "RR" => Talk(g)
  BY DEF Talk
<1>7. ASSUME NEW nr
      PROVE  /\ ~Polls(w) /\ f.ctl # "RR" => Polling(v, nr)
             /\ ~Talks(w) /\ f.ctl = "RR" /\ f.nr = nr => Polling(v, nr)
             /\ Polling(w, nr) /\ ~Talk(f) => Polling(v, nr)
  <2>1. ~Polls(w) /\ f.ctl # "RR" => Polling(v, nr)
    BY <1>2 DEF Polling, Polls
  <2>2. ~Talks(w) /\ f.ctl = "RR" /\ f.nr = nr => Polling(v, nr)
    BY <1>2, <1>5, <1>6 DEF Polling, Talks
  <2>3. Polling(w, nr) /\ ~Talk(f) => Polling(v, nr)
    BY <1>2, <1>4, <1>6 DEF Polling
  <2> QED
    BY <2>1, <2>2, <2>3
<1>8. ASSUME NEW sn, NEW cn
      PROVE  /\ Waiting(w, sn, cn) /\ ~Talk(f) => Waiting(v, sn, cn)
             /\ ~Talks(w) /\ (IsOld(f, sn) \/ (f.ctl = "RR" /\ f.nr = cn)) => Waiting(v, sn, cn)
  <2>1. Waiting(w, sn, cn) /\ ~Talk(f) => Waiting(v, sn, cn)
    BY <1>2, <1>4 DEF Waiting
  <2>2. ~Talks(w) /\ (IsOld(f, sn) \/ (f.ctl = "RR" /\ f.nr = cn)) => Waiting(v, sn, cn)
    BY <1>2, <1>5 DEF Waiting, Talks
  <2> QED
    BY <2>1, <2>2
<1> QED
  BY <1>3, <1>7, <1>8, <1>9 DEF v

\* Nothing is handed over, or the link has been opened anew.
LEMMA HistoryKeeps ==
  ASSUME History, got' = got, asking' = asking, handed' = handed \/ handed' = <<>>
  PROVE  History'
<1>1. UnitsIntact'
  BY DEF History, UnitsIntact
<1>2. CASE handed' = handed
  BY <1>1, <1>2 DEF History, OncePerLink, Earlier
<1>3. CASE handed' = <<>>
  <2>1. DOMAIN handed' = {} /\ handed' \in Seq(Nat)
    BY <1>3
  <2> QED
    BY <1>1, <2>1 DEF History, OncePerLink, Earlier
<1> QED
  BY <1>2, <1>3

\* What an end has.
LEMMA Types ==
  ASSUME Inv, NEW e \in Ends
  PROVE  /\ conn[e] \in Connections /\ into[e] \in Reassemblers /\ event[e] \in Events
         /\ out[e].unit \in Text /\ out[e].sent \in Nat /\ Len(out[e].unit) \in Nat
         /\ out[e].sent <= Len(out[e].unit) /\ wire[e] \in Seq(Letters)
         /\ conn[e].ns \in Numbers /\ conn[e].nr \in Numbers /\ conn[e].par \in Parameters
         /\ event[e] = "Lsdu" => conn[e].state = "Connected"
         /\ mode \in Modes /\ asking \in Nat
<1>1. EndOK(e, conn[e], into[e], out[e], event[e], mode.capacity)
  BY DEF Inv
<1>2. conn[e] \in Connections /\ into[e] \in Reassemblers /\ event[e] \in Events /\ out[e] \in Segmenters
  BY <1>1 DEF EndOK
<1>3. out[e].unit \in Text /\ out[e].sent \in Nat /\ Len(out[e].unit) \in Nat
  BY <1>2 DEF Segmenters, Text
<1>4. conn[e].ns \in Numbers /\ conn[e].nr \in Numbers /\ conn[e].par \in Parameters
  BY <1>2 DEF Connections
<1>5. wire[e] \in Seq(Letters) /\ mode \in Modes /\ asking \in Nat
  BY DEF Inv, Wires
<1> QED
  BY <1>1, <1>2, <1>3, <1>4, <1>5 DEF EndOK

\* Nothing is a segmenter that is done.
LEMMA NothingDone ==
  ASSUME NEW e, out[e] = Nothing
  PROVE  SegmenterDone(e) /\ out[e].unit = <<>> /\ out[e].sent = 0
BY DEF SegmenterDone, Nothing

\* A unit is about to be sent, to an end that expects one.
LEMMA StartFlow ==
  ASSUME NEW S, NEW w \in Seq(S), NEW d, ~Fields(w, d), NEW u \in Text, NEW t \in Nat \ {0},
         NEW b \in Numbers, NEW c, c.ns = b, NEW o, o.unit = u, o.sent = 0,
         NEW k, k.nr = b, NEW r, Clean(r), NEW lossy
  PROVE  /\ Gone(c, o, u, t, b, 0) /\ Come(k, r, u, t, b, 0) /\ Between(lossy, w, d, u, t, b, 0, 0)
         /\ ~Whole(u, t, 0)
<1>1. (b + 0) % Mod = b /\ Place(t, 0) = 0 /\ Len(u) \in Nat
  <2>1. b + 0 = b
    BY Bounds DEF Numbers
  <2>2. b % Mod = b /\ Place(t, 0) = 0
    BY Modular, Places
  <2>3. Len(u) \in Nat
    BY DEF Text
  <2> QED
    BY <2>1, <2>2, <2>3
<1>2. Gone(c, o, u, t, b, 0)
  BY <1>1 DEF Gone, Smaller
<1>3. Come(k, r, u, t, b, 0) /\ ~Whole(u, t, 0)
  BY <1>1 DEF Come, Whole
<1>4. 0 .. 0 - 1 = {} /\ \A p \in DOMAIN w : ~Mine(w[p], d)
  BY DEF Fields
<1> QED
  BY <1>2, <1>3, <1>4 DEF Between

\* Who does not count a frame takes no field from it.
LEMMA NoTalk ==
  ASSUME NEW w, ~Talks(w)
  PROVE  ~Fields(w, "server") /\ ~Polls(w) /\ \A nr : Polling(w, nr)
BY DEF Talks, Talk, Fields, Polls, Polling

\* Connection::segmenter.
LEMMA RequestUnits ==
  ASSUME Inv, Situation, Request
  PROVE  Situation'
<1>1. PICK n \in Sizes :
        out' = [out EXCEPT !["client"] = [unit |-> Unit("client", asking, n), sent |-> 0]]
  BY DEF Request
<1> DEFINE o == [unit |-> Unit("client", asking, n), sent |-> 0]
<1>2. /\ asking <= Units /\ conn["client"].state = "Connected" /\ event["client"] = "Idle"
      /\ out["client"] = Nothing
      /\ UNCHANGED <<mode, conn, into, event, wire, last, asking, got, handed, bus>>
  BY DEF Request
<1>3. o.unit = Unit("client", asking, n) /\ o.sent = 0
  OBVIOUS
<1> HIDE DEF o
<1>4. out'["client"] = o /\ out'["server"] = out["server"]
  BY <1>1, TwoEnds DEF Inv, o
<1>5. n \in Nat \ {0} /\ asking \in Nat
  BY Bounds DEF Inv
<1>6. Unit("client", asking, n) \in Text /\ Len(Unit("client", asking, n)) = n
  BY <1>5, TwoEnds, UnitFacts
<1>7. ClientOK'
  BY <1>2 DEF Situation, ClientOK
<1>8. Up("client") /\ Up("client")' /\ (Up("server")' <=> Up("server"))
  BY <1>2 DEF Up
<1>9. CASE ~Up("server")
  <2>1. ClientOnly'
    BY <1>2, <1>8, <1>9 DEF Situation, ClientOnly
  <2> QED
    BY <1>2, <1>7, <1>8, <1>9, <2>1 DEF Situation
<1>10. CASE Up("server")
  <2>1. BothUp
    BY <1>8, <1>10 DEF Situation
  <2>2. ~Answering
    BY <1>2 DEF Answering
  <2>3. ~Asking
    <3>1. ASSUME NEW m \in Sizes, NEW b, NEW i, NEW j, Requesting(m, b, i, j)
          PROVE  FALSE
      <4>1. out["client"].unit = Unit("client", asking, m)
        BY <3>1 DEF Requesting, Flow, Gone
      <4>2. Len(Unit("client", asking, m)) = m /\ m # 0
        BY <1>5, Bounds, TwoEnds, UnitFacts
      <4> QED
        BY <1>2, <4>1, <4>2, NothingDone
    <3> QED
      BY <3>1 DEF Asking
  <2>4. Rest
    BY <2>1, <2>2, <2>3 DEF BothUp
  <2>5. Silent' /\ Earlier(asking)' /\ asking' <= Units
    BY <1>2, <1>4, <2>4 DEF Rest, Silent, SegmenterDone, Earlier
  <2>6. ~Talks(wire["server"]) /\ ~Fields(wire["server"], "server") /\ ~Polls(wire["server"])
        /\ Polling(wire["server"], conn["client"].nr)
    BY <2>4, NoTalk DEF Rest
  <2>7. PICK b \in Numbers : b = conn["client"].ns /\ b = conn["server"].nr
    BY <2>4, TwoEnds, Types DEF Rest, Heard
  <2>8. Clean(into["server"]) /\ event["server"] # "Lsdu"
    BY <2>4 DEF Rest, Heard
  <2>9. PICK u \in Text : u = Unit("client", asking, n)
    BY <1>6
  <2>10. PICK t \in Nat \ {0} : t = Limit("client")
    BY TwoEnds, LimitFacts
  <2>11. /\ Gone(conn["client"], o, u, t, b, 0) /\ Come(conn["server"], into["server"], u, t, b, 0)
         /\ Between(mode.lossy, wire["server"], "server", u, t, b, 0, 0) /\ ~Whole(u, t, 0)
    BY <1>3, <2>6, <2>7, <2>8, <2>9, Parts, StartFlow
  <2>12. Flow("client", "server", u, b, 0, 0)'
    BY <1>2, <1>4, <2>10, <2>11 DEF Flow
  <2>13. ~SegmenterDone("client")'
    BY <1>3, <1>4, <1>5, <1>6 DEF SegmenterDone
  <2>14. Requesting(n, b, 0, 0)'
    BY <1>2, <2>8, <2>9, <2>10, <2>11, <2>12, <2>13 DEF Requesting
  <2>15. Asking'
    BY <1>2, <2>5, <2>6, <2>14 DEF Asking
  <2>16. BothUp'
    BY <1>2, <2>1, <2>15 DEF BothUp
  <2> QED
    BY <1>2, <1>7, <1>8, <1>10, <2>16 DEF Situation
<1> QED
  BY <1>9, <1>10

\* Connection::connect: a patient host connects when nothing is under way.
LEMMA ConnectUnits ==
  ASSUME \A m \in Modes : m.patient, Inv, HandshakeInv, Situation, Connect
  PROVE  Situation'
<1> DEFINE f == [to |-> "server", ctl |-> "SNRM", par |-> Proposed["client"]]
<1>1. /\ wire["client"] = <<>> /\ wire["server"] = <<>> /\ event["client"] = "Idle"
      /\ event["server"] = "Idle" /\ ~Sending("server")
  BY Waited DEF Connect
<1>2. /\ wire' = [wire EXCEPT !["server"] = Append(@, f)] /\ conn["client"].state # "Connected"
      /\ conn' = [conn EXCEPT !["client"].state = "Connecting"]
      /\ UNCHANGED <<mode, into, out, event, asking, got, handed, bus>>
  BY TwoEnds DEF Connect, Transmit
<1>3. f.ctl = "SNRM"
  OBVIOUS
<1> HIDE DEF f
<1>4. /\ wire'["server"] = Append(wire["server"], f) /\ wire'["client"] = wire["client"]
      /\ conn'["client"].state = "Connecting" /\ conn'["server"] = conn["server"]
      /\ conn'["client"].acknowledging = conn["client"].acknowledging
  BY <1>2, Parts, TwoEnds DEF Inv, Connections
<1>5. conn["client"].acknowledging = None /\ out["client"] = Nothing
  BY <1>1, <1>2 DEF Situation, ClientOK
<1>6. ClientOK'
  BY <1>2, <1>4, <1>5 DEF ClientOK
<1>7. conn["server"].acknowledging # "DISC"
  BY <1>1, Known DEF None
<1>8. Snrm(wire'["server"])
  <2>1. Snrm(wire["server"])
    BY <1>1, EmptyWire
  <2> QED
    BY <1>3, <1>4, <2>1, Parts, AppendKeeps
<1>9. Ua(wire'["client"])
  BY <1>1, <1>4, EmptyWire
<1>10. ~Sending("server")'
  BY <1>1, <1>2 DEF Sending, SegmenterDone
<1>11. Opening'
  BY <1>1, <1>2, <1>4, <1>7, <1>8, <1>9, <1>10 DEF Opening
<1> QED
  BY <1>4, <1>6, <1>11 DEF Situation, Up

\* The request and the response that are under way: their units.
LEMMA UnitsThere ==
  ASSUME Inv, NEW e \in Ends, NEW n \in Sizes
  PROVE  /\ Unit(e, asking, n) \in Ordered /\ Unit(e, asking, n) \in Text
         /\ Len(Unit(e, asking, n)) = n /\ n \in Nat \ {0}
         /\ Unit(e, asking, n)[1].unit = asking
<1>1. n \in Nat \ {0} /\ asking \in Nat
  BY Bounds DEF Inv
<1>2. 1 \in 1 .. n
  BY <1>1
<1> QED
  BY <1>1, <1>2, UnitOrdered, UnitFacts

\* Connection::disconnect: nothing is outstanding, or the host has waited in vain and nothing
\* is under way.
LEMMA DisconnectUnits ==
  ASSUME \A m \in Modes : m.patient, Inv, Situation, Disconnect
  PROVE  Situation'
<1> DEFINE f == [to |-> "server", ctl |-> "DISC"]
<1>1. /\ conn["client"].state = "Connected" /\ event["client"] = "Idle"
      /\ out["client"] = Nothing \/ TimedOut
      /\ wire' = [wire EXCEPT !["server"] = Append(@, f)]
      /\ conn' = [conn EXCEPT !["client"].state = "Disconnecting"]
      /\ out' = [out EXCEPT !["client"] = Nothing]
      /\ UNCHANGED <<mode, into, event, asking, got, handed, bus>>
  BY TwoEnds DEF Disconnect, Transmit
<1>2. f.ctl = "DISC" /\ ~Talk(f) /\ ~Mine(f, "server")
  BY DEF Talk, Mine
<1> HIDE DEF f
<1>3. /\ wire'["server"] = Append(wire["server"], f)
      /\ conn'["client"].state = "Disconnecting" /\ conn'["server"] = conn["server"]
      /\ conn'["client"].acknowledging = conn["client"].acknowledging
      /\ out'["client"] = Nothing
  BY <1>1, Parts, TwoEnds DEF Inv, Connections
<1>4. conn["client"].acknowledging = None /\ Free(wire["server"], {"SNRM"})
  BY <1>1 DEF Situation, ClientOK
<1>5. Free(wire'["server"], {"SNRM"})
  BY <1>2, <1>3, <1>4, Parts, AppendKeeps
<1>6. ClientOK'
  BY <1>1, <1>3, <1>4, <1>5 DEF ClientOK
<1>7. Up("client") /\ ~Up("client")' /\ (Up("server")' <=> Up("server"))
  BY <1>1, <1>3 DEF Up
<1>8. ASSUME Up("server")
      PROVE  ServerOnly'
  <2>1. BothUp
    BY <1>7, <1>8 DEF Situation
  <2>2. ASSUME TimedOut
        PROVE  ~Fields(wire["server"], "server") /\ event["server"] # "Lsdu"
    <3>1. wire["server"] = <<>> /\ event["server"] = "Idle"
      BY <2>2, Waited
    <3> QED
      BY <3>1 DEF Fields
  <2>3. ASSUME out["client"] = Nothing
        PROVE  ~Fields(wire["server"], "server") /\ event["server"] # "Lsdu"
    <3>1. ~Asking
      <4> SUFFICES ASSUME Asking PROVE FALSE
        OBVIOUS
      <4>1. PICK n \in Sizes, b \in Numbers, i \in Nat, j \in Nat : Requesting(n, b, i, j)
        BY DEF Asking
      <4>2. out["client"].unit = Unit("client", asking, n)
        BY <4>1, TwoEnds DEF Requesting, Flow, Gone
      <4>3. Len(Unit("client", asking, n)) = n /\ n \in Nat \ {0}
        BY TwoEnds, UnitsThere
      <4> QED
        BY <2>3, <4>2, <4>3 DEF Nothing
    <3>2. Rest
      BY <2>1, <2>3, <3>1 DEF BothUp, Answering
    <3> QED
      BY <3>2, NoTalk DEF Rest, Heard
  <2>4. ~Fields(wire["server"], "server") /\ event["server"] # "Lsdu"
    BY <1>1, <2>2, <2>3
  <2>5. ~Fields(wire'["server"], "server")
    BY <1>2, <1>3, <2>4, Parts, AppendKeeps
  <2> QED
    BY <1>1, <2>4, <2>5 DEF ServerOnly
<1> QED
  BY <1>3, <1>6, <1>7, <1>8 DEF Situation

\* Connection::acknowledge, by the client, which is down.
LEMMA ClientAcknowledges ==
  ASSUME Inv, Situation, Acknowledge("client")
  PROVE  Situation'
<1> DEFINE f == [to |-> "server", ctl |-> "UA",
                 par |-> IF conn["client"].acknowledging = "SNRM" THEN conn["client"].par ELSE Default]
<1>1. /\ conn["client"].acknowledging # None
      /\ wire' = [wire EXCEPT !["server"] = Append(@, f)]
      /\ conn' = [conn EXCEPT !["client"].acknowledging = None]
      /\ event' = [event EXCEPT !["client"] = "Idle"]
      /\ UNCHANGED <<mode, into, out, asking, got, handed, bus>>
  BY TwoEnds DEF Acknowledge, Transmit
<1>2. f.ctl = "UA" /\ ~Mine(f, "server")
  BY DEF Mine
<1> HIDE DEF f
<1>3. /\ wire'["server"] = Append(wire["server"], f)
      /\ conn'["client"].state = conn["client"].state /\ conn'["server"] = conn["server"]
      /\ conn'["client"].acknowledging = None /\ event'["server"] = event["server"]
      /\ event'["client"] = "Idle"
  BY <1>1, Parts, TwoEnds DEF Inv, Connections
<1>4. /\ conn["client"].state = "Disconnected" /\ event["client"] = "AcknowledgeRequired"
      /\ out["client"] = Nothing /\ Free(wire["server"], {"SNRM"})
  BY <1>1 DEF Situation, ClientOK
<1>5. Free(wire'["server"], {"SNRM"})
  BY <1>2, <1>3, <1>4, Parts, AppendKeeps
<1>6. ClientOK'
  BY <1>1, <1>3, <1>4, <1>5 DEF ClientOK
<1>7. ~Up("client") /\ ~Up("client")' /\ (Up("server")' <=> Up("server"))
  BY <1>3, <1>4 DEF Up
<1>8. ASSUME Up("server")
      PROVE  ServerOnly'
  <2>1. ServerOnly
    BY <1>4, <1>7, <1>8 DEF Situation
  <2>2. ~Fields(wire'["server"], "server")
    BY <1>2, <1>3, <2>1, Parts, AppendKeeps DEF ServerOnly
  <2> QED
    BY <1>3, <2>1, <2>2 DEF ServerOnly
<1> QED
  BY <1>3, <1>4, <1>6, <1>7, <1>8 DEF Situation

\* Connection::acknowledge, by the server: the client opens the link, or is down.
LEMMA ServerAcknowledges ==
  ASSUME Inv, HandshakeInv, Situation, Acknowledge("server")
  PROVE  Situation'
<1> DEFINE f == [to |-> "client", ctl |-> "UA",
                 par |-> IF conn["server"].acknowledging = "SNRM" THEN conn["server"].par ELSE Default]
<1>1. /\ conn["server"].acknowledging # None
      /\ wire' = [wire EXCEPT !["client"] = Append(@, f)]
      /\ conn' = [conn EXCEPT !["server"].acknowledging = None]
      /\ event' = [event EXCEPT !["server"] = "Idle"]
      /\ UNCHANGED <<mode, into, out, asking, got, handed, bus>>
  BY TwoEnds DEF Acknowledge, Transmit
<1>2. f.ctl = "UA" /\ (conn["server"].acknowledging = "SNRM" => f.par = conn["server"].par)
  OBVIOUS
<1> HIDE DEF f
<1>3. /\ wire'["client"] = Append(wire["client"], f) /\ wire'["server"] = wire["server"]
      /\ conn'["client"] = conn["client"]
      /\ event'["client"] = event["client"] /\ event'["server"] = "Idle"
  BY <1>1, Parts, TwoEnds DEF Inv
<1>4. /\ conn'["server"].state = conn["server"].state /\ conn'["server"].ns = conn["server"].ns
      /\ conn'["server"].nr = conn["server"].nr /\ conn'["server"].par = conn["server"].par
      /\ conn'["server"].acknowledging = None
  BY <1>1, Parts, TwoEnds DEF Inv, Connections
<1>5. event["server"] = "AcknowledgeRequired" /\ conn["client"].state # "Connected"
  BY <1>1 DEF HandshakeInv, Handshake
<1>6. ClientOK'
  BY <1>1, <1>3 DEF Situation, ClientOK
<1>7. ~Up("client") /\ ~Up("client")' /\ (Up("server")' <=> Up("server"))
  BY <1>3, <1>4, <1>5 DEF Up
<1>8. ASSUME conn["client"].state = "Connecting"
      PROVE  Opening'
  <2>1. Opening /\ Opened
    BY <1>5, <1>8 DEF Situation, Opening
  <2>2. conn["server"].acknowledging = "SNRM"
    BY <1>1, <2>1, Parts DEF Opening, Connections
  <2>3. f.ctl = "UA" /\ f.par.rx = Limit("client")
    BY <1>2, <2>1, <2>2 DEF Opened
  <2>4. Ua(wire'["client"])
    BY <1>3, <2>1, <2>3, Parts, AppendKeeps DEF Opening
  <2>5. Opened'
    BY <1>1, <1>3, <1>4, <1>7, <2>1 DEF Opened
  <2>6. ~Sending("server")'
    BY <1>1, <2>1 DEF Opening, Sending, SegmenterDone
  <2> QED
    BY <1>3, <1>4, <2>1, <2>4, <2>5, <2>6 DEF Opening, None
<1>9. ASSUME conn["client"].state # "Connecting", Up("server")
      PROVE  ServerOnly'
  BY <1>3, <1>7, <1>9 DEF Situation, ServerOnly
<1> QED
  BY <1>3, <1>6, <1>7, <1>8, <1>9 DEF Situation

\* Connection::next_frame of the client.
LEMMA ClientSends ==
  ASSUME Inv, Situation, NextFrame("client")
  PROVE  Situation'
<1> DEFINE f == InformationFrame("client")
<1>1. /\ conn["client"].state = "Connected" /\ event["client"] = "Idle" /\ Sending("client")
      /\ wire' = [wire EXCEPT !["server"] = Append(@, f)]
      /\ last' = IF f.ctl = "I" THEN f ELSE last
      /\ out' = [out EXCEPT !["client"].sent = SegmentEnd("client")]
      /\ conn' = [conn EXCEPT !["client"].ns = NextNs("client")]
      /\ UNCHANGED <<mode, into, event, asking, got, handed, bus>>
  BY TwoEnds DEF NextFrame, Transmit
<1>2. f.ctl = "I" /\ f = Field("client", out["client"].sent, conn["client"].ns)
  BY DEF InformationFrame, Field
<1> HIDE DEF f
<1>3. /\ wire'["server"] = Append(wire["server"], f) /\ wire'["client"] = wire["client"]
      /\ conn'["server"] = conn["server"] /\ out'["server"] = out["server"] /\ last' = f
  BY <1>1, <1>2, Parts, TwoEnds DEF Inv
<1>4. /\ conn'["client"].state = conn["client"].state /\ conn'["client"].nr = conn["client"].nr
      /\ conn'["client"].par = conn["client"].par /\ conn'["client"].ns = NextNs("client")
      /\ conn'["client"].acknowledging = conn["client"].acknowledging
  BY <1>1, Parts, TwoEnds DEF Inv, Connections
<1>5. out'["client"].unit = out["client"].unit /\ out'["client"].sent = SegmentEnd("client")
  BY <1>1, TwoEnds DEF Inv, Segmenters
<1>6. out["client"].sent < Len(out["client"].unit) /\ out["client"] # Nothing /\ ~SegmenterDone("client")
  BY <1>1, TwoEnds, Types, NothingDone DEF Sending, SegmenterDone
<1>7. Free(wire'["server"], {"SNRM"})
  BY <1>1, <1>2, <1>3, Parts, AppendKeeps DEF Situation, ClientOK
<1>8. ClientOK'
  BY <1>1, <1>4, <1>7 DEF Situation, ClientOK
<1>9. Up("client") /\ Up("client")' /\ (Up("server")' <=> Up("server"))
  BY <1>1, <1>3, <1>4 DEF Up
<1>10. Only(wire["server"], {"I", "RR"}) => Only(wire'["server"], {"I", "RR"})
  BY <1>2, <1>3, Parts, AppendKeeps
<1>11. CASE ~Up("server")
  <2>1. ClientOnly
    BY <1>9, <1>11 DEF Situation
  <2>2. ClientOnly'
    BY <1>1, <1>3, <1>6, <1>10, <2>1 DEF ClientOnly
  <2> QED
    BY <1>1, <1>4, <1>8, <1>9, <1>11, <2>2 DEF Situation
<1>12. CASE Up("server")
  <2>1. BothUp
    BY <1>9, <1>12 DEF Situation
  <2>2. Asking
    BY <1>6, <2>1 DEF BothUp, Rest, Answering
  <2>3. PICK n \in Sizes, b \in Numbers, i \in Nat, j \in Nat : Requesting(n, b, i, j)
    BY <2>2 DEF Asking
  <2>4. PICK u \in Ordered : u = Unit("client", asking, n) /\ u \in Text
    BY TwoEnds, UnitsThere
  <2>5. PICK t \in Nat \ {0} : t = Limit("client")
    BY TwoEnds, LimitFacts
  <2>6. /\ j <= i /\ Gone(conn["client"], out["client"], u, t, b, i)
        /\ Come(conn["server"], into["server"], u, t, b, j)
        /\ Between(mode.lossy, wire["server"], "server", u, t, b, i, j)
        /\ event["server"] = "Lsdu" <=> Whole(u, t, j)
    BY <2>3, <2>4, <2>5 DEF Requesting, Flow
  <2>7. b \in Nat /\ conn["client"].par.tx = t /\ out["client"].unit = u /\ conn["client"].ns = (b + i) % Mod
    BY <2>1, <2>5, <2>6, Bounds DEF BothUp, Gone, Numbers
  <2>8. out["client"].sent = Place(t, i) /\ Place(t, i) < Len(u)
    BY <1>6, <2>4, <2>6, <2>7, GoneFacts
  <2>9. /\ IsSegment(f, u, t, b, i) /\ Mine(f, "server")
        /\ SegmentEnd("client") = Smaller(Place(t, i + 1), Len(u))
    BY <1>2, <2>4, <2>7, <2>8, TwoEnds, NextSegment DEF SegmentEnd
  <2>10. Gone(conn'["client"], out'["client"], u, t, b, i + 1)
    <3>1. PICK c, o : c = conn'["client"] /\ o = out'["client"]
      OBVIOUS
    <3>2. c.ns = (conn["client"].ns + 1) % Mod /\ o.unit = out["client"].unit
          /\ o.sent = Smaller(Place(t, i + 1), Len(u))
      BY <1>4, <1>5, <2>9, <3>1 DEF NextNs
    <3>3. Gone(c, o, u, t, b, i + 1)
      BY <2>4, <2>6, <2>7, <2>8, <3>2, GoneFacts
    <3> QED
      BY <3>1, <3>3
  <2>11. Between(mode.lossy, Append(wire["server"], f), "server", u, t, b, i + 1, j)
    BY <2>6, <2>9, Parts, BetweenSend
  <2>12. j <= i + 1 /\ i + 1 \in Nat /\ (i + 1) - 1 = i
    BY <2>6
  <2>13. Requesting(n, b, i + 1, j)'
    BY <1>1, <1>3, <2>4, <2>5, <2>6, <2>9, <2>10, <2>11, <2>12 DEF Requesting, Flow
  <2>14. ~Polls(wire["server"])
    BY <1>6, <2>2 DEF Asking
  <2>15. ~Polls(wire'["server"]) /\ Polling(wire'["server"], conn["client"].nr)
    BY <1>2, <1>3, <2>14, Parts, AppendKeeps
  <2>16. Silent' /\ asking' <= Units /\ Earlier(asking)'
    BY <1>1, <1>3, <1>4, <2>2 DEF Asking, Silent, SegmenterDone, Earlier
  <2>17. Asking'
    BY <1>4, <2>12, <2>13, <2>15, <2>16 DEF Asking
  <2>18. BothUp'
    BY <1>3, <1>4, <1>10, <2>1, <2>17 DEF BothUp
  <2> QED
    BY <1>1, <1>4, <1>8, <1>9, <1>12, <2>18 DEF Situation
<1> QED
  BY <1>11, <1>12

\* Connection::next_frame of the server.
LEMMA ServerSends ==
  ASSUME Inv, Situation, NextFrame("server")
  PROVE  Situation'
<1> DEFINE f == InformationFrame("server")
<1>1. /\ conn["server"].state = "Connected" /\ event["server"] = "Idle" /\ Sending("server")
      /\ wire' = [wire EXCEPT !["client"] = Append(@, f)] /\ last' = last
      /\ out' = [out EXCEPT !["server"].sent = SegmentEnd("server")]
      /\ conn' = [conn EXCEPT !["server"].ns = NextNs("server")]
      /\ UNCHANGED <<mode, into, event, asking, got, handed, bus>>
  BY TwoEnds DEF NextFrame, Transmit
<1>2. f = Field("server", out["server"].sent, conn["server"].ns)
  BY DEF InformationFrame
<1> HIDE DEF f
<1>3. /\ wire'["client"] = Append(wire["client"], f) /\ wire'["server"] = wire["server"]
      /\ conn'["client"] = conn["client"] /\ out'["client"] = out["client"]
  BY <1>1, Parts, TwoEnds DEF Inv
<1>4. /\ conn'["server"].state = conn["server"].state /\ conn'["server"].nr = conn["server"].nr
      /\ conn'["server"].par = conn["server"].par /\ conn'["server"].ns = NextNs("server")
  BY <1>1, Parts, TwoEnds DEF Inv, Connections
<1>5. out'["server"].unit = out["server"].unit /\ out'["server"].sent = SegmentEnd("server")
  BY <1>1, TwoEnds DEF Inv, Segmenters
<1>6. /\ out["server"].sent < Len(out["server"].unit) /\ ~SegmenterDone("server")
      /\ mode.polled => out["server"].sent = 0
  BY <1>1, TwoEnds, Types DEF Sending, SegmenterDone
<1>7. ClientOK'
  BY <1>1, <1>3 DEF Situation, ClientOK
<1>8. Up("server") /\ Up("server")' /\ (Up("client")' <=> Up("client"))
  BY <1>1, <1>3, <1>4 DEF Up
<1>9. conn["client"].state # "Connecting"
  BY <1>1 DEF Situation, Opening
<1>10. CASE ~Up("client")
  <2>1. ServerOnly'
    BY <1>1, <1>3, <1>8, <1>9, <1>10 DEF Situation, ServerOnly
  <2> QED
    BY <1>3, <1>7, <1>8, <1>9, <1>10, <2>1 DEF Situation
<1>11. CASE Up("client")
  <2>1. BothUp
    BY <1>8, <1>11 DEF Situation
  <2>2. Answering
    BY <1>6, <2>1 DEF BothUp, Rest, Asking, Silent
  <2>3. PICK n \in Sizes, b \in Numbers, i \in Nat, j \in Nat : Responding(n, b, i, j)
    BY <2>2 DEF Answering
  <2>4. PICK u \in Ordered : u = Unit("server", asking, n) /\ u \in Text
    BY TwoEnds, UnitsThere
  <2>5. PICK t \in Nat \ {0} : t = Limit("server")
    BY TwoEnds, LimitFacts
  <2>6. /\ j <= i /\ Gone(conn["server"], out["server"], u, t, b, i)
        /\ Come(conn["client"], into["client"], u, t, b, j)
        /\ Between(mode.lossy, wire["client"], "client", u, t, b, i, j)
        /\ event["client"] = "Lsdu" <=> Whole(u, t, j)
        /\ mode.polled /\ event["client"] = "PollRequired" => i = j /\ j > 0
    BY <2>3, <2>4, <2>5 DEF Responding, Flow
  <2>7. b \in Nat /\ conn["server"].par.tx = t /\ out["server"].unit = u /\ conn["server"].ns = (b + i) % Mod
    BY <2>1, <2>5, <2>6, Bounds DEF BothUp, Gone, Numbers
  <2>8. out["server"].sent = Place(t, i) /\ Place(t, i) < Len(u)
    BY <1>6, <2>4, <2>6, <2>7, GoneFacts
  <2>9. /\ IsSegment(f, u, t, b, i) /\ Mine(f, "client")
        /\ SegmentEnd("server") = Smaller(Place(t, i + 1), Len(u))
    BY <1>2, <2>4, <2>7, <2>8, TwoEnds, NextSegment DEF SegmentEnd
  <2>10. Gone(conn'["server"], out'["server"], u, t, b, i + 1)
    <3>1. PICK c, o : c = conn'["server"] /\ o = out'["server"]
      OBVIOUS
    <3>2. c.ns = (conn["server"].ns + 1) % Mod /\ o.unit = out["server"].unit
          /\ o.sent = Smaller(Place(t, i + 1), Len(u))
      BY <1>4, <1>5, <2>9, <3>1 DEF NextNs
    <3>3. Gone(c, o, u, t, b, i + 1)
      BY <2>4, <2>6, <2>7, <2>8, <3>2, GoneFacts
    <3> QED
      BY <3>1, <3>3
  <2>11. Between(mode.lossy, Append(wire["client"], f), "client", u, t, b, i + 1, j)
    BY <2>6, <2>9, Parts, BetweenSend
  <2>12. j <= i + 1 /\ i + 1 \in Nat
    BY <2>6
  <2>13. mode.polled => i = 0
    <3>1. 0 < i => Place(t, 0) + t <= Place(t, i)
      BY Places
    <3>2. Place(t, 0) = 0 /\ Place(t, i) \in Nat
      BY Places
    <3> QED
      BY <1>6, <2>8, <3>1, <3>2
  <2>14. /\ mode.polled => i + 1 <= j + 1
         /\ ~(mode.polled /\ event["client"] = "PollRequired")
    BY <2>6, <2>13
  <2>15. Responding(n, b, i + 1, j)'
    BY <1>1, <1>3, <2>4, <2>5, <2>6, <2>10, <2>11, <2>12, <2>14 DEF Responding, Flow
  <2>16. ~Talks(wire["server"])
    BY <1>1, <2>2 DEF Answering
  <2>17. Heard' /\ asking' <= Units /\ Earlier(asking + 1)'
    BY <1>1, <1>3, <1>4, <2>2 DEF Answering, Heard, Earlier
  <2>18. /\ Waiting(wire'["server"], conn'["server"].nr, conn'["client"].nr)
         /\ out'["client"] # Nothing /\ SegmenterDone("client")' /\ IsOld(last', conn'["server"].nr)
         /\ event'["client"] \in {"Idle", "PollRequired", "Lsdu"}
    BY <1>1, <1>3, <1>4, <2>2 DEF Answering, SegmenterDone
  <2>19. Answering'
    BY <1>3, <2>12, <2>15, <2>16, <2>17, <2>18 DEF Answering
  <2>20. AllMine(wire'["client"], "client")
    BY <1>3, <2>1, <2>9, Parts, AppendKeeps DEF BothUp
  <2>21. BothUp'
    BY <1>3, <1>4, <2>1, <2>19, <2>20 DEF BothUp
  <2> QED
    BY <1>3, <1>7, <1>8, <1>9, <1>11, <2>21 DEF Situation
<1> QED
  BY <1>10, <1>11

\* All that was sent has been received.
LEMMA NothingBetween ==
  ASSUME NEW lossy, NEW w, NEW d, NEW u, NEW t, NEW b, NEW i \in Nat, Between(lossy, w, d, u, t, b, i, i)
  PROVE  ~Fields(w, d)
<1>1. i .. i - 1 = {}
  OBVIOUS
<1> QED
  BY <1>1 DEF Between, Fields

\* A wire that carries nothing but fields, and none of those.
LEMMA NothingLeft ==
  ASSUME NEW S, NEW w \in Seq(S), NEW d, AllMine(w, d), ~Fields(w, d)
  PROVE  w = <<>>
<1>1. w # <<>> => 1 \in DOMAIN w
  OBVIOUS
<1> QED
  BY <1>1 DEF AllMine, Fields

\* Connection::poll: nothing else is under way.
LEMMA PollUnits ==
  ASSUME \A m \in Modes : m.patient, Inv, Situation, Poll
  PROVE  Situation'
<1> DEFINE f == [to |-> "server", ctl |-> "RR", nr |-> conn["client"].nr]
<1>1. /\ mode.polled /\ conn["client"].state = "Connected" /\ out["client"] # Nothing
      /\ event["client"] = "PollRequired" \/ TimedOut
      /\ wire' = [wire EXCEPT !["server"] = Append(@, f)] /\ last' = last
      /\ event' = [event EXCEPT !["client"] = "Idle"]
      /\ UNCHANGED <<mode, conn, into, out, asking, got, handed, bus>>
  BY TwoEnds DEF Poll, Transmit
<1>2. f.ctl = "RR" /\ f.nr = conn["client"].nr /\ \A d : ~Mine(f, d)
  BY DEF Mine
<1> HIDE DEF f
<1>3. /\ wire'["server"] = Append(wire["server"], f) /\ wire'["client"] = wire["client"]
      /\ event'["client"] = "Idle" /\ event'["server"] = event["server"]
  BY <1>1, Parts, TwoEnds DEF Inv
<1>4. \/ event["client"] = "PollRequired"
      \/ /\ wire["client"] = <<>> /\ wire["server"] = <<>> /\ event["client"] = "Idle"
         /\ event["server"] = "Idle" /\ ~Sending("client") /\ ~Sending("server")
  BY <1>1, Waited
<1>5. Free(wire'["server"], {"SNRM"})
  BY <1>1, <1>2, <1>3, Parts, AppendKeeps DEF Situation, ClientOK
<1>6. ClientOK'
  BY <1>1, <1>5 DEF Situation, ClientOK
<1>7. Up("client") /\ Up("client")' /\ (Up("server")' <=> Up("server"))
  BY <1>1, <1>3, <1>4 DEF Up
<1>8. Only(wire["server"], {"I", "RR"}) => Only(wire'["server"], {"I", "RR"})
  BY <1>2, <1>3, Parts, AppendKeeps
<1>9. CASE ~Up("server")
  <2>1. ClientOnly'
    BY <1>1, <1>3, <1>7, <1>8, <1>9 DEF Situation, ClientOnly
  <2> QED
    BY <1>1, <1>6, <1>7, <1>9, <2>1 DEF Situation
<1>10. CASE Up("server") /\ Asking
  <2>1. BothUp
    BY <1>7, <1>10 DEF Situation
  <2>2. /\ wire["client"] = <<>> /\ wire["server"] = <<>> /\ event["client"] = "Idle"
        /\ event["server"] = "Idle" /\ ~Sending("client")
    BY <1>4, <1>10 DEF Asking, Silent
  <2>3. SegmenterDone("client") /\ ~Talks(wire["server"])
    BY <2>2, EmptyWire DEF Sending
  <2>4. Polling(wire'["server"], conn["client"].nr)
    BY <1>2, <1>3, <2>3, Parts, AppendKeeps
  <2>5. PICK n \in Sizes, b \in Numbers, i \in Nat, j \in Nat : Requesting(n, b, i, j)
    BY <1>10 DEF Asking
  <2>6. PICK u, t : u = Unit("client", asking, n) /\ t = Limit("client")
    OBVIOUS
  <2>7. Between(mode.lossy, wire["server"], "server", u, t, b, i, j)
    BY <2>5, <2>6 DEF Requesting, Flow
  <2>8. Between(mode.lossy, Append(wire["server"], f), "server", u, t, b, i, j)
    BY <1>2, <2>7, Parts, BetweenKeeps
  <2>9. Flow("client", "server", u, b, i, j)'
    BY <1>1, <1>3, <2>5, <2>6, <2>8 DEF Requesting, Flow
  <2>10. Requesting(n, b, i, j)'
    BY <1>1, <1>3, <2>5, <2>6, <2>9 DEF Requesting, SegmenterDone
  <2>11. Silent' /\ asking' <= Units /\ Earlier(asking)'
    BY <1>1, <1>3, <1>10 DEF Asking, Silent, SegmenterDone, Earlier
  <2>12. Asking'
    BY <1>1, <1>3, <2>2, <2>3, <2>4, <2>10, <2>11 DEF Asking, SegmenterDone
  <2>13. BothUp'
    BY <1>1, <1>3, <1>8, <2>1, <2>12 DEF BothUp
  <2> QED
    BY <1>1, <1>6, <1>7, <1>10, <2>13 DEF Situation
<1>11. CASE Up("server") /\ Answering
  <2>1. BothUp
    BY <1>7, <1>11 DEF Situation
  <2>2. PICK n \in Sizes, b \in Numbers, i \in Nat, j \in Nat : Responding(n, b, i, j)
    BY <1>11 DEF Answering
  <2>3. PICK u \in Text : u = Unit("server", asking, n) /\ Len(u) = n /\ n \in Nat \ {0}
    BY TwoEnds, UnitsThere
  <2>4. PICK t \in Nat \ {0} : t = Limit("server")
    BY TwoEnds, LimitFacts
  <2>5. /\ j <= i /\ Gone(conn["server"], out["server"], u, t, b, i)
        /\ Come(conn["client"], into["client"], u, t, b, j)
        /\ Between(mode.lossy, wire["client"], "client", u, t, b, i, j)
        /\ event["client"] = "Lsdu" <=> Whole(u, t, j)
        /\ i <= j + 1
        /\ event["client"] = "PollRequired" => i = j /\ j > 0
    BY <1>1, <2>2, <2>3, <2>4 DEF Responding, Flow
  <2>6. ~Talks(wire["server"]) /\ wire["client"] = <<>> /\ ~Sending("server")
    <3>1. CASE event["client"] = "PollRequired"
      <4>1. i = j /\ i > 0
        BY <2>5, <3>1
      <4>2. ~Fields(wire["client"], "client")
        BY <2>5, <4>1, NothingBetween
      <4>3. wire["client"] = <<>>
        BY <2>1, <4>2, Parts, NothingLeft DEF BothUp
      <4>4. ~Talks(wire["server"])
        BY <1>11, <3>1 DEF Answering
      <4>5. Place(t, 0) + t <= Place(t, i) /\ Place(t, 0) = 0 /\ Place(t, i) \in Nat
        BY <4>1, Places
      <4>6. out["server"].sent # 0
        BY <2>3, <2>5, <4>5 DEF Gone, Smaller
      <4> QED
        BY <1>1, <4>3, <4>4, <4>6 DEF Sending
    <3>2. CASE event["client"] # "PollRequired"
      BY <1>4, <3>2, EmptyWire
    <3> QED
      BY <3>1, <3>2
  <2>7. Waiting(wire'["server"], conn["server"].nr, conn["client"].nr)
    BY <1>2, <1>3, <2>6, Parts, AppendKeeps
  <2>8. ~Whole(u, t, j)
    BY <1>4, <2>5
  <2>9. Responding(n, b, i, j)'
    BY <1>1, <1>3, <2>3, <2>4, <2>5, <2>8 DEF Responding, Flow
  <2>10. Heard' /\ asking' <= Units /\ Earlier(asking + 1)'
    BY <1>1, <1>3, <1>11 DEF Answering, Heard, Earlier
  <2>11. ~Sending("server")'
    BY <1>1, <2>6 DEF Sending, SegmenterDone
  <2>12. SegmenterDone("client")' /\ IsOld(last', conn'["server"].nr)
    BY <1>1, <1>11 DEF Answering, SegmenterDone
  <2>13. Answering'
    BY <1>1, <1>3, <2>6, <2>7, <2>9, <2>10, <2>11, <2>12 DEF Answering
  <2>14. BothUp'
    BY <1>1, <1>3, <1>8, <2>1, <2>13 DEF BothUp
  <2> QED
    BY <1>1, <1>6, <1>7, <1>11, <2>14 DEF Situation
<1>12. CASE Up("server") /\ Rest
  BY <1>1, <1>12 DEF Rest
<1> QED
  BY <1>7, <1>9, <1>10, <1>11, <1>12 DEF Situation, BothUp

\* The last information frame once more: it was lost, or it is one the server has had.
LEMMA ResendUnits ==
  ASSUME \A m \in Modes : m.patient, Inv, Situation, Resend
  PROVE  Situation'
<1>1. /\ TimedOut /\ conn["client"].state = "Connected" /\ out["client"] # Nothing /\ last.ctl = "I"
      /\ wire' = [wire EXCEPT !["server"] = Append(@, last)] /\ last' = last
      /\ UNCHANGED <<mode, conn, into, out, event, asking, got, handed, bus>>
  BY TwoEnds DEF Resend, Transmit
<1>2. wire'["server"] = Append(wire["server"], last) /\ wire'["client"] = wire["client"]
  BY <1>1, Parts, TwoEnds DEF Inv
<1>3. /\ wire["client"] = <<>> /\ wire["server"] = <<>> /\ event["client"] = "Idle"
      /\ event["server"] = "Idle" /\ ~Sending("client") /\ ~Sending("server")
  BY <1>1, Waited
<1>4. /\ ~Talks(wire["server"]) /\ ~Polls(wire["server"])
  BY <1>3, EmptyWire
<1>5. Free(wire'["server"], {"SNRM"})
  BY <1>1, <1>2, Parts, AppendKeeps DEF Situation, ClientOK
<1>6. ClientOK'
  BY <1>1, <1>5 DEF Situation, ClientOK
<1>7. Up("client") /\ Up("client")' /\ (Up("server")' <=> Up("server"))
  BY <1>1, <1>3 DEF Up
<1>8. Only(wire["server"], {"I", "RR"}) => Only(wire'["server"], {"I", "RR"})
  BY <1>1, <1>2, Parts, AppendKeeps
<1>9. CASE ~Up("server")
  <2>1. ClientOnly'
    BY <1>1, <1>2, <1>7, <1>8, <1>9 DEF Situation, ClientOnly
  <2> QED
    BY <1>1, <1>6, <1>7, <1>9, <2>1 DEF Situation
<1>10. CASE Up("server") /\ Asking
  <2>1. BothUp
    BY <1>7, <1>10 DEF Situation
  <2>2. SegmenterDone("client")
    BY <1>3 DEF Sending
  <2>3. PICK n \in Sizes, b \in Numbers, i \in Nat, j \in Nat : Requesting(n, b, i, j)
    BY <1>10 DEF Asking
  <2>4. PICK u \in Ordered : u = Unit("client", asking, n) /\ u \in Text /\ Len(u) = n /\ n \in Nat \ {0}
    BY TwoEnds, UnitsThere
  <2>5. PICK t \in Nat \ {0} : t = Limit("client")
    BY TwoEnds, LimitFacts
  <2>6. /\ j <= i /\ Gone(conn["client"], out["client"], u, t, b, i)
        /\ Come(conn["server"], into["server"], u, t, b, j)
        /\ Between(mode.lossy, wire["server"], "server", u, t, b, i, j)
        /\ ~Whole(u, t, j) /\ Mine(last, "server") /\ IsSegment(last, u, t, b, i - 1)
    BY <1>3, <2>2, <2>3, <2>4, <2>5 DEF Requesting, Flow
  <2>7. Place(t, i) >= Len(u) /\ b \in Nat
    <3>1. b \in Nat
      BY Bounds DEF Numbers
    <3>2. ~(out["client"].sent < Len(out["client"].unit))
      <4>1. out["client"].sent \in Nat /\ Len(out["client"].unit) \in Nat
        BY TwoEnds, Types
      <4> QED
        BY <2>2, <4>1 DEF SegmenterDone
    <3>4. Place(t, i) \in Nat
      BY Places
    <3>3. out["client"].sent < Len(out["client"].unit) <=> Place(t, i) < Len(u)
      BY <2>4, <2>6, <3>1, GoneFacts
    <3> QED
      BY <2>4, <3>1, <3>2, <3>3, <3>4
  <2>8. j < i
    <3>1. i # 0
      BY <2>4, <2>7, Places
    <3> QED
      BY <2>6, <2>7, <3>1 DEF Whole
  <2>9. mode.lossy
    <3>1. j \in j .. i - 1 /\ DOMAIN wire["server"] = {}
      BY <1>3, <2>8
    <3> QED
      BY <2>6, <3>1 DEF Between
  <2>10. Between(mode.lossy, Append(wire["server"], last), "server", u, t, b, i, j)
    <3>1. PICK w, f : w = <<>> /\ wire["server"] = w /\ f = last
      BY <1>3
    <3>2. DOMAIN Append(w, f) = {1} /\ Append(w, f)[1] = f
      BY <3>1
    <3>3. i - 1 \in j .. i - 1
      BY <2>8
    <3>4. Between(mode.lossy, Append(w, f), "server", u, t, b, i, j)
      BY <2>6, <2>9, <3>1, <3>2, <3>3 DEF Between
    <3> QED
      BY <3>1, <3>4
  <2>11. Flow("client", "server", u, b, i, j)'
    BY <1>1, <1>2, <2>5, <2>6, <2>10 DEF Flow
  <2>12. Requesting(n, b, i, j)'
    BY <1>1, <2>3, <2>4, <2>11 DEF Requesting, SegmenterDone
  <2>13. Silent' /\ asking' <= Units /\ Earlier(asking)'
    BY <1>1, <1>2, <1>10 DEF Asking, Silent, SegmenterDone, Earlier
  <2>14. ~Polls(wire'["server"]) /\ Polling(wire'["server"], conn["client"].nr)
    BY <1>1, <1>2, <1>4, Parts, AppendKeeps
  <2>15. Asking'
    BY <1>1, <2>12, <2>13, <2>14 DEF Asking
  <2>16. BothUp'
    BY <1>1, <1>2, <1>8, <2>1, <2>15 DEF BothUp
  <2> QED
    BY <1>1, <1>6, <1>7, <1>10, <2>16 DEF Situation
<1>11. CASE Up("server") /\ Answering
  <2>1. BothUp
    BY <1>7, <1>11 DEF Situation
  <2>2. IsOld(last, conn["server"].nr)
    BY <1>11 DEF Answering
  <2>3. Waiting(wire'["server"], conn["server"].nr, conn["client"].nr)
    BY <1>2, <1>4, <2>2, Parts, AppendKeeps
  <2>4. PICK n \in Sizes, b \in Numbers, i \in Nat, j \in Nat : Responding(n, b, i, j)
    BY <1>11 DEF Answering
  <2>5. Responding(n, b, i, j)'
    BY <1>1, <1>2, <2>4 DEF Responding, Flow
  <2>6. Heard' /\ asking' <= Units /\ Earlier(asking + 1)' /\ SegmenterDone("client")' /\ ~Sending("server")'
    BY <1>1, <1>3, <1>11 DEF Answering, Heard, Earlier, SegmenterDone, Sending
  <2>7. Answering'
    BY <1>1, <1>2, <1>3, <2>2, <2>3, <2>5, <2>6 DEF Answering
  <2>8. BothUp'
    BY <1>1, <1>2, <1>8, <2>1, <2>7 DEF BothUp
  <2> QED
    BY <1>1, <1>6, <1>7, <1>11, <2>8 DEF Situation
<1>12. CASE Up("server") /\ Rest
  BY <1>1, <1>12 DEF Rest
<1> QED
  BY <1>7, <1>9, <1>10, <1>11, <1>12 DEF Situation, BothUp

\* The client's host starts over: nothing is under way, or the server hears no more of it.
LEMMA GiveUpUnits ==
  ASSUME \A m \in Modes : m.patient, Inv, Situation, GiveUp
  PROVE  Situation'
<1>1. /\ TimedOut \/ event["client"] \in {"Err", "Disconnected"}
      /\ conn' = [conn EXCEPT !["client"] = NewConnection]
      /\ out' = [out EXCEPT !["client"] = Nothing]
      /\ event' = [event EXCEPT !["client"] = "Idle"]
      /\ UNCHANGED <<mode, into, wire, last, asking, got, handed, bus>>
  BY DEF GiveUp, ResetConnection
<1>2. /\ conn'["client"] = NewConnection /\ conn'["server"] = conn["server"]
      /\ out'["client"] = Nothing /\ event'["client"] = "Idle" /\ event'["server"] = event["server"]
  BY <1>1, TwoEnds DEF Inv
<1>3. conn'["client"].state = "Disconnected" /\ conn'["client"].acknowledging = None
  BY <1>2 DEF NewConnection
<1>4. ~Up("client")' /\ (Up("server")' <=> Up("server"))
  BY <1>2, <1>3 DEF Up
<1>5. CASE TimedOut
  <2>1. wire["server"] = <<>> /\ event["server"] = "Idle"
    BY <1>5, Waited
  <2>2. Free(wire["server"], {"SNRM"}) /\ ~Fields(wire["server"], "server")
    BY <2>1, EmptyWire
  <2> QED
    BY <1>1, <1>2, <1>3, <1>4, <2>1, <2>2 DEF Situation, ClientOK, ServerOnly
<1>6. CASE event["client"] \in {"Err", "Disconnected"}
  <2>1. conn["client"].state # "Connecting" /\ ~Up("client")
    BY <1>6 DEF Situation, Opening, Up
  <2> QED
    BY <1>1, <1>2, <1>3, <1>4, <2>1 DEF Situation, ClientOK, ServerOnly
<1> QED
  BY <1>1, <1>5, <1>6

\* The server's host starts over: it was down before.
LEMMA ServerGivesUpUnits ==
  ASSUME Inv, Situation, ServerGivesUp
  PROVE  Situation'
<1> DEFINE f == [to |-> "client", ctl |-> "DISC"]
<1>1. /\ event["server"] \in {"Err", "Disconnected"}
      /\ out' = [out EXCEPT !["server"] = Nothing]
      /\ event' = [event EXCEPT !["server"] = "Idle"]
      /\ UNCHANGED <<mode, into, asking, got, handed, bus>>
      /\ \/ conn' = [conn EXCEPT !["server"] = NewConnection] /\ wire' = wire
         \/ /\ wire' = [wire EXCEPT !["client"] = Append(@, f)]
            /\ conn' = [conn EXCEPT !["server"].state = "Disconnecting"]
  BY TwoEnds DEF ServerGivesUp, Transmit, ResetConnection
<1>2. f.ctl = "DISC"
  OBVIOUS
<1> HIDE DEF f
<1>3. /\ conn'["client"] = conn["client"] /\ event'["client"] = event["client"]
      /\ out'["client"] = out["client"] /\ conn'["server"].state # "Connected"
      /\ wire'["server"] = wire["server"]
      /\ wire'["client"] = wire["client"] \/ wire'["client"] = Append(wire["client"], f)
  BY <1>1, Parts, TwoEnds DEF Inv, NewConnection, Connections
<1>4. ClientOK'
  BY <1>3 DEF Situation, ClientOK
<1>5. ~Up("server")' /\ ~Up("server") /\ (Up("client")' <=> Up("client"))
  BY <1>1, <1>3 DEF Up
<1>6. conn["client"].state # "Connecting"
  BY <1>1 DEF Situation, Opening
<1>7. ASSUME Up("client")
      PROVE  ClientOnly'
  <2>1. ClientOnly
    BY <1>5, <1>7 DEF Situation
  <2>2. Only(wire["client"], {"DM", "DISC"}) /\ f.ctl \in {"DM", "DISC"}
    BY <1>2, <2>1 DEF ClientOnly
  <2>3. Only(Append(wire["client"], f), {"DM", "DISC"})
    BY <2>2, Parts, AppendKeeps
  <2>4. Only(wire'["client"], {"DM", "DISC"})
    BY <1>3, <2>2, <2>3
  <2> QED
    BY <1>1, <1>3, <2>1, <2>4 DEF ClientOnly
<1> QED
  BY <1>3, <1>4, <1>5, <1>6, <1>7 DEF Situation

\* A polled station that is down says so.
LEMMA PolledRefusesUnits ==
  ASSUME Inv, Situation, PolledRefuses
  PROVE  Situation'
<1> DEFINE f == [to |-> "client", ctl |-> "DM"]
           h == Head(wire["server"])
<1>1. /\ wire["server"] # <<>> /\ h.ctl \in {"I", "RR"} /\ h.to = "server"
      /\ conn["server"].state # "Connected"
      /\ wire' = [wire EXCEPT !["server"] = Tail(@), !["client"] = Append(@, f)]
      /\ UNCHANGED <<mode, conn, into, out, event, last, asking, got, handed, bus>>
  BY DEF PolledRefuses, ForMe
<1>2. f.ctl = "DM"
  OBVIOUS
<1> HIDE DEF f
<1>3. wire'["server"] = Tail(wire["server"]) /\ wire'["client"] = Append(wire["client"], f)
  BY <1>1, Parts, TwoEnds
<1>4. ClientOK'
  BY <1>1, <1>3, Parts, TailKeeps DEF Situation, ClientOK
<1>5. ~Up("server")' /\ ~Up("server") /\ (Up("client")' <=> Up("client"))
  BY <1>1 DEF Up
<1>6. conn["client"].state # "Connecting"
  <2>1. 1 \in DOMAIN wire["server"] /\ wire["server"][1] = h
    BY <1>1, Parts
  <2> QED
    BY <1>1, <2>1 DEF Situation, Opening, Snrm
<1>7. ASSUME Up("client")
      PROVE  ClientOnly'
  <2>1. ClientOnly
    BY <1>5, <1>7 DEF Situation
  <2>2. Only(wire'["client"], {"DM", "DISC"})
    BY <1>2, <1>3, <2>1, Parts, AppendKeeps DEF ClientOnly
  <2>3. Only(wire'["server"], {"I", "RR"})
    BY <1>1, <1>3, <2>1, Parts, TailKeeps DEF ClientOnly
  <2> QED
    BY <1>1, <2>1, <2>2, <2>3 DEF ClientOnly
<1> QED
  BY <1>1, <1>4, <1>5, <1>6, <1>7 DEF Situation

\* On the wire to the server a frame is lost, or passes that it does not count; or a
\* neighbour sends one.
LEMMA ServerLine ==
  ASSUME Inv, Situation, UNCHANGED <<mode, conn, into, out, event, last, asking, handed>>,
         wire'["client"] = wire["client"],
         \/ /\ wire["server"] # <<>> /\ wire'["server"] = Tail(wire["server"])
            /\ mode.lossy \/ ~Mine(Head(wire["server"]), "server") \/ Answering
         \/ \E f : wire'["server"] = Append(wire["server"], f) /\ f.ctl = "I" /\ f.to = "neighbour"
  PROVE  Situation'
<1>1. PICK w, v : w = wire["server"] /\ v = wire'["server"]
  OBVIOUS
<1>2. w \in Seq(Letters)
  BY <1>1, Parts
<1> DEFINE Kept ==
             /\ (Talks(v) => Talks(w)) /\ (Polls(v) => Polls(w)) /\ (Fields(v, "server") => Fields(w, "server"))
             /\ (Only(w, {"I", "RR"}) => Only(v, {"I", "RR"})) /\ (Free(w, {"SNRM"}) => Free(v, {"SNRM"}))
             /\ \A nr : Polling(w, nr) => Polling(v, nr)
             /\ \A sn, cn : Waiting(w, sn, cn) => Waiting(v, sn, cn)
             /\ Snrm(w) => Snrm(v)
             /\ ~Answering => \A u, t, b : \A i, j \in Nat :
                  Between(mode.lossy, w, "server", u, t, b, i, j) => Between(mode.lossy, v, "server", u, t, b, i, j)
<1>3. Kept
  <2>1. CASE w # <<>> /\ v = Tail(w) /\ (mode.lossy \/ ~Mine(Head(w), "server") \/ Answering)
    <3>1. ~Answering => \A u, t, b : \A i, j \in Nat :
            Between(mode.lossy, w, "server", u, t, b, i, j) => Between(mode.lossy, v, "server", u, t, b, i, j)
      BY <1>2, <2>1, BetweenKeeps
    <3> QED
      BY <1>2, <2>1, <3>1, TailKeeps
  <2>2. ASSUME NEW f, v = Append(w, f), f.ctl = "I", f.to = "neighbour"
        PROVE  Kept
    <3>1. ~Talk(f) /\ ~Mine(f, "server") /\ f.ctl # "RR"
      BY <2>2 DEF Talk, Mine
    <3>2. \A u, t, b : \A i, j \in Nat :
            Between(mode.lossy, w, "server", u, t, b, i, j) => Between(mode.lossy, v, "server", u, t, b, i, j)
      BY <1>2, <2>2, <3>1, BetweenKeeps
    <3>3. f.ctl \in {"I", "RR"} /\ f.ctl \notin {"SNRM"}
      BY <2>2
    <3> QED
      BY <1>2, <2>2, <3>1, <3>2, <3>3, AppendKeeps
  <2> QED
    BY <1>1, <2>1, <2>2
<1>4. ClientOK'
  BY <1>1, <1>3 DEF Situation, ClientOK
<1>5. (Up("client")' <=> Up("client")) /\ (Up("server")' <=> Up("server"))
  BY DEF Up
<1>6. Opening => Opening'
  <2>1. (Opened => Opened') /\ (Sending("server")' <=> Sending("server"))
    BY <1>5 DEF Opened, Sending, SegmenterDone
  <2> QED
    BY <1>1, <1>3, <2>1 DEF Opening
<1>7. ClientOnly => ClientOnly'
  BY <1>1, <1>3 DEF ClientOnly
<1>8. ServerOnly => ServerOnly'
  BY <1>1, <1>3 DEF ServerOnly
<1>9. (Silent => Silent') /\ (Heard => Heard') /\ \A n : (Earlier(n) => Earlier(n)')
  BY DEF Silent, Heard, SegmenterDone, Earlier
<1>10. Rest => Rest'
  BY <1>1, <1>3, <1>9 DEF Rest, Earlier
<1>11. ASSUME Asking, ~Answering
       PROVE  Asking'
  <2>1. PICK n \in Sizes, b \in Numbers, i \in Nat, j \in Nat : Requesting(n, b, i, j)
    BY <1>11 DEF Asking
  <2>2. Requesting(n, b, i, j)'
    BY <1>1, <1>3, <1>11, <2>1 DEF Requesting, Flow, SegmenterDone
  <2>3. Silent' /\ asking' <= Units /\ Earlier(asking)'
    BY <1>9, <1>11 DEF Asking, Earlier
  <2>4. Polling(wire'["server"], conn'["client"].nr)
    BY <1>1, <1>3, <1>11 DEF Asking
  <2>5. Polls(wire'["server"]) => SegmenterDone("client")' /\ event'["server"] # "Lsdu"
    BY <1>1, <1>3, <1>11 DEF Asking, SegmenterDone
  <2> QED
    BY <2>2, <2>3, <2>4, <2>5 DEF Asking
<1>12. ASSUME Answering
       PROVE  Answering'
  <2>1. PICK n \in Sizes, b \in Numbers, i \in Nat, j \in Nat : Responding(n, b, i, j)
    BY <1>12 DEF Answering
  <2>2. Responding(n, b, i, j)'
    BY <2>1 DEF Responding, Flow
  <2>3. Heard' /\ asking' <= Units /\ Earlier(asking + 1)'
    BY <1>9, <1>12 DEF Answering, Earlier
  <2>4. Waiting(wire'["server"], conn'["server"].nr, conn'["client"].nr)
    BY <1>1, <1>3, <1>12 DEF Answering
  <2>5. Talks(wire'["server"]) =>
          event'["client"] = "Idle" /\ wire'["client"] = <<>> /\ ~Sending("server")'
    BY <1>1, <1>3, <1>12 DEF Answering, Sending, SegmenterDone
  <2>6. SegmenterDone("client")' /\ IsOld(last', conn'["server"].nr) /\ out'["client"] # Nothing
        /\ event'["client"] \in {"Idle", "PollRequired", "Lsdu"}
    BY <1>12 DEF Answering, SegmenterDone
  <2> QED
    BY <2>2, <2>3, <2>4, <2>5, <2>6 DEF Answering
<1>13. BothUp => BothUp'
  BY <1>1, <1>3, <1>10, <1>11, <1>12 DEF BothUp
<1> QED
  BY <1>4, <1>5, <1>6, <1>7, <1>8, <1>13 DEF Situation

\* On the wire to the client a frame is lost, or passes that it does not count.
LEMMA ClientLine ==
  ASSUME Inv, Situation, UNCHANGED <<mode, conn, into, out, event, last, asking, handed>>,
         wire["client"] # <<>>, wire'["client"] = Tail(wire["client"]), wire'["server"] = wire["server"],
         mode.lossy \/ ~Mine(Head(wire["client"]), "client")
  PROVE  Situation'
<1>1. PICK w, v : w = wire["client"] /\ v = wire'["client"]
  OBVIOUS
<1>2. w \in Seq(Letters)
  BY <1>1, Parts
<1>3. /\ (Only(w, {"DM", "DISC"}) => Only(v, {"DM", "DISC"})) /\ (AllMine(w, "client") => AllMine(v, "client"))
      /\ Ua(w) => Ua(v)
  BY <1>1, <1>2, TailKeeps
<1>4. \A u, t, b : \A i, j \in Nat :
        Between(mode.lossy, w, "client", u, t, b, i, j) => Between(mode.lossy, v, "client", u, t, b, i, j)
  <2>1. w # <<>> /\ v = Tail(w) /\ (mode.lossy \/ ~Mine(Head(w), "client"))
    BY <1>1
  <2> QED
    BY <1>2, <2>1, BetweenKeeps
<1>5. ClientOK'
  BY DEF Situation, ClientOK
<1>6. (Up("client")' <=> Up("client")) /\ (Up("server")' <=> Up("server"))
  BY DEF Up
<1>7. Opening => Opening'
  <2>1. (Opened => Opened') /\ (Sending("server")' <=> Sending("server"))
    BY <1>6 DEF Opened, Sending, SegmenterDone
  <2> QED
    BY <1>1, <1>3, <2>1 DEF Opening
<1>8. ClientOnly => ClientOnly'
  BY <1>1, <1>3 DEF ClientOnly
<1>9. ServerOnly => ServerOnly'
  BY DEF ServerOnly
<1>10. ~Rest /\ ~Asking
  BY DEF Rest, Asking, Silent
<1>11. ASSUME Answering
       PROVE  Answering'
  <2>1. PICK n \in Sizes, b \in Numbers, i \in Nat, j \in Nat : Responding(n, b, i, j)
    BY <1>11 DEF Answering
  <2>2. Responding(n, b, i, j)'
    BY <1>1, <1>4, <2>1 DEF Responding, Flow
  <2>3. Heard' /\ asking' <= Units /\ Earlier(asking + 1)'
    BY <1>11 DEF Answering, Heard, Earlier
  <2>4. Waiting(wire'["server"], conn'["server"].nr, conn'["client"].nr) /\ ~Talks(wire'["server"])
    BY <1>11 DEF Answering
  <2>5. SegmenterDone("client")' /\ IsOld(last', conn'["server"].nr) /\ out'["client"] # Nothing
        /\ event'["client"] \in {"Idle", "PollRequired", "Lsdu"}
    BY <1>11 DEF Answering, SegmenterDone
  <2> QED
    BY <2>2, <2>3, <2>4, <2>5 DEF Answering
<1>12. BothUp => BothUp'
  BY <1>1, <1>3, <1>10, <1>11 DEF BothUp
<1> QED
  BY <1>5, <1>6, <1>7, <1>8, <1>9, <1>12 DEF Situation

\* A frame is lost.
LEMMA LoseUnits ==
  ASSUME Inv, Situation, NEW e \in Ends, Lose(e)
  PROVE  Situation'
<1>1. /\ mode.lossy /\ wire[e] # <<>> /\ wire' = [wire EXCEPT ![e] = Tail(@)]
      /\ UNCHANGED <<mode, conn, into, out, event, last, asking, got, handed, bus>>
  BY DEF Lose
<1>2. wire'[e] = Tail(wire[e]) /\ wire'[Peer(e)] = wire[Peer(e)]
  BY <1>1, Parts, TwoEnds
<1> QED
  BY <1>1, <1>2, TwoEnds, ServerLine, ClientLine

\* A neighbour on the bus.
LEMMA NeighbourUnits ==
  ASSUME Inv, Situation, Neighbour
  PROVE  Situation'
<1>1. PICK n \in 0 .. Mod - 1 :
        wire' = [wire EXCEPT !["server"] =
                   Append(@, [to |-> "neighbour", ctl |-> "I", ns |-> n, nr |-> 0, segmented |-> FALSE,
                              pf |-> TRUE, info |-> Unit("neighbour", 1, 1)])]
  BY DEF Neighbour
<1>2. PICK f : f = [to |-> "neighbour", ctl |-> "I", ns |-> n, nr |-> 0, segmented |-> FALSE,
                    pf |-> TRUE, info |-> Unit("neighbour", 1, 1)]
  OBVIOUS
<1>3. f.ctl = "I" /\ f.to = "neighbour" /\ wire' = [wire EXCEPT !["server"] = Append(@, f)]
  BY <1>1, <1>2
<1>4. wire'["server"] = Append(wire["server"], f) /\ wire'["client"] = wire["client"]
  BY <1>3, Parts, TwoEnds
<1>5. UNCHANGED <<mode, conn, into, out, event, last, asking, handed>>
  BY DEF Neighbour
<1> QED
  BY <1>3, <1>4, <1>5, ServerLine

\* Where the segment begins that ends at s.
LEMMA Backwards ==
  ASSUME NEW t \in Nat \ {0}, NEW x \in Nat, NEW s \in Nat, Place(t, x) < s, s <= Place(t, x + 1)
  PROVE  ((s - 1) \div t) * t = Place(t, x)
<1>1. Place(t, x) \in Nat /\ Place(t, x + 1) = Place(t, x) + t
  BY Places
<1>2. PICK m \in Nat : m = s - 1 /\ Place(t, x) <= m /\ m < Place(t, x) + t
  BY <1>1
<1>3. PICK q \in Nat : q = m \div t
  OBVIOUS
<1>4. m % t \in 0 .. t - 1 /\ m = t * q + (m % t)
  BY <1>3
<1>5. t * q = Place(t, q)
  BY DEF Place
<1>6. Place(t, q) \in Nat /\ Place(t, q) <= m /\ m < Place(t, q) + t
  <2>1. Place(t, q) \in Nat
    BY Places
  <2>2. PICK r \in 0 .. t - 1 : r = m % t /\ m = Place(t, q) + r
    BY <1>4, <1>5
  <2> QED
    BY <2>1, <2>2
<1>7. /\ q < x => Place(t, q) + t <= Place(t, x)
      /\ x < q => Place(t, x) + t <= Place(t, q)
  BY Places
<1>8. q = x
  BY <1>1, <1>2, <1>6, <1>7
<1> QED
  BY <1>2, <1>3, <1>8 DEF Place

\* The polled station sends the next segment, or the last one once more.
LEMMA PolledSendUnits ==
  ASSUME Inv, Situation, PolledSend
  PROVE  Situation'
<1> DEFINE h == Head(wire["server"])
           f == Field("server", ResumeAt, h.nr)
           sent == out["server"].sent
           end == FieldEnd("server", ResumeAt)
           ns == IF ResumeAt < sent THEN conn["server"].ns ELSE NextNs("server")
<1>1. /\ wire["server"] # <<>> /\ h.ctl = "RR" /\ mode.polled /\ event["server"] = "Idle"
      /\ conn["server"].state = "Connected" /\ sent > 0 /\ ResumeAt < Len(out["server"].unit)
      /\ wire' = [wire EXCEPT !["server"] = Tail(@), !["client"] = Append(@, f)]
      /\ out' = [out EXCEPT !["server"].sent = end]
      /\ conn' = [conn EXCEPT !["server"].ns = ns]
      /\ UNCHANGED <<mode, into, event, last, asking, got, handed, bus>>
  <2>1. /\ AsksForMore("server") /\ event["server"] = "Idle"
        /\ wire' = [wire EXCEPT !["server"] = Tail(@), !["client"] = Append(@, f)]
        /\ out' = [out EXCEPT !["server"].sent = end]
        /\ conn' = [conn EXCEPT !["server"].ns = IF ResumeAt < sent THEN @ ELSE NextNs("server")]
        /\ UNCHANGED <<mode, into, event, last, asking, got, handed, bus>>
    BY DEF PolledSend
  <2>2. conn' = [conn EXCEPT !["server"].ns = ns]
    BY <2>1, Parts, TwoEnds DEF Inv
  <2> QED
    BY <2>1, <2>2 DEF AsksForMore
<1>2. ResumeAt = IF h.nr = conn["server"].ns THEN sent
                 ELSE ((sent - 1) \div conn["server"].par.tx) * conn["server"].par.tx
  BY DEF ResumeAt
<1> HIDE DEF f, ns, end
<1>3. /\ wire'["server"] = Tail(wire["server"]) /\ wire'["client"] = Append(wire["client"], f)
      /\ conn'["client"] = conn["client"] /\ out'["client"] = out["client"]
  BY <1>1, Parts, TwoEnds DEF Inv
<1>4. /\ conn'["server"].state = conn["server"].state /\ conn'["server"].nr = conn["server"].nr
      /\ conn'["server"].par = conn["server"].par /\ conn'["server"].ns = ns
  BY <1>1, Parts, TwoEnds DEF Inv, Connections
<1>5. out'["server"].unit = out["server"].unit /\ out'["server"].sent = end
  BY <1>1, TwoEnds DEF Inv, Segmenters
<1>6. /\ Talk(h) /\ h \in Letters /\ 1 \in DOMAIN wire["server"] /\ wire["server"][1] = h
      /\ Talks(wire["server"]) /\ Polls(wire["server"]) /\ h.to \in Ends
  <2>1. h \in Letters /\ 1 \in DOMAIN wire["server"] /\ wire["server"][1] = h
    BY <1>1, Parts
  <2>2. h.to \in Ends
    BY <1>1, <2>1, Kinds DEF Rrs
  <2> QED
    BY <1>1, <2>1, <2>2 DEF Talk, Talks, Polls
<1>7. ClientOK'
  BY <1>1, <1>3, Parts, TailKeeps DEF Situation, ClientOK
<1>8. Up("server") /\ Up("server")' /\ (Up("client")' <=> Up("client"))
  BY <1>1, <1>3, <1>4 DEF Up
<1>9. conn["client"].state # "Connecting"
  <2>1. h.to # "neighbour"
    BY <1>6 DEF Ends
  <2> QED
    BY <1>1, <1>6, <2>1 DEF Situation, Opening, Snrm
<1>10. CASE ~Up("client")
  <2>1. ServerOnly'
    BY <1>1, <1>3, <1>8, <1>9, <1>10, Parts, TailKeeps DEF Situation, ServerOnly
  <2> QED
    BY <1>3, <1>7, <1>8, <1>9, <1>10, <2>1 DEF Situation
<1>11. CASE Up("client")
  <2>1. BothUp
    BY <1>8, <1>11 DEF Situation
  <2>2. ~Asking
    <3>1. SUFFICES ASSUME Asking PROVE FALSE
      OBVIOUS
    <3>2. h.nr = conn["client"].nr
      <4>1. Polling(wire["server"], conn["client"].nr)
        BY <3>1 DEF Asking
      <4> QED
        BY <1>1, <1>6, <4>1 DEF Polling
    <3>3. ResumeAt = sent /\ sent >= Len(out["server"].unit)
      BY <1>2, <3>1, <3>2 DEF Asking, Silent, SegmenterDone
    <3>4. sent \in Nat /\ Len(out["server"].unit) \in Nat
      BY TwoEnds, Types
    <3> QED
      BY <1>1, <3>3, <3>4
  <2>3. Answering
    BY <1>6, <2>1, <2>2 DEF BothUp, Rest
  <2>4. PICK n \in Sizes, b \in Numbers, i \in Nat, j \in Nat : Responding(n, b, i, j)
    BY <2>3 DEF Answering
  <2>5. PICK u \in Ordered : u = Unit("server", asking, n) /\ u \in Text
    BY TwoEnds, UnitsThere
  <2>6. PICK t \in Nat \ {0} : t = Limit("server")
    BY TwoEnds, LimitFacts
  <2>7. event["client"] = "Idle" /\ wire["client"] = <<>>
    BY <1>6, <2>3 DEF Answering
  <2>8. /\ j <= i /\ Gone(conn["server"], out["server"], u, t, b, i)
        /\ Come(conn["client"], into["client"], u, t, b, j)
        /\ Between(mode.lossy, wire["client"], "client", u, t, b, i, j)
        /\ ~Whole(u, t, j) /\ i <= j + 1
    BY <1>1, <2>4, <2>5, <2>6, <2>7 DEF Responding, Flow
  <2>9. b \in Nat /\ conn["server"].par.tx = t /\ out["server"].unit = u
        /\ conn["server"].ns = (b + i) % Mod /\ conn["client"].nr = (b + j) % Mod
    BY <2>1, <2>6, <2>8, Bounds DEF BothUp, Gone, Come, Numbers
  <2>10. ~Talks(Tail(wire["server"])) /\ h.nr = conn["client"].nr
    <3>1. ~IsOld(h, conn["server"].nr)
      BY <1>1 DEF IsOld, Mine
    <3>2. Waiting(wire["server"], conn["server"].nr, conn["client"].nr)
      BY <2>3 DEF Answering
    <3>3. h.nr = conn["client"].nr
      BY <1>1, <1>6, <3>1, <3>2 DEF Waiting
    <3>4. ~Talks(Tail(wire["server"]))
      BY <1>1, <1>6, <3>2, Parts, TailKeeps
    <3> QED
      BY <3>3, <3>4
  <2>11. PICK k \in Nat :
            /\ j <= k /\ k <= j + 1 /\ Mine(f, "client")
            /\ Gone(conn'["server"], out'["server"], u, t, b, k)
            /\ Between(mode.lossy, Append(wire["client"], f), "client", u, t, b, k, j)
    <3>1. CASE i = j
      <4>1. ResumeAt = sent /\ ns = NextNs("server")
        BY <1>2, <2>9, <2>10, <3>1, TwoEnds, Types DEF ns
      <4>2. sent = Place(t, i) /\ Place(t, i) < Len(u)
        BY <1>1, <2>5, <2>8, <2>9, <4>1, GoneFacts
      <4>3. f = Field("server", sent, conn["server"].ns) /\ end = FieldEnd("server", sent)
        BY <2>9, <2>10, <3>1, <4>1 DEF f, end
      <4>4. /\ IsSegment(f, u, t, b, i) /\ Mine(f, "client")
            /\ end = Smaller(Place(t, i + 1), Len(u))
        <5>1. PICK at, ns0 : at = sent /\ ns0 = conn["server"].ns
          OBVIOUS
        <5>2. /\ u \in Text /\ b \in Nat /\ out["server"].unit = u /\ conn["server"].par.tx = t
              /\ at = Place(t, i) /\ at < Len(u) /\ ns0 = (b + i) % Mod
          BY <2>5, <2>9, <4>2, <5>1
        <5>3. /\ IsSegment(Field("server", at, ns0), u, t, b, i) /\ Mine(Field("server", at, ns0), Peer("server"))
              /\ FieldEnd("server", at) = Smaller(Place(t, i + 1), Len(u))
          BY <5>2, TwoEnds, NextSegment
        <5> QED
          BY <4>3, <5>1, <5>3, TwoEnds
      <4>5. Gone(conn'["server"], out'["server"], u, t, b, i + 1)
        <5>1. PICK c, o : c = conn'["server"] /\ o = out'["server"]
          OBVIOUS
        <5>2. c.ns = (conn["server"].ns + 1) % Mod /\ o.unit = out["server"].unit
              /\ o.sent = Smaller(Place(t, i + 1), Len(u))
          BY <1>4, <1>5, <4>1, <4>4, <5>1 DEF NextNs
        <5>3. Gone(c, o, u, t, b, i + 1)
          BY <2>5, <2>8, <2>9, <4>2, <5>2, GoneFacts
        <5> QED
          BY <5>1, <5>3
      <4>6. Between(mode.lossy, Append(wire["client"], f), "client", u, t, b, i + 1, j)
        BY <2>8, <4>4, Parts, BetweenSend
      <4> QED
        BY <3>1, <4>4, <4>5, <4>6
    <3>2. CASE i = j + 1
      <4>1. h.nr # conn["server"].ns
        <5>1. PICK a \in Nat, k \in Nat : a = b + j /\ k = 1 /\ k < Mod /\ a + k = b + i
          BY <2>9, <3>2, Bounds
        <5>2. (a + k) % Mod # a % Mod
          BY <5>1, Modular
        <5> QED
          BY <2>9, <2>10, <5>1, <5>2
      <4>2. /\ Place(t, j) \in Nat /\ Place(t, j + 1) = Place(t, j) + t /\ Len(u) \in Nat
            /\ sent = Smaller(Place(t, j + 1), Len(u)) /\ Place(t, j) < Len(u) /\ conn["server"].ns = (b + i) % Mod
        <5>1. i > 0 /\ i - 1 = j
          BY <3>2
        <5>2. Place(t, j) \in Nat /\ Place(t, j + 1) = Place(t, j) + t
          BY Places
        <5> QED
          BY <2>5, <2>8, <3>2, <5>1, <5>2 DEF Gone, Text
      <4>3. sent \in Nat /\ Place(t, j) < sent /\ sent <= Place(t, j + 1)
        BY <4>2 DEF Smaller
      <4>4. ResumeAt = Place(t, j) /\ ns = conn["server"].ns
        <5>1. ((sent - 1) \div t) * t = Place(t, j)
          BY <4>3, Backwards
        <5> QED
          BY <1>2, <2>9, <4>1, <4>3, <5>1 DEF ns
      <4>5. f = Field("server", Place(t, j), conn["client"].nr) /\ end = FieldEnd("server", Place(t, j))
        BY <2>10, <4>4 DEF f, end
      <4>6. /\ IsSegment(f, u, t, b, j) /\ Mine(f, "client")
            /\ end = Smaller(Place(t, j + 1), Len(u))
        <5>1. PICK at, ns0 : at = Place(t, j) /\ ns0 = conn["client"].nr
          OBVIOUS
        <5>2. /\ u \in Text /\ b \in Nat /\ out["server"].unit = u /\ conn["server"].par.tx = t
              /\ at = Place(t, j) /\ at < Len(u) /\ ns0 = (b + j) % Mod
          BY <2>5, <2>9, <4>2, <5>1
        <5>3. /\ IsSegment(Field("server", at, ns0), u, t, b, j) /\ Mine(Field("server", at, ns0), Peer("server"))
              /\ FieldEnd("server", at) = Smaller(Place(t, j + 1), Len(u))
          BY <5>2, TwoEnds, NextSegment
        <5> QED
          BY <4>5, <5>1, <5>3, TwoEnds
      <4>7. Gone(conn'["server"], out'["server"], u, t, b, i)
        BY <1>4, <1>5, <2>8, <4>2, <4>4, <4>6 DEF Gone
      <4>8. Between(mode.lossy, wire["client"], "client", u, t, b, j, j)
        <5>1. DOMAIN wire["client"] = {} /\ j .. j - 1 = {}
          BY <2>7
        <5> QED
          BY <5>1 DEF Between
      <4>9. Between(mode.lossy, Append(wire["client"], f), "client", u, t, b, j + 1, j)
        BY <4>6, <4>8, Parts, BetweenSend
      <4> QED
        BY <3>2, <4>6, <4>7, <4>9
    <3> QED
      BY <2>8, <3>1, <3>2
  <2>12. Responding(n, b, k, j)'
    BY <1>1, <1>3, <2>5, <2>6, <2>7, <2>8, <2>11 DEF Responding, Flow
  <2>13. Heard' /\ asking' <= Units /\ Earlier(asking + 1)'
    BY <1>1, <1>3, <1>4, <2>3 DEF Answering, Heard, Earlier
  <2>14. /\ ~Talks(wire'["server"])
         /\ Waiting(wire'["server"], conn'["server"].nr, conn'["client"].nr)
    BY <1>3, <2>10 DEF Talks, Waiting
  <2>15. /\ out'["client"] # Nothing /\ SegmenterDone("client")' /\ IsOld(last', conn'["server"].nr)
         /\ event'["client"] \in {"Idle", "PollRequired", "Lsdu"}
    BY <1>1, <1>3, <1>4, <2>3 DEF Answering, SegmenterDone
  <2>16. Answering'
    BY <2>12, <2>13, <2>14, <2>15 DEF Answering
  <2>17. AllMine(wire'["client"], "client") /\ Only(wire'["server"], {"I", "RR"})
    <3>1. AllMine(wire["client"], "client") /\ Only(wire["server"], {"I", "RR"})
      BY <2>1 DEF BothUp
    <3>2. AllMine(Append(wire["client"], f), "client")
      BY <2>11, <3>1, Parts, AppendKeeps
    <3>3. Only(Tail(wire["server"]), {"I", "RR"})
      BY <1>1, <3>1, Parts, TailKeeps
    <3> QED
      BY <1>3, <3>2, <3>3
  <2>18. BothUp'
    BY <1>3, <1>4, <2>1, <2>16, <2>17 DEF BothUp
  <2> QED
    BY <1>3, <1>7, <1>8, <1>9, <1>11, <2>18 DEF Situation
<1> QED
  BY <1>10, <1>11

\* When all of a unit is there, all of it was sent, and nothing else; and the last segment
\* is the frame that was accepted last.
LEMMA AllCome ==
  ASSUME NEW u \in Text, NEW t \in Nat \ {0}, NEW b \in Nat, NEW i \in Nat, NEW j \in Nat, j <= i,
         NEW c, NEW o, Gone(c, o, u, t, b, i), Whole(u, t, j)
  PROVE  /\ i = j /\ i > 0 /\ o.sent = Len(u) /\ o.unit = u /\ c.ns = (b + i) % Mod
         /\ \A f, nr : Mine(f, "server") /\ IsSegment(f, u, t, b, i - 1) /\ nr = (b + i) % Mod => IsOld(f, nr)
<1>1. Len(u) \in Nat /\ Place(t, j) \in Nat /\ Place(t, i) \in Nat /\ j > 0 /\ Place(t, j) >= Len(u)
  BY Places DEF Whole, Text
<1>2. i = j
  <2>1. SUFFICES ASSUME j < i PROVE FALSE
    OBVIOUS
  <2>2. PICK k \in Nat : k = i - 1 /\ j <= k /\ Place(t, k) < Len(u)
    BY <2>1 DEF Gone
  <2>3. Place(t, k) \in Nat /\ (j < k => Place(t, j) + t <= Place(t, k))
    BY Places
  <2> QED
    BY <1>1, <2>2, <2>3
<1>3. o.sent = Len(u) /\ o.unit = u /\ c.ns = (b + i) % Mod
  BY <1>1, <1>2 DEF Gone, Smaller
<1>4. ASSUME NEW f, NEW nr, Mine(f, "server"), IsSegment(f, u, t, b, i - 1), nr = (b + i) % Mod
      PROVE  IsOld(f, nr)
  <2>1. PICK a \in Nat : a = b + (i - 1) /\ a + 1 = b + i
    BY <1>1, <1>2
  <2>2. (((a + 1) % Mod) + Mod - 1) % Mod = a % Mod
    BY Modular
  <2> QED
    BY <1>4, <2>1, <2>2 DEF IsSegment, IsOld
<1> QED
  BY <1>1, <1>2, <1>3, <1>4

\* The server's host takes a request and answers it.
LEMMA RespondUnits ==
  ASSUME Inv, History, Situation, Respond
  PROVE  History' /\ Situation'
<1> DEFINE d == into["server"].data
           v == d[1].unit
<1>1. PICK m \in Sizes : out' = [out EXCEPT !["server"] = [unit |-> Unit("server", v, m), sent |-> 0]]
  BY DEF Respond
<1>2. /\ event["server"] = "Lsdu" /\ got' = [got EXCEPT !["server"] = d] /\ handed' = Append(handed, v)
      /\ event' = [event EXCEPT !["server"] = "Idle"]
      /\ UNCHANGED <<mode, conn, into, wire, last, asking, bus>>
  BY DEF Respond
<1> HIDE DEF d
<1>3. Up("server") /\ Up("server")' /\ (Up("client")' <=> Up("client")) /\ conn["client"].state # "Connecting"
  <2>1. conn["server"].state = "Connected"
    BY <1>2, TwoEnds, Types
  <2>2. event'["server"] = "Idle" /\ event'["client"] = event["client"]
    BY <1>2, TwoEnds DEF Inv
  <2> QED
    BY <1>2, <2>1, <2>2 DEF Up, Situation, Opening
<1>4. Up("client") /\ Asking /\ BothUp
  <2>1. Up("client")
    BY <1>2, <1>3 DEF Situation, ServerOnly
  <2> QED
    BY <1>2, <1>3, <2>1 DEF Situation, BothUp, Rest, Answering, Heard
<1>5. PICK n \in Sizes, b \in Numbers, i \in Nat, j \in Nat : Requesting(n, b, i, j)
  BY <1>4 DEF Asking
<1>6. PICK u \in Text : u = Unit("client", asking, n) /\ Len(u) = n /\ n \in Nat \ {0} /\ u[1].unit = asking
  BY TwoEnds, UnitsThere
<1>7. PICK t \in Nat \ {0} : t = Limit("client")
  BY TwoEnds, LimitFacts
<1>8. /\ j <= i /\ Gone(conn["client"], out["client"], u, t, b, i)
      /\ Come(conn["server"], into["server"], u, t, b, j)
      /\ Between(mode.lossy, wire["server"], "server", u, t, b, i, j)
      /\ Whole(u, t, j)
      /\ SegmenterDone("client") => Mine(last, "server") /\ IsSegment(last, u, t, b, i - 1)
  BY <1>2, <1>5, <1>6, <1>7 DEF Requesting, Flow
<1>9. b \in Nat
  BY Bounds DEF Numbers
<1>10. /\ i = j /\ out["client"].sent = Len(u) /\ out["client"].unit = u
       /\ conn["client"].ns = (b + i) % Mod
       /\ \A f, nr : Mine(f, "server") /\ IsSegment(f, u, t, b, i - 1) /\ nr = (b + i) % Mod => IsOld(f, nr)
  <2>1. PICK c, o : c = conn["client"] /\ o = out["client"]
    OBVIOUS
  <2>2. /\ i = j /\ o.sent = Len(u) /\ o.unit = u /\ c.ns = (b + i) % Mod
        /\ \A f, nr : Mine(f, "server") /\ IsSegment(f, u, t, b, i - 1) /\ nr = (b + i) % Mod => IsOld(f, nr)
    BY <1>8, <1>9, <2>1, AllCome
  <2> QED
    BY <2>1, <2>2
<1>11. d = u /\ into["server"].complete /\ conn["server"].nr = (b + i) % Mod /\ v = asking
  BY <1>6, <1>8, <1>10 DEF Come, d
<1>12. SegmenterDone("client") /\ IsOld(last, conn["server"].nr)
  <2>1. SegmenterDone("client")
    BY <1>6, <1>10 DEF SegmenterDone
  <2> QED
    BY <1>8, <1>10, <1>11, <2>1
<1> DEFINE o == [unit |-> Unit("server", v, m), sent |-> 0]
<1>13. o.unit = Unit("server", asking, m) /\ o.sent = 0
  BY <1>11
<1> HIDE DEF v, o
<1>14. /\ out'["server"] = o /\ out'["client"] = out["client"]
       /\ event'["server"] = "Idle" /\ event'["client"] = event["client"]
  BY <1>1, <1>2, TwoEnds DEF Inv, o
<1>15. History'
  <2>1. UnitsIntact'
    <3>1. \A e \in Ends : got'[e] = got[e] \/ (e = "server" /\ got'[e] = u) \/ got'[e] = <<>>
      BY <1>2, <1>11, TwoEnds
    <3>2. asking \in 1 .. Units
      BY <1>4, Bounds DEF Asking, History, Inv
    <3> QED
      BY <1>6, <3>1, <3>2, TwoEnds DEF History, UnitsIntact
  <2>2. asking \in Nat /\ handed \in Seq(Nat) /\ Earlier(asking) /\ handed' = Append(handed, asking)
    BY <1>2, <1>4, <1>11 DEF Inv, History, Asking
  <2>3. PICK k \in Nat : k = Len(handed) /\ DOMAIN handed = 1 .. k /\ DOMAIN handed' = 1 .. k + 1
                         /\ handed'[k + 1] = asking /\ \A x \in 1 .. k : handed'[x] = handed[x]
    BY <2>2, LineFacts
  <2>4. \A x \in 1 .. k : handed[x] \in Nat /\ handed[x] < asking
    BY <2>2, <2>3 DEF Earlier
  <2>5. \A x, y \in DOMAIN handed' : x < y => handed'[x] < handed'[y]
    <3>1. ASSUME NEW x \in 1 .. k + 1, NEW y \in 1 .. k + 1, x < y
          PROVE  handed'[x] < handed'[y]
      <4>1. x \in 1 .. k /\ (y \in 1 .. k \/ y = k + 1)
        BY <3>1
      <4>2. y \in 1 .. k => handed[x] < handed[y]
        BY <2>3, <3>1, <4>1 DEF History, OncePerLink
      <4> QED
        BY <2>3, <2>4, <4>1, <4>2
    <3> QED
      BY <2>3, <3>1
  <2>6. \A x \in DOMAIN handed' : handed'[x] < asking + 1
    <3>1. ASSUME NEW x \in 1 .. k + 1
          PROVE  handed'[x] < asking + 1
      <4>1. x \in 1 .. k \/ x = k + 1
        BY <3>1
      <4> QED
        BY <2>2, <2>3, <2>4, <4>1
    <3> QED
      BY <2>3, <3>1
  <2>7. handed' \in Seq(Nat)
    BY <2>2
  <2> QED
    BY <1>2, <2>1, <2>5, <2>6, <2>7 DEF History, OncePerLink, Earlier
<1>16. ClientOK'
  BY <1>2, <1>14 DEF Situation, ClientOK
<1>17. /\ conn["server"].ns = conn["client"].nr /\ Clean(into["client"])
       /\ wire["client"] = <<>> /\ event["client"] = "Idle"
  BY <1>4 DEF Asking, Silent
<1>18. Heard' /\ asking' <= Units /\ Earlier(asking + 1)'
  <2>1. Earlier(asking + 1)'
    BY <1>15 DEF History
  <2> QED
    BY <1>2, <1>4, <1>10, <1>11, <1>14, <2>1 DEF Heard, Clean, Asking
<1>19. ~Talks(wire["server"])
  <2>1. ~Fields(wire["server"], "server")
    BY <1>8, <1>10, NothingBetween
  <2>2. ~Polls(wire["server"])
    BY <1>2, <1>4 DEF Asking
  <2> QED
    BY <2>1, <2>2 DEF Talks, Talk, Fields, Polls
<1>20. Waiting(wire'["server"], conn'["server"].nr, conn'["client"].nr) /\ ~Talks(wire'["server"])
  BY <1>2, <1>19 DEF Talks, Waiting
<1>21. out'["client"] # Nothing /\ SegmenterDone("client")' /\ IsOld(last', conn'["server"].nr)
  <2>1. out["client"] # Nothing
    <3>1. u # <<>>
      BY <1>6
    <3> QED
      BY <1>10, <3>1, NothingDone
  <2> QED
    BY <1>2, <1>12, <1>14, <2>1 DEF SegmenterDone
<1>22. Responding(m, conn["server"].ns, 0, 0)'
  <2>1. PICK c \in Numbers : c = conn["server"].ns
    BY TwoEnds, Types
  <2>2. PICK s \in Text : s = Unit("server", asking, m)
    BY TwoEnds, UnitsThere
  <2>3. PICK x \in Nat \ {0} : x = Limit("server")
    BY TwoEnds, LimitFacts
  <2>4. ~Fields(wire["client"], "client")
    BY <1>17, EmptyWire
  <2>5. /\ Gone(conn["server"], o, s, x, c, 0) /\ Come(conn["client"], into["client"], s, x, c, 0)
        /\ Between(mode.lossy, wire["client"], "client", s, x, c, 0, 0) /\ ~Whole(s, x, 0)
    BY <1>13, <1>17, <2>1, <2>2, <2>4, Parts, StartFlow, ZenonT(40)
  <2>6. Flow("server", "client", s, c, 0, 0)'
    BY <1>2, <1>14, <2>3, <2>5 DEF Flow
  <2>7. Responding(m, c, 0, 0)'
    BY <1>2, <1>14, <1>17, <2>2, <2>3, <2>5, <2>6 DEF Responding
  <2> QED
    BY <1>2, <2>1, <2>7
<1>23. Answering'
  <2>1. PICK c \in Numbers : c = conn'["server"].ns /\ c = conn["server"].ns
    BY <1>2, TwoEnds, Types
  <2>2. Responding(m, c, 0, 0)'
    BY <1>22, <2>1
  <2> QED
    BY <1>14, <1>17, <1>18, <1>20, <1>21, <2>2 DEF Answering
<1>24. BothUp'
  BY <1>2, <1>4, <1>23 DEF BothUp
<1> QED
  BY <1>2, <1>3, <1>4, <1>15, <1>16, <1>24 DEF Situation

\* The client's host takes the response.
LEMMA TakeResponseUnits ==
  ASSUME Inv, History, Situation, TakeResponse
  PROVE  History' /\ Situation'
<1>1. /\ event["client"] = "Lsdu" /\ got' = [got EXCEPT !["client"] = into["client"].data]
      /\ out' = [out EXCEPT !["client"] = Nothing] /\ asking' = asking + 1
      /\ event' = [event EXCEPT !["client"] = "Idle"]
      /\ UNCHANGED <<mode, conn, into, wire, last, handed, bus>>
  BY DEF TakeResponse
<1>2. /\ out'["client"] = Nothing /\ out'["server"] = out["server"]
      /\ event'["client"] = "Idle" /\ event'["server"] = event["server"]
  BY <1>1, TwoEnds DEF Inv
<1>3. /\ conn["client"].state = "Connected" /\ Up("client") /\ Up("client")'
      /\ (Up("server")' <=> Up("server"))
  <2>1. conn["client"].state = "Connected"
    BY <1>1, TwoEnds, Types
  <2> QED
    BY <1>1, <1>2, <2>1 DEF Up
<1>4. Up("server") /\ BothUp /\ Answering
  <2>1. Up("server")
    BY <1>1, <1>3 DEF Situation, ClientOnly
  <2> QED
    BY <1>1, <1>3, <2>1 DEF Situation, BothUp, Rest, Asking, Silent
<1>5. PICK n \in Sizes, b \in Numbers, i \in Nat, j \in Nat : Responding(n, b, i, j)
  BY <1>4 DEF Answering
<1>6. PICK u \in Text : u = Unit("server", asking, n)
  BY TwoEnds, UnitsThere
<1>7. PICK t \in Nat \ {0} : t = Limit("server")
  BY TwoEnds, LimitFacts
<1>8. /\ j <= i /\ Gone(conn["server"], out["server"], u, t, b, i)
      /\ Come(conn["client"], into["client"], u, t, b, j)
      /\ Between(mode.lossy, wire["client"], "client", u, t, b, i, j)
      /\ Whole(u, t, j)
  BY <1>1, <1>5, <1>6, <1>7 DEF Responding, Flow
<1>9. b \in Nat
  BY Bounds DEF Numbers
<1>10. i = j /\ out["server"].sent = Len(u) /\ out["server"].unit = u /\ conn["server"].ns = (b + i) % Mod
  BY <1>8, <1>9, AllCome
<1>11. into["client"].data = u /\ into["client"].complete /\ conn["client"].nr = (b + i) % Mod
  BY <1>8, <1>10 DEF Come
<1>12. asking \in Nat /\ asking <= Units /\ asking > 0 /\ Units \in Nat /\ handed \in Seq(Nat) /\ Earlier(asking + 1)
  BY <1>4, Bounds DEF Answering, History, Inv
<1>13. History'
  <2>1. UnitsIntact'
    <3>1. \A e \in Ends : got'[e] = got[e] \/ (e = "client" /\ got'[e] = u) \/ got'[e] = <<>>
      BY <1>1, <1>11, TwoEnds
    <3>2. asking \in 1 .. Units
      BY <1>12
    <3> QED
      BY <1>6, <3>1, <3>2, TwoEnds DEF History, UnitsIntact
  <2>2. Earlier(asking + 1)'
    <3>1. ASSUME NEW k \in DOMAIN handed
          PROVE  handed[k] < (asking + 1) + 1
      <4>1. handed[k] \in Nat /\ handed[k] < asking + 1
        BY <1>12 DEF Earlier
      <4> QED
        BY <1>12, <4>1
    <3> QED
      BY <1>1, <3>1 DEF Earlier
  <2>3. asking' \in Nat /\ asking' <= Units + 1 /\ asking' > 0
    BY <1>1, <1>12
  <2> QED
    BY <1>1, <2>1, <2>2, <2>3 DEF History, OncePerLink
<1>14. ClientOK'
  BY <1>1, <1>3 DEF Situation, ClientOK
<1>15. wire["client"] = <<>>
  <2>1. ~Fields(wire["client"], "client")
    BY <1>8, <1>10, NothingBetween
  <2> QED
    BY <1>4, <2>1, Parts, NothingLeft DEF BothUp
<1>16. Silent'
  <2>1. SegmenterDone("server")'
    <3>1. Len(u) \in Nat
      BY DEF Text
    <3> QED
      BY <1>2, <1>10, <3>1 DEF SegmenterDone
  <2> QED
    BY <1>1, <1>2, <1>10, <1>11, <1>15, <2>1 DEF Silent, Clean
<1>17. Heard' /\ Earlier(asking)' /\ ~Talks(wire'["server"])
  <2>1. Earlier(asking)'
    BY <1>1, <1>12 DEF Earlier
  <2> QED
    BY <1>1, <1>2, <1>4, <2>1 DEF Answering, Heard
<1>18. Rest'
  BY <1>2, <1>16, <1>17 DEF Rest
<1>19. BothUp'
  BY <1>1, <1>4, <1>18 DEF BothUp
<1> QED
  BY <1>1, <1>3, <1>4, <1>13, <1>14, <1>19 DEF Situation

\* What becomes of an end that takes a frame, and of the other end.
LEMMA HandleFacts ==
  ASSUME Inv, NEW e \in Ends, Handle(e)
  PROVE  LET f == Head(wire[e])
             a == Handled(e, f)
             opened == f.ctl \in {"SNRM", "DISC"} /\ a.event = "AcknowledgeRequired"
         IN  /\ wire[e] # <<>> /\ event[e] = "Idle" /\ ~Sending(e)
             /\ f \in Letters /\ Fit(e, f) /\ 1 \in DOMAIN wire[e] /\ wire[e][1] = f
             /\ conn'[e] = a.conn /\ into'[e] = a.into /\ event'[e] = Told(a.event)
             /\ wire'[e] = Tail(wire[e])
             /\ out'[e] = IF opened THEN Nothing ELSE out[e]
             /\ handed' = IF opened /\ e = "server" THEN <<>> ELSE handed
             /\ \A d \in Ends : d # e => /\ conn'[d] = conn[d] /\ into'[d] = into[d]
                                         /\ event'[d] = event[d] /\ wire'[d] = wire[d] /\ out'[d] = out[d]
             /\ UNCHANGED <<mode, last, asking, got, bus>>
<1> DEFINE f == Head(wire[e])
           a == Handled(e, f)
           opened == f.ctl \in {"SNRM", "DISC"} /\ a.event = "AcknowledgeRequired"
<1>1. /\ wire[e] # <<>> /\ event[e] = "Idle" /\ ~Sending(e)
      /\ conn' = [conn EXCEPT ![e] = a.conn] /\ into' = [into EXCEPT ![e] = a.into]
      /\ event' = [event EXCEPT ![e] = Told(a.event)]
      /\ out' = IF opened THEN [out EXCEPT ![e] = Nothing] ELSE out
      /\ handed' = IF opened /\ e = "server" THEN <<>> ELSE handed
      /\ wire' = [wire EXCEPT ![e] = Tail(@)]
      /\ UNCHANGED <<mode, last, asking, got, bus>>
  BY DEF Handle, Listening, Told
<1>2. f \in Fitting(e) /\ f \in Letters /\ Fit(e, f) /\ 1 \in DOMAIN wire[e] /\ wire[e][1] = f
  <2>1. f \in Fitting(e)
    BY <1>1, Taken DEF Inv
  <2>2. 1 \in DOMAIN wire[e] /\ wire[e][1] = f
    BY <1>1, Types
  <2> QED
    BY <2>1, <2>2 DEF Fitting
<1> HIDE DEF f, a, opened
<1>3. /\ conn'[e] = a.conn /\ into'[e] = a.into /\ event'[e] = Told(a.event)
      /\ wire'[e] = Tail(wire[e]) /\ out'[e] = IF opened THEN Nothing ELSE out[e]
      /\ \A d \in Ends : d # e => /\ conn'[d] = conn[d] /\ into'[d] = into[d]
                                  /\ event'[d] = event[d] /\ wire'[d] = wire[d] /\ out'[d] = out[d]
  BY <1>1, Parts DEF Inv
<1> QED
  BY <1>1, <1>2, <1>3 DEF f, a, opened

\* The server takes a field of a request.
LEMMA ServerTakes ==
  ASSUME Countable, Inv, Situation, Handle("server"), Asking, BothUp, Up("client"), Up("server"),
         Mine(Head(wire["server"]), "server")
  PROVE  (Up("server") /\ BothUp)' \/ (~Up("server") /\ ClientOnly)'
<1> DEFINE h == Head(wire["server"])
           a == HandleInformation(conn["server"], into["server"], h)
<1>1. h.ctl = "I" /\ h.to = "server" /\ Talk(h) /\ h.ctl # "RR"
  BY DEF Mine, Talk
<1>2. Handled("server", h) = a
  BY <1>1 DEF Handled, ForMe
<1> HIDE DEF a, h
<1>3. /\ wire["server"] # <<>> /\ event["server"] = "Idle"
      /\ 1 \in DOMAIN wire["server"] /\ wire["server"][1] = h
      /\ conn'["server"] = a.conn /\ into'["server"] = a.into /\ event'["server"] = Told(a.event)
      /\ wire'["server"] = Tail(wire["server"])
      /\ out'["server"] = out["server"] /\ handed' = handed
      /\ conn'["client"] = conn["client"] /\ into'["client"] = into["client"]
      /\ event'["client"] = event["client"] /\ wire'["client"] = wire["client"]
      /\ out'["client"] = out["client"]
      /\ UNCHANGED <<mode, last, asking, got, bus>>
  BY <1>1, <1>2, TwoEnds, HandleFacts DEF h
<1>4. PICK n \in Sizes, b \in Numbers, i \in Nat, j \in Nat : Requesting(n, b, i, j)
  BY DEF Asking
<1>5. PICK u \in Ordered : u = Unit("client", asking, n) /\ u \in Text /\ Len(u) = n
  BY TwoEnds, UnitsThere
<1>6. PICK t \in Nat \ {0} : t = Limit("client")
  BY TwoEnds, LimitFacts
<1>7. /\ j <= i /\ Gone(conn["client"], out["client"], u, t, b, i)
      /\ Come(conn["server"], into["server"], u, t, b, j)
      /\ Between(mode.lossy, wire["server"], "server", u, t, b, i, j)
      /\ ~Whole(u, t, j)
      /\ SegmenterDone("client") => Mine(last, "server") /\ IsSegment(last, u, t, b, i - 1)
  BY <1>3, <1>4, <1>5, <1>6 DEF Requesting, Flow
<1>8. PICK x \in j .. i - 1 : IsSegment(h, u, t, b, x) /\ (~mode.lossy => x = j)
  <2>1. PICK w, l : w = wire["server"] /\ l = mode.lossy
    OBVIOUS
  <2>2. /\ w \in Seq(Letters) /\ w # <<>> /\ Head(w) = h /\ Mine(Head(w), "server")
        /\ Between(l, w, "server", u, t, b, i, j)
    BY <1>3, <1>7, <2>1, Parts DEF h
  <2>3. \E x \in j .. i - 1 : IsSegment(Head(w), u, t, b, x) /\ (~l => x = j)
    BY <2>2, BetweenHead
  <2> QED
    BY <2>1, <2>2, <2>3
<1>9. b \in Nat /\ x \in Nat /\ j <= x /\ (x = j => j + 1 <= i)
  BY Bounds DEF Numbers
<1>10. x = j \/ Len(u) <= Mod * t
  BY <1>5, <1>6, <1>8, TwoEnds, LimitFacts DEF Inv
<1>11. conn["server"].state = "Connected" /\ conn["server"] \in Connections
  BY Parts DEF Up
<1>12. /\ a.conn.state = conn["server"].state /\ a.conn.ns = conn["server"].ns /\ a.conn.par = conn["server"].par
       /\ \/ a.event = "Err"
          \/ a.event = "Idle" /\ a.conn = conn["server"] /\ a.into = into["server"] /\ x # j
          \/ /\ x = j /\ Come(a.conn, a.into, u, t, b, j + 1)
             /\ IF Whole(u, t, j + 1) THEN a.event = "Lsdu" ELSE a.event \in {"Idle", "PollRequired"}
  <2>1. PICK c, r, f : c = conn["server"] /\ r = into["server"] /\ f = h
    OBVIOUS
  <2>2. /\ c \in Connections /\ c.state = "Connected" /\ Come(c, r, u, t, b, j) /\ ~Whole(u, t, j)
        /\ IsSegment(f, u, t, b, x) /\ (x = j \/ Len(u) <= Mod * t) /\ b \in Nat /\ x \in Nat /\ j <= x
    BY <1>7, <1>8, <1>9, <1>10, <1>11, <2>1
  <2>3. LET k == HandleInformation(c, r, f)
        IN  /\ k.conn.state = c.state /\ k.conn.ns = c.ns /\ k.conn.par = c.par
            /\ k.conn.acknowledging = c.acknowledging
            /\ \/ k.event = "Err"
               \/ k.event = "Idle" /\ k.conn = c /\ k.into = r /\ x # j
               \/ /\ x = j /\ Come(k.conn, k.into, u, t, b, j + 1)
                  /\ IF Whole(u, t, j + 1) THEN k.event = "Lsdu" ELSE k.event \in {"Idle", "PollRequired"}
    BY <2>2, Accepts
  <2> QED
    BY <2>1, <2>3 DEF a
<1>13. Only(wire["server"], {"I", "RR"}) /\ Only(wire'["server"], {"I", "RR"})
  BY <1>3, Parts, TailKeeps DEF BothUp
<1>14. Silent /\ asking <= Units
  BY DEF Asking
<1>15. CASE a.event = "Err"
  <2>1. ~Up("server")'
    BY <1>3, <1>15 DEF Up, Told
  <2>2. Only(wire["client"], {"DM", "DISC"})
    BY <1>14, EmptyWire DEF Silent
  <2> QED
    BY <1>3, <1>13, <1>14, <2>1, <2>2 DEF ClientOnly, Silent
<1>16. ~Polls(wire["server"])
  <2>1. Polling(wire["server"], conn["client"].nr)
    BY DEF Asking
  <2>2. ASSUME NEW p \in DOMAIN wire["server"], wire["server"][p].ctl = "RR"
        PROVE  FALSE
    <3>1. p = 1
      BY <1>1, <1>3, <2>1, <2>2 DEF Polling, Alone
    <3> QED
      BY <1>1, <1>3, <2>2, <3>1
  <2> QED
    BY <2>2 DEF Polls
<1>17. ~Polls(wire'["server"]) /\ Polling(wire'["server"], conn'["client"].nr)
  BY <1>3, <1>16, Parts, TailKeeps DEF Polling, Polls
<1>18. CASE a.event # "Err"
  <2>1. Told(a.event) = a.event /\ a.event \notin {"Err", "Disconnected"}
    BY <1>12, <1>18 DEF Told
  <2>2. Up("server")'
    BY <1>3, <1>11, <1>12, <2>1 DEF Up
  <2>3. PICK k \in Nat :
          /\ k <= i /\ Come(conn'["server"], into'["server"], u, t, b, k)
          /\ Between(mode.lossy, Tail(wire["server"]), "server", u, t, b, i, k)
          /\ event'["server"] = "Lsdu" <=> Whole(u, t, k)
    <3>1. CASE x # j
      <4>1. a.event = "Idle" /\ a.conn = conn["server"] /\ a.into = into["server"] /\ mode.lossy
        BY <1>8, <1>12, <1>18, <3>1
      <4>2. Between(mode.lossy, Tail(wire["server"]), "server", u, t, b, i, j)
        BY <1>3, <1>7, <4>1, Parts, BetweenKeeps
      <4> QED
        BY <1>3, <1>7, <2>1, <4>1, <4>2
    <3>2. CASE x = j
      <4>1. Between(mode.lossy, Tail(wire["server"]), "server", u, t, b, i, j + 1)
        BY <1>3, <1>7, <1>8, <3>2, Parts, BetweenTake DEF h
      <4>2. Come(a.conn, a.into, u, t, b, j + 1) /\ (a.event = "Lsdu" <=> Whole(u, t, j + 1))
        BY <1>12, <1>18, <3>2
      <4> QED
        BY <1>3, <1>9, <2>1, <3>2, <4>1, <4>2
    <3> QED
      BY <3>1, <3>2
  <2>4. Requesting(n, b, i, k)'
    BY <1>3, <1>5, <1>6, <1>7, <2>3 DEF Requesting, Flow, SegmenterDone
  <2>5. Silent' /\ asking' <= Units /\ Earlier(asking)'
    BY <1>3, <1>12, <1>14 DEF Asking, Silent, SegmenterDone, Earlier
  <2>6. Asking'
    BY <1>17, <2>4, <2>5 DEF Asking
  <2>7. BothUp'
    BY <1>3, <1>12, <1>13, <2>6 DEF BothUp
  <2> QED
    BY <2>2, <2>7
<1> QED
  BY <1>15, <1>18

\* The client takes a field of a response.
LEMMA ClientTakes ==
  ASSUME Countable, Inv, Situation, Handle("client"), Answering, BothUp, Up("client"), Up("server"),
         Mine(Head(wire["client"]), "client")
  PROVE  (Up("client") /\ BothUp)' \/ (~Up("client") /\ ServerOnly)'
<1> DEFINE h == Head(wire["client"])
           a == HandleInformation(conn["client"], into["client"], h)
<1>1. h.ctl = "I" /\ h.to = "client"
  BY DEF Mine
<1>2. Handled("client", h) = a
  BY <1>1 DEF Handled, ForMe
<1> HIDE DEF a, h
<1>3. /\ wire["client"] # <<>> /\ event["client"] = "Idle"
      /\ conn'["client"] = a.conn /\ into'["client"] = a.into /\ event'["client"] = Told(a.event)
      /\ wire'["client"] = Tail(wire["client"])
      /\ out'["client"] = out["client"] /\ handed' = handed
      /\ conn'["server"] = conn["server"] /\ into'["server"] = into["server"]
      /\ event'["server"] = event["server"] /\ wire'["server"] = wire["server"]
      /\ out'["server"] = out["server"]
      /\ UNCHANGED <<mode, last, asking, got, bus>>
  BY <1>1, <1>2, TwoEnds, HandleFacts DEF h
<1>4. PICK n \in Sizes, b \in Numbers, i \in Nat, j \in Nat : Responding(n, b, i, j)
  BY DEF Answering
<1>5. PICK u \in Ordered : u = Unit("server", asking, n) /\ u \in Text /\ Len(u) = n
  BY TwoEnds, UnitsThere
<1>6. PICK t \in Nat \ {0} : t = Limit("server")
  BY TwoEnds, LimitFacts
<1>7. /\ j <= i /\ Gone(conn["server"], out["server"], u, t, b, i)
      /\ Come(conn["client"], into["client"], u, t, b, j)
      /\ Between(mode.lossy, wire["client"], "client", u, t, b, i, j)
      /\ ~Whole(u, t, j)
      /\ mode.polled => i <= j + 1
  BY <1>3, <1>4, <1>5, <1>6 DEF Responding, Flow
<1>8. PICK x \in j .. i - 1 : IsSegment(h, u, t, b, x) /\ (~mode.lossy => x = j)
  <2>1. PICK w, l : w = wire["client"] /\ l = mode.lossy
    OBVIOUS
  <2>2. /\ w \in Seq(Letters) /\ w # <<>> /\ Head(w) = h /\ Mine(Head(w), "client")
        /\ Between(l, w, "client", u, t, b, i, j)
    BY <1>3, <1>7, <2>1, Parts DEF h
  <2>3. \E x \in j .. i - 1 : IsSegment(Head(w), u, t, b, x) /\ (~l => x = j)
    BY <2>2, BetweenHead
  <2> QED
    BY <2>1, <2>2, <2>3
<1>9. b \in Nat /\ x \in Nat /\ j <= x /\ (x = j => j + 1 <= i)
  BY Bounds DEF Numbers
<1>10. x = j \/ Len(u) <= Mod * t
  BY <1>5, <1>6, <1>8, TwoEnds, LimitFacts DEF Inv
<1>11. conn["client"].state = "Connected" /\ conn["client"] \in Connections
  BY Parts DEF Up
<1>12. /\ a.conn.state = conn["client"].state /\ a.conn.ns = conn["client"].ns /\ a.conn.par = conn["client"].par
       /\ \/ a.event = "Err"
          \/ a.event = "Idle" /\ a.conn = conn["client"] /\ a.into = into["client"] /\ x # j
          \/ /\ x = j /\ Come(a.conn, a.into, u, t, b, j + 1)
             /\ IF Whole(u, t, j + 1) THEN a.event = "Lsdu" ELSE a.event \in {"Idle", "PollRequired"}
  <2>1. PICK c, r, f : c = conn["client"] /\ r = into["client"] /\ f = h
    OBVIOUS
  <2>2. /\ c \in Connections /\ c.state = "Connected" /\ Come(c, r, u, t, b, j) /\ ~Whole(u, t, j)
        /\ IsSegment(f, u, t, b, x) /\ (x = j \/ Len(u) <= Mod * t) /\ b \in Nat /\ x \in Nat /\ j <= x
    BY <1>7, <1>8, <1>9, <1>10, <1>11, <2>1
  <2>3. LET k == HandleInformation(c, r, f)
        IN  /\ k.conn.state = c.state /\ k.conn.ns = c.ns /\ k.conn.par = c.par
            /\ k.conn.acknowledging = c.acknowledging
            /\ \/ k.event = "Err"
               \/ k.event = "Idle" /\ k.conn = c /\ k.into = r /\ x # j
               \/ /\ x = j /\ Come(k.conn, k.into, u, t, b, j + 1)
                  /\ IF Whole(u, t, j + 1) THEN k.event = "Lsdu" ELSE k.event \in {"Idle", "PollRequired"}
    BY <2>2, Accepts
  <2> QED
    BY <2>1, <2>3 DEF a
<1>13. ~Talks(wire["server"]) /\ ~Talks(wire'["server"])
  BY <1>3 DEF Answering
<1>14. Heard /\ asking <= Units /\ Earlier(asking + 1)
  BY DEF Answering
<1>15. CASE a.event = "Err"
  <2>1. ~Up("client")'
    BY <1>3, <1>15 DEF Up, Told
  <2>2. ~Fields(wire'["server"], "server")
    BY <1>13, NoTalk
  <2> QED
    BY <1>3, <1>14, <2>1, <2>2 DEF ServerOnly, Heard
<1>16. CASE a.event # "Err"
  <2>1. /\ Told(a.event) = a.event /\ a.event \notin {"Err", "Disconnected"}
        /\ a.event \in {"Idle", "PollRequired", "Lsdu"}
    BY <1>12, <1>16 DEF Told
  <2>2. Up("client")'
    BY <1>3, <1>11, <1>12, <2>1 DEF Up
  <2>3. PICK k \in Nat :
          /\ k <= i /\ Come(conn'["client"], into'["client"], u, t, b, k)
          /\ Between(mode.lossy, Tail(wire["client"]), "client", u, t, b, i, k)
          /\ event'["client"] = "Lsdu" <=> Whole(u, t, k)
          /\ mode.polled => i <= k + 1
          /\ mode.polled /\ event'["client"] = "PollRequired" => i = k /\ k > 0
    <3>1. CASE x # j
      <4>1. a.event = "Idle" /\ a.conn = conn["client"] /\ a.into = into["client"] /\ mode.lossy
        BY <1>8, <1>12, <1>16, <3>1
      <4>2. Between(mode.lossy, Tail(wire["client"]), "client", u, t, b, i, j)
        BY <1>3, <1>7, <4>1, Parts, BetweenKeeps
      <4> QED
        BY <1>3, <1>7, <2>1, <4>1, <4>2
    <3>2. CASE x = j
      <4>1. Between(mode.lossy, Tail(wire["client"]), "client", u, t, b, i, j + 1)
        BY <1>3, <1>7, <1>8, <3>2, Parts, BetweenTake DEF h
      <4>2. Come(a.conn, a.into, u, t, b, j + 1) /\ (a.event = "Lsdu" <=> Whole(u, t, j + 1))
        BY <1>12, <1>16, <3>2
      <4>3. PICK k \in Nat : k = j + 1 /\ k <= i /\ k > 0 /\ (mode.polled => i <= k)
        BY <1>7, <1>9, <3>2
      <4>4. /\ k <= i /\ (mode.polled => i <= k + 1)
            /\ mode.polled => i = k /\ k > 0
        BY <4>3
      <4> QED
        BY <1>3, <2>1, <4>1, <4>2, <4>3, <4>4
    <3> QED
      BY <3>1, <3>2
  <2>4. Responding(n, b, i, k)'
    BY <1>3, <1>5, <1>6, <1>7, <2>3 DEF Responding, Flow
  <2>5. Heard' /\ asking' <= Units /\ Earlier(asking + 1)'
    BY <1>3, <1>12, <1>14 DEF Heard, Earlier
  <2>6. Waiting(wire'["server"], conn'["server"].nr, conn'["client"].nr)
    BY <1>13 DEF Waiting, Talks
  <2>7. /\ out'["client"] # Nothing /\ SegmenterDone("client")' /\ IsOld(last', conn'["server"].nr)
        /\ event'["client"] \in {"Idle", "PollRequired", "Lsdu"}
    BY <1>3, <2>1 DEF Answering, SegmenterDone
  <2>8. Answering'
    BY <1>13, <2>4, <2>5, <2>6, <2>7 DEF Answering
  <2>9. Only(wire'["server"], {"I", "RR"}) /\ AllMine(wire'["client"], "client")
    BY <1>3, Parts, TailKeeps DEF BothUp
  <2>10. BothUp'
    BY <1>3, <1>12, <2>8, <2>9 DEF BothUp
  <2> QED
    BY <2>2, <2>10
<1> QED
  BY <1>15, <1>16

\* A frame that leaves everything as it was.
LEMMA Unheeded ==
  ASSUME Inv, NEW e \in Ends, Handle(e),
         Handled(e, Head(wire[e])) = Outcome(conn[e], into[e], "Idle")
  PROVE  /\ UNCHANGED <<mode, conn, into, out, event, last, asking, handed>>
         /\ wire[e] # <<>> /\ wire'[e] = Tail(wire[e]) /\ wire'[Peer(e)] = wire[Peer(e)]
<1> DEFINE a == Handled(e, Head(wire[e]))
           opened == Head(wire[e]).ctl \in {"SNRM", "DISC"} /\ a.event = "AcknowledgeRequired"
<1>1. /\ wire[e] # <<>> /\ event[e] = "Idle"
      /\ conn' = [conn EXCEPT ![e] = a.conn] /\ into' = [into EXCEPT ![e] = a.into]
      /\ event' = [event EXCEPT ![e] = IF a.event = "Connected" THEN "Idle" ELSE a.event]
      /\ out' = IF opened THEN [out EXCEPT ![e] = Nothing] ELSE out
      /\ handed' = IF opened /\ e = "server" THEN <<>> ELSE handed
      /\ wire' = [wire EXCEPT ![e] = Tail(@)]
      /\ UNCHANGED <<mode, last, asking, got, bus>>
  BY DEF Handle, Listening
<1>2. a.conn = conn[e] /\ a.into = into[e] /\ a.event = "Idle"
  BY DEF Outcome
<1> HIDE DEF a
<1>3. conn' = conn /\ into' = into /\ event' = event
  BY <1>1, <1>2 DEF Inv
<1>4. out' = out /\ handed' = handed
  BY <1>1, <1>2
<1>5. wire'[e] = Tail(wire[e]) /\ wire'[Peer(e)] = wire[Peer(e)]
  BY <1>1, Parts, TwoEnds
<1> QED
  BY <1>1, <1>3, <1>4, <1>5

\* A frame for a neighbour, or a poll, at a server that is not polled.
LEMMA ServerUnheeding ==
  ASSUME Inv, Situation, Handle("server"),
         ~ForMe("server", Head(wire["server"])) \/ Head(wire["server"]).ctl = "RR"
  PROVE  Situation'
<1>1. Handled("server", Head(wire["server"])) = Outcome(conn["server"], into["server"], "Idle")
  BY DEF Handled
<1>2. ~Mine(Head(wire["server"]), "server")
  BY DEF Mine, ForMe
<1> QED
  BY <1>1, <1>2, TwoEnds, Unheeded, ServerLine

\* An SNRM opens the server's side of the link.
LEMMA ServerOpens ==
  ASSUME Inv, Situation, Handle("server"),
         ForMe("server", Head(wire["server"])), Head(wire["server"]).ctl = "SNRM"
  PROVE  Situation'
<1> DEFINE h == Head(wire["server"])
           c == conn["server"]
           k == [ComeUp("server", c, h.par) EXCEPT !.acknowledging = "SNRM"]
<1>1. Handled("server", h) = Outcome(k, EmptyInto, "AcknowledgeRequired")
  BY DEF Handled, HandleSnrm
<1>2. /\ Outcome(k, EmptyInto, "AcknowledgeRequired").conn = k
      /\ Outcome(k, EmptyInto, "AcknowledgeRequired").into = EmptyInto
      /\ Outcome(k, EmptyInto, "AcknowledgeRequired").event = "AcknowledgeRequired"
  BY DEF Outcome
<1>3. h.par = Proposed["client"] /\ wire["server"] # <<>> /\ 1 \in DOMAIN wire["server"] /\ wire["server"][1] = h
  BY TwoEnds, HandleFacts DEF Fit
<1>4. /\ k.state = "Connected" /\ k.ns = 0 /\ k.nr = 0 /\ k.acknowledging = "SNRM"
      /\ k.par = Negotiate(Proposed["server"], Proposed["client"])
  BY <1>3, Parts DEF ComeUp, Connections
<1>5. k.par.tx = Limit("server") /\ k.par.rx = Limit("client")
  <2>1. \A x, y \in Nat : Smaller(x, y) = Smaller(y, x)
    BY DEF Smaller
  <2>2. Proposed["server"].rx \in Nat /\ Proposed["client"].tx \in Nat
    BY TwoEnds DEF Parameters
  <2> QED
    BY <1>4, <2>1, <2>2, TwoEnds DEF Negotiate, Limit
<1> HIDE DEF k, c
<1>6. /\ conn'["server"] = k /\ into'["server"] = EmptyInto /\ event'["server"] = "AcknowledgeRequired"
      /\ wire'["server"] = Tail(wire["server"]) /\ out'["server"] = Nothing /\ handed' = <<>>
      /\ conn'["client"] = conn["client"] /\ into'["client"] = into["client"]
      /\ event'["client"] = event["client"] /\ wire'["client"] = wire["client"]
      /\ out'["client"] = out["client"]
      /\ UNCHANGED <<mode, last, asking, got, bus>>
  BY <1>1, <1>2, TwoEnds, HandleFacts DEF Told
<1>7. conn["client"].state = "Connecting" /\ Opening
  BY <1>3 DEF Situation, ClientOK, Free
<1>8. ClientOK'
  BY <1>6, <1>7 DEF Situation, ClientOK
<1>9. ~Up("client") /\ ~Up("client")' /\ Up("server")'
  BY <1>4, <1>6, <1>7 DEF Up
<1>10. Opened'
  BY <1>4, <1>5, <1>6, <1>9 DEF Opened
<1>11. ~Sending("server")'
  BY <1>6 DEF Sending, SegmenterDone, Nothing
<1>12. Snrm(wire'["server"]) /\ Ua(wire'["client"])
  BY <1>3, <1>6, <1>7, Parts, TailKeeps DEF Opening
<1>13. Opening'
  BY <1>4, <1>6, <1>7, <1>10, <1>11, <1>12 DEF Opening
<1> QED
  BY <1>6, <1>7, <1>8, <1>9, <1>13 DEF Situation

\* A frame that takes the server's side down: the client is down already.
LEMMA ServerCloses ==
  ASSUME Inv, Situation, Handle("server"),
         ForMe("server", Head(wire["server"])), Head(wire["server"]).ctl \in {"UA", "DISC", "DM"}
  PROVE  Situation'
<1> DEFINE h == Head(wire["server"])
           a == Handled("server", h)
<1>1. a.conn.state = "Disconnected"
  <2>1. conn["server"].state # "Connecting" /\ conn["server"] \in Connections
    BY TwoEnds DEF Inv, EndOK, LinkOK
  <2>2. \/ a.conn = [conn["server"] EXCEPT !.state = "Disconnected"]
        \/ a.conn = [conn["server"] EXCEPT !.state = "Disconnected", !.acknowledging = "DISC"]
    BY <2>1 DEF Handled, HandleUa, Outcome
  <2> QED
    BY <2>1, <2>2 DEF Connections
<1> HIDE DEF a
<1>2. /\ wire["server"] # <<>> /\ 1 \in DOMAIN wire["server"] /\ wire["server"][1] = h
      /\ conn'["server"] = a.conn /\ wire'["server"] = Tail(wire["server"])
      /\ conn'["client"] = conn["client"] /\ event'["client"] = event["client"]
      /\ out'["client"] = out["client"]
  BY TwoEnds, HandleFacts DEF a
<1>3. h.ctl \notin {"I", "RR", "SNRM"} /\ h.to = "server"
  BY DEF ForMe
<1>4. conn["client"].state # "Connecting"
  BY <1>2, <1>3 DEF Situation, Opening, Snrm
<1>5. ~Only(wire["server"], {"I", "RR"})
  BY <1>2, <1>3 DEF Only
<1>6. ~Up("client")
  BY <1>5 DEF Situation, BothUp, ClientOnly
<1>7. ~Up("client")' /\ ~Up("server")'
  BY <1>1, <1>2, <1>6 DEF Up
<1>8. Free(wire["server"], {"SNRM"}) => Free(wire'["server"], {"SNRM"})
  BY <1>2, Parts, TailKeeps
<1>9. ClientOK'
  BY <1>2, <1>8 DEF Situation, ClientOK
<1> QED
  BY <1>2, <1>4, <1>7, <1>9 DEF Situation

\* A field for the server.
LEMMA ServerCounts ==
  ASSUME Countable, Inv, Situation, Handle("server"), Mine(Head(wire["server"]), "server")
  PROVE  Situation'
<1> DEFINE h == Head(wire["server"])
           a == HandleInformation(conn["server"], into["server"], h)
<1>1. h.ctl = "I" /\ h.to = "server" /\ Talk(h)
  BY DEF Mine, Talk
<1>2. Handled("server", h) = a
  BY <1>1 DEF Handled, ForMe
<1> HIDE DEF a
<1>3. /\ wire["server"] # <<>> /\ 1 \in DOMAIN wire["server"] /\ wire["server"][1] = h
      /\ event["server"] = "Idle"
      /\ conn'["server"] = a.conn /\ event'["server"] = Told(a.event)
      /\ wire'["server"] = Tail(wire["server"]) /\ wire'["client"] = wire["client"]
      /\ conn'["client"] = conn["client"] /\ event'["client"] = event["client"]
      /\ out'["client"] = out["client"] /\ asking' = asking
  BY <1>1, <1>2, TwoEnds, HandleFacts
<1>4. /\ Free(wire["server"], {"SNRM"}) => Free(wire'["server"], {"SNRM"})
      /\ Only(wire["server"], {"I", "RR"}) => Only(wire'["server"], {"I", "RR"})
  BY <1>3, Parts, TailKeeps
<1>5. ClientOK'
  BY <1>3, <1>4 DEF Situation, ClientOK
<1>6. conn'["client"].state # "Connecting"
  BY <1>1, <1>3 DEF Situation, Opening, Snrm
<1>7. Up("client")' <=> Up("client")
  BY <1>3 DEF Up
<1>8. Fields(wire["server"], "server") /\ Talks(wire["server"])
  BY <1>1, <1>3 DEF Fields, Talks
<1>9. CASE ~Up("server")
  <2>1. conn["server"].state # "Connected"
    BY <1>3, <1>9 DEF Up
  <2>2. a.event = "Err"
    BY <2>1 DEF a, HandleInformation, Outcome
  <2>3. ~Up("server")'
    BY <1>3, <2>2 DEF Up, Told
  <2>4. Up("client") => ClientOnly'
    BY <1>3, <1>4, <1>9 DEF Situation, ClientOnly
  <2> QED
    BY <1>5, <1>6, <1>7, <2>3, <2>4 DEF Situation
<1>10. CASE Up("server")
  <2>1. Up("client") /\ BothUp
    BY <1>3, <1>6, <1>8, <1>10 DEF Situation, ServerOnly
  <2>2. ~Rest
    BY <1>8 DEF Rest
  <2>3. CASE Asking
    <3>1. (Up("server") /\ BothUp)' \/ (~Up("server") /\ ClientOnly)'
      BY <1>10, <2>1, <2>3, ServerTakes
    <3> QED
      BY <1>5, <1>6, <1>7, <2>1, <3>1 DEF Situation
  <2>4. CASE Answering
    <3>1. IsOld(h, conn["server"].nr)
      BY <1>1, <1>3, <2>4 DEF Answering, Waiting
    <3>2. a = Outcome(conn["server"], into["server"], "Idle")
      BY <1>10, <3>1 DEF a, HandleInformation, IsOld, IsRepeat, Up
    <3> QED
      BY <1>2, <2>4, <3>2, TwoEnds, Unheeded, ServerLine
  <2> QED
    BY <2>1, <2>2, <2>3, <2>4 DEF BothUp
<1> QED
  BY <1>9, <1>10

\* Connection::handle of the server.
LEMMA HandleServerUnits ==
  ASSUME Countable, Inv, Situation, Handle("server")
  PROVE  Situation'
<1>1. Head(wire["server"]).ctl \in {"SNRM", "UA", "DISC", "DM", "I", "RR"}
  BY TwoEnds, HandleFacts, Kinds
<1>2. ForMe("server", Head(wire["server"])) /\ Head(wire["server"]).ctl = "I" => Mine(Head(wire["server"]), "server")
  BY DEF ForMe, Mine
<1> QED
  BY <1>1, <1>2, ServerUnheeding, ServerOpens, ServerCloses, ServerCounts

\* A frame for a neighbour, or a poll, at the client.
LEMMA ClientUnheeding ==
  ASSUME Inv, Situation, Handle("client"),
         ~ForMe("client", Head(wire["client"])) \/ Head(wire["client"]).ctl = "RR"
  PROVE  Situation'
<1>1. Handled("client", Head(wire["client"])) = Outcome(conn["client"], into["client"], "Idle")
  BY DEF Handled
<1>2. ~Mine(Head(wire["client"]), "client")
  BY DEF Mine, ForMe
<1> QED
  BY <1>1, <1>2, TwoEnds, Unheeded, ClientLine

\* Whatever takes the client's side down, or finds it down, leaves the server as it is.
LEMMA ClientDown ==
  ASSUME Inv, Situation, Handle("client"), ClientOK', ~Up("client")',
         conn["client"].state # "Connecting", conn'["client"].state # "Connecting",
         ~Up("client") \/ ~Up("server")
  PROVE  Situation'
<1>1. /\ conn'["server"] = conn["server"] /\ event'["server"] = event["server"]
      /\ wire'["server"] = wire["server"]
  BY TwoEnds, HandleFacts
<1>2. Up("server")' <=> Up("server")
  BY <1>1 DEF Up
<1>3. Up("server") => ServerOnly'
  BY <1>1 DEF Situation, ServerOnly
<1> QED
  BY <1>2, <1>3 DEF Situation

\* A frame that takes the client's side down.
LEMMA ClientCloses ==
  ASSUME Inv, Situation, Handle("client"),
         ForMe("client", Head(wire["client"])), Head(wire["client"]).ctl \in {"SNRM", "UA", "DISC", "DM"},
         Head(wire["client"]).ctl = "UA" => conn["client"].state # "Connecting"
  PROVE  Situation'
<1> DEFINE h == Head(wire["client"])
           c == conn["client"]
           a == Handled("client", h)
           opened == h.ctl \in {"SNRM", "DISC"} /\ a.event = "AcknowledgeRequired"
<1>1. /\ wire["client"] # <<>> /\ 1 \in DOMAIN wire["client"] /\ wire["client"][1] = h
      /\ event["client"] = "Idle"
      /\ conn'["client"] = a.conn /\ event'["client"] = Told(a.event)
      /\ out'["client"] = (IF opened THEN Nothing ELSE out["client"])
      /\ wire'["server"] = wire["server"]
  BY TwoEnds, HandleFacts
<1>2. c.state # "Connecting"
  BY <1>1 DEF Situation, Opening, Ua
<1>3. /\ c.acknowledging = None /\ Free(wire["server"], {"SNRM"})
      /\ c.state # "Connected" => out["client"] = Nothing
  BY <1>1, <1>2 DEF Situation, ClientOK
<1>4. \/ h.ctl = "SNRM" /\ a.conn = c /\ a.event = "Err"
      \/ h.ctl \in {"UA", "DM"} /\ a.conn = [c EXCEPT !.state = "Disconnected"] /\ a.event = "Disconnected"
      \/ /\ h.ctl = "DISC" /\ a.conn = [c EXCEPT !.state = "Disconnected", !.acknowledging = "DISC"]
         /\ a.event = "AcknowledgeRequired"
  BY <1>2 DEF Handled, HandleUa, HandleSnrm, Outcome
<1> HIDE DEF a
<1>5. \/ /\ a.conn.state = c.state /\ a.conn.acknowledging = None /\ a.event = "Err" /\ ~opened
      \/ /\ a.conn.state = "Disconnected" /\ a.conn.acknowledging = None /\ a.event = "Disconnected" /\ ~opened
      \/ /\ a.conn.state = "Disconnected" /\ a.event = "AcknowledgeRequired" /\ opened
  BY <1>3, <1>4, Parts DEF Connections
<1> HIDE DEF opened, c
<1>6. ClientOK'
  BY <1>1, <1>2, <1>3, <1>5 DEF ClientOK, Told, c
<1>7. ~Up("client")' /\ conn'["client"].state # "Connecting"
  BY <1>1, <1>2, <1>5 DEF Up, Told, c
<1>8. ~Up("client") \/ ~Up("server")
  <2>1. ~AllMine(wire["client"], "client")
    BY <1>1 DEF AllMine, Mine
  <2> QED
    BY <2>1 DEF Situation, BothUp
<1> QED
  BY <1>2, <1>6, <1>7, <1>8, ClientDown DEF c

\* The UA that the client awaits.
LEMMA ClientOpens ==
  ASSUME Inv, HandshakeInv, Situation, Handle("client"),
         ForMe("client", Head(wire["client"])), Head(wire["client"]).ctl = "UA",
         conn["client"].state = "Connecting"
  PROVE  Situation'
<1> DEFINE h == Head(wire["client"])
           c == conn["client"]
           k == ComeUp("client", c, h.par)
<1>1. Handled("client", h) = Outcome(k, EmptyInto, "Connected")
  BY DEF Handled, HandleUa
<1>2. /\ Outcome(k, EmptyInto, "Connected").conn = k /\ Outcome(k, EmptyInto, "Connected").into = EmptyInto
      /\ Outcome(k, EmptyInto, "Connected").event = "Connected"
  BY DEF Outcome
<1>3. k.state = "Connected" /\ k.ns = 0 /\ k.nr = 0 /\ k.acknowledging = c.acknowledging
      /\ k.par = Negotiate(Proposed["client"], h.par)
  BY Parts DEF ComeUp, Connections
<1> HIDE DEF k, c
<1>4. /\ wire["client"] # <<>> /\ 1 \in DOMAIN wire["client"] /\ wire["client"][1] = h
      /\ event["client"] = "Idle"
      /\ conn'["client"] = k /\ into'["client"] = EmptyInto /\ event'["client"] = "Idle"
      /\ wire'["client"] = Tail(wire["client"]) /\ out'["client"] = out["client"] /\ handed' = handed
      /\ conn'["server"] = conn["server"] /\ into'["server"] = into["server"]
      /\ event'["server"] = event["server"] /\ wire'["server"] = wire["server"]
      /\ out'["server"] = out["server"]
      /\ UNCHANGED <<mode, last, asking, got, bus>>
  BY <1>1, <1>2, TwoEnds, HandleFacts DEF Told
<1>5. Opening /\ Opened /\ h.par.rx = Limit("client") /\ Ua(wire["client"]) /\ Snrm(wire["server"])
  BY <1>4 DEF Situation, Opening, Ua
<1>6. c.acknowledging = None /\ out["client"] = Nothing
  BY <1>4 DEF Situation, ClientOK, c
<1>7. k.par.tx = Limit("client")
  <2>1. \A x, y \in Nat : Smaller(x, Smaller(x, y)) = Smaller(x, y)
    BY DEF Smaller
  <2>2. Proposed["client"].tx \in Nat /\ Proposed["server"].rx \in Nat
    BY TwoEnds DEF Parameters
  <2> QED
    BY <1>3, <1>5, <2>1, <2>2, TwoEnds DEF Negotiate, Limit
<1>8. Free(wire["server"], Asks) /\ AtMostOne(wire["client"], Answers)
  <2>1. ~Free(wire["client"], Answers)
    BY <1>4 DEF Free, Answers
  <2> QED
    BY <2>1 DEF HandshakeInv, Handshake
<1>9. ASSUME NEW p \in DOMAIN wire["server"]
      PROVE  wire["server"][p].ctl = "I" /\ wire["server"][p].to = "neighbour"
  <2>1. wire["server"][p].to = "neighbour" /\ wire["server"][p] \in Letters
    BY <1>5, <1>8, <1>9, Parts DEF Snrm, Free, Asks
  <2> QED
    BY <2>1 DEF Letters, Snrms, Uas, Discs, Dms, Rrs, Informations, Ends
<1>10. /\ Only(wire["server"], {"I", "RR"}) /\ ~Talks(wire["server"])
       /\ Free(wire["server"], {"SNRM"})
  BY <1>9 DEF Only, Talks, Talk, Mine, Free
<1>11. wire'["client"] = <<>>
  <2>1. PICK w \in Seq(Letters) : w = wire["client"]
    BY Parts
  <2>2. Free(Tail(w), Answers)
    BY <1>4, <1>8, <2>1, WireFacts DEF Answers
  <2>3. Ua(Tail(w))
    BY <1>4, <1>5, <2>1, TailKeeps
  <2>4. DOMAIN Tail(w) = {}
    BY <2>2, <2>3 DEF Free, Ua, Answers
  <2>5. w # <<>>
    BY <1>4, <2>1
  <2>6. PICK v \in Seq(Letters) : v = Tail(w)
    BY <2>5, HeadTailProperties
  <2>7. ASSUME v # <<>>
        PROVE  DOMAIN v # {}
    <3>1. Len(v) \in Nat \ {0}
      BY <2>7, EmptySeq
    <3>2. 1 \in DOMAIN v
      BY <3>1
    <3> QED
      BY <3>2
  <2> QED
    BY <1>4, <2>1, <2>4, <2>6, <2>7
<1>12. ClientOK'
  BY <1>3, <1>4, <1>6, <1>10 DEF ClientOK
<1>13. Up("client")' /\ Up("server")'
  BY <1>3, <1>4, <1>5 DEF Up, Opened
<1>14. Silent'
  <2>1. SegmenterDone("server")'
    BY <1>4, <1>5 DEF Opened, SegmenterDone, Nothing
  <2>2. Clean(into'["client"])
    BY <1>4 DEF Clean, EmptyInto
  <2> QED
    BY <1>3, <1>4, <1>5, <1>11, <2>1, <2>2 DEF Silent, Opened
<1>15. Heard'
  BY <1>3, <1>4, <1>5 DEF Heard, Opened, Opening, Clean, EmptyInto
<1>16. Earlier(asking)'
  BY <1>4, <1>5 DEF Earlier, Opened
<1>17. Rest'
  BY <1>4, <1>6, <1>10, <1>14, <1>15, <1>16 DEF Rest
<1>18. AllMine(wire'["client"], "client")
  BY <1>11, EmptyWire
<1>19. BothUp'
  BY <1>4, <1>5, <1>7, <1>10, <1>17, <1>18 DEF BothUp, Opened
<1> QED
  BY <1>3, <1>4, <1>12, <1>13, <1>19 DEF Situation

\* A field for the client.
LEMMA ClientCounts ==
  ASSUME Countable, Inv, Situation, Handle("client"), Mine(Head(wire["client"]), "client")
  PROVE  Situation'
<1> DEFINE h == Head(wire["client"])
           c == conn["client"]
           a == HandleInformation(c, into["client"], h)
<1>1. h.ctl = "I" /\ h.to = "client"
  BY DEF Mine
<1>2. Handled("client", h) = a
  BY <1>1 DEF Handled, ForMe
<1>3. a.conn.state = c.state /\ a.conn.acknowledging = c.acknowledging
  <2> DEFINE d == [c EXCEPT !.nr = (@ + 1) % Mod]
  <2>1. a.conn = c \/ a.conn = d
    BY DEF HandleInformation, Outcome
  <2>2. d.state = c.state /\ d.acknowledging = c.acknowledging
    BY Parts DEF Connections
  <2> HIDE DEF a, d
  <2> QED
    BY <2>1, <2>2
<1>4. c.state # "Connected" => a.event = "Err"
  BY DEF HandleInformation, Outcome
<1> HIDE DEF a
<1>5. /\ wire["client"] # <<>> /\ 1 \in DOMAIN wire["client"] /\ wire["client"][1] = h
      /\ event["client"] = "Idle"
      /\ conn'["client"] = a.conn /\ event'["client"] = Told(a.event)
      /\ conn'["server"] = conn["server"] /\ event'["server"] = event["server"]
      /\ wire'["server"] = wire["server"] /\ out'["client"] = out["client"]
  BY <1>1, <1>2, TwoEnds, HandleFacts
<1>6. conn["client"].state # "Connecting" /\ conn'["client"].state # "Connecting"
  BY <1>1, <1>3, <1>5 DEF Situation, Opening, Ua
<1>7. ClientOK'
  BY <1>3, <1>5, <1>6 DEF Situation, ClientOK
<1>8. CASE ~Up("client")
  <2>1. c.state # "Connected"
    BY <1>5, <1>8 DEF Up
  <2>2. ~Up("client")'
    BY <1>3, <1>5, <2>1 DEF Up
  <2> QED
    BY <1>6, <1>7, <1>8, <2>2, ClientDown
<1>9. CASE Up("client")
  <2>1. Up("server") /\ BothUp
    BY <1>1, <1>5, <1>9 DEF Situation, ClientOnly, Only
  <2>2. ~Rest /\ ~Asking
    BY <1>5 DEF Rest, Asking, Silent
  <2>3. (Up("client") /\ BothUp)' \/ (~Up("client") /\ ServerOnly)'
    BY <1>9, <2>1, <2>2, ClientTakes DEF BothUp
  <2>4. Up("server")'
    BY <1>5, <2>1 DEF Up
  <2> QED
    BY <1>6, <1>7, <2>3, <2>4 DEF Situation
<1> QED
  BY <1>8, <1>9

\* Connection::handle of the client.
LEMMA HandleClientUnits ==
  ASSUME Countable, Inv, HandshakeInv, Situation, Handle("client")
  PROVE  Situation'
<1>1. Head(wire["client"]).ctl \in {"SNRM", "UA", "DISC", "DM", "I", "RR"}
  BY TwoEnds, HandleFacts, Kinds
<1>2. ForMe("client", Head(wire["client"])) /\ Head(wire["client"]).ctl = "I" => Mine(Head(wire["client"]), "client")
  BY DEF ForMe, Mine
<1> QED
  BY <1>1, <1>2, ClientUnheeding, ClientOpens, ClientCloses, ClientCounts

\* At the start both ends are down.
LEMMA InitUnits == Init => UnitsInv
<1> SUFFICES ASSUME Init PROVE UnitsInv
  OBVIOUS
<1>1. /\ asking = 1 /\ handed = <<>> /\ got = [e \in Ends |-> <<>>] /\ wire["server"] = <<>>
      /\ conn["client"] = NewConnection /\ conn["server"] = NewConnection
      /\ out["client"] = Nothing
  BY TwoEnds DEF Init
<1>2. DOMAIN handed = {} /\ handed \in Seq(Nat)
  BY <1>1
<1>3. History
  <2>1. UnitsIntact
    BY <1>1 DEF UnitsIntact
  <2>2. OncePerLink /\ Earlier(asking + 1)
    BY <1>1, <1>2, Bounds DEF OncePerLink, Earlier
  <2> QED
    BY <1>1, <1>2, <2>1, <2>2 DEF History
<1>4. conn["client"].state = "Disconnected" /\ conn["client"].acknowledging = None /\ conn["server"].state = "Disconnected"
  BY <1>1 DEF NewConnection
<1>5. Free(wire["server"], {"SNRM"})
  BY <1>1, EmptyWire
<1>6. ClientOK
  BY <1>1, <1>4, <1>5 DEF ClientOK
<1>7. ~Up("client") /\ ~Up("server")
  BY <1>4 DEF Up
<1>8. Situation
  BY <1>4, <1>6, <1>7 DEF Situation
<1> QED
  BY <1>3, <1>8 DEF UnitsInv

\* What hangs together stays so when nothing happens.
LEMMA StillUnits ==
  ASSUME Situation, UNCHANGED vars
  PROVE  Situation'
<1>1. UNCHANGED <<mode, conn, into, out, event, wire, last, asking, handed>>
  BY DEF vars
<1>2. ClientOK' /\ (Up("client")' <=> Up("client")) /\ (Up("server")' <=> Up("server"))
  BY <1>1 DEF Situation, ClientOK, Up
<1>3. Opening => Opening'
  <2>1. (Opened => Opened') /\ (Sending("server")' <=> Sending("server"))
    BY <1>1, <1>2 DEF Opened, Sending, SegmenterDone
  <2> QED
    BY <1>1, <2>1 DEF Opening
<1>4. (ClientOnly => ClientOnly') /\ (ServerOnly => ServerOnly')
  BY <1>1 DEF ClientOnly, ServerOnly
<1>5. (Silent => Silent') /\ (Heard => Heard')
  BY <1>1 DEF Silent, Heard, SegmenterDone
<1>6. Rest => Rest'
  BY <1>1, <1>5 DEF Rest, Earlier
<1>7. ASSUME Asking
      PROVE  Asking'
  <2>1. PICK n \in Sizes, b \in Numbers, i \in Nat, j \in Nat : Requesting(n, b, i, j)
    BY <1>7 DEF Asking
  <2>2. Requesting(n, b, i, j)'
    BY <1>1, <2>1 DEF Requesting, Flow, SegmenterDone
  <2>3. /\ Silent' /\ asking' <= Units /\ Earlier(asking)'
        /\ Polling(wire'["server"], conn'["client"].nr)
        /\ Polls(wire'["server"]) => SegmenterDone("client")' /\ event'["server"] # "Lsdu"
    BY <1>1, <1>5, <1>7 DEF Asking, Earlier, SegmenterDone
  <2> QED
    BY <2>2, <2>3 DEF Asking
<1>8. ASSUME Answering
      PROVE  Answering'
  <2>1. PICK n \in Sizes, b \in Numbers, i \in Nat, j \in Nat : Responding(n, b, i, j)
    BY <1>8 DEF Answering
  <2>2. Responding(n, b, i, j)'
    BY <1>1, <2>1 DEF Responding, Flow
  <2>3. /\ Heard' /\ asking' <= Units /\ Earlier(asking + 1)'
        /\ Waiting(wire'["server"], conn'["server"].nr, conn'["client"].nr)
        /\ Talks(wire'["server"]) =>
             event'["client"] = "Idle" /\ wire'["client"] = <<>> /\ ~Sending("server")'
        /\ SegmenterDone("client")' /\ IsOld(last', conn'["server"].nr) /\ out'["client"] # Nothing
        /\ event'["client"] \in {"Idle", "PollRequired", "Lsdu"}
    BY <1>1, <1>5, <1>8 DEF Answering, Earlier, SegmenterDone, Sending
  <2> QED
    BY <2>2, <2>3 DEF Answering
<1>9. BothUp => BothUp'
  BY <1>1, <1>6, <1>7, <1>8 DEF BothUp
<1> QED
  BY <1>1, <1>2, <1>3, <1>4, <1>9 DEF Situation

\* Every step keeps what hangs together.
LEMMA NextUnits ==
  ASSUME \A m \in Modes : m.patient, Countable
  PROVE  Inv /\ HandshakeInv /\ UnitsInv /\ [Next]_vars => UnitsInv'
<1> SUFFICES ASSUME Inv, HandshakeInv, UnitsInv, [Next]_vars PROVE UnitsInv'
  OBVIOUS
<1>1. History /\ Situation
  BY DEF UnitsInv
<1>2. CASE Respond \/ TakeResponse
  BY <1>1, <1>2, RespondUnits, TakeResponseUnits DEF UnitsInv
<1>3. ASSUME NEW e \in Ends, Handle(e)
      PROVE  UnitsInv'
  <2>1. got' = got /\ asking' = asking /\ (handed' = handed \/ handed' = <<>>)
    BY <1>3, HandleFacts
  <2>2. Situation'
    BY <1>1, <1>3, TwoEnds, HandleServerUnits, HandleClientUnits
  <2> QED
    BY <1>1, <2>1, <2>2, HistoryKeeps DEF UnitsInv
<1>4. ASSUME NEW e \in Ends, NextFrame(e) \/ Acknowledge(e) \/ Lose(e)
      PROVE  UnitsInv'
  <2>1. got' = got /\ asking' = asking /\ handed' = handed
    BY <1>4 DEF NextFrame, Acknowledge, Lose
  <2>2. Situation'
    BY <1>1, <1>4, TwoEnds, ClientSends, ServerSends, ClientAcknowledges, ServerAcknowledges, LoseUnits
  <2> QED
    BY <1>1, <2>1, <2>2, HistoryKeeps DEF UnitsInv
<1>5. CASE Connect \/ Request \/ Poll \/ GiveUp \/ ServerGivesUp
  <2>1. got' = got /\ asking' = asking /\ handed' = handed
    BY <1>5 DEF Connect, Request, Poll, GiveUp, ServerGivesUp
  <2>2. Situation'
    BY <1>1, <1>5, ConnectUnits, RequestUnits, PollUnits, GiveUpUnits, ServerGivesUpUnits
  <2> QED
    BY <1>1, <2>1, <2>2, HistoryKeeps DEF UnitsInv
<1>6. CASE PolledSend \/ PolledRefuses \/ Disconnect \/ Resend \/ Neighbour
  <2>1. got' = got /\ asking' = asking /\ handed' = handed
    BY <1>6 DEF PolledSend, PolledRefuses, Disconnect, Resend, Neighbour
  <2>2. Situation'
    BY <1>1, <1>6, PolledSendUnits, PolledRefusesUnits, DisconnectUnits, ResendUnits, NeighbourUnits
  <2> QED
    BY <1>1, <2>1, <2>2, HistoryKeeps DEF UnitsInv
<1>7. CASE UNCHANGED vars
  <2>1. got' = got /\ asking' = asking /\ handed' = handed
    BY <1>7 DEF vars
  <2> QED
    BY <1>1, <1>7, <2>1, HistoryKeeps, StillUnits DEF UnitsInv
<1> QED
  BY <1>2, <1>3, <1>4, <1>5, <1>6, <1>7 DEF Next

\* A unit handed to a host is one unit of its peer, every piece in its place, whatever is
\* lost and sent again and whatever limits the ends negotiate: with hosts that wait for a
\* round trip, and where no unit on a line that loses has more segments than there are
\* numbers.  One segment more, and handle takes the first for the last.
THEOREM UnitsArrive ==
  ASSUME \A m \in Modes : m.patient, Countable
  PROVE  Spec => []UnitsIntact
<1>1. Init => Inv /\ HandshakeInv /\ UnitsInv
  BY InitInv, InitShakes, InitUnits
<1>2. Inv /\ HandshakeInv /\ UnitsInv /\ [Next]_vars => (Inv /\ HandshakeInv /\ UnitsInv)'
  BY NextInv, NextShakes, NextUnits
<1>3. UnitsInv => UnitsIntact
  BY DEF UnitsInv, History
<1> QED
  BY <1>1, <1>2, <1>3, PTL DEF Spec

\* With such hosts and such units, no request is handed over twice while a link lasts,
\* none before an earlier one, and no response is taken for two, though the client sends
\* again what the server may have had.
THEOREM HandedOnce ==
  ASSUME \A m \in Modes : m.patient, Countable
  PROVE  Spec => []OncePerLink
<1>1. Init => Inv /\ HandshakeInv /\ UnitsInv
  BY InitInv, InitShakes, InitUnits
<1>2. Inv /\ HandshakeInv /\ UnitsInv /\ [Next]_vars => (Inv /\ HandshakeInv /\ UnitsInv)'
  BY NextInv, NextShakes, NextUnits
<1>3. UnitsInv => OncePerLink
  BY DEF UnitsInv, History
<1> QED
  BY <1>1, <1>2, <1>3, PTL DEF Spec
=============================================================================
