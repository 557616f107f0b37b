-------------------------------- MODULE Gbt ---------------------------------
(***************************************************************************)
(* General block transfer (src/xdlms/gbt.rs): a GbtSender and a            *)
(* GbtReceiver, each driven by its caller, over a FIFO link that may lose  *)
(* what it carries.  The sender's caller has Apdus APDUs to move, each of  *)
(* Total blocks, and makes a new GbtSender for the next one when the last  *)
(* is_done; the receiver's caller takes an APDU when push says Complete.   *)
(*                                                                         *)
(* A block's data is <<apdu, number>>: which APDU it was cut from and      *)
(* where.  The wire carries the number only.                               *)
(***************************************************************************)
EXTENDS Integers, Sequences

CONSTANTS
  Apdus,       \* how many APDUs the sender's caller moves
  Total,       \* blocks per APDU (u16, at least one: an empty APDU is a block)
  Window,      \* the window GbtSender::new is asked for
  WindowMax,   \* GBT_WINDOW_MAX: what the six-bit field carries
  Modes,       \* the ways to run it: whether the sender streams (of its
               \* configuration), whether the link loses anything (of the link)
  Capacities,  \* sizes, in blocks, the receiver's buffer may have
  EagerAcks,   \* whether the receiver's caller acknowledges unasked, too
  Resets,      \* whether it resets the receiver once it has taken an APDU
  LinkMax      \* bound: messages in flight in each direction

ASSUME ApdusAssumption == Apdus \in Nat \ {0}
ASSUME TotalAssumption == Total \in Nat \ {0}
ASSUME WindowAssumption == Window \in Nat
ASSUME WindowMaxAssumption == WindowMax \in Nat \ {0}
ASSUME FlagsAssumption == {EagerAcks, Resets} \subseteq BOOLEAN
ASSUME ModesAssumption == Modes \subseteq [streaming : BOOLEAN, lossy : BOOLEAN]
ASSUME CapacitiesAssumption == Capacities \subseteq Nat
ASSUME LinkMaxAssumption == LinkMax \in Nat \ {0}

VARIABLES
  mode,        \* the one this transfer runs in
  apdu,        \* which APDU the GbtSender at work was made for
  block,       \* GbtSender.block: number of the last block emitted
  acked,       \* GbtSender.acked: highest block acknowledged
  content,     \* GbtReceiver.buf up to len: the data of the blocks taken
  received,    \* GbtReceiver.received: highest block received in order
  sinceAck,    \* GbtReceiver.since_ack
  complete,    \* GbtReceiver.complete
  capacity,    \* the size of the buffer the receiver was given
  blocks,      \* the link, sender to receiver
  acks,        \* the link, receiver to sender
  taken        \* every APDU the receiver's caller has been told is complete

senderVars == <<mode, apdu, block, acked>>
receiverVars == <<content, received, sinceAck, complete, capacity>>
vars == <<senderVars, receiverVars, blocks, acks, taken>>

Init ==
  /\ mode \in Modes
  /\ apdu = 1 /\ block = 0 /\ acked = 0
  /\ content = <<>> /\ received = 0 /\ sinceAck = 0 /\ complete = FALSE
  /\ capacity \in Capacities
  /\ blocks = <<>> /\ acks = <<>>
  /\ taken = <<>>

-----------------------------------------------------------------------------
(* The sender. *)

\* GbtSender::new: clamped to 1 .. WindowMax, and one when not streaming.
SendWindow ==
  IF ~mode.streaming THEN 1
  ELSE IF Window < 1 THEN 1
  ELSE IF Window > WindowMax THEN WindowMax ELSE Window

\* Mutant: done once the last block is out.
IsDoneOnceSent == block >= Total

\* GbtSender::is_done.
IsDone == acked >= Total

\* Mutant: the end of the APDU is not checked.
WindowOpenPastEnd == block - acked < SendWindow

\* next_block has a block to give: not past the end, and the window not full.
WindowOpen == block < Total /\ block - acked < SendWindow

\* GbtSender::next_block, and the block put on the link.
NextBlock ==
  /\ WindowOpen
  /\ Len(blocks) < LinkMax
  /\ block' = block + 1
  /\ blocks' = Append(blocks, [number |-> block + 1, last |-> block + 1 = Total,
                               window |-> SendWindow, data |-> <<apdu, block + 1>>])
  /\ UNCHANGED <<mode, apdu, acked, receiverVars, acks, taken>>

\* Mutant: an acknowledgement below the last one is taken for a retry.
AcceptableAckAnyLower(n) == n <= block

\* Mutant: repeating the last acknowledgement is refused.
AcceptableAckNewOnly(n) == n <= block /\ n > acked

\* acknowledge refuses a block never sent, and one below what is acknowledged.
AcceptableAck(n) == n <= block /\ n >= acked

\* GbtSender::acknowledge: everything after the acknowledged block is sent again.
\* A refused acknowledgement is dropped by the caller.
Acknowledge ==
  /\ acks # <<>>
  /\ acks' = Tail(acks)
  /\ LET n == Head(acks)
     IN  IF AcceptableAck(n)
           THEN acked' = n /\ block' = n
           ELSE UNCHANGED <<acked, block>>
  /\ UNCHANGED <<mode, apdu, receiverVars, blocks, taken>>

\* The caller makes a GbtSender for its next APDU.
NextApdu ==
  /\ IsDone
  /\ apdu < Apdus
  /\ apdu' = apdu + 1
  /\ block' = 0 /\ acked' = 0
  /\ UNCHANGED <<mode, receiverVars, blocks, acks, taken>>

-----------------------------------------------------------------------------
(* The receiver. *)

\* Mutant: a completed receiver is not reset by the next block.
StartKept == received

\* The receiver as push finds it, after the reset of a completed one.
Start == IF complete THEN 0 ELSE received
StartContent == IF complete THEN <<>> ELSE content
StartSince == IF complete THEN 0 ELSE sinceAck

\* Mutant: a block from beyond the gap is taken as well.
InOrderOrAhead(b) == b.number >= Start + 1

\* The block push is waiting for.
InOrder(b) == b.number = Start + 1

\* How many in-order blocks an acknowledgement is owed after.
ReceiveWindow(b) == IF mode.streaming /\ b.window > 1 THEN b.window ELSE 1

Acknowledging(n) == Len(acks) < LinkMax /\ acks' = Append(acks, n)

\* Mutant: the highest block seen is acknowledged, not where the run reaches.
PushOutOfOrderAcksHighest(b) ==
  /\ ~InOrder(b)
  /\ received' = Start /\ content' = StartContent
  /\ sinceAck' = 0 /\ complete' = FALSE
  /\ Acknowledging(b.number)
  /\ UNCHANGED <<capacity, taken>>

\* push, the block is out of order: forget it, and say where the run reaches.
PushOutOfOrder(b) ==
  /\ ~InOrder(b)
  /\ received' = Start /\ content' = StartContent
  /\ sinceAck' = 0 /\ complete' = FALSE
  /\ Acknowledging(Start)
  /\ UNCHANGED <<capacity, taken>>

\* push, the buffer is full: an error, and the block is not taken.
PushTooLarge(b) ==
  /\ InOrder(b)
  /\ Len(StartContent) + 1 > capacity
  /\ received' = Start /\ content' = StartContent
  /\ sinceAck' = StartSince /\ complete' = FALSE
  /\ UNCHANGED <<capacity, acks, taken>>

\* push takes the block: Complete, Acknowledge or Await.
PushTakes(b) ==
  /\ InOrder(b)
  /\ Len(StartContent) + 1 <= capacity
  /\ received' = b.number
  /\ content' = Append(StartContent, b.data)
  /\ complete' = b.last
  /\ taken' = IF b.last THEN Append(taken, content') ELSE taken
  /\ IF b.last \/ StartSince + 1 >= ReceiveWindow(b)
       THEN sinceAck' = 0 /\ Acknowledging(b.number)
       ELSE sinceAck' = StartSince + 1 /\ UNCHANGED acks
  /\ UNCHANGED capacity

\* GbtReceiver::push, and the acknowledgement its answer asks the caller for.
Push ==
  /\ blocks # <<>>
  /\ blocks' = Tail(blocks)
  /\ LET b == Head(blocks)
     IN  PushOutOfOrder(b) \/ PushTooLarge(b) \/ PushTakes(b)
  /\ UNCHANGED senderVars

\* The receiver's caller sends GbtReceiver::acknowledgement unasked: because
\* nothing has moved for a while, or (EagerAcks) whenever it likes.
Timeout ==
  /\ ~IsDone
  /\ EagerAcks \/ (blocks = <<>> /\ acks = <<>> /\ ~WindowOpen)
  /\ Acknowledging(received)
  /\ UNCHANGED <<senderVars, receiverVars, blocks, taken>>

\* GbtReceiver::reset by a caller that has taken the APDU.
Reset ==
  /\ Resets /\ complete
  /\ content' = <<>> /\ received' = 0 /\ sinceAck' = 0 /\ complete' = FALSE
  /\ UNCHANGED <<senderVars, capacity, blocks, acks, taken>>

-----------------------------------------------------------------------------
(* The link. *)

LoseBlock ==
  /\ mode.lossy /\ blocks # <<>>
  /\ blocks' = Tail(blocks)
  /\ UNCHANGED <<senderVars, receiverVars, acks, taken>>

LoseAck ==
  /\ mode.lossy /\ acks # <<>>
  /\ acks' = Tail(acks)
  /\ UNCHANGED <<senderVars, receiverVars, blocks, taken>>

Next ==
  \/ NextBlock \/ Acknowledge \/ NextApdu
  \/ Push \/ Timeout \/ Reset
  \/ LoseBlock \/ LoseAck

Spec == Init /\ [][Next]_vars

\* Both callers keep driving their ends, and a link that is used again and again
\* delivers again and again.
Fairness ==
  /\ WF_vars(NextBlock) /\ WF_vars(NextApdu) /\ WF_vars(Timeout)
  /\ SF_vars(Push) /\ SF_vars(Acknowledge)

FairSpec == Spec /\ Fairness

-----------------------------------------------------------------------------
(* Properties. *)

Blocks == [number : 1 .. Total, last : BOOLEAN, window : 1 .. WindowMax,
           data : (1 .. Apdus) \X (1 .. Total)]

\* Every variable keeps its type, and the sender never has more than a window
\* outstanding, whatever rewinds it.
TypeOK ==
  /\ mode \in Modes
  /\ apdu \in 1 .. Apdus /\ block \in 0 .. Total /\ acked \in 0 .. Total
  /\ content \in Seq((1 .. Apdus) \X (1 .. Total))
  /\ received \in 0 .. Total /\ sinceAck \in 0 .. Total /\ complete \in BOOLEAN
  /\ capacity \in Capacities
  /\ acked <= block /\ block - acked <= SendWindow
  /\ blocks \in Seq(Blocks) /\ acks \in Seq(0 .. Total)
  /\ taken \in Seq(Seq((1 .. Apdus) \X (1 .. Total)))

Whole(a) == [i \in 1 .. Total |-> <<a, i>>]

\* Every APDU the receiver reports complete is one the sender was given, whole
\* and in order: no block missing, repeated or out of another APDU.
TakenIntact ==
  \A i \in 1 .. Len(taken) : \E a \in 1 .. Apdus : taken[i] = Whole(a)

\* A sender that is_done has been told so by a receiver that had it all.
DoneIsDelivered == IsDone => \E i \in 1 .. Len(taken) : taken[i] = Whole(apdu)

\* An acknowledgement is never taken back: what a sender counts as delivered
\* only grows until its transfer ends ("un-acknowledging one is not a retry").
AckedNeverFalls == [][acked' >= acked \/ apdu' # apdu]_vars

\* The first APDU arrives and its sender learns of it, whatever the link loses of
\* blocks and acknowledgements on the way.
FirstDelivered == <>(apdu > 1 \/ IsDone)

\* On a link that loses nothing one receiver takes every APDU, one after another,
\* with no reset between them, and the sender learns of each.
AllDelivered == ~mode.lossy => <>(apdu = Apdus /\ IsDone)

\* The APDUs handed over, by number; 0 stands for one that is not whole.
Delivered == [i \in 1 .. Len(taken) |->
                IF \E a \in 1 .. Apdus : taken[i] = Whole(a) THEN taken[i][1][1] ELSE 0]

\* Block transfer implements the delivery its callers rely on: exactly once,
\* whole, in order.
Delivery == INSTANCE BlockDelivery WITH sending <- apdu, delivered <- Delivered
ImplementsDelivery == Delivery!Spec
=============================================================================
