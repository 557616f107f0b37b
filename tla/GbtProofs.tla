------------------------------ MODULE GbtProofs -----------------------------
(***************************************************************************)
(* Proofs about Gbt, for every number of APDUs and of blocks, every window *)
(* and every size of the receiver's buffer.                                *)
(***************************************************************************)
EXTENDS Gbt, TLAPS

Data == (1 .. Apdus) \X (1 .. Total)
Numbers == 0 .. Total

(***************************************************************************)
(* The link.                                                               *)
(***************************************************************************)

\* Something added to a queue goes to its end.
LEMMA Added ==
  ASSUME NEW S, NEW q \in Seq(S), NEW x \in S
  PROVE  /\ Append(q, x) \in Seq(S) /\ Len(Append(q, x)) = Len(q) + 1 /\ Len(q) \in Nat
         /\ \A i \in 1 .. Len(q) : Append(q, x)[i] = q[i]
         /\ Append(q, x)[Len(q) + 1] = x
OBVIOUS

\* What is taken off a queue is its first element, and the others move up.
LEMMA Removed ==
  ASSUME NEW S, NEW q \in Seq(S), q # <<>>
  PROVE  /\ Head(q) \in S /\ Head(q) = q[1] /\ Tail(q) \in Seq(S)
         /\ Len(q) \in Nat \ {0} /\ Len(Tail(q)) = Len(q) - 1
         /\ \A i \in 1 .. Len(Tail(q)) : Tail(q)[i] = q[i + 1]
OBVIOUS

(***************************************************************************)
(* Types.                                                                  *)
(***************************************************************************)

\* since_ack counts some of the blocks received: with that the types are inductive.
TypeInv == TypeOK /\ sinceAck <= received

\* GbtSender::new: a window is never empty, nor beyond what its field carries.
LEMMA SendWindowRange ==
  ASSUME TypeOK
  PROVE  SendWindow \in 1 .. WindowMax /\ (~mode.streaming => SendWindow = 1)
BY WindowAssumption, WindowMaxAssumption DEF SendWindow

\* GbtSender::new and GbtReceiver::new.
LEMMA InitTypeInv ==
  ASSUME Init
  PROVE  TypeInv
<1>1. SendWindow \in 1 .. WindowMax
  BY WindowAssumption, WindowMaxAssumption DEF SendWindow
<1>2. /\ <<>> \in Seq((1 .. Apdus) \X (1 .. Total)) /\ <<>> \in Seq(Blocks)
      /\ <<>> \in Seq(0 .. Total) /\ <<>> \in Seq(Seq((1 .. Apdus) \X (1 .. Total)))
  OBVIOUS
<1>3. 0 \in 0 .. Total /\ 1 \in 1 .. Apdus /\ 0 - 0 <= SendWindow
  BY <1>1, TotalAssumption, ApdusAssumption, WindowMaxAssumption
<1>4. complete \in BOOLEAN
  BY DEF Init
<1>5. /\ mode \in Modes /\ capacity \in Capacities
      /\ apdu = 1 /\ block = 0 /\ acked = 0 /\ received = 0 /\ sinceAck = 0
      /\ content = <<>> /\ blocks = <<>> /\ acks = <<>> /\ taken = <<>>
  BY DEF Init
<1> QED
  BY <1>2, <1>3, <1>4, <1>5 DEF TypeInv, TypeOK

\* push leaves a receiver of the right shape, whichever answer it gives.
LEMMA PushTypeInv ==
  ASSUME TypeInv, Push
  PROVE  TypeInv'
<1> DEFINE b == Head(blocks)
<1> USE TotalAssumption, ApdusAssumption, WindowMaxAssumption
<1>1. /\ blocks # <<>> /\ blocks' = Tail(blocks)
      /\ PushOutOfOrder(b) \/ PushTooLarge(b) \/ PushTakes(b)
      /\ mode' = mode /\ apdu' = apdu /\ block' = block /\ acked' = acked
  BY DEF Push, senderVars
<1>2. b \in Blocks /\ Tail(blocks) \in Seq(Blocks)
  BY <1>1, Removed DEF TypeInv, TypeOK
<1> HIDE DEF b
<1>3. b.number \in 1 .. Total /\ b.last \in BOOLEAN /\ b.data \in Data
  BY <1>2 DEF Blocks, Data
<1>4. /\ Start \in 0 .. Total /\ StartSince \in 0 .. Total /\ StartSince <= Start
      /\ StartContent \in Seq(Data)
  BY DEF TypeInv, TypeOK, Start, StartSince, StartContent, Data
<1>5. /\ content' \in Seq(Data) /\ received' \in 0 .. Total /\ sinceAck' \in 0 .. Total
      /\ sinceAck' <= received' /\ complete' \in BOOLEAN /\ capacity' = capacity
      /\ acks' \in Seq(Numbers) /\ taken' \in Seq(Seq(Data))
  <2>1. acks \in Seq(Numbers) /\ taken \in Seq(Seq(Data))
    BY DEF TypeInv, TypeOK, Data, Numbers
  <2>2. CASE PushOutOfOrder(b)
    <3>1. Append(acks, Start) \in Seq(Numbers)
      BY <1>4, <2>1, Added DEF Numbers
    <3>2. complete' \in BOOLEAN
      BY <2>2 DEF PushOutOfOrder
    <3> QED
      BY <1>4, <2>1, <2>2, <3>1, <3>2 DEF PushOutOfOrder, Acknowledging
  <2>3. CASE PushTooLarge(b)
    BY <1>4, <2>1, <2>3 DEF PushTooLarge
  <2>4. CASE PushTakes(b)
    <3>1. content' = Append(StartContent, b.data) /\ content' \in Seq(Data)
      BY <1>3, <1>4, <2>4, Added DEF PushTakes
    <3>2. taken' \in Seq(Seq(Data))
      BY <2>1, <2>4, <3>1, Added DEF PushTakes
    <3>3. /\ received' = b.number /\ b.number = Start + 1 /\ capacity' = capacity
          /\ \/ sinceAck' = 0 /\ acks' = Append(acks, b.number)
             \/ sinceAck' = StartSince + 1 /\ acks' = acks
      BY <2>4 DEF PushTakes, InOrder, Acknowledging
    <3>4. Append(acks, b.number) \in Seq(Numbers)
      BY <1>3, <2>1, Added DEF Numbers
    <3>5. complete' \in BOOLEAN
      BY <1>3, <2>4 DEF PushTakes
    <3>6. b.number \in 1 .. Total /\ Start \in 0 .. Total /\ StartSince \in 0 .. Total
          /\ StartSince <= Start
      BY <1>3, <1>4
    <3>7. acks' \in Seq(Numbers)
      BY <2>1, <3>3, <3>4
    <3>8. received' \in 0 .. Total /\ sinceAck' \in 0 .. Total /\ sinceAck' <= received'
      BY <3>3, <3>6
    <3> QED
      BY <3>1, <3>2, <3>3, <3>5, <3>7, <3>8
  <2> QED
    BY <1>1, <2>2, <2>3, <2>4
<1>6. /\ mode \in Modes /\ apdu \in 1 .. Apdus /\ block \in 0 .. Total /\ acked \in 0 .. Total
      /\ capacity \in Capacities /\ acked <= block /\ block - acked <= SendWindow
      /\ SendWindow' = SendWindow
  BY <1>1 DEF TypeInv, TypeOK, SendWindow
<1> QED
  BY <1>1, <1>2, <1>5, <1>6 DEF TypeInv, TypeOK, Data, Numbers

\* So does every step.
LEMMA NextTypeInv ==
  ASSUME TypeInv, [Next]_vars
  PROVE  TypeInv'
<1> USE TotalAssumption, ApdusAssumption, WindowMaxAssumption
<1>1. SendWindow \in 1 .. WindowMax
  BY SendWindowRange DEF TypeInv
<1>2. CASE NextBlock
  <2> DEFINE b == [number |-> block + 1, last |-> block + 1 = Total, window |-> SendWindow,
                   data |-> <<apdu, block + 1>>]
  <2>1. /\ block < Total /\ block - acked < SendWindow
        /\ block' = block + 1 /\ blocks' = Append(blocks, b)
        /\ UNCHANGED <<mode, apdu, acked, receiverVars, acks, taken>>
    BY <1>2 DEF NextBlock, WindowOpen
  <2>2. b \in Blocks
    BY <1>1, <2>1 DEF TypeInv, TypeOK, Blocks
  <2> HIDE DEF b
  <2>3. blocks' \in Seq(Blocks)
    BY <2>1, <2>2, Added DEF TypeInv, TypeOK
  <2>4. /\ SendWindow' = SendWindow /\ block' \in 0 .. Total /\ acked' <= block'
        /\ block' - acked' <= SendWindow
    <3>1. SendWindow' = SendWindow
      BY <2>1 DEF SendWindow
    <3>2. block \in 0 .. Total /\ acked \in 0 .. Total /\ acked <= block
      BY DEF TypeInv, TypeOK
    <3> QED
      BY <1>1, <2>1, <3>1, <3>2
  <2> QED
    BY <2>1, <2>3, <2>4 DEF TypeInv, TypeOK, receiverVars
<1>3. CASE Acknowledge
  <2>1. /\ acks # <<>> /\ acks' = Tail(acks)
        /\ UNCHANGED <<mode, apdu, receiverVars, blocks, taken>>
        /\ \/ /\ Head(acks) <= block /\ Head(acks) >= acked
              /\ acked' = Head(acks) /\ block' = Head(acks)
           \/ acked' = acked /\ block' = block
    BY <1>3 DEF Acknowledge, AcceptableAck
  <2>2. Head(acks) \in 0 .. Total /\ acks' \in Seq(0 .. Total)
    BY <2>1, Removed DEF TypeInv, TypeOK
  <2>3. /\ SendWindow' = SendWindow /\ block' \in 0 .. Total /\ acked' \in 0 .. Total
        /\ acked' <= block' /\ block' - acked' <= SendWindow
    <3>1. SendWindow' = SendWindow
      BY <2>1 DEF SendWindow
    <3>2. /\ block \in 0 .. Total /\ acked \in 0 .. Total /\ acked <= block
          /\ block - acked <= SendWindow
      BY DEF TypeInv, TypeOK
    <3> QED
      BY <1>1, <2>1, <2>2, <3>1, <3>2
  <2> QED
    BY <2>1, <2>2, <2>3 DEF TypeInv, TypeOK, receiverVars
<1>4. CASE NextApdu
  <2>1. SendWindow' = SendWindow
    BY <1>4 DEF NextApdu, SendWindow
  <2> QED
    BY <1>1, <1>4, <2>1 DEF NextApdu, TypeInv, TypeOK, receiverVars
<1>5. CASE Push
  BY <1>5, PushTypeInv
<1>6. CASE Timeout
  <2>1. SendWindow' = SendWindow /\ acks' = Append(acks, received)
    BY <1>6 DEF Timeout, Acknowledging, SendWindow, senderVars
  <2>2. acks' \in Seq(0 .. Total)
    BY <2>1, Added DEF TypeInv, TypeOK
  <2> QED
    BY <1>6, <2>1, <2>2 DEF Timeout, TypeInv, TypeOK, senderVars, receiverVars
<1>7. CASE Reset
  <2>1. SendWindow' = SendWindow
    BY <1>7 DEF Reset, SendWindow, senderVars
  <2> QED
    <3>1. <<>> \in Seq(Data)
      OBVIOUS
    <3>2. content' \in Seq((1 .. Apdus) \X (1 .. Total))
      BY <1>7, <3>1 DEF Reset, Data
    <3>3. received' = 0 /\ sinceAck' = 0 /\ 0 \in 0 .. Total
      BY <1>7 DEF Reset
    <3>4. complete' \in BOOLEAN
      BY <1>7 DEF Reset
    <3>5. UNCHANGED <<mode, apdu, block, acked, capacity, blocks, acks, taken>>
      BY <1>7 DEF Reset, senderVars
    <3> QED
      BY <2>1, <3>2, <3>3, <3>4, <3>5 DEF TypeInv, TypeOK
<1>8. CASE LoseBlock
  <2>1. SendWindow' = SendWindow /\ blocks' \in Seq(Blocks)
    BY <1>8, Removed DEF LoseBlock, SendWindow, senderVars, TypeInv, TypeOK
  <2> QED
    BY <1>8, <2>1 DEF LoseBlock, TypeInv, TypeOK, senderVars, receiverVars
<1>9. CASE LoseAck
  <2>1. SendWindow' = SendWindow /\ acks' \in Seq(0 .. Total)
    BY <1>9, Removed DEF LoseAck, SendWindow, senderVars, TypeInv, TypeOK
  <2> QED
    BY <1>9, <2>1 DEF LoseAck, TypeInv, TypeOK, senderVars, receiverVars
<1>10. CASE UNCHANGED vars
  BY <1>10 DEF vars, senderVars, receiverVars, TypeInv, TypeOK, SendWindow
<1> QED
  BY <1>2, <1>3, <1>4, <1>5, <1>6, <1>7, <1>8, <1>9, <1>10 DEF Next

\* The counters of both ends stay in range and at most a window of blocks is outstanding,
\* whatever the link loses and however often the sender is rewound.
THEOREM TypeCorrect == Spec => []TypeOK
<1>1. Init => TypeInv
  BY InitTypeInv
<1>2. TypeInv /\ [Next]_vars => TypeInv'
  BY NextTypeInv
<1>3. TypeInv => TypeOK
  BY DEF TypeInv
<1> QED
  BY <1>1, <1>2, <1>3, PTL DEF Spec

\* GbtSender::acknowledge never takes an acknowledgement back.
THEOREM AcksStand == Spec => AckedNeverFalls
<1>1. Init => TypeInv
  BY InitTypeInv
<1>2. TypeInv /\ [Next]_vars => TypeInv'
  BY NextTypeInv
<1>3. TypeInv /\ [Next]_vars => [acked' >= acked \/ apdu' # apdu]_vars
  <2> SUFFICES ASSUME TypeInv, Next PROVE acked' >= acked \/ apdu' # apdu
    BY DEF vars
  <2>1. acked \in Nat /\ apdu \in Nat
    BY DEF TypeInv, TypeOK
  <2>2. CASE Acknowledge
    <3>1. acks \in Seq(Numbers) /\ acks # <<>>
      BY <2>2 DEF Acknowledge, TypeInv, TypeOK, Numbers
    <3>2. Head(acks) \in Numbers
      BY <3>1, Removed
    <3> QED
      BY <2>1, <2>2, <3>2 DEF Acknowledge, AcceptableAck, Numbers
  <2>3. CASE NextApdu
    BY <2>1, <2>3 DEF NextApdu
  <2>4. CASE ~Acknowledge /\ ~NextApdu
    BY <2>1, <2>4 DEF Next, NextBlock, Push, Timeout, Reset, LoseBlock, LoseAck, senderVars
  <2> QED
    BY <2>2, <2>3, <2>4
<1> QED
  BY <1>1, <1>2, <1>3, PTL DEF Spec, AckedNeverFalls

-----------------------------------------------------------------------------
(***************************************************************************)
(* One APDU, over any link and with any callers: the sender streams or     *)
(* not, anything may be lost, acknowledgements are repeated at will and    *)
(* the receiver may be reset.                                              *)
(***************************************************************************)

\* A block is what its number says: which block of which APDU, and whether the last.
BlockOf(a, b) == b.data = <<a, b.number>> /\ (b.last <=> b.number = Total)

\* What the receiver has is the beginning of the APDU.
Prefix(a) ==
  /\ Len(content) = received
  /\ \A i \in 1 .. received : content[i] = <<a, i>>

\* Whoever holds an acknowledgement of the last block has it from a receiver that has
\* handed the APDU over.
OneInv ==
  /\ Prefix(1)
  /\ complete <=> received = Total
  /\ \A i \in 1 .. Len(blocks) : BlockOf(1, blocks[i])
  /\ \A i \in 1 .. Len(taken) : taken[i] = Whole(1)
  /\ received = Total => taken # <<>>
  /\ acked = Total => taken # <<>>
  /\ \A i \in 1 .. Len(acks) : acks[i] = Total => taken # <<>>

\* A sequence of all the blocks in order is the APDU.
LEMMA PrefixIsWhole ==
  ASSUME NEW S, NEW c \in Seq(S), NEW a, Len(c) = Total, \A i \in 1 .. Total : c[i] = <<a, i>>
  PROVE  c = Whole(a)
<1>1. c = [i \in 1 .. Len(c) |-> c[i]]
  OBVIOUS
<1>2. [i \in 1 .. Total |-> c[i]] = [i \in 1 .. Total |-> <<a, i>>]
  OBVIOUS
<1> QED
  BY <1>1, <1>2 DEF Whole

\* push takes the next block: what the receiver has is one block longer.
LEMMA PrefixGrows ==
  ASSUME NEW c \in Seq(Data), NEW n \in 0 .. Total, NEW a, NEW x \in Data, Len(c) = n,
         \A i \in 1 .. n : c[i] = <<a, i>>, x = <<a, n + 1>>
  PROVE  /\ Append(c, x) \in Seq(Data) /\ Len(Append(c, x)) = n + 1
         /\ \A i \in 1 .. n + 1 : Append(c, x)[i] = <<a, i>>
<1>1. /\ Append(c, x) \in Seq(Data) /\ Len(Append(c, x)) = n + 1
      /\ \A i \in 1 .. n : Append(c, x)[i] = c[i]
      /\ Append(c, x)[n + 1] = x
  BY Added
<1> QED
  BY <1>1

\* The invariant of one APDU is inductive.
LEMMA NextOneInv ==
  ASSUME Apdus = 1, TypeInv, OneInv, [Next]_vars
  PROVE  OneInv'
<1> USE TotalAssumption
<1>0. /\ apdu = 1 /\ block \in 0 .. Total /\ acked \in 0 .. Total /\ received \in 0 .. Total
      /\ acked <= block /\ blocks \in Seq(Blocks) /\ acks \in Seq(Numbers)
      /\ content \in Seq(Data) /\ taken \in Seq(Seq(Data)) /\ complete \in BOOLEAN
  BY DEF TypeInv, TypeOK, Data, Numbers
<1>1. ASSUME NEW n \in Numbers, n = Total => taken # <<>>, acks' = Append(acks, n)
      PROVE  \A i \in 1 .. Len(acks') : acks'[i] = Total => taken # <<>>
  BY <1>0, <1>1, Added DEF OneInv
<1>2. CASE NextBlock
  <2> DEFINE b == [number |-> block + 1, last |-> block + 1 = Total, window |-> SendWindow,
                   data |-> <<apdu, block + 1>>]
  <2>1. /\ blocks' = Append(blocks, b) /\ block < Total
        /\ UNCHANGED <<acked, content, received, complete, acks, taken>>
    BY <1>2 DEF NextBlock, WindowOpen, receiverVars
  <2>2. b \in Blocks /\ BlockOf(1, b)
    <3>1. SendWindow \in 1 .. WindowMax
      BY SendWindowRange DEF TypeInv
    <3>2. block + 1 \in 1 .. Total /\ apdu \in 1 .. Apdus
      BY <1>0, <2>1 DEF TypeInv, TypeOK
    <3>3. b \in Blocks
      BY <3>1, <3>2 DEF Blocks
    <3>4. b.number = block + 1 /\ b.data = <<1, block + 1>> /\ b.last = (block + 1 = Total)
      BY <1>0
    <3> QED
      BY <3>3, <3>4 DEF BlockOf
  <2> HIDE DEF b
  <2>3. \A i \in 1 .. Len(blocks') : BlockOf(1, blocks'[i])
    BY <1>0, <2>1, <2>2, Added DEF OneInv
  <2> QED
    BY <2>1, <2>3 DEF OneInv, Prefix
<1>3. CASE Acknowledge
  <2>1. /\ acks # <<>> /\ acks' = Tail(acks)
        /\ UNCHANGED <<content, received, complete, blocks, taken>>
        /\ acked' = Head(acks) \/ acked' = acked
    BY <1>3 DEF Acknowledge, receiverVars
  <2>2. /\ Head(acks) = acks[1] /\ Len(acks) \in Nat \ {0} /\ Len(acks') = Len(acks) - 1
        /\ \A i \in 1 .. Len(acks') : acks'[i] = acks[i + 1]
    BY <1>0, <2>1, Removed
  <2>3. /\ acked' = Total => taken # <<>>
        /\ \A i \in 1 .. Len(acks') : acks'[i] = Total => taken # <<>>
    BY <2>1, <2>2 DEF OneInv
  <2> QED
    BY <2>1, <2>3 DEF OneInv, Prefix
<1>4. CASE NextApdu
  BY <1>0, <1>4 DEF NextApdu
<1>5. CASE Push
  <2> DEFINE b == Head(blocks)
  <2>1. /\ blocks # <<>> /\ blocks' = Tail(blocks) /\ acked' = acked
        /\ PushOutOfOrder(b) \/ PushTooLarge(b) \/ PushTakes(b)
    BY <1>5 DEF Push, senderVars
  <2>2. b \in Blocks /\ BlockOf(1, b) /\ \A i \in 1 .. Len(blocks') : BlockOf(1, blocks'[i])
    <3>1. /\ b \in Blocks /\ b = blocks[1] /\ Len(blocks) \in Nat \ {0}
          /\ Len(blocks') = Len(blocks) - 1
          /\ \A i \in 1 .. Len(blocks') : blocks'[i] = blocks[i + 1]
      BY <1>0, <2>1, Removed
    <3> QED
      BY <3>1 DEF OneInv
  <2> HIDE DEF b
  <2>3. b.number \in 1 .. Total /\ b.data \in Data /\ b.last \in BOOLEAN
    BY <2>2 DEF Blocks, Data
  <2>4. /\ Start \in 0 .. Total /\ Start < Total /\ StartContent \in Seq(Data)
        /\ Len(StartContent) = Start /\ \A i \in 1 .. Start : StartContent[i] = <<1, i>>
    <3>1. CASE complete
      BY <3>1 DEF Start, StartContent
    <3>2. CASE ~complete
      BY <1>0, <3>2 DEF Start, StartContent, OneInv, Prefix
    <3> QED
      BY <3>1, <3>2
  <2>5. CASE PushOutOfOrder(b)
    <3>1. /\ received' = Start /\ content' = StartContent /\ complete' = FALSE
          /\ acks' = Append(acks, Start) /\ taken' = taken
      BY <2>5 DEF PushOutOfOrder, Acknowledging
    <3>2. \A i \in 1 .. Len(acks') : acks'[i] = Total => taken # <<>>
      BY <1>1, <2>4, <3>1 DEF Numbers
    <3>3. Prefix(1)' /\ received' # Total
      BY <2>4, <3>1 DEF Prefix
    <3> QED
      BY <2>1, <2>2, <3>1, <3>2, <3>3 DEF OneInv
  <2>6. CASE PushTooLarge(b)
    <3>1. /\ received' = Start /\ content' = StartContent /\ complete' = FALSE
          /\ acks' = acks /\ taken' = taken
      BY <2>6 DEF PushTooLarge
    <3>2. Prefix(1)' /\ received' # Total
      BY <2>4, <3>1 DEF Prefix
    <3> QED
      BY <2>1, <2>2, <3>1, <3>2 DEF OneInv
  <2>7. CASE PushTakes(b)
    <3>1. /\ b.number = Start + 1 /\ received' = Start + 1 /\ complete' = b.last
          /\ content' = Append(StartContent, b.data)
          /\ taken' = IF b.last THEN Append(taken, content') ELSE taken
          /\ acks' = acks \/ acks' = Append(acks, b.number)
      BY <2>7 DEF PushTakes, InOrder, Acknowledging
    <3>2. /\ content' \in Seq(Data) /\ Len(content') = Start + 1
          /\ \A i \in 1 .. Start + 1 : content'[i] = <<1, i>>
      <4>1. b.data = <<1, Start + 1>>
        BY <2>2, <3>1 DEF BlockOf
      <4>2. content' = Append(StartContent, b.data)
        BY <3>1
      <4> HIDE DEF Start, StartContent
      <4> QED
        BY <2>3, <2>4, <4>1, <4>2, PrefixGrows
    <3>3. Prefix(1)'
      BY <3>1, <3>2 DEF Prefix
    <3>4. complete' <=> received' = Total
      BY <2>2, <3>1 DEF BlockOf
    <3>5. /\ \A i \in 1 .. Len(taken') : taken'[i] = Whole(1)
          /\ taken # <<>> => taken' # <<>>
          /\ b.last => taken' # <<>>
      <4>1. CASE b.last
        <5>1. content' = Whole(1)
          BY <2>2, <3>1, <3>2, <4>1, PrefixIsWhole, ZenonT(40) DEF BlockOf
        <5>2. taken' = Append(taken, content')
          BY <3>1, <4>1
        <5>3. /\ Len(taken') = Len(taken) + 1 /\ Len(taken) \in Nat
              /\ \A i \in 1 .. Len(taken) : taken'[i] = taken[i]
              /\ taken'[Len(taken) + 1] = content'
          BY <1>0, <3>2, <5>2, Added
        <5> QED
          BY <5>1, <5>3 DEF OneInv
      <4>2. CASE ~b.last
        BY <3>1, <4>2 DEF OneInv
      <4> QED
        BY <4>1, <4>2
    <3>6. \A i \in 1 .. Len(acks') : acks'[i] = Total => taken' # <<>>
      <4>1. CASE acks' = acks
        BY <3>5, <4>1 DEF OneInv
      <4>2. CASE acks' = Append(acks, b.number)
        <5>1. b.number = Total => taken' # <<>>
          BY <2>2, <3>5 DEF BlockOf
        <5>2. /\ Len(acks') = Len(acks) + 1 /\ Len(acks) \in Nat
              /\ \A i \in 1 .. Len(acks) : acks'[i] = acks[i]
              /\ acks'[Len(acks) + 1] = b.number
          BY <1>0, <2>3, <4>2, Added DEF Numbers
        <5> QED
          BY <3>5, <5>1, <5>2 DEF OneInv
      <4> QED
        BY <3>1, <4>1, <4>2
    <3>7. (received' = Total => taken' # <<>>) /\ (acked' = Total => taken' # <<>>)
      BY <2>1, <3>1, <3>4, <3>5 DEF OneInv
    <3> QED
      BY <2>2, <3>3, <3>4, <3>5, <3>6, <3>7 DEF OneInv
  <2> QED
    BY <2>1, <2>5, <2>6, <2>7
<1>6. CASE Timeout
  <2>1. /\ acks' = Append(acks, received)
        /\ UNCHANGED <<acked, content, received, complete, blocks, taken>>
    BY <1>6 DEF Timeout, Acknowledging, senderVars, receiverVars
  <2>2. \A i \in 1 .. Len(acks') : acks'[i] = Total => taken # <<>>
    BY <1>0, <1>1, <2>1 DEF Numbers, OneInv
  <2> QED
    BY <2>1, <2>2 DEF OneInv, Prefix
<1>7. CASE Reset
  <2>1. /\ content' = <<>> /\ received' = 0 /\ complete' = FALSE
        /\ UNCHANGED <<acked, blocks, acks, taken>>
    BY <1>7 DEF Reset, senderVars
  <2> QED
    BY <2>1 DEF OneInv, Prefix
<1>8. CASE LoseBlock
  <2>1. /\ blocks # <<>> /\ blocks' = Tail(blocks)
        /\ UNCHANGED <<acked, content, received, complete, acks, taken>>
    BY <1>8 DEF LoseBlock, senderVars, receiverVars
  <2>2. \A i \in 1 .. Len(blocks') : BlockOf(1, blocks'[i])
    BY <1>0, <2>1, Removed DEF OneInv
  <2> QED
    BY <2>1, <2>2 DEF OneInv, Prefix
<1>9. CASE LoseAck
  <2>1. /\ acks # <<>> /\ acks' = Tail(acks)
        /\ UNCHANGED <<acked, content, received, complete, blocks, taken>>
    BY <1>9 DEF LoseAck, senderVars, receiverVars
  <2>2. \A i \in 1 .. Len(acks') : acks'[i] = Total => taken # <<>>
    BY <1>0, <2>1, Removed DEF OneInv
  <2> QED
    BY <2>1, <2>2 DEF OneInv, Prefix
<1>10. CASE UNCHANGED vars
  BY <1>10 DEF vars, senderVars, receiverVars, OneInv, Prefix
<1> QED
  BY <1>2, <1>3, <1>4, <1>5, <1>6, <1>7, <1>8, <1>9, <1>10 DEF Next

\* The invariant holds throughout the transfer of one APDU.
THEOREM OneApdu ==
  ASSUME Apdus = 1
  PROVE  Spec => [](TypeInv /\ OneInv)
<1>1. Init => TypeInv /\ OneInv
  <2> SUFFICES ASSUME Init PROVE OneInv
    BY InitTypeInv
  <2>1. /\ content = <<>> /\ received = 0 /\ acked = 0 /\ Total # 0
        /\ blocks = <<>> /\ acks = <<>> /\ taken = <<>>
    BY TotalAssumption DEF Init
  <2>2. complete <=> received = Total
    BY <2>1 DEF Init
  <2>3. Prefix(1)
    BY <2>1 DEF Prefix
  <2> QED
    BY <2>1, <2>2, <2>3 DEF OneInv
<1>2. TypeInv /\ OneInv /\ [Next]_vars => (TypeInv /\ OneInv)'
  BY NextTypeInv, NextOneInv
<1> QED
  BY <1>1, <1>2, PTL DEF Spec

\* GbtReceiver::push: whatever the link loses, a receiver of one APDU says Complete only
\* when it has all of it, in order.
THEOREM OneIsIntact ==
  ASSUME Apdus = 1
  PROVE  Spec => []TakenIntact
<1>1. TypeInv /\ OneInv => TakenIntact
  BY ApdusAssumption DEF OneInv, TakenIntact
<1> QED
  BY <1>1, OneApdu, PTL

\* GbtSender::is_done: the sender of one APDU is done only when it has been handed over.
THEOREM OneIsDelivered ==
  ASSUME Apdus = 1
  PROVE  Spec => []DoneIsDelivered
<1>1. TypeInv /\ OneInv => DoneIsDelivered
  <2> SUFFICES ASSUME TypeInv, OneInv, IsDone
               PROVE  \E i \in 1 .. Len(taken) : taken[i] = Whole(apdu)
    BY DEF DoneIsDelivered
  <2>1. acked = Total /\ apdu = 1 /\ taken \in Seq(Seq(Data))
    BY TotalAssumption DEF IsDone, TypeInv, TypeOK, Data
  <2>2. 1 \in 1 .. Len(taken)
    BY <2>1 DEF OneInv
  <2> QED
    BY <2>1, <2>2 DEF OneInv
<1> QED
  BY <1>1, OneApdu, PTL

-----------------------------------------------------------------------------
(***************************************************************************)
(* Several APDUs, one after another.  What the receiver's caller may do    *)
(* without asking is left out, and so is what the code cannot keep apart:  *)
(* streaming over a link that loses, and APDUs of one block over such a    *)
(* link (the acknowledgement of the last APDU is then that of this one).   *)
(***************************************************************************)
Orderly ==
  /\ ~EagerAcks /\ ~Resets
  /\ \A m \in Modes : m.lossy => ~m.streaming /\ Total > 1

\* The receiver has the last APDU still, and nothing of the one under way.
Behind == complete /\ Len(taken) = apdu - 1

\* How many blocks of the APDU under way it has.
Progress == IF Behind THEN 0 ELSE received

\* The receiver has handed over the APDUs before this one, and this one once it is complete.
RunInv ==
  /\ Len(taken) \in {apdu - 1, apdu}
  /\ \A i \in 1 .. Len(taken) : taken[i] = Whole(i)
  /\ Len(taken) = apdu => complete
  /\ complete => received = Total
  /\ ~Behind => Prefix(apdu) /\ (received = Total => complete)

\* Sender and receiver are at the same APDU, and so is what is between them.
LinkInv ==
  /\ acked <= Progress /\ Progress <= block
  /\ Behind => acked = 0
  /\ \A i \in 1 .. Len(blocks) : BlockOf(apdu, blocks[i]) /\ blocks[i].window = SendWindow

\* Nothing is lost: the blocks come in a row, and one acknowledgement answers the window.
SteadyInv ==
  \/ /\ acks = <<>>
     /\ block = Progress + Len(blocks)
     /\ \A i \in 1 .. Len(blocks) : blocks[i].number = Progress + i
     /\ StartSince = Progress - acked /\ Progress - acked < SendWindow
     /\ Progress = Total => acked = Total
  \/ /\ acks = <<Progress>> /\ blocks = <<>> /\ block = Progress /\ acked < Progress
     /\ StartSince = 0
     /\ Progress = Total \/ Progress - acked >= SendWindow

\* Stop and wait: one message is under way, a block that is new or where the receiver is.
TurnInv ==
  /\ sinceAck = 0
  /\ block <= acked + 1
  /\ \/ blocks = <<>> /\ acks = <<>>
     \/ /\ block = acked + 1 /\ acks = <<>> /\ Len(blocks) = 1
        /\ blocks[1].number = block /\ Progress = acked
     \/ /\ block = acked + 1 /\ blocks = <<>> /\ Len(acks) = 1
        /\ acks[1] = Progress \/ (Behind /\ acks[1] = Total)

\* The APDU does not fit the receiver's buffer: it never gets to the end of it.
NoRoomInv ==
  /\ apdu = 1 /\ taken = <<>> /\ ~complete
  /\ Len(content) = received /\ received <= capacity
  /\ acked <= received /\ \A i \in 1 .. Len(acks) : acks[i] <= received
  /\ \A i \in 1 .. Len(blocks) : blocks[i].last <=> blocks[i].number = Total

SafeInv ==
  /\ capacity < Total => NoRoomInv
  /\ capacity >= Total => /\ RunInv /\ LinkInv
                          /\ mode.lossy => TurnInv
                          /\ ~mode.lossy => SteadyInv

\* What a step of the transfer is to its callers.
Delivering ==
  \/ apdu' = apdu /\ taken' = taken
  \/ apdu' = apdu + 1 /\ apdu < Apdus /\ Len(taken) = apdu /\ taken' = taken
  \/ apdu' = apdu /\ Len(taken) = apdu - 1 /\ Len(taken') = apdu

\* The types in the form the steps below use them in.
LEMMA Types ==
  ASSUME TypeInv
  PROVE  /\ apdu \in 1 .. Apdus /\ block \in 0 .. Total /\ acked \in 0 .. Total
         /\ received \in 0 .. Total /\ sinceAck \in 0 .. Total /\ complete \in BOOLEAN
         /\ acked <= block /\ block - acked <= SendWindow /\ SendWindow \in 1 .. WindowMax
         /\ blocks \in Seq(Blocks) /\ acks \in Seq(Numbers) /\ content \in Seq(Data)
         /\ taken \in Seq(Seq(Data)) /\ capacity \in Nat /\ Apdus \in Nat /\ Total \in Nat \ {0}
<1>1. SendWindow \in 1 .. WindowMax
  BY SendWindowRange DEF TypeInv
<1>2. capacity \in Nat /\ Apdus \in Nat /\ Total \in Nat \ {0}
  BY CapacitiesAssumption, ApdusAssumption, TotalAssumption DEF TypeInv, TypeOK
<1> QED
  BY <1>1, <1>2 DEF TypeInv, TypeOK, Data, Numbers

\* Acknowledgements up to one block are up to a later one, and so is one more.
LEMMA AcksUpTo ==
  ASSUME NEW q \in Seq(Numbers), NEW r \in Numbers, NEW k \in Numbers, NEW n \in Numbers,
         r <= k, n <= k, \A i \in 1 .. Len(q) : q[i] <= r
  PROVE  /\ \A i \in 1 .. Len(q) : q[i] <= k
         /\ \A i \in 1 .. Len(Append(q, n)) : Append(q, n)[i] <= k
<1>1. \A m \in Numbers : m \in Nat
  BY DEF Numbers
<1>2. \A i \in 1 .. Len(q) : q[i] \in Numbers
  OBVIOUS
<1>3. \A i \in 1 .. Len(q) : q[i] <= k
  BY <1>1, <1>2
<1> QED
  BY <1>3, Added

\* A buffer that is too small: push refuses some block for good.
LEMMA NextNoRoom ==
  ASSUME TypeInv, capacity < Total, NoRoomInv, [Next]_vars
  PROVE  NoRoomInv' /\ capacity' = capacity /\ Delivering
<1> USE Types
<1>0. /\ \A i \in 1 .. Len(blocks) : blocks[i].last <=> blocks[i].number = Total
      /\ \A i \in 1 .. Len(acks) : acks[i] <= received
      /\ acks \in Seq(Numbers) /\ received \in Numbers
  BY DEF NoRoomInv, Numbers
<1>1. CASE NextBlock
  <2> DEFINE b == [number |-> block + 1, last |-> block + 1 = Total, window |-> SendWindow,
                   data |-> <<apdu, block + 1>>]
  <2>1. /\ blocks' = Append(blocks, b) /\ block < Total
        /\ UNCHANGED <<apdu, acked, content, received, complete, capacity, acks, taken>>
    BY <1>1 DEF NextBlock, WindowOpen, receiverVars
  <2>2. b \in Blocks
    <3>1. block + 1 \in 1 .. Total
      BY <2>1, SMTT(40)
    <3> QED
      BY <3>1 DEF Blocks
  <2>3. b.last <=> b.number = Total
    OBVIOUS
  <2> HIDE DEF b
  <2>4. \A i \in 1 .. Len(blocks') : blocks'[i].last <=> blocks'[i].number = Total
    BY <2>1, <2>2, <2>3, Added, SMTT(40) DEF NoRoomInv
  <2> QED
    BY <2>1, <2>4 DEF NoRoomInv, Delivering
<1>2. CASE Acknowledge
  <2>1. /\ acks # <<>> /\ acks' = Tail(acks)
        /\ UNCHANGED <<apdu, content, received, complete, capacity, blocks, taken>>
        /\ acked' = Head(acks) \/ acked' = acked
    BY <1>2 DEF Acknowledge, receiverVars
  <2>2. /\ Head(acks) = acks[1] /\ Len(acks) \in Nat \ {0} /\ Len(acks') = Len(acks) - 1
        /\ \A i \in 1 .. Len(acks') : acks'[i] = acks[i + 1]
    BY <2>1, Removed
  <2> QED
    BY <2>1, <2>2 DEF NoRoomInv, Delivering
<1>3. CASE NextApdu
  BY <1>3 DEF NextApdu, IsDone, NoRoomInv
<1>4. CASE Push
  <2> DEFINE b == Head(blocks)
  <2>1. /\ blocks # <<>> /\ blocks' = Tail(blocks) /\ acked' = acked /\ apdu' = apdu
        /\ PushOutOfOrder(b) \/ PushTooLarge(b) \/ PushTakes(b)
    BY <1>4 DEF Push, senderVars
  <2>2. /\ b \in Blocks /\ (b.last <=> b.number = Total)
        /\ \A i \in 1 .. Len(blocks') : blocks'[i].last <=> blocks'[i].number = Total
    <3>1. /\ b \in Blocks /\ b = blocks[1] /\ Len(blocks) \in Nat \ {0}
          /\ Len(blocks') = Len(blocks) - 1
          /\ \A i \in 1 .. Len(blocks') : blocks'[i] = blocks[i + 1]
      BY <2>1, Removed
    <3>2. blocks[1].last <=> blocks[1].number = Total
      BY <1>0, <3>1
    <3>3. ASSUME NEW i \in 1 .. Len(blocks')
          PROVE  blocks'[i].last <=> blocks'[i].number = Total
      <4>1. blocks'[i] = blocks[i + 1]
        BY <3>1
      <4>2. ASSUME NEW n \in Nat \ {0}, NEW k \in 1 .. n - 1
            PROVE  k + 1 \in 1 .. n
        OBVIOUS
      <4>3. i + 1 \in 1 .. Len(blocks)
        BY <3>1, <4>2
      <4> QED
        BY <1>0, <4>1, <4>3
    <3> QED
      BY <3>1, <3>2, <3>3
  <2> HIDE DEF b
  <2>3. b.number \in 1 .. Total /\ b.data \in Data
    BY <2>2 DEF Blocks, Data
  <2>4. Start = received /\ StartContent = content /\ Len(content) = received
    BY DEF Start, StartContent, NoRoomInv
  <2>6. CASE PushOutOfOrder(b)
    <3>1. /\ received' = received /\ content' = content /\ complete' = FALSE /\ taken' = taken
          /\ acks' = Append(acks, received) /\ capacity' = capacity
      BY <2>4, <2>6 DEF PushOutOfOrder, Acknowledging
    <3>2. received \in Numbers /\ received <= received
      BY DEF Numbers
    <3>3. \A i \in 1 .. Len(acks') : acks'[i] <= received'
      BY <1>0, <3>1, <3>2, AcksUpTo
    <3> QED
      BY <2>1, <2>2, <3>1, <3>3 DEF NoRoomInv, Delivering
  <2>7. CASE PushTooLarge(b)
    <3>1. /\ received' = received /\ content' = content /\ complete' = FALSE /\ taken' = taken
          /\ acks' = acks /\ capacity' = capacity
      BY <2>4, <2>7 DEF PushTooLarge
    <3> QED
      BY <2>1, <2>2, <3>1 DEF NoRoomInv, Delivering
  <2>8. CASE PushTakes(b)
    <3>1. /\ b.number = received + 1 /\ received + 1 <= capacity /\ received' = received + 1
          /\ content' = Append(content, b.data) /\ capacity' = capacity /\ complete' = b.last
          /\ ~b.last => taken' = taken
          /\ acks' = acks \/ acks' = Append(acks, b.number)
      BY <2>4, <2>8 DEF PushTakes, InOrder, Acknowledging
    <3>2. ~b.last
      BY <2>2, <3>1, SMTT(40)
    <3>3. Len(content') = received'
      BY <2>3, <2>4, <3>1, Added, SMTT(40)
    <3>4. \A i \in 1 .. Len(acks') : acks'[i] <= received'
      <4>1. received' \in Numbers /\ received <= received'
        BY <2>3, <3>1, SMTT(40) DEF Numbers
      <4>2. b.number \in Numbers /\ b.number <= received'
        BY <2>3, <3>1, SMTT(40) DEF Numbers
      <4> QED
        BY <1>0, <3>1, <4>1, <4>2, AcksUpTo
    <3> QED
      BY <2>1, <2>2, <3>1, <3>2, <3>3, <3>4 DEF NoRoomInv, Delivering
  <2> QED
    BY <2>1, <2>6, <2>7, <2>8
<1>5. CASE Timeout
  <2>1. /\ acks' = Append(acks, received)
        /\ UNCHANGED <<apdu, acked, content, received, complete, capacity, blocks, taken>>
    BY <1>5 DEF Timeout, Acknowledging, senderVars, receiverVars
  <2>2. \A i \in 1 .. Len(acks') : acks'[i] <= received
    BY <2>1, Added DEF NoRoomInv, Numbers
  <2> QED
    BY <2>1, <2>2 DEF NoRoomInv, Delivering
<1>6. CASE Reset
  BY <1>6 DEF Reset, NoRoomInv
<1>7. CASE LoseBlock
  <2>1. /\ blocks # <<>> /\ blocks' = Tail(blocks)
        /\ UNCHANGED <<apdu, acked, content, received, complete, capacity, acks, taken>>
    BY <1>7 DEF LoseBlock, senderVars, receiverVars
  <2>2. \A i \in 1 .. Len(blocks') : blocks'[i].last <=> blocks'[i].number = Total
    BY <2>1, Removed DEF NoRoomInv
  <2> QED
    BY <2>1, <2>2 DEF NoRoomInv, Delivering
<1>8. CASE LoseAck
  <2>1. /\ acks # <<>> /\ acks' = Tail(acks)
        /\ UNCHANGED <<apdu, acked, content, received, complete, capacity, blocks, taken>>
    BY <1>8 DEF LoseAck, senderVars, receiverVars
  <2>2. \A i \in 1 .. Len(acks') : acks'[i] <= received
    BY <2>1, Removed DEF NoRoomInv
  <2> QED
    BY <2>1, <2>2 DEF NoRoomInv, Delivering
<1>9. CASE UNCHANGED vars
  BY <1>9 DEF vars, senderVars, receiverVars, NoRoomInv, Delivering
<1> QED
  BY <1>1, <1>2, <1>3, <1>4, <1>5, <1>6, <1>7, <1>8, <1>9 DEF Next

\* push is given the block it is waiting for, and there is room for it.
LEMMA PushNext ==
  ASSUME TypeInv, RunInv, capacity >= Total, Push, BlockOf(apdu, Head(blocks)),
         Head(blocks).number = Progress + 1, Head(blocks).window = SendWindow
  PROVE  /\ RunInv' /\ ~Behind' /\ Progress' = Progress + 1 /\ capacity' = capacity
         /\ Len(taken) = apdu - 1 /\ Len(taken') \in {apdu - 1, apdu}
         /\ Progress + 1 = Total => Len(taken') = apdu
         /\ Progress + 1 # Total => taken' = taken
         /\ IF Progress + 1 = Total \/ StartSince + 1 >= SendWindow
              THEN sinceAck' = 0 /\ acks' = Append(acks, Progress + 1)
              ELSE sinceAck' = StartSince + 1 /\ acks' = acks
<1> DEFINE b == Head(blocks)
<1>1. /\ apdu \in 1 .. Apdus /\ received \in 0 .. Total /\ complete \in BOOLEAN /\ apdu \in Nat
      /\ content \in Seq(Data) /\ taken \in Seq(Seq(Data)) /\ Len(taken) \in Nat
      /\ capacity \in Nat /\ Total \in Nat \ {0} /\ SendWindow \in 1 .. WindowMax
  BY Types
<1>2. /\ blocks # <<>> /\ apdu' = apdu
      /\ PushOutOfOrder(b) \/ PushTooLarge(b) \/ PushTakes(b)
  BY DEF Push, senderVars
<1>3. b \in Blocks
  BY <1>2, Types, Removed
<1>4. b.number \in 1 .. Total /\ b.data \in Data /\ b.last \in BOOLEAN
  BY <1>3 DEF Blocks, Data
<1>5. /\ BlockOf(apdu, b) /\ b.number = Progress + 1 /\ b.window = SendWindow
  OBVIOUS
<1> HIDE DEF b
<1>6. Progress \in Nat /\ Progress < Total
  BY <1>1, <1>4, <1>5 DEF Progress
<1>7. Len(taken) = apdu - 1 /\ (complete => Behind) /\ Start = Progress
  <2>1. CASE complete
    <3>1. received = Total /\ received # Progress
      BY <1>1, <1>6, <2>1 DEF RunInv
    <3>2. Behind
      BY <3>1 DEF Progress
    <3> QED
      BY <2>1, <3>2 DEF Behind, Progress, Start
  <2>2. CASE ~complete
    BY <1>1, <2>2 DEF RunInv, Behind, Progress, Start
  <2> QED
    BY <1>1, <2>1, <2>2
<1>8. /\ StartContent \in Seq(Data) /\ Len(StartContent) = Progress
      /\ \A i \in 1 .. Progress : StartContent[i] = <<apdu, i>>
  <2>1. CASE complete
    <3>1. StartContent = <<>> /\ Progress = 0
      BY <1>7, <2>1 DEF StartContent, Progress
    <3> QED
      BY <3>1
  <2>2. CASE ~complete
    BY <1>1, <2>2 DEF RunInv, Behind, Progress, StartContent, Prefix
  <2> QED
    BY <1>1, <2>1, <2>2
<1>9. PushTakes(b)
  <2>1. ~PushOutOfOrder(b)
    BY <1>5, <1>7 DEF PushOutOfOrder, InOrder
  <2>2. ~PushTooLarge(b)
    BY <1>1, <1>6, <1>8 DEF PushTooLarge
  <2> QED
    BY <1>2, <2>1, <2>2
<1>10. ReceiveWindow(b) = SendWindow
  <2>1. ~mode.streaming => SendWindow = 1
    BY SendWindowRange DEF TypeInv
  <2> QED
    BY <1>1, <1>5, <2>1, WindowMaxAssumption DEF ReceiveWindow
<1>11. b.last <=> Progress + 1 = Total
  BY <1>5 DEF BlockOf
<1>12. /\ received' = Progress + 1 /\ content' = Append(StartContent, b.data)
       /\ complete' = b.last /\ capacity' = capacity
       /\ b.last => taken' = Append(taken, content')
       /\ ~b.last => taken' = taken
  BY <1>5, <1>9 DEF PushTakes
<1>13. IF Progress + 1 = Total \/ StartSince + 1 >= SendWindow
         THEN sinceAck' = 0 /\ acks' = Append(acks, Progress + 1)
         ELSE sinceAck' = StartSince + 1 /\ acks' = acks
  BY <1>5, <1>9, <1>10, <1>11 DEF PushTakes, Acknowledging
<1>14. /\ content' \in Seq(Data) /\ Len(content') = Progress + 1
       /\ \A i \in 1 .. Progress + 1 : content'[i] = <<apdu, i>>
  <2>1. b.data = <<apdu, Progress + 1>>
    BY <1>5 DEF BlockOf
  <2>2. Progress \in 0 .. Total /\ content' = Append(StartContent, b.data)
    BY <1>1, <1>6, <1>12
  <2> HIDE DEF Progress, StartContent
  <2> QED
    BY <1>4, <1>8, <2>1, <2>2, PrefixGrows
<1>15. Prefix(apdu)'
  BY <1>2, <1>12, <1>14 DEF Prefix
<1>16. CASE b.last
  <2>1. Progress + 1 = Total /\ taken' = Append(taken, content')
    BY <1>11, <1>12, <1>16
  <2>2. content' = Whole(apdu)
    BY <1>14, <2>1, PrefixIsWhole
  <2>3. /\ Len(taken') = apdu /\ \A i \in 1 .. Len(taken) : taken'[i] = taken[i]
        /\ taken'[apdu] = content'
    <3>1. /\ Len(taken') = Len(taken) + 1 /\ \A i \in 1 .. Len(taken) : taken'[i] = taken[i]
          /\ taken'[Len(taken) + 1] = content'
      BY <1>1, <1>14, <2>1, Added
    <3> QED
      BY <1>1, <1>7, <3>1
  <2>4. ~Behind' /\ complete'
    BY <1>1, <1>2, <1>12, <1>16, <2>3 DEF Behind
  <2>5. \A i \in 1 .. Len(taken') : taken'[i] = Whole(i)
    <3> SUFFICES ASSUME NEW i \in 1 .. apdu PROVE taken'[i] = Whole(i)
      BY <2>3
    <3>1. CASE i = apdu
      BY <2>2, <2>3, <3>1
    <3>2. CASE i # apdu
      <4>1. i \in 1 .. Len(taken)
        <5>1. i \in 1 .. apdu - 1
          BY <1>1, <3>2
        <5> QED
          BY <1>7, <5>1
      <4>2. taken[i] = Whole(i)
        BY <4>1 DEF RunInv
      <4> QED
        BY <2>3, <4>1, <4>2
    <3> QED
      BY <3>1, <3>2
  <2>6. Progress' = Progress + 1
    BY <1>12, <2>4 DEF Progress
  <2>7. RunInv'
    BY <1>2, <1>12, <1>15, <2>1, <2>3, <2>4, <2>5 DEF RunInv
  <2> QED
    BY <1>7, <1>12, <1>13, <2>1, <2>3, <2>4, <2>6, <2>7
<1>17. CASE ~b.last
  <2>1. Progress + 1 # Total /\ taken' = taken /\ ~complete'
    BY <1>11, <1>12, <1>17
  <2>2. ~Behind'
    BY <2>1 DEF Behind
  <2>3. Progress' = Progress + 1
    BY <1>12, <2>2 DEF Progress
  <2>4. RunInv'
    BY <1>1, <1>2, <1>7, <1>12, <1>15, <2>1 DEF RunInv
  <2> QED
    BY <1>7, <1>12, <1>13, <2>1, <2>2, <2>3, <2>4
<1> QED
  BY <1>4, <1>16, <1>17

\* Where the receiver is in the APDU under way, and what it would count from.
LEMMA ProgressRange ==
  ASSUME TypeInv, RunInv
  PROVE  /\ Progress \in 0 .. Total /\ StartSince \in 0 .. Total
         /\ Behind => Progress = 0
         /\ Progress = Total => ~Behind /\ complete /\ Len(taken) = apdu
<1>1. /\ received \in 0 .. Total /\ sinceAck \in 0 .. Total /\ Total \in Nat \ {0}
      /\ apdu \in 1 .. Apdus /\ complete \in BOOLEAN
  BY Types
<1>2. Progress \in 0 .. Total /\ (Behind => Progress = 0)
  BY <1>1 DEF Progress
<1>3. StartSince \in 0 .. Total
  BY <1>1 DEF StartSince
<1>4. ASSUME Progress = Total
      PROVE  ~Behind /\ complete /\ Len(taken) = apdu
  <2>1. ~Behind
    BY <1>1, <1>2, <1>4
  <2>2. received = Total /\ complete
    BY <1>4, <2>1 DEF Progress, RunInv
  <2>3. Len(taken) = apdu
    BY <2>1, <2>2 DEF RunInv, Behind
  <2> QED
    BY <2>1, <2>2, <2>3
<1> QED
  BY <1>2, <1>3, <1>4

\* The sender's caller goes on to the next APDU: its receiver is behind, and waits for block 1.
LEMMA NextApduBehind ==
  ASSUME TypeInv, RunInv, LinkInv, NextApdu
  PROVE  /\ RunInv' /\ Behind' /\ Progress' = 0 /\ StartSince' = 0 /\ acked' = 0 /\ block' = 0
         /\ Progress = Total /\ acked = Total /\ block = Total
         /\ UNCHANGED <<mode, capacity, sinceAck, blocks, acks>>
         /\ Delivering
<1>1. /\ apdu \in 1 .. Apdus /\ block \in 0 .. Total /\ acked \in 0 .. Total
      /\ Total \in Nat \ {0} /\ apdu \in Nat /\ complete \in BOOLEAN
  BY Types
<1>2. /\ acked >= Total /\ apdu < Apdus /\ apdu' = apdu + 1 /\ block' = 0 /\ acked' = 0
      /\ mode' = mode /\ capacity' = capacity /\ content' = content /\ received' = received
      /\ sinceAck' = sinceAck /\ complete' = complete
      /\ blocks' = blocks /\ acks' = acks /\ taken' = taken
  BY DEF NextApdu, IsDone, receiverVars
<1>3. acked <= Progress /\ Progress <= block
  BY DEF LinkInv
<1>4. Progress = Total /\ acked = Total /\ block = Total
  BY <1>1, <1>2, <1>3, ProgressRange
<1>5. complete /\ Len(taken) = apdu
  BY <1>4, ProgressRange
<1>6. Behind'
  BY <1>1, <1>2, <1>5 DEF Behind
<1>7. Progress' = 0 /\ StartSince' = 0
  BY <1>2, <1>5, <1>6 DEF Progress, StartSince
<1>8. RunInv'
  BY <1>1, <1>2, <1>5, <1>6 DEF RunInv
<1> QED
  BY <1>2, <1>4, <1>5, <1>6, <1>7, <1>8 DEF Delivering

\* next_block in the middle of an APDU: the block is of it, and the receiver stands still.
LEMMA NextBlockLinks ==
  ASSUME TypeInv, RunInv, LinkInv, NextBlock
  PROVE  /\ RunInv' /\ LinkInv' /\ Progress' = Progress /\ StartSince' = StartSince
         /\ Behind' = Behind /\ block' = block + 1 /\ SendWindow' = SendWindow
         /\ block < Total /\ block - acked < SendWindow
         /\ UNCHANGED <<mode, capacity, sinceAck, acked, acks>>
         /\ Len(blocks') = Len(blocks) + 1
         /\ \A i \in 1 .. Len(blocks) : blocks'[i] = blocks[i]
         /\ blocks'[Len(blocks')].number = block + 1
         /\ Delivering
<1>1. /\ block \in 0 .. Total /\ acked \in 0 .. Total /\ apdu \in 1 .. Apdus
      /\ Total \in Nat \ {0} /\ blocks \in Seq(Blocks) /\ SendWindow \in 1 .. WindowMax
      /\ Progress \in 0 .. Total
  BY Types, ProgressRange
<1> DEFINE b == [number |-> block + 1, last |-> block + 1 = Total, window |-> SendWindow,
                 data |-> <<apdu, block + 1>>]
<1>2. /\ blocks' = Append(blocks, b) /\ block' = block + 1
      /\ block < Total /\ block - acked < SendWindow
      /\ mode' = mode /\ apdu' = apdu /\ acked' = acked /\ acks' = acks /\ taken' = taken
      /\ content' = content /\ received' = received /\ sinceAck' = sinceAck
      /\ complete' = complete /\ capacity' = capacity
  BY DEF NextBlock, WindowOpen, receiverVars
<1>3. b \in Blocks
  <2>1. block + 1 \in 1 .. Total
    BY <1>1, <1>2
  <2> QED
    BY <1>1, <2>1 DEF Blocks
<1>4. BlockOf(apdu, b) /\ b.window = SendWindow /\ b.number = block + 1
  BY DEF BlockOf
<1> HIDE DEF b
<1>5. /\ Len(blocks') = Len(blocks) + 1 /\ Len(blocks) \in Nat
      /\ \A i \in 1 .. Len(blocks) : blocks'[i] = blocks[i]
      /\ blocks'[Len(blocks) + 1] = b
  BY <1>1, <1>2, <1>3, Added
<1>6. SendWindow' = SendWindow
  BY <1>2 DEF SendWindow
<1>7. Behind' = Behind
  BY <1>2 DEF Behind
<1>8. Progress' = Progress /\ StartSince' = StartSince
  BY <1>2 DEF Progress, StartSince, Behind
<1>9. RunInv'
  BY <1>2, <1>7 DEF RunInv, Prefix
<1>10. LinkInv'
  <2>1. acked' <= Progress' /\ Progress' <= block' /\ (Behind' => acked' = 0)
    BY <1>1, <1>2, <1>7, <1>8 DEF LinkInv
  <2>2. ASSUME NEW i \in 1 .. Len(blocks')
        PROVE  BlockOf(apdu, blocks'[i]) /\ blocks'[i].window = SendWindow
    BY <1>4, <1>5 DEF LinkInv
  <2> QED
    BY <1>2, <1>6, <2>1, <2>2 DEF LinkInv, BlockOf
<1> QED
  BY <1>2, <1>4, <1>5, <1>6, <1>7, <1>8, <1>9, <1>10 DEF Delivering

\* acknowledge, of the block the receiver is at: the sender goes on from there.
LEMMA AcknowledgeLinks ==
  ASSUME TypeInv, RunInv, LinkInv, Acknowledge, Head(acks) = Progress
  PROVE  /\ RunInv' /\ LinkInv' /\ Progress' = Progress /\ StartSince' = StartSince
         /\ acked' = Progress /\ block' = Progress /\ SendWindow' = SendWindow
         /\ UNCHANGED <<mode, capacity, sinceAck, blocks>> /\ acks' = Tail(acks)
         /\ Delivering
<1>1. /\ block \in 0 .. Total /\ acked \in 0 .. Total
      /\ Total \in Nat \ {0} /\ Progress \in 0 .. Total
  BY Types, ProgressRange
<1>2. /\ mode' = mode /\ apdu' = apdu /\ acks' = Tail(acks) /\ taken' = taken /\ blocks' = blocks
      /\ content' = content /\ received' = received /\ sinceAck' = sinceAck
      /\ complete' = complete /\ capacity' = capacity
  BY DEF Acknowledge, receiverVars
<1>3. acked' = Progress /\ block' = Progress
  BY <1>1 DEF Acknowledge, AcceptableAck, LinkInv
<1>4. SendWindow' = SendWindow
  BY <1>2 DEF SendWindow
<1>5. Behind' = Behind
  BY <1>2 DEF Behind
<1>6. Progress' = Progress /\ StartSince' = StartSince
  BY <1>2 DEF Progress, StartSince, Behind
<1>7. RunInv'
  BY <1>2, <1>5 DEF RunInv, Prefix
<1>8. LinkInv'
  <2>1. acked' <= Progress' /\ Progress' <= block' /\ (Behind' => acked' = 0)
    BY <1>1, <1>3, <1>5, <1>6, ProgressRange
  <2> QED
    BY <1>2, <1>4, <2>1 DEF LinkInv, BlockOf
<1> QED
  BY <1>2, <1>3, <1>4, <1>6, <1>7, <1>8 DEF Delivering

\* push of the block the receiver waits for: one step nearer, and the rest of the link as it was.
LEMMA PushLinks ==
  ASSUME TypeInv, RunInv, LinkInv, capacity >= Total, Push,
         blocks[1].number = Progress + 1, Progress < block
  PROVE  /\ RunInv' /\ LinkInv' /\ Progress' = Progress + 1
         /\ UNCHANGED <<mode, capacity, block, acked>> /\ SendWindow' = SendWindow
         /\ Len(blocks) \in Nat \ {0} /\ Len(blocks') = Len(blocks) - 1
         /\ \A i \in 1 .. Len(blocks') : blocks'[i] = blocks[i + 1]
         /\ StartSince' = sinceAck'
         /\ IF Progress + 1 = Total \/ StartSince + 1 >= SendWindow
              THEN sinceAck' = 0 /\ acks' = Append(acks, Progress + 1)
              ELSE sinceAck' = StartSince + 1 /\ acks' = acks
         /\ Delivering
<1>1. /\ block \in 0 .. Total /\ acked \in 0 .. Total /\ blocks \in Seq(Blocks)
      /\ Total \in Nat \ {0} /\ Progress \in 0 .. Total /\ SendWindow \in 1 .. WindowMax
      /\ apdu \in Nat /\ apdu \in 1 .. Apdus
  BY Types, ProgressRange
<1>2. /\ blocks # <<>> /\ blocks' = Tail(blocks) /\ mode' = mode /\ apdu' = apdu
      /\ block' = block /\ acked' = acked
  BY DEF Push, senderVars
<1>3. /\ Head(blocks) = blocks[1] /\ Len(blocks) \in Nat \ {0} /\ Len(blocks') = Len(blocks) - 1
      /\ \A i \in 1 .. Len(blocks') : blocks'[i] = blocks[i + 1]
  BY <1>1, <1>2, Removed
<1>4. SendWindow' = SendWindow
  BY <1>2 DEF SendWindow
<1>5. /\ BlockOf(apdu, Head(blocks)) /\ Head(blocks).number = Progress + 1
      /\ Head(blocks).window = SendWindow
  BY <1>3 DEF LinkInv
<1>6. /\ RunInv' /\ ~Behind' /\ Progress' = Progress + 1 /\ capacity' = capacity
      /\ Len(taken) = apdu - 1 /\ Len(taken') \in {apdu - 1, apdu}
      /\ Progress + 1 = Total => Len(taken') = apdu
      /\ Progress + 1 # Total => taken' = taken
      /\ IF Progress + 1 = Total \/ StartSince + 1 >= SendWindow
           THEN sinceAck' = 0 /\ acks' = Append(acks, Progress + 1)
           ELSE sinceAck' = StartSince + 1 /\ acks' = acks
  BY <1>5, PushNext
<1>7. StartSince' = sinceAck'
  <2>1. CASE complete'
    <3>1. received' = Total /\ received' = Progress'
      BY <1>6, <2>1 DEF RunInv, Progress
    <3>2. Progress + 1 = Total
      BY <1>6, <3>1
    <3>3. sinceAck' = 0
      BY <1>6, <3>2
    <3> QED
      BY <2>1, <3>3 DEF StartSince
  <2>2. CASE ~complete'
    BY <2>2 DEF StartSince
  <2> QED
    BY <2>1, <2>2
<1>8. LinkInv'
  <2>1. acked' <= Progress' /\ Progress' <= block' /\ (Behind' => acked' = 0)
    BY <1>1, <1>2, <1>6 DEF LinkInv
  <2>2. ASSUME NEW i \in 1 .. Len(blocks')
        PROVE  BlockOf(apdu, blocks'[i]) /\ blocks'[i].window = SendWindow
    <3>1. i + 1 \in 1 .. Len(blocks) /\ blocks'[i] = blocks[i + 1]
      BY <1>3
    <3> QED
      BY <3>1 DEF LinkInv
  <2> QED
    BY <1>2, <1>4, <2>1, <2>2 DEF LinkInv, BlockOf
<1>9. Delivering
  BY <1>2, <1>6 DEF Delivering
<1> QED
  BY <1>2, <1>3, <1>4, <1>6, <1>7, <1>8, <1>9

\* A step changes nothing but the link, and leaves of its blocks the ones it had.
LEMMA StillLinks ==
  ASSUME TypeInv, RunInv, LinkInv, UNCHANGED <<senderVars, receiverVars, taken>>,
         blocks' = blocks \/ blocks' = <<>>
  PROVE  /\ RunInv' /\ LinkInv' /\ Progress' = Progress /\ StartSince' = StartSince
         /\ Behind' = Behind /\ SendWindow' = SendWindow
         /\ UNCHANGED <<mode, capacity, sinceAck, block, acked>>
         /\ Delivering
<1>1. /\ mode' = mode /\ apdu' = apdu /\ taken' = taken /\ block' = block /\ acked' = acked
      /\ content' = content /\ received' = received /\ sinceAck' = sinceAck
      /\ complete' = complete /\ capacity' = capacity
  BY DEF senderVars, receiverVars
<1>2. SendWindow' = SendWindow
  BY <1>1 DEF SendWindow
<1>3. Behind' = Behind
  BY <1>1 DEF Behind
<1>4. Progress' = Progress /\ StartSince' = StartSince
  BY <1>1 DEF Progress, StartSince, Behind
<1>5. RunInv'
  BY <1>1, <1>3 DEF RunInv, Prefix
<1>6. LinkInv'
  <2>1. acked' <= Progress' /\ Progress' <= block' /\ (Behind' => acked' = 0)
    BY <1>1, <1>3, <1>4 DEF LinkInv
  <2>2. \A i \in 1 .. Len(blocks') : BlockOf(apdu, blocks'[i]) /\ blocks'[i].window = SendWindow
    <3>1. CASE blocks' = blocks
      BY <3>1 DEF LinkInv
    <3>2. CASE blocks' = <<>>
      BY <3>2
    <3> QED
      BY <3>1, <3>2
  <2> QED
    BY <1>1, <1>2, <2>1, <2>2 DEF LinkInv, BlockOf
<1> QED
  BY <1>1, <1>2, <1>3, <1>4, <1>5, <1>6 DEF Delivering

\* A link that loses nothing: the receiver takes every block, and answers every window once.
LEMMA NextSteady ==
  ASSUME Orderly, TypeInv, capacity >= Total, ~mode.lossy,
         RunInv, LinkInv, SteadyInv, [Next]_vars
  PROVE  /\ RunInv' /\ LinkInv' /\ SteadyInv' /\ capacity' = capacity /\ mode' = mode
         /\ Delivering
<1>1. /\ block \in 0 .. Total /\ acked \in 0 .. Total /\ acked <= block
      /\ block - acked <= SendWindow /\ SendWindow \in 1 .. WindowMax
      /\ blocks \in Seq(Blocks) /\ acks \in Seq(Numbers) /\ Total \in Nat \ {0}
      /\ Progress \in 0 .. Total /\ StartSince \in 0 .. Total /\ WindowMax \in Nat
      /\ Len(blocks) \in Nat
  BY Types, ProgressRange, WindowMaxAssumption
<1>2. CASE NextBlock
  <2>1. /\ RunInv' /\ LinkInv' /\ Progress' = Progress /\ StartSince' = StartSince
        /\ block' = block + 1 /\ SendWindow' = SendWindow
        /\ block < Total /\ block - acked < SendWindow
        /\ mode' = mode /\ capacity' = capacity /\ acked' = acked /\ acks' = acks
        /\ Len(blocks') = Len(blocks) + 1
        /\ \A i \in 1 .. Len(blocks) : blocks'[i] = blocks[i]
        /\ blocks'[Len(blocks')].number = block + 1
        /\ Delivering
    BY <1>2, NextBlockLinks
  <2>2. /\ acks = <<>> /\ block = Progress + Len(blocks)
        /\ \A i \in 1 .. Len(blocks) : blocks[i].number = Progress + i
        /\ StartSince = Progress - acked /\ Progress - acked < SendWindow
        /\ Progress = Total => acked = Total
    BY <1>1, <2>1 DEF SteadyInv
  <2>3. ASSUME NEW i \in 1 .. Len(blocks')
        PROVE  blocks'[i].number = Progress + i
    <3>1. CASE i = Len(blocks')
      <4>1. blocks'[i].number = block + 1 /\ i = Len(blocks) + 1
        BY <2>1, <3>1
      <4> QED
        BY <1>1, <2>2, <4>1
    <3>2. CASE i # Len(blocks')
      <4>1. i \in 1 .. Len(blocks)
        BY <1>1, <2>1, <3>2
      <4> QED
        BY <2>1, <2>2, <4>1
    <3> QED
      BY <3>1, <3>2
  <2>4. SteadyInv'
    BY <1>1, <2>1, <2>2, <2>3 DEF SteadyInv
  <2> QED
    BY <2>1, <2>4
<1>3. CASE Acknowledge
  <2>1. acks # <<>>
    BY <1>3 DEF Acknowledge
  <2>2. acks = <<Progress>> /\ blocks = <<>> /\ acked < Progress /\ StartSince = 0
    BY <2>1 DEF SteadyInv
  <2>3. Head(acks) = Progress /\ Tail(acks) = <<>>
    BY <2>2
  <2>4. /\ RunInv' /\ LinkInv' /\ Progress' = Progress /\ StartSince' = StartSince
        /\ acked' = Progress /\ block' = Progress /\ SendWindow' = SendWindow
        /\ mode' = mode /\ capacity' = capacity /\ blocks' = blocks /\ acks' = Tail(acks)
        /\ Delivering
    BY <1>3, <2>3, AcknowledgeLinks
  <2>5. SteadyInv'
    <3>1. Len(blocks') = 0 /\ acks' = <<>> /\ block' = Progress + 0
      BY <1>1, <2>2, <2>3, <2>4
    <3> QED
      BY <1>1, <2>2, <2>4, <3>1 DEF SteadyInv
  <2> QED
    BY <2>4, <2>5
<1>4. CASE NextApdu
  <2>1. /\ RunInv' /\ Behind' /\ Progress' = 0 /\ StartSince' = 0 /\ acked' = 0 /\ block' = 0
        /\ Progress = Total /\ acked = Total /\ block = Total
        /\ mode' = mode /\ capacity' = capacity /\ blocks' = blocks /\ acks' = acks
        /\ Delivering
    BY <1>4, NextApduBehind
  <2>2. acks = <<>> /\ Len(blocks) = 0
    BY <1>1, <2>1 DEF SteadyInv
  <2>3. SendWindow' = SendWindow
    BY <2>1 DEF SendWindow
  <2>4. LinkInv'
    BY <2>1, <2>2 DEF LinkInv
  <2>5. SteadyInv'
    BY <1>1, <2>1, <2>2, <2>3 DEF SteadyInv
  <2> QED
    BY <2>1, <2>4, <2>5
<1>5. CASE Push
  <2>1. blocks # <<>>
    BY <1>5 DEF Push
  <2>2. /\ acks = <<>> /\ block = Progress + Len(blocks)
        /\ \A i \in 1 .. Len(blocks) : blocks[i].number = Progress + i
        /\ StartSince = Progress - acked /\ Progress - acked < SendWindow
    BY <2>1 DEF SteadyInv
  <2>3. Len(blocks) \in Nat \ {0}
    BY <1>1, <2>1
  <2>4. blocks[1].number = Progress + 1 /\ Progress < block
    BY <1>1, <2>2, <2>3
  <2>5. /\ RunInv' /\ LinkInv' /\ Progress' = Progress + 1
        /\ mode' = mode /\ capacity' = capacity /\ block' = block /\ acked' = acked
        /\ SendWindow' = SendWindow
        /\ Len(blocks') = Len(blocks) - 1
        /\ \A i \in 1 .. Len(blocks') : blocks'[i] = blocks[i + 1]
        /\ StartSince' = sinceAck'
        /\ IF Progress + 1 = Total \/ StartSince + 1 >= SendWindow
             THEN sinceAck' = 0 /\ acks' = Append(acks, Progress + 1)
             ELSE sinceAck' = StartSince + 1 /\ acks' = acks
        /\ Delivering
    BY <1>5, <2>4, PushLinks
  <2>6. acked <= Progress
    BY DEF LinkInv
  <2>7. CASE Progress + 1 = Total \/ StartSince + 1 >= SendWindow
    <3>1. Len(blocks') = 0 /\ block = Progress + 1
      <4>1. PICK p \in Nat, more \in Nat \ {0} :
              /\ p = Progress /\ more = Len(blocks) /\ block = p + more
              /\ StartSince = p - acked
        <5>1. /\ Progress \in Nat /\ Len(blocks) \in Nat \ {0}
              /\ block = Progress + Len(blocks) /\ StartSince = Progress - acked
          <6>1. Progress \in Nat
            BY <1>1
          <6> QED
            BY <2>2, <2>3, <6>1
        <5> QED
          BY <5>1
      <4>2. more = 1
        <5>1. CASE p + 1 = Total
          BY <1>1, <4>1, <5>1
        <5>2. CASE p - acked + 1 >= SendWindow
          BY <1>1, <4>1, <5>2
        <5> QED
          BY <2>7, <4>1, <5>1, <5>2
      <4> QED
        BY <2>2, <2>5, <4>1, <4>2
    <3>2. blocks' = <<>>
      <4>1. blocks' \in Seq(Blocks)
        BY <1>1, <1>5, <2>1, Removed DEF Push
      <4> QED
        BY <3>1, <4>1
    <3>3. acks' = <<Progress'>> /\ StartSince' = 0
      BY <2>2, <2>5, <2>7
    <3> QED
      BY <1>1, <2>2, <2>5, <2>6, <2>7, <3>1, <3>2, <3>3 DEF SteadyInv
  <2>8. CASE ~(Progress + 1 = Total \/ StartSince + 1 >= SendWindow)
    <3>0. acks' = acks /\ sinceAck' = StartSince + 1 /\ StartSince + 1 < SendWindow
      BY <1>1, <2>5, <2>8
    <3>1. acks' = <<>> /\ StartSince' = Progress' - acked' /\ Progress' - acked' < SendWindow'
      BY <1>1, <2>2, <2>5, <3>0
    <3>2. block' = Progress' + Len(blocks') /\ Progress' # Total
      BY <1>1, <2>2, <2>3, <2>5, <2>8
    <3>3. ASSUME NEW i \in 1 .. Len(blocks')
          PROVE  blocks'[i].number = Progress' + i
      <4>1. i + 1 \in 1 .. Len(blocks) /\ i \in Nat
        BY <2>3, <2>5
      <4> QED
        BY <1>1, <2>2, <2>5, <4>1
    <3>4. SteadyInv'
      BY <3>1, <3>2, <3>3 DEF SteadyInv
    <3> QED
      BY <2>5, <3>4
  <2> QED
    BY <2>7, <2>8
<1>6. CASE Timeout
  <2>1. acked < Total /\ blocks = <<>> /\ acks = <<>> /\ ~(block < Total /\ block - acked < SendWindow)
    BY <1>1, <1>6 DEF Timeout, IsDone, WindowOpen, Orderly
  <2>2. Len(blocks) = 0
    BY <2>1
  <2> QED
    BY <1>1, <2>1, <2>2 DEF SteadyInv
<1>7. CASE Reset
  BY <1>7 DEF Reset, Orderly
<1>8. CASE LoseBlock \/ LoseAck
  BY <1>8 DEF LoseBlock, LoseAck
<1>9. CASE UNCHANGED vars
  <2>1. UNCHANGED <<senderVars, receiverVars, taken>> /\ blocks' = blocks /\ acks' = acks
    BY <1>9 DEF vars
  <2>2. /\ RunInv' /\ LinkInv' /\ Progress' = Progress /\ StartSince' = StartSince
        /\ SendWindow' = SendWindow
        /\ mode' = mode /\ capacity' = capacity /\ block' = block /\ acked' = acked
        /\ Delivering
    BY <2>1, StillLinks
  <2>3. SteadyInv'
    BY <2>1, <2>2 DEF SteadyInv
  <2> QED
    BY <2>2, <2>3
<1> QED
  BY <1>2, <1>3, <1>4, <1>5, <1>6, <1>7, <1>8, <1>9 DEF Next

\* Stop and wait over a link that loses: a lost block or acknowledgement is asked for
\* again, and a receiver that is behind is not mistaken for one that has the APDU.
LEMMA NextTurn ==
  ASSUME Orderly, TypeInv, capacity >= Total, mode.lossy,
         RunInv, LinkInv, TurnInv, [Next]_vars
  PROVE  /\ RunInv' /\ LinkInv' /\ TurnInv' /\ capacity' = capacity /\ mode' = mode
         /\ Delivering
<1>1. /\ block \in 0 .. Total /\ acked \in 0 .. Total /\ acked <= block
      /\ blocks \in Seq(Blocks) /\ acks \in Seq(Numbers) /\ Total \in Nat \ {0}
      /\ Progress \in 0 .. Total /\ StartSince \in 0 .. Total
      /\ Len(blocks) \in Nat
  BY Types, ProgressRange
<1>2. Total > 1 /\ SendWindow = 1
  <2>1. mode \in Modes /\ TypeOK
    BY DEF TypeInv, TypeOK
  <2>2. ~mode.streaming /\ Total > 1
    BY <2>1 DEF Orderly
  <2> QED
    BY <2>1, <2>2, SendWindowRange
<1>3. acked <= Progress /\ Progress <= block /\ (Behind => acked = 0)
  BY DEF LinkInv
<1>4. CASE NextBlock
  <2>1. /\ RunInv' /\ LinkInv' /\ Progress' = Progress
        /\ block' = block + 1 /\ block - acked < SendWindow
        /\ mode' = mode /\ capacity' = capacity /\ acked' = acked /\ acks' = acks
        /\ sinceAck' = sinceAck
        /\ Len(blocks') = Len(blocks) + 1
        /\ blocks'[Len(blocks')].number = block + 1
        /\ Delivering
    BY <1>4, NextBlockLinks
  <2>2. block = acked /\ Progress = acked
    BY <1>1, <1>2, <1>3, <2>1
  <2>3. blocks = <<>> /\ acks = <<>> /\ sinceAck = 0
    BY <1>1, <2>2 DEF TurnInv
  <2>4. Len(blocks') = 1 /\ blocks'[1].number = block'
    BY <2>1, <2>3
  <2> QED
    BY <1>1, <2>1, <2>2, <2>3, <2>4 DEF TurnInv
<1>5. CASE Acknowledge
  <2>1. acks # <<>> /\ acks' = Tail(acks) /\ blocks' = blocks
    BY <1>5 DEF Acknowledge
  <2>2. /\ block = acked + 1 /\ blocks = <<>> /\ Len(acks) = 1 /\ sinceAck = 0
        /\ acks[1] = Progress \/ (Behind /\ acks[1] = Total)
    BY <2>1 DEF TurnInv
  <2>3. Head(acks) = acks[1] /\ Tail(acks) = <<>>
    BY <1>1, <2>1, <2>2
  <2>4. CASE acks[1] = Progress
    <3>1. Head(acks) = Progress
      BY <2>3, <2>4
    <3>2. /\ RunInv' /\ LinkInv' /\ acked' = Progress /\ block' = Progress
          /\ mode' = mode /\ capacity' = capacity /\ sinceAck' = sinceAck
          /\ Delivering
      BY <1>5, <3>1, AcknowledgeLinks
    <3> QED
      BY <1>1, <2>1, <2>2, <2>3, <3>2 DEF TurnInv
  <2>5. CASE acks[1] # Progress
    <3>1. Behind /\ Head(acks) = Total /\ acked = 0 /\ block < Total
      BY <1>1, <1>2, <1>3, <2>2, <2>3, <2>5
    <3>2. acked' = acked /\ block' = block
      BY <1>1, <1>5, <3>1 DEF Acknowledge, AcceptableAck
    <3>3. UNCHANGED <<senderVars, receiverVars, taken>>
      BY <1>5, <3>2 DEF Acknowledge, senderVars
    <3>4. /\ RunInv' /\ LinkInv' /\ mode' = mode /\ capacity' = capacity
          /\ sinceAck' = sinceAck /\ Delivering
      BY <2>1, <3>3, StillLinks
    <3> QED
      BY <1>1, <2>1, <2>2, <2>3, <3>2, <3>4 DEF TurnInv
  <2> QED
    BY <2>4, <2>5
<1>6. CASE NextApdu
  <2>1. /\ RunInv' /\ Behind' /\ Progress' = 0 /\ acked' = 0 /\ block' = 0
        /\ acked = Total /\ block = Total
        /\ mode' = mode /\ capacity' = capacity /\ blocks' = blocks /\ acks' = acks
        /\ sinceAck' = sinceAck
        /\ Delivering
    BY <1>6, NextApduBehind
  <2>2. acks = <<>> /\ blocks = <<>> /\ sinceAck = 0
    BY <1>1, <2>1 DEF TurnInv
  <2>3. LinkInv'
    BY <2>1, <2>2 DEF LinkInv
  <2> QED
    BY <2>1, <2>2, <2>3 DEF TurnInv
<1>7. CASE Push
  <2>1. blocks # <<>>
    BY <1>7 DEF Push
  <2>2. /\ block = acked + 1 /\ acks = <<>> /\ Len(blocks) = 1
        /\ blocks[1].number = block /\ Progress = acked /\ sinceAck = 0
    BY <2>1 DEF TurnInv
  <2>3. blocks[1].number = Progress + 1 /\ Progress < block
    BY <1>1, <2>2
  <2>4. /\ RunInv' /\ LinkInv' /\ Progress' = Progress + 1
        /\ mode' = mode /\ capacity' = capacity /\ block' = block /\ acked' = acked
        /\ Len(blocks') = Len(blocks) - 1
        /\ IF Progress + 1 = Total \/ StartSince + 1 >= SendWindow
             THEN sinceAck' = 0 /\ acks' = Append(acks, Progress + 1)
             ELSE sinceAck' = StartSince + 1 /\ acks' = acks
        /\ Delivering
    BY <1>7, <2>3, PushLinks
  <2>5. blocks' = <<>>
    <3>1. blocks' \in Seq(Blocks) /\ Len(blocks') = 0
      BY <1>1, <1>7, <2>1, <2>2, Removed DEF Push
    <3> QED
      BY <3>1
  <2>6. sinceAck' = 0 /\ acks' = Append(<<>>, Progress + 1)
    BY <1>1, <1>2, <2>2, <2>4
  <2>7. Len(acks') = 1 /\ acks'[1] = Progress'
    BY <2>4, <2>6
  <2> QED
    BY <1>1, <2>2, <2>4, <2>5, <2>6, <2>7 DEF TurnInv
<1>8. CASE Timeout
  <2>1. /\ acked < Total /\ blocks = <<>> /\ acks = <<>> /\ ~(block < Total /\ block - acked < SendWindow)
        /\ acks' = Append(acks, received) /\ blocks' = blocks
        /\ UNCHANGED <<senderVars, receiverVars, taken>>
    BY <1>1, <1>8 DEF Timeout, IsDone, WindowOpen, Orderly, Acknowledging
  <2>2. /\ RunInv' /\ LinkInv' /\ Progress' = Progress /\ Behind' = Behind
        /\ mode' = mode /\ capacity' = capacity /\ sinceAck' = sinceAck
        /\ block' = block /\ acked' = acked /\ Delivering
    BY <2>1, StillLinks
  <2>3. block = acked + 1 /\ sinceAck = 0
    BY <1>1, <1>2, <2>1 DEF TurnInv
  <2>4. Len(acks') = 1 /\ acks'[1] = received
    BY <2>1
  <2>5. received = Progress \/ (Behind /\ received = Total)
    BY DEF Progress, Behind, RunInv
  <2>6. acks'[1] = Progress' \/ (Behind' /\ acks'[1] = Total)
    BY <2>2, <2>4, <2>5
  <2> QED
    BY <1>1, <2>1, <2>2, <2>3, <2>4, <2>6 DEF TurnInv
<1>9. CASE Reset
  BY <1>9 DEF Reset, Orderly
<1>10. CASE LoseBlock \/ LoseAck
  <2>1. UNCHANGED <<senderVars, receiverVars, taken>>
    BY <1>10 DEF LoseBlock, LoseAck
  <2>2. blocks' = <<>> /\ acks' = <<>>
    <3>1. CASE LoseBlock
      <4>1. blocks # <<>> /\ blocks' = Tail(blocks) /\ acks' = acks
        BY <3>1 DEF LoseBlock
      <4>2. Len(blocks) = 1 /\ acks = <<>>
        BY <4>1 DEF TurnInv
      <4> QED
        BY <1>1, <4>1, <4>2
    <3>2. CASE LoseAck
      <4>1. acks # <<>> /\ acks' = Tail(acks) /\ blocks' = blocks
        BY <3>2 DEF LoseAck
      <4>2. Len(acks) = 1 /\ blocks = <<>>
        BY <4>1 DEF TurnInv
      <4> QED
        BY <1>1, <4>1, <4>2
    <3> QED
      BY <1>10, <3>1, <3>2
  <2>3. /\ RunInv' /\ LinkInv' /\ mode' = mode /\ capacity' = capacity
        /\ sinceAck' = sinceAck /\ block' = block /\ acked' = acked /\ Delivering
    BY <2>1, <2>2, StillLinks
  <2> QED
    BY <2>2, <2>3 DEF TurnInv
<1>11. CASE UNCHANGED vars
  <2>1. UNCHANGED <<senderVars, receiverVars, taken>> /\ blocks' = blocks /\ acks' = acks
    BY <1>11 DEF vars
  <2>2. /\ RunInv' /\ LinkInv' /\ Progress' = Progress /\ Behind' = Behind
        /\ mode' = mode /\ capacity' = capacity /\ sinceAck' = sinceAck
        /\ block' = block /\ acked' = acked /\ Delivering
    BY <2>1, StillLinks
  <2>3. TurnInv'
    BY <2>1, <2>2 DEF TurnInv
  <2> QED
    BY <2>2, <2>3
<1> QED
  BY <1>4, <1>5, <1>6, <1>7, <1>8, <1>9, <1>10, <1>11 DEF Next

\* Every step keeps it, whichever way the transfer runs.
LEMMA NextSafeInv ==
  ASSUME Orderly, TypeInv, SafeInv, [Next]_vars
  PROVE  SafeInv' /\ Delivering
<1>1. capacity \in Nat /\ Total \in Nat
  BY Types
<1>2. CASE capacity < Total
  <2>1. NoRoomInv
    BY <1>2 DEF SafeInv
  <2>2. NoRoomInv' /\ capacity' = capacity /\ Delivering
    BY <1>2, <2>1, NextNoRoom
  <2> QED
    BY <1>1, <1>2, <2>2 DEF SafeInv
<1>3. CASE capacity >= Total /\ ~mode.lossy
  <2>1. RunInv /\ LinkInv /\ SteadyInv
    BY <1>3 DEF SafeInv
  <2>2. /\ RunInv' /\ LinkInv' /\ SteadyInv' /\ capacity' = capacity /\ mode' = mode
        /\ Delivering
    BY <1>3, <2>1, NextSteady
  <2> QED
    BY <1>1, <1>3, <2>2 DEF SafeInv
<1>4. CASE capacity >= Total /\ mode.lossy
  <2>1. RunInv /\ LinkInv /\ TurnInv
    BY <1>4 DEF SafeInv
  <2>2. /\ RunInv' /\ LinkInv' /\ TurnInv' /\ capacity' = capacity /\ mode' = mode
        /\ Delivering
    BY <1>4, <2>1, NextTurn
  <2> QED
    BY <1>1, <1>4, <2>2 DEF SafeInv
<1> QED
  BY <1>1, <1>2, <1>3, <1>4

\* It holds to begin with.
LEMMA InitSafeInv ==
  ASSUME Init
  PROVE  SafeInv
<1>1. TypeInv
  BY InitTypeInv
<1>2. /\ apdu = 1 /\ block = 0 /\ acked = 0 /\ content = <<>> /\ received = 0 /\ sinceAck = 0
      /\ complete = FALSE /\ blocks = <<>> /\ acks = <<>> /\ taken = <<>>
  BY DEF Init
<1>3. Total \in Nat \ {0} /\ capacity \in Nat /\ SendWindow \in 1 .. WindowMax /\ WindowMax \in Nat
  BY <1>1, Types, WindowMaxAssumption
<1>4. ~Behind /\ Progress = 0 /\ StartSince = 0
  BY <1>2 DEF Behind, Progress, StartSince
<1>5. NoRoomInv
  BY <1>2, <1>3 DEF NoRoomInv
<1>6. RunInv
  BY <1>2, <1>3, <1>4 DEF RunInv, Prefix
<1>7. LinkInv
  BY <1>2, <1>3, <1>4 DEF LinkInv
<1>8. SteadyInv
  BY <1>2, <1>3, <1>4 DEF SteadyInv
<1>9. TurnInv
  BY <1>2 DEF TurnInv
<1> QED
  BY <1>5, <1>6, <1>7, <1>8, <1>9 DEF SafeInv

\* What has been handed over is the APDUs in their order, and not beyond the one under way.
Handed ==
  /\ Len(taken) \in 0 .. apdu
  /\ \A i \in 1 .. Len(taken) : taken[i] = Whole(i)
  /\ Delivered = [i \in 1 .. Len(taken) |-> i]

\* SafeInv says so.
LEMMA HandedOver ==
  ASSUME TypeInv, SafeInv
  PROVE  Handed
<1>1. /\ capacity \in Nat /\ Total \in Nat \ {0} /\ apdu \in 1 .. Apdus /\ Apdus \in Nat
      /\ Len(taken) \in Nat
  BY Types
<1>2. /\ Len(taken) \in 0 .. apdu
      /\ \A i \in 1 .. Len(taken) : taken[i] = Whole(i)
  <2>1. CASE capacity < Total
    <3>1. taken = <<>>
      BY <2>1 DEF SafeInv, NoRoomInv
    <3> QED
      BY <1>1, <3>1
  <2>2. CASE capacity >= Total
    BY <1>1, <2>2 DEF SafeInv, RunInv
  <2> QED
    BY <1>1, <2>1, <2>2
<1>3. ASSUME NEW i \in 1 .. Len(taken)
      PROVE  /\ \E a \in 1 .. Apdus : taken[i] = Whole(a)
             /\ taken[i][1][1] = i
  <2>1. i \in 1 .. Apdus /\ taken[i] = Whole(i)
    BY <1>1, <1>2
  <2>2. Whole(i)[1] = <<i, 1>>
    BY <1>1 DEF Whole
  <2> QED
    BY <2>1, <2>2
<1> QED
  BY <1>2, <1>3 DEF Handed, Delivered

\* An invariant of every transfer that is orderly.
THEOREM OrderlyTransfer ==
  ASSUME Orderly
  PROVE  Spec => [](TypeInv /\ SafeInv)
<1>1. Init => TypeInv /\ SafeInv
  BY InitTypeInv, InitSafeInv
<1>2. TypeInv /\ SafeInv /\ [Next]_vars => (TypeInv /\ SafeInv)'
  BY NextTypeInv, NextSafeInv
<1> QED
  BY <1>1, <1>2, PTL DEF Spec

\* Any number of APDUs: what push reports complete is one of them, whole.
THEOREM OrderlyIsIntact ==
  ASSUME Orderly
  PROVE  Spec => []TakenIntact
<1>1. TypeInv /\ SafeInv => TakenIntact
  <2> SUFFICES ASSUME TypeInv, SafeInv, NEW i \in 1 .. Len(taken)
               PROVE  \E a \in 1 .. Apdus : taken[i] = Whole(a)
    BY DEF TakenIntact
  <2>1. apdu \in 1 .. Apdus /\ Apdus \in Nat /\ Len(taken) \in 0 .. apdu /\ taken[i] = Whole(i)
    BY Types, HandedOver DEF Handed
  <2>2. i \in 1 .. Apdus
    BY <2>1
  <2> QED
    BY <2>1, <2>2
<1> QED
  BY <1>1, OrderlyTransfer, PTL

\* Any number of APDUs: is_done says that this very APDU has been handed over.
THEOREM OrderlyIsDelivered ==
  ASSUME Orderly
  PROVE  Spec => []DoneIsDelivered
<1>1. TypeInv /\ SafeInv => DoneIsDelivered
  <2> SUFFICES ASSUME TypeInv, SafeInv, IsDone
               PROVE  \E i \in 1 .. Len(taken) : taken[i] = Whole(apdu)
    BY DEF DoneIsDelivered
  <2>1. /\ capacity \in Nat /\ Total \in Nat \ {0} /\ acked >= Total /\ acked \in 0 .. Total
        /\ apdu \in 1 .. Apdus /\ received \in 0 .. Total
    BY Types DEF IsDone
  <2>2. capacity >= Total
    BY <2>1 DEF SafeInv, NoRoomInv
  <2>3. RunInv /\ acked <= Progress
    BY <2>2 DEF SafeInv, LinkInv
  <2>4. Progress = Total
    BY <2>1, <2>3, ProgressRange
  <2>5. Len(taken) = apdu
    BY <2>3, <2>4, ProgressRange
  <2>6. apdu \in 1 .. Len(taken) /\ taken[apdu] = Whole(apdu)
    BY <2>1, <2>5, HandedOver DEF Handed
  <2> QED
    BY <2>6
<1> QED
  BY <1>1, OrderlyTransfer, PTL

\* A step of the transfer is a delivery, the sender's going on, or nothing to its callers.
LEMMA StepDelivers ==
  ASSUME TypeInv, Handed, Handed', Delivering
  PROVE  [Delivery!Next]_<<apdu, Delivered>>
<1>1. /\ Len(taken) \in 0 .. apdu /\ Delivered = [i \in 1 .. Len(taken) |-> i]
      /\ apdu \in 1 .. Apdus /\ apdu \in Nat
  BY Types DEF Handed
<1>2. Delivered' = [i \in 1 .. Len(taken') |-> i]
  BY DEF Handed
<1>3. Delivered \in Seq(Nat) /\ Len(Delivered) = Len(taken)
  BY <1>1
<1>4. CASE apdu' = apdu /\ taken' = taken
  BY <1>1, <1>2, <1>4
<1>5. CASE apdu' = apdu + 1 /\ apdu < Apdus /\ Len(taken) = apdu /\ taken' = taken
  <2>1. Delivered' = Delivered
    BY <1>1, <1>2, <1>5
  <2> QED
    BY <1>3, <1>5, <2>1 DEF Delivery!Next, Delivery!Proceed
<1>6. CASE apdu' = apdu /\ Len(taken) = apdu - 1 /\ Len(taken') = apdu
  <2>1. Delivered' = [i \in 1 .. apdu |-> i] /\ Delivered = [i \in 1 .. apdu - 1 |-> i]
    BY <1>1, <1>2, <1>6
  <2>2. Delivered' = Append(Delivered, apdu)
    BY <1>1, <2>1
  <2> QED
    BY <1>1, <1>3, <1>6, <2>2 DEF Delivery!Next, Delivery!Deliver
<1> QED
  BY <1>4, <1>5, <1>6 DEF Delivering

\* Block transfer implements delivery: every APDU exactly once, whole and in order, and the
\* sender goes on only when the present one has been handed over.
THEOREM DeliveryImplemented ==
  ASSUME Orderly
  PROVE  Spec => ImplementsDelivery
<1>1. Init => Delivery!Init
  <2> SUFFICES ASSUME Init
               PROVE  apdu = 1 /\ Delivered = <<>>
    BY DEF Delivery!Init
  <2>1. taken = <<>> /\ apdu = 1
    BY DEF Init
  <2> QED
    BY <2>1 DEF Delivered
<1>2. TypeInv /\ SafeInv => Handed
  BY HandedOver
<1>3. TypeInv /\ SafeInv /\ Handed /\ Handed' /\ [Next]_vars => [Delivery!Next]_<<apdu, Delivered>>
  BY NextSafeInv, StepDelivers
<1> QED
  BY <1>1, <1>2, <1>3, OrderlyTransfer, PTL DEF Spec, ImplementsDelivery, Delivery!Spec
=============================================================================
