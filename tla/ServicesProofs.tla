-------------------------- MODULE ServicesProofs ----------------------------
(***************************************************************************)
(* Proofs about Services, for every store, every buffer and every caller,  *)
(* over links that delay, reorder, lose and duplicate: what the server     *)
(* puts together from blocks is what one invocation asked for, as long as  *)
(* no invoke id has come round again.                                      *)
(***************************************************************************)
EXTENDS Services, FiniteSetTheorems, TLAPS

Addressable == Objects \union Methods
Ids == 0 .. IdMod - 1
Kinds == {"set", "action"}
Bytes == Seq(Pieces)
Targets == Seq(Addressable)

\* No id is used twice.
NoWrap == Requests <= IdMod

(***************************************************************************)
(* The inductive invariant, in parts.                                      *)
(***************************************************************************)
Ops ==
  [n : Nat, svc : {"get", "set", "action"}, target : Targets, header : Bytes, bytes : Bytes,
   sent : Nat, block : Nat, lastBlock : Nat, got : Bytes, ok : BOOLEAN, ready : BOOLEAN,
   aside : BOOLEAN, since : Nat]

Sendings ==
  [kind : {"sending"}, id : Ids, svc : {"get", "set", "action"}, len : Nat, sent : Nat,
   block : Nat]

Receivings ==
  [kind : {"receiving"}, svc : Kinds, id : Ids, list : BOOLEAN, target : Targets,
   headerEnd : Nat, len : Nat, block : Nat]

\* What is written or called by one invocation.
Jobs == [svc : Kinds, target : Targets, header : Bytes, bytes : Bytes]

\* The ids of the invocations so far.
InUse(id) == id \in Ids /\ (id \in 1 .. started \/ (id = 0 /\ started = IdMod))

\* next_invoke_id counts the invocations.
IdInv ==
  /\ started \in 0 .. Requests
  /\ invokeId = IF started = IdMod THEN 0 ELSE started
  /\ outstanding \in {NoId} \union Ids
  /\ op # NoOp => InUse(outstanding)

OpInv ==
  op # NoOp => /\ op \in Ops /\ op.sent <= Len(op.bytes)
               /\ op.svc = "get" => op.block = 0

\* The meter's store.
StoreInv ==
  /\ versions \in [Objects -> Seq(Bytes)]
  /\ \A o \in Objects : versions[o] # <<>>
  /\ updated \in Nat /\ IsFiniteSet(performed)

\* The response buffer, and what is being sent of it.
SendingOK(t, buffer) ==
  /\ t \in Sendings /\ t.sent < t.len /\ t.len <= Buffer
  /\ \A i \in 1 .. t.len : buffer[i] \in Pieces

TransferInv ==
  /\ response \in [1 .. Buffer -> Pieces \union {NoPiece}]
  /\ \/ transfer = Idle
     \/ SendingOK(transfer, response)
     \/ transfer \in Receivings /\ transfer.headerEnd + transfer.len <= Buffer

RepliesInv == \A r \in responses : r.form = "block" => r.data \in Bytes

Shapes ==
  /\ agreed \in BlocksAgreed /\ caller \in Callers
  /\ IdInv /\ OpInv /\ StoreInv /\ TransferInv /\ RepliesInv

\* All of a job has been asked for, and a list names an attribute for every value.
Sound(j) ==
  /\ Operations(j.target, j.header, j.bytes) \subseteq asked
  /\ Len(j.target) > 0 /\ Len(j.bytes) > 0
  /\ j.svc = "action" => Len(j.target) = 1 /\ j.header = <<>> /\ j.target[1] \in Methods
  /\ j.svc = "set" => \A i \in 1 .. Len(j.target) : j.target[i] \in Objects
  /\ Len(j.target) > 1 => /\ Len(j.header) = Len(j.target) /\ Len(j.bytes) = Len(j.target)
                          /\ \A i \in 1 .. Len(j.target) : j.header[i].of = j.target[i]

\* Block k of a job.
BlockOf(j, k) ==
  [number |-> k, last |-> k = Len(j.bytes), data |-> SubSeq(j.bytes, k, k)]

\* A request on the link, and the job its id stands for.
Fits(m, j) ==
  /\ m.form \in {"normal", "next", "first", "block"} /\ m.svc \in {"get", "set", "action"}
  /\ m.form = "normal" /\ m.svc = "get" => m.target[1] \in Objects
  /\ m.form = "normal" /\ m.svc # "get" =>
       /\ Sound(j)
       /\ j = [svc |-> m.svc, target |-> m.target, header |-> m.header, bytes |-> m.data]
  /\ m.form = "first" =>
       /\ Sound(j) /\ m.svc = j.svc /\ m.target = j.target /\ m.header = j.header
       /\ m.block = BlockOf(j, 1)
  /\ m.form = "block" =>
       /\ Sound(j) /\ m.svc = j.svc /\ m.block.number \in 1 .. Len(j.bytes)
       /\ m.block = BlockOf(j, m.block.number)

\* What the caller is at, and the job.
IsJob(o, j) ==
  /\ Sound(j)
  /\ o.svc = j.svc /\ o.target = j.target /\ o.header = j.header /\ o.bytes = j.bytes
  /\ o.sent = o.block \/ o.sent = Len(o.bytes)

\* What the server has of it: the selector or list at the front of the buffer, and
\* behind it the value so far.
Holds(t, buffer, j) ==
  /\ Sound(j)
  /\ t.svc = j.svc /\ t.target = j.target /\ (t.list <=> Len(j.target) > 1)
  /\ t.headerEnd = Len(j.header) /\ t.block = t.len /\ t.len < Len(j.bytes)
  /\ \A i \in 1 .. t.headerEnd : i <= Buffer => buffer[i] = j.header[i]
  /\ \A i \in 1 .. t.len : t.headerEnd + i <= Buffer => buffer[t.headerEnd + i] = j.bytes[i]

\* One job for each id: every block, the transfer and the caller agree on it.
Booked(book) ==
  /\ \A m \in requests : InUse(m.id) /\ Fits(m, book[m.id])
  /\ op # NoOp /\ op.svc # "get" => IsJob(op, book[outstanding])
  /\ transfer.kind = "receiving" => InUse(transfer.id) /\ Holds(transfer, response, book[transfer.id])

IInv ==
  /\ Shapes
  /\ \E book \in [Ids -> Jobs] : Booked(book)
  /\ PerformedAsAsked

-----------------------------------------------------------------------------
(***************************************************************************)
(* What the parts are made of.                                             *)
(***************************************************************************)

\* The constants, in the form the steps below use them in.
LEMMA Bounds ==
  /\ Buffer \in Nat \ {0} /\ IdMod \in Nat \ {0} /\ Requests \in Nat /\ Updates \in Nat
  /\ \A n \in Sizes : n \in Nat \ {0}
BY BoundsAssumption

\* The encoding of a writing is made of pieces of it.
LEMMA ValuePieces ==
  ASSUME NEW o \in Addressable, NEW t \in Nat, NEW n \in Nat
  PROVE  Value(o, t, n) \in Bytes /\ Len(Value(o, t, n)) = n
<1>1. \A i \in 1 .. n : Piece(o, t, i) \in Pieces
  BY DEF Piece, Pieces, Addressable
<1> QED
  BY <1>1 DEF Value, Bytes

\* One write to each attribute of a target, as long as there is a value for each.
LEMMA OperationsOf ==
  ASSUME NEW target \in Targets, NEW header, NEW bytes \in Bytes,
         Len(target) = 1 \/ Len(bytes) = Len(target)
  PROVE  /\ \A w \in Operations(target, header, bytes) : w.value \in Bytes
         /\ IsFiniteSet({[did |-> w, result |-> <<>>] : w \in Operations(target, header, bytes)})
<1>1. Len(target) \in Nat /\ DOMAIN target = 1 .. Len(target)
  BY DEF Targets
<1>2. ASSUME NEW i \in DOMAIN target
      PROVE  Values(target, bytes)[i] \in Bytes
  <2>1. CASE Len(target) = 1
    BY <1>1, <2>1 DEF Values
  <2>2. CASE Len(target) # 1
    <3>1. bytes[i] \in Pieces
      BY <1>1, <2>2 DEF Bytes
    <3>2. <<bytes[i]>> \in Bytes
      BY <3>1 DEF Bytes
    <3> QED
      BY <2>2, <3>2 DEF Values
  <2> QED
    BY <2>1, <2>2
<1>3. \A w \in Operations(target, header, bytes) : w.value \in Bytes
  BY <1>2 DEF Operations
<1>4. IsFiniteSet({[did |-> w, result |-> <<>>] : w \in Operations(target, header, bytes)})
  <2> DEFINE T == {[did |-> w, result |-> <<>>] : w \in Operations(target, header, bytes)}
             f == [i \in 1 .. Len(target) |->
                     [did |-> [of |-> target[i], header |-> header,
                               value |-> Values(target, bytes)[i]], result |-> <<>>]]
  <2>1. f \in Surjection(1 .. Len(target), T)
    BY <1>1 DEF Surjection, Operations
  <2>2. IsFiniteSet(1 .. Len(target))
    BY <1>1, FS_Interval
  <2> HIDE DEF f, T
  <2>3. IsFiniteSet(T)
    BY <2>1, <2>2, FS_Surjection
  <2> QED
    BY <2>3 DEF T
<1> QED
  BY <1>3, <1>4

Buffers == [1 .. Buffer -> Pieces \union {NoPiece}]

\* What is put into the buffer is there, and what is before it stays.
LEMMA PutFacts ==
  ASSUME NEW buffer \in Buffers, NEW at \in Nat, NEW data \in Bytes
  PROVE  /\ Put(buffer, at, data) \in Buffers
         /\ \A i \in 1 .. Buffer : i <= at => Put(buffer, at, data)[i] = buffer[i]
         /\ \A k \in 1 .. Len(data) : at + k <= Buffer => Put(buffer, at, data)[at + k] = data[k]
<1>1. DOMAIN data = 1 .. Len(data) /\ Len(data) \in Nat /\ \A k \in 1 .. Len(data) : data[k] \in Pieces
  BY DEF Bytes
<1>2. Buffer \in Nat
  BY Bounds
<1>3. ASSUME NEW i \in 1 .. Buffer
      PROVE  /\ i - at \in DOMAIN data => data[i - at] \in Pieces
             /\ i <= at => i - at \notin DOMAIN data
  BY <1>1, <1>2
<1>4. Put(buffer, at, data) \in Buffers
  BY <1>3 DEF Put, Buffers
<1>5. \A i \in 1 .. Buffer : i <= at => Put(buffer, at, data)[i] = buffer[i]
  BY <1>3 DEF Put
<1>6. ASSUME NEW k \in 1 .. Len(data), at + k <= Buffer
      PROVE  Put(buffer, at, data)[at + k] = data[k]
  <2>1. at + k \in 1 .. Buffer /\ (at + k) - at = k
    BY <1>1, <1>2, <1>6
  <2> QED
    BY <1>1, <2>1 DEF Put
<1> QED
  BY <1>4, <1>5, <1>6

\* A part of the buffer.
LEMMA PartFacts ==
  ASSUME NEW buffer \in Buffers, NEW a \in Nat \ {0}, NEW b \in Nat, b <= Buffer, a <= b + 1
  PROVE  /\ SubSeq(buffer, a, b) \in Seq(Pieces \union {NoPiece})
         /\ Len(SubSeq(buffer, a, b)) = b - a + 1
         /\ \A i \in 1 .. b - a + 1 : SubSeq(buffer, a, b)[i] = buffer[a + i - 1]
<1>1. buffer \in Seq(Pieces \union {NoPiece}) /\ Len(buffer) = Buffer
  BY Bounds DEF Buffers
<1> QED
  BY <1>1

\* A sequence of one piece or more of the buffer that is all pieces.
LEMMA PartPieces ==
  ASSUME NEW buffer \in Buffers, NEW a \in Nat \ {0}, NEW b \in Nat, b <= Buffer, a <= b + 1,
         \A i \in a .. b : buffer[i] \in Pieces
  PROVE  SubSeq(buffer, a, b) \in Bytes
<1>1. /\ SubSeq(buffer, a, b) \in Seq(Pieces \union {NoPiece})
      /\ Len(SubSeq(buffer, a, b)) = b - a + 1
      /\ \A i \in 1 .. b - a + 1 : SubSeq(buffer, a, b)[i] = buffer[a + i - 1]
  BY PartFacts
<1> DEFINE s == SubSeq(buffer, a, b)
<1> HIDE DEF s
<1>2. ASSUME NEW i \in 1 .. Len(s)
      PROVE  s[i] \in Pieces
  <2>1. a + i - 1 \in a .. b /\ s[i] = buffer[a + i - 1]
    BY <1>1 DEF s
  <2> QED
    BY <2>1
<1>3. s \in Seq(Pieces \union {NoPiece})
  BY <1>1 DEF s
<1>4. s \in Seq(Pieces)
  BY <1>2, <1>3
<1> QED
  BY <1>4 DEF s, Bytes

\* A handler changes nothing of the client's, and takes nothing but requests off the link.
Served == requests' \subseteq requests /\ UNCHANGED <<fixed, clientVars, updated>>

\* A reply that is not a block.
LEMMA AnswerFacts ==
  ASSUME RepliesInv, NEW m, NEW reply, reply.form # "block" \/ reply.data \in Bytes,
         Answer(m, reply)
  PROVE  RepliesInv' /\ Served
<1>1. responses' = responses \union {reply}
  BY DEF Answer
<1>2. RepliesInv'
  BY <1>1 DEF RepliesInv
<1> QED
  BY <1>2 DEF Answer, Served

\* send_next_block: the transfer stays inside the value, and every block is part of it.
LEMMA SendFacts ==
  ASSUME RepliesInv, NEW m, NEW t, NEW buffer \in Buffers, SendingOK(t, buffer),
         SendNextBlock(m, t, buffer)
  PROVE  TransferInv' /\ transfer'.kind # "receiving" /\ RepliesInv' /\ Served
<1>1. /\ t \in Sendings /\ t.sent < t.len /\ t.len <= Buffer
      /\ \A i \in 1 .. t.len : buffer[i] \in Pieces
  BY DEF SendingOK
<1>2. t.sent \in Nat /\ t.len \in Nat /\ t.block \in Nat /\ Buffer \in Nat /\ t.kind = "sending"
  BY <1>1, Bounds DEF Sendings
<1>3. FragmentEnd(t) = t.sent + 1
  BY <1>1, <1>2 DEF FragmentEnd
<1>4. /\ response' = buffer
      /\ transfer' = IF t.sent + 1 = t.len THEN Idle
                     ELSE [t EXCEPT !.sent = t.sent + 1, !.block = @ + 1]
      /\ Answer(m, [svc |-> t.svc, id |-> t.id, form |-> "block", number |-> t.block + 1,
                    last |-> t.sent + 1 = t.len,
                    data |-> SubSeq(buffer, t.sent + 1, t.sent + 1)])
  BY <1>3 DEF SendNextBlock
<1>5. TransferInv' /\ transfer'.kind # "receiving"
  <2>1. CASE t.sent + 1 = t.len
    <3>1. transfer' = Idle /\ response' \in Buffers
      BY <1>4, <2>1
    <3> QED
      BY <3>1 DEF TransferInv, Buffers, Idle
  <2>2. CASE t.sent + 1 # t.len
    <3>1. transfer' = [t EXCEPT !.sent = t.sent + 1, !.block = @ + 1] /\ response' = buffer
      BY <1>4, <2>2
    <3>2. /\ transfer' \in Sendings /\ transfer'.sent = t.sent + 1 /\ transfer'.len = t.len
          /\ transfer'.kind = "sending"
      <4>1. t \in Sendings
        BY <1>1
      <4>2. transfer' = [t EXCEPT !.sent = t.sent + 1, !.block = t.block + 1]
        BY <3>1, <4>1 DEF Sendings
      <4>3. t.sent + 1 \in Nat /\ t.block + 1 \in Nat
        BY <1>2
      <4> QED
        BY <4>1, <4>2, <4>3 DEF Sendings
    <3>3. SendingOK(transfer', response')
      BY <1>1, <1>2, <2>2, <3>1, <3>2 DEF SendingOK
    <3> QED
      BY <3>1, <3>2, <3>3 DEF TransferInv, Buffers
  <2> QED
    BY <2>1, <2>2
<1>6. SubSeq(buffer, t.sent + 1, t.sent + 1) \in Bytes
  <2>1. /\ t.sent + 1 \in Nat \ {0} /\ t.sent + 1 <= Buffer
        /\ \A i \in t.sent + 1 .. t.sent + 1 : buffer[i] \in Pieces
    BY <1>1, <1>2
  <2> QED
    BY <1>2, <2>1, PartPieces
<1>7. RepliesInv' /\ Served
  <2> DEFINE reply == [svc |-> t.svc, id |-> t.id, form |-> "block", number |-> t.block + 1,
                       last |-> t.sent + 1 = t.len,
                       data |-> SubSeq(buffer, t.sent + 1, t.sent + 1)]
  <2>1. Answer(m, reply)
    BY <1>4
  <2>2. reply.data \in Bytes
    BY <1>6
  <2> HIDE DEF reply
  <2> QED
    BY <2>1, <2>2, AnswerFacts
<1> QED
  BY <1>5, <1>7

\* The end of handle_get and answer_method, whichever way it answers.
LEMMA DeliverFacts ==
  ASSUME RepliesInv, NEW m, m.id \in Ids, m.svc \in {"get", "set", "action"},
         NEW body \in Bytes, NEW buffer \in Buffers, Deliver(m, body, buffer)
  PROVE  TransferInv' /\ transfer'.kind # "receiving" /\ RepliesInv' /\ Served
<1>1. Len(body) \in Nat /\ Buffer \in Nat
  BY Bounds DEF Bytes
<1>2. CASE Len(body) > 1 /\ agreed /\ Len(body) <= Buffer
  <2> DEFINE t == [kind |-> "sending", id |-> m.id, svc |-> m.svc,
                   len |-> Len(body), sent |-> 0, block |-> 0]
             after == Put(buffer, 0, body)
  <2>1. SendNextBlock(m, t, after)
    BY <1>2 DEF Deliver
  <2>2. t \in Sendings /\ t.sent < t.len /\ t.len <= Buffer /\ t.len = Len(body)
    BY <1>1, <1>2 DEF Sendings
  <2>3. after \in Buffers /\ \A k \in 1 .. Len(body) : 0 + k <= Buffer => after[0 + k] = body[k]
    BY PutFacts
  <2> HIDE DEF t, after
  <2>4. \A k \in 1 .. t.len : after[k] \in Pieces
    BY <1>1, <1>2, <2>2, <2>3 DEF Bytes
  <2>5. SendingOK(t, after)
    BY <2>2, <2>4 DEF SendingOK
  <2> QED
    BY <2>1, <2>3, <2>5, SendFacts
<1>3. CASE ~(Len(body) > 1 /\ agreed /\ Len(body) <= Buffer)
  <2>1. /\ transfer' = Idle /\ response' = buffer
        /\ Answer(m, IF Len(body) > 1 THEN ErrorReply(m) ELSE ResultReply(m, body))
    BY <1>3 DEF Deliver
  <2>2. TransferInv' /\ transfer'.kind # "receiving"
    BY <2>1 DEF TransferInv, Buffers, Idle
  <2>3. RepliesInv' /\ Served
    <3>1. ErrorReply(m).form # "block" /\ ResultReply(m, body).form # "block"
      BY DEF ErrorReply, ResultReply
    <3> QED
      BY <2>1, <3>1, AnswerFacts
  <2> QED
    BY <2>2, <2>3
<1> QED
  BY <1>2, <1>3

\* A sound job has one attribute, or a value for each.
LEMMA SoundLengths ==
  ASSUME NEW j \in Jobs, Sound(j)
  PROVE  /\ Len(j.target) = 1 \/ Len(j.bytes) = Len(j.target)
         /\ Len(j.target) \in Nat \ {0} /\ Len(j.bytes) \in Nat \ {0} /\ Len(j.header) \in Nat
<1>1. /\ Len(j.target) > 0 /\ Len(j.bytes) > 0
      /\ Len(j.target) > 1 => Len(j.bytes) = Len(j.target)
  BY DEF Sound
<1>2. Len(j.target) \in Nat /\ Len(j.bytes) \in Nat /\ Len(j.header) \in Nat
  BY DEF Jobs, Targets, Bytes
<1>3. ASSUME NEW a \in Nat, NEW b \in Nat, a > 0, b > 0, a > 1 => b = a
      PROVE  (a = 1 \/ b = a) /\ a \in Nat \ {0} /\ b \in Nat \ {0}
  BY <1>3
<1> QED
  BY <1>1, <1>2, <1>3

\* write_one for every attribute of a sound job: what is written was asked for.
LEMMA WriteFacts ==
  ASSUME StoreInv, PerformedAsAsked, NEW j \in Jobs, Sound(j),
         WriteAll(j.target, j.header, j.bytes), Served
  PROVE  StoreInv' /\ PerformedAsAsked'
<1> DEFINE all == Operations(j.target, j.header, j.bytes)
           writes == {w \in all : w.of \in Writable}
           To(o) == {w \in writes : w.of = o}
<1>1. /\ performed' = performed \union {[did |-> w, result |-> <<>>] : w \in writes}
      /\ versions' = [o \in Objects |->
           IF To(o) = {} THEN versions[o]
           ELSE Append(versions[o], (CHOOSE w \in To(o) : TRUE).value)]
  BY DEF WriteAll
<1>2. updated' = updated /\ asked' = asked
  BY DEF Served, clientVars
<1>3. all \subseteq asked
  BY DEF Sound
<1>4. /\ \A w \in all : w.value \in Bytes
      /\ IsFiniteSet({[did |-> w, result |-> <<>>] : w \in all})
  <2>1. j.target \in Targets /\ j.bytes \in Bytes
    BY DEF Jobs
  <2>2. Len(j.target) = 1 \/ Len(j.bytes) = Len(j.target)
    BY SoundLengths
  <2> QED
    BY <2>1, <2>2, OperationsOf
<1> HIDE DEF all
<1>5. IsFiniteSet(performed')
  <2>1. {[did |-> w, result |-> <<>>] : w \in writes} \in SUBSET {[did |-> w, result |-> <<>>] : w \in all}
    OBVIOUS
  <2>2. IsFiniteSet({[did |-> w, result |-> <<>>] : w \in writes})
    BY <1>4, <2>1, FS_Subset
  <2>3. IsFiniteSet(performed)
    BY DEF StoreInv
  <2> QED
    BY <1>1, <2>2, <2>3, FS_Union
<1>6. PerformedAsAsked'
  BY <1>1, <1>2, <1>3 DEF PerformedAsAsked
<1>7. ASSUME NEW o \in Objects
      PROVE  versions'[o] \in Seq(Bytes) /\ versions'[o] # <<>>
  <2>1. versions[o] \in Seq(Bytes) /\ versions[o] # <<>>
    BY DEF StoreInv
  <2>2. CASE To(o) = {}
    BY <1>1, <2>1, <2>2
  <2>3. CASE To(o) # {}
    <3>1. (CHOOSE w \in To(o) : TRUE) \in To(o)
      BY <2>3
    <3>2. (CHOOSE w \in To(o) : TRUE).value \in Bytes
      BY <1>4, <3>1
    <3>3. versions'[o] = Append(versions[o], (CHOOSE w \in To(o) : TRUE).value)
      BY <1>1, <2>3
    <3> QED
      BY <2>1, <3>2, <3>3
  <2> QED
    BY <2>2, <2>3
<1>8. versions' \in [Objects -> Seq(Bytes)]
  BY <1>1, <1>7
<1> QED
  BY <1>2, <1>5, <1>6, <1>7, <1>8 DEF StoreInv

\* run_method and answer_method, of a call that was asked for.
LEMMA InvokeFacts ==
  ASSUME RepliesInv, StoreInv, PerformedAsAsked,
         NEW m, m.id \in Ids, m.svc \in {"get", "set", "action"},
         NEW method \in Addressable, NEW parameter, NEW buffer \in Buffers,
         [of |-> method, header |-> <<>>, value |-> parameter] \in asked,
         InvokeMethod(m, method, parameter, buffer)
  PROVE  /\ StoreInv' /\ PerformedAsAsked' /\ TransferInv' /\ transfer'.kind # "receiving"
         /\ RepliesInv' /\ Served
<1>1. PICK n \in {0 - 1, 0} \union Sizes :
        LET result == IF n < 0 THEN <<>> ELSE Value(method, Cardinality(performed) + 1, n)
        IN  /\ performed' = performed \union
                 {[did |-> [of |-> method, header |-> <<>>, value |-> parameter],
                   result |-> result]}
            /\ UNCHANGED versions
            /\ IF n < 0 THEN /\ transfer' = Idle
                             /\ response' = buffer
                             /\ Answer(m, ErrorReply(m))
                        ELSE Deliver(m, result, buffer)
  BY DEF InvokeMethod
<1> DEFINE result == IF n < 0 THEN <<>> ELSE Value(method, Cardinality(performed) + 1, n)
           call == [did |-> [of |-> method, header |-> <<>>, value |-> parameter],
                    result |-> result]
<1>2. performed' = performed \union {call} /\ versions' = versions
  BY <1>1
<1>3. call.did \in asked
  OBVIOUS
<1>4. TransferInv' /\ transfer'.kind # "receiving" /\ RepliesInv' /\ Served
  <2>1. CASE n < 0
    <3>1. transfer' = Idle /\ response' = buffer /\ Answer(m, ErrorReply(m))
      BY <1>1, <2>1
    <3>2. TransferInv' /\ transfer'.kind # "receiving"
      BY <3>1 DEF TransferInv, Buffers, Idle
    <3>3. ErrorReply(m).form # "block"
      BY DEF ErrorReply
    <3> QED
      BY <3>1, <3>2, <3>3, AnswerFacts
  <2>2. CASE ~(n < 0)
    <3>1. n \in Nat
      BY <2>2, Bounds
    <3>2. Cardinality(performed) + 1 \in Nat
      BY FS_CardinalityType DEF StoreInv
    <3>3. Value(method, Cardinality(performed) + 1, n) \in Bytes
      BY <3>1, <3>2, ValuePieces
    <3>4. Deliver(m, Value(method, Cardinality(performed) + 1, n), buffer)
      BY <1>1, <2>2
    <3> QED
      BY <3>3, <3>4, DeliverFacts
  <2> QED
    BY <2>1, <2>2
<1> HIDE DEF call
<1>5. updated' = updated /\ asked' = asked
  BY <1>4 DEF Served, clientVars
<1>6. PerformedAsAsked'
  BY <1>2, <1>3, <1>5 DEF PerformedAsAsked
<1>7. StoreInv'
  <2>1. IsFiniteSet(performed')
    BY <1>2, FS_AddElement DEF StoreInv
  <2> QED
    BY <1>2, <1>5, <2>1 DEF StoreInv
<1> QED
  BY <1>4, <1>6, <1>7

\* Sequences that agree everywhere are equal.
LEMMA SameSequence ==
  ASSUME NEW S, NEW T, NEW s \in Seq(S), NEW t \in Seq(T), Len(s) = Len(t),
         \A i \in 1 .. Len(t) : s[i] = t[i]
  PROVE  s = t
OBVIOUS

\* A header of h pieces and a value of n.
LEMMA RoomFacts ==
  ASSUME NEW h \in Nat, NEW n \in Nat, NEW room \in Nat, h + n <= room
  PROVE  /\ h <= room /\ h + 1 \in Nat \ {0} /\ h + n \in Nat /\ h + 1 <= h + n + 1
         /\ (h + n) - (h + 1) + 1 = n
OBVIOUS

\* A block of a job is one piece of its value.
LEMMA BlockFacts ==
  ASSUME NEW j \in Jobs, NEW k \in 1 .. Len(j.bytes)
  PROVE  /\ BlockOf(j, k).data \in Bytes /\ Len(BlockOf(j, k).data) = 1
         /\ BlockOf(j, k).data[1] = j.bytes[k]
         /\ BlockOf(j, k).number = k /\ (BlockOf(j, k).last <=> k = Len(j.bytes))
<1>1. j.bytes \in Seq(Pieces) /\ Len(j.bytes) \in Nat
  BY DEF Jobs, Bytes
<1>2. /\ SubSeq(j.bytes, k, k) \in Seq(Pieces) /\ Len(SubSeq(j.bytes, k, k)) = 1
      /\ SubSeq(j.bytes, k, k)[1] = j.bytes[k]
  BY <1>1
<1> QED
  BY <1>2 DEF BlockOf, Bytes

\* The call a job of one method stands for has been asked for.
LEMMA CallAsked ==
  ASSUME NEW j \in Jobs, Sound(j), j.svc = "action"
  PROVE  /\ j.target[1] \in Addressable
         /\ [of |-> j.target[1], header |-> <<>>, value |-> j.bytes] \in asked
<1>1. /\ Len(j.target) = 1 /\ j.header = <<>>
      /\ Operations(j.target, j.header, j.bytes) \subseteq asked
  BY DEF Sound
<1>2. j.target \in Seq(Addressable)
  BY DEF Jobs, Targets
<1>3. 1 \in DOMAIN j.target /\ j.target[1] \in Addressable
  BY <1>1, <1>2
<1>4. Values(j.target, j.bytes)[1] = j.bytes
  BY <1>1 DEF Values
<1>5. [of |-> j.target[1], header |-> j.header, value |-> Values(j.target, j.bytes)[1]]
        \in Operations(j.target, j.header, j.bytes)
  BY <1>3 DEF Operations
<1> QED
  BY <1>1, <1>3, <1>4, <1>5

\* What becomes of a job all of which is there.
Does(m, j, buffer) ==
  IF j.svc = "action" THEN InvokeMethod(m, j.target[1], j.bytes, buffer)
  ELSE /\ transfer' = Idle /\ response' = buffer
       /\ WriteAll(j.target, j.header, j.bytes)
       /\ Answer(m, ResultReply(m, Results(j.target)))

\* All of a job is in the buffer: it is carried out as it was asked for.
LEMMA CompleteFacts ==
  ASSUME RepliesInv, StoreInv, PerformedAsAsked,
         NEW m, m.id \in Ids, m.svc \in {"get", "set", "action"},
         NEW t \in Receivings, NEW buffer \in Buffers, NEW j \in Jobs, Sound(j),
         t.svc = j.svc, t.target = j.target, t.list <=> Len(j.target) > 1,
         t.headerEnd = Len(j.header), t.headerEnd + Len(j.bytes) <= Buffer,
         \A i \in 1 .. t.headerEnd : buffer[i] = j.header[i],
         \A i \in 1 .. Len(j.bytes) : buffer[t.headerEnd + i] = j.bytes[i],
         Complete(m, t, buffer, t.headerEnd + Len(j.bytes))
  PROVE  /\ StoreInv' /\ PerformedAsAsked' /\ TransferInv' /\ transfer'.kind # "receiving"
         /\ RepliesInv' /\ Served /\ Does(m, j, buffer)
<1> DEFINE header == SubSeq(buffer, 1, t.headerEnd)
           value == SubSeq(buffer, t.headerEnd + 1, t.headerEnd + Len(j.bytes))
           target == IF t.list THEN [i \in DOMAIN header |-> header[i].of] ELSE t.target
<1>1. /\ j.header \in Seq(Pieces) /\ j.bytes \in Seq(Pieces) /\ j.target \in Seq(Addressable)
      /\ j.svc \in Kinds
  BY DEF Jobs, Bytes, Targets
<1>2. /\ Len(j.bytes) \in Nat \ {0} /\ Len(j.header) \in Nat /\ Buffer \in Nat
      /\ Len(j.target) \in Nat \ {0}
  BY SoundLengths, Bounds
<1>3. t.headerEnd \in Nat
  BY <1>2
<1>4. t.headerEnd + Len(j.bytes) <= Buffer
  OBVIOUS
<1>5. header = j.header
  <2>1. t.headerEnd \in Nat /\ t.headerEnd <= Buffer
    BY <1>2, <1>3, <1>4, RoomFacts
  <2>2. /\ header \in Seq(Pieces \union {NoPiece}) /\ Len(header) = t.headerEnd - 1 + 1
        /\ \A i \in 1 .. t.headerEnd - 1 + 1 : header[i] = buffer[1 + i - 1]
    BY <2>1, PartFacts, SMTT(40)
  <2>3. Len(header) = Len(j.header)
    BY <2>1, <2>2
  <2>4. ASSUME NEW i \in 1 .. Len(j.header)
        PROVE  header[i] = j.header[i]
    <3>1. i \in 1 .. t.headerEnd - 1 + 1 /\ 1 + i - 1 = i
      BY <2>1
    <3> QED
      BY <2>2, <3>1
  <2> HIDE DEF header
  <2> QED
    BY <1>1, <2>2, <2>3, <2>4, SameSequence
<1>6. value = j.bytes
  <2> DEFINE a == t.headerEnd + 1
             b == t.headerEnd + Len(j.bytes)
  <2>1. a \in Nat \ {0} /\ b \in Nat /\ b <= Buffer /\ a <= b + 1 /\ b - a + 1 = Len(j.bytes)
    BY <1>2, <1>3, <1>4, RoomFacts, ZenonT(40)
  <2>2. /\ value \in Seq(Pieces \union {NoPiece}) /\ Len(value) = b - a + 1
        /\ \A i \in 1 .. b - a + 1 : value[i] = buffer[a + i - 1]
    BY <2>1, PartFacts, ZenonT(40)
  <2>3. ASSUME NEW i \in 1 .. Len(j.bytes)
        PROVE  value[i] = j.bytes[i]
    <3>1. a + i - 1 = t.headerEnd + i
      BY <1>2
    <3> QED
      BY <2>1, <2>2, <3>1
  <2> HIDE DEF value, a, b
  <2> QED
    BY <1>1, <2>1, <2>2, <2>3, SameSequence
<1>7. target = j.target
  <2>1. CASE Len(j.target) > 1
    <3>1. target = [i \in DOMAIN j.header |-> j.header[i].of]
      BY <1>5, <2>1
    <3>2. /\ Len(j.header) = Len(j.target)
          /\ \A i \in 1 .. Len(j.target) : j.header[i].of = j.target[i]
      BY <2>1 DEF Sound
    <3>3. DOMAIN j.header = 1 .. Len(j.target) /\ DOMAIN j.target = 1 .. Len(j.target)
      BY <1>1, <3>2
    <3>4. j.target = [i \in 1 .. Len(j.target) |-> j.target[i]]
      BY <1>1
    <3> HIDE DEF target
    <3> QED
      BY <3>1, <3>2, <3>3, <3>4
  <2>2. CASE ~(Len(j.target) > 1)
    BY <2>2
  <2> QED
    BY <2>1, <2>2
<1>8. IF t.svc = "action"
        THEN InvokeMethod(m, target[1], value, buffer)
        ELSE /\ transfer' = Idle
             /\ response' = buffer
             /\ WriteAll(target, header, value)
             /\ Answer(m, ResultReply(m, Results(target)))
  BY DEF Complete
<1> HIDE DEF header, value, target
<1>9. CASE t.svc = "action"
  <2>1. InvokeMethod(m, j.target[1], j.bytes, buffer)
    BY <1>6, <1>7, <1>8, <1>9
  <2>2. /\ j.target[1] \in Addressable
        /\ [of |-> j.target[1], header |-> <<>>, value |-> j.bytes] \in asked
    BY <1>9, CallAsked
  <2>3. Does(m, j, buffer)
    BY <1>9, <2>1 DEF Does
  <2> QED
    BY <2>1, <2>2, <2>3, InvokeFacts
<1>10. CASE t.svc # "action"
  <2>1. /\ transfer' = Idle /\ response' = buffer
        /\ WriteAll(j.target, j.header, j.bytes)
        /\ Answer(m, ResultReply(m, Results(j.target)))
    BY <1>5, <1>6, <1>7, <1>8, <1>10
  <2>2. TransferInv' /\ transfer'.kind # "receiving"
    BY <2>1 DEF TransferInv, Buffers, Idle
  <2>3. RepliesInv' /\ Served
    <3>1. ResultReply(m, Results(j.target)).form # "block"
      BY DEF ResultReply
    <3> QED
      BY <2>1, <3>1, AnswerFacts
  <2>4. StoreInv' /\ PerformedAsAsked'
    BY <2>1, <2>3, WriteFacts
  <2>5. Does(m, j, buffer)
    BY <1>10, <2>1 DEF Does
  <2> QED
    BY <2>2, <2>3, <2>4, <2>5
<1> QED
  BY <1>9, <1>10

\* A block that carries the id of a transfer is a block of its job.
Follows(m, t, j) ==
  m.id = t.id => /\ m.block.number \in 1 .. Len(j.bytes)
                 /\ m.block = BlockOf(j, m.block.number)

\* A block is refused, taken, or the last of its job.
Taken(m, t, j) ==
  \/ /\ transfer' = Idle /\ Answer(m, ErrorReply(m))
     /\ UNCHANGED <<versions, performed>>
  \/ /\ transfer'.kind = "receiving" /\ transfer'.id = t.id /\ transfer'.svc = t.svc
     /\ Answer(m, [svc |-> m.svc, id |-> m.id, form |-> "accepted"])
     /\ UNCHANGED <<versions, performed>>
  \/ m.id = t.id /\ \E buffer \in Buffers : Does(m, j, buffer)

\* continue_blocked_set and continue_blocked_action: the transfer ends, goes on with one more
\* piece of the same job, or carries that job out.
LEMMA TakeBlockFacts ==
  ASSUME RepliesInv, StoreInv, PerformedAsAsked,
         NEW m, m.id \in Ids, m.svc \in {"get", "set", "action"},
         NEW t \in Receivings, NEW buffer \in Buffers, NEW j \in Jobs,
         Holds(t, buffer, j), Follows(m, t, j), TakeBlock(m, t, buffer)
  PROVE  /\ StoreInv' /\ PerformedAsAsked' /\ TransferInv' /\ RepliesInv' /\ Served
         /\ transfer'.kind = "receiving" =>
              transfer'.id = t.id /\ Holds(transfer, response, j)'
         /\ Taken(m, t, j)
<1> DEFINE at == t.headerEnd + t.len
           after == Put(buffer, at, m.block.data)
<1>1. /\ Sound(j) /\ t.svc = j.svc /\ t.target = j.target /\ (t.list <=> Len(j.target) > 1)
      /\ t.headerEnd = Len(j.header) /\ t.block = t.len /\ t.len < Len(j.bytes)
  BY DEF Holds
<1>2. /\ \A i \in 1 .. t.headerEnd : i <= Buffer => buffer[i] = j.header[i]
      /\ \A i \in 1 .. t.len : t.headerEnd + i <= Buffer => buffer[t.headerEnd + i] = j.bytes[i]
  BY DEF Holds
<1>3. t.headerEnd \in Nat /\ t.len \in Nat /\ t.block \in Nat /\ Len(j.bytes) \in Nat /\ Buffer \in Nat
  BY <1>1, SoundLengths, Bounds DEF Receivings
<1>4. CASE ~InOrder(m, t) \/ at + Len(m.block.data) > Buffer
  <2>1. /\ transfer' = Idle /\ response' = buffer /\ Answer(m, ErrorReply(m))
        /\ versions' = versions /\ performed' = performed
    BY <1>4 DEF TakeBlock
  <2>2. RepliesInv' /\ Served
    <3>1. ErrorReply(m).form # "block"
      BY DEF ErrorReply
    <3> QED
      BY <2>1, <3>1, AnswerFacts
  <2>3. StoreInv' /\ PerformedAsAsked'
    BY <2>1, <2>2 DEF Served, clientVars, StoreInv, PerformedAsAsked
  <2>4. TransferInv' /\ transfer'.kind # "receiving"
    BY <2>1 DEF TransferInv, Buffers, Idle
  <2>5. Taken(m, t, j)
    BY <2>1 DEF Taken
  <2> QED
    BY <2>2, <2>3, <2>4, <2>5
<1>5. CASE ~(~InOrder(m, t) \/ at + Len(m.block.data) > Buffer)
  <2>1. m.id = t.id /\ m.block.number = t.len + 1
    BY <1>1, <1>5 DEF InOrder
  <2>2. t.len + 1 \in 1 .. Len(j.bytes)
    BY <1>1, <1>3
  <2>3. m.block = BlockOf(j, t.len + 1)
    BY <2>1 DEF Follows
  <2>4. /\ m.block.data \in Bytes /\ Len(m.block.data) = 1 /\ m.block.data[1] = j.bytes[t.len + 1]
        /\ m.block.last <=> t.len + 1 = Len(j.bytes)
    BY <2>2, <2>3, BlockFacts
  <2>5. at \in Nat /\ at + 1 <= Buffer
    BY <1>3, <1>5, <2>4
  <2>6. /\ after \in Buffers /\ \A i \in 1 .. Buffer : i <= at => after[i] = buffer[i]
        /\ \A k \in 1 .. Len(m.block.data) : at + k <= Buffer => after[at + k] = m.block.data[k]
    <3>1. m.block.data \in Bytes /\ at \in Nat
      BY <2>4, <2>5
    <3> HIDE DEF at
    <3> QED
      BY <3>1, PutFacts
  <2> HIDE DEF after
  <2>7. \A i \in 1 .. t.headerEnd : after[i] = j.header[i]
    <3>1. ASSUME NEW i \in 1 .. t.headerEnd
          PROVE  i \in 1 .. Buffer /\ i <= at /\ i <= Buffer
      BY <1>3, <2>5
    <3> QED
      BY <1>2, <2>6, <3>1
  <2>8. ASSUME NEW i \in 1 .. t.len + 1
        PROVE  after[t.headerEnd + i] = j.bytes[i]
    <3>1. CASE i = t.len + 1
      <4>1. t.headerEnd + i = at + 1 /\ 1 \in 1 .. Len(m.block.data)
        BY <1>3, <2>4, <3>1
      <4>2. after[at + 1] = m.block.data[1]
        BY <2>5, <2>6, <4>1
      <4> QED
        BY <2>4, <3>1, <4>1, <4>2
    <3>2. CASE i # t.len + 1
      <4>1. /\ i \in 1 .. t.len /\ t.headerEnd + i \in 1 .. Buffer /\ t.headerEnd + i <= at
            /\ t.headerEnd + i <= Buffer
        <5>1. i \in 1 .. t.len
          BY <1>3, <3>2
        <5>2. t.headerEnd + i \in 1 .. at
          BY <1>3, <5>1
        <5>3. \A k \in 1 .. at : k <= Buffer /\ k \in 1 .. Buffer
          <6> HIDE DEF at
          <6> QED
            BY <1>3, <2>5
        <5> QED
          BY <5>1, <5>2, <5>3
      <4> QED
        BY <1>2, <2>6, <4>1
    <3> QED
      BY <3>1, <3>2
  <2>9. CASE m.block.last
    <3>1. Len(j.bytes) = t.len + 1
      BY <2>4, <2>9
    <3>2. Complete(m, t, after, at + Len(m.block.data))
      BY <1>5, <2>9 DEF TakeBlock, after
    <3>3. Complete(m, t, after, t.headerEnd + Len(j.bytes)) /\ t.headerEnd + Len(j.bytes) <= Buffer
      <4>1. at + Len(m.block.data) = t.headerEnd + Len(j.bytes) /\ t.headerEnd + Len(j.bytes) <= Buffer
        BY <1>3, <2>4, <2>5, <3>1
      <4> HIDE DEF at
      <4> QED
        BY <3>2, <4>1
    <3>4. \A i \in 1 .. Len(j.bytes) : after[t.headerEnd + i] = j.bytes[i]
      BY <2>8, <3>1
    <3>5. /\ StoreInv' /\ PerformedAsAsked' /\ TransferInv' /\ transfer'.kind # "receiving"
          /\ RepliesInv' /\ Served /\ Does(m, j, after)
      BY <1>1, <2>6, <2>7, <3>3, <3>4, CompleteFacts
    <3>6. Taken(m, t, j)
      BY <2>1, <2>6, <3>5 DEF Taken
    <3> QED
      BY <3>5, <3>6
  <2>10. CASE ~m.block.last
    <3>1. /\ transfer' = [t EXCEPT !.len = @ + Len(m.block.data), !.block = m.block.number]
          /\ response' = after
          /\ Answer(m, [svc |-> m.svc, id |-> m.id, form |-> "accepted"])
          /\ versions' = versions /\ performed' = performed
      BY <1>5, <2>10 DEF TakeBlock, after
    <3>2. RepliesInv' /\ Served
      <4>1. [svc |-> m.svc, id |-> m.id, form |-> "accepted"].form # "block"
        OBVIOUS
      <4> QED
        BY <3>1, <4>1, AnswerFacts
    <3>3. asked' = asked /\ updated' = updated
      BY <3>2 DEF Served, clientVars
    <3>4. StoreInv' /\ PerformedAsAsked'
      BY <3>1, <3>3 DEF StoreInv, PerformedAsAsked
    <3>5. transfer' = [t EXCEPT !.len = t.len + 1, !.block = t.len + 1]
      BY <2>1, <2>4, <3>1 DEF Receivings
    <3>6. /\ transfer' \in Receivings /\ transfer'.len = t.len + 1 /\ transfer'.block = t.len + 1
          /\ transfer'.kind = "receiving" /\ transfer'.id = t.id /\ transfer'.svc = t.svc
          /\ transfer'.list = t.list /\ transfer'.target = t.target
          /\ transfer'.headerEnd = t.headerEnd
      <4>1. t.len + 1 \in Nat
        BY <1>3
      <4> QED
        BY <3>5, <4>1 DEF Receivings
    <3>7. transfer'.headerEnd + transfer'.len <= Buffer
      BY <1>3, <2>5, <3>6
    <3>8. TransferInv'
      BY <2>6, <3>1, <3>6, <3>7 DEF TransferInv, Buffers
    <3>9. t.len + 1 < Len(j.bytes)
      BY <1>1, <1>3, <2>4, <2>10
    <3>10. Holds(transfer, response, j)'
      <4>1. Sound(j)'
        BY <1>1, <3>3 DEF Sound
      <4>2. /\ \A i \in 1 .. t.headerEnd : i <= Buffer => response'[i] = j.header[i]
            /\ \A i \in 1 .. t.len + 1 :
                 t.headerEnd + i <= Buffer => response'[t.headerEnd + i] = j.bytes[i]
        BY <2>7, <2>8, <3>1
      <4> QED
        BY <1>1, <3>6, <3>9, <4>1, <4>2 DEF Holds
    <3>11. Taken(m, t, j)
      BY <3>1, <3>6 DEF Taken
    <3> QED
      BY <3>2, <3>4, <3>6, <3>8, <3>10, <3>11
  <2> QED
    BY <2>9, <2>10
<1> QED
  BY <1>4, <1>5

(***************************************************************************)
(* The server's handlers.                                                  *)
(***************************************************************************)

\* What a handler leaves behind, with the jobs its requests stand for.
Kept(book) ==
  /\ StoreInv' /\ PerformedAsAsked' /\ TransferInv' /\ RepliesInv' /\ Served
  /\ transfer'.kind = "receiving" =>
       InUse(transfer'.id) /\ Holds(transfer, response, book[transfer.id])'

\* A handler that ends or leaves alone what was being received.
LEMMA NotReceiving ==
  ASSUME NEW book, StoreInv', PerformedAsAsked', TransferInv', RepliesInv', Served,
         transfer'.kind # "receiving"
  PROVE  Kept(book)
BY DEF Kept

\* The store is not touched.
LEMMA StoreStands ==
  ASSUME StoreInv, PerformedAsAsked, Served, UNCHANGED <<versions, performed>>
  PROVE  StoreInv' /\ PerformedAsAsked'
BY DEF StoreInv, PerformedAsAsked, Served, clientVars

\* The kinds of transfer there are.
LEMMA TransferKinds ==
  ASSUME TransferInv
  PROVE  /\ response \in Buffers
         /\ transfer.kind = "sending" => SendingOK(transfer, response)
         /\ transfer.kind = "receiving" =>
              transfer \in Receivings /\ transfer.headerEnd + transfer.len <= Buffer
<1>1. response \in Buffers
  BY DEF TransferInv, Buffers
<1>2. ASSUME transfer = Idle
      PROVE  transfer.kind = "idle"
  BY <1>2 DEF Idle
<1>3. ASSUME SendingOK(transfer, response)
      PROVE  transfer.kind = "sending"
  BY <1>3 DEF SendingOK, Sendings
<1>4. ASSUME transfer \in Receivings
      PROVE  transfer.kind = "receiving"
  BY <1>4 DEF Receivings
<1> QED
  BY <1>1, <1>2, <1>3, <1>4 DEF TransferInv

\* handle_get.
LEMMA GetKeeps ==
  ASSUME Shapes, PerformedAsAsked, NEW book \in [Ids -> Jobs], NEW m \in requests,
         InUse(m.id), Fits(m, book[m.id]), HandleGet(m)
  PROVE  Kept(book)
<1>1. /\ m.svc = "get" /\ m.form = "normal" /\ Deliver(m, Current(m.target[1]), response)
      /\ UNCHANGED <<versions, performed>>
  BY DEF HandleGet
<1>2. m.target[1] \in Objects /\ m.id \in Ids
  BY <1>1 DEF Fits, InUse
<1>3. Current(m.target[1]) \in Bytes
  <2>1. versions[m.target[1]] \in Seq(Bytes) /\ versions[m.target[1]] # <<>>
    BY <1>2 DEF Shapes, StoreInv
  <2> QED
    BY <2>1 DEF Current, Last
<1>4. response \in Buffers
  BY TransferKinds DEF Shapes
<1>5. TransferInv' /\ transfer'.kind # "receiving" /\ RepliesInv' /\ Served
  BY <1>1, <1>2, <1>3, <1>4, DeliverFacts DEF Shapes
<1>6. StoreInv' /\ PerformedAsAsked'
  BY <1>1, <1>5, StoreStands DEF Shapes
<1> QED
  BY <1>5, <1>6, NotReceiving

\* What is being received stays as it is.
LEMMA StillHolds ==
  ASSUME NEW book \in [Ids -> Jobs], Booked(book), TransferInv, Served,
         UNCHANGED <<transfer, response>>
  PROVE  /\ TransferInv'
         /\ transfer'.kind = "receiving" =>
              InUse(transfer'.id) /\ Holds(transfer, response, book[transfer.id])'
<1>1. asked' = asked
  BY DEF Served, clientVars
<1>2. TransferInv'
  BY DEF TransferInv
<1>3. ASSUME transfer'.kind = "receiving"
      PROVE  InUse(transfer'.id) /\ Holds(transfer, response, book[transfer.id])'
  BY <1>1, <1>3 DEF Booked, Holds, Sound
<1> QED
  BY <1>2, <1>3

\* handle_get_next and handle_action_next.
LEMMA NextKeeps ==
  ASSUME Shapes, PerformedAsAsked, NEW book \in [Ids -> Jobs], Booked(book), NEW m \in requests,
         HandleNext(m)
  PROVE  Kept(book)
<1>1. UNCHANGED <<versions, performed>> /\ RepliesInv /\ StoreInv /\ TransferInv
  BY DEF HandleNext, Shapes
<1>2. CASE Sending(m.svc) /\ NamesLastBlock(m)
  <2>1. SendNextBlock(m, transfer, response)
    BY <1>2 DEF HandleNext
  <2>2. SendingOK(transfer, response) /\ response \in Buffers
    BY <1>1, <1>2, TransferKinds DEF Sending
  <2>3. TransferInv' /\ transfer'.kind # "receiving" /\ RepliesInv' /\ Served
    BY <1>1, <2>1, <2>2, SendFacts
  <2>4. StoreInv' /\ PerformedAsAsked'
    BY <1>1, <2>3, StoreStands
  <2> QED
    BY <2>3, <2>4, NotReceiving
<1>3. CASE ~(Sending(m.svc) /\ NamesLastBlock(m))
  <2>1. /\ transfer' = IF Sending(m.svc) THEN Idle ELSE transfer
        /\ response' = response /\ Answer(m, ErrorReply(m))
    BY <1>3 DEF HandleNext
  <2>2. ErrorReply(m).form # "block"
    BY DEF ErrorReply
  <2>3. RepliesInv' /\ Served
    BY <1>1, <2>1, <2>2, AnswerFacts
  <2>4. StoreInv' /\ PerformedAsAsked'
    BY <1>1, <2>3, StoreStands
  <2>5. CASE Sending(m.svc)
    <3>1. transfer' = Idle /\ response' = response
      BY <2>1, <2>5
    <3>2. TransferInv' /\ transfer'.kind # "receiving"
      BY <1>1, <3>1 DEF TransferInv, Idle
    <3> QED
      BY <2>3, <2>4, <3>2, NotReceiving
  <2>6. CASE ~Sending(m.svc)
    <3>1. UNCHANGED <<transfer, response>>
      BY <2>1, <2>6
    <3> QED
      BY <1>1, <2>3, <2>4, <3>1, StillHolds DEF Kept
  <2> QED
    BY <2>5, <2>6
<1> QED
  BY <1>2, <1>3

\* handle_set and handle_set_with_list, of a value that came whole.
LEMMA SetKeeps ==
  ASSUME Shapes, PerformedAsAsked, NEW book \in [Ids -> Jobs], NEW m \in requests,
         InUse(m.id), Fits(m, book[m.id]), HandleSet(m)
  PROVE  Kept(book)
<1> DEFINE whole == [svc |-> m.svc, target |-> m.target, header |-> m.header, bytes |-> m.data]
<1>1. /\ m.svc = "set" /\ m.form = "normal" /\ transfer' = Idle /\ response' = response
      /\ WriteAll(m.target, m.header, m.data) /\ Answer(m, ResultReply(m, Results(m.target)))
  BY DEF HandleSet
<1>2. whole \in Jobs /\ Sound(whole)
  BY <1>1 DEF Fits, InUse
<1>3. WriteAll(whole.target, whole.header, whole.bytes)
  BY <1>1
<1> HIDE DEF whole
<1>4. ResultReply(m, Results(m.target)).form # "block"
  BY DEF ResultReply
<1>5. RepliesInv' /\ Served
  BY <1>1, <1>4, AnswerFacts DEF Shapes
<1>6. StoreInv' /\ PerformedAsAsked'
  BY <1>2, <1>3, <1>5, WriteFacts DEF Shapes
<1>7. TransferInv' /\ transfer'.kind # "receiving"
  BY <1>1 DEF Shapes, TransferInv, Idle
<1> QED
  BY <1>5, <1>6, <1>7, NotReceiving

\* handle_action, of a parameter that came whole.
LEMMA ActionKeeps ==
  ASSUME Shapes, PerformedAsAsked, NEW book \in [Ids -> Jobs], NEW m \in requests,
         InUse(m.id), Fits(m, book[m.id]), HandleAction(m)
  PROVE  Kept(book)
<1> DEFINE whole == [svc |-> m.svc, target |-> m.target, header |-> m.header, bytes |-> m.data]
<1>1. /\ m.svc = "action" /\ m.form = "normal"
      /\ InvokeMethod(m, m.target[1], m.data, response)
  BY DEF HandleAction
<1>2. whole \in Jobs /\ Sound(whole) /\ m.id \in Ids
  BY <1>1 DEF Fits, InUse
<1>3. whole.svc = "action" /\ whole.target[1] = m.target[1] /\ whole.bytes = m.data
  BY <1>1
<1> HIDE DEF whole
<1>4. /\ m.target[1] \in Addressable
      /\ [of |-> m.target[1], header |-> <<>>, value |-> m.data] \in asked
  BY <1>2, <1>3, CallAsked
<1>5. response \in Buffers /\ RepliesInv /\ StoreInv /\ m.svc \in {"get", "set", "action"}
  BY <1>1, TransferKinds DEF Shapes
<1>6. /\ StoreInv' /\ PerformedAsAsked' /\ TransferInv' /\ transfer'.kind # "receiving"
      /\ RepliesInv' /\ Served
  BY <1>1, <1>2, <1>4, <1>5, InvokeFacts
<1> QED
  BY <1>6, NotReceiving

\* A write to a single attribute is denied before any of its value is kept.
Denied(m) ==
  /\ m.svc = "set" /\ Len(m.target) = 1 /\ m.target[1] \notin Writable
  /\ transfer' = Idle /\ UNCHANGED <<versions, performed>>
  /\ Answer(m, ResultReply(m, <<FALSE>>))

\* begin_blocked_set, begin_blocked_list_set and action-request-with-first-pblock.
LEMMA FirstBlockKeeps ==
  ASSUME Shapes, PerformedAsAsked, NEW book \in [Ids -> Jobs], NEW m \in requests,
         InUse(m.id), Fits(m, book[m.id]), HandleFirstBlock(m)
  PROVE  /\ Kept(book)
         /\ \/ Denied(m)
            \/ Taken(m, [id |-> m.id, svc |-> m.svc], book[m.id])
<1> DEFINE j == book[m.id]
           t == [kind |-> "receiving", svc |-> m.svc, id |-> m.id,
                 list |-> Len(m.target) > 1, target |-> m.target,
                 headerEnd |-> Len(m.header), len |-> 0, block |-> 0]
           front == Put(response, 0, m.header)
<1>1. response \in Buffers /\ RepliesInv /\ StoreInv /\ m.form = "first"
  BY TransferKinds DEF Shapes, HandleFirstBlock
<1>2. /\ Sound(j) /\ m.svc = j.svc /\ m.target = j.target /\ m.header = j.header
      /\ m.block = BlockOf(j, 1) /\ m.id \in Ids /\ j \in Jobs
  BY <1>1 DEF Fits, InUse
<1>3. CASE m.svc = "set" /\ Len(m.target) = 1 /\ m.target[1] \notin Writable
  <2>1. /\ transfer' = Idle /\ UNCHANGED <<response, versions, performed>>
        /\ Answer(m, ResultReply(m, <<FALSE>>))
    BY <1>3 DEF HandleFirstBlock
  <2>2. ResultReply(m, <<FALSE>>).form # "block"
    BY DEF ResultReply
  <2>3. RepliesInv' /\ Served
    BY <1>1, <2>1, <2>2, AnswerFacts
  <2>4. StoreInv' /\ PerformedAsAsked'
    BY <1>1, <2>1, <2>3, StoreStands
  <2>5. TransferInv' /\ transfer'.kind # "receiving"
    BY <1>1, <2>1 DEF Buffers, TransferInv, Idle
  <2>6. Denied(m)
    BY <1>3, <2>1 DEF Denied
  <2> QED
    BY <2>3, <2>4, <2>5, <2>6, NotReceiving
<1>4. CASE ~(m.svc = "set" /\ Len(m.target) = 1 /\ m.target[1] \notin Writable)
  <2>1. TakeBlock(m, t, front)
    BY <1>4 DEF HandleFirstBlock
  <2>2. /\ j.svc \in Kinds /\ j.target \in Targets /\ j.header \in Bytes /\ j.bytes \in Bytes
        /\ Len(j.header) \in Nat /\ Len(j.bytes) \in Nat \ {0} /\ Len(j.target) \in Nat \ {0}
    <3>1. j.svc \in Kinds /\ j.target \in Targets /\ j.header \in Bytes /\ j.bytes \in Bytes
      BY <1>2 DEF Jobs
    <3> QED
      BY <1>2, <3>1, SoundLengths
  <2> HIDE DEF j
  <2>3. /\ t \in Receivings /\ t.id = m.id /\ t.svc = j.svc /\ t.target = j.target
        /\ (t.list <=> Len(j.target) > 1) /\ t.headerEnd = Len(j.header)
        /\ t.len = 0 /\ t.block = 0
    <3>1. /\ m.svc = j.svc /\ m.target = j.target /\ m.header = j.header /\ m.id \in Ids
          /\ Len(m.header) \in Nat /\ m.target \in Targets /\ m.svc \in Kinds
      BY <1>2, <2>2
    <3>2. (Len(m.target) > 1) \in BOOLEAN
      OBVIOUS
    <3>3. t \in Receivings
      BY <3>1, <3>2 DEF Receivings
    <3> QED
      BY <3>1, <3>3
  <2>4. /\ front \in Buffers
        /\ \A k \in 1 .. Len(j.header) : 0 + k <= Buffer => front[0 + k] = j.header[k]
    <3>1. m.header \in Bytes /\ m.header = j.header /\ 0 \in Nat
      BY <1>2, <2>2
    <3>2. /\ front \in Buffers
          /\ \A k \in 1 .. Len(m.header) : 0 + k <= Buffer => front[0 + k] = m.header[k]
      BY <1>1, <3>1, PutFacts
    <3> QED
      BY <3>1, <3>2
  <2> HIDE DEF t, front
  <2>5. Holds(t, front, j)
    <3>1. \A i \in 1 .. t.headerEnd : i <= Buffer => front[i] = j.header[i]
      BY <2>2, <2>3, <2>4
    <3>2. 0 < Len(j.bytes)
      BY <2>2
    <3> QED
      BY <1>2, <2>3, <3>1, <3>2 DEF Holds
  <2>6. Follows(m, t, j)
    <3>1. 1 \in 1 .. Len(j.bytes) /\ BlockOf(j, 1).number = 1
      BY <2>2 DEF BlockOf
    <3> QED
      BY <1>2, <3>1 DEF Follows
  <2>7. m.svc \in {"get", "set", "action"} /\ j \in Jobs /\ m.id \in Ids
    BY <1>2, <2>2 DEF Kinds
  <2>8. /\ StoreInv' /\ PerformedAsAsked' /\ TransferInv' /\ RepliesInv' /\ Served
        /\ transfer'.kind = "receiving" =>
             transfer'.id = t.id /\ Holds(transfer, response, j)'
        /\ Taken(m, t, j)
    BY <1>1, <2>1, <2>3, <2>4, <2>5, <2>6, <2>7, TakeBlockFacts
  <2>9. Taken(m, [id |-> m.id, svc |-> m.svc], j)
    BY <1>2, <2>3, <2>8 DEF Taken
  <2> QED
    BY <2>3, <2>8, <2>9 DEF Kept, j
<1> QED
  BY <1>3, <1>4

\* continue_blocked_set and continue_blocked_action.
LEMMA BlockKeeps ==
  ASSUME Shapes, PerformedAsAsked, NEW book \in [Ids -> Jobs], Booked(book), NEW m \in requests,
         InUse(m.id), Fits(m, book[m.id]), HandleBlock(m)
  PROVE  /\ Kept(book)
         /\ \/ /\ transfer.kind = "receiving" /\ transfer.svc = m.svc
               /\ Taken(m, transfer, book[transfer.id])
            \/ /\ Answer(m, ErrorReply(m))
               /\ UNCHANGED <<transfer, response, versions, performed>>
<1>1. RepliesInv /\ StoreInv /\ TransferInv /\ m.form = "block"
  BY DEF Shapes, HandleBlock
<1>2. CASE transfer.kind = "receiving" /\ transfer.svc = m.svc
  <2>1. TakeBlock(m, transfer, response)
    BY <1>2 DEF HandleBlock
  <2>2. response \in Buffers /\ transfer \in Receivings
    BY <1>1, <1>2, TransferKinds
  <2>3. InUse(transfer.id) /\ Holds(transfer, response, book[transfer.id])
    BY <1>2 DEF Booked
  <2>4. PICK i \in Ids : i = transfer.id
    BY <2>3 DEF InUse
  <2>5. PICK j \in Jobs : j = book[i]
    OBVIOUS
  <2>6. m.id \in Ids /\ m.svc \in {"get", "set", "action"}
    BY DEF InUse, Fits
  <2>7. Holds(transfer, response, j)
    BY <2>3, <2>4, <2>5
  <2>8. Follows(m, transfer, j)
    BY <1>1, <2>4, <2>5 DEF Follows, Fits
  <2>9. PICK t \in Receivings : t = transfer
    BY <2>2
  <2>10. PICK buffer \in Buffers : buffer = response
    BY <2>2
  <2>11. TakeBlock(m, t, buffer) /\ Holds(t, buffer, j) /\ Follows(m, t, j)
    BY <2>1, <2>7, <2>8, <2>9, <2>10
  <2>12. /\ StoreInv' /\ PerformedAsAsked' /\ TransferInv' /\ RepliesInv' /\ Served
         /\ transfer'.kind = "receiving" =>
              transfer'.id = t.id /\ Holds(transfer, response, j)'
         /\ Taken(m, t, j)
    BY <1>1, <2>6, <2>11, TakeBlockFacts
  <2>13. ASSUME transfer'.kind = "receiving"
         PROVE  InUse(transfer'.id) /\ Holds(transfer, response, book[transfer.id])'
    <3>1. transfer'.id = transfer.id /\ book[transfer'.id] = j
      BY <2>4, <2>5, <2>9, <2>12, <2>13
    <3> QED
      BY <2>3, <2>12, <2>13, <3>1
  <2>14. Taken(m, transfer, book[transfer.id])
    BY <2>4, <2>5, <2>9, <2>12
  <2> QED
    BY <1>2, <2>12, <2>13, <2>14 DEF Kept
<1>3. CASE ~(transfer.kind = "receiving" /\ transfer.svc = m.svc)
  <2>1. Answer(m, ErrorReply(m)) /\ UNCHANGED <<transfer, response, versions, performed>>
    BY <1>3 DEF HandleBlock
  <2>2. ErrorReply(m).form # "block"
    BY DEF ErrorReply
  <2>3. RepliesInv' /\ Served
    BY <1>1, <2>1, <2>2, AnswerFacts
  <2>4. StoreInv' /\ PerformedAsAsked'
    BY <1>1, <2>1, <2>3, StoreStands
  <2> QED
    BY <1>1, <2>1, <2>3, <2>4, StillHolds DEF Kept
<1> QED
  BY <1>2, <1>3

\* Server::handle.
LEMMA HandleKeeps ==
  ASSUME Shapes, PerformedAsAsked, NEW book \in [Ids -> Jobs], Booked(book), Handle
  PROVE  Shapes' /\ PerformedAsAsked' /\ Booked(book)'
<1>1. PICK m \in requests :
        \/ HandleGet(m) \/ HandleNext(m) \/ HandleSet(m) \/ HandleAction(m)
        \/ HandleFirstBlock(m) \/ HandleBlock(m)
  BY DEF Handle
<1>2. InUse(m.id) /\ Fits(m, book[m.id])
  BY DEF Booked
<1>3. Kept(book)
  BY <1>1, <1>2, GetKeeps, NextKeeps, SetKeeps, ActionKeeps, FirstBlockKeeps, BlockKeeps
<1>4. /\ StoreInv' /\ PerformedAsAsked' /\ TransferInv' /\ RepliesInv'
      /\ transfer'.kind = "receiving" =>
           InUse(transfer'.id) /\ Holds(transfer, response, book[transfer.id])'
  BY <1>3 DEF Kept
<1>5. /\ requests' \subseteq requests /\ asked' = asked /\ op' = op /\ outstanding' = outstanding
      /\ started' = started /\ invokeId' = invokeId /\ agreed' = agreed /\ caller' = caller
  BY <1>3 DEF Kept, Served, clientVars, fixed
<1>6. IdInv' /\ OpInv'
  BY <1>5 DEF Shapes, IdInv, OpInv, InUse
<1>7. Shapes'
  BY <1>4, <1>5, <1>6 DEF Shapes
<1>8. \A n \in requests' : (InUse(n.id) /\ Fits(n, book[n.id]))'
  <2> SUFFICES ASSUME NEW n \in requests'
               PROVE  (InUse(n.id) /\ Fits(n, book[n.id]))'
    OBVIOUS
  <2>1. InUse(n.id) /\ Fits(n, book[n.id])
    BY <1>5 DEF Booked
  <2>2. \A j : Sound(j)' <=> Sound(j)
    BY <1>5 DEF Sound
  <2>3. InUse(n.id)'
    BY <1>5, <2>1 DEF InUse
  <2>4. Fits(n, book[n.id])'
    BY <2>1, <2>2 DEF Fits
  <2> QED
    BY <2>3, <2>4
<1>9. (op # NoOp /\ op.svc # "get" => IsJob(op, book[outstanding]))'
  BY <1>5 DEF Booked, IsJob, Sound
<1>10. (transfer.kind = "receiving" =>
          InUse(transfer.id) /\ Holds(transfer, response, book[transfer.id]))'
  BY <1>4, <1>5 DEF InUse
<1>11. Booked(book)'
  BY <1>8, <1>9, <1>10 DEF Booked
<1> QED
  BY <1>4, <1>7, <1>11

(***************************************************************************)
(* The client's steps.                                                     *)
(***************************************************************************)

\* The masks a next_invoke_id may meet before the ids come round.
LEMMA Remainders ==
  ASSUME NEW k \in Nat \ {0}, NEW n \in Nat, n <= k
  PROVE  n % k = IF n = k THEN 0 ELSE n
<1>1. CASE n = k
  BY <1>1
<1>2. CASE n < k
  BY <1>2
<1> QED
  BY <1>1, <1>2

\* next_invoke_id gives an id no invocation has had.
LEMMA NextIdFacts ==
  ASSUME NoWrap, IdInv, started < Requests, started' = started + 1
  PROVE  /\ NextInvokeId \in Ids /\ ~InUse(NextInvokeId)
         /\ NextInvokeId = IF started' = IdMod THEN 0 ELSE started'
         /\ \A i : InUse(i) \/ i = NextInvokeId => InUse(i)'
<1>1. /\ started \in Nat /\ started + 1 <= IdMod /\ invokeId = started /\ IdMod \in Nat \ {0}
      /\ started' = started + 1
  BY Bounds DEF NoWrap, IdInv
<1>2. NextInvokeId = IF started + 1 = IdMod THEN 0 ELSE started + 1
  <2>1. started + 1 \in Nat
    BY <1>1
  <2>2. (started + 1) % IdMod = IF started + 1 = IdMod THEN 0 ELSE started + 1
    BY <1>1, <2>1, Remainders
  <2> QED
    BY <1>1, <2>2 DEF NextInvokeId
<1>3. NextInvokeId \in Ids
  BY <1>1, <1>2 DEF Ids
<1>4. ~InUse(NextInvokeId)
  BY <1>1, <1>2 DEF InUse
<1>5. ASSUME NEW i, InUse(i) \/ i = NextInvokeId
      PROVE  InUse(i)'
  <2>1. CASE InUse(i)
    BY <1>1, <2>1 DEF InUse, Ids
  <2>2. CASE i = NextInvokeId
    BY <1>1, <1>2, <1>3, <2>2 DEF InUse
  <2> QED
    BY <1>5, <2>1, <2>2
<1> QED
  BY <1>1, <1>2, <1>3, <1>4, <1>5

\* What was asked for stays asked for.
LEMMA SoundGrows ==
  ASSUME NEW j, Sound(j), asked \subseteq asked'
  PROVE  Sound(j)'
BY DEF Sound

\* A request stands for its job as long as that has been asked for.
LEMMA FitsGrows ==
  ASSUME NEW m, NEW j, Fits(m, j), asked \subseteq asked'
  PROVE  Fits(m, j)'
<1>1. \A k : Sound(k) => Sound(k)'
  BY DEF Sound
<1> QED
  BY <1>1 DEF Fits

\* What is being received stays as it is while the caller does something.
LEMMA HoldsGrows ==
  ASSUME NEW j, Holds(transfer, response, j), asked \subseteq asked', UNCHANGED <<transfer, response>>
  PROVE  Holds(transfer, response, j)'
<1>1. Sound(j)'
  BY SoundGrows DEF Holds
<1> QED
  BY <1>1 DEF Holds

\* What the server keeps is not the caller's to change.
LEMMA ServerStands ==
  ASSUME Shapes, PerformedAsAsked, asked \subseteq asked', UNCHANGED <<fixed, serverVars>>
  PROVE  /\ agreed' \in BlocksAgreed /\ caller' \in Callers
         /\ StoreInv' /\ TransferInv' /\ PerformedAsAsked'
<1>1. /\ versions' = versions /\ updated' = updated /\ performed' = performed
      /\ transfer' = transfer /\ response' = response
      /\ agreed' = agreed /\ caller' = caller
  BY DEF serverVars, storeVars, fixed
<1>2. StoreInv'
  BY <1>1 DEF Shapes, StoreInv
<1>3. TransferInv'
  BY <1>1 DEF Shapes, TransferInv
<1>4. PerformedAsAsked'
  BY <1>1 DEF PerformedAsAsked
<1> QED
  BY <1>1, <1>2, <1>3, <1>4 DEF Shapes

\* What a step of the caller or the meter leaves behind: at most one new entry in the book.
Continued(book) ==
  /\ Shapes' /\ PerformedAsAsked'
  /\ \E new \in [Ids -> Jobs] : Booked(new)' /\ \A i : InUse(i) => new[i] = book[i]

\* A request under a fresh id, for which a job is entered in the book.
LEMMA StartKeeps ==
  ASSUME NoWrap, Shapes, PerformedAsAsked, NEW book \in [Ids -> Jobs], Booked(book),
         NEW id \in Ids, id = NextInvokeId, NEW message, message.id = id, NEW job \in Jobs,
         started < Requests, started' = started + 1, invokeId' = NextInvokeId,
         outstanding' = NextInvokeId, requests' = requests \union {message},
         asked \subseteq asked', UNCHANGED <<fixed, serverVars, responses>>,
         OpInv', Fits(message, job)',
         op' # NoOp /\ op'.svc # "get" => IsJob(op, job)'
  PROVE  Continued(book)
<1> DEFINE new == [book EXCEPT ![id] = job]
<1>1. /\ id \in Ids /\ ~InUse(id) /\ id = IF started' = IdMod THEN 0 ELSE started'
      /\ \A i : InUse(i) \/ i = id => InUse(i)'
  BY NextIdFacts DEF Shapes
<1>2. new \in [Ids -> Jobs] /\ new[id] = job /\ \A i \in Ids : i # id => new[i] = book[i]
  OBVIOUS
<1> HIDE DEF new
<1>3. transfer' = transfer /\ response' = response
  BY DEF serverVars
<1>4. \A i : InUse(i) => /\ i \in Ids /\ InUse(i)' /\ new[i] = book[i]
  BY <1>1, <1>2 DEF InUse
<1>5. IdInv'
  <2>1. started' \in 0 .. Requests
    BY Bounds DEF Shapes, IdInv
  <2>2. invokeId' = IF started' = IdMod THEN 0 ELSE started'
    BY <1>1
  <2>3. outstanding' = id /\ InUse(id)'
    BY <1>1
  <2>4. InUse(outstanding)'
    BY <2>3 DEF InUse
  <2> QED
    BY <2>1, <2>2, <2>3, <2>4 DEF IdInv
<1>6. RepliesInv'
  BY DEF Shapes, RepliesInv
<1>7. Shapes' /\ PerformedAsAsked'
  BY <1>5, <1>6, ServerStands DEF Shapes
<1>8. ASSUME NEW m \in requests'
      PROVE  (InUse(m.id) /\ Fits(m, new[m.id]))'
  <2>1. CASE m = message
    BY <1>1, <1>2, <2>1
  <2>2. CASE m \in requests
    <3>1. InUse(m.id) /\ Fits(m, book[m.id])
      BY <2>2 DEF Booked
    <3>2. InUse(m.id)' /\ new[m.id] = book[m.id]
      BY <1>4, <3>1
    <3> QED
      BY <3>1, <3>2, FitsGrows
  <2> QED
    BY <1>8, <2>1, <2>2
<1>9. (op # NoOp /\ op.svc # "get" => IsJob(op, new[outstanding]))'
  BY <1>2
<1>10. ASSUME transfer'.kind = "receiving"
       PROVE  (InUse(transfer.id) /\ Holds(transfer, response, new[transfer.id]))'
  <2>1. InUse(transfer.id) /\ Holds(transfer, response, book[transfer.id])
    BY <1>3, <1>10 DEF Booked
  <2>2. PICK i \in Ids : i = transfer.id
    BY <2>1 DEF InUse
  <2>3. InUse(i)' /\ new[i] = book[i] /\ transfer'.id = i
    BY <1>3, <1>4, <2>1, <2>2
  <2>4. Holds(transfer, response, book[i])'
    BY <1>3, <2>1, <2>2, HoldsGrows
  <2> QED
    BY <2>3, <2>4 DEF InUse
<1>11. Booked(new)'
  BY <1>8, <1>9, <1>10 DEF Booked
<1> QED
  BY <1>2, <1>4, <1>7, <1>11 DEF Continued

\* A step of the invocation there is.
LEMMA ContinueKeeps ==
  ASSUME Shapes, PerformedAsAsked, NEW book \in [Ids -> Jobs], Booked(book),
         UNCHANGED <<fixed, invokeId, outstanding, started, asked, serverVars>>,
         \A m \in requests' : m \in requests \/ (InUse(m.id) /\ Fits(m, book[m.id])),
         RepliesInv', OpInv', op' # NoOp => op # NoOp,
         op' # NoOp /\ op'.svc # "get" => IsJob(op, book[outstanding])'
  PROVE  Continued(book)
<1>1. /\ started' = started /\ invokeId' = invokeId /\ outstanding' = outstanding
      /\ asked' = asked /\ transfer' = transfer /\ response' = response
  BY DEF serverVars
<1>2. \A i : InUse(i) => InUse(i)'
  BY <1>1 DEF InUse
<1>3. IdInv'
  BY <1>1 DEF Shapes, IdInv, InUse
<1>4. Shapes' /\ PerformedAsAsked'
  BY <1>1, <1>3, ServerStands DEF Shapes
<1>5. ASSUME NEW m \in requests'
      PROVE  (InUse(m.id) /\ Fits(m, book[m.id]))'
  <2>1. InUse(m.id) /\ Fits(m, book[m.id])
    BY DEF Booked
  <2> QED
    BY <1>1, <1>2, <2>1, FitsGrows
<1>6. ASSUME transfer'.kind = "receiving"
      PROVE  (InUse(transfer.id) /\ Holds(transfer, response, book[transfer.id]))'
  <2>1. InUse(transfer.id) /\ Holds(transfer, response, book[transfer.id])
    BY <1>1, <1>6 DEF Booked
  <2>2. PICK i \in Ids : i = transfer.id
    BY <2>1 DEF InUse
  <2>3. InUse(i)' /\ transfer'.id = i
    BY <1>1, <1>2, <2>1, <2>2
  <2>4. Holds(transfer, response, book[i])'
    BY <1>1, <2>1, <2>2, HoldsGrows
  <2> QED
    BY <2>3, <2>4 DEF InUse
<1>7. Booked(book)'
  BY <1>5, <1>6 DEF Booked
<1> QED
  BY <1>4, <1>7 DEF Continued

\* An invocation before anything of it is sent.
LEMMA OpFacts ==
  ASSUME Shapes, NEW svc \in {"get", "set", "action"}, NEW target \in Targets,
         NEW header \in Bytes, NEW bytes \in Bytes, svc = "get" => target[1] \in Objects
  PROVE  /\ Op(svc, target, header, bytes) \in Ops
         /\ Op(svc, target, header, bytes).svc = svc
         /\ Op(svc, target, header, bytes).target = target
         /\ Op(svc, target, header, bytes).header = header
         /\ Op(svc, target, header, bytes).bytes = bytes
         /\ Op(svc, target, header, bytes).sent = 0
         /\ Op(svc, target, header, bytes).block = 0
<1> DEFINE since == IF svc = "get" THEN Len(versions[target[1]]) ELSE 0
<1>1. Tag \in Nat
  BY Bounds DEF Tag, Shapes, IdInv
<1>2. since \in Nat
  <2>1. svc = "get" => versions[target[1]] \in Seq(Bytes)
    BY DEF Shapes, StoreInv
  <2> QED
    BY <2>1
<1>3. <<>> \in Bytes
  BY DEF Bytes
<1> HIDE DEF since
<1>4. Op(svc, target, header, bytes) =
        [n |-> Tag, svc |-> svc, target |-> target, header |-> header, bytes |-> bytes,
         sent |-> 0, block |-> 0, lastBlock |-> 0, got |-> <<>>, ok |-> FALSE,
         ready |-> FALSE, aside |-> FALSE, since |-> since]
  BY DEF Op, since
<1> QED
  BY <1>1, <1>2, <1>3, <1>4 DEF Ops

\* next_block_request: block after block of the job.
LEMMA NextBlockFacts ==
  ASSUME NEW o \in Ops, o.sent = o.block, o.sent < Len(o.bytes)
  PROVE  /\ NextBlock(o) = [number |-> o.block + 1, last |-> o.block + 1 = Len(o.bytes),
                            data |-> SubSeq(o.bytes, o.block + 1, o.block + 1)]
         /\ o.block + 1 \in 1 .. Len(o.bytes)
         /\ AfterNextBlock(o) \in Ops
         /\ AfterNextBlock(o).svc = o.svc /\ AfterNextBlock(o).target = o.target
         /\ AfterNextBlock(o).header = o.header /\ AfterNextBlock(o).bytes = o.bytes
         /\ AfterNextBlock(o).sent = o.sent + 1 /\ AfterNextBlock(o).block = o.block + 1
<1>1. o.sent \in Nat /\ o.block \in Nat /\ o.bytes \in Bytes
  BY DEF Ops
<1>2. Len(o.bytes) \in Nat
  BY <1>1 DEF Bytes
<1>3. BlockEnd(o) = o.sent + 1
  <2>1. ASSUME NEW s \in Nat, NEW l \in Nat, s < l
        PROVE  (IF s + 1 < l THEN s + 1 ELSE l) = s + 1
    BY <2>1
  <2> QED
    BY <1>1, <1>2, <2>1 DEF BlockEnd
<1>4. o.block + 1 \in 1 .. Len(o.bytes)
  <2>1. ASSUME NEW s \in Nat, NEW l \in Nat, s < l
        PROVE  s + 1 \in 1 .. l
    BY <2>1
  <2> QED
    BY <1>1, <1>2, <2>1
<1>5. NextBlock(o) = [number |-> o.block + 1, last |-> o.block + 1 = Len(o.bytes),
                      data |-> SubSeq(o.bytes, o.block + 1, o.block + 1)]
  BY <1>3 DEF NextBlock
<1>6. AfterNextBlock(o) = [o EXCEPT !.sent = o.sent + 1, !.block = o.block + 1, !.ready = FALSE]
  BY <1>3 DEF AfterNextBlock, Ops
<1>7. o.sent + 1 \in Nat /\ o.block + 1 \in Nat
  BY <1>1
<1> QED
  BY <1>4, <1>5, <1>6, <1>7 DEF Ops

\* The shape of a job.
Proper(j) ==
  /\ Len(j.target) > 0 /\ Len(j.bytes) > 0
  /\ j.svc = "action" => Len(j.target) = 1 /\ j.header = <<>> /\ j.target[1] \in Methods
  /\ j.svc = "set" => \A i \in 1 .. Len(j.target) : j.target[i] \in Objects
  /\ Len(j.target) > 1 => /\ Len(j.header) = Len(j.target) /\ Len(j.bytes) = Len(j.target)
                          /\ \A i \in 1 .. Len(j.target) : j.header[i].of = j.target[i]

\* Asking for a job makes it one that has been asked for.
LEMMA Asking ==
  ASSUME NEW j \in Jobs, Proper(j), NEW o \in Ops, o.svc = j.svc, o.target = j.target,
         o.header = j.header, o.bytes = j.bytes, NEW message, Invoke(o, message)
  PROVE  Sound(j)' /\ asked \subseteq asked'
<1>1. j.svc # "get"
  BY DEF Jobs, Kinds
<1>2. asked' = asked \union Operations(j.target, j.header, j.bytes)
  BY <1>1 DEF Invoke
<1> QED
  BY <1>2 DEF Sound, Proper

\* Any invocation of a job, with the request that starts it.
LEMMA InvokeKeeps ==
  ASSUME NoWrap, Shapes, PerformedAsAsked, NEW book \in [Ids -> Jobs], Booked(book),
         NEW j \in Jobs, Proper(j), NEW o \in Ops, o.svc = j.svc, o.target = j.target,
         o.header = j.header, o.bytes = j.bytes, o.sent <= Len(o.bytes),
         o.sent = o.block \/ o.sent = Len(o.bytes),
         NEW message, message.id = NextInvokeId, Invoke(o, message),
         Sound(j)' => Fits(message, j)'
  PROVE  Continued(book)
<1>1. Sound(j)' /\ asked \subseteq asked'
  BY Asking
<1>2. /\ started < Requests /\ started' = started + 1 /\ invokeId' = NextInvokeId
      /\ outstanding' = NextInvokeId /\ op' = o /\ requests' = requests \union {message}
      /\ UNCHANGED <<fixed, serverVars, responses>>
  BY DEF Invoke
<1>3. o.svc # "get"
  BY DEF Jobs, Kinds
<1>4. OpInv'
  BY <1>2, <1>3 DEF OpInv
<1>5. IsJob(op, j)'
  BY <1>1, <1>2 DEF IsJob
<1>6. PICK id \in Ids : id = NextInvokeId
  BY <1>2, NextIdFacts DEF Shapes
<1> QED
  BY <1>1, <1>2, <1>4, <1>5, <1>6, StartKeeps

\* set_request, set_request_with_list and action_request.
LEMMA WholeKeeps ==
  ASSUME NoWrap, Shapes, PerformedAsAsked, NEW book \in [Ids -> Jobs], Booked(book),
         NEW j \in Jobs, Proper(j), WholeRequest(j.svc, j.target, j.header, j.bytes)
  PROVE  Continued(book)
<1> DEFINE first == Op(j.svc, j.target, j.header, j.bytes)
<1>1. /\ j.svc \in {"get", "set", "action"} /\ j.svc # "get" /\ j.target \in Targets
      /\ j.header \in Bytes /\ j.bytes \in Bytes /\ Len(j.bytes) \in Nat
  BY DEF Jobs, Kinds, Bytes
<1>2. /\ first \in Ops /\ first.svc = j.svc /\ first.target = j.target
      /\ first.header = j.header /\ first.bytes = j.bytes
  BY <1>1, OpFacts
<1>3. PICK id : id = NextInvokeId
  OBVIOUS
<1> DEFINE message == [svc |-> j.svc, form |-> "normal", id |-> id, target |-> j.target,
                       header |-> j.header, data |-> j.bytes]
<1>4. Invoke([first EXCEPT !.sent = Len(j.bytes), !.block = 1], message)
  BY <1>3 DEF WholeRequest
<1> HIDE DEF first
<1>5. PICK o \in Ops : o = [first EXCEPT !.sent = Len(j.bytes), !.block = 1]
  BY <1>1, <1>2 DEF Ops
<1>6. /\ o.svc = j.svc /\ o.target = j.target /\ o.header = j.header /\ o.bytes = j.bytes
      /\ o.sent = Len(j.bytes)
  BY <1>2, <1>5 DEF Ops
<1>7. Invoke(o, message) /\ message.id = NextInvokeId
  BY <1>3, <1>4, <1>5
<1>8. ASSUME Sound(j)'
      PROVE  Fits(message, j)'
  <2>1. j = [svc |-> message.svc, target |-> message.target,
             header |-> message.header, bytes |-> message.data]
    BY DEF Jobs
  <2>2. message.form = "normal" /\ message.svc = j.svc
    OBVIOUS
  <2> HIDE DEF message
  <2> QED
    BY <1>1, <1>8, <2>1, <2>2 DEF Fits
<1> HIDE DEF message
<1>9. o.sent <= Len(o.bytes) /\ (o.sent = o.block \/ o.sent = Len(o.bytes))
  BY <1>1, <1>6
<1> QED
  BY <1>6, <1>7, <1>8, <1>9, InvokeKeeps

\* set_transfer, set_transfer_with_list and action_transfer, with the first block.
LEMMA FirstKeeps ==
  ASSUME NoWrap, Shapes, PerformedAsAsked, NEW book \in [Ids -> Jobs], Booked(book),
         NEW j \in Jobs, Proper(j), FirstBlockRequest(j.svc, j.target, j.header, j.bytes)
  PROVE  Continued(book)
<1> DEFINE first == Op(j.svc, j.target, j.header, j.bytes)
<1>1. /\ j.svc \in {"get", "set", "action"} /\ j.svc # "get" /\ j.target \in Targets
      /\ j.header \in Bytes /\ j.bytes \in Bytes /\ Len(j.bytes) \in Nat
  BY DEF Jobs, Kinds, Bytes
<1>2. /\ first \in Ops /\ first.svc = j.svc /\ first.target = j.target
      /\ first.header = j.header /\ first.bytes = j.bytes /\ first.sent = 0 /\ first.block = 0
  BY <1>1, OpFacts
<1>3. 0 < Len(j.bytes)
  BY <1>1 DEF Proper
<1>4. PICK id : id = NextInvokeId
  OBVIOUS
<1> DEFINE message == [svc |-> j.svc, form |-> "first", id |-> id, target |-> j.target,
                       header |-> j.header, block |-> BlockOf(j, 1)]
<1>5. Invoke(AfterNextBlock(first),
             [svc |-> j.svc, form |-> "first", id |-> id, target |-> j.target,
              header |-> j.header, block |-> NextBlock(first)])
  BY <1>4 DEF FirstBlockRequest
<1> HIDE DEF first
<1>6. /\ NextBlock(first) = [number |-> 0 + 1, last |-> 0 + 1 = Len(j.bytes),
                             data |-> SubSeq(j.bytes, 0 + 1, 0 + 1)]
      /\ AfterNextBlock(first) \in Ops
      /\ AfterNextBlock(first).svc = j.svc /\ AfterNextBlock(first).target = j.target
      /\ AfterNextBlock(first).header = j.header /\ AfterNextBlock(first).bytes = j.bytes
      /\ AfterNextBlock(first).sent = 0 + 1 /\ AfterNextBlock(first).block = 0 + 1
  BY <1>2, <1>3, NextBlockFacts
<1>7. NextBlock(first) = BlockOf(j, 1)
  <2>1. 0 + 1 = 1
    OBVIOUS
  <2> QED
    BY <1>6, <2>1 DEF BlockOf
<1>8. PICK o \in Ops : o = AfterNextBlock(first)
  BY <1>6
<1>9. /\ o.svc = j.svc /\ o.target = j.target /\ o.header = j.header /\ o.bytes = j.bytes
      /\ o.sent = 0 + 1 /\ o.block = 0 + 1
  BY <1>6, <1>8
<1>10. Invoke(o, message) /\ message.id = NextInvokeId
  BY <1>4, <1>5, <1>7, <1>8
<1>11. ASSUME Sound(j)'
       PROVE  Fits(message, j)'
  <2>1. /\ message.form = "first" /\ message.svc = j.svc /\ message.target = j.target
        /\ message.header = j.header /\ message.block = BlockOf(j, 1)
    OBVIOUS
  <2> HIDE DEF message
  <2> QED
    BY <1>1, <1>11, <2>1 DEF Fits
<1> HIDE DEF message
<1>12. o.sent <= Len(o.bytes) /\ o.sent = o.block
  BY <1>1, <1>3, <1>9
<1> QED
  BY <1>9, <1>10, <1>11, <1>12, InvokeKeeps

\* A value goes whole or in blocks.
LEMMA ValueKeeps ==
  ASSUME NoWrap, Shapes, PerformedAsAsked, NEW book \in [Ids -> Jobs], Booked(book),
         NEW j \in Jobs, Proper(j), ValueRequest(j.svc, j.target, j.header, j.bytes)
  PROVE  Continued(book)
BY WholeKeeps, FirstKeeps DEF ValueRequest

\* get_request.
LEMMA GetRequestKeeps ==
  ASSUME NoWrap, Shapes, PerformedAsAsked, NEW book \in [Ids -> Jobs], Booked(book), GetRequest
  PROVE  Continued(book)
<1>1. PICK x \in Objects :
        Invoke(Op("get", <<x>>, <<>>, <<>>),
               [svc |-> "get", form |-> "normal", id |-> NextInvokeId, target |-> <<x>>])
  BY DEF GetRequest
<1>2. <<x>> \in Targets /\ <<>> \in Bytes /\ <<x>>[1] = x
  BY DEF Targets, Addressable, Bytes
<1>3. /\ Op("get", <<x>>, <<>>, <<>>) \in Ops /\ Op("get", <<x>>, <<>>, <<>>).svc = "get"
      /\ Op("get", <<x>>, <<>>, <<>>).bytes = <<>> /\ Op("get", <<x>>, <<>>, <<>>).sent = 0
      /\ Op("get", <<x>>, <<>>, <<>>).block = 0
  BY <1>2, OpFacts
<1>4. PICK o \in Ops : o = Op("get", <<x>>, <<>>, <<>>)
  BY <1>3
<1>5. started < Requests /\ started' = started + 1
  BY <1>1 DEF Invoke
<1>6. PICK id \in Ids : id = NextInvokeId
  BY <1>5, NextIdFacts DEF Shapes
<1> DEFINE message == [svc |-> "get", form |-> "normal", id |-> id, target |-> <<x>>]
<1>7. Invoke(o, message)
  BY <1>1, <1>4, <1>6
<1>8. o.svc = "get" /\ o.sent = 0 /\ o.block = 0 /\ o.bytes = <<>>
  BY <1>3, <1>4
<1>9. /\ started < Requests /\ started' = started + 1 /\ invokeId' = NextInvokeId
      /\ outstanding' = NextInvokeId /\ op' = o /\ requests' = requests \union {message}
      /\ UNCHANGED <<fixed, serverVars, responses>> /\ asked \subseteq asked'
  BY <1>7, <1>8 DEF Invoke
<1>10. OpInv'
  BY <1>8, <1>9 DEF OpInv
<1>11. PICK j \in Jobs : j = book[id]
  OBVIOUS
<1>12. Fits(message, j)' /\ message.id = id
  <2>1. /\ message.form = "normal" /\ message.svc = "get" /\ message.target[1] = x
        /\ message.id = id
    OBVIOUS
  <2> HIDE DEF message
  <2> QED
    BY <2>1 DEF Fits
<1> HIDE DEF message
<1>13. op' # NoOp /\ op'.svc # "get" => IsJob(op, j)'
  BY <1>8, <1>9
<1> QED
  BY <1>6, <1>9, <1>10, <1>12, <1>13, StartKeeps

\* set_request, and set_transfer with its first block.
LEMMA SetRequestKeeps ==
  ASSUME NoWrap, Shapes, PerformedAsAsked, NEW book \in [Ids -> Jobs], Booked(book), SetRequest
  PROVE  Continued(book)
<1>1. PICK x \in Objects, n \in Sizes :
        \E header \in {<<>>, <<Piece(x, Tag, 0)>>} :
          ValueRequest("set", <<x>>, header, Value(x, Tag, n))
  BY DEF SetRequest
<1>2. Tag \in Nat /\ n \in Nat \ {0} /\ x \in Addressable
  BY Bounds DEF Tag, Shapes, IdInv, Addressable
<1>3. PICK t \in Nat : t = Tag
  BY <1>2
<1>4. PICK header \in {<<>>, <<Piece(x, t, 0)>>} :
        ValueRequest("set", <<x>>, header, Value(x, t, n))
  BY <1>1, <1>3
<1>5. header \in Bytes
  <2>1. Piece(x, t, 0) \in Pieces
    BY <1>2 DEF Piece, Pieces, Addressable
  <2>2. <<>> \in Bytes /\ <<Piece(x, t, 0)>> \in Bytes
    BY <2>1 DEF Bytes
  <2> QED
    BY <2>2
<1>6. Value(x, t, n) \in Bytes /\ Len(Value(x, t, n)) = n
  BY <1>2, ValuePieces
<1>7. <<x>> \in Targets /\ Len(<<x>>) = 1
  BY <1>2 DEF Targets
<1> DEFINE j == [svc |-> "set", target |-> <<x>>, header |-> header, bytes |-> Value(x, t, n)]
<1>8. j \in Jobs
  BY <1>5, <1>6, <1>7 DEF Jobs, Kinds
<1>9. Proper(j)
  <2>1. j.target[1] = x /\ Len(j.target) = 1 /\ Len(j.bytes) > 0
    BY <1>2, <1>6, <1>7
  <2> QED
    BY <2>1 DEF Proper
<1>10. ValueRequest(j.svc, j.target, j.header, j.bytes)
  BY <1>4
<1> HIDE DEF j
<1> QED
  BY <1>8, <1>9, <1>10, ValueKeeps

\* action_request, and action_transfer with its first block.
LEMMA ActionRequestKeeps ==
  ASSUME NoWrap, Shapes, PerformedAsAsked, NEW book \in [Ids -> Jobs], Booked(book), ActionRequest
  PROVE  Continued(book)
<1>1. PICK x \in Methods, n \in Sizes : ValueRequest("action", <<x>>, <<>>, Value(x, Tag, n))
  BY DEF ActionRequest
<1>2. Tag \in Nat /\ n \in Nat \ {0} /\ x \in Addressable
  BY Bounds DEF Tag, Shapes, IdInv, Addressable
<1>3. PICK t \in Nat : t = Tag
  BY <1>2
<1>4. ValueRequest("action", <<x>>, <<>>, Value(x, t, n))
  BY <1>1, <1>3
<1>5. <<>> \in Bytes
  BY DEF Bytes
<1>6. Value(x, t, n) \in Bytes /\ Len(Value(x, t, n)) = n
  BY <1>2, ValuePieces
<1>7. <<x>> \in Targets /\ Len(<<x>>) = 1
  BY <1>2 DEF Targets
<1> DEFINE j == [svc |-> "action", target |-> <<x>>, header |-> <<>>, bytes |-> Value(x, t, n)]
<1>8. j \in Jobs
  BY <1>5, <1>6, <1>7 DEF Jobs, Kinds
<1>9. Proper(j)
  <2>1. j.target[1] = x /\ Len(j.target) = 1 /\ Len(j.bytes) > 0
    BY <1>2, <1>6, <1>7
  <2> QED
    BY <2>1 DEF Proper
<1>10. ValueRequest(j.svc, j.target, j.header, j.bytes)
  BY <1>4
<1> HIDE DEF j
<1> QED
  BY <1>8, <1>9, <1>10, ValueKeeps

\* set_request_with_list, and set_transfer_with_list with its first block.
LEMMA SetListRequestKeeps ==
  ASSUME NoWrap, Shapes, PerformedAsAsked, NEW book \in [Ids -> Jobs], Booked(book), SetListRequest
  PROVE  Continued(book)
<1>1. PICK list \in Lists :
        \/ WholeRequest("set", list, Names(list, Tag), ValueList(list, Tag))
        \/ FirstBlockRequest("set", list, Names(list, Tag), ValueList(list, Tag))
  BY DEF SetListRequest
<1>2. Tag \in Nat
  BY Bounds DEF Tag, Shapes, IdInv
<1>3. PICK t \in Nat : t = Tag
  BY <1>2
<1>4. list \in Seq(Objects) /\ Len(list) \in 2 .. Buffer
  BY ObjectsAssumption
<1>5. /\ Len(list) \in Nat /\ Len(list) > 1 /\ DOMAIN list = 1 .. Len(list) /\ list \in Targets
      /\ \A i \in 1 .. Len(list) : list[i] \in Addressable
  BY <1>4, Bounds DEF Targets, Addressable
<1>6. \A i \in 1 .. Len(list) : Piece(list[i], t, 0) \in Pieces /\ Piece(list[i], t, 1) \in Pieces
  BY <1>5 DEF Piece, Pieces, Addressable
<1>7. Names(list, t) \in Bytes /\ Len(Names(list, t)) = Len(list)
  BY <1>5, <1>6 DEF Names, Bytes
<1>8. ValueList(list, t) \in Bytes /\ Len(ValueList(list, t)) = Len(list)
  BY <1>5, <1>6 DEF ValueList, Bytes
<1>9. \A i \in 1 .. Len(list) : Names(list, t)[i].of = list[i]
  BY <1>5 DEF Names, Piece
<1> DEFINE j == [svc |-> "set", target |-> list, header |-> Names(list, t), bytes |-> ValueList(list, t)]
<1>10. j \in Jobs
  BY <1>5, <1>7, <1>8 DEF Jobs, Kinds
<1>11. Proper(j)
  BY <1>4, <1>5, <1>7, <1>8, <1>9 DEF Proper
<1>12. \/ WholeRequest(j.svc, j.target, j.header, j.bytes)
       \/ FirstBlockRequest(j.svc, j.target, j.header, j.bytes)
  BY <1>1, <1>3
<1> HIDE DEF j
<1> QED
  BY <1>10, <1>11, <1>12, WholeKeeps, FirstKeeps

\* next_block_request after the first block.
LEMMA NextBlockKeeps ==
  ASSUME Shapes, PerformedAsAsked, NEW book \in [Ids -> Jobs], Booked(book), NextBlockRequest
  PROVE  Continued(book)
<1>1. /\ op # NoOp /\ op.block > 0 /\ ~SenderDone(op) /\ op' = AfterNextBlock(op)
      /\ requests' = requests \union
           {[svc |-> op.svc, form |-> "block", id |-> outstanding, block |-> NextBlock(op)]}
      /\ UNCHANGED <<fixed, invokeId, outstanding, started, asked, serverVars, responses>>
  BY DEF NextBlockRequest, Continue
<1>2. /\ op \in Ops /\ op.sent <= Len(op.bytes) /\ (op.svc = "get" => op.block = 0)
      /\ InUse(outstanding)
  BY <1>1 DEF Shapes, OpInv, IdInv
<1>3. op.block \in Nat /\ op.sent \in Nat /\ op.bytes \in Bytes
  BY <1>2 DEF Ops
<1>4. Len(op.bytes) \in Nat
  BY <1>3 DEF Bytes
<1>5. op.svc # "get" /\ op.sent < Len(op.bytes)
  BY <1>1, <1>2, <1>3, <1>4 DEF SenderDone
<1>6. IsJob(op, book[outstanding])
  BY <1>1, <1>5 DEF Booked
<1>7. PICK i \in Ids : i = outstanding
  BY <1>2 DEF InUse
<1>8. PICK j \in Jobs : j = book[i]
  OBVIOUS
<1>9. /\ Sound(j) /\ op.svc = j.svc /\ op.target = j.target /\ op.header = j.header
      /\ op.bytes = j.bytes /\ op.sent = op.block
  BY <1>3, <1>4, <1>5, <1>6, <1>7, <1>8 DEF IsJob
<1>10. /\ NextBlock(op) = [number |-> op.block + 1, last |-> op.block + 1 = Len(op.bytes),
                           data |-> SubSeq(op.bytes, op.block + 1, op.block + 1)]
       /\ op.block + 1 \in 1 .. Len(op.bytes)
       /\ op' \in Ops /\ op'.svc = op.svc /\ op'.target = op.target
       /\ op'.header = op.header /\ op'.bytes = op.bytes
       /\ op'.sent = op.sent + 1 /\ op'.block = op.block + 1
  BY <1>1, <1>2, <1>5, <1>9, NextBlockFacts
<1>11. NextBlock(op) = BlockOf(j, op.block + 1) /\ op.block + 1 \in 1 .. Len(j.bytes)
  BY <1>9, <1>10 DEF BlockOf
<1>12. NextBlock(op).number = op.block + 1
  BY <1>10
<1>13. op'.sent <= Len(op'.bytes) /\ op'.sent = op'.block
  BY <1>3, <1>4, <1>5, <1>9, <1>10
<1>14. OpInv'
  BY <1>5, <1>10, <1>13 DEF OpInv
<1>15. asked' = asked /\ outstanding' = i
  BY <1>1, <1>7
<1>16. IsJob(op, j)'
  <2>1. Sound(j)'
    BY <1>9, <1>15 DEF Sound
  <2> QED
    BY <1>9, <1>10, <1>13, <2>1 DEF IsJob
<1>17. ASSUME NEW m \in requests'
       PROVE  m \in requests \/ (InUse(m.id) /\ Fits(m, book[m.id]))
  <2> SUFFICES ASSUME m = [svc |-> op.svc, form |-> "block", id |-> outstanding,
                           block |-> NextBlock(op)]
               PROVE  InUse(m.id) /\ Fits(m, book[m.id])
    BY <1>1, <1>17
  <2>1. m.svc = op.svc /\ m.form = "block" /\ m.id = outstanding /\ m.block = NextBlock(op)
    OBVIOUS
  <2>2. m.svc \in {"get", "set", "action"}
    BY <1>2, <2>1 DEF Ops
  <2>3. m.block.number \in 1 .. Len(j.bytes) /\ m.block = BlockOf(j, m.block.number)
    BY <1>11, <1>12, <2>1
  <2>4. Fits(m, j)
    BY <1>9, <2>1, <2>2, <2>3 DEF Fits
  <2> QED
    BY <1>2, <1>7, <1>8, <2>1, <2>4
<1>18. RepliesInv'
  BY <1>1 DEF Shapes, RepliesInv
<1>19. IsJob(op, book[outstanding])'
  BY <1>8, <1>15, <1>16
<1> QED
  BY <1>1, <1>14, <1>17, <1>18, <1>19, ContinueKeeps

\* Nothing of a job is in what the caller collects of an answer.
SameJob(o, p) ==
  /\ p \in Ops /\ p.svc = o.svc /\ p.target = o.target /\ p.header = o.header
  /\ p.bytes = o.bytes /\ p.sent = o.sent /\ p.block = o.block

\* A step that leaves the job of the invocation alone.
LEMMA SameKeeps ==
  ASSUME Shapes, PerformedAsAsked, NEW book \in [Ids -> Jobs], Booked(book),
         UNCHANGED <<fixed, invokeId, outstanding, started, asked, serverVars>>,
         \A m \in requests' : m \in requests \/ (InUse(m.id) /\ Fits(m, book[m.id])),
         responses' \subseteq responses, op' = NoOp \/ (op # NoOp /\ SameJob(op, op'))
  PROVE  Continued(book)
<1>1. RepliesInv'
  BY DEF Shapes, RepliesInv
<1>2. OpInv'
  BY DEF Shapes, OpInv, SameJob
<1>3. ASSUME op' # NoOp, op'.svc # "get"
      PROVE  IsJob(op, book[outstanding])'
  <2>1. op # NoOp /\ SameJob(op, op')
    BY <1>3
  <2>2. IsJob(op, book[outstanding])
    BY <1>3, <2>1 DEF Booked, SameJob
  <2>3. Sound(book[outstanding])'
    BY <2>2 DEF IsJob, Sound
  <2> QED
    BY <2>1, <2>2, <2>3 DEF IsJob, SameJob
<1> QED
  BY <1>1, <1>2, <1>3, ContinueKeeps

\* get_next_block_request and action_next_block_request.
LEMMA NextResultKeeps ==
  ASSUME Shapes, PerformedAsAsked, NEW book \in [Ids -> Jobs], Booked(book), NextResultRequest
  PROVE  Continued(book)
<1>1. /\ op # NoOp /\ op' = [op EXCEPT !.ready = FALSE]
      /\ requests' = requests \union
           {[svc |-> op.svc, form |-> "next", id |-> outstanding, number |-> op.lastBlock]}
      /\ UNCHANGED <<fixed, invokeId, outstanding, started, asked, serverVars, responses>>
  BY DEF NextResultRequest, Continue
<1>2. op \in Ops /\ InUse(outstanding)
  BY <1>1 DEF Shapes, OpInv, IdInv
<1>3. SameJob(op, op')
  BY <1>1, <1>2 DEF SameJob, Ops
<1>4. ASSUME NEW m \in requests'
      PROVE  m \in requests \/ (InUse(m.id) /\ Fits(m, book[m.id]))
  <2> SUFFICES ASSUME m = [svc |-> op.svc, form |-> "next", id |-> outstanding,
                           number |-> op.lastBlock]
               PROVE  InUse(m.id) /\ Fits(m, book[m.id])
    BY <1>1, <1>4
  <2>1. m.svc = op.svc /\ m.form = "next" /\ m.id = outstanding
    OBVIOUS
  <2>2. m.svc \in {"get", "set", "action"}
    BY <1>2, <2>1 DEF Ops
  <2> QED
    BY <1>2, <2>1, <2>2 DEF Fits
<1> QED
  BY <1>1, <1>3, <1>4, SameKeeps

\* What the caller does with a response leaves the job alone, or ends the invocation.
LEMMA UseFacts ==
  ASSUME op \in Ops, NEW m, m.form = "block" => m.data \in Bytes, UseResponse(m)
  PROVE  op' = NoOp \/ SameJob(op, op')
<1>1. CASE op' = NoOp
  BY <1>1
<1>2. CASE op' = [op EXCEPT !.aside = FALSE, !.ready = TRUE]
  BY <1>2 DEF SameJob, Ops
<1>3. CASE op' = [op EXCEPT !.ready = TRUE]
  BY <1>3 DEF SameJob, Ops
<1>4. CASE /\ m.form = "block" /\ m.number = op.lastBlock + 1
           /\ op' = [op EXCEPT !.got = @ \o m.data, !.lastBlock = m.number, !.ready = TRUE]
  <2>1. op.got \in Bytes /\ op.lastBlock \in Nat
    BY DEF Ops
  <2>2. m.number \in Nat
    BY <1>4, <2>1
  <2>3. op.got \o m.data \in Bytes
    BY <1>4, <2>1 DEF Bytes
  <2>4. op' = [op EXCEPT !.got = op.got \o m.data, !.lastBlock = m.number, !.ready = TRUE]
    BY <1>4 DEF Ops
  <2> QED
    BY <2>2, <2>3, <2>4 DEF SameJob, Ops
<1>5. \/ op' = NoOp
      \/ op' = [op EXCEPT !.aside = FALSE, !.ready = TRUE]
      \/ op' = [op EXCEPT !.ready = TRUE]
      \/ /\ m.form = "block" /\ m.number = op.lastBlock + 1
         /\ op' = [op EXCEPT !.got = @ \o m.data, !.lastBlock = m.number, !.ready = TRUE]
  <2>1. CASE op.aside
    BY <2>1 DEF UseResponse
  <2>2. CASE ~op.aside /\ m.form = "block" /\ op.svc # "set"
    BY <2>2 DEF UseResponse, Push, Finish, GiveUp
  <2>3. CASE ~op.aside /\ ~(m.form = "block" /\ op.svc # "set")
    BY <2>3 DEF UseResponse, Finish, GiveUp
  <2> QED
    BY <2>1, <2>2, <2>3
<1> QED
  BY <1>1, <1>2, <1>3, <1>4, <1>5

\* handle_response.
LEMMA ResponseKeeps ==
  ASSUME Shapes, PerformedAsAsked, NEW book \in [Ids -> Jobs], Booked(book), HandleResponse
  PROVE  Continued(book)
<1>1. PICK m \in responses :
        /\ responses' = IF Duplicating THEN responses ELSE responses \ {m}
        /\ IF op = NoOp \/ ~Answers(m) THEN UNCHANGED <<op, done>> ELSE UseResponse(m)
        /\ UNCHANGED <<fixed, invokeId, outstanding, started, asked, serverVars, requests>>
  BY DEF HandleResponse
<1>2. responses' \subseteq responses /\ requests' = requests
  BY <1>1
<1>3. op # NoOp => op \in Ops
  BY DEF Shapes, OpInv
<1>4. op' = NoOp \/ (op # NoOp /\ SameJob(op, op'))
  <2>1. CASE op = NoOp \/ ~Answers(m)
    <3>1. op' = op
      BY <1>1, <2>1
    <3> QED
      BY <1>3, <3>1 DEF SameJob
  <2>2. CASE ~(op = NoOp \/ ~Answers(m))
    <3>1. UseResponse(m) /\ op # NoOp
      BY <1>1, <2>2
    <3>2. m.form = "block" => m.data \in Bytes
      BY DEF Shapes, RepliesInv
    <3> QED
      BY <1>3, <3>1, <3>2, UseFacts
  <2> QED
    BY <2>1, <2>2
<1> QED
  BY <1>1, <1>2, <1>4, SameKeeps

\* The caller's timeout.
LEMMA AbandonKeeps ==
  ASSUME Shapes, PerformedAsAsked, NEW book \in [Ids -> Jobs], Booked(book), Abandon
  PROVE  Continued(book)
<1>1. /\ op' = NoOp /\ requests' = requests /\ responses' = responses
      /\ UNCHANGED <<fixed, invokeId, outstanding, started, asked, serverVars>>
  BY DEF Abandon, GiveUp
<1> QED
  BY <1>1, SameKeeps

\* get_request between two blocks of a transfer.
LEMMA InterjectKeeps ==
  ASSUME NoWrap, Shapes, PerformedAsAsked, NEW book \in [Ids -> Jobs], Booked(book), Interject
  PROVE  Continued(book)
<1>1. /\ op # NoOp /\ started < Requests /\ started' = started + 1
      /\ invokeId' = NextInvokeId /\ outstanding' = NextInvokeId
      /\ op' = [op EXCEPT !.ready = FALSE, !.aside = TRUE]
      /\ UNCHANGED <<fixed, asked, done, serverVars, responses>>
  BY DEF Interject
<1>2. PICK x \in Objects :
        requests' = requests \union
          {[svc |-> "get", form |-> "normal", id |-> NextInvokeId, target |-> <<x>>]}
  BY DEF Interject
<1>3. PICK id \in Ids : id = NextInvokeId
  BY <1>1, NextIdFacts DEF Shapes
<1> DEFINE message == [svc |-> "get", form |-> "normal", id |-> id, target |-> <<x>>]
<1>4. requests' = requests \union {message} /\ message.id = id
  BY <1>2, <1>3
<1>5. op \in Ops /\ InUse(outstanding)
  BY <1>1 DEF Shapes, OpInv, IdInv
<1>6. SameJob(op, op')
  BY <1>1, <1>5 DEF SameJob, Ops
<1>7. OpInv'
  BY <1>1, <1>6 DEF Shapes, OpInv, SameJob
<1>8. PICK j \in Jobs : j = book[outstanding]
  BY <1>5 DEF InUse
<1>9. asked' = asked
  BY <1>1
<1>10. op' # NoOp /\ op'.svc # "get" => IsJob(op, j)'
  <2> SUFFICES ASSUME op'.svc # "get"
               PROVE  IsJob(op, j)'
    OBVIOUS
  <2>1. IsJob(op, j)
    BY <1>1, <1>6, <1>8 DEF Booked, SameJob
  <2>2. Sound(j)'
    BY <1>9, <2>1 DEF IsJob, Sound
  <2> QED
    BY <1>6, <2>1, <2>2 DEF IsJob, SameJob
<1>11. Fits(message, j)'
  <2>1. message.form = "normal" /\ message.svc = "get" /\ message.target[1] = x
    OBVIOUS
  <2> HIDE DEF message
  <2> QED
    BY <2>1 DEF Fits
<1> HIDE DEF message
<1> QED
  BY <1>1, <1>3, <1>4, <1>7, <1>9, <1>10, <1>11, StartKeeps

\* The meter changes an attribute by itself.
LEMMA UpdateKeeps ==
  ASSUME Shapes, PerformedAsAsked, NEW book \in [Ids -> Jobs], Booked(book), MeterUpdates
  PROVE  Continued(book)
<1>1. /\ updated' = updated + 1
      /\ UNCHANGED <<fixed, clientVars, transfer, response, performed, requests, responses>>
  BY DEF MeterUpdates
<1>2. PICK x \in Objects, n \in Sizes :
        versions' = [versions EXCEPT ![x] = Append(@, Value(x, Requests + updated + 1, n))]
  BY DEF MeterUpdates
<1>3. updated \in Nat /\ versions \in [Objects -> Seq(Bytes)] /\ \A y \in Objects : versions[y] # <<>>
  BY DEF Shapes, StoreInv
<1>4. Value(x, Requests + updated + 1, n) \in Bytes
  <2>1. Requests + updated + 1 \in Nat /\ n \in Nat /\ x \in Addressable
    BY <1>3, Bounds DEF Addressable
  <2> QED
    BY <2>1, ValuePieces
<1>5. StoreInv'
  <2> DEFINE v == Value(x, Requests + updated + 1, n)
  <2> HIDE DEF v
  <2>1. versions[x] \in Seq(Bytes) /\ v \in Bytes
    BY <1>3, <1>4 DEF v
  <2>2. Append(versions[x], v) \in Seq(Bytes) /\ Append(versions[x], v) # <<>>
    BY <2>1
  <2>3. versions' = [versions EXCEPT ![x] = Append(versions[x], v)]
    BY <1>2, <1>3 DEF v
  <2>4. versions' \in [Objects -> Seq(Bytes)] /\ \A y \in Objects : versions'[y] # <<>>
    BY <1>3, <2>2, <2>3
  <2>5. updated' \in Nat /\ IsFiniteSet(performed')
    BY <1>1, <1>3 DEF Shapes, StoreInv
  <2> QED
    BY <2>4, <2>5 DEF StoreInv
<1>6. /\ agreed' = agreed /\ caller' = caller /\ invokeId' = invokeId
      /\ outstanding' = outstanding /\ op' = op /\ started' = started /\ asked' = asked
      /\ transfer' = transfer /\ response' = response /\ performed' = performed
      /\ requests' = requests /\ responses' = responses
  BY <1>1 DEF fixed, clientVars
<1>7. Shapes'
  BY <1>5, <1>6 DEF Shapes, IdInv, InUse, OpInv, TransferInv, RepliesInv
<1>8. PerformedAsAsked'
  BY <1>6 DEF PerformedAsAsked
<1>9. \A j : Sound(j)' <=> Sound(j)
  BY <1>6 DEF Sound
<1>10. Booked(book)'
  BY <1>6, <1>9 DEF Booked, InUse, Fits, IsJob, Holds
<1> QED
  BY <1>7, <1>8, <1>10 DEF Continued

\* A step that changes nothing.
LEMMA StutterKeeps ==
  ASSUME Shapes, PerformedAsAsked, NEW book \in [Ids -> Jobs], Booked(book), UNCHANGED vars
  PROVE  Continued(book)
<1>1. /\ op' = op /\ requests' = requests /\ responses' = responses
      /\ UNCHANGED <<fixed, invokeId, outstanding, started, asked, serverVars>>
  BY DEF vars, clientVars
<1>2. op # NoOp => op \in Ops
  BY DEF Shapes, OpInv
<1>3. op' = NoOp \/ (op # NoOp /\ SameJob(op, op'))
  BY <1>1, <1>2 DEF SameJob
<1> QED
  BY <1>1, <1>3, SameKeeps

(***************************************************************************)
(* The theorems.                                                           *)
(***************************************************************************)

\* Both ends as they start.
LEMMA Start ==
  ASSUME Init
  PROVE  IInv
<1> DEFINE book == [i \in Ids |-> [svc |-> "set", target |-> <<>>, header |-> <<>>, bytes |-> <<>>]]
<1>1. <<>> \in Targets /\ <<>> \in Bytes
  BY DEF Targets, Bytes
<1>2. book \in [Ids -> Jobs]
  BY <1>1 DEF Jobs, Kinds
<1> HIDE DEF book
<1>3. Booked(book)
  BY DEF Init, Booked, Idle
<1>4. IdInv
  BY Bounds DEF Init, IdInv
<1>5. OpInv /\ RepliesInv
  BY DEF Init, OpInv, RepliesInv
<1>6. TransferInv
  BY DEF Init, TransferInv
<1>7. StoreInv
  <2>1. PICK size \in [Objects -> Sizes] : versions = [o \in Objects |-> <<Value(o, 0, size[o])>>]
    BY DEF Init
  <2>2. ASSUME NEW o \in Objects
        PROVE  versions[o] \in Seq(Bytes) /\ versions[o] # <<>>
    <3>1. size[o] \in Nat /\ o \in Addressable
      BY Bounds DEF Addressable
    <3>2. Value(o, 0, size[o]) \in Bytes
      BY <3>1, ValuePieces
    <3> QED
      BY <2>1, <3>2
  <2>3. IsFiniteSet(performed)
    BY FS_EmptySet DEF Init
  <2>4. updated \in Nat
    BY DEF Init
  <2> QED
    BY <2>1, <2>2, <2>3, <2>4 DEF StoreInv
<1>8. PerformedAsAsked
  BY DEF Init, PerformedAsAsked
<1>9. agreed \in BlocksAgreed /\ caller \in Callers
  BY DEF Init
<1> QED
  BY <1>2, <1>3, <1>4, <1>5, <1>6, <1>7, <1>8, <1>9 DEF IInv, Shapes

\* Every step goes on with the book there is.
LEMMA Continues ==
  ASSUME NoWrap, Shapes, PerformedAsAsked, NEW book \in [Ids -> Jobs], Booked(book), [Next]_vars
  PROVE  Continued(book)
<1>1. CASE Handle
  BY <1>1, HandleKeeps DEF Continued
<1>2. CASE UNCHANGED vars
  BY <1>2, StutterKeeps
<1> QED
  BY <1>1, <1>2, GetRequestKeeps, SetRequestKeeps, SetListRequestKeeps, ActionRequestKeeps,
     NextBlockKeeps, NextResultKeeps, ResponseKeeps, AbandonKeeps, InterjectKeeps, UpdateKeeps
     DEF Next

\* Every step keeps the invariant.
LEMMA Step ==
  ASSUME NoWrap, IInv, [Next]_vars
  PROVE  IInv'
<1>1. PICK book \in [Ids -> Jobs] : Shapes /\ PerformedAsAsked /\ Booked(book)
  BY DEF IInv
<1>2. Continued(book)
  BY <1>1, Continues
<1> QED
  BY <1>2 DEF Continued, IInv

\* One job to an id, whichever order the requests are delivered in and however often.
THEOREM OneJobPerId ==
  ASSUME NoWrap
  PROVE  Spec => []IInv
<1>1. Init => IInv
  BY Start
<1>2. IInv /\ [Next]_vars => IInv'
  BY Step
<1> QED
  BY <1>1, <1>2, PTL DEF Spec

\* Every write and every method call the store carries out is one the caller asked
\* for, whole, over a link that delays, reorders, loses and duplicates, whatever the
\* caller abandons or reads in between, until an invoke id comes round again.
THEOREM WritesAreAsked ==
  ASSUME NoWrap
  PROVE  Spec => []PerformedAsAsked
<1>1. IInv => PerformedAsAsked
  BY DEF IInv
<1> QED
  BY <1>1, OneJobPerId, PTL

\* The invoke id stays in its range, and a transfer inside the buffer and the value.
THEOREM TypeCorrect ==
  ASSUME NoWrap
  PROVE  Spec => []TypeOK
<1>1. IInv => TypeOK
  <2> SUFFICES ASSUME Shapes
               PROVE  TypeOK
    BY DEF IInv
  <2>1. invokeId \in 0 .. IdMod - 1
    BY Bounds DEF Shapes, IdInv, NoWrap
  <2>2. outstanding \in {NoId} \union 0 .. IdMod - 1
    BY DEF Shapes, IdInv, Ids
  <2>3. op = NoOp \/ (op.sent <= Len(op.bytes) /\ op.got \in Seq(Pieces))
    BY DEF Shapes, OpInv, Ops, Bytes
  <2>4. /\ transfer.kind \in {"idle", "sending", "receiving"}
        /\ transfer.kind = "sending" => transfer.sent < transfer.len /\ transfer.len <= Buffer
        /\ transfer.kind = "receiving" => transfer.headerEnd + transfer.len <= Buffer
    <3>1. CASE transfer = Idle
      BY <3>1 DEF Idle
    <3>2. CASE SendingOK(transfer, response)
      BY <3>2 DEF SendingOK, Sendings
    <3>3. CASE transfer \in Receivings /\ transfer.headerEnd + transfer.len <= Buffer
      BY <3>3 DEF Receivings
    <3> QED
      BY <3>1, <3>2, <3>3 DEF Shapes, TransferInv
  <2>5. response \in [1 .. Buffer -> Pieces \union {NoPiece}]
    BY DEF Shapes, TransferInv
  <2>6. \A o \in Objects : versions[o] \in Seq(Seq(Pieces)) /\ versions[o] # <<>>
    BY DEF Shapes, StoreInv, Bytes
  <2>7. agreed \in BlocksAgreed /\ caller \in Callers
    BY DEF Shapes
  <2> QED
    BY <2>1, <2>2, <2>3, <2>4, <2>5, <2>6, <2>7 DEF TypeOK
<1> QED
  BY <1>1, OneJobPerId, PTL
=============================================================================
