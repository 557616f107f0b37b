-------------------------- MODULE ServicesAnswers ---------------------------
(***************************************************************************)
(* Proofs about what the caller of Services is told: an answer belongs to  *)
(* the invocation it is given for, and a value put together from blocks is *)
(* one value, over links that delay, reorder and lose but do not duplicate *)
(* (a repeated request is carried out again), as long as no invoke id has  *)
(* come round again.                                                       *)
(***************************************************************************)
EXTENDS ServicesProofs

Kinds3 == {"get", "set", "action"}

\* What an id was used for, whether a value or result was reported under it, and which.
Stories == [svc : Kinds3, told : BOOLEAN, value : Bytes]

\* A request that begins an invocation.
Opens(m) == m.form \in {"normal", "first"}

\* The results of a write are what the rights allow.
Allowed(results, target) ==
  \A i \in DOMAIN target : results[i] = (target[i] \in Writable)

\* A response, and the story of its id: block k carries piece k, the last is marked,
\* and a result is the whole value, or for a write what the rights allow.
Report(r, j, s) ==
  /\ r.form \in {"block", "result"} => s.told /\ r.svc = s.svc
  /\ r.form = "block" =>
       /\ s.svc # "set" /\ r.number \in 1 .. Len(s.value) /\ r.data = <<s.value[r.number]>>
       /\ r.last <=> r.number = Len(s.value)
  /\ r.form = "result" => IF s.svc = "set" THEN Allowed(r.data, j.target) ELSE r.data = s.value

\* What is being sent is the value of the story.
Carries(t, buffer, s) ==
  /\ s.told /\ t.kind = "sending" /\ t.svc = s.svc /\ s.svc # "set" /\ t.block = t.sent
  /\ t.len = Len(s.value) /\ \A i \in 1 .. t.len : buffer[i] = s.value[i]

\* The call of a job.
Call(j) == [of |-> j.target[1], header |-> <<>>, value |-> j.bytes]

\* A reported call was made and returned the value; a reported write was carried out
\* on every attribute that admits it.
Became(j, s) ==
  /\ s.svc = "action" => \E p \in performed : p.did = Call(j) /\ p.result = s.value
  /\ s.svc = "set" => \A w \in Operations(j.target, j.header, j.bytes) :
                        w.of \in Writable => [did |-> w, result |-> <<>>] \in performed

\* The store calls methods and writes only what admits it.
Lawful == \A p \in performed : p.did.of \in Writable \union Methods

\* The two ends of the link and the server, and the stories.
Linked(book, story) ==
  /\ \A m \in requests : Opens(m) =>
       /\ story[m.id].svc = m.svc /\ ~story[m.id].told
       /\ transfer.kind = "receiving" => transfer.id # m.id
  /\ \A m, n \in requests : Opens(m) /\ Opens(n) /\ m.id = n.id => m = n
  /\ transfer.kind = "receiving" =>
       story[transfer.id].svc = transfer.svc /\ ~story[transfer.id].told
  /\ transfer.kind = "sending" =>
       InUse(transfer.id) /\ Carries(transfer, response, story[transfer.id])
  /\ \A r \in responses : InUse(r.id) /\ Report(r, book[r.id], story[r.id])
  /\ \A id \in Ids : InUse(id) /\ story[id].told => Became(book[id], story[id])
  /\ Lawful

\* The caller is at what its id stands for; one that reads between the blocks of its
\* reads is left out.
Own(s) == s.svc = op.svc /\ (op.svc = "get" => "get" \notin caller.interleaving)

\* A read: the value reported is one the attribute has had since it was asked for.
Reads(s) ==
  /\ op.target[1] \in Objects /\ op.since \in 1 .. Len(versions[op.target[1]])
  /\ s.told => \E k \in op.since .. Len(versions[op.target[1]]) :
                 s.value = versions[op.target[1]][k]
  /\ \A m \in requests : Opens(m) /\ m.id = outstanding => m.target[1] = op.target[1]

\* A read between the blocks of something else: its one answer is put aside, and
\* no block of it is left when the caller goes on.
Aside ==
  /\ op.aside =>
       /\ \A m \in requests : m.id = outstanding => Opens(m)
       /\ \A r \in responses : r.id = outstanding =>
            /\ \A m \in requests : m.id # outstanding
            /\ \A q \in responses : q.id = outstanding => q = r
  /\ ~op.aside =>
       /\ \A m \in requests : m.id = outstanding => m.svc # "get"
       /\ \A r \in responses : r.id = outstanding => r.form # "block"

\* What the BlockCollector has is the front of the value of the story.
Collected(s) ==
  /\ ~op.aside /\ op.lastBlock <= Len(s.value) /\ op.got = SubSeq(s.value, 1, op.lastBlock)
  /\ op.lastBlock > 0 => s.told

Asks(s) ==
  /\ s.svc \in {op.svc, "get"} /\ (op.aside => ~op.ready)
  /\ Own(s) => Collected(s)
  /\ Own(s) /\ op.svc = "get" => Reads(s)
  /\ op.svc # "get" /\ s.svc = "get" => Aside

\* The last invocation answered: it was carried out as asked, and the answer is what
\* became of it.
Settled ==
  (done # NoOp /\ done.ok) =>
    /\ done.svc # "get" =>
         \E j \in Jobs : /\ Proper(j) /\ done.svc = j.svc /\ done.target = j.target
                         /\ done.bytes = j.bytes
                         /\ Became(j, [svc |-> done.svc, value |-> done.got])
    /\ done.svc = "set" => Allowed(done.got, done.target)
    /\ done.svc = "get" /\ "get" \notin caller.interleaving =>
         /\ done.target[1] \in Objects /\ done.since \in 1 .. Len(versions[done.target[1]])
         /\ ReadIntact

\* All of it, over one book and one story for each id.
Answering(book, story) ==
  /\ Booked(book) /\ Linked(book, story) /\ Settled
  /\ op # NoOp => Asks(story[outstanding])

AInv ==
  /\ Shapes /\ PerformedAsAsked
  /\ \E book \in [Ids -> Jobs], story \in [Ids -> Stories] : Answering(book, story)

-----------------------------------------------------------------------------
(***************************************************************************)
(* What a handler may do: stay silent about the value, tell it, or go on.  *)
(***************************************************************************)

\* A request is taken off the link and answered under its own id.
Replied(m, reply) ==
  /\ requests' = requests \ {m} /\ responses' = responses \union {reply}
  /\ reply.id = m.id /\ reply.svc = m.svc
  /\ UNCHANGED <<fixed, clientVars>>

\* What the store has had and has done stays.
Older ==
  /\ performed \subseteq performed' /\ Lawful'
  /\ \A o \in Objects : /\ Len(versions[o]) <= Len(versions'[o])
                        /\ \A k \in 1 .. Len(versions[o]) : versions'[o][k] = versions[o][k]

\* The blocks of an invocation are being put together.
Awaited(id, svc) == transfer.kind = "receiving" /\ transfer.id = id /\ transfer.svc = svc

\* An error, or an acknowledgement of a block.
Silent(m) ==
  /\ Older
  /\ \E reply : Replied(m, reply) /\ reply.form \notin {"block", "result"}
  /\ \/ transfer' = Idle
     \/ UNCHANGED <<transfer, response>>
     \/ /\ transfer'.kind = "receiving"
        /\ \/ Awaited(transfer'.id, transfer'.svc)
           \/ Opens(m) /\ transfer'.id = m.id /\ transfer'.svc = m.svc

\* The answer to an invocation, or the first block of it.
Gives(m, j, s, reply) ==
  /\ Replied(m, reply) /\ Report(reply, j, s)
  /\ \/ transfer' = Idle
     \/ transfer'.id = m.id /\ Carries(transfer', response', s)

Story(m, value) == [svc |-> m.svc, told |-> TRUE, value |-> value]

Telling(m, j) ==
  /\ Older /\ (Opens(m) \/ Awaited(m.id, m.svc))
  /\ \E value, reply :
       /\ value \in Bytes
       /\ Gives(m, j, Story(m, value), reply)
       /\ Became(j, Story(m, value))'
       /\ m.svc = "get" => /\ m.form = "normal" /\ value = Current(m.target[1])
                           /\ UNCHANGED versions

\* The answer under a request's own id.
LEMMA AnswerReplies ==
  ASSUME ~Duplicating, NEW m, NEW reply, reply.id = m.id, reply.svc = m.svc, Answer(m, reply)
  PROVE  Replied(m, reply)
BY DEF Answer, Replied

\* An error says nothing of a value.
LEMMA ErrorReplies ==
  ASSUME ~Duplicating, NEW m, Answer(m, ErrorReply(m))
  PROVE  Replied(m, ErrorReply(m)) /\ ErrorReply(m).form = "error"
<1>1. ErrorReply(m).id = m.id /\ ErrorReply(m).svc = m.svc /\ ErrorReply(m).form = "error"
  BY DEF ErrorReply
<1> QED
  BY <1>1, AnswerReplies

\* A store that is left alone.
LEMMA OlderStands ==
  ASSUME Lawful, UNCHANGED <<versions, performed>>, StoreInv
  PROVE  Older
<1>1. \A o \in Objects : Len(versions[o]) \in Nat
  BY DEF StoreInv
<1> QED
  BY <1>1 DEF Older, Lawful

\* handle_get and answer_method: an error, or the value, whole or from its first block on.
LEMMA DeliverTells ==
  ASSUME ~Duplicating, NEW m, m.svc \in {"get", "action"}, NEW j, NEW body \in Bytes,
         NEW buffer \in Buffers, Deliver(m, body, buffer)
  PROVE  \/ transfer' = Idle /\ Replied(m, ErrorReply(m)) /\ ErrorReply(m).form = "error"
         \/ \E reply : Gives(m, j, Story(m, body), reply)
<1>1. Len(body) \in Nat /\ Buffer \in Nat
  BY Bounds DEF Bytes
<1> DEFINE s == Story(m, body)
<1>2. s.svc = m.svc /\ s.told /\ s.value = body /\ s.svc # "set"
  BY DEF Story
<1>3. CASE Len(body) > 1 /\ agreed /\ Len(body) <= Buffer
  <2> DEFINE t == [kind |-> "sending", id |-> m.id, svc |-> m.svc,
                   len |-> Len(body), sent |-> 0, block |-> 0]
             after == Put(buffer, 0, body)
             reply == [svc |-> t.svc, id |-> t.id, form |-> "block", number |-> t.block + 1,
                       last |-> FragmentEnd(t) = t.len,
                       data |-> SubSeq(after, t.sent + 1, FragmentEnd(t))]
  <2>1. SendNextBlock(m, t, after)
    BY <1>3 DEF Deliver
  <2>2. after \in Buffers /\ \A k \in 1 .. Len(body) : 0 + k <= Buffer => after[0 + k] = body[k]
    BY PutFacts
  <2>3. \A k \in 1 .. Len(body) : after[k] = body[k]
    BY <1>1, <1>3, <2>2
  <2>4. FragmentEnd(t) = 1 /\ Len(body) # 1
    <3>1. t.sent = 0 /\ t.len = Len(body)
      OBVIOUS
    <3>2. Len(body) \in Nat /\ Len(body) > 1
      BY <1>1, <1>3
    <3> HIDE DEF t
    <3>3. 0 + 1 < Len(body) /\ 0 + 1 = 1 /\ Len(body) # 1
      BY <3>2
    <3> QED
      BY <3>1, <3>3 DEF FragmentEnd
  <2>5. /\ response' = after /\ transfer' = [t EXCEPT !.sent = FragmentEnd(t), !.block = @ + 1]
        /\ Answer(m, reply)
    BY <2>1, <2>4 DEF SendNextBlock
  <2>6. /\ transfer'.kind = "sending" /\ transfer'.id = m.id /\ transfer'.svc = m.svc
        /\ transfer'.len = Len(body) /\ transfer'.sent = 1 /\ transfer'.block = 1
    <3>1. t.block + 1 = 1 /\ t \in [kind : {"sending"}, id : {m.id}, svc : {m.svc},
                                      len : {Len(body)}, sent : Nat, block : Nat]
      OBVIOUS
    <3> HIDE DEF t
    <3>2. transfer' = [t EXCEPT !.sent = 1, !.block = 1]
      BY <2>4, <2>5, <3>1
    <3>3. transfer' \in [kind : {"sending"}, id : {m.id}, svc : {m.svc},
                          len : {Len(body)}, sent : {1}, block : {1}]
      BY <3>1, <3>2
    <3> QED
      BY <3>3
  <2>7. Carries(transfer', response', s)
    BY <1>2, <2>3, <2>5, <2>6 DEF Carries
  <2>8. SubSeq(after, 1, 1) = <<body[1]>>
    <3>1. 1 \in Nat \ {0} /\ 1 \in Nat /\ 1 <= Buffer /\ 1 <= 1 + 1 /\ 1 \in 1 .. Len(body)
      BY <1>1, <1>3
    <3>2. /\ SubSeq(after, 1, 1) \in Seq(Pieces \union {NoPiece})
          /\ Len(SubSeq(after, 1, 1)) = 1 - 1 + 1
          /\ \A i \in 1 .. 1 - 1 + 1 : SubSeq(after, 1, 1)[i] = after[1 + i - 1]
      BY <2>2, <3>1, PartFacts
    <3> HIDE DEF after
    <3>3. Len(SubSeq(after, 1, 1)) = 1 /\ SubSeq(after, 1, 1)[1] = after[1]
      BY <3>2
    <3>4. after[1] = body[1]
      BY <2>3, <3>1
    <3>5. <<body[1]>> \in Seq(Pieces) /\ Len(<<body[1]>>) = 1 /\ <<body[1]>>[1] = body[1]
      BY <3>1 DEF Bytes
    <3>6. \A i \in 1 .. Len(<<body[1]>>) : SubSeq(after, 1, 1)[i] = <<body[1]>>[i]
      BY <3>3, <3>4, <3>5
    <3> QED
      BY <3>2, <3>3, <3>5, <3>6, SameSequence, ZenonT(40)
  <2>9. /\ reply.svc = m.svc /\ reply.id = m.id /\ reply.form = "block" /\ reply.number = 1
        /\ reply.last = FALSE /\ reply.data = <<body[1]>>
    <3>1. t.svc = m.svc /\ t.id = m.id /\ t.block + 1 = 1 /\ t.sent + 1 = 1 /\ t.len = Len(body)
      OBVIOUS
    <3> HIDE DEF t, after
    <3>2. /\ reply.svc = t.svc /\ reply.id = t.id /\ reply.form = "block"
          /\ reply.number = t.block + 1 /\ reply.last = (FragmentEnd(t) = t.len)
          /\ reply.data = SubSeq(after, t.sent + 1, FragmentEnd(t))
      OBVIOUS
    <3> HIDE DEF reply
    <3> QED
      BY <2>4, <2>8, <3>1, <3>2
  <2> HIDE DEF reply, after, t, s
  <2>10. Report(reply, j, s)
    <3>1. reply.number \in 1 .. Len(s.value) /\ reply.number # Len(s.value)
      BY <1>1, <1>2, <1>3, <2>4, <2>9
    <3> QED
      BY <1>2, <2>9, <3>1 DEF Report
  <2>11. Replied(m, reply)
    BY <2>5, <2>9, AnswerReplies
  <2>12. Gives(m, j, s, reply)
    BY <2>6, <2>7, <2>10, <2>11 DEF Gives
  <2> QED
    BY <2>12 DEF s
<1>4. CASE ~(Len(body) > 1 /\ agreed /\ Len(body) <= Buffer)
  <2>1. /\ transfer' = Idle
        /\ Answer(m, IF Len(body) > 1 THEN ErrorReply(m) ELSE ResultReply(m, body))
    BY <1>4 DEF Deliver
  <2>2. CASE Len(body) > 1
    BY <2>1, <2>2, ErrorReplies
  <2>3. CASE ~(Len(body) > 1)
    <3>1. Answer(m, ResultReply(m, body))
      BY <2>1, <2>3
    <3>2. /\ ResultReply(m, body).id = m.id /\ ResultReply(m, body).svc = m.svc
          /\ ResultReply(m, body).form = "result" /\ ResultReply(m, body).data = body
      BY DEF ResultReply
    <3>3. Replied(m, ResultReply(m, body))
      BY <3>1, <3>2, AnswerReplies
    <3> HIDE DEF s
    <3>4. Report(ResultReply(m, body), j, s)
      BY <1>2, <3>2 DEF Report
    <3>5. Gives(m, j, s, ResultReply(m, body))
      BY <2>1, <3>3, <3>4 DEF Gives
    <3> QED
      BY <3>5 DEF s
  <2> QED
    BY <2>2, <2>3
<1> QED
  BY <1>3, <1>4

\* write_one for every attribute of a job: all that admit it are written, and no other.
LEMMA WriteTells ==
  ASSUME StoreInv, Lawful, NEW j \in Jobs, Sound(j), WriteAll(j.target, j.header, j.bytes)
  PROVE  /\ Older
         /\ \A w \in Operations(j.target, j.header, j.bytes) :
              w.of \in Writable => [did |-> w, result |-> <<>>] \in performed'
<1> DEFINE all == Operations(j.target, j.header, j.bytes)
           writes == {w \in all : w.of \in Writable}
           To(o) == {w \in writes : w.of = o}
<1>1. /\ performed' = performed \union {[did |-> w, result |-> <<>>] : w \in writes}
      /\ versions' = [o \in Objects |->
           IF To(o) = {} THEN versions[o]
           ELSE Append(versions[o], (CHOOSE w \in To(o) : TRUE).value)]
  BY DEF WriteAll
<1>2. \A w \in all : w.value \in Bytes
  <2>1. j.target \in Targets /\ j.bytes \in Bytes
    BY DEF Jobs
  <2>2. Len(j.target) = 1 \/ Len(j.bytes) = Len(j.target)
    BY SoundLengths
  <2> QED
    BY <2>1, <2>2, OperationsOf
<1> HIDE DEF all
<1>3. Lawful'
  BY <1>1 DEF Lawful
<1>4. ASSUME NEW o \in Objects
      PROVE  /\ Len(versions[o]) <= Len(versions'[o])
             /\ \A k \in 1 .. Len(versions[o]) : versions'[o][k] = versions[o][k]
  <2>1. versions[o] \in Seq(Bytes) /\ Len(versions[o]) \in Nat
    BY DEF StoreInv
  <2>2. CASE To(o) = {}
    <3>1. versions'[o] = versions[o]
      BY <1>1, <2>2
    <3> QED
      BY <2>1, <3>1
  <2>3. CASE To(o) # {}
    <3>1. (CHOOSE w \in To(o) : TRUE) \in To(o)
      BY <2>3
    <3>2. PICK v \in Bytes : versions'[o] = Append(versions[o], v)
      BY <1>1, <1>2, <2>3, <3>1
    <3> QED
      BY <2>1, <3>2
  <2> QED
    BY <2>2, <2>3
<1>5. performed \subseteq performed'
  BY <1>1
<1>6. \A w \in all : w.of \in Writable => [did |-> w, result |-> <<>>] \in performed'
  BY <1>1
<1> QED
  BY <1>3, <1>4, <1>5, <1>6 DEF Older, all

\* run_method and answer_method: an error, or what the call returned.
LEMMA InvokeTells ==
  ASSUME ~Duplicating, StoreInv, Lawful, NEW m, m.svc = "action", Opens(m) \/ Awaited(m.id, m.svc),
         NEW j \in Jobs, j.target[1] \in Methods, NEW buffer \in Buffers,
         InvokeMethod(m, j.target[1], j.bytes, buffer)
  PROVE  Silent(m) \/ Telling(m, j)
<1>1. PICK n \in {0 - 1, 0} \union Sizes :
        LET result == IF n < 0 THEN <<>> ELSE Value(j.target[1], Cardinality(performed) + 1, n)
        IN  /\ performed' = performed \union
                 {[did |-> [of |-> j.target[1], header |-> <<>>, value |-> j.bytes],
                   result |-> result]}
            /\ UNCHANGED versions
            /\ IF n < 0 THEN /\ transfer' = Idle
                             /\ response' = buffer
                             /\ Answer(m, ErrorReply(m))
                        ELSE Deliver(m, result, buffer)
  BY DEF InvokeMethod
<1>2. PICK result :
        /\ result = IF n < 0 THEN <<>> ELSE Value(j.target[1], Cardinality(performed) + 1, n)
        /\ performed' = performed \union {[did |-> Call(j), result |-> result]}
  BY <1>1 DEF Call
<1>3. Older
  <2>1. Call(j).of \in Methods
    BY DEF Call
  <2>2. Lawful'
    BY <1>2, <2>1 DEF Lawful
  <2>3. versions' = versions /\ \A o \in Objects : Len(versions[o]) \in Nat
    BY <1>1 DEF StoreInv
  <2> QED
    BY <1>2, <2>2, <2>3 DEF Older
<1>4. CASE n < 0
  <2>1. transfer' = Idle /\ Answer(m, ErrorReply(m))
    BY <1>1, <1>4
  <2> QED
    BY <1>3, <2>1, ErrorReplies DEF Silent
<1>5. CASE ~(n < 0)
  <2>1. n \in Nat
    BY <1>5, Bounds
  <2>2. Cardinality(performed) + 1 \in Nat
    BY FS_CardinalityType DEF StoreInv
  <2>3. j.target[1] \in Addressable
    BY DEF Addressable
  <2>4. result \in Bytes
    BY <1>2, <1>5, <2>1, <2>2, <2>3, ValuePieces
  <2>5. Deliver(m, result, buffer)
    BY <1>1, <1>2, <1>5
  <2>6. CASE transfer' = Idle /\ Replied(m, ErrorReply(m)) /\ ErrorReply(m).form = "error"
    BY <1>3, <2>6 DEF Silent
  <2>7. CASE \E reply : Gives(m, j, Story(m, result), reply)
    <3>1. Became(j, Story(m, result))'
      <4>1. [did |-> Call(j), result |-> result] \in performed'
        BY <1>2
      <4>2. Story(m, result).svc = "action" /\ Story(m, result).value = result
        BY DEF Story
      <4> QED
        BY <4>1, <4>2 DEF Became
    <3> QED
      BY <1>3, <2>4, <2>7, <3>1 DEF Telling
  <2>8. m.svc \in {"get", "action"}
    OBVIOUS
  <2> QED
    BY <2>4, <2>5, <2>6, <2>7, <2>8, DeliverTells
<1> QED
  BY <1>4, <1>5

\* All of a write or call is there.
LEMMA DoesTells ==
  ASSUME ~Duplicating, StoreInv, Lawful, NEW m, NEW j \in Jobs, Sound(j), m.svc = j.svc,
         Opens(m) \/ Awaited(m.id, m.svc), NEW buffer \in Buffers, Does(m, j, buffer)
  PROVE  Silent(m) \/ Telling(m, j)
<1>1. j.svc \in Kinds
  BY DEF Jobs
<1>2. CASE j.svc = "action"
  <2>1. InvokeMethod(m, j.target[1], j.bytes, buffer) /\ j.target[1] \in Methods
    BY <1>2 DEF Does, Sound
  <2> QED
    BY <1>2, <2>1, InvokeTells
<1>3. CASE j.svc = "set"
  <2>1. /\ transfer' = Idle /\ WriteAll(j.target, j.header, j.bytes)
        /\ Answer(m, ResultReply(m, Results(j.target)))
    BY <1>3 DEF Does
  <2> DEFINE reply == ResultReply(m, Results(j.target))
             s == Story(m, <<>>)
  <2>2. /\ reply.id = m.id /\ reply.svc = m.svc /\ reply.form = "result"
        /\ reply.data = Results(j.target)
    BY DEF ResultReply
  <2>3. s.svc = "set" /\ s.told /\ <<>> \in Bytes
    BY <1>3 DEF Story, Bytes
  <2>4. /\ Older
        /\ \A w \in Operations(j.target, j.header, j.bytes) :
             w.of \in Writable => [did |-> w, result |-> <<>>] \in performed'
    BY <2>1, WriteTells
  <2> HIDE DEF reply, s
  <2>5. Became(j, s)'
    <3>1. s.svc # "action"
      BY <2>3
    <3> QED
      BY <2>4, <3>1 DEF Became
  <2>6. Report(reply, j, s)
    <3>1. Allowed(Results(j.target), j.target)
      BY DEF Results, Allowed
    <3> QED
      BY <1>3, <2>2, <2>3, <3>1 DEF Report
  <2>7. Replied(m, reply)
    BY <2>1, <2>2, AnswerReplies DEF reply
  <2>8. Gives(m, j, s, reply)
    BY <2>1, <2>6, <2>7 DEF Gives
  <2> QED
    BY <1>3, <2>3, <2>4, <2>5, <2>8 DEF Telling, s
<1> QED
  BY <1>1, <1>2, <1>3 DEF Kinds

-----------------------------------------------------------------------------
(***************************************************************************)
(* Each handler does one of the three.                                     *)
(***************************************************************************)

\* The next block of what is being sent.
SendsOn(m) ==
  /\ Sending(m.svc) /\ NamesLastBlock(m) /\ SendNextBlock(m, transfer, response)
  /\ UNCHANGED <<versions, performed>>

Outcome(m, j) == Silent(m) \/ Telling(m, j) \/ SendsOn(m)

\* handle_get.
LEMMA GetTells ==
  ASSUME ~Duplicating, Shapes, Lawful, NEW m \in requests, NEW j, Fits(m, j), HandleGet(m)
  PROVE  Outcome(m, j)
<1>1. /\ m.svc = "get" /\ m.form = "normal" /\ UNCHANGED <<versions, performed>>
      /\ Deliver(m, Current(m.target[1]), response)
  BY DEF HandleGet
<1>2. StoreInv /\ TransferInv
  BY DEF Shapes
<1>3. response \in Buffers
  BY <1>2, TransferKinds
<1>4. Current(m.target[1]) \in Bytes
  <2>1. m.target[1] \in Objects
    BY <1>1 DEF Fits
  <2>2. versions[m.target[1]] \in Seq(Bytes) /\ versions[m.target[1]] # <<>>
    BY <1>2, <2>1 DEF StoreInv
  <2> QED
    BY <2>2 DEF Current, Last
<1>5. Older
  BY <1>1, <1>2, OlderStands
<1>6. PICK body \in Bytes : body = Current(m.target[1])
  BY <1>4
<1>7. Deliver(m, body, response) /\ m.svc \in {"get", "action"}
  BY <1>1, <1>6
<1>8. CASE transfer' = Idle /\ Replied(m, ErrorReply(m)) /\ ErrorReply(m).form = "error"
  BY <1>5, <1>8 DEF Outcome, Silent
<1>9. CASE \E reply : Gives(m, j, Story(m, body), reply)
  <2>1. Became(j, Story(m, body))'
    <3>1. Story(m, body).svc = "get"
      BY <1>1 DEF Story
    <3> QED
      BY <3>1 DEF Became
  <2>2. Opens(m)
    BY <1>1 DEF Opens
  <2> QED
    BY <1>1, <1>5, <1>6, <1>9, <2>1, <2>2 DEF Outcome, Telling
<1> QED
  BY <1>3, <1>7, <1>8, <1>9, DeliverTells

\* handle_get_next and handle_action_next.
LEMMA NextTells ==
  ASSUME ~Duplicating, Shapes, Lawful, NEW m \in requests, NEW j, HandleNext(m)
  PROVE  Outcome(m, j)
<1>1. UNCHANGED <<versions, performed>>
  BY DEF HandleNext
<1>2. CASE Sending(m.svc) /\ NamesLastBlock(m)
  BY <1>1, <1>2 DEF HandleNext, Outcome, SendsOn
<1>3. CASE ~(Sending(m.svc) /\ NamesLastBlock(m))
  <2>1. /\ transfer' = IF Sending(m.svc) THEN Idle ELSE transfer
        /\ response' = response /\ Answer(m, ErrorReply(m))
    BY <1>3 DEF HandleNext
  <2>2. Replied(m, ErrorReply(m)) /\ ErrorReply(m).form = "error"
    BY <2>1, ErrorReplies
  <2>3. Older
    BY <1>1, OlderStands DEF Shapes
  <2> QED
    BY <2>1, <2>2, <2>3 DEF Outcome, Silent
<1> QED
  BY <1>2, <1>3

\* handle_set and handle_action of a request that is all there.
LEMMA WholeTells ==
  ASSUME ~Duplicating, Shapes, Lawful, NEW m \in requests, NEW j \in Jobs, Fits(m, j),
         HandleSet(m) \/ HandleAction(m)
  PROVE  Outcome(m, j)
<1>1. m.form = "normal" /\ m.svc # "get"
  BY DEF HandleSet, HandleAction
<1>2. /\ Sound(j)
      /\ j = [svc |-> m.svc, target |-> m.target, header |-> m.header, bytes |-> m.data]
  BY <1>1 DEF Fits
<1>3. j.svc = m.svc /\ j.target = m.target /\ j.header = m.header /\ j.bytes = m.data
  BY <1>2
<1>4. StoreInv /\ response \in Buffers
  BY TransferKinds DEF Shapes
<1>5. Does(m, j, response)
  <2>1. CASE HandleSet(m)
    BY <1>3, <2>1 DEF Does, HandleSet
  <2>2. CASE HandleAction(m)
    BY <1>3, <2>2 DEF Does, HandleAction
  <2> QED
    BY <2>1, <2>2
<1>6. Opens(m)
  BY <1>1 DEF Opens
<1>7. Silent(m) \/ Telling(m, j)
  BY <1>2, <1>3, <1>4, <1>5, <1>6, DoesTells
<1> QED
  BY <1>7 DEF Outcome

\* A block of a job that is being received, or the first of one.
LEMMA TakenTells ==
  ASSUME ~Duplicating, StoreInv, Lawful, NEW m, NEW t, NEW j \in Jobs, Sound(j),
         m.id = t.id => m.svc = j.svc, m.svc = t.svc,
         (Opens(m) /\ t.id = m.id) \/ Awaited(t.id, t.svc), Taken(m, t, j)
  PROVE  Silent(m) \/ (m.id = t.id /\ Telling(m, j))
<1>1. CASE /\ transfer' = Idle /\ Answer(m, ErrorReply(m))
           /\ UNCHANGED <<versions, performed>>
  BY <1>1, ErrorReplies, OlderStands DEF Silent
<1>2. CASE /\ transfer'.kind = "receiving" /\ transfer'.id = t.id /\ transfer'.svc = t.svc
           /\ Answer(m, [svc |-> m.svc, id |-> m.id, form |-> "accepted"])
           /\ UNCHANGED <<versions, performed>>
  <2> DEFINE reply == [svc |-> m.svc, id |-> m.id, form |-> "accepted"]
  <2>1. reply.id = m.id /\ reply.svc = m.svc /\ reply.form = "accepted"
    OBVIOUS
  <2>2. Answer(m, reply)
    BY <1>2
  <2> HIDE DEF reply
  <2>3. Replied(m, reply)
    BY <2>1, <2>2, AnswerReplies
  <2>4. Older
    BY <1>2, OlderStands
  <2> QED
    BY <1>2, <2>1, <2>3, <2>4 DEF Silent
<1>3. CASE m.id = t.id /\ \E buffer \in Buffers : Does(m, j, buffer)
  <2>1. m.svc = j.svc /\ (Opens(m) \/ Awaited(m.id, m.svc))
    BY <1>3
  <2> QED
    BY <1>3, <2>1, DoesTells
<1> QED
  BY <1>1, <1>2, <1>3 DEF Taken

\* The attribute of a write in blocks does not admit it.
LEMMA DeniedTells ==
  ASSUME ~Duplicating, Shapes, Lawful, NEW m, Opens(m), NEW j \in Jobs, m.target = j.target,
         Denied(m)
  PROVE  Telling(m, j)
<1>1. /\ m.svc = "set" /\ Len(j.target) = 1 /\ j.target[1] \notin Writable
      /\ transfer' = Idle /\ UNCHANGED <<versions, performed>>
      /\ Answer(m, ResultReply(m, <<FALSE>>))
  BY DEF Denied
<1>2. DOMAIN j.target = {1}
  BY <1>1 DEF Jobs, Targets
<1>3. Allowed(<<FALSE>>, j.target)
  <2>1. <<FALSE>>[1] = FALSE
    OBVIOUS
  <2>2. (j.target[1] \in Writable) = FALSE
    BY <1>1
  <2>3. ASSUME NEW i \in DOMAIN j.target
        PROVE  <<FALSE>>[i] = (j.target[i] \in Writable)
    <3>1. i = 1
      BY <1>2
    <3> QED
      BY <2>1, <2>2, <3>1
  <2> QED
    BY <2>3 DEF Allowed
<1>4. \A w \in Operations(j.target, j.header, j.bytes) : w.of \notin Writable
  BY <1>1, <1>2 DEF Operations
<1> DEFINE reply == ResultReply(m, <<FALSE>>)
           s == Story(m, <<>>)
<1>5. reply.id = m.id /\ reply.svc = m.svc /\ reply.form = "result" /\ reply.data = <<FALSE>>
  BY DEF ResultReply
<1>6. s.svc = "set" /\ s.told /\ <<>> \in Bytes /\ s.svc # "action" /\ s.svc # "get"
  BY <1>1 DEF Story, Bytes
<1>7. Older
  BY <1>1, OlderStands DEF Shapes
<1> HIDE DEF reply, s
<1>8. Became(j, s)'
  BY <1>4, <1>6 DEF Became
<1>9. Report(reply, j, s)
  BY <1>1, <1>3, <1>5, <1>6 DEF Report
<1>10. Replied(m, reply)
  BY <1>1, <1>5, AnswerReplies DEF reply
<1>11. Gives(m, j, s, reply)
  BY <1>1, <1>9, <1>10 DEF Gives
<1> QED
  BY <1>1, <1>6, <1>7, <1>8, <1>11 DEF Telling, s

\* begin_blocked_set, begin_blocked_list_set and action-request-with-first-pblock.
LEMMA FirstTells ==
  ASSUME ~Duplicating, Shapes, PerformedAsAsked, Lawful, NEW book \in [Ids -> Jobs],
         NEW m \in requests, InUse(m.id), Fits(m, book[m.id]), HandleFirstBlock(m)
  PROVE  Outcome(m, book[m.id])
<1>1. m.form = "first"
  BY DEF HandleFirstBlock
<1>2. book[m.id] \in Jobs
  BY DEF InUse
<1>3. Sound(book[m.id]) /\ m.svc = book[m.id].svc /\ m.target = book[m.id].target
  BY <1>1 DEF Fits
<1>4. Opens(m) /\ StoreInv
  BY <1>1 DEF Opens, Shapes
<1>5. CASE Denied(m)
  BY <1>2, <1>3, <1>4, <1>5, DeniedTells DEF Outcome
<1>6. CASE Taken(m, [id |-> m.id, svc |-> m.svc], book[m.id])
  <2> DEFINE t == [id |-> m.id, svc |-> m.svc]
  <2>1. m.id = t.id /\ m.svc = t.svc
    OBVIOUS
  <2>2. Taken(m, t, book[m.id])
    BY <1>6
  <2> HIDE DEF t
  <2>3. Silent(m) \/ (m.id = t.id /\ Telling(m, book[m.id]))
    BY <1>2, <1>3, <1>4, <2>1, <2>2, TakenTells
  <2> QED
    BY <2>3 DEF Outcome
<1> QED
  BY <1>5, <1>6, FirstBlockKeeps

\* continue_blocked_set and continue_blocked_action.
LEMMA BlockTells ==
  ASSUME ~Duplicating, Shapes, PerformedAsAsked, Lawful, NEW book \in [Ids -> Jobs], Booked(book),
         NEW m \in requests, InUse(m.id), Fits(m, book[m.id]), HandleBlock(m)
  PROVE  Outcome(m, book[m.id])
<1>1. m.form = "block"
  BY DEF HandleBlock
<1>2. m.svc = book[m.id].svc
  BY <1>1 DEF Fits
<1>3. StoreInv
  BY DEF Shapes
<1>4. CASE /\ transfer.kind = "receiving" /\ transfer.svc = m.svc
           /\ Taken(m, transfer, book[transfer.id])
  <2>1. book[transfer.id] \in Jobs /\ Sound(book[transfer.id])
    BY <1>4 DEF Booked, InUse, Holds
  <2>2. Awaited(transfer.id, transfer.svc)
    BY <1>4 DEF Awaited
  <2>3. m.id = transfer.id => m.svc = book[transfer.id].svc
    BY <1>2
  <2>4. Silent(m) \/ (m.id = transfer.id /\ Telling(m, book[transfer.id]))
    BY <1>3, <1>4, <2>1, <2>2, <2>3, TakenTells
  <2> QED
    BY <2>4 DEF Outcome
<1>5. CASE /\ Answer(m, ErrorReply(m))
           /\ UNCHANGED <<transfer, response, versions, performed>>
  <2>1. Replied(m, ErrorReply(m)) /\ ErrorReply(m).form = "error"
    BY <1>5, ErrorReplies
  <2>2. Older
    BY <1>3, <1>5, OlderStands
  <2> QED
    BY <1>5, <2>1, <2>2 DEF Outcome, Silent
<1> QED
  BY <1>4, <1>5, BlockKeeps

\* Server::handle.
LEMMA HandleTells ==
  ASSUME ~Duplicating, Shapes, PerformedAsAsked, Lawful, NEW book \in [Ids -> Jobs], Booked(book),
         Handle
  PROVE  \E m \in requests : InUse(m.id) /\ Outcome(m, book[m.id])
<1>1. PICK m \in requests :
        \/ HandleGet(m)
        \/ HandleNext(m)
        \/ HandleSet(m)
        \/ HandleAction(m)
        \/ HandleFirstBlock(m)
        \/ HandleBlock(m)
  BY DEF Handle
<1>2. InUse(m.id) /\ Fits(m, book[m.id]) /\ book[m.id] \in Jobs
  BY DEF Booked, InUse
<1>3. CASE HandleGet(m)
  BY <1>2, <1>3, GetTells
<1>4. CASE HandleNext(m)
  BY <1>2, <1>4, NextTells
<1>5. CASE HandleSet(m) \/ HandleAction(m)
  BY <1>2, <1>5, WholeTells
<1>6. CASE HandleFirstBlock(m)
  BY <1>2, <1>6, FirstTells
<1>7. CASE HandleBlock(m)
  BY <1>2, <1>7, BlockTells
<1> QED
  BY <1>1, <1>2, <1>3, <1>4, <1>5, <1>6, <1>7

-----------------------------------------------------------------------------
(***************************************************************************)
(* The link and the server after each of the three.                        *)
(***************************************************************************)

\* What became of an invocation stays so.
LEMMA BecameStays ==
  ASSUME NEW j, NEW s, Became(j, s), performed \subseteq performed'
  PROVE  Became(j, s)'
BY DEF Became

\* The ids in use when no invocation is made.
LEMMA SameUse ==
  ASSUME NEW id, started' = started
  PROVE  InUse(id)' <=> InUse(id)
BY DEF InUse

\* The parts of what is known of the link.
LEMMA LinkedParts ==
  ASSUME NEW book, NEW story, Linked(book, story)
  PROVE  /\ \A m \in requests : Opens(m) =>
              /\ story[m.id].svc = m.svc /\ ~story[m.id].told
              /\ transfer.kind = "receiving" => transfer.id # m.id
         /\ \A m, n \in requests : Opens(m) /\ Opens(n) /\ m.id = n.id => m = n
         /\ transfer.kind = "receiving" =>
              story[transfer.id].svc = transfer.svc /\ ~story[transfer.id].told
         /\ transfer.kind = "sending" =>
              InUse(transfer.id) /\ Carries(transfer, response, story[transfer.id])
         /\ \A r \in responses : InUse(r.id) /\ Report(r, book[r.id], story[r.id])
         /\ \A id \in Ids : InUse(id) /\ story[id].told => Became(book[id], story[id])
BY DEF Linked

\* Nothing is told.
LEMMA SilentLinks ==
  ASSUME NEW book, NEW story, Linked(book, story), NEW m \in requests, InUse(m.id), Silent(m)
  PROVE  Linked(book, story)'
<1>1. /\ Older
      /\ \/ transfer' = Idle
         \/ UNCHANGED <<transfer, response>>
         \/ /\ transfer'.kind = "receiving"
            /\ \/ Awaited(transfer'.id, transfer'.svc)
               \/ Opens(m) /\ transfer'.id = m.id /\ transfer'.svc = m.svc
  BY DEF Silent
<1>2. PICK reply : Replied(m, reply) /\ reply.form \notin {"block", "result"}
  BY DEF Silent
<1>3. /\ requests' = requests \ {m} /\ responses' = responses \union {reply} /\ reply.id = m.id
      /\ started' = started
  BY <1>2 DEF Replied, clientVars
<1>4. Idle.kind = "idle"
  BY DEF Idle
<1>5. ASSUME NEW n \in requests', Opens(n)
      PROVE  /\ story[n.id].svc = n.svc /\ ~story[n.id].told
             /\ transfer'.kind = "receiving" => transfer'.id # n.id
  <2>1. n \in requests /\ n # m
    BY <1>3
  <2> QED
    BY <1>1, <1>4, <1>5, <2>1, LinkedParts DEF Awaited
<1>6. \A n, q \in requests' : Opens(n) /\ Opens(q) /\ n.id = q.id => n = q
  BY <1>3, LinkedParts
<1>7. transfer'.kind = "receiving" =>
        story[transfer'.id].svc = transfer'.svc /\ ~story[transfer'.id].told
  BY <1>1, <1>4, LinkedParts DEF Awaited
<1>8. transfer'.kind = "sending" =>
        InUse(transfer.id)' /\ Carries(transfer', response', story[transfer'.id])
  BY <1>1, <1>3, <1>4, LinkedParts DEF InUse
<1>9. ASSUME NEW r \in responses'
      PROVE  InUse(r.id)' /\ Report(r, book[r.id], story[r.id])
  <2>1. CASE r = reply
    BY <1>2, <1>3, <2>1, SameUse DEF Report
  <2>2. CASE r \in responses
    BY <1>3, <2>2, LinkedParts, SameUse
  <2> QED
    BY <1>3, <2>1, <2>2
<1>10. ASSUME NEW id \in Ids, InUse(id)', story[id].told
       PROVE  Became(book[id], story[id])'
  <2>1. Became(book[id], story[id]) /\ performed \subseteq performed'
    BY <1>1, <1>3, <1>10, LinkedParts, SameUse DEF Older
  <2> QED
    BY <2>1, BecameStays
<1>11. Lawful'
  BY <1>1 DEF Older
<1> QED
  BY <1>5, <1>6, <1>7, <1>8, <1>9, <1>10, <1>11 DEF Linked

\* The value is told: the story of the id is closed.
LEMMA TellingLinks ==
  ASSUME NEW book, NEW story \in [Ids -> Stories], Linked(book, story), NEW m \in requests,
         InUse(m.id), m.svc \in Kinds3, NEW value \in Bytes, NEW reply, NEW new,
         new = [story EXCEPT ![m.id] = Story(m, value)],
         Older, Opens(m) \/ Awaited(m.id, m.svc), Gives(m, book[m.id], Story(m, value), reply),
         Became(book[m.id], Story(m, value))'
  PROVE  /\ new \in [Ids -> Stories] /\ Linked(book, new)'
         /\ story[m.id].svc = m.svc /\ ~story[m.id].told
<1> DEFINE s == Story(m, value)
<1>1. s \in Stories /\ s.told /\ s.svc = m.svc
  BY DEF Story, Stories
<1>2. m.id \in Ids
  BY DEF InUse
<1> HIDE DEF s
<1>3. /\ new \in [Ids -> Stories] /\ new[m.id] = s
      /\ \A id : id # m.id /\ id \in Ids => new[id] = story[id]
  BY <1>1, <1>2 DEF s
<1>4. /\ requests' = requests \ {m} /\ responses' = responses \union {reply} /\ reply.id = m.id
      /\ started' = started
  BY DEF Gives, Replied, clientVars
<1>5. /\ Report(reply, book[m.id], s)
      /\ transfer' = Idle \/ (transfer'.id = m.id /\ Carries(transfer', response', s))
  BY DEF Gives, s
<1>6. Idle.kind = "idle"
  BY DEF Idle
<1>7. transfer'.kind # "receiving"
  BY <1>5, <1>6 DEF Carries
<1>8. story[m.id].svc = m.svc /\ ~story[m.id].told
  BY LinkedParts DEF Awaited
<1>9. ASSUME NEW n \in requests', Opens(n)
      PROVE  n.id # m.id
  <2>1. n \in requests /\ n # m
    BY <1>4
  <2> QED
    BY <1>9, <2>1, LinkedParts DEF Awaited
<1>10. ASSUME NEW n \in requests', Opens(n)
       PROVE  new[n.id].svc = n.svc /\ ~new[n.id].told
  <2>1. n \in requests /\ n.id # m.id
    BY <1>4, <1>9, <1>10
  <2>2. story[n.id].svc = n.svc /\ ~story[n.id].told
    BY <1>10, <2>1, LinkedParts
  <2>3. n.id \in Ids => new[n.id] = story[n.id]
    BY <1>3, <2>1
  <2> QED
    BY <2>2, <2>3
<1>11. \A n, q \in requests' : Opens(n) /\ Opens(q) /\ n.id = q.id => n = q
  BY <1>4, LinkedParts
<1>12. transfer'.kind = "sending" =>
         InUse(transfer.id)' /\ Carries(transfer', response', new[transfer'.id])
  BY <1>3, <1>4, <1>5, <1>6 DEF InUse
<1>13. ASSUME NEW r \in responses'
       PROVE  InUse(r.id)' /\ Report(r, book[r.id], new[r.id])
  <2>1. CASE r = reply
    BY <1>3, <1>4, <1>5, <2>1, SameUse
  <2>2. CASE r \in responses
    <3>1. InUse(r.id) /\ Report(r, book[r.id], story[r.id])
      BY <2>2, LinkedParts
    <3>2. InUse(r.id)' /\ r.id \in Ids
      BY <1>4, <3>1, SameUse DEF InUse
    <3>3. CASE r.id = m.id
      <4>1. r.form \notin {"block", "result"}
        BY <1>8, <3>1, <3>3 DEF Report
      <4> QED
        BY <3>2, <4>1 DEF Report
    <3>4. CASE r.id # m.id
      BY <1>3, <3>1, <3>2, <3>4
    <3> QED
      BY <3>3, <3>4
  <2> QED
    BY <1>4, <2>1, <2>2
<1>14. ASSUME NEW id \in Ids, InUse(id)', new[id].told
       PROVE  Became(book[id], new[id])'
  <2>1. CASE id = m.id
    BY <1>3, <2>1 DEF s
  <2>2. CASE id # m.id
    <3>1. Became(book[id], story[id]) /\ performed \subseteq performed'
      BY <1>3, <1>4, <1>14, <2>2, LinkedParts, SameUse DEF Older
    <3>2. Became(book[id], story[id])'
      BY <3>1, BecameStays
    <3> QED
      BY <1>3, <2>2, <3>2
  <2> QED
    BY <2>1, <2>2
<1>15. Lawful'
  BY DEF Older
<1> QED
  BY <1>3, <1>7, <1>8, <1>10, <1>11, <1>12, <1>13, <1>14, <1>15 DEF Linked

\* send_next_block: the next piece of the value is told.
LEMMA SendsOnLinks ==
  ASSUME ~Duplicating, Shapes, NEW book, NEW story \in [Ids -> Stories], Linked(book, story),
         NEW m \in requests, SendsOn(m)
  PROVE  /\ Linked(book, story)' /\ Older
         /\ \E reply : Replied(m, reply) /\ Report(reply, book[m.id], story[m.id])
<1>1. /\ transfer.kind = "sending" /\ transfer.svc = m.svc /\ m.id = transfer.id
      /\ SendNextBlock(m, transfer, response) /\ UNCHANGED <<versions, performed>>
  BY DEF SendsOn, Sending, NamesLastBlock
<1>2. InUse(m.id) /\ Carries(transfer, response, story[m.id]) /\ m.id \in Ids
  BY <1>1, LinkedParts DEF InUse
<1>3. PICK s \in Stories : s = story[m.id]
  BY <1>2
<1>4. /\ s.told /\ transfer.svc = s.svc /\ s.svc # "set" /\ transfer.block = transfer.sent
      /\ transfer.len = Len(s.value) /\ \A i \in 1 .. transfer.len : response[i] = s.value[i]
  BY <1>2, <1>3 DEF Carries
<1>5. /\ response \in Buffers /\ transfer \in Sendings /\ transfer.sent < transfer.len
      /\ transfer.len <= Buffer /\ transfer.sent \in Nat /\ transfer.len \in Nat /\ Buffer \in Nat
  BY <1>1, TransferKinds, Bounds DEF Shapes, SendingOK, Sendings
<1>6. PICK k \in Nat : k = transfer.sent
  BY <1>5
<1>7. FragmentEnd(transfer) = k + 1
  BY <1>5, <1>6 DEF FragmentEnd
<1> DEFINE reply == [svc |-> transfer.svc, id |-> transfer.id, form |-> "block",
                     number |-> k + 1, last |-> k + 1 = transfer.len,
                     data |-> SubSeq(response, k + 1, k + 1)]
<1>8. /\ response' = response
      /\ transfer' = IF k + 1 = transfer.len THEN Idle
                     ELSE [transfer EXCEPT !.sent = k + 1, !.block = k + 1]
      /\ Answer(m, reply)
  <2>1. transfer.block + 1 = k + 1 /\ transfer.sent + 1 = k + 1
    BY <1>4, <1>6
  <2>2. /\ response' = response
        /\ transfer' = IF FragmentEnd(transfer) = transfer.len THEN Idle
                       ELSE [transfer EXCEPT !.sent = FragmentEnd(transfer),
                                             !.block = transfer.block + 1]
        /\ Answer(m, [svc |-> transfer.svc, id |-> transfer.id, form |-> "block",
                      number |-> transfer.block + 1, last |-> FragmentEnd(transfer) = transfer.len,
                      data |-> SubSeq(response, transfer.sent + 1, FragmentEnd(transfer))])
    BY <1>1, <1>5 DEF SendNextBlock, Sendings
  <2> QED
    BY <1>7, <2>1, <2>2
<1>9. s.value \in Seq(Pieces) /\ Len(s.value) \in Nat /\ k + 1 \in 1 .. Len(s.value)
  BY <1>4, <1>5, <1>6 DEF Stories, Bytes
<1>10. SubSeq(response, k + 1, k + 1) = <<s.value[k + 1]>>
  <2>1. k + 1 \in Nat \ {0} /\ k + 1 \in Nat /\ k + 1 <= Buffer /\ k + 1 <= k + 1 + 1
    BY <1>4, <1>5, <1>9
  <2>2. PICK a \in Nat \ {0} : a = k + 1
    BY <2>1
  <2>3. a \in Nat /\ a <= Buffer /\ a <= a + 1 /\ a - a + 1 = 1
    BY <2>1, <2>2
  <2>4. /\ SubSeq(response, a, a) \in Seq(Pieces \union {NoPiece})
        /\ Len(SubSeq(response, a, a)) = a - a + 1
        /\ \A i \in 1 .. a - a + 1 : SubSeq(response, a, a)[i] = response[a + i - 1]
    BY <1>5, <2>3, PartFacts
  <2>5. a + 1 - 1 = a /\ 1 \in 1 .. 1
    OBVIOUS
  <2>6. Len(SubSeq(response, a, a)) = 1 /\ SubSeq(response, a, a)[1] = response[a]
    BY <2>3, <2>4, <2>5
  <2>7. response[a] = s.value[a]
    BY <1>4, <1>9, <2>2
  <2>8. /\ <<s.value[a]>> \in Seq(Pieces) /\ Len(<<s.value[a]>>) = 1
        /\ <<s.value[a]>>[1] = s.value[a]
    BY <1>9, <2>2
  <2>9. \A i \in 1 .. Len(<<s.value[a]>>) : SubSeq(response, a, a)[i] = <<s.value[a]>>[i]
    BY <2>6, <2>7, <2>8
  <2>10. SubSeq(response, a, a) = <<s.value[a]>>
    <3>1. PICK x \in Seq(Pieces \union {NoPiece}), y \in Seq(Pieces) :
            x = SubSeq(response, a, a) /\ y = <<s.value[a]>>
      BY <2>4, <2>8
    <3>2. Len(x) = Len(y) /\ \A i \in 1 .. Len(y) : x[i] = y[i]
      BY <2>6, <2>8, <2>9, <3>1
    <3>3. x = y
      BY <3>2, SameSequence
    <3> QED
      BY <3>1, <3>3
  <2> QED
    BY <2>2, <2>10
<1>11. /\ reply.svc = m.svc /\ reply.id = m.id /\ reply.form = "block" /\ reply.number = k + 1
       /\ reply.last = (k + 1 = transfer.len) /\ reply.data = <<s.value[k + 1]>>
  BY <1>1, <1>10
<1> HIDE DEF reply
<1>12. Report(reply, book[m.id], s)
  BY <1>1, <1>4, <1>9, <1>11 DEF Report
<1>13. Replied(m, reply)
  BY <1>8, <1>11, AnswerReplies
<1>14. Older
  BY <1>1, OlderStands DEF Shapes, Linked
<1>15. /\ requests' = requests \ {m} /\ responses' = responses \union {reply} /\ started' = started
  BY <1>13 DEF Replied, clientVars
<1>16. /\ transfer'.kind # "receiving"
       /\ transfer'.kind = "sending" => transfer'.id = m.id /\ Carries(transfer', response', s)
  <2>1. CASE k + 1 = transfer.len
    BY <1>8, <2>1 DEF Idle
  <2>2. CASE k + 1 # transfer.len
    <3>1. transfer' = [transfer EXCEPT !.sent = k + 1, !.block = k + 1]
      BY <1>8, <2>2
    <3>2. transfer \in [kind : {"sending"}, id : {m.id}, svc : {transfer.svc},
                        len : {transfer.len}, sent : Nat, block : Nat]
      BY <1>1, <1>5 DEF Sendings
    <3>3. transfer' \in [kind : {"sending"}, id : {m.id}, svc : {transfer.svc},
                         len : {transfer.len}, sent : {k + 1}, block : {k + 1}]
      BY <3>1, <3>2
    <3>4. /\ transfer'.kind = "sending" /\ transfer'.id = m.id /\ transfer'.svc = transfer.svc
          /\ transfer'.len = transfer.len /\ transfer'.block = transfer'.sent
      BY <3>3
    <3> QED
      BY <1>4, <1>8, <3>4 DEF Carries
  <2> QED
    BY <2>1, <2>2
<1>17. \A n \in requests' : Opens(n) => story[n.id].svc = n.svc /\ ~story[n.id].told
  BY <1>15, LinkedParts
<1>18. \A n, q \in requests' : Opens(n) /\ Opens(q) /\ n.id = q.id => n = q
  BY <1>15, LinkedParts
<1>19. transfer'.kind = "sending" =>
         InUse(transfer.id)' /\ Carries(transfer', response', story[transfer'.id])
  BY <1>2, <1>3, <1>15, <1>16 DEF InUse
<1>20. ASSUME NEW r \in responses'
       PROVE  InUse(r.id)' /\ Report(r, book[r.id], story[r.id])
  <2>1. CASE r = reply
    BY <1>2, <1>3, <1>11, <1>12, <1>15, <2>1, SameUse
  <2>2. CASE r \in responses
    BY <1>15, <2>2, LinkedParts, SameUse
  <2> QED
    BY <1>15, <2>1, <2>2
<1>21. ASSUME NEW id \in Ids, InUse(id)', story[id].told
       PROVE  Became(book[id], story[id])'
  <2>1. Became(book[id], story[id]) /\ performed \subseteq performed'
    BY <1>1, <1>15, <1>21, LinkedParts, SameUse
  <2> QED
    BY <2>1, BecameStays
<1>22. Lawful'
  BY <1>14 DEF Older
<1>23. Linked(book, story)'
  BY <1>16, <1>17, <1>18, <1>19, <1>20, <1>21, <1>22 DEF Linked
<1> QED
  BY <1>3, <1>12, <1>13, <1>14, <1>23

-----------------------------------------------------------------------------
(***************************************************************************)
(* The caller while the server works.                                      *)
(***************************************************************************)

\* A version the attribute has had stays one it has had.
LEMMA VersionStays ==
  ASSUME StoreInv, StoreInv', Older, NEW o \in Objects, NEW from \in Nat \ {0},
         NEW k \in from .. Len(versions[o])
  PROVE  k \in from .. Len(versions'[o]) /\ versions'[o][k] = versions[o][k]
<1>1. Len(versions[o]) \in Nat /\ Len(versions'[o]) \in Nat
  BY DEF StoreInv
<1>2. k \in 1 .. Len(versions[o]) /\ Len(versions[o]) <= Len(versions'[o])
  BY <1>1 DEF Older
<1> QED
  BY <1>1, <1>2 DEF Older

\* What has been answered stays answered as it was.
LEMMA SettledStays ==
  ASSUME StoreInv, StoreInv', Settled, Older, UNCHANGED <<done, caller>>
  PROVE  Settled'
<1> SUFFICES ASSUME done # NoOp, done.ok
             PROVE  Settled'
  BY DEF Settled
<1>1. performed \subseteq performed'
  BY DEF Older
<1>2. done.svc # "get" =>
        \E j \in Jobs : /\ Proper(j) /\ done.svc = j.svc /\ done.target = j.target
                        /\ done.bytes = j.bytes
                        /\ Became(j, [svc |-> done.svc, value |-> done.got])'
  BY <1>1, BecameStays DEF Settled
<1>3. ASSUME done.svc = "get", "get" \notin caller.interleaving
      PROVE  /\ done.target[1] \in Objects /\ done.since \in 1 .. Len(versions'[done.target[1]])
             /\ ReadIntact'
  <2>1. /\ done.target[1] \in Objects /\ done.since \in 1 .. Len(versions[done.target[1]])
        /\ \E k \in done.since .. Len(versions[done.target[1]]) :
             done.got = versions[done.target[1]][k]
    BY <1>3 DEF Settled, ReadIntact
  <2>2. Len(versions[done.target[1]]) \in Nat /\ Len(versions'[done.target[1]]) \in Nat
    BY <2>1 DEF StoreInv
  <2>3. done.since \in Nat \ {0}
    BY <2>1, <2>2
  <2>4. Len(versions[done.target[1]]) <= Len(versions'[done.target[1]])
    BY <2>1 DEF Older
  <2>5. done.since \in 1 .. Len(versions'[done.target[1]])
    BY <2>1, <2>2, <2>4
  <2>6. \E k \in done.since .. Len(versions'[done.target[1]]) :
          done.got = versions'[done.target[1]][k]
    <3>1. PICK o \in Objects, from \in Nat \ {0} : o = done.target[1] /\ from = done.since
      BY <2>1, <2>3
    <3>2. PICK v : v = done.got
      OBVIOUS
    <3>3. \E k \in from .. Len(versions[o]) : v = versions[o][k]
      BY <2>1, <3>1, <3>2
    <3>4. \E k \in from .. Len(versions'[o]) : v = versions'[o][k]
      BY <3>3, VersionStays
    <3> QED
      BY <3>1, <3>2, <3>4
  <2> QED
    BY <2>1, <2>5, <2>6 DEF ReadIntact
<1>4. done.svc = "set" => Allowed(done.got, done.target)
  BY DEF Settled
<1> QED
  BY <1>2, <1>3, <1>4 DEF Settled

\* The story of the caller's id may be closed while it waits, but not changed after that.
LEMMA AsksStays ==
  ASSUME Shapes, StoreInv', Older, op # NoOp, NEW s \in Stories, Asks(s), NEW t \in Stories,
         NEW m \in requests, NEW reply, Replied(m, reply),
         \A n \in requests : Opens(n) /\ Opens(m) /\ n.id = m.id => n = m,
         t.svc = s.svc, s.told => t = s,
         m.id = outstanding /\ reply.form = "block" => reply.svc = t.svc,
         Own(s) /\ op.svc = "get" /\ t.told /\ ~s.told =>
           \E k \in op.since .. Len(versions'[op.target[1]]) : t.value = versions'[op.target[1]][k]
  PROVE  Asks(t)'
<1>1. /\ requests' = requests \ {m} /\ responses' = responses \union {reply}
      /\ reply.id = m.id /\ reply.svc = m.svc
      /\ op' = op /\ outstanding' = outstanding /\ caller' = caller
  BY DEF Replied, fixed, clientVars
<1>2. Own(t)' <=> Own(s)
  BY <1>1 DEF Own
<1>3. op \in Ops /\ StoreInv
  BY DEF Shapes, OpInv
<1>4. ASSUME Own(s)
      PROVE  Collected(t)'
  <2>1. /\ ~op.aside /\ op.lastBlock <= Len(s.value) /\ op.got = SubSeq(s.value, 1, op.lastBlock)
        /\ op.lastBlock > 0 => s.told
    BY <1>4 DEF Asks, Collected
  <2>2. CASE s.told
    BY <1>1, <2>1, <2>2 DEF Collected
  <2>3. CASE ~s.told
    <3>1. op.lastBlock = 0
      BY <1>3, <2>1, <2>3 DEF Ops
    <3>2. op.got = <<>>
      <4>1. s.value \in Seq(Pieces)
        BY DEF Stories, Bytes
      <4> QED
        BY <2>1, <3>1, <4>1
    <3>3. SubSeq(t.value, 1, 0) = <<>> /\ 0 <= Len(t.value)
      <4>1. t.value \in Seq(Pieces)
        BY DEF Stories, Bytes
      <4> QED
        BY <4>1
    <3> QED
      BY <1>1, <2>1, <3>1, <3>2, <3>3 DEF Collected
  <2> QED
    BY <2>2, <2>3
<1>5. ASSUME Own(s), op.svc = "get"
      PROVE  Reads(t)'
  <2>1. /\ op.target[1] \in Objects /\ op.since \in 1 .. Len(versions[op.target[1]])
        /\ s.told => \E k \in op.since .. Len(versions[op.target[1]]) :
                       s.value = versions[op.target[1]][k]
        /\ \A n \in requests : Opens(n) /\ n.id = outstanding => n.target[1] = op.target[1]
    BY <1>5 DEF Asks, Reads
  <2>2. PICK o, from, value : o \in Objects /\ o = op.target[1] /\ from = op.since /\ value = t.value
    BY <2>1
  <2>3. /\ Len(versions[o]) \in Nat /\ Len(versions'[o]) \in Nat
        /\ Len(versions[o]) <= Len(versions'[o])
    BY <1>3, <2>2 DEF StoreInv, Older
  <2>4. from \in Nat \ {0} /\ from \in 1 .. Len(versions'[o])
    BY <2>1, <2>2, <2>3
  <2>5. t.told => \E k \in from .. Len(versions'[o]) : value = versions'[o][k]
    <3>1. CASE s.told
      <4>1. \E k \in from .. Len(versions[o]) : value = versions[o][k]
        BY <2>1, <2>2, <3>1
      <4> QED
        BY <1>3, <2>2, <2>4, <4>1, VersionStays, ZenonT(40)
    <3>2. CASE ~s.told
      BY <1>5, <2>2, <3>2
    <3> QED
      BY <3>1, <3>2
  <2> QED
    BY <1>1, <2>1, <2>2, <2>4, <2>5 DEF Reads
<1>6. ASSUME op.svc # "get", s.svc = "get"
      PROVE  Aside'
  <2>1. Aside
    BY <1>6 DEF Asks
  <2>2. ASSUME op.aside
        PROVE  /\ \A n \in requests' : n.id = outstanding => Opens(n)
               /\ \A r \in responses' : r.id = outstanding =>
                    /\ \A n \in requests' : n.id # outstanding
                    /\ \A q \in responses' : q.id = outstanding => q = r
    <3>1. /\ \A n \in requests : n.id = outstanding => Opens(n)
          /\ \A r \in responses : r.id = outstanding =>
               /\ \A n \in requests : n.id # outstanding
               /\ \A q \in responses : q.id = outstanding => q = r
      BY <2>1, <2>2 DEF Aside
    <3>2. CASE m.id = outstanding
      <4>1. \A r \in responses : r.id # outstanding
        BY <3>1, <3>2
      <4>2. \A n \in requests : n.id = outstanding => n = m
        BY <3>1, <3>2
      <4> QED
        BY <1>1, <3>1, <4>1, <4>2
    <3>3. CASE m.id # outstanding
      BY <1>1, <3>1, <3>3
    <3> QED
      BY <3>2, <3>3
  <2>3. ASSUME ~op.aside
        PROVE  /\ \A n \in requests' : n.id = outstanding => n.svc # "get"
               /\ \A r \in responses' : r.id = outstanding => r.form # "block"
    <3>1. /\ \A n \in requests : n.id = outstanding => n.svc # "get"
          /\ \A r \in responses : r.id = outstanding => r.form # "block"
      BY <2>1, <2>3 DEF Aside
    <3> QED
      BY <1>1, <1>6, <3>1
  <2> QED
    BY <1>1, <2>2, <2>3 DEF Aside
<1>7. s.svc \in {op.svc, "get"} /\ (op.aside => ~op.ready)
  BY DEF Asks
<1> QED
  BY <1>1, <1>2, <1>4, <1>5, <1>6, <1>7 DEF Asks

\* Server::handle, whatever it is given.
LEMMA HandleAnswers ==
  ASSUME ~Duplicating, Shapes, PerformedAsAsked, NEW book \in [Ids -> Jobs],
         NEW story \in [Ids -> Stories], Answering(book, story), Handle
  PROVE  AInv'
<1>1. Booked(book) /\ Linked(book, story) /\ Settled /\ (op # NoOp => Asks(story[outstanding]))
  BY DEF Answering
<1>2. Shapes' /\ PerformedAsAsked' /\ Booked(book)'
  BY <1>1, HandleKeeps
<1>3. StoreInv /\ StoreInv'
  BY <1>2 DEF Shapes
<1>4. Lawful
  BY <1>1 DEF Linked
<1>5. PICK m \in requests : InUse(m.id) /\ Outcome(m, book[m.id])
  BY <1>1, <1>4, HandleTells
<1>6. m.svc \in Kinds3 /\ m.id \in Ids
  BY <1>1, <1>5 DEF Booked, Fits, Kinds3, InUse
<1>7. op # NoOp => outstanding \in Ids
  BY DEF Shapes, IdInv, InUse
<1>8. \A n \in requests : Opens(n) /\ Opens(m) /\ n.id = m.id => n = m
  BY <1>1, LinkedParts
<1>9. SUFFICES ASSUME NEW new \in [Ids -> Stories], NEW reply, Linked(book, new)', Older,
                      Replied(m, reply),
                      \A id \in Ids : new[id].svc = story[id].svc /\ (story[id].told => new[id] = story[id]),
                      reply.form = "block" => reply.svc = new[m.id].svc,
                      op # NoOp /\ Own(story[outstanding]) /\ op.svc = "get"
                        /\ new[outstanding].told /\ ~story[outstanding].told =>
                        \E k \in op.since .. Len(versions'[op.target[1]]) :
                          new[outstanding].value = versions'[op.target[1]][k]
               PROVE  AInv'
  <2>1. CASE Silent(m)
    <3>1. Linked(book, story)' /\ Older
      BY <1>1, <1>5, <2>1, SilentLinks DEF Silent
    <3>2. PICK reply : Replied(m, reply) /\ reply.form \notin {"block", "result"}
      BY <2>1 DEF Silent
    <3> QED
      BY <1>9, <3>1, <3>2
  <2>2. CASE SendsOn(m)
    <3>1. Linked(book, story)' /\ Older
      BY <1>1, <2>2, SendsOnLinks
    <3>2. PICK reply : Replied(m, reply) /\ Report(reply, book[m.id], story[m.id])
      BY <1>1, <2>2, SendsOnLinks
    <3>3. reply.form = "block" => reply.svc = story[m.id].svc
      BY <3>2 DEF Report
    <3> QED
      BY <1>9, <3>1, <3>2, <3>3
  <2>3. CASE Telling(m, book[m.id])
    <3>1. PICK value, reply :
            /\ value \in Bytes
            /\ Gives(m, book[m.id], Story(m, value), reply)
            /\ Became(book[m.id], Story(m, value))'
            /\ m.svc = "get" => /\ m.form = "normal" /\ value = Current(m.target[1])
                                /\ UNCHANGED versions
      BY <2>3 DEF Telling
    <3>2. Older /\ (Opens(m) \/ Awaited(m.id, m.svc))
      BY <2>3 DEF Telling
    <3>3. PICK new : new = [story EXCEPT ![m.id] = Story(m, value)]
      OBVIOUS
    <3>4. /\ new \in [Ids -> Stories] /\ Linked(book, new)'
          /\ story[m.id].svc = m.svc /\ ~story[m.id].told
      BY <1>1, <1>5, <1>6, <3>1, <3>2, <3>3, TellingLinks
    <3>5. Story(m, value).svc = m.svc /\ Story(m, value).value = value
      BY DEF Story
    <3>6. new[m.id] = Story(m, value) /\ \A id \in Ids : id # m.id => new[id] = story[id]
      BY <1>6, <3>3
    <3>7. \A id \in Ids : new[id].svc = story[id].svc /\ (story[id].told => new[id] = story[id])
      BY <3>4, <3>5, <3>6
    <3>8. Replied(m, reply) /\ (reply.form = "block" => reply.svc = new[m.id].svc)
      BY <3>1, <3>6 DEF Gives, Report
    <3>9. ASSUME op # NoOp, Own(story[outstanding]), op.svc = "get", new[outstanding].told,
                 ~story[outstanding].told
          PROVE  \E k \in op.since .. Len(versions'[op.target[1]]) :
                   new[outstanding].value = versions'[op.target[1]][k]
      <4>1. m.id = outstanding
        BY <1>7, <3>6, <3>9
      <4>2. m.svc = "get"
        BY <3>4, <3>9, <4>1 DEF Own
      <4>3. m.form = "normal" /\ value = Current(m.target[1]) /\ versions' = versions
        BY <3>1, <4>2
      <4>4. Opens(m)
        BY <4>3 DEF Opens
      <4>5. /\ op.target[1] \in Objects /\ op.since \in 1 .. Len(versions[op.target[1]])
            /\ m.target[1] = op.target[1]
        BY <1>1, <3>9, <4>1, <4>4 DEF Asks, Reads
      <4>6. PICK o \in Objects : o = op.target[1]
        BY <4>5
      <4>7. versions[o] \in Seq(Bytes) /\ Len(versions[o]) \in Nat
        BY <1>3 DEF StoreInv
      <4>8. value = versions[o][Len(versions[o])]
        BY <4>3, <4>5, <4>6 DEF Current, Last
      <4>9. Len(versions[o]) \in op.since .. Len(versions[o])
        BY <4>5, <4>6, <4>7
      <4> QED
        BY <3>5, <3>6, <4>1, <4>3, <4>6, <4>8, <4>9
    <3> QED
      BY <1>9, <3>2, <3>4, <3>7, <3>8, <3>9
  <2> QED
    BY <1>5, <2>1, <2>2, <2>3 DEF Outcome
<1>10. op' = op /\ outstanding' = outstanding /\ done' = done /\ caller' = caller
  BY <1>9 DEF Replied, fixed, clientVars
<1>11. Settled'
  BY <1>1, <1>3, <1>9, <1>10, SettledStays
<1>12. op' # NoOp => Asks(new[outstanding])'
  <2> SUFFICES ASSUME op # NoOp
               PROVE  Asks(new[outstanding])'
    BY <1>10
  <2>1. PICK id \in Ids : id = outstanding
    BY <1>7
  <2>2. PICK s \in Stories, t \in Stories : s = story[id] /\ t = new[id]
    BY <1>9
  <2>3. Asks(s)
    BY <1>1, <2>1, <2>2
  <2>4. t.svc = s.svc /\ (s.told => t = s)
    BY <1>9, <2>2
  <2>5. m.id = outstanding /\ reply.form = "block" => reply.svc = t.svc
    BY <1>9, <2>1, <2>2
  <2>6. Own(s) /\ op.svc = "get" /\ t.told /\ ~s.told =>
          \E k \in op.since .. Len(versions'[op.target[1]]) : t.value = versions'[op.target[1]][k]
    BY <1>9, <2>1, <2>2
  <2>7. Asks(t)'
    BY <1>3, <1>8, <1>9, <2>3, <2>4, <2>5, <2>6, AsksStays
  <2> QED
    BY <1>10, <2>1, <2>2, <2>7
<1>13. Answering(book, new)'
  BY <1>2, <1>9, <1>11, <1>12 DEF Answering
<1> QED
  BY <1>2, <1>9, <1>13 DEF AInv

-----------------------------------------------------------------------------
(***************************************************************************)
(* The caller's own steps.                                                 *)
(***************************************************************************)

\* The link loses a response, or carries a request that begins nothing.
LEMMA LinkedStays ==
  ASSUME NEW book, NEW new, \A i : InUse(i) => new[i] = book[i], NEW story, Linked(book, story),
         UNCHANGED <<started, transfer, response, performed>>, responses' \subseteq responses,
         \A n \in requests' : n \in requests \/ ~Opens(n),
         transfer.kind = "receiving" => InUse(transfer.id)
  PROVE  Linked(new, story)'
<1>1. \A n \in requests' : Opens(n) => n \in requests
  OBVIOUS
<1>2. ASSUME NEW n \in requests', Opens(n)
      PROVE  /\ story[n.id].svc = n.svc /\ ~story[n.id].told
             /\ transfer'.kind = "receiving" => transfer'.id # n.id
  BY <1>1, <1>2, LinkedParts
<1>3. \A n, q \in requests' : Opens(n) /\ Opens(q) /\ n.id = q.id => n = q
  BY <1>1, LinkedParts
<1>4. transfer'.kind = "receiving" =>
        story[transfer'.id].svc = transfer'.svc /\ ~story[transfer'.id].told
  BY LinkedParts
<1>5. transfer'.kind = "sending" =>
        InUse(transfer.id)' /\ Carries(transfer', response', story[transfer'.id])
  BY LinkedParts DEF InUse
<1>6. ASSUME NEW r \in responses'
      PROVE  InUse(r.id)' /\ Report(r, new[r.id], story[r.id])
  <2>1. InUse(r.id) /\ Report(r, book[r.id], story[r.id])
    BY LinkedParts
  <2> QED
    BY <2>1, SameUse
<1>7. ASSUME NEW id \in Ids, InUse(id)', story[id].told
      PROVE  Became(new[id], story[id])'
  <2>1. InUse(id) /\ new[id] = book[id]
    BY <1>7, SameUse
  <2>2. Became(book[id], story[id]) /\ performed \subseteq performed'
    BY <1>7, <2>1, LinkedParts
  <2>3. Became(book[id], story[id])'
    BY <2>2, BecameStays
  <2> QED
    BY <2>1, <2>3
<1>8. Lawful'
  BY DEF Linked, Lawful
<1> QED
  BY <1>2, <1>3, <1>4, <1>5, <1>6, <1>7, <1>8 DEF Linked

\* A story that has only begun.
Begun(svc) == [svc |-> svc, told |-> FALSE, value |-> <<>>]

\* The link carries a request under a fresh id.
LEMMA LinkedBegins ==
  ASSUME NEW book, NEW new, \A i : InUse(i) => new[i] = book[i], NEW story \in [Ids -> Stories],
         Linked(book, story), NEW id \in Ids, ~InUse(id), \A i : InUse(i) => InUse(i)', InUse(id)',
         \A i : InUse(i)' => InUse(i) \/ i = id,
         NEW message, message.id = id, message.svc \in Kinds3,
         requests' = requests \union {message}, UNCHANGED <<serverVars, responses>>,
         \A n \in requests : InUse(n.id), transfer.kind = "receiving" => InUse(transfer.id),
         NEW after, after = [story EXCEPT ![id] = Begun(message.svc)]
  PROVE  after \in [Ids -> Stories] /\ Linked(new, after)'
<1>1. UNCHANGED <<transfer, response, versions, performed>>
  BY DEF serverVars, storeVars
<1>2. Begun(message.svc) \in Stories
  BY DEF Begun, Stories, Bytes
<1>3. /\ after \in [Ids -> Stories] /\ after[id] = Begun(message.svc)
      /\ \A i \in Ids : i # id => after[i] = story[i]
  BY <1>2
<1>4. ~after[id].told /\ after[id].svc = message.svc
  BY <1>3 DEF Begun
<1>5. \A i : InUse(i) => i # id /\ i \in Ids /\ after[i] = story[i]
  BY <1>3 DEF InUse
<1>6. ASSUME NEW n \in requests', Opens(n)
      PROVE  /\ after[n.id].svc = n.svc /\ ~after[n.id].told
             /\ transfer'.kind = "receiving" => transfer'.id # n.id
  <2>1. CASE n = message
    BY <1>1, <1>4, <1>5, <2>1
  <2>2. CASE n \in requests
    <3>1. /\ story[n.id].svc = n.svc /\ ~story[n.id].told
          /\ transfer.kind = "receiving" => transfer.id # n.id
      BY <1>6, <2>2, LinkedParts
    <3> QED
      BY <1>1, <1>5, <2>2, <3>1
  <2> QED
    BY <2>1, <2>2
<1>7. \A n, q \in requests' : Opens(n) /\ Opens(q) /\ n.id = q.id => n = q
  BY <1>5, LinkedParts
<1>8. transfer'.kind = "receiving" =>
        after[transfer'.id].svc = transfer'.svc /\ ~after[transfer'.id].told
  BY <1>1, <1>5, LinkedParts
<1>9. transfer'.kind = "sending" =>
        InUse(transfer.id)' /\ Carries(transfer', response', after[transfer'.id])
  <2> SUFFICES ASSUME transfer.kind = "sending"
               PROVE  InUse(transfer.id)' /\ Carries(transfer', response', after[transfer'.id])
    BY <1>1
  <2>1. PICK i : i = transfer.id
    OBVIOUS
  <2>2. InUse(i) /\ Carries(transfer, response, story[i])
    BY <2>1, LinkedParts
  <2>3. InUse(i)' /\ after[i] = story[i]
    BY <1>5, <2>2
  <2> QED
    BY <1>1, <2>1, <2>2, <2>3 DEF InUse
<1>10. ASSUME NEW r \in responses'
       PROVE  InUse(r.id)' /\ Report(r, new[r.id], after[r.id])
  <2>1. InUse(r.id) /\ Report(r, book[r.id], story[r.id])
    BY LinkedParts
  <2> QED
    BY <1>5, <2>1
<1>11. ASSUME NEW i \in Ids, InUse(i)', after[i].told
       PROVE  Became(new[i], after[i])'
  <2>1. InUse(i)
    BY <1>4, <1>11
  <2>2. new[i] = book[i] /\ after[i] = story[i]
    BY <1>5, <2>1
  <2>3. Became(book[i], story[i]) /\ performed \subseteq performed'
    BY <1>1, <1>11, <2>1, <2>2, LinkedParts
  <2>4. Became(book[i], story[i])'
    BY <2>3, BecameStays
  <2> QED
    BY <2>2, <2>4
<1>12. Lawful'
  BY <1>1 DEF Linked, Lawful
<1> QED
  BY <1>3, <1>6, <1>7, <1>8, <1>9, <1>10, <1>11, <1>12 DEF Linked

\* The invocation goes on and nothing is taken from what it has collected.
SameStand(o, p) ==
  /\ p.svc = o.svc /\ p.target = o.target /\ p.since = o.since /\ p.got = o.got
  /\ p.lastBlock = o.lastBlock /\ p.aside = o.aside

\* A step that leaves the invocation where it stands.
LEMMA AsksGoesOn ==
  ASSUME Shapes, StoreInv', Older, op # NoOp, NEW s \in Stories, Asks(s),
         SameStand(op, op'), op'.aside => ~op'.ready, UNCHANGED <<outstanding, caller>>,
         responses' \subseteq responses,
         \A n \in requests' : n \in requests \/ (~Opens(n) /\ n.svc = op.svc /\ ~op.aside)
  PROVE  Asks(s)'
<1>1. /\ op'.svc = op.svc /\ op'.target = op.target /\ op'.since = op.since /\ op'.got = op.got
      /\ op'.lastBlock = op.lastBlock /\ op'.aside = op.aside
  BY DEF SameStand
<1>2. Own(s)' <=> Own(s)
  BY <1>1 DEF Own
<1>3. StoreInv
  BY DEF Shapes
<1>4. Own(s) => Collected(s)'
  BY <1>1 DEF Asks, Collected
<1>5. ASSUME Own(s), op.svc = "get"
      PROVE  Reads(s)'
  <2>1. /\ op.target[1] \in Objects /\ op.since \in 1 .. Len(versions[op.target[1]])
        /\ s.told => \E k \in op.since .. Len(versions[op.target[1]]) :
                       s.value = versions[op.target[1]][k]
        /\ \A n \in requests : Opens(n) /\ n.id = outstanding => n.target[1] = op.target[1]
    BY <1>5 DEF Asks, Reads
  <2>2. PICK o, from : o \in Objects /\ o = op.target[1] /\ from = op.since
    BY <2>1
  <2>3. /\ Len(versions[o]) \in Nat /\ Len(versions'[o]) \in Nat
        /\ Len(versions[o]) <= Len(versions'[o])
    BY <1>3, <2>2 DEF StoreInv, Older
  <2>4. from \in Nat \ {0} /\ from \in 1 .. Len(versions'[o])
    BY <2>1, <2>2, <2>3
  <2>5. s.told => \E k \in from .. Len(versions'[o]) : s.value = versions'[o][k]
    <3> SUFFICES ASSUME s.told
                 PROVE  \E k \in from .. Len(versions'[o]) : s.value = versions'[o][k]
      OBVIOUS
    <3>1. PICK k \in from .. Len(versions[o]) : s.value = versions[o][k]
      BY <2>1, <2>2
    <3>2. k \in from .. Len(versions'[o]) /\ versions'[o][k] = versions[o][k]
      BY <1>3, <2>2, <2>4, VersionStays, SMTT(40)
    <3> QED
      BY <3>1, <3>2
  <2> QED
    BY <1>1, <2>1, <2>2, <2>4, <2>5 DEF Reads
<1>6. op.svc # "get" /\ s.svc = "get" => Aside'
  BY <1>1 DEF Asks, Aside
<1>7. s.svc \in {op.svc, "get"}
  BY DEF Asks
<1> QED
  BY <1>1, <1>2, <1>4, <1>5, <1>6, <1>7 DEF Asks

\* A step that invokes nothing, with what it does to the caller.
LEMMA GoesOn ==
  ASSUME NoWrap, Shapes, PerformedAsAsked, NEW book \in [Ids -> Jobs],
         NEW story \in [Ids -> Stories], Answering(book, story), [Next]_vars,
         UNCHANGED <<started, outstanding, transfer, response, performed>>,
         responses' \subseteq responses, \A n \in requests' : n \in requests \/ ~Opens(n),
         Settled', op' # NoOp => op # NoOp /\ Asks(story[outstanding])'
  PROVE  AInv'
<1>1. Booked(book) /\ Linked(book, story)
  BY DEF Answering
<1>2. Continued(book)
  BY <1>1, Continues
<1>3. PICK new \in [Ids -> Jobs] : Booked(new)' /\ \A i : InUse(i) => new[i] = book[i]
  BY <1>2 DEF Continued
<1>4. transfer.kind = "receiving" => InUse(transfer.id)
  BY <1>1 DEF Booked
<1>5. Linked(new, story)'
  BY <1>1, <1>3, <1>4, LinkedStays
<1>6. Answering(new, story)'
  BY <1>3, <1>5 DEF Answering
<1> QED
  BY <1>2, <1>6 DEF AInv, Continued

\* A step under a fresh id, with what it does to the caller.
LEMMA GoesOnAnew ==
  ASSUME NoWrap, Shapes, PerformedAsAsked, NEW book \in [Ids -> Jobs],
         NEW story \in [Ids -> Stories], Answering(book, story), [Next]_vars,
         started < Requests, started' = started + 1, outstanding' = NextInvokeId,
         NEW message, message.id = NextInvokeId, message.svc \in Kinds3,
         requests' = requests \union {message}, UNCHANGED <<fixed, done, serverVars, responses>>,
         Asks(Begun(message.svc))'
  PROVE  AInv'
<1>1. Booked(book) /\ Linked(book, story) /\ Settled
  BY DEF Answering
<1>2. Continued(book)
  BY <1>1, Continues
<1>3. PICK new \in [Ids -> Jobs] : Booked(new)' /\ \A i : InUse(i) => new[i] = book[i]
  BY <1>2 DEF Continued
<1>4. IdInv /\ StoreInv /\ StoreInv'
  BY <1>2 DEF Shapes, Continued
<1>5. /\ NextInvokeId \in Ids /\ ~InUse(NextInvokeId)
      /\ NextInvokeId = IF started' = IdMod THEN 0 ELSE started'
      /\ \A i : InUse(i) \/ i = NextInvokeId => InUse(i)'
  BY <1>4, NextIdFacts
<1>6. PICK id \in Ids : id = NextInvokeId
  BY <1>5
<1>7. ASSUME NEW i, InUse(i)'
      PROVE  InUse(i) \/ i = id
  <2>1. i \in Ids /\ (i \in 1 .. started' \/ (i = 0 /\ started' = IdMod))
    BY <1>7 DEF InUse
  <2>2. started \in Nat /\ Requests \in Nat /\ IdMod \in Nat \ {0} /\ Requests <= IdMod
    BY <1>4, Bounds DEF IdInv, NoWrap
  <2>3. id = IF started' = IdMod THEN 0 ELSE started'
    BY <1>5, <1>6
  <2> QED
    BY <2>1, <2>2, <2>3 DEF InUse, Ids
<1>8. /\ \A n \in requests : InUse(n.id)
      /\ transfer.kind = "receiving" => InUse(transfer.id)
  BY <1>1 DEF Booked
<1>9. PICK after : after = [story EXCEPT ![id] = Begun(message.svc)]
  OBVIOUS
<1>10. after \in [Ids -> Stories] /\ Linked(new, after)'
  BY <1>1, <1>3, <1>5, <1>6, <1>7, <1>8, <1>9, LinkedBegins
<1>11. Asks(after[outstanding])'
  BY <1>6, <1>9
<1>12. Settled'
  <2>1. Older
    BY <1>1, <1>4, OlderStands DEF serverVars, storeVars, Linked
  <2> QED
    BY <1>1, <1>4, <2>1, SettledStays DEF fixed
<1>13. Answering(new, after)'
  BY <1>3, <1>10, <1>11, <1>12 DEF Answering
<1> QED
  BY <1>2, <1>10, <1>13 DEF AInv, Continued

\* get_request between two blocks of a transfer.
LEMMA InterjectAnswers ==
  ASSUME NoWrap, Shapes, PerformedAsAsked, NEW book \in [Ids -> Jobs],
         NEW story \in [Ids -> Stories], Answering(book, story), Interject
  PROVE  AInv'
<1>1. /\ op # NoOp /\ op.svc \in caller.interleaving /\ started < Requests
      /\ started' = started + 1 /\ outstanding' = NextInvokeId
      /\ op' = [op EXCEPT !.ready = FALSE, !.aside = TRUE]
      /\ UNCHANGED <<fixed, asked, done, serverVars, responses>>
  BY DEF Interject
<1>2. PICK x \in Objects :
        requests' = requests \union
          {[svc |-> "get", form |-> "normal", id |-> NextInvokeId, target |-> <<x>>]}
  BY DEF Interject
<1>3. PICK message :
        message = [svc |-> "get", form |-> "normal", id |-> NextInvokeId, target |-> <<x>>]
  OBVIOUS
<1>4. /\ message.id = NextInvokeId /\ message.svc = "get" /\ message.form = "normal"
      /\ requests' = requests \union {message} /\ message.svc \in Kinds3
  BY <1>2, <1>3 DEF Kinds3
<1>5. op'.aside /\ ~op'.ready /\ op'.svc = op.svc
  BY <1>1 DEF Shapes, OpInv, Ops
<1>6. Booked(book) /\ Linked(book, story)
  BY DEF Answering
<1>7. ~InUse(NextInvokeId)
  BY <1>1, NextIdFacts DEF Shapes
<1>8. /\ \A n \in requests : n.id # NextInvokeId
      /\ \A r \in responses : r.id # NextInvokeId
  BY <1>6, <1>7, LinkedParts DEF Booked
<1>9. Aside'
  <2>1. Opens(message) /\ responses' = responses
    BY <1>1, <1>4 DEF Opens
  <2> QED
    BY <1>1, <1>4, <1>5, <1>8, <2>1 DEF Aside
<1>10. Begun(message.svc).svc = "get"
  BY <1>4 DEF Begun
<1>11. ~Own(Begun(message.svc))'
  BY <1>1, <1>5, <1>10 DEF Own, fixed
<1>12. Asks(Begun(message.svc))'
  BY <1>5, <1>9, <1>10, <1>11 DEF Asks
<1>13. [Next]_vars
  BY DEF Next
<1> QED
  BY <1>1, <1>4, <1>12, <1>13, GoesOnAnew

\* An invocation, before anything of its answer is there.
Begins ==
  \E o, message :
    /\ Invoke(o, message) /\ Opens(message) /\ message.id = NextInvokeId
    /\ message.svc = o.svc /\ o.svc \in Kinds3
    /\ o.aside = FALSE /\ o.lastBlock = 0 /\ o.got = <<>>
    /\ o.svc = "get" => /\ o.target[1] \in Objects /\ o.since = Len(versions[o.target[1]])
                        /\ message.target = o.target

\* get_request.
LEMMA GetBegins ==
  ASSUME GetRequest
  PROVE  Begins
<1>1. PICK x \in Objects :
        Invoke(Op("get", <<x>>, <<>>, <<>>),
               [svc |-> "get", form |-> "normal", id |-> NextInvokeId, target |-> <<x>>])
  BY DEF GetRequest
<1> DEFINE o == Op("get", <<x>>, <<>>, <<>>)
           message == [svc |-> "get", form |-> "normal", id |-> NextInvokeId, target |-> <<x>>]
<1>2. /\ o.svc = "get" /\ o.aside = FALSE /\ o.lastBlock = 0 /\ o.got = <<>> /\ o.target = <<x>>
      /\ o.since = Len(versions[<<x>>[1]])
  BY DEF Op
<1>3. <<x>>[1] = x
  OBVIOUS
<1>4. /\ message.svc = "get" /\ message.form = "normal" /\ message.id = NextInvokeId
      /\ message.target = <<x>>
  OBVIOUS
<1>5. Invoke(o, message)
  BY <1>1
<1> HIDE DEF o, message
<1>6. o.target[1] \in Objects /\ o.since = Len(versions[o.target[1]])
  BY <1>2, <1>3
<1> QED
  BY <1>2, <1>4, <1>5, <1>6 DEF Begins, Opens, Kinds3

\* set_request, action_request and the transfers, with the first block.
LEMMA ValueBegins ==
  ASSUME NEW svc \in Kinds, NEW target, NEW header, NEW bytes,
         WholeRequest(svc, target, header, bytes) \/ FirstBlockRequest(svc, target, header, bytes)
  PROVE  Begins
<1> DEFINE first == Op(svc, target, header, bytes)
<1>1. PICK since : since = first.since
  OBVIOUS
<1>2. first \in [n : {Tag}, svc : {svc}, target : {target}, header : {header}, bytes : {bytes},
                 sent : {0}, block : {0}, lastBlock : {0}, got : {<<>>}, ok : BOOLEAN,
                 ready : BOOLEAN, aside : {FALSE}, since : {since}]
  BY <1>1 DEF Op
<1> HIDE DEF first
<1>3. CASE WholeRequest(svc, target, header, bytes)
  <2>1. PICK message :
          /\ message = [svc |-> svc, form |-> "normal", id |-> NextInvokeId, target |-> target,
                        header |-> header, data |-> bytes]
          /\ Invoke([first EXCEPT !.sent = Len(bytes), !.block = 1], message)
    BY <1>3 DEF WholeRequest, first
  <2>2. PICK o : o = [first EXCEPT !.sent = Len(bytes), !.block = 1]
    OBVIOUS
  <2>3. o.svc = svc /\ o.aside = FALSE /\ o.lastBlock = 0 /\ o.got = <<>>
    BY <1>2, <2>2
  <2>4. message.svc = svc /\ message.form = "normal" /\ message.id = NextInvokeId
    BY <2>1
  <2>5. Invoke(o, message)
    BY <2>1, <2>2
  <2> QED
    BY <2>3, <2>4, <2>5 DEF Begins, Opens, Kinds, Kinds3
<1>4. CASE FirstBlockRequest(svc, target, header, bytes)
  <2>1. PICK message :
          /\ message = [svc |-> svc, form |-> "first", id |-> NextInvokeId, target |-> target,
                        header |-> header, block |-> NextBlock(first)]
          /\ Invoke(AfterNextBlock(first), message)
    BY <1>4 DEF FirstBlockRequest, first
  <2>2. PICK o : o = AfterNextBlock(first)
    OBVIOUS
  <2>3. o.svc = svc /\ o.aside = FALSE /\ o.lastBlock = 0 /\ o.got = <<>>
    BY <1>2, <2>2 DEF AfterNextBlock
  <2>4. message.svc = svc /\ message.form = "first" /\ message.id = NextInvokeId
    BY <2>1
  <2>5. Invoke(o, message)
    BY <2>1, <2>2
  <2> QED
    BY <2>3, <2>4, <2>5 DEF Begins, Opens, Kinds, Kinds3
<1> QED
  BY <1>3, <1>4

\* A request begins an invocation, whichever it is.
LEMMA RequestBegins ==
  ASSUME SetRequest \/ SetListRequest \/ ActionRequest
  PROVE  Begins
<1>1. "set" \in Kinds /\ "action" \in Kinds
  BY DEF Kinds
<1>2. CASE SetRequest
  <2>1. PICK x \in Objects, n \in Sizes :
          \E header \in {<<>>, <<Piece(x, Tag, 0)>>} :
            ValueRequest("set", <<x>>, header, Value(x, Tag, n))
    BY <1>2 DEF SetRequest
  <2>2. PICK header, bytes : ValueRequest("set", <<x>>, header, bytes)
    BY <2>1
  <2>3. \/ WholeRequest("set", <<x>>, header, bytes)
        \/ FirstBlockRequest("set", <<x>>, header, bytes)
    BY <2>2 DEF ValueRequest
  <2> QED
    BY <1>1, <2>3, ValueBegins
<1>3. CASE SetListRequest
  <2>1. PICK list \in Lists :
          \/ WholeRequest("set", list, Names(list, Tag), ValueList(list, Tag))
          \/ FirstBlockRequest("set", list, Names(list, Tag), ValueList(list, Tag))
    BY <1>3 DEF SetListRequest
  <2>2. PICK header, bytes : \/ WholeRequest("set", list, header, bytes)
                             \/ FirstBlockRequest("set", list, header, bytes)
    BY <2>1
  <2> QED
    BY <1>1, <2>2, ValueBegins
<1>4. CASE ActionRequest
  <2>1. PICK x \in Methods, n \in Sizes : ValueRequest("action", <<x>>, <<>>, Value(x, Tag, n))
    BY <1>4 DEF ActionRequest
  <2>2. PICK bytes : ValueRequest("action", <<x>>, <<>>, bytes)
    BY <2>1
  <2>3. \/ WholeRequest("action", <<x>>, <<>>, bytes)
        \/ FirstBlockRequest("action", <<x>>, <<>>, bytes)
    BY <2>2 DEF ValueRequest
  <2> QED
    BY <1>1, <2>3, ValueBegins
<1> QED
  BY <1>2, <1>3, <1>4

\* A new invocation: nothing of its answer is under way.
LEMMA BeginsAnswers ==
  ASSUME NoWrap, Shapes, PerformedAsAsked, NEW book \in [Ids -> Jobs],
         NEW story \in [Ids -> Stories], Answering(book, story), [Next]_vars, Begins
  PROVE  AInv'
<1>1. PICK o, message :
        /\ Invoke(o, message) /\ Opens(message) /\ message.id = NextInvokeId
        /\ message.svc = o.svc /\ o.svc \in Kinds3
        /\ o.aside = FALSE /\ o.lastBlock = 0 /\ o.got = <<>>
        /\ o.svc = "get" => /\ o.target[1] \in Objects /\ o.since = Len(versions[o.target[1]])
                            /\ message.target = o.target
  BY DEF Begins
<1>2. /\ started < Requests /\ started' = started + 1 /\ outstanding' = NextInvokeId /\ op' = o
      /\ requests' = requests \union {message}
      /\ UNCHANGED <<fixed, done, serverVars, responses>>
  BY <1>1 DEF Invoke
<1>3. Booked(book) /\ Linked(book, story)
  BY DEF Answering
<1>4. ~InUse(NextInvokeId)
  BY <1>2, NextIdFacts DEF Shapes
<1>5. \A n \in requests : n.id # NextInvokeId
  BY <1>3, <1>4 DEF Booked
<1>6. PICK s : s = Begun(message.svc)
  OBVIOUS
<1>7. s.svc = o.svc /\ ~s.told /\ s.value = <<>>
  BY <1>1, <1>6 DEF Begun
<1>8. Collected(s)'
  <2>1. SubSeq(s.value, 1, 0) = <<>> /\ 0 <= Len(s.value)
    <3>1. <<>> \in Seq(Pieces) /\ Len(<<>>) = 0
      OBVIOUS
    <3>2. SubSeq(<<>>, 1, 0) = <<>>
      BY <3>1
    <3> QED
      BY <1>7, <3>1, <3>2
  <2> QED
    <3>1. ~op'.aside /\ op'.lastBlock = 0 /\ op'.got = <<>>
      BY <1>1, <1>2
    <3>2. ~(0 > 0)
      OBVIOUS
    <3> QED
      BY <2>1, <3>1, <3>2 DEF Collected
<1>9. o.svc = "get" => Reads(s)'
  <2> SUFFICES ASSUME o.svc = "get"
               PROVE  Reads(s)'
    OBVIOUS
  <2>1. PICK x \in Objects : x = o.target[1]
    BY <1>1
  <2>2. versions' = versions
    BY <1>2 DEF serverVars, storeVars
  <2>3. Len(versions[x]) \in Nat \ {0}
    BY DEF Shapes, StoreInv
  <2>4. o.since \in 1 .. Len(versions'[x])
    BY <1>1, <2>1, <2>2, <2>3
  <2>5. \A n \in requests' : Opens(n) /\ n.id = outstanding' => n.target[1] = o.target[1]
    BY <1>1, <1>2, <1>5
  <2> QED
    BY <1>2, <1>7, <2>1, <2>4, <2>5 DEF Reads
<1>10. Asks(s)'
  BY <1>1, <1>2, <1>7, <1>8, <1>9 DEF Asks
<1> QED
  BY <1>1, <1>2, <1>6, <1>10, GoesOnAnew

\* next_block_request, get_next_block_request and action_next_block_request.
LEMMA ContinueAnswers ==
  ASSUME NoWrap, Shapes, PerformedAsAsked, NEW book \in [Ids -> Jobs],
         NEW story \in [Ids -> Stories], Answering(book, story),
         NextBlockRequest \/ NextResultRequest
  PROVE  AInv'
<1>1. PICK message :
        /\ Continue(message) /\ message.svc = op.svc /\ message.form \in {"block", "next"}
        /\ op # NoOp /\ op.ready
        /\ op' = AfterNextBlock(op) \/ op' = [op EXCEPT !.ready = FALSE]
  <2>1. CASE NextBlockRequest
    <3>1. PICK message : message = [svc |-> op.svc, form |-> "block", id |-> outstanding,
                                    block |-> NextBlock(op)]
      OBVIOUS
    <3>2. message.svc = op.svc /\ message.form = "block"
      BY <3>1
    <3> QED
      BY <2>1, <3>1, <3>2 DEF NextBlockRequest
  <2>2. CASE NextResultRequest
    <3>1. PICK message : message = [svc |-> op.svc, form |-> "next", id |-> outstanding,
                                    number |-> op.lastBlock]
      OBVIOUS
    <3>2. message.svc = op.svc /\ message.form = "next"
      BY <3>1
    <3> QED
      BY <2>2, <3>1, <3>2 DEF NextResultRequest
  <2> QED
    BY <2>1, <2>2
<1>2. /\ requests' = requests \union {message} /\ responses' = responses
      /\ UNCHANGED <<started, outstanding, transfer, response, versions, performed, updated>>
      /\ UNCHANGED <<done, caller>>
  BY <1>1 DEF Continue, serverVars, storeVars, fixed
<1>3. op \in Ops /\ InUse(outstanding) /\ StoreInv
  BY <1>1 DEF Shapes, OpInv, IdInv
<1>4. SameStand(op, op') /\ op'.ready = FALSE
  <2>1. CASE op' = [op EXCEPT !.ready = FALSE]
    BY <1>3, <2>1 DEF Ops, SameStand
  <2>2. CASE op' = AfterNextBlock(op)
    BY <1>3, <2>2 DEF Ops, SameStand, AfterNextBlock
  <2> QED
    BY <1>1, <2>1, <2>2
<1>5. PICK id \in Ids : id = outstanding
  BY <1>3 DEF InUse
<1>6. PICK s \in Stories : s = story[id]
  OBVIOUS
<1>7. Asks(s) /\ Settled /\ Lawful
  BY <1>1, <1>5, <1>6 DEF Answering, Linked
<1>8. ~op.aside
  BY <1>1, <1>7 DEF Asks
<1>9. Older
  BY <1>2, <1>3, <1>7, OlderStands
<1>10. StoreInv'
  BY <1>2, <1>3 DEF StoreInv
<1>11. ~Opens(message)
  BY <1>1 DEF Opens
<1>12. Asks(s)'
  BY <1>1, <1>2, <1>4, <1>7, <1>8, <1>9, <1>10, <1>11, AsksGoesOn
<1>13. Settled'
  BY <1>2, <1>3, <1>7, <1>9, <1>10, SettledStays
<1>14. Asks(story[outstanding])'
  BY <1>2, <1>5, <1>6, <1>12
<1>15. [Next]_vars
  BY DEF Next
<1> QED
  BY <1>1, <1>2, <1>11, <1>13, <1>14, <1>15, GoesOn

\* The collector has the first blocks and is given the next.
LEMMA FrontGrows ==
  ASSUME NEW v \in Bytes, NEW n \in Nat, n + 1 <= Len(v)
  PROVE  SubSeq(v, 1, n) \o <<v[n + 1]>> = SubSeq(v, 1, n + 1)
<1>1. v \in Seq(Pieces) /\ Len(v) \in Nat
  BY DEF Bytes
<1>2. SubSeq(v, 1, n) \in Seq(Pieces) /\ Len(SubSeq(v, 1, n)) = n
  BY <1>1
<1>3. <<v[n + 1]>> \in Seq(Pieces) /\ Len(<<v[n + 1]>>) = 1 /\ <<v[n + 1]>>[1] = v[n + 1]
  BY <1>1
<1>4. SubSeq(v, 1, n + 1) \in Seq(Pieces) /\ Len(SubSeq(v, 1, n + 1)) = n + 1
  BY <1>1
<1>5. PICK a \in Seq(Pieces), b \in Seq(Pieces), c \in Seq(Pieces) :
        a = SubSeq(v, 1, n) /\ b = <<v[n + 1]>> /\ c = SubSeq(v, 1, n + 1)
  BY <1>2, <1>3, <1>4
<1>6. /\ \A i \in 1 .. n : a[i] = v[i]
      /\ \A i \in 1 .. n + 1 : c[i] = v[i]
  BY <1>1, <1>5
<1>7. /\ a \o b \in Seq(Pieces) /\ Len(a \o b) = n + 1
      /\ \A i \in 1 .. n : (a \o b)[i] = a[i]
      /\ (a \o b)[n + 1] = b[1]
  <2>1. Len(a) = n /\ Len(b) = 1
    BY <1>2, <1>3, <1>5
  <2>2. a \o b \in Seq(Pieces) /\ Len(a \o b) = Len(a) + Len(b)
    OBVIOUS
  <2>3. \A i \in 1 .. Len(a) + Len(b) :
          (a \o b)[i] = IF i <= Len(a) THEN a[i] ELSE b[i - Len(a)]
    OBVIOUS
  <2>4. n + 1 \in 1 .. n + 1 /\ ~(n + 1 <= n) /\ n + 1 - n = 1
    OBVIOUS
  <2>5. \A i \in 1 .. n : i \in 1 .. n + 1 /\ i <= n
    OBVIOUS
  <2> QED
    BY <2>1, <2>2, <2>3, <2>4, <2>5
<1>8. \A i \in 1 .. Len(c) : (a \o b)[i] = c[i]
  <2>1. ASSUME NEW i \in 1 .. n + 1
        PROVE  i \in 1 .. n \/ i = n + 1
    OBVIOUS
  <2> QED
    BY <1>3, <1>4, <1>5, <1>6, <1>7, <2>1
<1>9. Len(a \o b) = Len(c)
  BY <1>4, <1>5, <1>7
<1>10. a \o b = c
  BY <1>5, <1>7, <1>8, <1>9, SameSequence
<1> QED
  BY <1>5, <1>10

\* All blocks of a value are the value.
LEMMA WholeFront ==
  ASSUME NEW v \in Bytes
  PROVE  SubSeq(v, 1, Len(v)) = v
BY DEF Bytes

\* The invocation ends with the value or the result that was told.
LEMMA FinishSettles ==
  ASSUME Shapes, op # NoOp, NEW j \in Jobs, op.svc # "get" => IsJob(op, j),
         NEW s \in Stories, Asks(s), s.told, Became(j, s), s.svc = op.svc, NEW answer,
         op.svc = "set" => Allowed(answer, op.target), op.svc # "set" => answer = s.value,
         Finish(TRUE, answer), UNCHANGED <<versions, performed, caller>>
  PROVE  Settled'
<1>1. op \in Ops
  BY DEF Shapes, OpInv
<1>2. done' = [op EXCEPT !.ok = TRUE, !.got = answer]
  BY DEF Finish
<1>3. /\ done'.svc = op.svc /\ done'.target = op.target /\ done'.bytes = op.bytes
      /\ done'.since = op.since /\ done'.got = answer
  BY <1>1, <1>2 DEF Ops
<1>4. PICK t : t = [svc |-> op.svc, value |-> answer]
  OBVIOUS
<1>5. ASSUME op.svc # "get"
      PROVE  /\ Proper(j) /\ op.svc = j.svc /\ op.target = j.target /\ op.bytes = j.bytes
             /\ Became(j, t)'
  <2>1. /\ Sound(j) /\ op.svc = j.svc /\ op.target = j.target /\ op.bytes = j.bytes
    BY <1>5 DEF IsJob
  <2>2. Proper(j)
    BY <2>1 DEF Sound, Proper
  <2>3. t.svc = s.svc /\ (t.svc = "action" => t.value = s.value)
    BY <1>4
  <2>4. Became(j, t)
    BY <2>3 DEF Became
  <2>5. Became(j, t)'
    BY <2>4, BecameStays
  <2> QED
    BY <2>1, <2>2, <2>5
<1>6. ASSUME op.svc = "get", "get" \notin caller.interleaving
      PROVE  /\ op.target[1] \in Objects /\ op.since \in 1 .. Len(versions'[op.target[1]])
             /\ \E k \in op.since .. Len(versions'[op.target[1]]) :
                  answer = versions'[op.target[1]][k]
  <2>1. Reads(s)
    BY <1>6 DEF Asks, Own
  <2> QED
    BY <1>6, <2>1 DEF Reads
<1>7. ReadIntact' <=> ((done'.svc = "get" /\ done'.ok) =>
                        \E k \in done'.since .. Len(versions'[done'.target[1]]) :
                          done'.got = versions'[done'.target[1]][k])
  BY DEF ReadIntact
<1>8. done'.svc # "get" =>
        \E i \in Jobs : /\ Proper(i) /\ done'.svc = i.svc /\ done'.target = i.target
                        /\ done'.bytes = i.bytes
                        /\ Became(i, [svc |-> done.svc, value |-> done.got])'
  <2> SUFFICES ASSUME op.svc # "get"
               PROVE  Became(j, [svc |-> done.svc, value |-> done.got])'
    BY <1>3, <1>5
  <2>1. [svc |-> done'.svc, value |-> done'.got] = t
    BY <1>3, <1>4
  <2> QED
    BY <1>5, <2>1
<1>9. done'.svc = "get" /\ "get" \notin caller'.interleaving =>
        /\ done'.target[1] \in Objects /\ done'.since \in 1 .. Len(versions'[done'.target[1]])
        /\ ReadIntact'
  BY <1>3, <1>6, <1>7
<1>10. done'.svc = "set" => Allowed(done'.got, done'.target)
  BY <1>3
<1> QED
  BY <1>8, <1>9, <1>10 DEF Settled

\* The invocation ends with an error.
LEMMA ErrorSettles ==
  ASSUME op \in Ops, Finish(FALSE, <<>>)
  PROVE  Settled'
<1>1. done' = [op EXCEPT !.ok = FALSE, !.got = <<>>]
  BY DEF Finish
<1>2. done'.ok = FALSE
  BY <1>1 DEF Ops
<1> QED
  BY <1>2 DEF Settled

\* The collector takes a block of its own value, which may be the last.
LEMMA PushAnswers ==
  ASSUME Shapes, op # NoOp, NEW j \in Jobs, op.svc # "get" => IsJob(op, j), op.svc # "set",
         NEW s \in Stories, Asks(s), Own(s), Became(j, s), NEW m, m.form = "block",
         Report(m, j, s), Settled, Push(m),
         UNCHANGED <<versions, performed, caller, outstanding, requests>>
  PROVE  Settled' /\ (op' # NoOp => Asks(s)')
<1>1. op \in Ops /\ op.lastBlock \in Nat /\ StoreInv
  BY DEF Shapes, OpInv, Ops
<1>2. /\ s.told /\ m.number \in 1 .. Len(s.value) /\ m.data = <<s.value[m.number]>>
      /\ m.last <=> m.number = Len(s.value)
  BY DEF Report
<1>3. /\ ~op.aside /\ op.lastBlock <= Len(s.value) /\ op.got = SubSeq(s.value, 1, op.lastBlock)
      /\ s.svc = op.svc
  BY DEF Asks, Collected, Own
<1>4. s.value \in Bytes /\ Len(s.value) \in Nat
  BY DEF Stories, Bytes
<1>5. CASE m.number # op.lastBlock + 1
  <2>1. op' = NoOp /\ done' = done
    BY <1>5 DEF Push, GiveUp
  <2>2. Settled'
    <3>1. Settled' <=> Settled
      BY <2>1 DEF Settled, ReadIntact, Became
    <3> QED
      BY <3>1
  <2> QED
    BY <2>1, <2>2
<1>6. CASE m.number = op.lastBlock + 1
  <2>1. PICK n \in Nat : n = op.lastBlock
    BY <1>1
  <2>2. n + 1 <= Len(s.value) /\ m.number = n + 1 /\ n + 1 \in Nat
    BY <1>2, <1>4, <1>6, <2>1
  <2>3. op.got \o m.data = SubSeq(s.value, 1, n + 1)
    <3>1. SubSeq(s.value, 1, n) \o <<s.value[n + 1]>> = SubSeq(s.value, 1, n + 1)
      BY <1>4, <2>2, FrontGrows
    <3> QED
      BY <1>2, <1>3, <2>1, <2>2, <3>1
  <2>4. CASE m.last
    <3>1. Finish(TRUE, op.got \o m.data)
      BY <1>6, <2>4 DEF Push
    <3>2. op.got \o m.data = s.value
      BY <1>2, <1>4, <2>2, <2>3, <2>4, WholeFront
    <3>3. Finish(TRUE, s.value)
      BY <3>1, <3>2
    <3>4. PICK answer : answer = s.value
      OBVIOUS
    <3>5. Settled'
      BY <1>2, <1>3, <3>3, <3>4, FinishSettles
    <3>6. op' = NoOp
      BY <3>1 DEF Finish
    <3> QED
      BY <3>5, <3>6
  <2>5. CASE ~m.last
    <3>1. /\ op' = [op EXCEPT !.got = @ \o m.data, !.lastBlock = m.number, !.ready = TRUE]
          /\ done' = done
      BY <1>6, <2>5 DEF Push
    <3>2. op' = [op EXCEPT !.got = op.got \o m.data, !.lastBlock = m.number, !.ready = TRUE]
      BY <1>1, <3>1 DEF Ops
    <3>3. /\ op'.svc = op.svc /\ op'.target = op.target /\ op'.since = op.since
          /\ op'.got = op.got \o m.data /\ op'.lastBlock = m.number /\ op'.aside = op.aside
      BY <1>1, <3>2 DEF Ops
    <3>4. Collected(s)'
      BY <1>2, <1>3, <2>2, <2>3, <3>3 DEF Collected
    <3>5. Settled'
      <4>1. Settled' <=> Settled
        BY <3>1 DEF Settled, ReadIntact, Became
      <4> QED
        BY <4>1
    <3>6. Own(s)' <=> Own(s)
      BY <3>3 DEF Own
    <3>7. op.svc = "get" => Reads(s)'
      BY <3>3 DEF Asks, Reads
    <3>8. Asks(s)'
      BY <1>3, <3>3, <3>4, <3>6, <3>7 DEF Asks
    <3> QED
      BY <3>5, <3>8
  <2> QED
    BY <2>4, <2>5
<1> QED
  BY <1>5, <1>6

\* What the caller does with a response under its id.
LEMMA UseAnswers ==
  ASSUME Shapes, op # NoOp, NEW j \in Jobs, op.svc # "get" => IsJob(op, j),
         NEW s \in Stories, Asks(s), s.told => Became(j, s), NEW m \in responses,
         m.id = outstanding, Report(m, j, s), Settled, UseResponse(m),
         responses' = responses \ {m}, StoreInv', Older,
         UNCHANGED <<versions, performed, caller, outstanding, requests>>
  PROVE  Settled' /\ (op' # NoOp => Asks(s)')
<1>1. op \in Ops /\ StoreInv
  BY DEF Shapes, OpInv
<1>2. done' = done => Settled'
  <2>1. done' = done => (Settled' <=> Settled)
    BY DEF Settled, ReadIntact, Became
  <2> QED
    BY <2>1
<1>3. s.svc \in {op.svc, "get"} /\ (op.svc # "get" /\ s.svc = "get" => Aside)
  BY DEF Asks
<1>4. CASE op.aside
  <2>1. op' = [op EXCEPT !.aside = FALSE, !.ready = TRUE] /\ done' = done
    BY <1>4 DEF UseResponse
  <2>2. op'.svc = op.svc /\ op'.aside = FALSE
    BY <1>1, <2>1 DEF Ops
  <2>3. ~Own(s)
    BY <1>4 DEF Asks, Collected
  <2>4. ~Own(s)'
    BY <2>2, <2>3 DEF Own
  <2>5. op.svc # "get" /\ s.svc = "get" => Aside'
    <3> SUFFICES ASSUME Aside
                 PROVE  Aside'
      BY <1>3
    <3>1. /\ \A n \in requests : n.id # outstanding
          /\ \A q \in responses : q.id = outstanding => q = m
      BY <1>4 DEF Aside
    <3> QED
      BY <2>2, <3>1 DEF Aside
  <2>6. Asks(s)'
    BY <1>3, <2>2, <2>4, <2>5 DEF Asks
  <2> QED
    BY <1>2, <2>1, <2>6
<1>5. CASE ~op.aside /\ m.form = "block" /\ op.svc # "set"
  <2>1. Push(m)
    BY <1>5 DEF UseResponse
  <2>2. s.told
    BY <1>5 DEF Report
  <2>3. CASE Own(s)
    BY <1>5, <2>1, <2>2, <2>3, PushAnswers
  <2>4. CASE ~Own(s)
    <3>1. op.svc = "get"
      BY <1>3, <1>5, <2>4 DEF Aside, Own
    <3>2. "get" \in caller.interleaving
      BY <1>3, <2>4, <3>1 DEF Own
    <3>3. \/ op' = NoOp /\ done' = done
          \/ op' = NoOp /\ \E answer : done' = [op EXCEPT !.ok = TRUE, !.got = answer]
          \/ /\ done' = done
             /\ \E got, n : op' = [op EXCEPT !.got = got, !.lastBlock = n, !.ready = TRUE]
      <4>1. \/ GiveUp
            \/ Finish(TRUE, op.got \o m.data)
            \/ /\ done' = done
               /\ op' = [op EXCEPT !.got = @ \o m.data, !.lastBlock = m.number, !.ready = TRUE]
        BY <2>1 DEF Push
      <4>2. op' = [op EXCEPT !.got = @ \o m.data, !.lastBlock = m.number, !.ready = TRUE] =>
            op' = [op EXCEPT !.got = op.got \o m.data, !.lastBlock = m.number, !.ready = TRUE]
        BY <1>1 DEF Ops
      <4> QED
        BY <4>1, <4>2 DEF GiveUp, Finish
    <3>4. CASE op' = NoOp /\ done' = done
      BY <1>2, <3>4
    <3>5. CASE op' = NoOp /\ \E answer : done' = [op EXCEPT !.ok = TRUE, !.got = answer]
      <4>1. done'.svc = "get"
        BY <1>1, <3>1, <3>5 DEF Ops
      <4>2. Settled'
        BY <3>2, <4>1 DEF Settled
      <4> QED
        BY <3>5, <4>2
    <3>6. CASE /\ done' = done
               /\ \E got, n : op' = [op EXCEPT !.got = got, !.lastBlock = n, !.ready = TRUE]
      <4>1. op'.svc = op.svc /\ op'.aside = op.aside
        BY <1>1, <3>6 DEF Ops
      <4>2. ~Own(s)'
        BY <3>1, <3>2, <4>1 DEF Own
      <4>3. Asks(s)'
        BY <1>3, <1>5, <3>1, <4>1, <4>2 DEF Asks
      <4> QED
        BY <1>2, <3>6, <4>3
    <3> QED
      BY <3>3, <3>4, <3>5, <3>6
  <2> QED
    BY <2>3, <2>4
<1>6. CASE ~op.aside /\ ~(m.form = "block" /\ op.svc # "set")
  <2>1. \/ op' = [op EXCEPT !.ready = TRUE] /\ done' = done
        \/ m.form = "result" /\ m.svc = op.svc /\ Finish(TRUE, m.data)
        \/ Finish(FALSE, <<>>)
        \/ GiveUp
    BY <1>6 DEF UseResponse
  <2>2. CASE op' = [op EXCEPT !.ready = TRUE] /\ done' = done
    <3>1. SameStand(op, op') /\ ~op'.aside
      BY <1>1, <1>6, <2>2 DEF SameStand, Ops
    <3>2. Asks(s)'
      BY <3>1, AsksGoesOn
    <3> QED
      BY <1>2, <2>2, <3>2
  <2>3. CASE m.form = "result" /\ m.svc = op.svc /\ Finish(TRUE, m.data)
    <3>1. s.told /\ m.svc = s.svc /\ IF s.svc = "set" THEN Allowed(m.data, j.target) ELSE m.data = s.value
      BY <2>3 DEF Report
    <3>2. s.svc = op.svc /\ op' = NoOp
      BY <2>3, <3>1 DEF Finish
    <3>3. op.svc = "set" => Allowed(m.data, op.target)
      BY <3>1, <3>2 DEF IsJob
    <3>4. op.svc # "set" => m.data = s.value
      BY <3>1, <3>2
    <3>5. Finish(TRUE, m.data)
      BY <2>3
    <3>6. Settled'
      BY <3>1, <3>2, <3>3, <3>4, <3>5, FinishSettles
    <3> QED
      BY <3>2, <3>6
  <2>4. CASE Finish(FALSE, <<>>)
    <3>1. op' = NoOp
      BY <2>4 DEF Finish
    <3> QED
      BY <1>1, <2>4, <3>1, ErrorSettles
  <2>5. CASE GiveUp
    BY <1>2, <2>5 DEF GiveUp
  <2> QED
    BY <2>1, <2>2, <2>3, <2>4, <2>5
<1> QED
  BY <1>4, <1>5, <1>6

\* A step of the caller that sends nothing, and leaves the store alone.
LEMMA QuietAnswers ==
  ASSUME NoWrap, Shapes, PerformedAsAsked, NEW book \in [Ids -> Jobs],
         NEW story \in [Ids -> Stories], Answering(book, story), [Next]_vars,
         UNCHANGED <<fixed, started, outstanding, transfer, response, performed, requests>>,
         responses' \subseteq responses, StoreInv', Older, UNCHANGED done,
         op' = NoOp \/ op' = op
  PROVE  AInv'
<1>1. Settled /\ (op # NoOp => Asks(story[outstanding]))
  BY DEF Answering
<1>2. caller' = caller /\ StoreInv
  BY DEF fixed, Shapes
<1>3. Settled'
  BY <1>1, <1>2, SettledStays
<1>4. op' # NoOp => op # NoOp /\ Asks(story[outstanding])'
  <2> SUFFICES ASSUME op # NoOp, op' = op
               PROVE  Asks(story[outstanding])'
    OBVIOUS
  <2>1. PICK id \in Ids : id = outstanding
    BY DEF Shapes, IdInv, InUse
  <2>2. PICK s \in Stories : s = story[id]
    OBVIOUS
  <2>3. Asks(s)
    BY <1>1, <2>1, <2>2
  <2>4. SameStand(op, op') /\ (op'.aside => ~op'.ready)
    BY <2>3 DEF SameStand, Asks
  <2>5. Asks(s)'
    BY <1>2, <2>3, <2>4, AsksGoesOn
  <2> QED
    BY <2>1, <2>2, <2>5
<1> QED
  BY <1>3, <1>4, GoesOn

\* handle_response.
LEMMA ResponseAnswers ==
  ASSUME ~Duplicating, NoWrap, Shapes, PerformedAsAsked, NEW book \in [Ids -> Jobs],
         NEW story \in [Ids -> Stories], Answering(book, story), HandleResponse
  PROVE  AInv'
<1>1. PICK m \in responses :
        /\ responses' = IF Duplicating THEN responses ELSE responses \ {m}
        /\ IF op = NoOp \/ ~Answers(m) THEN UNCHANGED <<op, done>> ELSE UseResponse(m)
        /\ UNCHANGED <<fixed, invokeId, outstanding, started, asked, serverVars, requests>>
  BY DEF HandleResponse
<1>2. /\ responses' = responses \ {m}
      /\ UNCHANGED <<fixed, started, outstanding, transfer, response, performed, requests>>
      /\ UNCHANGED <<versions, updated, caller>>
  BY <1>1 DEF serverVars, storeVars, fixed
<1>3. StoreInv /\ StoreInv'
  BY <1>2 DEF Shapes, StoreInv
<1>4. Booked(book) /\ Linked(book, story) /\ Settled /\ (op # NoOp => Asks(story[outstanding]))
  BY DEF Answering
<1>5. Older
  BY <1>2, <1>3, <1>4, OlderStands DEF Linked
<1>6. [Next]_vars
  BY DEF Next
<1>7. CASE op = NoOp \/ ~Answers(m)
  <2>1. op' = op /\ done' = done
    BY <1>1, <1>7
  <2> QED
    BY <1>2, <1>3, <1>5, <1>6, <2>1, QuietAnswers
<1>8. CASE ~(op = NoOp \/ ~Answers(m))
  <2>1. op # NoOp /\ UseResponse(m)
    BY <1>1, <1>8
  <2>2. PICK id \in Ids : id = outstanding /\ InUse(id)
    BY <2>1 DEF Shapes, IdInv, InUse
  <2>3. m.id = outstanding
    <3>1. NoId \notin Ids
      BY Bounds DEF NoId, Ids
    <3> QED
      BY <1>8, <2>2, <3>1 DEF Answers
  <2>4. PICK s \in Stories, j \in Jobs : s = story[id] /\ j = book[id]
    OBVIOUS
  <2>5. Report(m, j, s) /\ (s.told => Became(j, s)) /\ Asks(s)
    BY <1>4, <2>1, <2>2, <2>3, <2>4, LinkedParts
  <2>6. op.svc # "get" => IsJob(op, j)
    BY <1>4, <2>1, <2>2, <2>4 DEF Booked
  <2>7. Settled' /\ (op' # NoOp => Asks(s)')
    BY <1>2, <1>3, <1>4, <1>5, <2>1, <2>3, <2>5, <2>6, UseAnswers
  <2>8. op' # NoOp => op # NoOp /\ Asks(story[outstanding])'
    BY <1>2, <2>1, <2>2, <2>4, <2>7
  <2> QED
    BY <1>2, <1>6, <2>7, <2>8, GoesOn
<1> QED
  BY <1>7, <1>8

\* The meter changes an attribute by itself.
LEMMA UpdateAnswers ==
  ASSUME NoWrap, Shapes, PerformedAsAsked, NEW book \in [Ids -> Jobs],
         NEW story \in [Ids -> Stories], Answering(book, story), MeterUpdates
  PROVE  AInv'
<1>1. UNCHANGED <<fixed, clientVars, transfer, response, performed, requests, responses>>
  BY DEF MeterUpdates
<1>2. /\ UNCHANGED <<fixed, started, outstanding, transfer, response, performed, requests>>
      /\ responses' \subseteq responses /\ UNCHANGED done /\ op' = op
  BY <1>1 DEF clientVars
<1>3. [Next]_vars
  BY DEF Next
<1>4. Booked(book) /\ Lawful
  BY DEF Answering, Linked
<1>5. StoreInv /\ StoreInv'
  <2>1. Continued(book)
    BY <1>3, <1>4, Continues
  <2> QED
    BY <2>1 DEF Continued, Shapes
<1>6. Older
  <2>1. PICK x \in Objects, n \in Sizes :
          versions' = [versions EXCEPT ![x] = Append(@, Value(x, Requests + updated + 1, n))]
    BY DEF MeterUpdates
  <2>2. Value(x, Requests + updated + 1, n) \in Bytes
    <3>1. Requests + updated + 1 \in Nat /\ n \in Nat /\ x \in Addressable
      BY <1>5, Bounds DEF Addressable, StoreInv
    <3> QED
      BY <3>1, ValuePieces
  <2>3. PICK v \in Bytes : v = Value(x, Requests + updated + 1, n)
    BY <2>2
  <2>4. versions \in [Objects -> Seq(Bytes)]
    BY <1>5 DEF StoreInv
  <2>5. versions' = [versions EXCEPT ![x] = Append(versions[x], v)]
    BY <2>1, <2>3, <2>4
  <2>6. ASSUME NEW o \in Objects
        PROVE  /\ Len(versions[o]) <= Len(versions'[o])
               /\ \A k \in 1 .. Len(versions[o]) : versions'[o][k] = versions[o][k]
    <3>1. versions[o] \in Seq(Bytes) /\ Len(versions[o]) \in Nat
      BY <2>4
    <3>2. CASE o = x
      <4>1. versions'[o] = Append(versions[o], v)
        BY <2>4, <2>5, <3>2
      <4> QED
        BY <3>1, <4>1
    <3>3. CASE o # x
      <4>1. versions'[o] = versions[o]
        BY <2>4, <2>5, <3>3
      <4> QED
        BY <3>1, <4>1
    <3> QED
      BY <3>2, <3>3
  <2> QED
    BY <1>2, <1>4, <2>6 DEF Older, Lawful
<1> QED
  BY <1>2, <1>3, <1>5, <1>6, QuietAnswers

\* The caller's timeout, and a step that changes nothing.
LEMMA AbandonAnswers ==
  ASSUME NoWrap, Shapes, PerformedAsAsked, NEW book \in [Ids -> Jobs],
         NEW story \in [Ids -> Stories], Answering(book, story), Abandon \/ UNCHANGED vars
  PROVE  AInv'
<1>1. /\ UNCHANGED <<fixed, started, outstanding, transfer, response, performed, requests>>
      /\ UNCHANGED <<versions, updated>> /\ responses' \subseteq responses
      /\ UNCHANGED done /\ (op' = NoOp \/ op' = op)
  BY DEF Abandon, GiveUp, vars, clientVars, serverVars, storeVars
<1>2. [Next]_vars
  BY DEF Next
<1>3. Lawful
  BY DEF Answering, Linked
<1>4. StoreInv /\ StoreInv'
  BY <1>1 DEF Shapes, StoreInv
<1>5. Older
  BY <1>1, <1>3, <1>4, OlderStands
<1> QED
  BY <1>1, <1>2, <1>4, <1>5, QuietAnswers

-----------------------------------------------------------------------------
(***************************************************************************)
(* The theorems.                                                           *)
(***************************************************************************)

\* Both ends as they start.
LEMMA AnswersStart ==
  ASSUME Init
  PROVE  AInv
<1>1. PICK book \in [Ids -> Jobs] : Shapes /\ PerformedAsAsked /\ Booked(book)
  BY Start DEF IInv
<1>2. <<>> \in Bytes
  BY DEF Bytes
<1>3. PICK story \in [Ids -> Stories] :
        story = [i \in Ids |-> [svc |-> "get", told |-> FALSE, value |-> <<>>]]
  BY <1>2 DEF Stories, Kinds3
<1>4. \A i : ~InUse(i)
  BY Bounds DEF Init, InUse
<1>5. Linked(book, story)
  BY <1>4 DEF Init, Linked, Lawful, Idle
<1>6. Settled
  BY DEF Init, Settled
<1>7. op = NoOp
  BY DEF Init
<1>8. Answering(book, story)
  BY <1>1, <1>5, <1>6, <1>7 DEF Answering
<1> QED
  BY <1>1, <1>3, <1>8 DEF AInv

\* Every step keeps the invariant.
LEMMA AnswersStep ==
  ASSUME NoWrap, ~Duplicating, AInv, [Next]_vars
  PROVE  AInv'
<1>1. PICK book \in [Ids -> Jobs], story \in [Ids -> Stories] :
        Shapes /\ PerformedAsAsked /\ Answering(book, story)
  BY DEF AInv
<1>2. CASE GetRequest
  BY <1>1, <1>2, GetBegins, BeginsAnswers
<1>3. CASE SetRequest \/ SetListRequest \/ ActionRequest
  BY <1>1, <1>3, RequestBegins, BeginsAnswers
<1>4. CASE NextBlockRequest \/ NextResultRequest
  BY <1>1, <1>4, ContinueAnswers
<1>5. CASE HandleResponse
  BY <1>1, <1>5, ResponseAnswers
<1>6. CASE Abandon \/ UNCHANGED vars
  BY <1>1, <1>6, AbandonAnswers
<1>7. CASE Interject
  BY <1>1, <1>7, InterjectAnswers
<1>8. CASE Handle
  BY <1>1, <1>8, HandleAnswers
<1>9. CASE MeterUpdates
  BY <1>1, <1>9, UpdateAnswers
<1> QED
  BY <1>2, <1>3, <1>4, <1>5, <1>6, <1>7, <1>8, <1>9 DEF Next

\* One story to an id, whichever order requests and responses are delivered in.
THEOREM OneStoryPerId ==
  ASSUME NoWrap, ~Duplicating
  PROVE  Spec => []AInv
<1>1. Init => AInv
  BY AnswersStart
<1>2. AInv /\ [Next]_vars => AInv'
  BY AnswersStep
<1> QED
  BY <1>1, <1>2, PTL DEF Spec

\* What has been settled is what the client was told.
LEMMA SettledMatches ==
  ASSUME Settled, Lawful
  PROVE  AnswersMatch
<1> SUFFICES ASSUME done.svc \in {"set", "action"}, done.ok, NEW i \in DOMAIN done.target
             PROVE  LET mine == {p \in performed :
                                   /\ p.did.of = done.target[i]
                                   /\ p.did.value = Values(done.target, done.bytes)[i]}
                    IN  IF done.svc = "set" THEN done.got[i] = (mine # {})
                        ELSE \E p \in mine : p.result = done.got
  BY DEF AnswersMatch
<1> DEFINE mine == {p \in performed :
                      /\ p.did.of = done.target[i]
                      /\ p.did.value = Values(done.target, done.bytes)[i]}
<1>1. done # NoOp
  BY DEF NoOp
<1>2. PICK j \in Jobs : /\ Proper(j) /\ done.svc = j.svc /\ done.target = j.target
                        /\ done.bytes = j.bytes
                        /\ Became(j, [svc |-> done.svc, value |-> done.got])
  BY <1>1 DEF Settled
<1>3. j.target \in Seq(Addressable) /\ i \in 1 .. Len(j.target)
  BY <1>2 DEF Jobs, Targets
<1>4. CASE done.svc = "set"
  <2>1. j.target[i] \in Objects
    BY <1>2, <1>3, <1>4 DEF Proper
  <2>2. ASSUME j.target[i] \in Writable
        PROVE  mine # {}
    <3>1. PICK w : w = [of |-> j.target[i], header |-> j.header,
                        value |-> Values(j.target, j.bytes)[i]]
      OBVIOUS
    <3>2. /\ w \in Operations(j.target, j.header, j.bytes) /\ w.of = j.target[i]
          /\ w.value = Values(j.target, j.bytes)[i]
      BY <1>2, <3>1 DEF Operations
    <3>3. [did |-> w, result |-> <<>>] \in performed
      BY <1>2, <1>4, <2>2, <3>2 DEF Became
    <3>4. [did |-> w, result |-> <<>>] \in mine
      BY <1>2, <3>2, <3>3
    <3> QED
      BY <3>4
  <2>3. ASSUME mine # {}
        PROVE  j.target[i] \in Writable
    BY <1>2, <2>1, <2>3, ObjectsAssumption DEF Lawful
  <2> HIDE DEF mine
  <2>4. (j.target[i] \in Writable) = (mine # {})
    BY <2>2, <2>3
  <2>5. done.got[i] = (j.target[i] \in Writable)
    BY <1>1, <1>2, <1>4 DEF Settled, Allowed
  <2> QED
    BY <1>4, <2>4, <2>5 DEF mine
<1>5. CASE done.svc = "action"
  <2>1. Len(j.target) = 1 /\ i = 1
    BY <1>2, <1>3, <1>5 DEF Proper
  <2>2. PICK p \in performed : p.did = Call(j) /\ p.result = done.got
    BY <1>2, <1>5 DEF Became
  <2>3. p.did.of = j.target[1] /\ p.did.value = j.bytes
    BY <2>2 DEF Call
  <2>4. Values(j.target, j.bytes)[1] = j.bytes
    BY <2>1 DEF Values
  <2>5. p \in mine
    BY <1>2, <2>1, <2>3, <2>4
  <2> QED
    BY <1>5, <2>2, <2>5
<1> QED
  BY <1>4, <1>5

\* What the client is told of a write or of a method call is what became of that one,
\* over a link that delays, reorders and loses, whatever the caller abandons or reads in
\* between, until an invoke id comes round again.
THEOREM AnswersAreOurs ==
  ASSUME NoWrap, ~Duplicating
  PROVE  Spec => []AnswersMatch
<1>1. AInv => AnswersMatch
  BY SettledMatches DEF AInv, Answering, Linked
<1> QED
  BY <1>1, OneStoryPerId, PTL

\* A read gives one value the attribute really had since it was asked for, though the
\* attribute changes between the blocks, for a caller that does not read something else
\* between the blocks of a read.
THEOREM ReadsAreWhole ==
  ASSUME NoWrap, ~Duplicating, \A c \in Callers : "get" \notin c.interleaving
  PROVE  Spec => []ReadIntact
<1>1. AInv => ReadIntact
  <2> SUFFICES ASSUME Shapes, Settled, done.svc = "get", done.ok
               PROVE  ReadIntact
    BY DEF AInv, Answering, ReadIntact
  <2>1. caller \in Callers
    BY DEF Shapes
  <2>2. done # NoOp
    BY DEF NoOp
  <2> QED
    BY <2>1, <2>2 DEF Settled
<1> QED
  BY <1>1, OneStoryPerId, PTL
=============================================================================
