----------------------------- MODULE ListsProofs ----------------------------
(***************************************************************************)
(* Proofs about Lists, for every set of batches, rights, sizes and bounds. *)
(***************************************************************************)
EXTENDS Lists, FiniteSetTheorems, SequenceTheorems, TLAPS

(***************************************************************************)
(* The invocation numbers.                                                 *)
(***************************************************************************)

\* An invocation the caller waits for.
Waiting(o) ==
  \E N, I, B, G :
    o \in [n : N, svc : {"get", "action", "access", "read", "write"}, items : I,
           lastBlock : B, got : G, ready : BOOLEAN]

\* Invocations are numbered as they are made, and the store has heard of none beyond the
\* last.  An unconfirmed write on its way is none of those that are waited for or answered.
NumbersInv ==
  /\ started \in 0 .. Requests /\ DOMAIN calls = 1 .. Requests
  /\ op = NoOp \/ (Waiting(op) /\ op.n = started /\ started > 0)
  /\ done # NoOp => done.n \in 1 .. started /\ (op # NoOp => done.n # op.n)
  /\ \A r \in requests :
       /\ r.n \in 1 .. started
       /\ r.svc = "unconfirmed" =>
            /\ r.form = "list"
            /\ op # NoOp => r.n # op.n
            /\ done # NoOp => r.n # done.n
  /\ \A n \in 1 .. Requests : n > started => calls[n] = NoCalls

(***************************************************************************)
(* What a caller that waits has under way.                                 *)
(***************************************************************************)
Confirmed(r) == r.svc # "unconfirmed"

\* At most one of: the request, the response.  A list that has not arrived has not been
\* begun, and an exception on its way tells of an invocation that was not.
UnderWay ==
  /\ \A r \in requests : Confirmed(r) =>
       /\ op # NoOp /\ r.n = op.n /\ ~op.ready /\ responses = {}
       /\ r.form = "list" => calls[r.n] = NoCalls
       /\ \A s \in requests : Confirmed(s) => s = r
  /\ \A m \in responses :
       /\ op # NoOp /\ ~op.ready
       /\ \A k \in responses : k = m
       /\ m.form = "exception" => ~Touched(op.n)

PatientInv == ~caller.impatient => UnderWay /\ RefusedUntouched

Inv == NumbersInv /\ PatientInv

-----------------------------------------------------------------------------

\* An invocation the caller waits for is one.
LEMMA WaitingFacts ==
  ASSUME NEW o, Waiting(o)
  PROVE  /\ o # NoOp /\ o.svc # "unconfirmed"
         /\ \A got, block : LET q == [o EXCEPT !.got = got, !.lastBlock = block, !.ready = TRUE]
                            IN  Waiting(q) /\ q.n = o.n /\ q # NoOp
         /\ LET q == [o EXCEPT !.ready = FALSE]
            IN  Waiting(q) /\ q.n = o.n /\ q # NoOp /\ ~q.ready
<1> DEFINE Set(N, I, B, G) ==
             [n : N, svc : {"get", "action", "access", "read", "write"}, items : I,
              lastBlock : B, got : G, ready : BOOLEAN]
<1>1. PICK N, I, B, G : o \in Set(N, I, B, G)
  BY DEF Waiting
<1>2. \A q : Waiting(q) => q # NoOp
  BY DEF Waiting, NoOp
<1>3. ASSUME NEW g, NEW b
      PROVE  LET q == [o EXCEPT !.got = g, !.lastBlock = b, !.ready = TRUE]
             IN  Waiting(q) /\ q.n = o.n
  <2> DEFINE q == [o EXCEPT !.got = g, !.lastBlock = b, !.ready = TRUE]
  <2>1. q \in Set(N, I, B \union {b}, G \union {g}) /\ q.n = o.n
    BY <1>1
  <2>2. ASSUME NEW r, NEW X, NEW Y, r \in Set(N, I, X, Y)
        PROVE  Waiting(r)
    BY <2>2 DEF Waiting
  <2> HIDE DEF q, Set
  <2>3. Waiting(q)
    BY <2>1, <2>2
  <2> QED
    BY <2>1, <2>3 DEF q
<1>4. LET q == [o EXCEPT !.ready = FALSE]
      IN  Waiting(q) /\ q.n = o.n /\ ~q.ready
  <2> DEFINE q == [o EXCEPT !.ready = FALSE]
  <2>1. q \in Set(N, I, B, G) /\ q.n = o.n /\ ~q.ready
    BY <1>1
  <2> HIDE DEF q
  <2>2. Waiting(q)
    BY <2>1 DEF Waiting
  <2> QED
    BY <2>1, <2>2 DEF q
<1>5. o.svc # "unconfirmed"
  BY <1>1
<1> QED
  BY <1>2, <1>3, <1>4, <1>5

\* Whether an invocation was carried out depends on what the store said of it.
LEMMA TouchedSame ==
  ASSUME NEW n, calls'[n] = calls[n]
  PROVE  Touched(n)' <=> Touched(n)
BY DEF Touched, Called

\* Nothing of an invocation the store has not heard of was carried out.
LEMMA Untouched ==
  ASSUME NEW n, calls[n] = NoCalls
  PROVE  ~Touched(n)
BY DEF Touched, NoCalls

\* Steps that leave the store alone.
LEMMA CallsSame ==
  ASSUME UNCHANGED calls
  PROVE  \A n : Touched(n)' <=> Touched(n)
BY DEF Touched, Called

(***************************************************************************)
(* The client.                                                             *)
(***************************************************************************)

\* A request with a list.
LEMMA AskKeeps ==
  ASSUME Inv, NEW svc \in {"get", "action", "access", "read", "write", "unconfirmed"}, Ask(svc)
  PROVE  Inv'
<1>1. PICK b \in Batches :
        /\ op' = IF svc = "unconfirmed" THEN NoOp
                 ELSE [n |-> started + 1, svc |-> svc, items |-> b.items,
                       lastBlock |-> 0, got |-> <<>>, ready |-> FALSE]
        /\ requests' = requests \union
             {[n |-> started + 1, svc |-> svc, form |-> "list", id |-> Outstanding(svc),
               items |-> b.items]}
  BY DEF Ask
<1> DEFINE r == [n |-> started + 1, svc |-> svc, form |-> "list", id |-> Outstanding(svc),
                 items |-> b.items]
<1>2. /\ op = NoOp /\ started < Requests /\ started' = started + 1
      /\ UNCHANGED <<fixed, done, transfer, calls, responses>>
  BY DEF Ask
<1>3. started \in Nat /\ Requests \in Nat /\ started' \in 1 .. Requests
  BY <1>2, BoundsAssumption DEF Inv, NumbersInv
<1>4. r.n = started + 1 /\ r.svc = svc /\ r.form = "list" /\ requests' = requests \union {r}
  BY <1>1
<1> HIDE DEF r
<1>5. /\ svc = "unconfirmed" => op' = NoOp
      /\ svc # "unconfirmed" => Waiting(op') /\ op'.n = started + 1 /\ op' # NoOp /\ ~op'.ready
  <2>1. CASE svc = "unconfirmed"
    BY <1>1, <2>1
  <2>2. CASE svc # "unconfirmed"
    <3> DEFINE o == [n |-> started + 1, svc |-> svc, items |-> b.items,
                     lastBlock |-> 0, got |-> <<>>, ready |-> FALSE]
    <3>1. /\ o \in [n : {started + 1}, svc : {"get", "action", "access", "read", "write"},
                    items : {b.items}, lastBlock : {0}, got : {<<>>}, ready : BOOLEAN]
          /\ o.n = started + 1 /\ ~o.ready /\ op' = o
      BY <1>1, <2>2
    <3> HIDE DEF o
    <3>2. Waiting(op') /\ op'.n = started + 1 /\ ~op'.ready
      BY <3>1, ZenonT(40) DEF Waiting
    <3> QED
      BY <2>2, <3>2, WaitingFacts
  <2> QED
    BY <2>1, <2>2
<1>6. NumbersInv'
  <2>1. op' = NoOp \/ (Waiting(op)' /\ op'.n = started' /\ started' > 0)
    BY <1>2, <1>3, <1>5 DEF Waiting
  <2>2. done # NoOp => done.n \in 1 .. started /\ done.n # started + 1
    BY <1>3 DEF Inv, NumbersInv
  <2>3. ASSUME NEW q \in requests'
        PROVE  /\ q.n \in 1 .. started'
               /\ q.svc = "unconfirmed" =>
                    /\ q.form = "list"
                    /\ op' # NoOp => q.n # op'.n
                    /\ done' # NoOp => q.n # done'.n
    BY <1>2, <1>3, <1>4, <1>5, <2>2 DEF Inv, NumbersInv
  <2>4. \A n \in 1 .. Requests : n > started' => calls'[n] = NoCalls
    BY <1>2, <1>3 DEF Inv, NumbersInv
  <2>5. done' # NoOp => done'.n \in 1 .. started' /\ (op' # NoOp => done'.n # op'.n)
    BY <1>2, <1>3, <1>5, <2>2
  <2> QED
    BY <1>2, <1>3, <2>1, <2>3, <2>4, <2>5 DEF NumbersInv, Inv
<1>7. ASSUME ~caller.impatient
      PROVE  UnderWay' /\ RefusedUntouched'
  <2>1. UnderWay /\ RefusedUntouched
    BY <1>7 DEF Inv, PatientInv
  <2>2. responses = {} /\ \A q \in requests : ~Confirmed(q)
    BY <1>2, <2>1 DEF UnderWay
  <2>3. calls'[started + 1] = NoCalls
    BY <1>2, <1>3 DEF Inv, NumbersInv
  <2>4. \A q \in requests' : Confirmed(q) => q = r /\ svc # "unconfirmed"
    BY <1>4, <2>2 DEF Confirmed
  <2>5. UnderWay'
    BY <1>2, <1>4, <1>5, <2>2, <2>3, <2>4 DEF UnderWay, Confirmed
  <2>6. RefusedUntouched'
    BY <1>2, <2>1, CallsSame DEF RefusedUntouched, fixed
  <2> QED
    BY <2>5, <2>6
<1> QED
  BY <1>2, <1>6, <1>7 DEF Inv, PatientInv, fixed

\* get_next_block_request and read_next_block_request.
LEMMA NextBlockRequestKeeps ==
  ASSUME Inv, NextBlockRequest
  PROVE  Inv'
<1> DEFINE r == [n |-> op.n, svc |-> op.svc, form |-> "next", id |-> outstanding,
                 number |-> op.lastBlock]
<1>1. /\ op # NoOp /\ op.ready /\ op' = [op EXCEPT !.ready = FALSE]
      /\ requests' = requests \union {r}
      /\ UNCHANGED <<fixed, started, done, calls, responses>>
  BY DEF NextBlockRequest
<1>2. Waiting(op) /\ op.n = started /\ started > 0 /\ started \in Nat
  BY <1>1, BoundsAssumption DEF Inv, NumbersInv
<1>3. Waiting(op') /\ op'.n = op.n /\ op' # NoOp /\ ~op'.ready /\ op.svc # "unconfirmed"
  BY <1>1, <1>2, WaitingFacts
<1>4. r.n = op.n /\ r.svc # "unconfirmed" /\ r.form = "next"
  BY <1>3
<1> HIDE DEF r
<1>5. NumbersInv'
  <2>1. Waiting(op)'
    BY <1>3 DEF Waiting
  <2> QED
    BY <1>1, <1>2, <1>3, <1>4, <2>1 DEF Inv, NumbersInv
<1>6. ASSUME ~caller.impatient
      PROVE  UnderWay' /\ RefusedUntouched'
  <2>1. UnderWay /\ RefusedUntouched
    BY <1>6 DEF Inv, PatientInv
  <2>2. responses = {} /\ \A q \in requests : ~Confirmed(q)
    BY <1>1, <2>1 DEF UnderWay
  <2>3. UnderWay'
    BY <1>1, <1>3, <1>4, <2>2 DEF UnderWay, Confirmed
  <2>4. RefusedUntouched'
    BY <1>1, <2>1, CallsSame DEF RefusedUntouched, fixed
  <2> QED
    BY <2>3, <2>4
<1> QED
  BY <1>1, <1>5, <1>6 DEF Inv, PatientInv, fixed

\* What the caller makes of a response: its invocation goes on or is over, and only an
\* exception is taken for a refusal.
LEMMA UseResponseFacts ==
  ASSUME NEW m, UseResponse(m)
  PROVE  \/ op' = NoOp /\ done' = done
         \/ /\ op' = NoOp /\ done' # NoOp /\ done'.n = op.n
            /\ done'.form = "refused" => m.form = "exception"
         \/ /\ \E got, block : op' = [op EXCEPT !.got = got, !.lastBlock = block, !.ready = TRUE]
            /\ done' = done
<1> DEFINE Ended(form) == op' = NoOp /\ done' # NoOp /\ done'.n = op.n /\ done'.form = form
           Left == op' = NoOp /\ done' = done
<1>1. ASSUME NEW form, NEW results,
             done' = [n |-> op.n, svc |-> op.svc, items |-> op.items, form |-> form,
                      results |-> results]
      PROVE  done' # NoOp /\ done'.n = op.n /\ done'.form = form
  BY <1>1 DEF NoOp
<1>2. GiveUp => Left
  BY DEF GiveUp
<1>3. CASE m.form = "exception"
  <2>1. Finish("refused", <<>>)
    BY <1>3 DEF UseResponse
  <2> QED
    BY <1>1, <1>3, <2>1 DEF Finish
<1>4. CASE m.form = "error" /\ m.svc = op.svc
  <2>1. Finish("error", <<>>)
    BY <1>4 DEF UseResponse
  <2>2. Ended("error")
    BY <1>1, <2>1 DEF Finish
  <2> QED
    BY <2>2
<1>5. CASE m.form = "list" /\ m.svc = op.svc
  <2>1. TakeList(m)
    BY <1>5 DEF UseResponse
  <2> DEFINE data == IF m.svc = "access" THEN Elements(m.data, m.count) ELSE <<>>
             results == Elements(m.results, m.count)
             all == [i \in 1 .. m.count |->
                       IF m.svc = "access" THEN results[i] \o data[i] ELSE results[i]]
  <2>2. \/ GiveUp
        \/ /\ done' = [n |-> op.n, svc |-> op.svc, items |-> op.items, form |-> "list",
                       results |-> all]
           /\ op' = NoOp
    BY <2>1 DEF TakeList, Finish
  <2> HIDE DEF all
  <2>3. Left \/ Ended("list")
    BY <1>1, <1>2, <2>2
  <2> QED
    BY <2>3
<1>6. CASE m.form = "block" /\ m.svc = op.svc
  <2>1. TakeBlock(m)
    BY <1>6 DEF UseResponse
  <2> DEFINE got == op.got \o m.data
             count == IF op.svc = "get" THEN got[1].size ELSE 1
             body == IF op.svc = "get" THEN Tail(got) ELSE got
             all == [i \in 1 .. count |->
                       IF op.svc = "get" THEN Elements(body, count)[i] ELSE <<Ok>> \o body]
  <2>2. \/ GiveUp
        \/ /\ done' = [n |-> op.n, svc |-> op.svc, items |-> op.items, form |-> "list",
                       results |-> all]
           /\ op' = NoOp
        \/ /\ op' = [op EXCEPT !.got = got, !.lastBlock = m.number, !.ready = TRUE]
           /\ done' = done
    BY <2>1 DEF TakeBlock, Finish
  <2> HIDE DEF all, got
  <2>3. \/ Left \/ Ended("list")
        \/ /\ op' = [op EXCEPT !.got = got, !.lastBlock = m.number, !.ready = TRUE]
           /\ done' = done
    BY <1>1, <1>2, <2>2
  <2> QED
    BY <2>3
<1>7. CASE /\ m.form # "exception"
           /\ ~(m.form \in {"error", "list", "block"} /\ m.svc = op.svc)
  <2>1. GiveUp
    BY <1>7 DEF UseResponse
  <2> QED
    BY <1>2, <2>1
<1> QED
  BY <1>3, <1>4, <1>5, <1>6, <1>7

\* The caller's invocation is over, or another response is awaited, and no number is used.
LEMMA ClientNumbers ==
  ASSUME NumbersInv, op # NoOp, UNCHANGED <<started, calls, requests>>,
         \/ op' = NoOp /\ (done' = done \/ (done' # NoOp /\ done'.n = op.n))
         \/ op' # NoOp /\ Waiting(op') /\ op'.n = op.n /\ done' = done
  PROVE  NumbersInv'
<1>1. Waiting(op) /\ op.n = started /\ started > 0 /\ started \in Nat
  BY BoundsAssumption DEF NumbersInv
<1>2. Waiting(op') => Waiting(op)'
  BY DEF Waiting
<1>3. CASE op' = NoOp
  BY <1>1, <1>3 DEF NumbersInv
<1>4. CASE op' # NoOp /\ Waiting(op') /\ op'.n = op.n /\ done' = done
  BY <1>1, <1>2, <1>4 DEF NumbersInv
<1> QED
  BY <1>3, <1>4

\* handle_response.
LEMMA HandleResponseKeeps ==
  ASSUME Inv, HandleResponse
  PROVE  Inv'
<1>1. PICK m \in responses :
        /\ responses' = responses \ {m}
        /\ IF op = NoOp \/ ~Answers(m) THEN UNCHANGED <<op, done>> ELSE UseResponse(m)
  BY DEF HandleResponse
<1>2. UNCHANGED <<fixed, started, calls, requests>>
  BY DEF HandleResponse
<1>3. CASE UNCHANGED <<op, done>>
  <2>1. NumbersInv'
    BY <1>2, <1>3 DEF Inv, NumbersInv, Waiting
  <2>2. ASSUME ~caller.impatient
        PROVE  UnderWay' /\ RefusedUntouched'
    <3>1. UnderWay /\ RefusedUntouched
      BY <2>2 DEF Inv, PatientInv
    <3>2. UnderWay'
      BY <1>1, <1>2, <1>3, <3>1, CallsSame DEF UnderWay, Confirmed
    <3>3. RefusedUntouched'
      BY <1>2, <1>3, <3>1, CallsSame DEF RefusedUntouched, fixed
    <3> QED
      BY <3>2, <3>3
  <2> QED
    BY <1>2, <2>1, <2>2 DEF Inv, PatientInv, fixed
<1>4. CASE op # NoOp /\ UseResponse(m)
  <2>1. \/ op' = NoOp /\ done' = done
        \/ /\ op' = NoOp /\ done' # NoOp /\ done'.n = op.n
           /\ done'.form = "refused" => m.form = "exception"
        \/ op' # NoOp /\ Waiting(op') /\ op'.n = op.n /\ done' = done
    <3>1. Waiting(op)
      BY <1>4 DEF Inv, NumbersInv
    <3>2. ASSUME NEW got, NEW block,
                 op' = [op EXCEPT !.got = got, !.lastBlock = block, !.ready = TRUE]
          PROVE  op' # NoOp /\ Waiting(op') /\ op'.n = op.n
      <4> DEFINE q == [op EXCEPT !.got = got, !.lastBlock = block, !.ready = TRUE]
      <4>1. Waiting(q) /\ q.n = op.n /\ q # NoOp
        BY <3>1, WaitingFacts
      <4> HIDE DEF q
      <4>2. op' = q
        BY <3>2 DEF q
      <4> QED
        BY <4>1, <4>2
    <3> QED
      BY <1>4, <3>2, UseResponseFacts
  <2>2. NumbersInv'
    BY <1>2, <1>4, <2>1, ClientNumbers DEF Inv
  <2>3. ASSUME ~caller.impatient
        PROVE  UnderWay' /\ RefusedUntouched'
    <3>1. UnderWay /\ RefusedUntouched
      BY <2>3 DEF Inv, PatientInv
    <3>2. responses' = {} /\ \A r \in requests' : ~Confirmed(r)
      BY <1>1, <1>2, <3>1 DEF UnderWay
    <3>3. UnderWay'
      BY <3>2 DEF UnderWay, Confirmed
    <3>4. m.form = "exception" => ~Touched(op.n)
      BY <3>1 DEF UnderWay
    <3>5. RefusedUntouched'
      BY <1>2, <2>1, <3>1, <3>4, CallsSame DEF RefusedUntouched, fixed
    <3> QED
      BY <3>3, <3>5
  <2> QED
    BY <1>2, <2>2, <2>3 DEF Inv, PatientInv, fixed
<1> QED
  BY <1>1, <1>3, <1>4

\* The caller's timeout.
LEMMA AbandonKeeps ==
  ASSUME Inv, Abandon
  PROVE  Inv'
<1>1. /\ op # NoOp /\ op' = NoOp /\ done' = done
      /\ caller.impatient \/ (requests = {} /\ responses = {})
      /\ UNCHANGED <<fixed, started, calls, requests, responses>>
  BY DEF Abandon, TimedOut, GiveUp
<1>2. NumbersInv'
  BY <1>1, ClientNumbers DEF Inv
<1>3. ASSUME ~caller.impatient
      PROVE  UnderWay' /\ RefusedUntouched'
  <2>1. RefusedUntouched
    BY <1>3 DEF Inv, PatientInv
  <2>2. UnderWay'
    BY <1>1, <1>3 DEF UnderWay
  <2>3. RefusedUntouched'
    BY <1>1, <2>1, CallsSame DEF RefusedUntouched, fixed
  <2> QED
    BY <2>2, <2>3
<1> QED
  BY <1>1, <1>2, <1>3 DEF Inv, PatientInv, fixed

(***************************************************************************)
(* The server.                                                             *)
(***************************************************************************)

\* What a handler does with a request: one answer or none.
Replied(m, replies) ==
  /\ requests' = requests \ {m} /\ responses' = responses \union replies
  /\ UNCHANGED <<fixed, started, op, done>>
  /\ \A r, s \in replies : r = s

\* The last part of each handler: never an exception, and nothing to an unconfirmed write.
LEMMA AnswerFacts ==
  ASSUME NEW m, NEW list, Answer(m, list)
  PROVE  \E replies : /\ Replied(m, replies)
                      /\ \A r \in replies : r.form # "exception"
                      /\ m.svc = "unconfirmed" => replies = {}
<1>1. ASSUME Reply(m, {})
      PROVE  Replied(m, {})
  BY <1>1 DEF Reply, Replied, clientVars, fixed
<1>2. ASSUME NEW r, r.form # "exception", Reply(m, {r}), m.svc # "unconfirmed"
      PROVE  \E replies : /\ Replied(m, replies)
                          /\ \A s \in replies : s.form # "exception"
                          /\ m.svc = "unconfirmed" => replies = {}
  <2>1. Replied(m, {r})
    BY <1>2 DEF Reply, Replied, clientVars, fixed
  <2> QED
    BY <1>2, <2>1
<1> DEFINE body == IF m.svc = "get" THEN <<Count(Len(m.items))>> \o list.results
                   ELSE Tail(list.results)
           t == Sending(m, body)
           block == [svc |-> t.svc, id |-> t.id, form |-> "block", number |-> t.block + 1,
                     last |-> FragmentEnd(t) = Len(t.body),
                     data |-> SubSeq(t.body, t.sent + 1, FragmentEnd(t))]
<1>3. \/ Reply(m, {})
      \/ m.svc # "unconfirmed" /\ Reply(m, {ListReply(m, list)})
      \/ m.svc # "unconfirmed" /\ Reply(m, {ErrorReply(m)})
      \/ m.svc # "unconfirmed" /\ SendNextBlock(m, t)
  BY DEF Answer
<1> HIDE DEF t
<1>4. SendNextBlock(m, t) => Reply(m, {block})
  BY DEF SendNextBlock
<1>5. ListReply(m, list).form # "exception" /\ ErrorReply(m).form # "exception" /\ block.form # "exception"
  BY DEF ListReply, ErrorReply, ReadError, GetError
<1> HIDE DEF block
<1>6. CASE Reply(m, {})
  BY <1>1, <1>6
<1>7. CASE m.svc # "unconfirmed" /\ Reply(m, {ListReply(m, list)})
  BY <1>2, <1>5, <1>7
<1>8. CASE m.svc # "unconfirmed" /\ Reply(m, {ErrorReply(m)})
  BY <1>2, <1>5, <1>8
<1>9. CASE m.svc # "unconfirmed" /\ SendNextBlock(m, t)
  BY <1>2, <1>4, <1>5, <1>9
<1> QED
  BY <1>3, <1>6, <1>7, <1>8, <1>9

\* A list is refused whole, with the store untouched, or carried out and answered.
LEMMA HandleListFacts ==
  ASSUME NEW m, HandleList(m)
  PROVE  /\ m.form = "list"
         /\ \E replies :
              /\ Replied(m, replies)
              /\ m.svc = "unconfirmed" => replies = {}
              /\ \/ calls' = calls
                 \/ /\ \E v : calls' = [calls EXCEPT ![m.n] = v]
                    /\ \A r \in replies : r.form # "exception"
<1>1. m.form = "list"
  BY DEF HandleList
<1>2. CASE TooMany(m)
  <2> DEFINE replies == IF m.svc = "unconfirmed" THEN {} ELSE {Exception(m)}
  <2>1. Reply(m, replies) /\ calls' = calls
    BY <1>2 DEF HandleList
  <2>2. Replied(m, replies)
    BY <2>1 DEF Reply, Replied, clientVars, fixed
  <2>3. m.svc = "unconfirmed" => replies = {}
    OBVIOUS
  <2> HIDE DEF replies
  <2> QED
    BY <1>1, <2>1, <2>2, <2>3
<1>3. CASE ~TooMany(m)
  <2>1. PICK says \in SaysAll(m.items) :
          \E list \in {Loop(m.svc, m.n, m.items, says)} :
            /\ calls' = [calls EXCEPT ![m.n] =
                 [svc |-> m.svc, items |-> m.items, said |-> list.said,
                  size |-> Len(list.data) + Len(list.results)]]
            /\ Answer(m, list)
    BY <1>3 DEF HandleList
  <2>2. PICK list \in {Loop(m.svc, m.n, m.items, says)} :
            /\ calls' = [calls EXCEPT ![m.n] =
                 [svc |-> m.svc, items |-> m.items, said |-> list.said,
                  size |-> Len(list.data) + Len(list.results)]]
            /\ Answer(m, list)
    BY <2>1
  <2>3. \E v : calls' = [calls EXCEPT ![m.n] = v]
    BY <2>2
  <2>4. Answer(m, list)
    BY <2>2
  <2> QED
    BY <1>1, <2>3, <2>4, AnswerFacts
<1> QED
  BY <1>2, <1>3

\* A block is asked for, and one is sent or an error.
LEMMA HandleNextFacts ==
  ASSUME NEW m, HandleNext(m)
  PROVE  /\ m.form = "next" /\ calls' = calls
         /\ \E replies : Replied(m, replies) /\ \A r \in replies : r.form # "exception"
<1> DEFINE block == [svc |-> transfer.svc, id |-> transfer.id, form |-> "block",
                     number |-> transfer.block + 1,
                     last |-> FragmentEnd(transfer) = Len(transfer.body),
                     data |-> SubSeq(transfer.body, transfer.sent + 1, FragmentEnd(transfer))]
<1>1. ASSUME NEW r, r.form # "exception", Reply(m, {r})
      PROVE  \E replies : Replied(m, replies) /\ \A s \in replies : s.form # "exception"
  <2>1. Replied(m, {r})
    BY <1>1 DEF Reply, Replied, clientVars, fixed
  <2> QED
    BY <1>1, <2>1
<1>2. m.form = "next" /\ calls' = calls /\ (SendNextBlock(m, transfer) \/ Reply(m, {ErrorReply(m)}))
  BY DEF HandleNext
<1>3. SendNextBlock(m, transfer) => Reply(m, {block})
  BY DEF SendNextBlock
<1>4. block.form # "exception" /\ ErrorReply(m).form # "exception"
  BY DEF ErrorReply, ReadError, GetError
<1> HIDE DEF block
<1> QED
  BY <1>1, <1>2, <1>3, <1>4

\* A request is handled.
LEMMA HandleKeeps ==
  ASSUME Inv, Handle
  PROVE  Inv'
<1>1. PICK m \in requests : HandleList(m) \/ HandleNext(m)
  BY DEF Handle, HandleGetWithList, HandleActionWithList, HandleAccess, HandleRead, HandleWrite
<1>2. PICK replies :
        /\ Replied(m, replies)
        /\ m.form = "list" /\ m.svc = "unconfirmed" => replies = {}
        /\ \/ calls' = calls /\ (m.form = "list" \/ \A r \in replies : r.form # "exception")
           \/ /\ m.form = "list" /\ \E v : calls' = [calls EXCEPT ![m.n] = v]
              /\ \A r \in replies : r.form # "exception"
  <2>1. CASE HandleList(m)
    BY <2>1, HandleListFacts
  <2>2. CASE HandleNext(m)
    BY <2>2, HandleNextFacts
  <2> QED
    BY <1>1, <2>1, <2>2
<1>3. /\ requests' = requests \ {m} /\ responses' = responses \union replies
      /\ UNCHANGED <<fixed, started, op, done>>
      /\ \A r, s \in replies : r = s
  BY <1>2 DEF Replied
<1>4. /\ started \in Nat /\ Requests \in Nat /\ m.n \in 1 .. started /\ started <= Requests
      /\ DOMAIN calls = 1 .. Requests
  BY BoundsAssumption DEF Inv, NumbersInv
<1>5. /\ DOMAIN calls' = 1 .. Requests
      /\ \A k \in 1 .. Requests : k # m.n => calls'[k] = calls[k]
  BY <1>2, <1>4
<1>6. NumbersInv'
  <2>1. Waiting(op) => Waiting(op)'
    BY <1>3 DEF Waiting
  <2>2. \A n \in 1 .. Requests : n > started' => calls'[n] = NoCalls
    BY <1>3, <1>4, <1>5 DEF Inv, NumbersInv
  <2> QED
    BY <1>3, <1>5, <2>1, <2>2 DEF Inv, NumbersInv
<1>7. ASSUME ~caller.impatient
      PROVE  UnderWay' /\ RefusedUntouched'
  <2>1. UnderWay /\ RefusedUntouched
    BY <1>7 DEF Inv, PatientInv
  <2>2. /\ op # NoOp => op.n \in 1 .. Requests
        /\ done # NoOp => done.n \in 1 .. Requests /\ done.n # m.n
    BY <1>4, <2>1 DEF Inv, NumbersInv, UnderWay, Confirmed
  <2>3. RefusedUntouched'
    BY <1>3, <1>5, <2>1, <2>2, TouchedSame DEF RefusedUntouched, fixed
  <2>4. CASE ~Confirmed(m)
    <3>1. responses' = responses /\ (op # NoOp => op.n # m.n)
      BY <1>2, <1>3, <2>4 DEF Inv, NumbersInv, Confirmed
    <3>2. op # NoOp => calls'[op.n] = calls[op.n] /\ (Touched(op.n)' <=> Touched(op.n))
      BY <1>3, <1>5, <2>2, <3>1, TouchedSame
    <3>3. UnderWay'
      BY <1>3, <2>1, <3>1, <3>2 DEF UnderWay, Confirmed
    <3> QED
      BY <2>3, <3>3
  <2>5. CASE Confirmed(m)
    <3>1. /\ op # NoOp /\ m.n = op.n /\ ~op.ready /\ responses = {}
          /\ m.form = "list" => calls[op.n] = NoCalls
          /\ \A s \in requests' : ~Confirmed(s)
      BY <1>3, <2>1, <2>5 DEF UnderWay
    <3>2. ASSUME NEW r \in replies, r.form = "exception"
          PROVE  ~Touched(op.n)'
      <4>1. calls' = calls /\ calls[op.n] = NoCalls
        BY <1>2, <3>1, <3>2
      <4> QED
        BY <1>3, <4>1, Untouched, CallsSame
    <3>3. UnderWay'
      BY <1>3, <3>1, <3>2 DEF UnderWay, Confirmed
    <3> QED
      BY <2>3, <3>3
  <2> QED
    BY <2>4, <2>5
<1> QED
  BY <1>3, <1>6, <1>7 DEF Inv, PatientInv, fixed

(***************************************************************************)
(* The theorem.                                                            *)
(***************************************************************************)

\* Nothing has been asked at first.
LEMMA InitInv == Init => Inv
<1> SUFFICES ASSUME Init PROVE Inv
  OBVIOUS
<1>1. Requests \in Nat
  BY BoundsAssumption
<1>2. NumbersInv
  BY <1>1 DEF Init, NumbersInv
<1>3. UnderWay /\ RefusedUntouched
  BY DEF Init, UnderWay, RefusedUntouched
<1> QED
  BY <1>2, <1>3 DEF Inv, PatientInv

\* Every step keeps the invariant.
LEMMA NextInv == Inv /\ [Next]_vars => Inv'
<1> SUFFICES ASSUME Inv, [Next]_vars PROVE Inv'
  OBVIOUS
<1>1. CASE Next
  <2>1. CASE \/ GetRequestWithList \/ ActionRequestWithList \/ AccessRequest \/ ReadRequest
             \/ WriteRequest \/ UnconfirmedWriteRequest
    BY <2>1, AskKeeps DEF GetRequestWithList, ActionRequestWithList, AccessRequest, ReadRequest,
       WriteRequest, UnconfirmedWriteRequest
  <2>2. CASE NextBlockRequest \/ HandleResponse \/ Abandon \/ Handle
    BY <2>2, NextBlockRequestKeeps, HandleResponseKeeps, AbandonKeeps, HandleKeeps
  <2> QED
    BY <1>1, <2>1, <2>2 DEF Next
<1>2. CASE UNCHANGED vars
  <2>1. UNCHANGED <<fixed, caller, op, done, started, calls, requests, responses>>
    BY <1>2 DEF vars, clientVars, fixed
  <2>2. NumbersInv'
    BY <2>1 DEF Inv, NumbersInv, Waiting
  <2>3. UnderWay => UnderWay'
    BY <2>1, CallsSame DEF UnderWay, Confirmed
  <2>4. RefusedUntouched => RefusedUntouched'
    BY <2>1, CallsSame DEF RefusedUntouched
  <2> QED
    BY <2>1, <2>2, <2>3, <2>4 DEF Inv, PatientInv
<1> QED
  BY <1>1, <1>2

\* What a patient caller is told was refused whole has not been done in part: a list that
\* is too long is refused before the store hears of its first item, and the exception,
\* which names no request, is never taken for the answer to another one.
THEOREM RefusedWhole == Spec => []RefusedUntouched
<1>1. Inv => RefusedUntouched
  BY DEF Inv, PatientInv, RefusedUntouched
<1> QED
  BY <1>1, InitInv, NextInv, PTL DEF Spec


(***************************************************************************)
(* How a list is laid out.                                                 *)
(***************************************************************************)
Tokens ==
  [what : {"ok", "done", "failed", "null", "count", "value"}, of : Nat \X Nat,
   size : Nat, at : Nat]

\* An element, or a bare value, which may be empty: nothing begins after its first token.
Shaped(e) ==
  /\ e \in Seq(Tokens)
  /\ e # <<>> => e[1].at <= 1 /\ e[Len(e)] # Ok
  /\ \A p \in 2 .. Len(e) : e[p].at > 1 \/ e[p - 1] = Ok

\* How many elements begin before a position.
Rank(tokens, p) == Cardinality({q \in Begins(tokens) : q < p})

\* The tokens of a list are those of its elements, one after the other: at most one begins
\* with each, and if one does, then counting them finds every one.
Laid(tokens, es) ==
  /\ tokens \in Seq(Tokens) /\ es \in Seq(Seq(Tokens))
  /\ tokens # <<>> => tokens[Len(tokens)] # Ok
  /\ Len(es) = 0 => tokens = <<>>
  /\ Len(es) = 1 => tokens = es[1]
  /\ Cardinality(Begins(tokens)) <= Len(es)
  /\ Cardinality(Begins(tokens)) = Len(es) =>
       \E at \in [1 .. Len(es) -> Begins(tokens)] :
         \A k \in 1 .. Len(es) :
           /\ Rank(tokens, at[k]) = k - 1
           /\ es[k] = SubSeq(tokens, at[k],
                             IF k = Len(es) THEN Len(tokens) ELSE at[k + 1] - 1)

\* What begins in a list are some of its positions.
LEMMA BeginsFinite ==
  ASSUME NEW tokens \in Seq(Tokens)
  PROVE  /\ Begins(tokens) \subseteq 1 .. Len(tokens)
         /\ IsFiniteSet(Begins(tokens))
         /\ \A p : IsFiniteSet({q \in Begins(tokens) : q < p})
<1>1. Len(tokens) \in Nat /\ DOMAIN tokens = 1 .. Len(tokens)
  OBVIOUS
<1>2. Begins(tokens) \subseteq 1 .. Len(tokens) /\ IsFiniteSet(1 .. Len(tokens))
  BY <1>1, FS_Interval DEF Begins
<1>3. IsFiniteSet(Begins(tokens))
  BY <1>2, FS_Subset
<1>4. ASSUME NEW p PROVE IsFiniteSet({q \in Begins(tokens) : q < p})
  BY <1>3, FS_Subset
<1> QED
  BY <1>2, <1>3, <1>4

\* One more element begins where it is put.
LEMMA BeginsAppend ==
  ASSUME NEW tokens \in Seq(Tokens), tokens # <<>> => tokens[Len(tokens)] # Ok,
         NEW e, Shaped(e)
  PROVE  Begins(tokens \o e) =
           Begins(tokens) \union (IF e = <<>> THEN {} ELSE {Len(tokens) + 1})
<1> DEFINE s == tokens \o e
<1>1. e \in Seq(Tokens) /\ Len(tokens) \in Nat /\ Len(e) \in Nat /\ (e # <<>> <=> Len(e) > 0)
  BY EmptySeq DEF Shaped
<1>2. /\ s \in Seq(Tokens) /\ Len(s) = Len(tokens) + Len(e)
      /\ \A i \in 1 .. Len(tokens) + Len(e) :
           s[i] = IF i <= Len(tokens) THEN tokens[i] ELSE e[i - Len(tokens)]
  BY <1>1, ConcatProperties
<1> HIDE DEF s
<1>3. DOMAIN s = 1 .. Len(tokens) + Len(e) /\ DOMAIN tokens = 1 .. Len(tokens)
  BY <1>1, <1>2
<1>4. ASSUME NEW p \in 1 .. Len(tokens)
      PROVE  p \in Begins(s) <=> p \in Begins(tokens)
  BY <1>1, <1>2, <1>3 DEF Begins
<1>5. ASSUME NEW p \in Len(tokens) + 2 .. Len(tokens) + Len(e)
      PROVE  p \notin Begins(s)
  <2>1. PICK k \in 2 .. Len(e) : k = p - Len(tokens) /\ p = Len(tokens) + k
    <3>1. PICK T \in Nat, E \in Nat : T = Len(tokens) /\ E = Len(e)
      BY <1>1
    <3>2. p \in T + 2 .. T + E
      BY <1>5, <3>1
    <3>3. p - T \in 2 .. E /\ p = T + (p - T)
      BY <3>1, <3>2
    <3> QED
      BY <3>1, <3>3
  <2>2. s[p] = e[k] /\ s[p - 1] = e[k - 1] /\ p > 1 /\ e[k].at \in Nat
    <3>1. /\ p \in 1 .. Len(tokens) + Len(e) /\ p - 1 \in 1 .. Len(tokens) + Len(e)
          /\ ~(p <= Len(tokens)) /\ ~(p - 1 <= Len(tokens)) /\ p > 1
          /\ p - Len(tokens) = k /\ p - 1 - Len(tokens) = k - 1
      BY <1>1, <2>1
    <3>2. e[k] \in Tokens
      BY <1>1
    <3> QED
      BY <1>2, <3>1, <3>2 DEF Tokens
  <2>3. e[k].at > 1 \/ e[k - 1] = Ok
    BY DEF Shaped
  <2> QED
    BY <2>2, <2>3 DEF Begins
<1>6. ASSUME e # <<>>
      PROVE  Len(tokens) + 1 \in Begins(s)
  <2>1. s[Len(tokens) + 1] = e[1] /\ e[1].at <= 1 /\ Len(tokens) + 1 \in DOMAIN s
    BY <1>1, <1>2, <1>3, <1>6 DEF Shaped
  <2>2. Len(tokens) + 1 > 1 => s[Len(tokens) + 1 - 1] # Ok
    BY <1>1, <1>2, EmptySeq
  <2> QED
    BY <2>1, <2>2 DEF Begins
<1>7. Begins(s) \subseteq 1 .. Len(tokens) + Len(e) /\ Begins(tokens) \subseteq 1 .. Len(tokens)
  BY <1>3 DEF Begins
<1>8. CASE e = <<>>
  BY <1>1, <1>4, <1>7, <1>8 DEF s
<1>9. CASE e # <<>>
  <2>1. \A p \in Begins(s) : p \in Begins(tokens) \/ p = Len(tokens) + 1
    BY <1>1, <1>4, <1>5, <1>7
  <2>2. Begins(tokens) \subseteq Begins(s)
    BY <1>4, <1>7
  <2> QED
    BY <1>6, <1>9, <2>1, <2>2 DEF s
<1> QED
  BY <1>8, <1>9

\* A list grows by an element.
LEMMA LaidStep ==
  ASSUME NEW tokens, NEW es, Laid(tokens, es), NEW e, Shaped(e)
  PROVE  Laid(tokens \o e, Append(es, e))
<1> DEFINE s == tokens \o e
           all == Append(es, e)
           N == Len(es)
<1>1. /\ tokens \in Seq(Tokens) /\ es \in Seq(Seq(Tokens)) /\ e \in Seq(Tokens)
      /\ tokens # <<>> => tokens[Len(tokens)] # Ok
  BY DEF Laid, Shaped
<1>2. /\ N \in Nat /\ Len(tokens) \in Nat /\ Len(e) \in Nat
      /\ (e # <<>> <=> Len(e) > 0) /\ (tokens # <<>> <=> Len(tokens) > 0)
  BY <1>1, EmptySeq
<1>3. /\ s \in Seq(Tokens) /\ Len(s) = Len(tokens) + Len(e)
      /\ \A i \in 1 .. Len(tokens) + Len(e) :
           s[i] = IF i <= Len(tokens) THEN tokens[i] ELSE e[i - Len(tokens)]
  BY <1>1, ConcatProperties
<1>4. /\ all \in Seq(Seq(Tokens)) /\ Len(all) = N + 1
      /\ \A i \in 1 .. N : all[i] = es[i]
      /\ all[N + 1] = e
  BY <1>1, AppendProperties
<1>5. Begins(s) = Begins(tokens) \union (IF e = <<>> THEN {} ELSE {Len(tokens) + 1})
  BY <1>1, BeginsAppend
<1>6. s # <<>> => s[Len(s)] # Ok
  <2>1. CASE e = <<>>
    <3>1. s = tokens
      BY <1>1, <2>1, ConcatEmptySeq
    <3> QED
      BY <1>1, <3>1
  <2>2. CASE e # <<>>
    <3>1. s[Len(s)] = e[Len(e)]
      BY <1>2, <1>3, <2>2
    <3> QED
      BY <2>2, <3>1 DEF Shaped
  <2> QED
    BY <2>1, <2>2
<1>7. N + 1 = 1 => s = all[1]
  <2> SUFFICES ASSUME N = 0 PROVE s = all[1]
    BY <1>2
  <2>1. tokens = <<>>
    BY DEF Laid
  <2>2. s = e
    BY <1>1, <2>1, ConcatEmptySeq
  <2> QED
    BY <1>4, <2>2
<1>8. /\ Begins(tokens) \subseteq 1 .. Len(tokens) /\ IsFiniteSet(Begins(tokens))
      /\ Cardinality(Begins(tokens)) \in Nat
      /\ Cardinality(Begins(tokens)) <= N
  BY <1>1, BeginsFinite, FS_CardinalityType DEF Laid
<1>9. Cardinality(Begins(s)) =
        IF e = <<>> THEN Cardinality(Begins(tokens)) ELSE Cardinality(Begins(tokens)) + 1
  <2>1. Len(tokens) + 1 \notin Begins(tokens)
    BY <1>2, <1>8
  <2> QED
    BY <1>5, <1>8, <2>1, FS_AddElement
<1>10. ASSUME Cardinality(Begins(s)) = N + 1
       PROVE  \E at \in [1 .. N + 1 -> Begins(s)] :
                \A k \in 1 .. N + 1 :
                  /\ Rank(s, at[k]) = k - 1
                  /\ all[k] = SubSeq(s, at[k], IF k = N + 1 THEN Len(s) ELSE at[k + 1] - 1)
  <2>1. e # <<>> /\ Cardinality(Begins(tokens)) = N
    BY <1>2, <1>8, <1>9, <1>10
  <2>2. PICK at \in [1 .. N -> Begins(tokens)] :
          \A k \in 1 .. N :
            /\ Rank(tokens, at[k]) = k - 1
            /\ es[k] = SubSeq(tokens, at[k], IF k = N THEN Len(tokens) ELSE at[k + 1] - 1)
    BY <2>1 DEF Laid
  <2> DEFINE to == [k \in 1 .. N + 1 |-> IF k = N + 1 THEN Len(tokens) + 1 ELSE at[k]]
  <2>3. to \in [1 .. N + 1 -> Begins(s)]
    BY <1>2, <1>5, <2>1, <2>2
  <2>4. /\ to[N + 1] = Len(tokens) + 1
        /\ \A k \in 1 .. N : to[k] = at[k] /\ at[k] \in 1 .. Len(tokens)
    <3>1. \A k \in 1 .. N : at[k] \in Begins(tokens)
      BY <2>2
    <3>2. to[N + 1] = Len(tokens) + 1 /\ \A k \in 1 .. N : to[k] = at[k]
      BY <1>2
    <3> QED
      BY <1>8, <3>1, <3>2
  <2> HIDE DEF to
  <2>5. ASSUME NEW k \in 1 .. N + 1
        PROVE  Rank(s, to[k]) = k - 1
    <3>1. CASE k = N + 1
      <4>1. {q \in Begins(s) : q < to[k]} = Begins(tokens)
        BY <1>2, <1>5, <1>8, <2>1, <2>4, <3>1
      <4>2. Rank(s, to[k]) = Cardinality(Begins(tokens))
        BY <4>1 DEF Rank
      <4> QED
        BY <1>2, <2>1, <3>1, <4>2
    <3>2. CASE k \in 1 .. N
      <4>1. {q \in Begins(s) : q < to[k]} = {q \in Begins(tokens) : q < at[k]}
        BY <1>2, <1>5, <1>8, <2>1, <2>4, <3>2
      <4> QED
        BY <2>2, <3>2, <4>1 DEF Rank
    <3>3. k = N + 1 \/ k \in 1 .. N
      BY <1>2
    <3> QED
      BY <3>1, <3>2, <3>3
  <2>6. ASSUME NEW k \in 1 .. N + 1
        PROVE  all[k] = SubSeq(s, to[k], IF k = N + 1 THEN Len(s) ELSE to[k + 1] - 1)
    <3>1. CASE k = N + 1
      <4>1. Len(tokens) + 1 \in Len(tokens) + 1 .. Len(tokens) + Len(e)
            /\ Len(tokens) + Len(e) \in Len(tokens) + 1 .. Len(tokens) + Len(e)
        BY <1>2, <2>1
      <4>2. SubSeq(s, Len(tokens) + 1, Len(tokens) + Len(e)) =
              SubSeq(e, Len(tokens) + 1 - Len(tokens), Len(tokens) + Len(e) - Len(tokens))
        BY <1>1, <4>1, SubSeqOfConcat2
      <4>3. Len(tokens) + 1 - Len(tokens) = 1 /\ Len(tokens) + Len(e) - Len(tokens) = Len(e)
        BY <1>2
      <4>4. SubSeq(e, 1, Len(e)) = e
        BY <1>1, SubSeqFull
      <4> QED
        BY <1>3, <1>4, <2>4, <3>1, <4>2, <4>3, <4>4
    <3>2. CASE k \in 1 .. N
      <4> DEFINE end == IF k = N THEN Len(tokens) ELSE at[k + 1] - 1
      <4>1. es[k] = SubSeq(tokens, at[k], end) /\ all[k] = es[k] /\ to[k] = at[k]
        BY <1>4, <2>2, <2>4, <3>2
      <4>2. (IF k = N + 1 THEN Len(s) ELSE to[k + 1] - 1) = end
        BY <1>2, <2>4, <3>2
      <4>3. end \in 0 .. Len(tokens) /\ at[k] \in 1 .. Len(tokens)
        BY <1>2, <2>4, <3>2
      <4> HIDE DEF end
      <4>4. CASE end \in 1 .. Len(tokens)
        <5>1. SubSeq(s, at[k], end) = SubSeq(tokens, at[k], end)
          BY <1>1, <4>3, <4>4, SubSeqOfConcat1
        <5> QED
          BY <4>1, <4>2, <5>1
      <4>5. CASE end = 0
        <5>1. SubSeq(s, at[k], end) = <<>> /\ SubSeq(tokens, at[k], end) = <<>>
          BY <1>2, <4>3, <4>5, SubSeqEmpty
        <5> QED
          BY <4>1, <4>2, <5>1
      <4>6. end \in 1 .. Len(tokens) \/ end = 0
        BY <1>2, <4>3
      <4> QED
        BY <4>4, <4>5, <4>6
    <3>3. k = N + 1 \/ k \in 1 .. N
      BY <1>2
    <3> QED
      BY <3>1, <3>2, <3>3
  <2> QED
    BY <2>3, <2>5, <2>6
<1>11. Cardinality(Begins(s)) <= N + 1
  BY <1>2, <1>8, <1>9
<1> HIDE DEF s, all
<1>12. Laid(s, all)
  <2>1. Len(all) = N + 1 /\ N + 1 # 0 /\ s \in Seq(Tokens) /\ all \in Seq(Seq(Tokens))
    BY <1>2, <1>3, <1>4
  <2>2. s # <<>> => s[Len(s)] # Ok
    BY <1>6
  <2>3. /\ Len(all) = 0 => s = <<>>
        /\ Len(all) = 1 => s = all[1]
    BY <1>7, <2>1
  <2>4. Cardinality(Begins(s)) <= Len(all)
    BY <1>11, <2>1
  <2>5. Cardinality(Begins(s)) = Len(all) =>
          \E at \in [1 .. Len(all) -> Begins(s)] :
            \A k \in 1 .. Len(all) :
              /\ Rank(s, at[k]) = k - 1
              /\ all[k] = SubSeq(s, at[k], IF k = Len(all) THEN Len(s) ELSE at[k + 1] - 1)
    BY <1>10, <2>1
  <2> QED
    BY <2>1, <2>2, <2>3, <2>4, <2>5 DEF Laid
<1> QED
  BY <1>12 DEF s, all

\* Two places before which as many elements begin are the same.
LEMMA RankUnique ==
  ASSUME NEW tokens \in Seq(Tokens), NEW p \in Begins(tokens), NEW q \in Begins(tokens),
         Rank(tokens, p) = Rank(tokens, q)
  PROVE  p = q
<1>1. /\ p \in Int /\ q \in Int /\ Begins(tokens) \subseteq Int
      /\ \A r : IsFiniteSet({b \in Begins(tokens) : b < r})
  <2>1. /\ Begins(tokens) \subseteq 1 .. Len(tokens)
        /\ \A r : IsFiniteSet({b \in Begins(tokens) : b < r})
    BY BeginsFinite
  <2>2. Begins(tokens) \subseteq Int
    BY <2>1
  <2> QED
    BY <2>1, <2>2
<1>2. ASSUME NEW a \in Begins(tokens), NEW b \in Begins(tokens), a < b
      PROVE  Rank(tokens, a) # Rank(tokens, b)
  <2> DEFINE A == {r \in Begins(tokens) : r < a}
             B == {r \in Begins(tokens) : r < b}
  <2>1. A \subseteq B /\ a \in B /\ a \notin A
    BY <1>1, <1>2
  <2>2. IsFiniteSet(B)
    BY <1>1
  <2> HIDE DEF A, B
  <2>3. Cardinality(B) # Cardinality(A)
    BY <2>1, <2>2, FS_Subset
  <2> QED
    BY <2>3 DEF Rank, A, B
<1> QED
  BY <1>1, <1>2

\* Counting finds the elements of a list, as they were laid out.
LEMMA ElementsLaid ==
  ASSUME NEW tokens, NEW es, Laid(tokens, es), Cardinality(Begins(tokens)) = Len(es)
  PROVE  \A k \in 1 .. Len(es) : Elements(tokens, Len(es))[k] = es[k]
<1>1. tokens \in Seq(Tokens) /\ es \in Seq(Seq(Tokens)) /\ Len(es) \in Nat
  BY DEF Laid
<1>2. PICK at \in [1 .. Len(es) -> Begins(tokens)] :
        \A k \in 1 .. Len(es) :
          /\ Rank(tokens, at[k]) = k - 1
          /\ es[k] = SubSeq(tokens, at[k], IF k = Len(es) THEN Len(tokens) ELSE at[k + 1] - 1)
  BY DEF Laid
<1>3. ASSUME NEW k \in 1 .. Len(es)
      PROVE  Begin(tokens, k) = at[k]
  <2>1. at[k] \in Begins(tokens) /\ Cardinality({q \in Begins(tokens) : q < at[k]}) = k - 1
    BY <1>2 DEF Rank
  <2>2. /\ Begin(tokens, k) \in Begins(tokens)
        /\ Cardinality({q \in Begins(tokens) : q < Begin(tokens, k)}) = k - 1
    BY <2>1 DEF Begin
  <2>3. Rank(tokens, Begin(tokens, k)) = Rank(tokens, at[k])
    BY <2>1, <2>2 DEF Rank
  <2> QED
    BY <1>1, <2>1, <2>2, <2>3, RankUnique
<1>4. ASSUME NEW k \in 1 .. Len(es)
      PROVE  Elements(tokens, Len(es))[k] = es[k]
  <2>1. Elements(tokens, Len(es))[k] =
          SubSeq(tokens, Begin(tokens, k),
                 IF k = Len(es) THEN Len(tokens) ELSE Begin(tokens, k + 1) - 1)
    BY DEF Elements
  <2>2. k # Len(es) => k + 1 \in 1 .. Len(es)
    BY <1>1
  <2> QED
    BY <1>2, <1>3, <2>1, <2>2
<1> QED
  BY <1>4

(***************************************************************************)
(* What a handler's loop writes.                                           *)
(***************************************************************************)
Outcomes == [ok : BOOLEAN, returns : BOOLEAN, size : Nat]

\* What the store is asked about: a list, and not an empty one.
Listed(items) == items \in Seq({items[k] : k \in DOMAIN items}) /\ items # <<>>

\* Results, and in ACCESS values, that are those of the items the store was asked about.
Tale(svc, n, said, results, data) ==
  \E es, ds :
    /\ Laid(results, es) /\ Len(es) = Len(said)
    /\ svc = "access" => Laid(data, ds) /\ Len(ds) = Len(said)
    /\ \A i \in 1 .. Len(said) :
         /\ Tells(IF svc = "access" THEN es[i] \o ds[i] ELSE es[i], n, i, svc, said[i])
         /\ svc # "access" /\ Len(es[i]) > 1 => es[i][1] = Ok

\* What a handler has written when it is through with k of the items, unless the buffer
\* was full before.
Written(svc, n, list, k) ==
  /\ list.said \in Seq(Outcomes) /\ Len(list.said) <= k
  /\ list.data \in Seq(Tokens) /\ list.results \in Seq(Tokens)
  /\ svc # "access" => list.data = <<>>
  /\ svc # "unconfirmed" /\ Len(list.said) = k =>
       Tale(svc, n, list.said, list.results, list.data)

\* A set that has the first number and the next one after each has them all.
LEMMA Induction ==
  ASSUME NEW T, NEW n \in Nat, 0 \in T, \A k \in 0 .. n - 1 : k \in T => k + 1 \in T
  PROVE  n \in T
<1> SUFFICES ASSUME n \notin T PROVE FALSE
  OBVIOUS
<1> DEFINE low == {k \in 0 .. n : k \in T}
           up == low \ {0}
           next == [k \in low |-> k + 1]
<1>1. IsFiniteSet(low) /\ 0 \in low
  <2>1. IsFiniteSet(0 .. n) /\ low \subseteq 0 .. n
    BY FS_Interval
  <2>2. IsFiniteSet(low)
    BY <2>1, FS_Subset
  <2> QED
    BY <2>2
<1>2. Cardinality(low) \in Nat /\ IsFiniteSet(up) /\ Cardinality(up) = Cardinality(low) - 1
  BY <1>1, FS_CardinalityType, FS_RemoveElement
<1>3. next \in Injection(low, up)
  <2>1. next \in [low -> up]
    OBVIOUS
  <2>2. \A a, b \in low : next[a] = next[b] => a = b
    OBVIOUS
  <2> QED
    BY <2>1, <2>2 DEF Injection, IsInjective
<1>4. Cardinality(low) <= Cardinality(up)
  BY <1>1, <1>2, <1>3, FS_Injection
<1> QED
  BY <1>2, <1>4

\* The marks are tokens, and the choice byte is none of the others.
LEMMA Marks ==
  /\ Ok \in Tokens /\ Done \in Tokens /\ Failed \in Tokens /\ Null \in Tokens
  /\ Ok # Done /\ Ok # Failed /\ Ok # Null /\ Done # Failed /\ Failed # Null
  /\ Ok.at = 0 /\ Done.at = 0 /\ Failed.at = 0 /\ Null.at = 1
  /\ \A n \in Nat : Count(n) \in Tokens /\ Count(n).size = n
<1>1. Ok \in Tokens /\ Done \in Tokens /\ Failed \in Tokens /\ Null \in Tokens
  BY DEF Ok, Done, Failed, Null, Mark, Tokens
<1>4. /\ Ok # Done /\ Ok # Failed /\ Ok # Null /\ Done # Failed /\ Failed # Null
      /\ Ok.at = 0 /\ Done.at = 0 /\ Failed.at = 0 /\ Null.at = 1
  BY DEF Ok, Done, Failed, Null, Mark
<1>5. ASSUME NEW n \in Nat
      PROVE  Count(n) \in Tokens /\ Count(n).size = n
  BY DEF Count, Mark, Tokens
<1> QED
  BY <1>1, <1>4, <1>5

\* An element without a value.
LEMMA ShapedMarks ==
  Shaped(<<Failed>>) /\ Shaped(<<Done>>) /\ Shaped(<<Null>>) /\ Shaped(<<Ok, Null>>)
<1>1. ASSUME NEW x \in Tokens, x # Ok, x.at <= 1
      PROVE  Shaped(<<x>>)
  BY <1>1 DEF Shaped
<1>2. Shaped(<<Ok, Null>>)
  <2> DEFINE e == <<Ok, Null>>
  <2>1. e \in Seq(Tokens) /\ Len(e) = 2 /\ e[1] = Ok /\ e[2] = Null /\ e # <<>>
    BY Marks
  <2> HIDE DEF e
  <2>2. Shaped(e)
    BY <2>1, Marks DEF Shaped
  <2> QED
    BY <2>2 DEF e
<1> QED
  BY <1>1, <1>2, Marks

\* A value the store wrote.
LEMMA ValueFacts ==
  ASSUME NEW n \in Nat, NEW i \in Nat, NEW size \in Nat
  PROVE  /\ Value(n, i, size) \in Seq(Tokens) /\ Shaped(Value(n, i, size))
         /\ size > 0 => /\ Shaped(<<Ok>> \o Value(n, i, size))
                        /\ (<<Ok>> \o Value(n, i, size))[1] = Ok
                        /\ Tail(<<Ok>> \o Value(n, i, size)) = Value(n, i, size)
<1> DEFINE v == Value(n, i, size)
           e == <<Ok>> \o v
<1>1. /\ v \in Seq(Tokens) /\ Len(v) = size
      /\ \A k \in 1 .. size : v[k].at = k /\ v[k].what = "value"
  <2>1. \A k \in 1 .. size :
          [what |-> "value", of |-> <<n, i>>, size |-> size, at |-> k] \in Tokens
    BY DEF Tokens
  <2> QED
    BY <2>1 DEF Value
<1> HIDE DEF v
<1>2. \A k \in 1 .. size : v[k] # Ok
  BY <1>1 DEF Ok, Mark
<1>3. v # <<>> => size > 0
  BY <1>1, EmptySeq
<1>4. Shaped(v)
  BY <1>1, <1>2, <1>3 DEF Shaped
<1>5. ASSUME size > 0
      PROVE  Shaped(e) /\ e[1] = Ok /\ Tail(e) = v
  <2>1. <<Ok>> \in Seq(Tokens) /\ Len(<<Ok>>) = 1 /\ <<Ok>>[1] = Ok
    BY Marks
  <2>2. e \in Seq(Tokens) /\ Len(e) = 1 + size
    BY <1>1, <2>1, ConcatProperties
  <2>3. \A k \in 1 .. 1 + size : e[k] = IF k <= 1 THEN <<Ok>>[k] ELSE v[k - 1]
    BY <1>1, <2>1, ConcatProperties
  <2>4. e[1] = Ok /\ \A k \in 2 .. 1 + size : e[k] = v[k - 1]
    <3>1. 1 \in 1 .. 1 + size /\ \A k \in 2 .. 1 + size : k \in 1 .. 1 + size /\ ~(k <= 1)
      BY <1>5
    <3> HIDE DEF e
    <3> QED
      BY <2>1, <2>3, <3>1
  <2> HIDE DEF e
  <2>5. Shaped(e)
    <3>1. e[1].at <= 1 /\ e[Len(e)] # Ok
      BY <1>2, <1>5, <2>2, <2>4, Marks
    <3>2. ASSUME NEW k \in 2 .. Len(e)
          PROVE  e[k].at > 1 \/ e[k - 1] = Ok
      <4>1. CASE k = 2
        BY <2>4, <4>1
      <4>2. CASE k > 2
        <5>1. e[k].at = k - 1
          BY <1>1, <2>2, <2>4, <4>2
        <5> QED
          BY <2>2, <4>2, <5>1
      <4> QED
        BY <2>2, <4>1, <4>2
    <3> QED
      BY <2>2, <3>1, <3>2 DEF Shaped
  <2>6. Tail(e) = v
    <3>1. e # <<>>
      BY <2>2, EmptySeq
    <3>2. /\ Tail(e) \in Seq(Tokens) /\ Len(Tail(e)) = size
          /\ \A k \in 1 .. size : Tail(e)[k] = e[k + 1]
      BY <2>2, <3>1, HeadTailProperties
    <3>3. \A k \in 1 .. size : Tail(e)[k] = v[k]
      BY <2>4, <3>2
    <3> QED
      BY <1>1, <3>2, <3>3, SeqEqual
  <2> QED
    BY <2>4, <2>5, <2>6
<1> QED
  BY <1>1, <1>4, <1>5 DEF v, e

\* What the store says of an item, also when the writer had no room for the value.
LEMMA SaysFacts ==
  ASSUME NEW item, NEW s \in Says(item), NEW room \in Nat
  PROVE  /\ Fitted(s, room) \in Outcomes
         /\ item.kind = "get" /\ Fitted(s, room).ok => Fitted(s, room).returns
<1>1. Sizes \subseteq Nat
  BY BoundsAssumption
<1>2. s \in Outcomes /\ (item.kind = "get" /\ s.ok => s.returns)
  <2>1. \/ s = Refusal \/ s = [ok |-> FALSE, returns |-> FALSE, size |-> 1]
        \/ \E z \in Sizes \union {0} : s = [ok |-> TRUE, returns |-> TRUE, size |-> z]
        \/ item.kind # "get" /\ s = [ok |-> TRUE, returns |-> FALSE, size |-> 0]
    BY DEF Says
  <2>2. CASE \E z \in Sizes \union {0} : s = [ok |-> TRUE, returns |-> TRUE, size |-> z]
    <3>1. PICK z \in Nat : s = [ok |-> TRUE, returns |-> TRUE, size |-> z]
      BY <1>1, <2>2
    <3> QED
      BY <3>1 DEF Outcomes
  <2>3. CASE s = Refusal \/ s = [ok |-> FALSE, returns |-> FALSE, size |-> 1]
    <3>1. s.ok = FALSE
      BY <2>3 DEF Refusal
    <3>2. s \in Outcomes
      <4>1. Refusal \in Outcomes
        BY DEF Refusal, Outcomes
      <4>2. [ok |-> FALSE, returns |-> FALSE, size |-> 1] \in Outcomes
        BY DEF Outcomes
      <4> QED
        BY <2>3, <4>1, <4>2
    <3> QED
      BY <3>1, <3>2
  <2>4. CASE item.kind # "get" /\ s = [ok |-> TRUE, returns |-> FALSE, size |-> 0]
    <3>1. s \in Outcomes
      BY <2>4 DEF Outcomes
    <3> QED
      BY <2>4, <3>1
  <2> QED
    BY <2>1, <2>2, <2>3, <2>4
<1> QED
  BY <1>2 DEF Fitted, Outcomes

\* An element without a value that tells of a failure, or of a success.
LEMMA MarksTell ==
  ASSUME NEW svc, NEW n, NEW i, NEW c
  PROVE  /\ (~c.ok \/ NothingWritten(c)) => Tells(<<Failed>>, n, i, svc, c)
         /\ c.ok /\ (svc = "write" \/ ~c.returns) => Tells(<<Done>>, n, i, svc, c)
         /\ c.ok /\ ~c.returns => Tells(<<Ok, Null>>, n, i, svc, c)
<1>1. <<Failed>>[1] = Failed /\ <<Done>>[1] = Done /\ <<Ok, Null>>[1] = Ok
  OBVIOUS
<1>2. Tail(<<Done>>) = <<>> /\ Tail(<<Ok, Null>>) = <<Null>>
  OBVIOUS
<1>3. Done # Failed /\ Ok # Failed
  BY Marks
<1>4. ASSUME ~c.ok \/ NothingWritten(c)
      PROVE  Tells(<<Failed>>, n, i, svc, c)
  BY <1>1, <1>4 DEF Tells
<1>5. ASSUME c.ok, svc = "write" \/ ~c.returns
      PROVE  Tells(<<Done>>, n, i, svc, c)
  <2>1. CASE svc = "write"
    BY <1>1, <1>3, <1>5, <2>1 DEF Tells
  <2>2. CASE svc # "write"
    BY <1>1, <1>2, <1>3, <1>5, <2>2 DEF Tells
  <2> QED
    BY <2>1, <2>2
<1>6. ASSUME c.ok, ~c.returns
      PROVE  Tells(<<Ok, Null>>, n, i, svc, c)
  BY <1>1, <1>2, <1>3, <1>6 DEF Tells
<1> QED
  BY <1>4, <1>5, <1>6

\* What is written of an item into the list of results, but for ACCESS, is an element
\* that tells what became of it.
LEMMA ResultTells ==
  ASSUME NEW svc, svc # "access", svc # "unconfirmed", NEW n \in Nat, NEW i \in Nat, NEW item,
         NEW c \in Outcomes,
         NEW e, e = IF svc = "write" THEN <<IF c.ok THEN Done ELSE Failed>>
                    ELSE ResultOf(svc, item, c, Value(n, i, c.size))
  PROVE  Shaped(e) /\ Tells(e, n, i, svc, c) /\ (Len(e) > 1 => e[1] = Ok)
<1> DEFINE value == Value(n, i, c.size)
           Good(x) == Shaped(x) /\ Tells(x, n, i, svc, c) /\ (Len(x) > 1 => x[1] = Ok)
<1>1. c.size \in Nat
  BY DEF Outcomes
<1>2. (~c.ok \/ NothingWritten(c)) => Good(<<Failed>>)
  BY MarksTell, ShapedMarks
<1>3. c.ok /\ (svc = "write" \/ ~c.returns) => Good(<<Done>>)
  BY MarksTell, ShapedMarks
<1>4. c.ok /\ ~c.returns => Good(<<Ok, Null>>)
  BY MarksTell, ShapedMarks
<1>5. ASSUME c.ok, c.returns, ~NothingWritten(c), svc # "write"
      PROVE  Good(<<Ok>> \o value)
  <2>1. c.size > 0
    BY <1>1, <1>5 DEF NothingWritten
  <2>2. Shaped(<<Ok>> \o value) /\ (<<Ok>> \o value)[1] = Ok /\ Tail(<<Ok>> \o value) = value
    BY <1>1, <2>1, ValueFacts
  <2>3. Ok # Failed
    BY Marks
  <2> DEFINE x == <<Ok>> \o value
  <2> HIDE DEF x
  <2>4. x[1] = Ok /\ Tail(x) = value
    BY <2>2 DEF x
  <2>5. Tells(x, n, i, svc, c)
    BY <1>5, <2>3, <2>4 DEF Tells
  <2> QED
    BY <2>2, <2>5 DEF x
<1>6. CASE svc = "write"
  <2>1. (e = <<Done>> /\ c.ok) \/ (e = <<Failed>> /\ ~c.ok)
    BY <1>6
  <2> QED
    BY <1>2, <1>3, <1>6, <2>1
<1>7. CASE svc # "write"
  <2>1. e = ResultOf(svc, item, c, value)
    BY <1>7
  <2> HIDE DEF Good, value
  <2>2. CASE ~c.ok \/ NothingWritten(c)
    <3>1. e = <<Failed>>
      BY <2>1, <2>2 DEF ResultOf
    <3>2. Good(e)
      BY <1>2, <2>2, <3>1
    <3> QED
      BY <3>2 DEF Good
  <2>3. CASE ~(~c.ok \/ NothingWritten(c)) /\ c.returns
    <3>1. e = <<Ok>> \o value
      BY <2>1, <2>3 DEF ResultOf
    <3>2. Good(e)
      BY <1>5, <1>7, <2>3, <3>1
    <3> QED
      BY <3>2 DEF Good
  <2>4. CASE ~(~c.ok \/ NothingWritten(c)) /\ ~c.returns
    <3>1. e \in {<<Done>>, <<Ok, Null>>}
      BY <2>1, <2>4 DEF ResultOf
    <3>2. Good(e)
      BY <1>3, <1>4, <2>4, <3>1
    <3> QED
      BY <3>2 DEF Good
  <2> QED
    BY <2>2, <2>3, <2>4
<1> QED
  BY <1>6, <1>7

\* What is written of an item of ACCESS: the outcome and the value tell together.
LEMMA AccessTells ==
  ASSUME NEW n \in Nat, NEW i \in Nat, NEW item, NEW c \in Outcomes,
         (item.kind = "get" /\ c.ok) => c.returns
  PROVE  LET value == Value(n, i, c.size)
             e == AccessOutcome(item, c)
             d == AccessData(item, c, value)
         IN  Shaped(e) /\ Shaped(d) /\ Tells(e \o d, n, i, "access", c)
<1> DEFINE value == Value(n, i, c.size)
           e == AccessOutcome(item, c)
           d == AccessData(item, c, value)
<1>1. c.size \in Nat /\ value \in Seq(Tokens) /\ Shaped(value)
  BY ValueFacts DEF Outcomes
<1>2. Shaped(e) /\ Shaped(d) /\ d \in Seq(Tokens)
  BY <1>1, ShapedMarks DEF AccessOutcome, AccessData, Shaped
<1>3. ASSUME NEW x \in Tokens
      PROVE  (<<x>> \o d)[1] = x /\ Tail(<<x>> \o d) = d
  <2> DEFINE s == <<x>> \o d
  <2>1. <<x>> \in Seq(Tokens) /\ Len(<<x>>) = 1 /\ <<x>>[1] = x
    OBVIOUS
  <2> HIDE DEF d
  <2>2. /\ s \in Seq(Tokens) /\ Len(s) = 1 + Len(d) /\ Len(d) \in Nat
        /\ \A k \in 1 .. 1 + Len(d) : s[k] = IF k <= 1 THEN <<x>>[k] ELSE d[k - 1]
    BY <1>2, <2>1, ConcatProperties
  <2> HIDE DEF s
  <2>3. s # <<>>
    BY <2>2, EmptySeq
  <2>4. /\ Tail(s) \in Seq(Tokens) /\ Len(Tail(s)) = Len(d)
        /\ \A k \in 1 .. Len(d) : Tail(s)[k] = s[k + 1]
    BY <2>2, <2>3, HeadTailProperties
  <2>5. \A k \in 1 .. Len(d) : Tail(s)[k] = d[k]
    BY <2>2, <2>4
  <2>6. Tail(s) = d
    BY <1>2, <2>4, <2>5, SeqEqual
  <2>7. s[1] = x
    BY <2>1, <2>2
  <2> QED
    BY <2>6, <2>7 DEF s
<1> HIDE DEF d
<1>4. CASE ~c.ok \/ (item.kind = "get" /\ c.size = 0)
  <2>1. e = <<Failed>> /\ (e \o d)[1] = Failed
    BY <1>3, <1>4, Marks DEF AccessOutcome
  <2>2. ~c.ok \/ NothingWritten(c)
    BY <1>4 DEF NothingWritten
  <2> QED
    BY <1>2, <2>1, <2>2 DEF Tells, d
<1>5. CASE ~(~c.ok \/ (item.kind = "get" /\ c.size = 0))
  <2>1. e = <<Done>> /\ (e \o d)[1] = Done /\ Tail(e \o d) = d /\ Done # Failed
    BY <1>3, <1>5, Marks DEF AccessOutcome
  <2>2. CASE c.returns
    <3>1. d = value
      BY <1>1, <1>5, <2>2 DEF AccessData, d
    <3> QED
      BY <1>2, <1>5, <2>1, <2>2, <3>1 DEF Tells, d
  <2>3. CASE ~c.returns
    <3>1. d = <<Null>>
      BY <2>3 DEF AccessData, d
    <3> QED
      BY <1>2, <1>5, <2>1, <2>3, <3>1 DEF Tells, d
  <2> QED
    BY <2>2, <2>3
<1> QED
  BY <1>4, <1>5

\* One entry more is told.
LEMMA TaleGrows ==
  ASSUME NEW svc, NEW n, NEW said \in Seq(Outcomes), NEW results, NEW data,
         Tale(svc, n, said, results, data), NEW c \in Outcomes,
         NEW e, NEW d, Shaped(e), svc = "access" => Shaped(d),
         Tells(IF svc = "access" THEN e \o d ELSE e, n, Len(said) + 1, svc, c),
         (svc # "access" /\ Len(e) > 1) => e[1] = Ok
  PROVE  Tale(svc, n, Append(said, c), results \o e, IF svc = "access" THEN data \o d ELSE <<>>)
<1>1. PICK es, ds :
        /\ Laid(results, es) /\ Len(es) = Len(said)
        /\ svc = "access" => Laid(data, ds) /\ Len(ds) = Len(said)
        /\ \A i \in 1 .. Len(said) :
             /\ Tells(IF svc = "access" THEN es[i] \o ds[i] ELSE es[i], n, i, svc, said[i])
             /\ svc # "access" /\ Len(es[i]) > 1 => es[i][1] = Ok
  BY DEF Tale
<1> DEFINE all == Append(es, e)
           bare == Append(ds, d)
           more == Append(said, c)
<1>2. /\ es \in Seq(Seq(Tokens)) /\ e \in Seq(Tokens)
      /\ svc = "access" => ds \in Seq(Seq(Tokens)) /\ d \in Seq(Tokens)
  BY <1>1 DEF Laid, Shaped
<1>3. Len(said) \in Nat
  OBVIOUS
<1>4. /\ Len(more) = Len(said) + 1 /\ more[Len(said) + 1] = c
      /\ \A i \in 1 .. Len(said) : more[i] = said[i]
  BY AppendProperties
<1>5. /\ Len(all) = Len(said) + 1 /\ all[Len(said) + 1] = e
      /\ \A i \in 1 .. Len(said) : all[i] = es[i]
  BY <1>1, <1>2, AppendProperties
<1>6. svc = "access" =>
        /\ Len(bare) = Len(said) + 1 /\ bare[Len(said) + 1] = d
        /\ \A i \in 1 .. Len(said) : bare[i] = ds[i]
  BY <1>1, <1>2, AppendProperties
<1>7. Laid(results \o e, all) /\ (svc = "access" => Laid(data \o d, bare))
  BY <1>1, LaidStep
<1> HIDE DEF all, bare, more
<1>8. ASSUME NEW i \in 1 .. Len(more)
      PROVE  /\ Tells(IF svc = "access" THEN all[i] \o bare[i] ELSE all[i], n, i, svc, more[i])
             /\ svc # "access" /\ Len(all[i]) > 1 => all[i][1] = Ok
  <2>1. CASE i = Len(said) + 1
    BY <1>4, <1>5, <1>6, <2>1
  <2>2. CASE i \in 1 .. Len(said)
    BY <1>1, <1>4, <1>5, <1>6, <2>2
  <2>3. i = Len(said) + 1 \/ i \in 1 .. Len(said)
    BY <1>3, <1>4
  <2> QED
    BY <2>1, <2>2, <2>3
<1>9. Tale(svc, n, more, results \o e, IF svc = "access" THEN data \o d ELSE <<>>)
  <2> DEFINE kept == IF svc = "access" THEN data \o d ELSE <<>>
  <2>1. svc = "access" => kept = data \o d
    OBVIOUS
  <2> HIDE DEF kept
  <2>2. /\ Laid(results \o e, all) /\ Len(all) = Len(more)
        /\ svc = "access" => Laid(kept, bare) /\ Len(bare) = Len(more)
    BY <1>4, <1>5, <1>6, <1>7, <2>1
  <2>3. Tale(svc, n, more, results \o e, kept)
    BY <1>8, <2>2 DEF Tale
  <2> QED
    BY <2>3 DEF kept
<1> QED
  BY <1>9 DEF more

\* One turn of a handler's loop.
LEMMA EntryWritten ==
  ASSUME NEW svc \in {"get", "action", "access", "read", "write", "unconfirmed"},
         NEW n \in Nat, NEW list, NEW k \in Nat, Written(svc, n, list, k),
         NEW item, NEW s \in Says(item)
  PROVE  Written(svc, n, Entry(svc, list, n, item, s), k + 1)
<1>1. /\ list.said \in Seq(Outcomes) /\ Len(list.said) <= k /\ Len(list.said) \in Nat
      /\ list.data \in Seq(Tokens) /\ list.results \in Seq(Tokens)
      /\ Len(list.data) \in Nat /\ Len(list.results) \in Nat
      /\ svc # "access" => list.data = <<>>
  BY DEF Written
<1>2. Room(svc, list) \in Int
  <2>1. Buffer \in Int
    BY BoundsAssumption
  <2>2. /\ svc \in {"write", "unconfirmed"} => Room(svc, list) = 1
        /\ svc = "access" => Room(svc, list) = Buffer - Len(list.data)
        /\ svc \in {"get", "action", "read"} => Room(svc, list) = Buffer - Len(list.results) - 1
    BY DEF Room
  <2> QED
    BY <1>1, <2>1, <2>2
<1>3. CASE Room(svc, list) < 0
  <2>1. Entry(svc, list, n, item, s) = list
    BY <1>3 DEF Entry
  <2>2. Written(svc, n, list, k + 1)
    BY <1>1 DEF Written
  <2> QED
    BY <2>1, <2>2
<1>4. CASE ~(Room(svc, list) < 0)
  <2> DEFINE c == Fitted(s, Room(svc, list))
             i == Len(list.said) + 1
             value == Value(n, i, c.size)
             d == AccessData(item, c, value)
             e == CASE svc = "access" -> AccessOutcome(item, c)
                    [] svc \in {"write", "unconfirmed"} -> <<IF c.ok THEN Done ELSE Failed>>
                    [] OTHER -> ResultOf(svc, item, c, value)
             data == IF svc = "access" THEN list.data \o d ELSE <<>>
             longer == Entry(svc, list, n, item, s)
  <2>1. longer = [said |-> Append(list.said, c), data |-> data, results |-> list.results \o e]
    BY <1>4 DEF Entry
  <2>2. c \in Outcomes /\ ((item.kind = "get" /\ c.ok) => c.returns)
    <3>1. PICK room \in Nat : room = Room(svc, list)
      BY <1>2, <1>4
    <3>2. Fitted(s, room) \in Outcomes /\ ((item.kind = "get" /\ Fitted(s, room).ok) => Fitted(s, room).returns)
      BY SaysFacts
    <3> QED
      BY <3>1, <3>2
  <2>3. i \in Nat
    BY <1>1
  <2> HIDE DEF c, i
  <2>4. svc = "access" =>
          e = AccessOutcome(item, c) /\ Shaped(e) /\ Shaped(d) /\ Tells(e \o d, n, i, svc, c)
    BY <2>2, <2>3, AccessTells
  <2>5. svc \notin {"access", "unconfirmed"} =>
          Shaped(e) /\ Tells(e, n, i, svc, c) /\ (Len(e) > 1 => e[1] = Ok)
    <3> SUFFICES ASSUME svc \notin {"access", "unconfirmed"}
                 PROVE  Shaped(e) /\ Tells(e, n, i, svc, c) /\ (Len(e) > 1 => e[1] = Ok)
      OBVIOUS
    <3>1. e = IF svc = "write" THEN <<IF c.ok THEN Done ELSE Failed>>
              ELSE ResultOf(svc, item, c, value)
      OBVIOUS
    <3> HIDE DEF e
    <3> QED
      BY <2>2, <2>3, <3>1, ResultTells
  <2>6. svc = "unconfirmed" => e \in Seq(Tokens)
    <3>1. <<Done>> \in Seq(Tokens) /\ <<Failed>> \in Seq(Tokens)
      BY Marks
    <3> QED
      BY <3>1
  <2> HIDE DEF d, e, data
  <2>7. e \in Seq(Tokens) /\ (svc = "access" => d \in Seq(Tokens))
    BY <2>4, <2>5, <2>6 DEF Shaped
  <2>8. list.results \o e \in Seq(Tokens)
    BY <1>1, <2>7, ConcatProperties
  <2>9. data \in Seq(Tokens) /\ (svc # "access" => data = <<>>)
    <3>1. CASE svc = "access"
      BY <1>1, <2>7, <3>1, ConcatProperties DEF data
    <3>2. CASE svc # "access"
      BY <3>2 DEF data
    <3> QED
      BY <3>1, <3>2
  <2>10. Append(list.said, c) \in Seq(Outcomes) /\ Len(Append(list.said, c)) = Len(list.said) + 1
    BY <1>1, <2>2, AppendProperties
  <2>11. ASSUME svc # "unconfirmed", Len(list.said) + 1 = k + 1
         PROVE  Tale(svc, n, Append(list.said, c), list.results \o e, data)
    <3>1. Tale(svc, n, list.said, list.results, list.data)
      BY <1>1, <2>11 DEF Written
    <3>2. /\ Shaped(e) /\ (svc = "access" => Shaped(d))
          /\ Tells(IF svc = "access" THEN e \o d ELSE e, n, i, svc, c)
          /\ (svc # "access" /\ Len(e) > 1) => e[1] = Ok
      BY <2>4, <2>5, <2>11
    <3>3. Tale(svc, n, Append(list.said, c), list.results \o e,
               IF svc = "access" THEN list.data \o d ELSE <<>>)
      BY <1>1, <2>2, <3>1, <3>2, TaleGrows DEF i
    <3> QED
      BY <3>3 DEF data
  <2>12. /\ longer.said = Append(list.said, c) /\ longer.data = data
         /\ longer.results = list.results \o e
    BY <2>1
  <2> HIDE DEF longer
  <2>13. Written(svc, n, longer, k + 1)
    BY <1>1, <2>8, <2>9, <2>10, <2>11, <2>12 DEF Written
  <2> QED
    BY <2>13 DEF longer
<1> QED
  BY <1>3, <1>4

\* Nothing is written at first.
LEMMA NothingTold ==
  ASSUME NEW svc, NEW n
  PROVE  Written(svc, n, [said |-> <<>>, data |-> <<>>, results |-> <<>>], 0)
<1> DEFINE none == <<>>
<1>1. none \in Seq(Tokens) /\ none \in Seq(Seq(Tokens)) /\ none \in Seq(Outcomes) /\ Len(none) = 0
  BY EmptySeq
<1>2. Begins(none) = {} /\ Cardinality({}) = 0
  <2>1. DOMAIN none = {}
    OBVIOUS
  <2> QED
    BY <2>1, FS_EmptySet DEF Begins
<1>3. \E at \in [1 .. Len(none) -> Begins(none)] : TRUE
  <2>1. [k \in 1 .. 0 |-> k] \in [1 .. Len(none) -> Begins(none)]
    BY <1>1
  <2> QED
    BY <2>1
<1>4. Laid(none, none)
  <2>1. PICK t, es : t = none /\ es = none
    OBVIOUS
  <2>2. /\ t \in Seq(Tokens) /\ es \in Seq(Seq(Tokens)) /\ Len(es) = 0 /\ t = <<>>
        /\ Cardinality(Begins(t)) = 0
    BY <1>1, <1>2, <2>1
  <2>3. \E to \in [1 .. Len(es) -> Begins(t)] :
          \A k \in 1 .. Len(es) :
            /\ Rank(t, to[k]) = k - 1
            /\ es[k] = SubSeq(t, to[k], IF k = Len(es) THEN Len(t) ELSE to[k + 1] - 1)
    <3>1. PICK to \in [1 .. Len(es) -> Begins(t)] : TRUE
      BY <1>3, <2>1
    <3>2. \A k \in 1 .. Len(es) : FALSE
      BY <2>2
    <3> QED
      BY <3>1, <3>2
  <2>4. Laid(t, es)
    <3>1. /\ t # <<>> => t[Len(t)] # Ok
          /\ Len(es) = 0 => t = <<>>
          /\ Len(es) = 1 => t = es[1]
          /\ Cardinality(Begins(t)) <= Len(es)
      BY <2>2
    <3>2. t \in Seq(Tokens) /\ es \in Seq(Seq(Tokens))
      BY <2>2
    <3> QED
      BY <2>3, <3>1, <3>2, Zenon DEF Laid
  <2> QED
    BY <2>1, <2>4
<1>5. Tale(svc, n, none, none, none)
  <2>1. \A k \in 1 .. Len(none) : FALSE
    BY <1>1
  <2> HIDE DEF none
  <2> QED
    BY <1>1, <1>4, <2>1 DEF Tale
<1> DEFINE list == [said |-> none, data |-> none, results |-> none]
<1>6. list.said = none /\ list.data = none /\ list.results = none
  OBVIOUS
<1> HIDE DEF none
<1>7. Written(svc, n, list, 0)
  <2> HIDE DEF list
  <2>1. svc # "access" => list.data = <<>>
    BY <1>6 DEF none
  <2> QED
    BY <1>1, <1>5, <1>6, <2>1 DEF Written
<1> QED
  BY <1>7 DEF none, list

NothingYet == [said |-> <<>>, data |-> <<>>, results |-> <<>>]

\* What a loop has after each of its turns.
RunOf(run, svc, n, items, says, last) ==
  /\ run = [k \in 0 .. last |-> run[k]]
  /\ run[0] = NothingYet
  /\ \A k \in 1 .. last : run[k] = Entry(svc, run[k - 1], n, items[k], says[k])

\* A loop can be run to its end.
LEMMA Runs ==
  ASSUME NEW svc, NEW n, NEW items, NEW says, NEW last \in Nat
  PROVE  \E run : RunOf(run, svc, n, items, says, last)
<1> DEFINE T == {j \in 0 .. last : \E run : RunOf(run, svc, n, items, says, j)}
<1>1. 0 \in T
  <2> DEFINE first == [k \in 0 .. 0 |-> NothingYet]
  <2>1. first = [k \in 0 .. 0 |-> first[k]] /\ first[0] = NothingYet
    OBVIOUS
  <2>2. \A k \in 1 .. 0 : FALSE
    OBVIOUS
  <2> HIDE DEF first
  <2>3. RunOf(first, svc, n, items, says, 0)
    BY <2>1, <2>2 DEF RunOf
  <2> QED
    BY <2>3
<1>2. ASSUME NEW j \in 0 .. last - 1, j \in T
      PROVE  j + 1 \in T
  <2>1. PICK run : RunOf(run, svc, n, items, says, j)
    BY <1>2
  <2>0. j \in Nat /\ j + 1 \in 0 .. last
    OBVIOUS
  <2> HIDE DEF T
  <2> DEFINE more == [k \in 0 .. j + 1 |->
                        IF k = j + 1 THEN Entry(svc, run[j], n, items[j + 1], says[j + 1])
                        ELSE run[k]]
  <2>2. /\ more = [k \in 0 .. j + 1 |-> more[k]]
        /\ \A k \in 0 .. j : more[k] = run[k]
        /\ more[j + 1] = Entry(svc, run[j], n, items[j + 1], says[j + 1])
    BY <2>0
  <2> HIDE DEF more
  <2>3. more[0] = NothingYet
    <3>1. 0 \in 0 .. j /\ run[0] = NothingYet
      BY <2>0, <2>1 DEF RunOf
    <3> QED
      BY <2>2, <3>1
  <2>4. ASSUME NEW k \in 1 .. j + 1
        PROVE  more[k] = Entry(svc, more[k - 1], n, items[k], says[k])
    <3>1. CASE k = j + 1
      <4>1. k - 1 = j /\ j \in 0 .. j
        BY <2>0, <3>1
      <4> QED
        BY <2>2, <3>1, <4>1
    <3>2. CASE k \in 1 .. j
      <4>1. k - 1 \in 0 .. j /\ k \in 0 .. j
        BY <2>0, <3>2
      <4>2. more[k - 1] = run[k - 1] /\ more[k] = run[k]
        BY <2>2, <4>1
      <4> QED
        BY <2>1, <3>2, <4>2 DEF RunOf
    <3> QED
      BY <2>0, <3>1, <3>2
  <2>5. RunOf(more, svc, n, items, says, j + 1)
    BY <2>2, <2>3, <2>4 DEF RunOf
  <2> QED
    BY <2>0, <2>5 DEF T
<1> HIDE DEF T
<1>3. last \in T
  BY <1>1, <1>2, Induction
<1> QED
  BY <1>3 DEF T

\* The loop's definition picks the only value there is.
LEMMA LoopIs ==
  ASSUME NEW svc, NEW n, NEW items, NEW says, NEW run, Len(items) \in Nat,
         RunOf(run, svc, n, items, says, Len(items))
  PROVE  \E same : RunOf(same, svc, n, items, says, Len(items))
                   /\ Loop(svc, n, items, says) = same[Len(items)]
<1> DEFINE Turn(f, k) ==
             IF k = 0 THEN [said |-> <<>>, data |-> <<>>, results |-> <<>>]
             ELSE CHOOSE longer \in {Entry(svc, shorter, n, items[k], says[k]) :
                                       shorter \in {f[k - 1]}} : TRUE
<1>1. ASSUME NEW f, NEW k \in 0 .. Len(items)
      PROVE  Turn(f, k) = IF k = 0 THEN NothingYet ELSE Entry(svc, f[k - 1], n, items[k], says[k])
  <2> DEFINE e == Entry(svc, f[k - 1], n, items[k], says[k])
  <2>1. {Entry(svc, shorter, n, items[k], says[k]) : shorter \in {f[k - 1]}} = {e}
    OBVIOUS
  <2> HIDE DEF e
  <2>2. (CHOOSE longer \in {e} : TRUE) = e
    OBVIOUS
  <2> QED
    BY <2>1, <2>2 DEF NothingYet, e
<1>2. run = [k \in 0 .. Len(items) |-> Turn(run, k)]
  <2> HIDE DEF Turn
  <2>1. ASSUME NEW k \in 0 .. Len(items)
        PROVE  run[k] = Turn(run, k)
    <3>1. CASE k = 0
      BY <1>1, <3>1 DEF RunOf
    <3>2. CASE k \in 1 .. Len(items)
      <4>1. run[k] = Entry(svc, run[k - 1], n, items[k], says[k]) /\ k # 0
        BY <3>2 DEF RunOf
      <4> QED
        BY <1>1, <4>1
    <3> QED
      BY <3>1, <3>2
  <2>2. run = [k \in 0 .. Len(items) |-> run[k]]
    BY DEF RunOf
  <2> QED
    BY <2>1, <2>2
<1>3. \E same : same = [k \in 0 .. Len(items) |-> Turn(same, k)]
                /\ Loop(svc, n, items, says) = same[Len(items)]
  BY <1>2 DEF Loop
<1>4. PICK same : same = [k \in 0 .. Len(items) |-> Turn(same, k)]
                  /\ Loop(svc, n, items, says) = same[Len(items)]
  BY <1>3
<1> HIDE DEF Turn
<1>5. \A k \in 0 .. Len(items) : same[k] = Turn(same, k)
  BY <1>4
<1>6. same = [k \in 0 .. Len(items) |-> same[k]]
  BY <1>4, <1>5
<1>7. same[0] = NothingYet /\ \A k \in 1 .. Len(items) :
        same[k] = Entry(svc, same[k - 1], n, items[k], says[k])
  BY <1>1, <1>5
<1>8. RunOf(same, svc, n, items, says, Len(items))
  BY <1>6, <1>7 DEF RunOf
<1> QED
  BY <1>4, <1>8

\* The loop of every handler writes what became of each item.
LEMMA LoopWritten ==
  ASSUME NEW svc \in {"get", "action", "access", "read", "write", "unconfirmed"},
         NEW n \in Nat, NEW items, Listed(items), NEW says \in SaysAll(items)
  PROVE  Written(svc, n, Loop(svc, n, items, says), Len(items))
<1>1. Len(items) \in Nat /\ DOMAIN items = 1 .. Len(items)
  BY DEF Listed
<1>2. PICK run : RunOf(run, svc, n, items, says, Len(items))
                 /\ Loop(svc, n, items, says) = run[Len(items)]
  <2>1. PICK first : RunOf(first, svc, n, items, says, Len(items))
    BY <1>1, Runs
  <2> QED
    BY <1>1, <2>1, LoopIs
<1> DEFINE T == {k \in 0 .. Len(items) : Written(svc, n, run[k], k)}
<1>3. 0 \in T
  BY <1>1, <1>2, NothingTold DEF RunOf, NothingYet
<1>4. ASSUME NEW k \in 0 .. Len(items) - 1, k \in T
      PROVE  k + 1 \in T
  <2>1. k + 1 \in 1 .. Len(items) /\ k \in Nat /\ k + 1 - 1 = k
    BY <1>1
  <2>2. says[k + 1] \in Says(items[k + 1])
    BY <1>1, <2>1 DEF SaysAll
  <2>3. run[k + 1] = Entry(svc, run[k], n, items[k + 1], says[k + 1])
    <3>1. PICK j \in 1 .. Len(items) : j = k + 1 /\ j - 1 = k
      BY <2>1
    <3>2. run[j] = Entry(svc, run[j - 1], n, items[j], says[j])
      BY <1>2 DEF RunOf
    <3> QED
      BY <3>1, <3>2
  <2>4. Written(svc, n, run[k], k)
    BY <1>4
  <2>5. Written(svc, n, Entry(svc, run[k], n, items[k + 1], says[k + 1]), k + 1)
    BY <2>1, <2>2, <2>4, EntryWritten
  <2> QED
    BY <1>1, <2>1, <2>3, <2>5
<1> HIDE DEF T
<1>5. Len(items) \in T
  BY <1>1, <1>3, <1>4, Induction
<1> QED
  BY <1>2, <1>5 DEF T

(***************************************************************************)
(* Types.                                                                  *)
(***************************************************************************)
Services == {"get", "action", "access", "read", "write", "unconfirmed"}

\* What is sent in blocks.
Transferring(t) ==
  \E S, I : t \in [kind : {"sending"}, svc : S, id : I, body : Seq(Tokens), sent : Nat, block : Nat]

TypeInv ==
  /\ invokeId \in 0 .. IdMod - 1
  /\ outstanding \in {NoId} \union 0 .. IdMod - 1
  /\ \A r \in requests : r.form = "list" => r.svc \in Services /\ Listed(r.items)
  /\ transfer.kind = "sending" =>
       /\ Transferring(transfer)
       /\ transfer.sent < Len(transfer.body) /\ Len(transfer.body) <= Buffer
  /\ \A n \in 1 .. Requests :
       Len(calls[n].said) \in Nat /\ Len(calls[n].said) <= Len(calls[n].items)

\* What a GET or a Read sends in blocks: its results, with their number in front, or the
\* value of the only one.
BodyOf(svc, items, results) ==
  IF svc = "get" THEN <<Count(Len(items))>> \o results ELSE Tail(results)

\* How a handler ends that has carried a list out.
Ended(m, list, replies) ==
  \/ transfer' = Idle /\ replies = {}
  \/ /\ transfer' = Idle /\ replies = {ErrorReply(m)}
     /\ m.svc \in {"get", "read"} /\ Len(list.data) + Len(list.results) > Pdu
     /\ ~agreed \/ (m.svc = "read" /\ Len(m.items) > 1)
  \/ /\ transfer' = Idle /\ replies = {ListReply(m, list)}
     /\ m.svc # "unconfirmed" /\ Len(list.said) = Len(m.items)
  \/ /\ m.svc = "get" \/ (m.svc = "read" /\ Len(m.items) = 1 /\ list.results # <<>>)
     /\ Len(list.said) = Len(m.items) /\ Len(list.data) + Len(list.results) > Pdu
     /\ BodyOf(m.svc, m.items, list.results) \in Seq(Tokens)
     /\ Len(BodyOf(m.svc, m.items, list.results)) <= Buffer
     /\ SendNextBlock(m, Sending(m, BodyOf(m.svc, m.items, list.results)))

\* A reply, and nothing the client knows is changed.
Replying(m, replies) ==
  /\ requests' = requests \ {m} /\ responses' = responses \union replies
  /\ UNCHANGED <<fixed, clientVars>>

\* What sending a block does.
LEMMA SendNextBlockFacts ==
  ASSUME NEW m, NEW t, SendNextBlock(m, t)
  PROVE  \E block :
           /\ Replying(m, {block})
           /\ block.svc = t.svc /\ block.id = t.id /\ block.form = "block"
           /\ block.number = t.block + 1
           /\ block.data = SubSeq(t.body, t.sent + 1, FragmentEnd(t))
           /\ block.last <=> FragmentEnd(t) = Len(t.body)
           /\ transfer' = IF FragmentEnd(t) = Len(t.body) THEN Idle
                          ELSE [t EXCEPT !.sent = FragmentEnd(t), !.block = @ + 1]
<1> DEFINE block == [svc |-> t.svc, id |-> t.id, form |-> "block", number |-> t.block + 1,
                     last |-> FragmentEnd(t) = Len(t.body),
                     data |-> SubSeq(t.body, t.sent + 1, FragmentEnd(t))]
<1>1. /\ Reply(m, {block})
      /\ transfer' = IF FragmentEnd(t) = Len(t.body) THEN Idle
                     ELSE [t EXCEPT !.sent = FragmentEnd(t), !.block = @ + 1]
  BY DEF SendNextBlock
<1>2. /\ block.svc = t.svc /\ block.id = t.id /\ block.form = "block"
      /\ block.number = t.block + 1
      /\ block.data = SubSeq(t.body, t.sent + 1, FragmentEnd(t))
      /\ block.last <=> FragmentEnd(t) = Len(t.body)
  OBVIOUS
<1> HIDE DEF block
<1>3. Replying(m, {block})
  BY <1>1 DEF Reply, Replying
<1> QED
  BY <1>1, <1>2, <1>3

\* The last part of each handler.
LEMMA AnswerEnds ==
  ASSUME NEW m, Listed(m.items), NEW list, Written(m.svc, m.n, list, Len(m.items)),
         Answer(m, list)
  PROVE  \E replies : Replying(m, replies) /\ Ended(m, list, replies)
<1> DEFINE body == IF m.svc = "get" THEN <<Count(Len(m.items))>> \o list.results
                   ELSE Tail(list.results)
<1>1. /\ Len(m.items) \in Nat /\ Len(list.said) <= Len(m.items) /\ Len(list.said) \in Nat
      /\ list.results \in Seq(Tokens) /\ Len(list.results) \in Nat
      /\ list.data \in Seq(Tokens) /\ Len(list.data) \in Nat
  BY DEF Listed, Written
<1>2. ASSUME NEW replies, Reply(m, replies)
      PROVE  Replying(m, replies)
  BY <1>2 DEF Reply, Replying
<1>3. Len(m.items) # 0 /\ Pdu \in Nat
  BY BoundsAssumption DEF Listed
<1>4. body = BodyOf(m.svc, m.items, list.results)
  BY DEF BodyOf
<1> DEFINE size == Len(list.data) + Len(list.results)
<1>5. \/ transfer' = Idle /\ Reply(m, {})
      \/ /\ m.svc # "unconfirmed" /\ ~(Len(list.said) < Len(m.items))
         /\ transfer' = Idle /\ Reply(m, {ListReply(m, list)})
      \/ /\ m.svc \in {"get", "read"} /\ ~(size <= Pdu)
         /\ ~agreed \/ (m.svc = "read" /\ Len(m.items) # 1)
         /\ transfer' = Idle /\ Reply(m, {ErrorReply(m)})
      \/ /\ ~(Len(list.said) < Len(m.items))
         /\ m.svc = "get" \/ (m.svc = "read" /\ Len(m.items) = 1)
         /\ ~(size <= Pdu) /\ ~(Len(body) > Buffer)
         /\ SendNextBlock(m, Sending(m, body))
  BY DEF Answer
<1>6. /\ ~(Len(list.said) < Len(m.items)) => Len(list.said) = Len(m.items)
      /\ ~(size <= Pdu) => size > Pdu
      /\ Len(m.items) # 1 => Len(m.items) > 1
  <2>1. PICK i \in Nat, s \in Nat, d \in Nat, r \in Nat :
          i = Len(m.items) /\ s = Len(list.said) /\ d = Len(list.data) /\ r = Len(list.results)
    BY <1>1
  <2>2. (~(s < i) => s = i) /\ (i # 1 => i > 1)
    <3>1. s <= i /\ i # 0
      BY <1>1, <1>3, <2>1
    <3> QED
      BY <3>1
  <2>3. ~(d + r <= Pdu) => d + r > Pdu
    <3>1. Pdu \in Nat
      BY <1>3
    <3> QED
      BY <3>1
  <2> QED
    BY <2>1, <2>2, <2>3
<1>7. CASE transfer' = Idle /\ Reply(m, {})
  BY <1>2, <1>7 DEF Ended
<1>8. CASE /\ m.svc # "unconfirmed" /\ ~(Len(list.said) < Len(m.items))
           /\ transfer' = Idle /\ Reply(m, {ListReply(m, list)})
  BY <1>2, <1>6, <1>8 DEF Ended
<1>9. CASE /\ m.svc \in {"get", "read"} /\ ~(size <= Pdu)
           /\ ~agreed \/ (m.svc = "read" /\ Len(m.items) # 1)
           /\ transfer' = Idle /\ Reply(m, {ErrorReply(m)})
  <2>1. size > Pdu /\ (Len(m.items) # 1 => Len(m.items) > 1)
    BY <1>6, <1>9
  <2> HIDE DEF body
  <2> QED
    BY <1>2, <1>9, <2>1 DEF Ended
<1>10. CASE /\ ~(Len(list.said) < Len(m.items))
            /\ m.svc = "get" \/ (m.svc = "read" /\ Len(m.items) = 1)
            /\ ~(size <= Pdu) /\ ~(Len(body) > Buffer)
            /\ SendNextBlock(m, Sending(m, body))
  <2>1. m.svc = "read" => list.results # <<>>
    <3> SUFFICES ASSUME m.svc = "read", list.results = <<>> PROVE FALSE
      OBVIOUS
    <3>1. list.data = <<>>
      BY DEF Written
    <3>2. Pdu \in Nat
      BY BoundsAssumption
    <3> QED
      BY <1>10, <3>1, <3>2
  <2>2. body \in Seq(Tokens) /\ Len(body) <= Buffer
    <3>1. CASE m.svc = "get"
      <4>1. <<Count(Len(m.items))>> \in Seq(Tokens)
        BY <1>1, Marks
      <4>2. body \in Seq(Tokens)
        BY <1>1, <3>1, <4>1, ConcatProperties
      <4>3. Len(body) \in Nat /\ Buffer \in Nat
        BY <4>2, BoundsAssumption
      <4> QED
        BY <1>10, <4>2, <4>3
    <3>2. CASE m.svc # "get"
      <4>1. body \in Seq(Tokens)
        BY <1>1, <1>10, <2>1, <3>2, HeadTailProperties
      <4>3. Len(body) \in Nat /\ Buffer \in Nat
        BY <4>1, BoundsAssumption
      <4> QED
        BY <1>10, <4>1, <4>3
    <3> QED
      BY <3>1, <3>2
  <2> HIDE DEF body
  <2>3. PICK block : Replying(m, {block})
    BY <1>10, SendNextBlockFacts
  <2>4. size > Pdu
    BY <1>6, <1>10
  <2>5. Ended(m, list, {block})
    BY <1>4, <1>6, <1>10, <2>1, <2>2, <2>4 DEF Ended
  <2> QED
    BY <2>3, <2>5
<1> QED
  BY <1>5, <1>7, <1>8, <1>9, <1>10

\* What is sent in blocks, with its fields.
LEMMA TransferringFacts ==
  ASSUME NEW t, Transferring(t)
  PROVE  /\ t.kind = "sending" /\ t.body \in Seq(Tokens) /\ t.sent \in Nat /\ t.block \in Nat
         /\ \A end \in Nat :
              LET u == [t EXCEPT !.sent = end, !.block = @ + 1]
              IN  /\ Transferring(u) /\ u.kind = "sending" /\ u.svc = t.svc /\ u.id = t.id
                  /\ u.body = t.body /\ u.sent = end /\ u.block = t.block + 1
<1>1. PICK S, I : t \in [kind : {"sending"}, svc : S, id : I, body : Seq(Tokens), sent : Nat, block : Nat]
  BY DEF Transferring
<1>2. ASSUME NEW end \in Nat
      PROVE  LET u == [t EXCEPT !.sent = end, !.block = @ + 1]
              IN  /\ Transferring(u) /\ u.kind = "sending" /\ u.svc = t.svc /\ u.id = t.id
                  /\ u.body = t.body /\ u.sent = end /\ u.block = t.block + 1
  <2> DEFINE u == [t EXCEPT !.sent = end, !.block = @ + 1]
  <2>1. PICK block \in Nat : block = t.block + 1
    BY <1>1
  <2>3. u = [t EXCEPT !.sent = end, !.block = block]
    BY <2>1
  <2>4. /\ u \in [kind : {"sending"}, svc : S, id : I, body : Seq(Tokens), sent : Nat, block : Nat]
        /\ u.kind = "sending" /\ u.svc = t.svc /\ u.id = t.id
        /\ u.body = t.body /\ u.sent = end /\ u.block = block
    BY <1>1, <1>2, <2>3
  <2> HIDE DEF u
  <2>2. Transferring(u)
    BY <2>4 DEF Transferring
  <2> QED
    BY <2>1, <2>2, <2>4 DEF u
<1> QED
  BY <1>1, <1>2

\* A transfer that begins.
LEMMA SendingFacts ==
  ASSUME NEW m, NEW body \in Seq(Tokens)
  PROVE  LET t == Sending(m, body)
         IN  /\ Transferring(t) /\ t.svc = m.svc /\ t.id = m.id /\ t.body = body
             /\ t.sent = 0 /\ t.block = 0 /\ t.kind = "sending"
<1> DEFINE t == Sending(m, body)
<1>1. /\ t \in [kind : {"sending"}, svc : {m.svc}, id : {m.id}, body : Seq(Tokens), sent : Nat, block : Nat]
      /\ t.svc = m.svc /\ t.id = m.id /\ t.body = body /\ t.sent = 0 /\ t.block = 0
      /\ t.kind = "sending"
  BY DEF Sending
<1> HIDE DEF t
<1>2. Transferring(t)
  BY <1>1 DEF Transferring
<1> QED
  BY <1>1, <1>2 DEF t

\* How far the next block goes.
LEMMA FragmentEndFacts ==
  ASSUME NEW t, Transferring(t)
  PROVE  /\ Fragment \in Nat \ {0} /\ Len(t.body) \in Nat /\ FragmentEnd(t) \in Nat
         /\ t.sent <= Len(t.body) => FragmentEnd(t) <= Len(t.body) /\ t.sent <= FragmentEnd(t)
         /\ FragmentEnd(t) # Len(t.body) =>
              FragmentEnd(t) = t.sent + Fragment /\ FragmentEnd(t) < Len(t.body)
<1>1. Fragment \in Nat \ {0}
  BY BoundsAssumption
<1>2. t.sent \in Nat /\ Len(t.body) \in Nat
  <2>1. t.sent \in Nat /\ t.body \in Seq(Tokens)
    BY TransferringFacts
  <2> QED
    BY <2>1
<1> QED
  BY <1>1, <1>2 DEF FragmentEnd

\* After a block the transfer is over, or there is more of it.
LEMMA TransferGoesOn ==
  ASSUME NEW m, NEW t, Transferring(t), SendNextBlock(m, t)
  PROVE  \/ transfer' = Idle
         \/ /\ Transferring(transfer') /\ transfer'.kind = "sending"
            /\ transfer'.svc = t.svc /\ transfer'.id = t.id /\ transfer'.body = t.body
            /\ transfer'.sent = t.sent + Fragment /\ transfer'.sent < Len(t.body)
            /\ transfer'.sent = FragmentEnd(t) /\ transfer'.block = t.block + 1
<1>1. transfer' = IF FragmentEnd(t) = Len(t.body) THEN Idle
                  ELSE [t EXCEPT !.sent = FragmentEnd(t), !.block = @ + 1]
  BY SendNextBlockFacts
<1>2. CASE FragmentEnd(t) = Len(t.body)
  BY <1>1, <1>2
<1>3. CASE FragmentEnd(t) # Len(t.body)
  <2>1. PICK end \in Nat : end = FragmentEnd(t) /\ end = t.sent + Fragment /\ end < Len(t.body)
    BY <1>3, FragmentEndFacts
  <2> DEFINE u == [t EXCEPT !.sent = end, !.block = @ + 1]
  <2>2. /\ Transferring(u) /\ u.kind = "sending" /\ u.svc = t.svc /\ u.id = t.id
        /\ u.body = t.body /\ u.sent = end /\ u.block = t.block + 1
    BY TransferringFacts
  <2>3. transfer' = u
    BY <1>1, <1>3, <2>1
  <2> HIDE DEF u
  <2> QED
    BY <2>1, <2>2, <2>3
<1> QED
  BY <1>2, <1>3

\* A list is refused whole, or carried out and answered.
LEMMA ListHandled ==
  ASSUME NEW m, HandleList(m), m.svc \in Services, Listed(m.items), m.n \in Nat
  PROVE  /\ m.form = "list"
         /\ \E replies :
              /\ Replying(m, replies)
              /\ \/ UNCHANGED <<transfer, calls>> /\ \A r \in replies : r = Exception(m)
                 \/ \E list :
                      /\ Written(m.svc, m.n, list, Len(m.items))
                      /\ calls' = [calls EXCEPT ![m.n] =
                           [svc |-> m.svc, items |-> m.items, said |-> list.said,
                            size |-> Len(list.data) + Len(list.results)]]
                      /\ Ended(m, list, replies)
<1>1. m.form = "list"
  BY DEF HandleList
<1>2. CASE TooMany(m)
  <2> DEFINE replies == IF m.svc = "unconfirmed" THEN {} ELSE {Exception(m)}
  <2>1. Reply(m, replies) /\ UNCHANGED <<transfer, calls>>
    BY <1>2 DEF HandleList
  <2>2. \A r \in replies : r = Exception(m)
    OBVIOUS
  <2> HIDE DEF replies
  <2>3. Replying(m, replies)
    BY <2>1 DEF Reply, Replying
  <2> QED
    BY <1>1, <2>1, <2>2, <2>3
<1>3. CASE ~TooMany(m)
  <2>1. PICK says \in SaysAll(m.items) :
          \E list \in {Loop(m.svc, m.n, m.items, says)} :
            /\ calls' = [calls EXCEPT ![m.n] =
                 [svc |-> m.svc, items |-> m.items, said |-> list.said,
                  size |-> Len(list.data) + Len(list.results)]]
            /\ Answer(m, list)
    BY <1>3 DEF HandleList
  <2>2. PICK list : /\ list = Loop(m.svc, m.n, m.items, says)
                    /\ calls' = [calls EXCEPT ![m.n] =
                         [svc |-> m.svc, items |-> m.items, said |-> list.said,
                          size |-> Len(list.data) + Len(list.results)]]
                    /\ Answer(m, list)
    BY <2>1
  <2>3. Written(m.svc, m.n, list, Len(m.items))
    BY <2>2, LoopWritten DEF Services
  <2>4. PICK replies : Replying(m, replies) /\ Ended(m, list, replies)
    BY <2>2, <2>3, AnswerEnds
  <2> QED
    BY <1>1, <2>2, <2>3, <2>4
<1> QED
  BY <1>2, <1>3

\* The transfer is a Read's, and this is its last block.
Stands(k) == transfer.kind = "sending" /\ transfer.svc = "read" /\ transfer.block = k

\* A block is asked for, and one is sent or an error.
LEMMA NextHandled ==
  ASSUME NEW m, HandleNext(m)
  PROVE  /\ m.form = "next" /\ calls' = calls
         /\ \/ /\ transfer.kind = "sending" /\ transfer.svc = m.svc
               /\ SendNextBlock(m, transfer)
            \/ /\ transfer' = transfer \/ transfer' = Idle
               /\ Replying(m, {ErrorReply(m)})
               /\ m.svc = "read" => ~Stands(m.number)
<1>1. Reply(m, {ErrorReply(m)}) => Replying(m, {ErrorReply(m)})
  BY DEF Reply, Replying
<1> QED
  BY <1>1 DEF HandleNext, Stands

\* The types hold throughout.
LEMMA AskTypes ==
  ASSUME Inv, TypeInv, NEW svc \in Services, Ask(svc)
  PROVE  TypeInv'
<1>1. PICK b \in Batches :
        /\ b.svc = svc
        /\ requests' = requests \union
             {[n |-> started + 1, svc |-> svc, form |-> "list", id |-> Outstanding(svc),
               items |-> b.items]}
  BY DEF Ask
<1>2. /\ invokeId' = IF svc \in {"get", "action", "access"} THEN NextInvokeId ELSE invokeId
      /\ outstanding' = Outstanding(svc)
      /\ UNCHANGED <<fixed, done, transfer, calls, responses>>
  BY DEF Ask
<1>3. NextInvokeId \in 0 .. IdMod - 1
  <2>1. IdMod \in Nat \ {0} /\ invokeId \in Int
    BY BoundsAssumption DEF TypeInv
  <2> QED
    BY <2>1 DEF NextInvokeId
<1>4. invokeId' \in 0 .. IdMod - 1 /\ outstanding' \in {NoId} \union 0 .. IdMod - 1
  BY <1>2, <1>3 DEF TypeInv, Outstanding
<1>5. Listed(b.items)
  BY BatchesAssumption DEF Listed
<1>6. \A r \in requests' : r.form = "list" => r.svc \in Services /\ Listed(r.items)
  BY <1>1, <1>5 DEF TypeInv
<1> QED
  BY <1>2, <1>4, <1>6 DEF TypeInv

\* The client's other steps leave the lists and the transfer alone.
LEMMA ClientTypes ==
  ASSUME TypeInv, UNCHANGED <<invokeId, outstanding, transfer, calls>>,
         \A r \in requests' : r.form = "list" => r \in requests
  PROVE  TypeInv'
BY DEF TypeInv

\* A request is handled.
LEMMA HandleTypes ==
  ASSUME Inv, TypeInv, Handle
  PROVE  TypeInv'
<1>1. PICK m \in requests : HandleList(m) \/ HandleNext(m)
  BY DEF Handle, HandleGetWithList, HandleActionWithList, HandleAccess, HandleRead, HandleWrite
<1>2. DOMAIN calls = 1 .. Requests /\ m.n \in 1 .. Requests /\ Requests \in Nat
  BY BoundsAssumption DEF Inv, NumbersInv
<1>3. ASSUME NEW replies, Replying(m, replies)
      PROVE  /\ invokeId' \in 0 .. IdMod - 1
             /\ outstanding' \in {NoId} \union 0 .. IdMod - 1
             /\ \A r \in requests' : r.form = "list" => r.svc \in Services /\ Listed(r.items)
  BY <1>3 DEF Replying, clientVars, TypeInv
<1> DEFINE Good(t) == t.kind = "sending" =>
             Transferring(t) /\ t.sent < Len(t.body) /\ Len(t.body) <= Buffer
           Heard == \A n \in 1 .. Requests :
             Len(calls'[n].said) \in Nat /\ Len(calls'[n].said) <= Len(calls'[n].items)
<1>4. Good(Idle)
  BY DEF Idle
<1>5. ASSUME NEW t, Transferring(t), Len(t.body) <= Buffer, SendNextBlock(m, t)
      PROVE  Good(transfer') /\ \E replies : Replying(m, replies)
  <2>1. \/ transfer' = Idle
        \/ /\ Transferring(transfer') /\ transfer'.body = t.body /\ transfer'.sent < Len(t.body)
    BY <1>5, TransferGoesOn
  <2>2. Good(transfer')
    BY <1>4, <1>5, <2>1
  <2>3. \E replies : Replying(m, replies)
    BY <1>5, SendNextBlockFacts
  <2> QED
    BY <2>2, <2>3
<1>6. Good(transfer)
  BY DEF TypeInv
<1>7. (\E replies : Replying(m, replies)) /\ Good(transfer') /\ Heard
  <2>1. CASE HandleList(m)
    <3>1. m.svc \in Services /\ Listed(m.items) /\ m.n \in Nat
      <4>1. m.form = "list"
        BY <2>1 DEF HandleList
      <4> QED
        BY <1>2, <4>1 DEF TypeInv
    <3>2. PICK replies :
            /\ Replying(m, replies)
            /\ \/ UNCHANGED <<transfer, calls>> /\ \A r \in replies : r = Exception(m)
               \/ \E list :
                    /\ Written(m.svc, m.n, list, Len(m.items))
                    /\ calls' = [calls EXCEPT ![m.n] =
                         [svc |-> m.svc, items |-> m.items, said |-> list.said,
                          size |-> Len(list.data) + Len(list.results)]]
                    /\ Ended(m, list, replies)
      BY <2>1, <3>1, ListHandled
    <3>3. CASE UNCHANGED <<transfer, calls>>
      <4>1. Heard
        BY <3>3 DEF TypeInv
      <4>2. Good(transfer')
        BY <1>6, <3>3
      <4> QED
        BY <3>2, <4>1, <4>2
    <3>4. ASSUME NEW list, Written(m.svc, m.n, list, Len(m.items)),
                 calls' = [calls EXCEPT ![m.n] =
                   [svc |-> m.svc, items |-> m.items, said |-> list.said,
                    size |-> Len(list.data) + Len(list.results)]],
                 Ended(m, list, replies)
          PROVE  Heard /\ Good(transfer')
      <4>1. Len(list.said) \in Nat /\ Len(list.said) <= Len(m.items)
        BY <3>4 DEF Written
      <4>2. Heard
        <5>1. calls'[m.n].said = list.said /\ calls'[m.n].items = m.items
          BY <1>2, <3>4
        <5>2. \A n \in 1 .. Requests : n # m.n => calls'[n] = calls[n]
          BY <1>2, <3>4
        <5> QED
          BY <4>1, <5>1, <5>2 DEF TypeInv
      <4> DEFINE body == BodyOf(m.svc, m.items, list.results)
                 t == Sending(m, body)
      <4>3. ASSUME body \in Seq(Tokens), Len(body) <= Buffer, SendNextBlock(m, t)
            PROVE  Good(transfer')
        <5> HIDE DEF body
        <5>1. Transferring(t) /\ t.body = body
          BY <4>3, SendingFacts
        <5> HIDE DEF t
        <5> QED
          BY <1>5, <4>3, <5>1
      <4>4. transfer' = Idle \/ (body \in Seq(Tokens) /\ Len(body) <= Buffer /\ SendNextBlock(m, t))
        BY <3>4 DEF Ended
      <4> HIDE DEF body, t, Good
      <4> QED
        BY <1>4, <4>2, <4>3, <4>4
    <3> QED
      BY <3>2, <3>3, <3>4
  <2>2. CASE HandleNext(m)
    <3>1. Heard
      BY <2>2, NextHandled DEF TypeInv
    <3>2. CASE transfer.kind = "sending" /\ SendNextBlock(m, transfer)
      BY <1>5, <3>1, <3>2 DEF TypeInv
    <3>3. CASE (transfer' = transfer \/ transfer' = Idle) /\ Replying(m, {ErrorReply(m)})
      <4>1. Good(transfer')
        BY <1>4, <1>6, <3>3
      <4> QED
        BY <3>1, <3>3, <4>1
    <3> QED
      BY <2>2, <3>2, <3>3, NextHandled
  <2> QED
    BY <1>1, <2>1, <2>2
<1> QED
  BY <1>3, <1>7 DEF TypeInv

\* Nothing has been asked at first.
LEMMA InitTypes == Init => TypeInv
<1> SUFFICES ASSUME Init PROVE TypeInv
  OBVIOUS
<1>1. IdMod \in Nat \ {0}
  BY BoundsAssumption
<1>2. Len(<<>>) = 0
  OBVIOUS
<1>3. \A n \in 1 .. Requests : calls[n].said = <<>> /\ calls[n].items = <<>>
  BY DEF Init, NoCalls
<1> QED
  BY <1>1, <1>2, <1>3 DEF Init, TypeInv, Idle

\* Every step keeps the types.
LEMMA NextTypes == Inv /\ TypeInv /\ [Next]_vars => TypeInv'
<1> SUFFICES ASSUME Inv, TypeInv, [Next]_vars PROVE TypeInv'
  OBVIOUS
<1>1. CASE \/ GetRequestWithList \/ ActionRequestWithList \/ AccessRequest \/ ReadRequest
           \/ WriteRequest \/ UnconfirmedWriteRequest
  BY <1>1, AskTypes DEF GetRequestWithList, ActionRequestWithList, AccessRequest, ReadRequest,
     WriteRequest, UnconfirmedWriteRequest, Services
<1>2. CASE NextBlockRequest
  <2>1. UNCHANGED <<invokeId, outstanding, transfer, calls>>
    BY <1>2 DEF NextBlockRequest
  <2>2. \A r \in requests' : r.form = "list" => r \in requests
    BY <1>2 DEF NextBlockRequest
  <2> QED
    BY <2>1, <2>2, ClientTypes
<1>3. CASE HandleResponse \/ Abandon
  <2>1. UNCHANGED <<invokeId, outstanding, transfer, calls, requests>>
    BY <1>3 DEF HandleResponse, Abandon
  <2> QED
    BY <2>1, ClientTypes
<1>4. CASE Handle
  BY <1>4, HandleTypes
<1>5. CASE UNCHANGED vars
  <2>1. UNCHANGED <<invokeId, outstanding, transfer, calls, requests>>
    BY <1>5 DEF vars, clientVars
  <2> QED
    BY <2>1, ClientTypes
<1> QED
  BY <1>1, <1>2, <1>3, <1>4, <1>5 DEF Next

\* The four-bit invoke id stays in its range, the store is asked about no more items than a
\* request has, and a transfer stays inside a body that fits the server's buffer.
THEOREM TypeCorrect == Spec => []TypeOK
<1>1. TypeInv => TypeOK
  BY DEF TypeInv, TypeOK
<1> QED
  BY <1>1, InitInv, InitTypes, NextInv, NextTypes, PTL DEF Spec

(***************************************************************************)
(* Every answer is its own.                                                *)
(***************************************************************************)

\* Who does not wait uses the services whose answers carry an invoke id, and makes no more
\* invocations than there are ids.
Steady ==
  \A c \in Callers : c.impatient => c.services \subseteq {"get", "action"} /\ Requests <= IdMod

\* How much of a body the first k blocks hold.
EndOf(body, k) == IF k * Fragment < Len(body) THEN k * Fragment ELSE Len(body)

\* What a GET or a Read that is invocation n sends in blocks.
Bodied(body, n) ==
  /\ calls[n] # NoCalls /\ body \in Seq(Tokens)
  /\ Len(calls[n].said) = Len(calls[n].items)
  /\ calls[n].svc = "get" \/ (calls[n].svc = "read" /\ Len(calls[n].items) = 1)
  /\ \E results, data :
       /\ Tale(calls[n].svc, n, calls[n].said, results, data)
       /\ calls[n].svc = "read" => results # <<>>
       /\ body = BodyOf(calls[n].svc, calls[n].items, results)

\* A block of invocation n, and a list of its results.
BlockOf(x, B, n) ==
  /\ x.svc = calls[n].svc /\ Bodied(B[n], n) /\ x.number \in Nat \ {0}
  /\ x.data = SubSeq(B[n], EndOf(B[n], x.number - 1) + 1, EndOf(B[n], x.number))
  /\ (x.last <=> EndOf(B[n], x.number) = Len(B[n]))

ListOf(x, n) ==
  /\ x.svc = calls[n].svc /\ calls[n] # NoCalls
  /\ x.count = Len(calls[n].items) /\ x.count = Len(calls[n].said)
  /\ Tale(calls[n].svc, n, calls[n].said, x.results, x.data)

\* The one failure that answers a Read whose results cannot be delivered.
FailureOf(x, n) ==
  /\ x.svc = "read" /\ x.count = 1 /\ x.results = <<Failed>>
  /\ calls[n].svc = "read" /\ Undeliverable(n)

Belongs(x, B, n) ==
  /\ x.form = "block" => BlockOf(x, B, n)
  /\ x.form = "list" => ListOf(x, n) \/ FailureOf(x, n)

\* The transfer is that of invocation n.
Carries(t, B, n) ==
  /\ t.svc = calls[n].svc /\ t.body = B[n] /\ Bodied(B[n], n)
  /\ t.sent = t.block * Fragment

Mine(n) == op # NoOp /\ op.n = n

\* Something of a transfer is under way.
Asked ==
  \/ op # NoOp /\ op.ready
  \/ \E r \in requests : r.form = "next"
  \/ \E x \in responses : x.form = "block"

TransferInv(B) ==
  transfer.kind = "sending" =>
    \E n \in 1 .. started :
      /\ Carries(transfer, B, n)
      /\ ~caller.impatient /\ Asked => Mine(n)
      /\ caller.impatient => transfer.id = n % IdMod /\ transfer.svc = "get"

ResponsesInv(B) ==
  \A x \in responses : x.form \in {"list", "block"} =>
    \E n \in 1 .. started :
      /\ Belongs(x, B, n)
      /\ ~caller.impatient => Mine(n)
      /\ caller.impatient => x.id = n % IdMod

\* What the caller has collected is the beginning of what its own invocation sends.
OpInv(B) ==
  op # NoOp =>
    /\ op.lastBlock \in Nat
    /\ op.lastBlock = 0 => op.got = <<>>
    /\ op.lastBlock > 0 => /\ calls[op.n] # NoCalls
                           /\ op.got = SubSeq(B[op.n], 1, EndOf(B[op.n], op.lastBlock))
    /\ calls[op.n] # NoCalls => calls[op.n].items = op.items /\ calls[op.n].svc = op.svc
    /\ caller.impatient => outstanding = op.n % IdMod

\* There is a book of what every invocation sends, and all that is under way agrees with it.
BookInv ==
  \E B \in [1 .. Requests -> Seq(Tokens)] : TransferInv(B) /\ ResponsesInv(B) /\ OpInv(B)

RequestsInv ==
  \A r \in requests : r.form = "list" =>
    /\ calls[r.n] = NoCalls
    /\ \A s \in requests : s.form = "list" /\ s.n = r.n => s = r
    /\ Mine(r.n) => r.items = op.items /\ r.svc = op.svc
    /\ caller.impatient => r.id = r.n % IdMod /\ r.svc \in {"get", "action"}

CallerInv ==
  /\ caller \in Callers
  /\ caller.impatient => invokeId = started % IdMod

\* What was answered is known to the store.
DoneInv == EachItsOwn /\ (done # NoOp /\ done.form = "list" => calls[done.n] # NoCalls)

CallsInv == \A n \in 1 .. Requests : calls[n] # NoCalls => Listed(calls[n].items)

OwnInv == BookInv /\ RequestsInv /\ CallerInv /\ DoneInv /\ CallsInv

\* How far k blocks go.
LEMMA EndOfFacts ==
  ASSUME NEW body \in Seq(Tokens), NEW k \in Nat
  PROVE  /\ EndOf(body, k) \in 0 .. Len(body) /\ EndOf(body, 0) = 0
         /\ EndOf(body, k) <= EndOf(body, k + 1)
         /\ SubSeq(body, 1, EndOf(body, k)) \o SubSeq(body, EndOf(body, k) + 1, EndOf(body, k + 1))
              = SubSeq(body, 1, EndOf(body, k + 1))
<1>1. Fragment \in Nat \ {0} /\ Len(body) \in Nat
  BY BoundsAssumption
<1>2. PICK a \in Nat : a = k * Fragment
  BY <1>1
<1>3. (k + 1) * Fragment = a + Fragment /\ 0 * Fragment = 0
  BY <1>1, <1>2
<1>4. /\ EndOf(body, k) = IF a < Len(body) THEN a ELSE Len(body)
      /\ EndOf(body, k + 1) = IF a + Fragment < Len(body) THEN a + Fragment ELSE Len(body)
      /\ EndOf(body, 0) = 0
  BY <1>1, <1>2, <1>3 DEF EndOf
<1>5. PICK i \in 0 .. Len(body), j \in 0 .. Len(body) :
        i = EndOf(body, k) /\ j = EndOf(body, k + 1) /\ i <= j
  BY <1>1, <1>4
<1>6. SubSeq(body, 1, i) \o SubSeq(body, i + 1, j) = SubSeq(body, 1, j)
  <2>1. /\ 1 \in 1 .. Len(body) + 1 /\ i \in 1 - 1 .. Len(body) /\ j \in i .. Len(body)
    BY <1>1, <1>5
  <2> QED
    BY <2>1, ConcatAdjacentSubSeq
<1> QED
  BY <1>4, <1>5, <1>6

\* The next block of a transfer is the next block of its body.
LEMMA NextPiece ==
  ASSUME NEW t, Transferring(t), t.sent = t.block * Fragment, t.sent <= Len(t.body),
         NEW k, k = t.block + 1
  PROVE  /\ k \in Nat \ {0} /\ FragmentEnd(t) = EndOf(t.body, k)
         /\ SubSeq(t.body, t.sent + 1, FragmentEnd(t))
              = SubSeq(t.body, EndOf(t.body, k - 1) + 1, EndOf(t.body, k))
         /\ t.sent + Fragment = k * Fragment
<1>1. Fragment \in Nat \ {0} /\ t.sent \in Nat /\ t.block \in Nat /\ t.body \in Seq(Tokens)
  BY BoundsAssumption, TransferringFacts
<1>2. k * Fragment = t.sent + Fragment /\ Len(t.body) \in Nat
  <2>1. (t.block + 1) * Fragment = t.sent + Fragment /\ Len(t.body) \in Nat
    BY <1>1
  <2> QED
    BY <2>1
<1>3. EndOf(t.body, t.block) = t.sent
  BY <1>1, <1>2 DEF EndOf
<1>4. FragmentEnd(t) = EndOf(t.body, k)
  BY <1>2 DEF EndOf, FragmentEnd
<1>5. k - 1 = t.block /\ k \in Nat \ {0}
  BY <1>1
<1> QED
  BY <1>2, <1>3, <1>4, <1>5

\* The first token and the others.
LEMMA Prepended ==
  ASSUME NEW x \in Tokens, NEW s \in Seq(Tokens)
  PROVE  /\ <<x>> \o s \in Seq(Tokens) /\ (<<x>> \o s)[1] = x /\ Tail(<<x>> \o s) = s
         /\ s # <<>> => <<s[1]>> \o Tail(s) = s
<1> DEFINE t == <<x>> \o s
<1>1. <<x>> \in Seq(Tokens) /\ Len(<<x>>) = 1 /\ <<x>>[1] = x
  OBVIOUS
<1>2. /\ t \in Seq(Tokens) /\ Len(t) = 1 + Len(s) /\ Len(s) \in Nat
      /\ \A k \in 1 .. 1 + Len(s) : t[k] = IF k <= 1 THEN <<x>>[k] ELSE s[k - 1]
  BY <1>1, ConcatProperties
<1> HIDE DEF t
<1>3. t # <<>>
  BY <1>2, EmptySeq
<1>4. /\ Tail(t) \in Seq(Tokens) /\ Len(Tail(t)) = Len(s)
      /\ \A k \in 1 .. Len(s) : Tail(t)[k] = t[k + 1]
  BY <1>2, <1>3, HeadTailProperties
<1>5. \A k \in 1 .. Len(s) : Tail(t)[k] = s[k]
  BY <1>2, <1>4
<1>6. Tail(t) = s
  BY <1>4, <1>5, SeqEqual
<1>7. t[1] = x
  BY <1>1, <1>2
<1>8. ASSUME s # <<>>
      PROVE  <<s[1]>> \o Tail(s) = s
  <2>1. Len(s) \in 1 .. Len(s)
    BY <1>2, <1>8, EmptySeq
  <2>2. 1 \in 1 .. Len(s)
    BY <1>2, <2>1
  <2>3. SubSeq(s, 1, Len(s)) = <<s[1]>> \o SubSeq(s, 2, Len(s))
    BY <2>1, <2>2, SubSeqRecursiveFirst
  <2>4. SubSeq(s, 1, Len(s)) = s /\ Tail(s) = SubSeq(s, 2, Len(s))
    BY <1>8, SubSeqFull, TailIsSubSeq
  <2> QED
    BY <2>3, <2>4
<1> QED
  BY <1>2, <1>6, <1>7, <1>8 DEF t

\* No two of as many invocations as there are ids have the same one.
LEMMA IdsDiffer ==
  ASSUME NEW a \in 1 .. Requests, NEW b \in 1 .. Requests, Requests <= IdMod,
         a % IdMod = b % IdMod
  PROVE  a = b
<1>1. Requests \in Nat /\ IdMod \in Nat \ {0}
  BY BoundsAssumption
<1>2. \A k \in 1 .. Requests : k % IdMod = IF k = IdMod THEN 0 ELSE k
  BY <1>1
<1> QED
  BY <1>1, <1>2

\* What goes on of an invocation the caller waits for.
LEMMA WaitingMore ==
  ASSUME NEW o, Waiting(o), NEW got, NEW block
  PROVE  /\ LET q == [o EXCEPT !.got = got, !.lastBlock = block, !.ready = TRUE]
            IN  /\ q.n = o.n /\ q.svc = o.svc /\ q.items = o.items
                /\ q.got = got /\ q.lastBlock = block
         /\ LET q == [o EXCEPT !.ready = FALSE]
            IN  /\ q.n = o.n /\ q.svc = o.svc /\ q.items = o.items
                /\ q.got = o.got /\ q.lastBlock = o.lastBlock
BY DEF Waiting

\* The entries of an answer are those of the items of its invocation.
Own(n, svc, items, results) ==
  /\ Len(results) = Len(items) /\ Len(calls[n].said) = Len(items)
  /\ \A i \in DOMAIN items : Tells(results[i], n, i, svc, calls[n].said[i])

\* What the caller is told: that, or the one failure of a Read that cannot be delivered.
Told(n, svc, items, results) ==
  \/ Own(n, svc, items, results)
  \/ svc = "read" /\ results = <<<<Failed>>>> /\ Undeliverable(n)

\* An answer in one APDU.
LEMMA TakeListTells ==
  ASSUME NEW n, NEW m, ListOf(m, n), Listed(calls[n].items), op.n = n, op.svc = calls[n].svc,
         op.items = calls[n].items, TakeList(m)
  PROVE  \/ op' = NoOp /\ done' = done
         \/ \E results :
              /\ done' = [n |-> n, svc |-> op.svc, items |-> op.items, form |-> "list",
                          results |-> results]
              /\ op' = NoOp /\ Own(n, op.svc, op.items, results)
<1> DEFINE data == IF m.svc = "access" THEN Elements(m.data, m.count) ELSE <<>>
           results == Elements(m.results, m.count)
           all == [i \in 1 .. m.count |->
                     IF m.svc = "access" THEN results[i] \o data[i] ELSE results[i]]
<1>1. \/ GiveUp
      \/ /\ Decodable(m.results, m.count) /\ (m.svc = "access" => Decodable(m.data, m.count))
         /\ done' = [n |-> op.n, svc |-> op.svc, items |-> op.items, form |-> "list",
                     results |-> all]
         /\ op' = NoOp
  BY DEF TakeList, Finish
<1>2. CASE GiveUp
  BY <1>2 DEF GiveUp
<1>3. CASE /\ Decodable(m.results, m.count) /\ (m.svc = "access" => Decodable(m.data, m.count))
           /\ done' = [n |-> op.n, svc |-> op.svc, items |-> op.items, form |-> "list",
                       results |-> all]
           /\ op' = NoOp
  <2>1. /\ m.svc = op.svc /\ m.count = Len(op.items) /\ m.count = Len(calls[n].said)
        /\ m.count \in Nat /\ DOMAIN op.items = 1 .. m.count
    <3>1. m.svc = op.svc /\ m.count = Len(op.items) /\ m.count = Len(calls[n].said)
      BY DEF ListOf
    <3> HIDE DEF data, results, all
    <3>2. Len(op.items) \in Nat /\ DOMAIN op.items = 1 .. Len(op.items)
      <4>1. op.items \in Seq({op.items[k] : k \in DOMAIN op.items})
        BY DEF Listed
      <4> DEFINE s == op.items
      <4>2. PICK S : s \in Seq(S)
        BY <4>1
      <4> HIDE DEF s
      <4>3. Len(s) \in Nat /\ DOMAIN s = 1 .. Len(s)
        BY <4>2
      <4> QED
        BY <4>3 DEF s
    <3> QED
      BY <3>1, <3>2
  <2>2. PICK es, ds :
          /\ Laid(m.results, es) /\ Len(es) = m.count
          /\ m.svc = "access" => Laid(m.data, ds) /\ Len(ds) = m.count
          /\ \A i \in 1 .. m.count :
               Tells(IF m.svc = "access" THEN es[i] \o ds[i] ELSE es[i], n, i, op.svc,
                     calls[n].said[i])
    <3>1. Tale(op.svc, n, calls[n].said, m.results, m.data)
      BY DEF ListOf
    <3> QED
      BY <2>1, <3>1 DEF Tale
  <2>3. \A i \in 1 .. m.count : results[i] = es[i]
    <3>1. Cardinality(Begins(m.results)) = Len(es)
      BY <1>3, <2>2 DEF Decodable
    <3> QED
      BY <2>2, <3>1, ElementsLaid
  <2>4. m.svc = "access" => \A i \in 1 .. m.count : data[i] = ds[i]
    <3> SUFFICES ASSUME m.svc = "access" PROVE \A i \in 1 .. m.count : data[i] = ds[i]
      OBVIOUS
    <3>1. Cardinality(Begins(m.data)) = Len(ds)
      BY <1>3, <2>2 DEF Decodable
    <3>2. \A i \in 1 .. m.count : Elements(m.data, m.count)[i] = ds[i]
      BY <2>2, <3>1, ElementsLaid
    <3> QED
      BY <3>2
  <2> HIDE DEF data, results
  <2>5. /\ Len(all) = m.count
        /\ \A i \in 1 .. m.count :
             all[i] = IF m.svc = "access" THEN es[i] \o ds[i] ELSE es[i]
    <3>1. Len(all) = m.count
      BY <2>1
    <3>2. ASSUME NEW i \in 1 .. m.count
          PROVE  all[i] = IF m.svc = "access" THEN es[i] \o ds[i] ELSE es[i]
      <4>1. all[i] = IF m.svc = "access" THEN results[i] \o data[i] ELSE results[i]
        OBVIOUS
      <4> HIDE DEF all
      <4>2. results[i] = es[i] /\ (m.svc = "access" => data[i] = ds[i])
        BY <2>3, <2>4
      <4> QED
        BY <4>1, <4>2
    <3> HIDE DEF all
    <3> QED
      BY <3>1, <3>2
  <2> HIDE DEF all
  <2>6. Own(n, op.svc, op.items, all)
    BY <2>1, <2>2, <2>5 DEF Own
  <2> QED
    BY <1>3, <2>6
<1> QED
  BY <1>1, <1>2, <1>3

\* The one failure that answers a Read whose results cannot be delivered.
LEMMA FailureTells ==
  ASSUME NEW n, NEW m, FailureOf(m, n), op.n = n, TakeList(m)
  PROVE  \/ op' = NoOp /\ done' = done
         \/ /\ done' = [n |-> n, svc |-> op.svc, items |-> op.items, form |-> "list",
                        results |-> <<<<Failed>>>>]
            /\ op' = NoOp
<1> DEFINE s == <<Failed>>
           all == [i \in 1 .. 1 |-> Elements(s, 1)[i]]
<1>1. m.svc = "read" /\ m.count = 1 /\ m.results = s
  BY DEF FailureOf
<1>2. Begins(s) = {1}
  <2>1. Failed.at = 0 /\ DOMAIN s = {1} /\ s[1] = Failed
    BY DEF Failed, Mark
  <2> HIDE DEF s
  <2> QED
    BY <2>1 DEF Begins
<1>3. Begin(s, 1) = 1
  <2> HIDE DEF s
  <2>1. {q \in {1} : q < 1} = {}
    OBVIOUS
  <2>2. Cardinality({q \in {1} : q < 1}) = 1 - 1
    BY <2>1, FS_EmptySet
  <2>3. Begin(s, 1) \in {1}
    BY <1>2, <2>2 DEF Begin
  <2> QED
    BY <2>3
<1>4. Elements(s, 1)[1] = s
  <2>1. s \in Seq({Failed}) /\ Len(s) = 1
    OBVIOUS
  <2> HIDE DEF s
  <2>2. SubSeq(s, 1, 1) = s
    <3>1. SubSeq(s, 1, Len(s)) = s
      BY <2>1, SubSeqFull
    <3> QED
      BY <2>1, <3>1
  <2> QED
    BY <1>3, <2>1, <2>2 DEF Elements
<1>5. all = <<s>>
  BY <1>4
<1>6. \/ GiveUp
      \/ /\ done' = [n |-> op.n, svc |-> op.svc, items |-> op.items, form |-> "list",
                     results |-> all]
         /\ op' = NoOp
  <2> HIDE DEF s
  <2> QED
    BY <1>1 DEF TakeList, Finish
<1> HIDE DEF all
<1> QED
  BY <1>5, <1>6 DEF GiveUp

\* The last block of a body is in, and it is all there.
LEMMA BodyTells ==
  ASSUME NEW n, NEW got, Bodied(got, n), Listed(calls[n].items), op.n = n, op.svc = calls[n].svc,
         op.items = calls[n].items
  PROVE  LET count == IF op.svc = "get" THEN got[1].size ELSE 1
             body == IF op.svc = "get" THEN Tail(got) ELSE got
         IN  Decodable(body, count) =>
               Own(n, op.svc, op.items,
                   [i \in 1 .. count |->
                      IF op.svc = "get" THEN Elements(body, count)[i] ELSE <<Ok>> \o body])
<1> DEFINE count == IF op.svc = "get" THEN got[1].size ELSE 1
           body == IF op.svc = "get" THEN Tail(got) ELSE got
           all == [i \in 1 .. count |->
                     IF op.svc = "get" THEN Elements(body, count)[i] ELSE <<Ok>> \o body]
<1>1. PICK results, data :
        /\ Tale(op.svc, n, calls[n].said, results, data)
        /\ op.svc = "read" => results # <<>>
        /\ got = BodyOf(op.svc, op.items, results)
  BY DEF Bodied
<1>2. PICK es :
        /\ Laid(results, es) /\ Len(es) = Len(calls[n].said)
        /\ \A i \in 1 .. Len(calls[n].said) :
             /\ Tells(IF op.svc = "access" THEN es[i] \o es[i] ELSE es[i], n, i, op.svc,
                      calls[n].said[i])
             /\ op.svc # "access" /\ Len(es[i]) > 1 => es[i][1] = Ok
  <2>1. op.svc # "access"
    BY DEF Bodied
  <2> QED
    BY <1>1, <2>1 DEF Tale
<1>3. /\ op.svc = "get" \/ (op.svc = "read" /\ Len(op.items) = 1)
      /\ Len(calls[n].said) = Len(op.items) /\ Len(op.items) \in Nat
      /\ DOMAIN op.items = 1 .. Len(op.items) /\ results \in Seq(Tokens)
  BY <1>2 DEF Bodied, Listed, Laid
<1> SUFFICES ASSUME Decodable(body, count) PROVE Own(n, op.svc, op.items, all)
  OBVIOUS
<1>4. Cardinality(Begins(body)) = count
  BY DEF Decodable
<1>5. CASE op.svc = "get"
  <2>1. got = <<Count(Len(op.items))>> \o results
    BY <1>1, <1>5 DEF BodyOf
  <2>2. Count(Len(op.items)) \in Tokens /\ Count(Len(op.items)).size = Len(op.items)
    BY <1>3, Marks
  <2>3. Tail(got) = results /\ got[1] = Count(Len(op.items))
    BY <1>3, <2>1, <2>2, Prepended
  <2>4. body = results /\ count = Len(op.items)
    BY <1>5, <2>2, <2>3
  <2>5. \A i \in 1 .. Len(op.items) : Elements(results, Len(op.items))[i] = es[i]
    <3>1. Cardinality(Begins(results)) = Len(es) /\ Len(es) = Len(op.items)
      BY <1>2, <1>3, <1>4, <2>4
    <3> QED
      BY <1>2, <3>1, ElementsLaid
  <2>6. all = [i \in 1 .. Len(op.items) |-> Elements(results, Len(op.items))[i]]
    BY <1>5, <2>4
  <2> HIDE DEF all
  <2>7. Len(all) = Len(op.items) /\ \A i \in 1 .. Len(op.items) : all[i] = es[i]
    BY <1>3, <2>5, <2>6
  <2>8. \A i \in 1 .. Len(op.items) : Tells(all[i], n, i, op.svc, calls[n].said[i])
    BY <1>2, <1>3, <1>5, <2>7
  <2> QED
    BY <1>3, <2>7, <2>8 DEF Own
<1>6. CASE op.svc = "read" /\ Len(op.items) = 1
  <2>1. body = Tail(results) /\ count = 1 /\ results # <<>>
    BY <1>1, <1>6 DEF BodyOf
  <2>2. results = es[1]
    BY <1>2, <1>3, <1>6 DEF Laid
  <2>3. Tail(results) # <<>>
    <3> SUFFICES ASSUME Tail(results) = <<>> PROVE FALSE
      OBVIOUS
    <3>1. DOMAIN Tail(results) = {}
      OBVIOUS
    <3>2. Begins(Tail(results)) = {}
      BY <3>1 DEF Begins
    <3> HIDE DEF body, count
    <3> QED
      BY <1>4, <2>1, <3>2, FS_EmptySet
  <2>4. Len(results) > 1
    BY <1>3, <2>1, <2>3, HeadTailProperties, EmptySeq
  <2>5. results[1] = Ok
    BY <1>2, <1>3, <1>6, <2>2, <2>4
  <2>6. <<Ok>> \o Tail(results) = results
    <3>1. results[1] \in Tokens /\ <<results[1]>> \o Tail(results) = results
      <4>1. results[1] \in Tokens
        BY <2>5, Marks
      <4> QED
        BY <1>3, <2>1, <4>1, Prepended
    <3> QED
      BY <2>5, <3>1
  <2>7. all = [i \in 1 .. 1 |-> <<Ok>> \o Tail(results)]
    BY <1>6, <2>1
  <2> HIDE DEF all
  <2>8. Len(all) = 1 /\ all[1] = results
    BY <2>6, <2>7
  <2>9. Tells(all[1], n, 1, op.svc, calls[n].said[1])
    BY <1>2, <1>3, <1>6, <2>2, <2>8
  <2>10. \A i \in DOMAIN op.items : i = 1
    BY <1>3, <1>6
  <2> QED
    BY <1>3, <1>6, <2>8, <2>9, <2>10 DEF Own
<1> QED
  BY <1>3, <1>5, <1>6

\* BlockCollector::push, of a block of the caller's own invocation.
LEMMA TakeBlockTells ==
  ASSUME NEW B, NEW n, NEW m, BlockOf(m, B, n), Listed(calls[n].items), OpInv(B),
         op # NoOp, Waiting(op), op.n = n, op.svc = calls[n].svc, op.items = calls[n].items,
         TakeBlock(m)
  PROVE  \/ op' = NoOp /\ done' = done
         \/ \E results :
              /\ done' = [n |-> n, svc |-> op.svc, items |-> op.items, form |-> "list",
                          results |-> results]
              /\ op' = NoOp /\ Own(n, op.svc, op.items, results)
         \/ /\ op'.n = n /\ op'.svc = op.svc /\ op'.items = op.items /\ done' = done
            /\ op'.lastBlock \in Nat \ {0}
            /\ op'.got = SubSeq(B[n], 1, EndOf(B[n], op'.lastBlock))
<1> DEFINE got == op.got \o m.data
           count == IF op.svc = "get" THEN got[1].size ELSE 1
           body == IF op.svc = "get" THEN Tail(got) ELSE got
           all == [i \in 1 .. count |->
                     IF op.svc = "get" THEN Elements(body, count)[i] ELSE <<Ok>> \o body]
<1>1. \/ GiveUp
      \/ /\ m.number = op.lastBlock + 1
         /\ op' = [op EXCEPT !.got = got, !.lastBlock = m.number, !.ready = TRUE]
         /\ done' = done
      \/ /\ m.number = op.lastBlock + 1 /\ m.last /\ Decodable(body, count)
         /\ done' = [n |-> op.n, svc |-> op.svc, items |-> op.items, form |-> "list",
                     results |-> all]
         /\ op' = NoOp
  BY DEF TakeBlock, Finish
<1>2. /\ B[n] \in Seq(Tokens) /\ op.lastBlock \in Nat /\ m.number \in Nat \ {0}
      /\ Bodied(B[n], n)
      /\ m.data = SubSeq(B[n], EndOf(B[n], m.number - 1) + 1, EndOf(B[n], m.number))
      /\ (m.last <=> EndOf(B[n], m.number) = Len(B[n]))
  BY DEF BlockOf, Bodied, OpInv
<1>3. ASSUME m.number = op.lastBlock + 1
      PROVE  got = SubSeq(B[n], 1, EndOf(B[n], m.number))
  <2>1. PICK k \in Nat : k = op.lastBlock /\ m.number = k + 1 /\ m.number - 1 = k
    BY <1>2, <1>3
  <2>2. /\ EndOf(B[n], 0) = 0
        /\ SubSeq(B[n], 1, EndOf(B[n], k)) \o SubSeq(B[n], EndOf(B[n], k) + 1, EndOf(B[n], k + 1))
              = SubSeq(B[n], 1, EndOf(B[n], k + 1))
    BY <1>2, EndOfFacts
  <2>3. op.got = SubSeq(B[n], 1, EndOf(B[n], k))
    <3>1. CASE k = 0
      <4>1. SubSeq(B[n], 1, 0) = <<>>
        BY SubSeqEmpty
      <4> QED
        BY <2>1, <2>2, <3>1, <4>1 DEF OpInv
    <3>2. CASE k # 0
      BY <2>1, <3>2 DEF OpInv
    <3> QED
      BY <3>1, <3>2
  <2> QED
    BY <1>2, <2>1, <2>2, <2>3
<1>4. CASE GiveUp
  BY <1>4 DEF GiveUp
<1>5. CASE /\ m.number = op.lastBlock + 1
           /\ op' = [op EXCEPT !.got = got, !.lastBlock = m.number, !.ready = TRUE]
           /\ done' = done
  <2> DEFINE q == [op EXCEPT !.got = got, !.lastBlock = m.number, !.ready = TRUE]
  <2> HIDE DEF got
  <2>1. /\ q.n = op.n /\ q.svc = op.svc /\ q.items = op.items
        /\ q.got = got /\ q.lastBlock = m.number
    BY WaitingMore
  <2> HIDE DEF q
  <2>2. op' = q
    BY <1>5 DEF q
  <2> QED
    BY <1>2, <1>3, <1>5, <2>1, <2>2
<1>6. CASE /\ m.number = op.lastBlock + 1 /\ m.last /\ Decodable(body, count)
           /\ done' = [n |-> op.n, svc |-> op.svc, items |-> op.items, form |-> "list",
                       results |-> all]
           /\ op' = NoOp
  <2>1. got = B[n]
    <3>1. SubSeq(B[n], 1, Len(B[n])) = B[n]
      BY <1>2, SubSeqFull
    <3> QED
      BY <1>2, <1>3, <1>6, <3>1
  <2>2. Bodied(got, n)
    BY <1>2, <2>1
  <2>3. Decodable(body, count) => Own(n, op.svc, op.items, all)
    <3> HIDE DEF got
    <3> QED
      BY <2>2, BodyTells
  <2>4. Own(n, op.svc, op.items, all)
    BY <1>6, <2>3
  <2> HIDE DEF all
  <2> QED
    BY <1>6, <2>4
<1> QED
  BY <1>1, <1>4, <1>5, <1>6

\* The store says the same of an invocation, and has forgotten none of those before it.
Kept(n) ==
  /\ agreed' = agreed /\ calls'[n] = calls[n]
  /\ \A k \in 1 .. n - 1 : calls[k] # NoCalls => calls'[k] = calls[k]

\* Steps that leave the store alone.
LEMMA KeptSame ==
  ASSUME UNCHANGED <<agreed, calls>>
  PROVE  \A n : Kept(n)
BY DEF Kept

\* What cannot be delivered never can.
LEMMA UndeliverableKept ==
  ASSUME NEW n, Kept(n), Undeliverable(n)
  PROVE  Undeliverable(n)'
<1>1. Interrupted(n) => Interrupted(n)'
  BY DEF Interrupted, Kept, NoCalls
<1> QED
  BY <1>1 DEF Undeliverable, Kept

\* What belongs to an invocation still does when the store and the book say the same of it.
LEMMA BelongsKept ==
  ASSUME NEW n, NEW B, NEW C, Kept(n), C[n] = B[n]
  PROVE  /\ \A x : Belongs(x, B, n) => Belongs(x, C, n)'
         /\ \A t : Carries(t, B, n) => Carries(t, C, n)'
<1>1. Bodied(B[n], n) => Bodied(C[n], n)'
  BY DEF Bodied, Kept
<1>2. ASSUME NEW x, BlockOf(x, B, n) PROVE BlockOf(x, C, n)'
  BY <1>1, <1>2 DEF BlockOf, Kept
<1>3. ASSUME NEW x, ListOf(x, n) PROVE ListOf(x, n)'
  BY <1>3 DEF ListOf, Kept
<1>4. ASSUME NEW x, FailureOf(x, n) PROVE FailureOf(x, n)'
  BY <1>4, UndeliverableKept DEF FailureOf, Kept
<1>5. ASSUME NEW t, Carries(t, B, n) PROVE Carries(t, C, n)'
  BY <1>1, <1>5 DEF Carries, Kept
<1> QED
  BY <1>2, <1>3, <1>4, <1>5 DEF Belongs

\* The store has heard of the invocation something belongs to.
LEMMA BelongsKnown ==
  ASSUME NEW n, NEW B
  PROVE  /\ \A x : x.form \in {"list", "block"} /\ Belongs(x, B, n) => calls[n] # NoCalls
         /\ \A t : Carries(t, B, n) => calls[n] # NoCalls
BY DEF Belongs, BlockOf, ListOf, FailureOf, Bodied, Carries, NoCalls

\* A request for a block is not one of an unconfirmed service, so who waits has it made.
LEMMA PatientAsked ==
  ASSUME Inv, ~caller.impatient
  PROVE  /\ Asked => op # NoOp
         /\ responses # {} => op # NoOp
         /\ \A r \in requests : r.form = "next" \/ Confirmed(r) => op # NoOp /\ op.n = r.n
<1>1. NumbersInv /\ UnderWay
  BY DEF Inv, PatientInv
<1>2. \A r \in requests : r.form = "next" \/ Confirmed(r) => op # NoOp /\ op.n = r.n
  BY <1>1 DEF NumbersInv, UnderWay, Confirmed
<1>3. responses # {} => op # NoOp
  BY <1>1 DEF UnderWay
<1> QED
  BY <1>2, <1>3 DEF Asked

\* What the client's steps leave as it is, as long as its invocation goes on or ends.
LEMMA ClientStory ==
  ASSUME Inv', NEW B, TransferInv(B), ResponsesInv(B), RequestsInv, CallerInv, CallsInv,
         UNCHANGED <<agreed, caller, invokeId, outstanding, started, transfer, calls>>,
         responses' \subseteq responses,
         \A r \in requests' : r.form = "list" => r \in requests,
         op' # NoOp => /\ op # NoOp /\ op'.n = op.n
                       /\ op'.items = op.items /\ op'.svc = op.svc,
         Asked' => Asked
  PROVE  TransferInv(B)' /\ ResponsesInv(B)' /\ RequestsInv' /\ CallerInv' /\ CallsInv'
<1>1. ~caller.impatient =>
        /\ Asked' => op' # NoOp
        /\ responses' # {} => op' # NoOp
  <2>1. (Inv /\ ~caller.impatient => (Asked => op # NoOp) /\ (responses # {} => op # NoOp))'
    BY PatientAsked, PTL
  <2> QED
    BY <2>1
<1>2. \A n : Mine(n) /\ op' # NoOp => Mine(n)'
  BY DEF Mine
<1>3. TransferInv(B)'
  <2> SUFFICES ASSUME transfer.kind = "sending"
               PROVE  \E n \in 1 .. started :
                        /\ Carries(transfer, B, n)'
                        /\ ~caller.impatient /\ Asked' => Mine(n)'
                        /\ caller.impatient => transfer.id = n % IdMod /\ transfer.svc = "get"
    BY DEF TransferInv
  <2>1. PICK n \in 1 .. started :
          /\ Carries(transfer, B, n)
          /\ ~caller.impatient /\ Asked => Mine(n)
          /\ caller.impatient => transfer.id = n % IdMod /\ transfer.svc = "get"
    BY DEF TransferInv
  <2>2. Carries(transfer, B, n)'
    BY <2>1, BelongsKept, KeptSame
  <2> QED
    BY <1>1, <1>2, <2>1, <2>2
<1>4. ResponsesInv(B)'
  <2> SUFFICES ASSUME NEW x \in responses', x.form \in {"list", "block"}
               PROVE  \E n \in 1 .. started :
                        /\ Belongs(x, B, n)'
                        /\ ~caller.impatient => Mine(n)'
                        /\ caller.impatient => x.id = n % IdMod
    BY DEF ResponsesInv
  <2>1. PICK n \in 1 .. started :
          /\ Belongs(x, B, n)
          /\ ~caller.impatient => Mine(n)
          /\ caller.impatient => x.id = n % IdMod
    BY DEF ResponsesInv
  <2>2. Belongs(x, B, n)'
    BY <2>1, BelongsKept, KeptSame
  <2> QED
    BY <1>1, <1>2, <2>1, <2>2
<1>5. RequestsInv'
  BY DEF RequestsInv, Mine
<1>6. CallerInv' /\ CallsInv'
  BY DEF CallerInv, CallsInv
<1> QED
  BY <1>3, <1>4, <1>5, <1>6

\* What was answered stays answered.
LEMMA DoneKept ==
  ASSUME DoneInv, done' = done, done # NoOp /\ calls[done.n] # NoCalls => Kept(done.n)
  PROVE  DoneInv'
<1>1. CASE done = NoOp \/ done.form # "list"
  BY <1>1 DEF DoneInv, EachItsOwn
<1>2. CASE done # NoOp /\ done.form = "list"
  <2>1. PICK n : n = done.n
    OBVIOUS
  <2>2. Kept(n) /\ calls'[n] = calls[n] /\ calls[n] # NoCalls
    BY <1>2, <2>1 DEF DoneInv, Kept
  <2>3. Undeliverable(n) => Undeliverable(n)'
    BY <2>2, UndeliverableKept
  <2>4. EachItsOwn'
    BY <1>2, <2>1, <2>2, <2>3 DEF DoneInv, EachItsOwn, Tells, NothingWritten
  <2> QED
    BY <2>1, <2>2, <2>4 DEF DoneInv
<1> QED
  BY <1>1, <1>2

\* A request with a list.
LEMMA AskStory ==
  ASSUME Steady, Inv, OwnInv, NEW svc \in Services, Ask(svc)
  PROVE  OwnInv'
<1>1. PICK b \in Batches :
        /\ op' = IF svc = "unconfirmed" THEN NoOp
                 ELSE [n |-> started + 1, svc |-> svc, items |-> b.items,
                       lastBlock |-> 0, got |-> <<>>, ready |-> FALSE]
        /\ requests' = requests \union
             {[n |-> started + 1, svc |-> svc, form |-> "list", id |-> Outstanding(svc),
               items |-> b.items]}
  BY DEF Ask
<1> DEFINE r == [n |-> started + 1, svc |-> svc, form |-> "list", id |-> Outstanding(svc),
                 items |-> b.items]
<1>2. /\ op = NoOp /\ started < Requests /\ started' = started + 1
      /\ svc \in caller.services
      /\ invokeId' = (IF svc \in {"get", "action", "access"} THEN NextInvokeId ELSE invokeId)
      /\ outstanding' = Outstanding(svc)
      /\ UNCHANGED <<agreed, caller, done, transfer, calls, responses>>
  BY DEF Ask, fixed
<1>3. /\ started \in Nat /\ Requests \in Nat /\ IdMod \in Nat \ {0}
      /\ started + 1 \in 1 .. Requests /\ calls[started + 1] = NoCalls
      /\ \A q \in requests : q.n \in 1 .. started
  <2>1. started \in Nat /\ Requests \in Nat /\ IdMod \in Nat \ {0}
    BY BoundsAssumption DEF Inv, NumbersInv
  <2> QED
    BY <1>2, <2>1 DEF Inv, NumbersInv
<1>4. /\ r.n = started + 1 /\ r.svc = svc /\ r.form = "list" /\ r.id = Outstanding(svc)
      /\ r.items = b.items /\ requests' = requests \union {r}
  BY <1>1
<1> HIDE DEF r
<1>5. op' # NoOp => /\ op'.n = started + 1 /\ op'.svc = svc /\ op'.items = b.items
                    /\ op'.lastBlock = 0 /\ op'.got = <<>> /\ op'.ready = FALSE
  BY <1>1
<1>6. caller.impatient => /\ svc \in {"get", "action"} /\ Outstanding(svc) = (started + 1) % IdMod
                          /\ invokeId' = (started + 1) % IdMod
  <2> SUFFICES ASSUME caller.impatient
               PROVE  /\ svc \in {"get", "action"}
                      /\ Outstanding(svc) = (started + 1) % IdMod
                      /\ invokeId' = (started + 1) % IdMod
    OBVIOUS
  <2>1. caller \in Callers /\ invokeId = started % IdMod
    BY DEF OwnInv, CallerInv
  <2>2. svc \in {"get", "action"} /\ Requests <= IdMod
    BY <1>2, <2>1 DEF Steady
  <2>3. started % IdMod = started
    BY <1>2, <1>3, <2>2
  <2>4. NextInvokeId = (started + 1) % IdMod
    BY <2>1, <2>3 DEF NextInvokeId
  <2> QED
    BY <1>2, <2>2, <2>4 DEF Outstanding
<1>7. PICK B \in [1 .. Requests -> Seq(Tokens)] :
        TransferInv(B) /\ ResponsesInv(B) /\ OpInv(B)
  BY DEF OwnInv, BookInv
<1>8. ~caller.impatient => responses = {} /\ ~Asked'
  <2> SUFFICES ASSUME ~caller.impatient PROVE responses = {} /\ ~Asked'
    OBVIOUS
  <2>1. responses = {} /\ \A q \in requests : q.form # "next"
    BY <1>2, PatientAsked
  <2>2. \A q \in requests' : q.form # "next"
    BY <1>4, <2>1
  <2> QED
    BY <1>2, <1>5, <2>1, <2>2 DEF Asked
<1>9. \A n : n \in 1 .. started => n \in 1 .. started'
  BY <1>2, <1>3
<1>10. TransferInv(B)'
  <2> SUFFICES ASSUME transfer.kind = "sending"
               PROVE  \E n \in 1 .. started' :
                        /\ Carries(transfer, B, n)'
                        /\ ~caller.impatient /\ Asked' => Mine(n)'
                        /\ caller.impatient => transfer.id = n % IdMod /\ transfer.svc = "get"
    BY <1>2 DEF TransferInv
  <2>1. PICK n \in 1 .. started :
          /\ Carries(transfer, B, n)
          /\ caller.impatient => transfer.id = n % IdMod /\ transfer.svc = "get"
    BY <1>7 DEF TransferInv
  <2>2. Carries(transfer, B, n)'
    BY <1>2, <2>1, BelongsKept, KeptSame
  <2> QED
    BY <1>8, <1>9, <2>1, <2>2
<1>11. ResponsesInv(B)'
  <2> SUFFICES ASSUME NEW x \in responses', x.form \in {"list", "block"}
               PROVE  \E n \in 1 .. started' :
                        /\ Belongs(x, B, n)'
                        /\ ~caller.impatient => Mine(n)'
                        /\ caller.impatient => x.id = n % IdMod
    BY <1>2 DEF ResponsesInv
  <2>1. PICK n \in 1 .. started :
          /\ Belongs(x, B, n)
          /\ caller.impatient => x.id = n % IdMod
    BY <1>2, <1>7 DEF ResponsesInv
  <2>2. Belongs(x, B, n)'
    BY <1>2, <2>1, BelongsKept, KeptSame
  <2> QED
    BY <1>2, <1>8, <1>9, <2>1, <2>2
<1>12. OpInv(B)'
  <2>1. op' # NoOp => calls'[op'.n] = NoCalls
    BY <1>2, <1>3, <1>5
  <2>2. caller'.impatient => outstanding' = (started + 1) % IdMod
    BY <1>2, <1>6
  <2> QED
    BY <1>5, <2>1, <2>2 DEF OpInv
<1>13. RequestsInv'
  <2> SUFFICES ASSUME NEW q \in requests', q.form = "list"
               PROVE  /\ calls'[q.n] = NoCalls
                      /\ \A s \in requests' : s.form = "list" /\ s.n = q.n => s = q
                      /\ Mine(q.n)' => q.items = op'.items /\ q.svc = op'.svc
                      /\ caller'.impatient => q.id = q.n % IdMod /\ q.svc \in {"get", "action"}
    BY DEF RequestsInv, Mine
  <2>1. CASE q = r
    <3>1. \A s \in requests' : s.n = q.n => s = q
      BY <1>3, <1>4, <2>1
    <3>2. caller'.impatient => q.id = q.n % IdMod /\ q.svc \in {"get", "action"}
      BY <1>2, <1>4, <1>6, <2>1
    <3>3. calls'[q.n] = NoCalls
      BY <1>2, <1>3, <1>4, <2>1
    <3>4. Mine(q.n)' => q.items = op'.items /\ q.svc = op'.svc
      BY <1>4, <1>5, <2>1 DEF Mine
    <3> QED
      BY <3>1, <3>2, <3>3, <3>4
  <2>2. CASE q \in requests
    <3>1. q.n # started + 1 /\ RequestsInv
      BY <1>3, <2>2 DEF OwnInv
    <3>2. ~Mine(q.n)'
      BY <1>5, <3>1 DEF Mine
    <3>3. \A s \in requests' : s.form = "list" /\ s.n = q.n => s = q
      BY <1>4, <2>2, <3>1 DEF RequestsInv
    <3> QED
      BY <1>2, <2>2, <3>1, <3>2, <3>3 DEF RequestsInv
  <2> QED
    BY <1>4, <2>1, <2>2
<1>14. CallerInv'
  BY <1>2, <1>6 DEF OwnInv, CallerInv
<1>15. DoneInv' /\ CallsInv'
  <2>1. DoneInv'
    BY <1>2, DoneKept, KeptSame DEF OwnInv
  <2> QED
    BY <1>2, <2>1 DEF OwnInv, CallsInv
<1>16. BookInv'
  BY <1>10, <1>11, <1>12 DEF BookInv
<1> QED
  BY <1>13, <1>14, <1>15, <1>16 DEF OwnInv

\* get_next_block_request and read_next_block_request.
LEMMA NextBlockStory ==
  ASSUME Inv, Inv', OwnInv, NextBlockRequest
  PROVE  OwnInv'
<1> DEFINE r == [n |-> op.n, svc |-> op.svc, form |-> "next", id |-> outstanding,
                 number |-> op.lastBlock]
<1>1. /\ op # NoOp /\ op.ready /\ op' = [op EXCEPT !.ready = FALSE]
      /\ requests' = requests \union {r}
      /\ UNCHANGED <<agreed, caller, invokeId, outstanding, started, done, transfer, calls, responses>>
  BY DEF NextBlockRequest, fixed
<1>2. r.form = "next"
  OBVIOUS
<1> HIDE DEF r
<1>3. Waiting(op)
  BY <1>1 DEF Inv, NumbersInv
<1>4. /\ op'.n = op.n /\ op'.svc = op.svc /\ op'.items = op.items
      /\ op'.got = op.got /\ op'.lastBlock = op.lastBlock
  BY <1>1, <1>3, WaitingMore
<1>5. PICK B \in [1 .. Requests -> Seq(Tokens)] :
        TransferInv(B) /\ ResponsesInv(B) /\ OpInv(B)
  BY DEF OwnInv, BookInv
<1>6. Asked
  BY <1>1 DEF Asked
<1>7. \A q \in requests' : q.form = "list" => q \in requests
  BY <1>1, <1>2
<1>8. TransferInv(B)' /\ ResponsesInv(B)' /\ RequestsInv' /\ CallerInv' /\ CallsInv'
  BY <1>1, <1>4, <1>5, <1>6, <1>7, ClientStory DEF OwnInv
<1>9. OpInv(B)'
  BY <1>1, <1>4, <1>5 DEF OpInv
<1>10. DoneInv'
  BY <1>1, DoneKept, KeptSame DEF OwnInv
<1> QED
  BY <1>8, <1>9, <1>10 DEF OwnInv, BookInv

\* The caller's timeout.
LEMMA AbandonStory ==
  ASSUME Inv', OwnInv, Abandon
  PROVE  OwnInv'
<1>1. /\ op' = NoOp
      /\ UNCHANGED <<agreed, caller, invokeId, outstanding, started, done, transfer, calls, requests,
                     responses>>
  BY DEF Abandon, GiveUp, fixed
<1>2. PICK B \in [1 .. Requests -> Seq(Tokens)] :
        TransferInv(B) /\ ResponsesInv(B) /\ OpInv(B)
  BY DEF OwnInv, BookInv
<1>3. Asked' => Asked
  BY <1>1 DEF Asked
<1>4. TransferInv(B)' /\ ResponsesInv(B)' /\ RequestsInv' /\ CallerInv' /\ CallsInv'
  BY <1>1, <1>2, <1>3, ClientStory DEF OwnInv
<1>5. OpInv(B)'
  BY <1>1 DEF OpInv
<1>6. DoneInv'
  BY <1>1, DoneKept, KeptSame DEF OwnInv
<1> QED
  BY <1>4, <1>5, <1>6 DEF OwnInv, BookInv

\* What reaches the caller and is taken for its answer is that: no other invocation's is
\* under way when it waits, and none with its id when it does not.
LEMMA MeantForIt ==
  ASSUME Steady, Inv, NEW B, ResponsesInv(B), OpInv(B), CallerInv, NEW m \in responses,
         m.form \in {"list", "block"}, op # NoOp, Answers(m)
  PROVE  Belongs(m, B, op.n)
<1>1. PICK n \in 1 .. started :
        /\ Belongs(m, B, n)
        /\ ~caller.impatient => Mine(n)
        /\ caller.impatient => m.id = n % IdMod
  BY DEF ResponsesInv
<1>2. CASE ~caller.impatient
  BY <1>1, <1>2 DEF Mine
<1>3. CASE caller.impatient
  <2>1. /\ started \in 1 .. Requests /\ op.n = started /\ IdMod \in Nat \ {0}
        /\ Requests \in Nat
    BY BoundsAssumption DEF Inv, NumbersInv
  <2>2. n \in 1 .. Requests /\ op.n \in 1 .. Requests
    BY <2>1
  <2>3. outstanding = op.n % IdMod /\ outstanding # NoId
    BY <1>3, <2>1, <2>2 DEF OpInv, NoId
  <2>4. m.id = n % IdMod /\ m.id # NoId
    BY <1>1, <1>3, <2>1, <2>2 DEF NoId
  <2>5. n % IdMod = op.n % IdMod
    BY <2>3, <2>4 DEF Answers
  <2>6. Requests <= IdMod
    BY <1>3 DEF Steady, CallerInv
  <2>7. n = op.n
    BY <2>2, <2>5, <2>6, IdsDiffer
  <2> QED
    BY <1>1, <2>7
<1> QED
  BY <1>2, <1>3

\* What the caller makes of a response.
LEMMA ResponseTells ==
  ASSUME Steady, Inv, OwnInv, NEW B, ResponsesInv(B), OpInv(B), NEW m \in responses,
         op # NoOp, Answers(m), UseResponse(m), UNCHANGED calls
  PROVE  \/ op' = NoOp /\ done' = done
         \/ op' = NoOp /\ done'.form # "list"
         \/ \E results :
              /\ done' = [n |-> op.n, svc |-> op.svc, items |-> op.items, form |-> "list",
                          results |-> results]
              /\ op' = NoOp /\ calls[op.n] # NoCalls
              /\ Told(op.n, op.svc, op.items, results)
         \/ /\ op'.n = op.n /\ op'.svc = op.svc /\ op'.items = op.items /\ done' = done
            /\ op'.lastBlock \in Nat \ {0} /\ calls[op.n] # NoCalls
            /\ op'.got = SubSeq(B[op.n], 1, EndOf(B[op.n], op'.lastBlock))
            /\ m.form = "block"
<1>1. /\ \A form, results : Finish(form, results) =>
           op' = NoOp /\ done'.form = form
      /\ GiveUp => op' = NoOp /\ done' = done
  BY DEF Finish, GiveUp
<1>2. Waiting(op) /\ op.n \in 1 .. Requests
  <2>1. Waiting(op) /\ op.n = started /\ started > 0 /\ started \in 0 .. Requests
    BY DEF Inv, NumbersInv
  <2> QED
    BY <2>1, BoundsAssumption
<1>3. ASSUME m.form \in {"list", "block"}
      PROVE  /\ Belongs(m, B, op.n) /\ calls[op.n] # NoCalls
             /\ Listed(calls[op.n].items)
             /\ op.svc = calls[op.n].svc /\ op.items = calls[op.n].items
  <2>1. Belongs(m, B, op.n)
    BY <1>3, MeantForIt DEF OwnInv
  <2>2. calls[op.n] # NoCalls
    BY <1>3, <2>1, BelongsKnown
  <2> QED
    BY <1>2, <2>1, <2>2 DEF OpInv, OwnInv, CallsInv
<1>4. CASE m.form = "exception"
  <2>1. Finish("refused", <<>>)
    BY <1>4 DEF UseResponse
  <2> QED
    BY <1>1, <2>1
<1>5. CASE m.form = "error" /\ m.svc = op.svc
  <2>1. Finish("error", <<>>)
    BY <1>5 DEF UseResponse
  <2> QED
    BY <1>1, <2>1
<1>6. CASE m.form = "list" /\ m.svc = op.svc
  <2>1. TakeList(m)
    BY <1>6 DEF UseResponse
  <2>2. ListOf(m, op.n) \/ FailureOf(m, op.n)
    BY <1>3, <1>6 DEF Belongs
  <2>3. CASE ListOf(m, op.n)
    <3>1. \/ op' = NoOp /\ done' = done
          \/ \E results :
               /\ done' = [n |-> op.n, svc |-> op.svc, items |-> op.items, form |-> "list",
                           results |-> results]
               /\ op' = NoOp /\ Own(op.n, op.svc, op.items, results)
      BY <1>3, <1>6, <2>1, <2>3, TakeListTells
    <3> QED
      BY <1>3, <1>6, <3>1 DEF Told
  <2>4. CASE FailureOf(m, op.n)
    <3>1. \/ op' = NoOp /\ done' = done
          \/ /\ done' = [n |-> op.n, svc |-> op.svc, items |-> op.items, form |-> "list",
                         results |-> <<<<Failed>>>>]
             /\ op' = NoOp
      BY <2>1, <2>4, FailureTells
    <3>2. Told(op.n, op.svc, op.items, <<<<Failed>>>>)
      BY <1>6, <2>4 DEF FailureOf, Told
    <3> QED
      BY <1>3, <1>6, <3>1, <3>2
  <2> QED
    BY <2>2, <2>3, <2>4
<1>7. CASE m.form = "block" /\ m.svc = op.svc
  <2>1. TakeBlock(m)
    BY <1>7 DEF UseResponse
  <2>2. BlockOf(m, B, op.n)
    BY <1>3, <1>7 DEF Belongs
  <2>3. \/ op' = NoOp /\ done' = done
        \/ \E results :
             /\ done' = [n |-> op.n, svc |-> op.svc, items |-> op.items, form |-> "list",
                         results |-> results]
             /\ op' = NoOp /\ Own(op.n, op.svc, op.items, results)
        \/ /\ op'.n = op.n /\ op'.svc = op.svc /\ op'.items = op.items /\ done' = done
           /\ op'.lastBlock \in Nat \ {0}
           /\ op'.got = SubSeq(B[op.n], 1, EndOf(B[op.n], op'.lastBlock))
    BY <1>2, <1>3, <1>7, <2>1, <2>2, TakeBlockTells
  <2> QED
    BY <1>3, <1>7, <2>3 DEF Told
<1>8. CASE /\ m.form # "exception" /\ ~(m.form = "error" /\ m.svc = op.svc)
           /\ ~(m.form = "list" /\ m.svc = op.svc) /\ ~(m.form = "block" /\ m.svc = op.svc)
  <2>1. GiveUp
    BY <1>8 DEF UseResponse
  <2> QED
    BY <1>1, <2>1
<1> QED
  BY <1>4, <1>5, <1>6, <1>7, <1>8

\* handle_response.
LEMMA ResponseStory ==
  ASSUME Steady, Inv, Inv', OwnInv, HandleResponse
  PROVE  OwnInv'
<1>1. PICK m \in responses :
        /\ responses' = responses \ {m}
        /\ \/ UNCHANGED <<op, done>>
           \/ op # NoOp /\ Answers(m) /\ UseResponse(m)
        /\ UNCHANGED <<agreed, caller, invokeId, outstanding, started, transfer, calls, requests>>
  BY DEF HandleResponse, fixed
<1>2. PICK B \in [1 .. Requests -> Seq(Tokens)] :
        TransferInv(B) /\ ResponsesInv(B) /\ OpInv(B)
  BY DEF OwnInv, BookInv
<1>3. op.n \in 1 .. Requests \/ op = NoOp
  <2>1. started \in 0 .. Requests /\ (op = NoOp \/ (op.n = started /\ started > 0))
    BY DEF Inv, NumbersInv
  <2> QED
    BY <2>1, BoundsAssumption
<1> DEFINE Going == /\ op # NoOp /\ op'.n = op.n /\ op'.svc = op.svc /\ op'.items = op.items
                    /\ op'.lastBlock \in Nat \ {0} /\ calls[op.n] # NoCalls
                    /\ op'.got = SubSeq(B[op.n], 1, EndOf(B[op.n], op'.lastBlock))
                    /\ m.form = "block"
<1>4. /\ op' = NoOp \/ op' = op \/ Going
      /\ \/ done' = done
         \/ done'.form # "list"
         \/ /\ calls[op.n] # NoCalls /\ \E results :
                 /\ done' = [n |-> op.n, svc |-> op.svc, items |-> op.items, form |-> "list",
                             results |-> results]
                 /\ Told(op.n, op.svc, op.items, results)
  <2>1. CASE UNCHANGED <<op, done>>
    BY <2>1
  <2>2. CASE op # NoOp /\ Answers(m) /\ UseResponse(m)
    <3>1. \/ op' = NoOp /\ done' = done
          \/ op' = NoOp /\ done'.form # "list"
          \/ \E results :
               /\ done' = [n |-> op.n, svc |-> op.svc, items |-> op.items, form |-> "list",
                           results |-> results]
               /\ op' = NoOp /\ calls[op.n] # NoCalls
               /\ Told(op.n, op.svc, op.items, results)
          \/ Going /\ done' = done
      BY <1>1, <1>2, <2>2, ResponseTells
    <3> HIDE DEF Going
    <3> QED
      BY <3>1
  <2> QED
    BY <1>1, <2>1, <2>2
<1>5. Asked' => Asked
  <2>1. Going => Asked
    BY DEF Asked
  <2>2. op' = NoOp \/ op' = op => (Asked' => Asked)
    BY <1>1 DEF Asked
  <2> HIDE DEF Going
  <2> QED
    BY <1>4, <2>1, <2>2
<1>6. op' # NoOp => /\ op # NoOp /\ op'.n = op.n
                    /\ op'.items = op.items /\ op'.svc = op.svc
  BY <1>4
<1>7. TransferInv(B)' /\ ResponsesInv(B)' /\ RequestsInv' /\ CallerInv' /\ CallsInv'
  BY <1>1, <1>2, <1>5, <1>6, ClientStory DEF OwnInv
<1>8. OpInv(B)'
  <2>1. CASE op' = NoOp
    BY <2>1 DEF OpInv
  <2>2. CASE op' = op
    BY <1>1, <1>2, <2>2 DEF OpInv
  <2>3. CASE Going
    BY <1>1, <1>2, <2>3 DEF OpInv
  <2> QED
    BY <1>4, <2>1, <2>2, <2>3
<1>9. DoneInv'
  <2>1. CASE done' = done
    BY <1>1, <2>1, DoneKept, KeptSame DEF OwnInv
  <2>2. CASE done'.form # "list"
    BY <2>2 DEF DoneInv, EachItsOwn
  <2>3. CASE /\ calls[op.n] # NoCalls /\ \E results :
                  /\ done' = [n |-> op.n, svc |-> op.svc, items |-> op.items, form |-> "list",
                              results |-> results]
                  /\ Told(op.n, op.svc, op.items, results)
    <3>1. PICK results :
            /\ done' = [n |-> op.n, svc |-> op.svc, items |-> op.items, form |-> "list",
                        results |-> results]
            /\ Told(op.n, op.svc, op.items, results)
      BY <2>3
    <3>2. /\ done'.n = op.n /\ done'.svc = op.svc /\ done'.items = op.items
          /\ done'.results = results
      BY <3>1
    <3>3. ASSUME Own(op.n, op.svc, op.items, results)
          PROVE  EachItsOwn'
      <4>1. /\ Len(results) = Len(op.items) /\ Len(calls[op.n].said) = Len(op.items)
            /\ \A i \in DOMAIN op.items : Tells(results[i], op.n, i, op.svc, calls[op.n].said[i])
        BY <3>3 DEF Own
      <4> QED
        BY <1>1, <3>2, <4>1 DEF EachItsOwn, Tells, NothingWritten
    <3>4. ASSUME op.svc = "read", results = <<<<Failed>>>>, Undeliverable(op.n)
          PROVE  EachItsOwn'
      <4>1. PICK n : n = op.n
        OBVIOUS
      <4>2. Undeliverable(n)'
        BY <1>1, <3>4, <4>1, UndeliverableKept, KeptSame
      <4> QED
        BY <3>2, <3>4, <4>1, <4>2 DEF EachItsOwn
    <3>5. EachItsOwn'
      BY <3>1, <3>3, <3>4 DEF Told
    <3> QED
      BY <1>1, <2>3, <3>2, <3>5 DEF DoneInv
  <2> QED
    BY <1>4, <2>1, <2>2, <2>3
<1> QED
  BY <1>7, <1>8, <1>9 DEF OwnInv, BookInv

\* The store hears of an invocation only once, and the book has been written only for those
\* it has not heard of.
Heard(B, C, m) ==
  \A n \in 1 .. Requests :
    /\ calls[n] # NoCalls => calls'[n] = calls[n] /\ C[n] = B[n]
    /\ \/ calls'[n] = calls[n]
       \/ /\ m.form = "list" /\ n = m.n /\ Listed(m.items)
          /\ calls'[n].items = m.items /\ calls'[n].svc = m.svc

\* Every reply belongs to an invocation, and the caller will take it for no other's.
Fitting(replies, C) ==
  \A x \in replies : x.form \in {"list", "block"} =>
    \E n \in 1 .. started :
      /\ Belongs(x, C, n)'
      /\ ~caller.impatient => Mine(n)
      /\ caller.impatient => x.id = n % IdMod

\* A request that is handled leaves everything else where it belongs.
LEMMA Served ==
  ASSUME Inv, OwnInv, NEW B, ResponsesInv(B), OpInv(B), NEW C,
         NEW m \in requests, NEW replies, Replying(m, replies),
         Heard(B, C, m), Fitting(replies, C)
  PROVE  ResponsesInv(C)' /\ OpInv(C)' /\ RequestsInv' /\ CallerInv' /\ DoneInv' /\ CallsInv'
<1> USE DEF Heard
<1>0. RequestsInv /\ CallerInv /\ DoneInv /\ CallsInv
  BY DEF OwnInv
<1>1. /\ requests' = requests \ {m} /\ responses' = responses \union replies
      /\ UNCHANGED <<agreed, caller, invokeId, outstanding, op, started, done>>
  BY DEF Replying, fixed, clientVars
<1>2. /\ \A n \in 1 .. started : n \in 1 .. Requests
      /\ op # NoOp => op.n \in 1 .. Requests
      /\ done # NoOp => done.n \in 1 .. Requests
      /\ \A r \in requests : r.n \in 1 .. Requests
  <2>1. started \in 0 .. Requests /\ Requests \in Nat
    BY BoundsAssumption DEF Inv, NumbersInv
  <2>2. \A n \in 1 .. started : n \in 1 .. Requests
    BY <2>1
  <2>3. op # NoOp => op.n \in 1 .. started
    BY <2>1 DEF Inv, NumbersInv
  <2> QED
    BY <2>2, <2>3 DEF Inv, NumbersInv
<1>9. \A n \in 1 .. Requests : calls[n] # NoCalls => Kept(n)
  <2> SUFFICES ASSUME NEW n \in 1 .. Requests, calls[n] # NoCalls
               PROVE  Kept(n)
    OBVIOUS
  <2>1. \A k \in 1 .. n - 1 : k \in 1 .. Requests
    BY BoundsAssumption
  <2> QED
    BY <1>1, <2>1 DEF Kept
<1>3. ResponsesInv(C)'
  <2> SUFFICES ASSUME NEW x \in responses', x.form \in {"list", "block"}
               PROVE  \E n \in 1 .. started :
                        /\ Belongs(x, C, n)'
                        /\ ~caller.impatient => Mine(n)
                        /\ caller.impatient => x.id = n % IdMod
    BY <1>1 DEF ResponsesInv, Mine
  <2>1. CASE x \in replies
    BY <2>1 DEF Fitting
  <2>2. CASE x \in responses
    <3>1. PICK n \in 1 .. started :
            /\ Belongs(x, B, n)
            /\ ~caller.impatient => Mine(n)
            /\ caller.impatient => x.id = n % IdMod
      BY <2>2 DEF ResponsesInv
    <3>2. Kept(n) /\ C[n] = B[n]
      BY <1>2, <1>9, <3>1, BelongsKnown
    <3>3. Belongs(x, C, n)'
      BY <3>1, <3>2, BelongsKept
    <3> QED
      BY <3>1, <3>3
  <2> QED
    BY <1>1, <2>1, <2>2
<1>4. OpInv(C)'
  <2> SUFFICES ASSUME op # NoOp
               PROVE  /\ op.lastBlock \in Nat
                      /\ op.lastBlock = 0 => op.got = <<>>
                      /\ op.lastBlock > 0 =>
                           /\ calls'[op.n] # NoCalls
                           /\ op.got = SubSeq(C[op.n], 1, EndOf(C[op.n], op.lastBlock))
                      /\ calls'[op.n] # NoCalls =>
                           calls'[op.n].items = op.items /\ calls'[op.n].svc = op.svc
                      /\ caller.impatient => outstanding = op.n % IdMod
    BY <1>1 DEF OpInv
  <2>1. calls[op.n] # NoCalls => calls'[op.n] = calls[op.n] /\ C[op.n] = B[op.n]
    BY <1>2
  <2>2. calls'[op.n] # calls[op.n] =>
          calls'[op.n].items = op.items /\ calls'[op.n].svc = op.svc
    <3> SUFFICES ASSUME calls'[op.n] # calls[op.n]
                 PROVE  calls'[op.n].items = op.items /\ calls'[op.n].svc = op.svc
      OBVIOUS
    <3>1. m.form = "list" /\ op.n = m.n /\ calls'[op.n].items = m.items /\ calls'[op.n].svc = m.svc
      BY <1>2
    <3> QED
      BY <1>0, <3>1 DEF RequestsInv, Mine
  <2> QED
    BY <2>1, <2>2 DEF OpInv
<1>5. RequestsInv'
  <2> SUFFICES ASSUME NEW r \in requests', r.form = "list"
               PROVE  /\ calls'[r.n] = NoCalls
                      /\ \A s \in requests' : s.form = "list" /\ s.n = r.n => s = r
                      /\ Mine(r.n) => r.items = op.items /\ r.svc = op.svc
                      /\ caller.impatient => r.id = r.n % IdMod /\ r.svc \in {"get", "action"}
    BY <1>1 DEF RequestsInv, Mine
  <2>1. r \in requests /\ r # m
    BY <1>1
  <2>2. calls'[r.n] = calls[r.n]
    BY <1>0, <1>2, <2>1 DEF RequestsInv
  <2> QED
    BY <1>0, <1>1, <2>1, <2>2 DEF RequestsInv
<1>6. CallerInv'
  BY <1>0, <1>1 DEF CallerInv
<1>7. DoneInv'
  BY <1>0, <1>1, <1>2, <1>9, DoneKept
<1>8. CallsInv'
  <2> SUFFICES ASSUME NEW n \in 1 .. Requests, calls'[n] # NoCalls
               PROVE  Listed(calls'[n].items)
    BY DEF CallsInv
  <2>1. CASE calls'[n] = calls[n]
    BY <1>0, <2>1 DEF CallsInv
  <2>2. CASE Listed(m.items) /\ calls'[n].items = m.items
    BY <2>2
  <2> QED
    BY <2>1, <2>2
<1> QED
  BY <1>3, <1>4, <1>5, <1>6, <1>7, <1>8

\* A block goes out, and more of the same is to come or nothing.
LEMMA BlockSent ==
  ASSUME NEW m, NEW t, Transferring(t), t.sent <= Len(t.body), SendNextBlock(m, t),
         NEW C, NEW n, Carries(t, C, n)'
  PROVE  /\ \E block : /\ Replying(m, {block}) /\ block.form = "block" /\ block.id = t.id
                       /\ Belongs(block, C, n)'
         /\ transfer'.kind = "sending" =>
              Carries(transfer, C, n)' /\ transfer'.id = t.id /\ transfer'.svc = t.svc
<1>1. PICK block :
        /\ Replying(m, {block})
        /\ block.svc = t.svc /\ block.id = t.id /\ block.form = "block"
        /\ block.number = t.block + 1
        /\ block.data = SubSeq(t.body, t.sent + 1, FragmentEnd(t))
        /\ block.last <=> FragmentEnd(t) = Len(t.body)
  BY SendNextBlockFacts
<1>2. /\ t.svc = calls'[n].svc /\ t.body = C[n] /\ Bodied(C[n], n)'
      /\ t.sent = t.block * Fragment
  BY DEF Carries
<1> PICK k : k = t.block + 1
  OBVIOUS
<1>3. /\ k \in Nat \ {0} /\ FragmentEnd(t) = EndOf(t.body, k)
      /\ SubSeq(t.body, t.sent + 1, FragmentEnd(t))
           = SubSeq(t.body, EndOf(t.body, k - 1) + 1, EndOf(t.body, k))
      /\ t.sent + Fragment = k * Fragment
  BY <1>2, NextPiece
<1>4. BlockOf(block, C, n)'
  <2>1. t.body = C[n] /\ block.number = k
    BY <1>1, <1>2
  <2>2. block.data = SubSeq(C[n], EndOf(C[n], block.number - 1) + 1, EndOf(C[n], block.number))
    BY <1>1, <1>3, <2>1
  <2>3. block.last <=> EndOf(t.body, k) = Len(t.body)
    BY <1>1, <1>3
  <2>4. block.last <=> EndOf(C[n], block.number) = Len(C[n])
    BY <2>1, <2>3
  <2>5. block.svc = calls'[n].svc /\ block.number \in Nat \ {0}
    BY <1>1, <1>2, <1>3, <2>1
  <2> QED
    BY <1>2, <2>2, <2>4, <2>5 DEF BlockOf
<1>5. Belongs(block, C, n)'
  BY <1>1, <1>4 DEF Belongs
<1>6. ASSUME transfer'.kind = "sending"
      PROVE  Carries(transfer, C, n)' /\ transfer'.id = t.id /\ transfer'.svc = t.svc
  <2>1. /\ transfer'.svc = t.svc /\ transfer'.id = t.id /\ transfer'.body = t.body
        /\ transfer'.sent = t.sent + Fragment /\ transfer'.block = t.block + 1
    BY <1>6, TransferGoesOn DEF Idle
  <2> QED
    BY <1>2, <1>3, <2>1 DEF Carries
<1> QED
  BY <1>1, <1>5, <1>6

\* The results of the Read that is invocation n are longer than the client receives, and to
\* go on behind block k finds its transfer, unless an unconfirmed write has ended it.
Resumes(n, k) ==
  /\ calls[n].svc = "read" /\ calls[n].size > Pdu
  /\ Interrupted(n) \/ Stands(k)

\* Who does not wait makes no Read; who does asks for the block after the last one that was
\* sent, and a block that is not the last leaves the transfer where it ended.
ReadInv ==
  /\ caller.impatient => \A r \in requests : r.form = "next" => r.svc # "read"
  /\ caller.impatient => (op # NoOp => op.svc # "read")
  /\ ~caller.impatient =>
       /\ op # NoOp /\ op.ready /\ op.svc = "read" => Resumes(op.n, op.lastBlock)
       /\ \A r \in requests : r.form = "next" /\ r.svc = "read" => Resumes(r.n, r.number)
       /\ \A x \in responses : x.form = "block" /\ x.svc = "read" /\ ~x.last =>
            Resumes(op.n, x.number)

\* A patient caller's Read goes on as long as the store and the transfer stay as they are.
LEMMA ResumesKept ==
  ASSUME UNCHANGED <<transfer, calls>>
  PROVE  \A n, k : Resumes(n, k) => Resumes(n, k)'
BY DEF Resumes, Interrupted, Stands

\* A request with a list.
LEMMA AskReads ==
  ASSUME Steady, Inv, CallerInv, ReadInv, NEW svc \in Services, Ask(svc)
  PROVE  ReadInv'
<1>1. PICK b \in Batches :
        /\ op' = IF svc = "unconfirmed" THEN NoOp
                 ELSE [n |-> started + 1, svc |-> svc, items |-> b.items,
                       lastBlock |-> 0, got |-> <<>>, ready |-> FALSE]
        /\ requests' = requests \union
             {[n |-> started + 1, svc |-> svc, form |-> "list", id |-> Outstanding(svc),
               items |-> b.items]}
  BY DEF Ask
<1>2. /\ op = NoOp /\ svc \in caller.services
      /\ UNCHANGED <<caller, responses>>
  BY DEF Ask, fixed
<1>3. \A q \in requests' : q.form = "next" => q \in requests
  BY <1>1
<1>4. op' # NoOp => op'.svc = svc /\ ~op'.ready
  BY <1>1
<1>5. CASE caller.impatient
  <2>1. svc # "read"
    BY <1>2, <1>5 DEF CallerInv, Steady
  <2> QED
    BY <1>2, <1>3, <1>4, <1>5, <2>1 DEF ReadInv
<1>6. CASE ~caller.impatient
  <2>1. responses = {} /\ \A q \in requests : q.form # "next"
    BY <1>2, <1>6, PatientAsked
  <2> QED
    BY <1>2, <1>3, <1>4, <1>6, <2>1 DEF ReadInv
<1> QED
  BY <1>5, <1>6

\* get_next_block_request and read_next_block_request.
LEMMA NextBlockReads ==
  ASSUME Inv, ReadInv, NextBlockRequest
  PROVE  ReadInv'
<1> DEFINE r == [n |-> op.n, svc |-> op.svc, form |-> "next", id |-> outstanding,
                 number |-> op.lastBlock]
<1>1. /\ op # NoOp /\ op.ready /\ op' = [op EXCEPT !.ready = FALSE]
      /\ requests' = requests \union {r}
      /\ UNCHANGED <<caller, transfer, calls, responses>>
  BY DEF NextBlockRequest, fixed
<1>2. r.n = op.n /\ r.svc = op.svc /\ r.number = op.lastBlock
  OBVIOUS
<1> HIDE DEF r
<1>3. Waiting(op)
  BY <1>1 DEF Inv, NumbersInv
<1>4. op'.n = op.n /\ op'.svc = op.svc /\ op' # NoOp /\ ~op'.ready
  BY <1>1, <1>3, WaitingMore, WaitingFacts
<1>5. \A n, k : Resumes(n, k) => Resumes(n, k)'
  BY <1>1, ResumesKept
<1>6. CASE caller.impatient
  BY <1>1, <1>2, <1>4, <1>6 DEF ReadInv
<1>7. CASE ~caller.impatient
  <2>1. ASSUME NEW q \in requests', q.form = "next", q.svc = "read"
        PROVE  Resumes(q.n, q.number)'
    <3>1. Resumes(q.n, q.number)
      BY <1>1, <1>2, <1>7, <2>1 DEF ReadInv
    <3> QED
      BY <1>5, <3>1
  <2>2. ASSUME NEW x \in responses', x.form = "block", x.svc = "read", ~x.last
        PROVE  Resumes(op.n, x.number)'
    <3>1. Resumes(op.n, x.number)
      BY <1>1, <1>7, <2>2 DEF ReadInv
    <3>2. PICK n : n = op.n /\ op'.n = n
      BY <1>4
    <3>3. Resumes(n, x.number)'
      BY <1>5, <3>1, <3>2
    <3> QED
      BY <3>2, <3>3
  <2> QED
    BY <1>1, <1>4, <1>7, <2>1, <2>2 DEF ReadInv
<1> QED
  BY <1>6, <1>7

\* handle_response: the caller goes on behind a block that is not the last.
LEMMA ResponseReads ==
  ASSUME Inv, ReadInv, HandleResponse
  PROVE  ReadInv'
<1>1. PICK m \in responses :
        /\ responses' = responses \ {m}
        /\ \/ UNCHANGED <<op, done>>
           \/ op # NoOp /\ UseResponse(m)
        /\ UNCHANGED <<caller, transfer, calls, requests>>
  BY DEF HandleResponse, fixed
<1>2. \A n, k : Resumes(n, k) => Resumes(n, k)'
  BY <1>1, ResumesKept
<1>3. \/ op' = NoOp
      \/ op' = op
      \/ /\ op # NoOp /\ op'.n = op.n /\ op'.svc = op.svc /\ op'.lastBlock = m.number
         /\ m.form = "block" /\ m.svc = op.svc /\ ~m.last
  <2>1. CASE UNCHANGED <<op, done>>
    BY <2>1
  <2>2. CASE op # NoOp /\ UseResponse(m)
    <3>1. CASE m.form = "block" /\ m.svc = op.svc
      <4>1. TakeBlock(m)
        BY <2>2, <3>1 DEF UseResponse
      <4> PICK got : got = op.got \o m.data
        OBVIOUS
      <4>2. \/ op' = NoOp
            \/ ~m.last /\ op' = [op EXCEPT !.got = got, !.lastBlock = m.number, !.ready = TRUE]
        BY <4>1 DEF TakeBlock, Finish, GiveUp
      <4>3. Waiting(op)
        BY <2>2 DEF Inv, NumbersInv
      <4> DEFINE q == [op EXCEPT !.got = got, !.lastBlock = m.number, !.ready = TRUE]
      <4>4. q.n = op.n /\ q.svc = op.svc /\ q.lastBlock = m.number
        BY <4>3, WaitingMore
      <4>5. op' = NoOp \/ (~m.last /\ op' = q)
        BY <4>2
      <4> HIDE DEF q
      <4> QED
        BY <2>2, <3>1, <4>4, <4>5
    <3>2. CASE ~(m.form = "block" /\ m.svc = op.svc)
      BY <2>2, <3>2 DEF UseResponse, TakeList, Finish, GiveUp
    <3> QED
      BY <3>1, <3>2
  <2> QED
    BY <1>1, <2>1, <2>2
<1>4. CASE caller.impatient
  BY <1>1, <1>3, <1>4 DEF ReadInv
<1>5. CASE ~caller.impatient
  <2>1. responses' = {}
    BY <1>1, <1>5 DEF Inv, PatientInv, UnderWay
  <2>2. ASSUME op' # NoOp, op'.ready, op'.svc = "read"
        PROVE  Resumes(op.n, op.lastBlock)'
    <3>1. PICK n, k : n = op'.n /\ k = op'.lastBlock
      OBVIOUS
    <3>2. Resumes(n, k)
      BY <1>1, <1>3, <1>5, <2>2, <3>1 DEF ReadInv
    <3>3. Resumes(n, k)'
      BY <1>2, <3>2
    <3> QED
      BY <3>1, <3>3
  <2>3. \A r \in requests' : r.form = "next" /\ r.svc = "read" => Resumes(r.n, r.number)'
    BY <1>1, <1>2, <1>5 DEF ReadInv
  <2> QED
    BY <1>1, <1>5, <2>1, <2>2, <2>3 DEF ReadInv
<1> QED
  BY <1>4, <1>5

\* The caller's timeout.
LEMMA AbandonReads ==
  ASSUME ReadInv, Abandon
  PROVE  ReadInv'
<1>1. /\ op' = NoOp /\ UNCHANGED <<caller, requests, responses>>
      /\ caller.impatient \/ (requests = {} /\ responses = {})
  BY DEF Abandon, TimedOut, GiveUp, fixed
<1> QED
  BY <1>1 DEF ReadInv

\* A block goes out, and is the last one or leaves the transfer behind it.
LEMMA BlockStands ==
  ASSUME NEW m, NEW t, Transferring(t), SendNextBlock(m, t), NEW replies, Replying(m, replies)
  PROVE  \A x \in responses' :
           \/ x \in responses
           \/ x.svc = t.svc /\ (t.svc = "read" => x.last \/ Stands(x.number)')
<1>1. PICK block :
        /\ Replying(m, {block})
        /\ block.svc = t.svc /\ block.number = t.block + 1
        /\ block.last <=> FragmentEnd(t) = Len(t.body)
        /\ transfer' = IF FragmentEnd(t) = Len(t.body) THEN Idle
                       ELSE [t EXCEPT !.sent = FragmentEnd(t), !.block = @ + 1]
  BY SendNextBlockFacts
<1>2. responses' = responses \union {block}
  BY <1>1 DEF Replying
<1>3. t.svc = "read" /\ ~block.last => Stands(block.number)'
  <2> SUFFICES ASSUME t.svc = "read", ~block.last PROVE Stands(block.number)'
    OBVIOUS
  <2>1. PICK end \in Nat : end = FragmentEnd(t)
    BY FragmentEndFacts
  <2> DEFINE u == [t EXCEPT !.sent = end, !.block = @ + 1]
  <2>2. /\ Transferring(u) /\ u.kind = "sending" /\ u.svc = t.svc /\ u.id = t.id
        /\ u.body = t.body /\ u.sent = end /\ u.block = t.block + 1
    BY TransferringFacts
  <2>3. transfer' = u
    BY <1>1, <2>1
  <2> HIDE DEF u
  <2> QED
    BY <1>1, <2>2, <2>3 DEF Stands
<1> QED
  BY <1>1, <1>2, <1>3

\* The blocks that are under way are those of the caller that waits.
LEMMA ReadsByBlocks ==
  ASSUME Inv, ReadInv, NEW m \in requests, Confirmed(m), NEW replies, Replying(m, replies),
         \A x \in replies : x.form = "block" /\ x.svc = "read" /\ ~x.last =>
           Resumes(m.n, x.number)'
  PROVE  ReadInv'
<1>1. /\ UNCHANGED <<caller, op, started>> /\ requests' = requests \ {m}
      /\ responses' = responses \union replies
  BY DEF Replying, fixed, clientVars
<1>2. CASE caller.impatient
  BY <1>1, <1>2 DEF ReadInv
<1>3. CASE ~caller.impatient
  <2>1. /\ op # NoOp /\ m.n = op.n /\ ~op.ready /\ responses = {}
        /\ \A s \in requests : s.form = "next" => s = m
    BY <1>3 DEF Inv, PatientInv, UnderWay, NumbersInv, Confirmed
  <2>2. PICK n : n = op.n
    OBVIOUS
  <2>3. \A x \in responses' : x.form = "block" /\ x.svc = "read" /\ ~x.last =>
           Resumes(n, x.number)'
    BY <1>1, <2>1, <2>2
  <2>4. op' = op /\ \A s \in requests' : s.form # "next"
    BY <1>1, <2>1
  <2> QED
    BY <1>1, <1>3, <2>1, <2>2, <2>3, <2>4 DEF ReadInv
<1> QED
  BY <1>2, <1>3

\* A list is handled: the first block of a Read leaves the transfer behind it, and an
\* unconfirmed write, which ends a transfer, is older than what a patient caller waits for.
LEMMA ListReads ==
  ASSUME Inv, TypeInv, ReadInv, NEW m \in requests, HandleList(m)
  PROVE  ReadInv'
<1>1. /\ m.form = "list" /\ m.svc \in Services /\ Listed(m.items)
      /\ m.n \in 1 .. started /\ started \in Nat /\ started <= Requests /\ Requests \in Nat
      /\ m.n \in Nat /\ m.n \in 1 .. Requests /\ DOMAIN calls = 1 .. Requests
  <2>1. m.form = "list"
    BY DEF HandleList
  <2>2. started \in 0 .. Requests /\ Requests \in Nat /\ m.n \in 1 .. started
    BY BoundsAssumption DEF Inv, NumbersInv
  <2> QED
    BY <2>1, <2>2 DEF TypeInv, Inv, NumbersInv
<1>2. PICK replies :
        /\ Replying(m, replies)
        /\ \/ UNCHANGED <<transfer, calls>> /\ \A r \in replies : r = Exception(m)
           \/ \E list :
                /\ Written(m.svc, m.n, list, Len(m.items))
                /\ calls' = [calls EXCEPT ![m.n] =
                     [svc |-> m.svc, items |-> m.items, said |-> list.said,
                      size |-> Len(list.data) + Len(list.results)]]
                /\ Ended(m, list, replies)
  BY <1>1, ListHandled
<1>3. /\ UNCHANGED <<caller, op, started>> /\ requests' = requests \ {m}
      /\ responses' = responses \union replies
  BY <1>2 DEF Replying, fixed, clientVars
<1>4. ASSUME NEW list,
             calls' = [calls EXCEPT ![m.n] =
               [svc |-> m.svc, items |-> m.items, said |-> list.said,
                size |-> Len(list.data) + Len(list.results)]]
      PROVE  /\ calls'[m.n].svc = m.svc
             /\ calls'[m.n].size = Len(list.data) + Len(list.results)
             /\ \A n \in 1 .. Requests : n # m.n => calls'[n] = calls[n]
  BY <1>1, <1>4
<1>5. CASE ~caller.impatient /\ Confirmed(m)
  <2>2. responses = {}
    BY <1>5 DEF Inv, PatientInv, UnderWay
  <2>1. ASSUME NEW x \in replies, x.form = "block", x.svc = "read", ~x.last
        PROVE  Resumes(m.n, x.number)'
    <3>1. Exception(m).form # "block"
      BY DEF Exception
    <3>2. PICK list :
            /\ Written(m.svc, m.n, list, Len(m.items))
            /\ calls' = [calls EXCEPT ![m.n] =
                 [svc |-> m.svc, items |-> m.items, said |-> list.said,
                  size |-> Len(list.data) + Len(list.results)]]
            /\ Ended(m, list, replies)
      BY <1>2, <2>1, <3>1
    <3> DEFINE body == BodyOf(m.svc, m.items, list.results)
    <3>3. /\ body \in Seq(Tokens) /\ Len(list.data) + Len(list.results) > Pdu
          /\ SendNextBlock(m, Sending(m, body))
      <4>1. ErrorReply(m).form # "block" /\ ListReply(m, list).form # "block"
        BY DEF ErrorReply, ReadError, GetError, ListReply
      <4> QED
        BY <2>1, <3>2, <4>1 DEF Ended
    <3> HIDE DEF body
    <3>4. PICK t : t = Sending(m, body) /\ Transferring(t) /\ t.svc = m.svc
      BY <3>3, SendingFacts
    <3>5. x.svc = m.svc /\ (m.svc = "read" => x.last \/ Stands(x.number)')
      <4>1. x \in responses' /\ x \notin responses
        BY <1>3, <2>1, <2>2
      <4>2. x \in responses \/ (x.svc = t.svc /\ (t.svc = "read" => x.last \/ Stands(x.number)'))
        BY <1>2, <3>3, <3>4, <4>1, BlockStands
      <4> QED
        BY <3>4, <4>1, <4>2
    <3>6. calls'[m.n].svc = m.svc /\ calls'[m.n].size > Pdu
      BY <1>4, <3>2, <3>3
    <3> QED
      BY <2>1, <3>5, <3>6 DEF Resumes
  <2> QED
    BY <1>2, <1>5, <2>1, ReadsByBlocks
<1>6. CASE ~caller.impatient /\ ~Confirmed(m)
  <2>1. m.svc = "unconfirmed"
    BY <1>6 DEF Confirmed
  <2>2. \A x \in replies : x.form # "block"
    <3>1. Exception(m).form # "block"
      BY DEF Exception
    <3>2. ASSUME NEW list, Ended(m, list, replies)
          PROVE  replies = {}
      BY <2>1, <3>2 DEF Ended
    <3> QED
      BY <1>2, <3>1, <3>2
  <2>3. op # NoOp => op.n \in 1 .. Requests /\ op.n > m.n
    <3>1. op # NoOp => op.n = started /\ m.n # op.n
      BY <2>1 DEF Inv, NumbersInv
    <3> QED
      BY <1>1, <3>1
  <2>4. ASSUME NEW n \in 1 .. Requests, n > m.n, NEW k, Resumes(n, k)
        PROVE  Resumes(n, k)'
    <3>1. CASE UNCHANGED <<transfer, calls>>
      BY <2>4, <3>1, ResumesKept
    <3>2. ASSUME NEW list,
                 calls' = [calls EXCEPT ![m.n] =
                   [svc |-> m.svc, items |-> m.items, said |-> list.said,
                    size |-> Len(list.data) + Len(list.results)]]
          PROVE  Resumes(n, k)'
      <4>1. calls'[m.n].svc = "unconfirmed" /\ calls'[n] = calls[n]
        <5>1. n # m.n
          BY <1>1, <2>4
        <5> QED
          BY <1>4, <2>1, <3>2, <5>1
      <4>2. m.n \in 1 .. n - 1
        <5>1. PICK i \in Nat, j \in Nat : i = n /\ j = m.n /\ j >= 1
          BY <1>1
        <5> QED
          BY <2>4, <5>1
      <4> QED
        BY <2>4, <4>1, <4>2 DEF Resumes, Interrupted
    <3> QED
      BY <1>2, <3>1, <3>2
  <2>5. ASSUME NEW r \in requests', r.form = "next", r.svc = "read"
        PROVE  Resumes(r.n, r.number)'
    <3>1. r \in requests /\ op # NoOp /\ op.n = r.n
      BY <1>3, <1>6, <2>5, PatientAsked
    <3>2. Resumes(r.n, r.number)
      BY <1>6, <2>5, <3>1 DEF ReadInv
    <3> QED
      BY <2>3, <2>4, <3>1, <3>2
  <2>6. ASSUME op # NoOp
        PROVE  \A k : Resumes(op.n, k) => Resumes(op.n, k)'
    <3>1. PICK n \in 1 .. Requests : n = op.n /\ n > m.n
      BY <2>3, <2>6
    <3>2. \A k : Resumes(n, k) => Resumes(n, k)'
      BY <2>4, <3>1
    <3> QED
      BY <1>3, <3>1, <3>2
  <2>7. responses # {} => op # NoOp
    BY <1>6, PatientAsked
  <2>8. ASSUME NEW x \in responses', x.form = "block", x.svc = "read", ~x.last
        PROVE  Resumes(op.n, x.number)'
    BY <1>3, <1>6, <2>2, <2>6, <2>7, <2>8 DEF ReadInv
  <2>9. op # NoOp /\ op.ready /\ op.svc = "read" => Resumes(op.n, op.lastBlock)'
    <3>1. PICK k : k = op.lastBlock
      OBVIOUS
    <3>2. op # NoOp /\ op.ready /\ op.svc = "read" => Resumes(op.n, k)'
      BY <1>6, <2>6, <3>1 DEF ReadInv
    <3> QED
      BY <1>3, <3>1, <3>2
  <2> QED
    BY <1>3, <1>6, <2>5, <2>8, <2>9 DEF ReadInv
<1>7. CASE caller.impatient
  BY <1>3, <1>7 DEF ReadInv
<1> QED
  BY <1>5, <1>6, <1>7

\* A block is asked for, and one is sent or an error.
LEMMA NextReads ==
  ASSUME Inv, TypeInv, ReadInv, NEW m \in requests, HandleNext(m)
  PROVE  ReadInv'
<1>1. m.form = "next" /\ Confirmed(m) /\ calls' = calls
  BY NextHandled DEF Inv, NumbersInv, Confirmed
<1>2. CASE transfer.kind = "sending" /\ transfer.svc = m.svc /\ SendNextBlock(m, transfer)
  <2>1. PICK replies : Replying(m, replies)
    BY <1>2, SendNextBlockFacts
  <2>2. PICK u : u = transfer /\ Transferring(u) /\ SendNextBlock(m, u) /\ u.svc = m.svc
    BY <1>2 DEF TypeInv
  <2>3. \A x \in responses' :
           x \in responses \/ (x.svc = u.svc /\ (u.svc = "read" => x.last \/ Stands(x.number)'))
    BY <2>1, <2>2, BlockStands
  <2>4. CASE caller.impatient
    BY <1>1, <2>1, <2>4 DEF ReadInv, Replying, fixed, clientVars
  <2>5. CASE ~caller.impatient
    <3>1. responses = {} /\ responses' = responses \union replies
      BY <1>1, <2>1, <2>5 DEF Inv, PatientInv, UnderWay, Replying
    <3>2. m.svc = "read" => calls[m.n].svc = "read" /\ calls[m.n].size > Pdu
      BY <1>1, <2>5 DEF ReadInv, Resumes
    <3>3. \A x \in replies : x.svc = "read" /\ ~x.last => Resumes(m.n, x.number)'
      BY <1>1, <2>2, <2>3, <3>1, <3>2 DEF Resumes
    <3> QED
      BY <1>1, <2>1, <3>3, ReadsByBlocks
  <2> QED
    BY <2>4, <2>5
<1>3. CASE Replying(m, {ErrorReply(m)})
  <2>1. ErrorReply(m).form # "block"
    BY DEF ErrorReply, ReadError, GetError
  <2> QED
    BY <1>1, <1>3, <2>1, ReadsByBlocks
<1> QED
  BY <1>2, <1>3, NextHandled

\* Nobody reads on at first.
LEMMA InitReads == Init => ReadInv
BY DEF Init, ReadInv

\* Every step leaves what is read on where it can be.
LEMMA NextReadInv == Steady /\ Inv /\ TypeInv /\ CallerInv /\ ReadInv /\ [Next]_vars => ReadInv'
<1> SUFFICES ASSUME Steady, Inv, TypeInv, CallerInv, ReadInv, [Next]_vars PROVE ReadInv'
  OBVIOUS
<1>1. ASSUME NEW svc \in Services, Ask(svc) PROVE ReadInv'
  BY <1>1, AskReads
<1>2. CASE \/ GetRequestWithList \/ ActionRequestWithList \/ AccessRequest
           \/ ReadRequest \/ WriteRequest \/ UnconfirmedWriteRequest
  BY <1>1, <1>2 DEF GetRequestWithList, ActionRequestWithList, AccessRequest, ReadRequest,
     WriteRequest, UnconfirmedWriteRequest, Services
<1>3. CASE NextBlockRequest
  BY <1>3, NextBlockReads
<1>4. CASE HandleResponse
  BY <1>4, ResponseReads
<1>5. CASE Abandon
  BY <1>5, AbandonReads
<1>6. CASE Handle
  <2>1. PICK m \in requests : HandleList(m) \/ HandleNext(m)
    BY <1>6 DEF Handle, HandleGetWithList, HandleActionWithList, HandleAccess, HandleRead,
       HandleWrite
  <2> QED
    BY <2>1, ListReads, NextReads
<1>7. CASE UNCHANGED vars
  <2>1. UNCHANGED <<caller, op, transfer, calls, requests, responses>>
    BY <1>7 DEF vars, fixed, clientVars
  <2>2. \A n, k : Resumes(n, k) => Resumes(n, k)'
    BY <2>1, ResumesKept
  <2>3. PICK n, k : n = op.n /\ k = op.lastBlock
    OBVIOUS
  <2>4. /\ \A x \in responses : Resumes(n, x.number) => Resumes(n, x.number)'
        /\ Resumes(n, k) => Resumes(n, k)'
    BY <2>2
  <2> QED
    BY <2>1, <2>2, <2>3, <2>4 DEF ReadInv
<1> QED
  BY <1>2, <1>3, <1>4, <1>5, <1>6, <1>7 DEF Next

\* A block is asked for.
LEMMA NextStory ==
  ASSUME Inv, TypeInv, OwnInv, ReadInv, NEW m \in requests, HandleNext(m)
  PROVE  OwnInv'
<1>1. m.form = "next" /\ calls' = calls
  BY NextHandled
<1>2. PICK B \in [1 .. Requests -> Seq(Tokens)] :
        TransferInv(B) /\ ResponsesInv(B) /\ OpInv(B)
  BY DEF OwnInv, BookInv
<1>3. ASSUME NEW replies, Replying(m, replies), Fitting(replies, B)
      PROVE  ResponsesInv(B)' /\ OpInv(B)' /\ RequestsInv' /\ CallerInv' /\ DoneInv' /\ CallsInv'
  <2>1. Heard(B, B, m)
    BY <1>1 DEF Heard
  <2> QED
    BY <1>2, <1>3, <2>1, Served
<1>4. CASE /\ transfer.kind = "sending" /\ transfer.svc = m.svc
           /\ SendNextBlock(m, transfer)
  <2>1. PICK n \in 1 .. started :
          /\ Carries(transfer, B, n)
          /\ ~caller.impatient /\ Asked => Mine(n)
          /\ caller.impatient => transfer.id = n % IdMod /\ transfer.svc = "get"
    BY <1>2, <1>4 DEF TransferInv
  <2>2. Asked
    BY <1>1 DEF Asked
  <2>3. PICK u : u = transfer
    OBVIOUS
  <2>4. Transferring(u) /\ u.sent < Len(u.body)
    BY <1>4, <2>3 DEF TypeInv
  <2>5. u.body \in Seq(Tokens) /\ u.sent \in Nat
    BY <2>4, TransferringFacts
  <2>6. /\ Carries(u, B, n)'
        /\ caller.impatient => u.id = n % IdMod /\ u.svc = "get"
    BY <1>1, <2>1, <2>3 DEF Carries, Bodied
  <2>7. u.sent <= Len(u.body) /\ SendNextBlock(m, u)
    <3>1. Len(u.body) \in Nat
      BY <2>5
    <3> QED
      BY <1>4, <2>3, <2>4, <2>5, <3>1
  <2>8. /\ \E block : /\ Replying(m, {block}) /\ block.form = "block" /\ block.id = u.id
                      /\ Belongs(block, B, n)'
        /\ transfer'.kind = "sending" =>
             Carries(transfer, B, n)' /\ transfer'.id = u.id /\ transfer'.svc = u.svc
    BY <2>4, <2>6, <2>7, BlockSent
  <2>9. PICK block : /\ Replying(m, {block}) /\ block.form = "block" /\ block.id = u.id
                     /\ Belongs(block, B, n)'
    BY <2>8
  <2>10. ResponsesInv(B)' /\ OpInv(B)' /\ RequestsInv' /\ CallerInv' /\ DoneInv' /\ CallsInv'
    <3>1. Fitting({block}, B)
      BY <2>1, <2>2, <2>6, <2>9 DEF Fitting
    <3> QED
      BY <1>3, <2>9, <3>1
  <2>11. TransferInv(B)'
    <3>1. UNCHANGED <<agreed, caller, op, started>>
      BY <2>9 DEF Replying, fixed, clientVars
    <3>2. \A k : Mine(k)' <=> Mine(k)
      BY <3>1 DEF Mine
    <3> QED
      BY <2>1, <2>2, <2>6, <2>8, <3>1, <3>2 DEF TransferInv
  <2> QED
    BY <2>10, <2>11 DEF OwnInv, BookInv
<1>5. CASE /\ transfer' = transfer \/ transfer' = Idle
           /\ Replying(m, {ErrorReply(m)})
           /\ m.svc = "read" => ~Stands(m.number)
  <2>1. Fitting({ErrorReply(m)}, B)
    <3>1. CASE m.svc # "read"
      <4>1. ErrorReply(m).form \notin {"list", "block"}
        BY <3>1 DEF ErrorReply, GetError
      <4> QED
        BY <4>1 DEF Fitting
    <3>2. CASE m.svc = "read"
      <4>1. ~caller.impatient /\ Mine(m.n)
        BY <1>1, <3>2, PatientAsked DEF ReadInv, Mine
      <4>2. calls[m.n].svc = "read" /\ calls[m.n].size > Pdu /\ Interrupted(m.n)
        BY <1>1, <1>5, <3>2, <4>1 DEF ReadInv, Resumes
      <4>3. PICK n \in 1 .. started : n = m.n
        BY DEF Inv, NumbersInv
      <4>4. PICK x : x = ErrorReply(m)
        OBVIOUS
      <4>5. x.form = "list" /\ x.svc = "read" /\ x.count = 1 /\ x.results = <<Failed>>
        BY <3>2, <4>4 DEF ErrorReply, ReadError
      <4>6. FailureOf(x, n)
        BY <4>2, <4>3, <4>5 DEF FailureOf, Undeliverable
      <4>7. FailureOf(x, n)'
        BY <1>1, <1>5, <4>6, UndeliverableKept, KeptSame DEF FailureOf, Replying, fixed
      <4>8. Belongs(x, B, n)'
        BY <4>5, <4>7 DEF Belongs
      <4> QED
        BY <4>1, <4>3, <4>4, <4>8 DEF Fitting
    <3> QED
      BY <3>1, <3>2
  <2>2. ResponsesInv(B)' /\ OpInv(B)' /\ RequestsInv' /\ CallerInv' /\ DoneInv' /\ CallsInv'
    BY <1>3, <1>5, <2>1
  <2>3. TransferInv(B)'
    <3>1. /\ UNCHANGED <<agreed, caller, op, started>> /\ requests' = requests \ {m}
          /\ responses' = responses \union {ErrorReply(m)}
      BY <1>5 DEF Replying, fixed, clientVars
    <3>2. \A k : Mine(k)' <=> Mine(k)
      BY <3>1 DEF Mine
    <3>3. Asked' => Asked
      <4>1. ErrorReply(m).form # "block"
        BY DEF ErrorReply, ReadError, GetError
      <4> QED
        BY <3>1, <4>1 DEF Asked
    <3>4. ASSUME transfer'.kind = "sending" PROVE transfer' = transfer
      BY <1>5, <3>4 DEF Idle
    <3> SUFFICES ASSUME transfer'.kind = "sending"
                 PROVE  \E n \in 1 .. started :
                          /\ Carries(transfer, B, n)'
                          /\ ~caller.impatient /\ Asked' => Mine(n)
                          /\ caller.impatient => transfer'.id = n % IdMod /\ transfer'.svc = "get"
      BY <3>1, <3>2 DEF TransferInv
    <3>5. PICK n \in 1 .. started :
            /\ Carries(transfer, B, n)
            /\ ~caller.impatient /\ Asked => Mine(n)
            /\ caller.impatient => transfer.id = n % IdMod /\ transfer.svc = "get"
      BY <1>2, <3>4 DEF TransferInv
    <3>6. Carries(transfer, B, n)'
      BY <1>1, <3>4, <3>5 DEF Carries, Bodied
    <3> QED
      BY <3>3, <3>4, <3>5, <3>6
  <2> QED
    BY <2>2, <2>3 DEF OwnInv, BookInv
<1> QED
  BY <1>4, <1>5, NextHandled

\* Nobody has a list in blocks under way while nothing is sent, or what is sent is the list's
\* own.
LEMMA ListStory ==
  ASSUME Inv, TypeInv, OwnInv, NEW m \in requests, HandleList(m)
  PROVE  OwnInv'
<1>1. /\ m.form = "list" /\ m.svc \in Services /\ Listed(m.items) /\ m.n \in 1 .. started
      /\ m.n \in 1 .. Requests /\ calls[m.n] = NoCalls /\ m.n \in Nat
      /\ DOMAIN calls = 1 .. Requests
  <2>1. m.form = "list"
    BY DEF HandleList
  <2>2. started \in 0 .. Requests /\ Requests \in Nat /\ m.n \in 1 .. started
    BY BoundsAssumption DEF Inv, NumbersInv
  <2>3. m.n \in 1 .. Requests /\ m.n \in Nat
    BY <2>2
  <2> QED
    BY <2>1, <2>2, <2>3 DEF TypeInv, OwnInv, RequestsInv, Inv, NumbersInv
<1>2. PICK B \in [1 .. Requests -> Seq(Tokens)] :
        TransferInv(B) /\ ResponsesInv(B) /\ OpInv(B)
  BY DEF OwnInv, BookInv
<1>3. /\ ~caller.impatient /\ m.svc # "unconfirmed" => Mine(m.n)
      /\ caller.impatient => m.id = m.n % IdMod /\ m.svc \in {"get", "action"}
  <2>1. ~caller.impatient /\ m.svc # "unconfirmed" => Mine(m.n)
    BY PatientAsked DEF Confirmed, Mine
  <2> QED
    BY <1>1, <2>1 DEF OwnInv, RequestsInv
<1>4. PICK replies :
        /\ Replying(m, replies)
        /\ \/ UNCHANGED <<transfer, calls>> /\ \A r \in replies : r = Exception(m)
           \/ \E list :
                /\ Written(m.svc, m.n, list, Len(m.items))
                /\ calls' = [calls EXCEPT ![m.n] =
                     [svc |-> m.svc, items |-> m.items, said |-> list.said,
                      size |-> Len(list.data) + Len(list.results)]]
                /\ Ended(m, list, replies)
  BY <1>1, ListHandled
<1>5. /\ UNCHANGED <<agreed, caller, op, started>> /\ requests' = requests \ {m}
      /\ responses' = responses \union replies
  BY <1>4 DEF Replying, fixed, clientVars
<1>6. \A k : Mine(k)' <=> Mine(k)
  BY <1>5 DEF Mine
<1>7. CASE UNCHANGED <<transfer, calls>> /\ \A r \in replies : r = Exception(m)
  <2>1. \A x \in replies : x.form \notin {"list", "block"}
    BY <1>7 DEF Exception
  <2>2. ResponsesInv(B)' /\ OpInv(B)' /\ RequestsInv' /\ CallerInv' /\ DoneInv' /\ CallsInv'
    <3>1. Heard(B, B, m)
      BY <1>7 DEF Heard
    <3>2. Fitting(replies, B)
      BY <2>1 DEF Fitting
    <3> QED
      BY <1>2, <1>4, <3>1, <3>2, Served
  <2>3. TransferInv(B)'
    <3>1. Asked' => Asked
      BY <1>5, <2>1 DEF Asked
    <3> SUFFICES ASSUME transfer.kind = "sending"
                 PROVE  \E n \in 1 .. started :
                          /\ Carries(transfer, B, n)'
                          /\ ~caller.impatient /\ Asked' => Mine(n)
                          /\ caller.impatient => transfer.id = n % IdMod /\ transfer.svc = "get"
      BY <1>5, <1>6, <1>7 DEF TransferInv
    <3>2. PICK n \in 1 .. started :
            /\ Carries(transfer, B, n)
            /\ ~caller.impatient /\ Asked => Mine(n)
            /\ caller.impatient => transfer.id = n % IdMod /\ transfer.svc = "get"
      BY <1>2 DEF TransferInv
    <3>3. Carries(transfer, B, n)'
      BY <1>7, <3>2 DEF Carries, Bodied
    <3> QED
      BY <3>1, <3>2, <3>3
  <2> QED
    BY <2>2, <2>3 DEF OwnInv, BookInv
<1>8. ASSUME NEW list, Written(m.svc, m.n, list, Len(m.items)),
             calls' = [calls EXCEPT ![m.n] =
               [svc |-> m.svc, items |-> m.items, said |-> list.said,
                size |-> Len(list.data) + Len(list.results)]],
             Ended(m, list, replies)
      PROVE  OwnInv'
  <2>1. /\ \A n \in 1 .. Requests : n # m.n => calls'[n] = calls[n]
        /\ calls'[m.n].svc = m.svc /\ calls'[m.n].items = m.items
        /\ calls'[m.n].said = list.said /\ calls'[m.n] # NoCalls
        /\ calls'[m.n].size = Len(list.data) + Len(list.results)
    <3>1. /\ \A n \in 1 .. Requests : n # m.n => calls'[n] = calls[n]
          /\ calls'[m.n] = [svc |-> m.svc, items |-> m.items, said |-> list.said,
                            size |-> Len(list.data) + Len(list.results)]
      BY <1>1, <1>8
    <3>2. m.svc # "none"
      BY <1>1 DEF Services
    <3> QED
      BY <3>1, <3>2 DEF NoCalls
  <2>2. ASSUME NEW C, \A n \in 1 .. Requests : n # m.n => C[n] = B[n],
               \A x \in replies : x.form \in {"list", "block"} =>
                 /\ Belongs(x, C, m.n)' /\ m.svc # "unconfirmed"
                 /\ caller.impatient => x.id = m.id
        PROVE  /\ ResponsesInv(C)' /\ OpInv(C)' /\ RequestsInv' /\ CallerInv' /\ DoneInv'
               /\ CallsInv'
    <3>1. Heard(B, C, m)
      BY <1>1, <2>1, <2>2 DEF Heard
    <3>2. Fitting(replies, C)
      BY <1>1, <1>3, <2>2 DEF Fitting
    <3> QED
      BY <1>2, <1>4, <3>1, <3>2, Served
  <2>3. CASE \/ transfer' = Idle /\ replies = {}
             \/ /\ transfer' = Idle /\ replies = {ErrorReply(m)}
                /\ m.svc \in {"get", "read"} /\ Len(list.data) + Len(list.results) > Pdu
                /\ ~agreed \/ (m.svc = "read" /\ Len(m.items) > 1)
    <3>1. ASSUME NEW x \in replies, x.form \in {"list", "block"}
          PROVE  /\ Belongs(x, B, m.n)' /\ m.svc # "unconfirmed"
                 /\ caller.impatient => x.id = m.id
      <4>1. x = ErrorReply(m) /\ m.svc \in {"get", "read"}
        BY <2>3, <3>1
      <4>2. m.svc = "read" /\ x = ReadError(m)
        BY <3>1, <4>1 DEF ErrorReply, GetError
      <4>3. ~caller.impatient
        BY <1>3, <4>2
      <4>4. /\ calls'[m.n].size > Pdu /\ calls'[m.n].svc = "read" /\ calls'[m.n].items = m.items
            /\ ~agreed' \/ Len(m.items) > 1
        BY <1>5, <2>1, <2>3, <3>1, <4>2
      <4>5. Undeliverable(m.n)'
        BY <4>4 DEF Undeliverable
      <4>6. FailureOf(x, m.n)'
        BY <4>2, <4>4, <4>5 DEF FailureOf, ReadError
      <4> QED
        BY <3>1, <4>2, <4>3, <4>6 DEF Belongs, ReadError
    <3>2. \A x \in replies : x.form \in {"list", "block"} =>
            /\ Belongs(x, B, m.n)' /\ m.svc # "unconfirmed"
            /\ caller.impatient => x.id = m.id
      BY <3>1
    <3>3. /\ ResponsesInv(B)' /\ OpInv(B)' /\ RequestsInv' /\ CallerInv' /\ DoneInv'
          /\ CallsInv'
      BY <2>2, <3>2
    <3>4. TransferInv(B)'
      <4>1. transfer' = Idle
        BY <2>3
      <4>2. transfer'.kind # "sending"
        BY <4>1 DEF Idle
      <4> QED
        BY <4>2 DEF TransferInv
    <3> QED
      BY <1>2, <3>3, <3>4 DEF OwnInv, BookInv
  <2>4. CASE /\ transfer' = Idle /\ replies = {ListReply(m, list)}
             /\ m.svc # "unconfirmed" /\ Len(list.said) = Len(m.items)
    <3>1. PICK reply : /\ replies = {reply} /\ reply.svc = m.svc /\ reply.id = m.id
                       /\ reply.form = "list" /\ reply.count = Len(m.items)
                       /\ reply.data = list.data /\ reply.results = list.results
      <4> DEFINE reply == ListReply(m, list)
      <4>1. /\ reply.svc = m.svc /\ reply.id = m.id
            /\ reply.form = "list" /\ reply.count = Len(m.items)
            /\ reply.data = list.data /\ reply.results = list.results
        BY DEF ListReply
      <4>2. replies = {reply}
        BY <2>4
      <4> HIDE DEF reply
      <4> QED
        BY <4>1, <4>2
    <3>2. Tale(m.svc, m.n, list.said, list.results, list.data)
      BY <1>8, <2>4 DEF Written
    <3>3. ListOf(reply, m.n)'
      BY <2>1, <2>4, <3>1, <3>2 DEF ListOf
    <3>4. Belongs(reply, B, m.n)'
      BY <3>1, <3>3 DEF Belongs
    <3>5. /\ ResponsesInv(B)' /\ OpInv(B)' /\ RequestsInv' /\ CallerInv' /\ DoneInv'
          /\ CallsInv'
      BY <2>2, <2>4, <3>1, <3>4
    <3>6. TransferInv(B)'
      BY <2>4 DEF TransferInv, Idle
    <3> QED
      BY <1>2, <3>5, <3>6 DEF OwnInv, BookInv
  <2> DEFINE body == BodyOf(m.svc, m.items, list.results)
  <2>5. CASE /\ m.svc = "get" \/ (m.svc = "read" /\ Len(m.items) = 1 /\ list.results # <<>>)
             /\ Len(list.said) = Len(m.items)
             /\ body \in Seq(Tokens)
             /\ Len(body) <= Buffer
             /\ SendNextBlock(m, Sending(m, body))
    <3> DEFINE C == [B EXCEPT ![m.n] = body]
    <3>1. /\ C \in [1 .. Requests -> Seq(Tokens)] /\ C[m.n] = body
          /\ \A n \in 1 .. Requests : n # m.n => C[n] = B[n]
      <4> HIDE DEF body
      <4> QED
        BY <1>1, <1>2, <2>5
    <3> HIDE DEF C
    <3>2. Bodied(C[m.n], m.n)'
      <4>1. Tale(m.svc, m.n, list.said, list.results, list.data)
        BY <1>8, <2>5 DEF Written
      <4>2. m.svc = "read" => list.results # <<>>
        BY <2>5
      <4>3. /\ calls'[m.n] # NoCalls /\ C[m.n] \in Seq(Tokens)
            /\ Len(calls'[m.n].said) = Len(calls'[m.n].items)
            /\ calls'[m.n].svc = "get" \/ (calls'[m.n].svc = "read" /\ Len(calls'[m.n].items) = 1)
        <5> HIDE DEF body
        <5> QED
          BY <2>1, <2>5, <3>1
      <4>4. C[m.n] = BodyOf(calls'[m.n].svc, calls'[m.n].items, list.results)
        BY <2>1, <3>1
      <4>5. \E results, data :
              /\ Tale(calls'[m.n].svc, m.n, calls'[m.n].said, results, data)
              /\ calls'[m.n].svc = "read" => results # <<>>
              /\ C[m.n] = BodyOf(calls'[m.n].svc, calls'[m.n].items, results)
        BY <2>1, <4>1, <4>2, <4>4
      <4> QED
        BY <4>3, <4>5 DEF Bodied
    <3> HIDE DEF body
    <3>3. PICK t : /\ t = Sending(m, body) /\ Transferring(t) /\ t.svc = m.svc /\ t.id = m.id
                   /\ t.body = body /\ t.sent = 0 /\ t.block = 0 /\ t.kind = "sending"
      BY <2>5, SendingFacts
    <3>4. t.sent = t.block * Fragment /\ t.sent <= Len(t.body)
      <4>1. Fragment \in Nat /\ Len(t.body) \in Nat
        BY <2>5, <3>3, BoundsAssumption
      <4> QED
        BY <3>3, <4>1
    <3>5. Carries(t, C, m.n)'
      BY <2>1, <3>1, <3>2, <3>3, <3>4 DEF Carries
    <3>6. SendNextBlock(m, t)
      BY <2>5, <3>3
    <3>7. /\ \E block : /\ Replying(m, {block}) /\ block.form = "block" /\ block.id = t.id
                        /\ Belongs(block, C, m.n)'
          /\ transfer'.kind = "sending" =>
               Carries(transfer, C, m.n)' /\ transfer'.id = t.id /\ transfer'.svc = t.svc
      BY <3>3, <3>4, <3>5, <3>6, BlockSent, ZenonT(40)
    <3>8. PICK block : /\ Replying(m, {block}) /\ block.form = "block" /\ block.id = t.id
                       /\ Belongs(block, C, m.n)'
      BY <3>7
    <3>9. m.svc # "unconfirmed"
      BY <2>5
    <3>10. TransferInv(C)'
      <4>1. ~caller.impatient => Mine(m.n)'
        BY <1>3, <1>6, <3>9
      <4>2. transfer'.kind = "sending" /\ caller.impatient =>
              transfer'.id = m.n % IdMod /\ transfer'.svc = "get"
        BY <1>3, <2>5, <3>3, <3>7
      <4> QED
        BY <1>1, <1>5, <3>7, <4>1, <4>2 DEF TransferInv
    <3>11. /\ ResponsesInv(C)' /\ OpInv(C)' /\ RequestsInv' /\ CallerInv' /\ DoneInv'
           /\ CallsInv'
      <4>1. Heard(B, C, m)
        BY <1>1, <2>1, <3>1 DEF Heard
      <4>2. Fitting({block}, C)
        BY <1>1, <1>3, <3>3, <3>8, <3>9 DEF Fitting
      <4> QED
        BY <1>2, <3>8, <4>1, <4>2, Served
    <3> QED
      BY <3>1, <3>10, <3>11 DEF OwnInv, BookInv
  <2> QED
    BY <1>8, <2>3, <2>4, <2>5 DEF Ended
<1> QED
  BY <1>4, <1>7, <1>8

\* A request is handled.
LEMMA HandleStory ==
  ASSUME Inv, TypeInv, OwnInv, ReadInv, Handle
  PROVE  OwnInv'
<1>1. PICK m \in requests : HandleList(m) \/ HandleNext(m)
  BY DEF Handle, HandleGetWithList, HandleActionWithList, HandleAccess, HandleRead, HandleWrite
<1> QED
  BY <1>1, ListStory, NextStory

\* Nothing has been asked or told at first.
LEMMA InitOwn == Init => OwnInv
<1> SUFFICES ASSUME Init PROVE OwnInv
  OBVIOUS
<1>1. /\ caller \in Callers /\ invokeId = 0 /\ op = NoOp /\ started = 0 /\ done = NoOp
      /\ transfer = Idle /\ calls = [n \in 1 .. Requests |-> NoCalls]
      /\ requests = {} /\ responses = {}
  BY DEF Init
<1>2. BookInv
  <2> DEFINE B == [n \in 1 .. Requests |-> <<>>]
  <2>1. B \in [1 .. Requests -> Seq(Tokens)]
    OBVIOUS
  <2> HIDE DEF B
  <2>2. TransferInv(B) /\ ResponsesInv(B) /\ OpInv(B)
    BY <1>1 DEF TransferInv, ResponsesInv, OpInv, Idle
  <2> QED
    BY <2>1, <2>2 DEF BookInv
<1>3. CallerInv
  <2>1. 0 % IdMod = 0
    BY BoundsAssumption
  <2> QED
    BY <1>1, <2>1 DEF CallerInv
<1>4. RequestsInv /\ DoneInv /\ CallsInv
  BY <1>1 DEF RequestsInv, DoneInv, EachItsOwn, CallsInv
<1> QED
  BY <1>2, <1>3, <1>4 DEF OwnInv

\* Steps that leave everything alone.
LEMMA StutterOwn ==
  ASSUME OwnInv, UNCHANGED vars
  PROVE  OwnInv'
<1>1. /\ UNCHANGED <<agreed, caller, invokeId, outstanding, op, started, done, transfer, calls, requests,
                     responses>>
  BY DEF vars, fixed, clientVars
<1>2. PICK B \in [1 .. Requests -> Seq(Tokens)] :
        TransferInv(B) /\ ResponsesInv(B) /\ OpInv(B)
  BY DEF OwnInv, BookInv
<1>3. \A n : Mine(n)' <=> Mine(n)
  BY <1>1 DEF Mine
<1>4. Asked' <=> Asked
  BY <1>1 DEF Asked
<1>5. /\ \A n, x : Belongs(x, B, n) => Belongs(x, B, n)'
      /\ \A n, t : Carries(t, B, n) => Carries(t, B, n)'
  BY <1>1, BelongsKept, KeptSame
<1>6. TransferInv(B)'
  BY <1>1, <1>2, <1>3, <1>4, <1>5 DEF TransferInv
<1>7. ResponsesInv(B)'
  BY <1>1, <1>2, <1>3, <1>5 DEF ResponsesInv
<1>8. OpInv(B)'
  BY <1>1, <1>2 DEF OpInv
<1>9. RequestsInv' /\ CallerInv' /\ CallsInv'
  BY <1>1, <1>3 DEF RequestsInv, CallerInv, CallsInv, OwnInv
<1>10. DoneInv'
  BY <1>1, DoneKept, KeptSame DEF OwnInv
<1> QED
  BY <1>2, <1>6, <1>7, <1>8, <1>9, <1>10 DEF OwnInv, BookInv

\* Every step keeps the book.
LEMMA NextOwn == Steady /\ Inv /\ Inv' /\ TypeInv /\ OwnInv /\ ReadInv /\ [Next]_vars => OwnInv'
<1> SUFFICES ASSUME Steady, Inv, Inv', TypeInv, OwnInv, ReadInv, [Next]_vars PROVE OwnInv'
  OBVIOUS
<1>1. ASSUME NEW svc \in Services, Ask(svc) PROVE OwnInv'
  BY <1>1, AskStory
<1>2. CASE \/ GetRequestWithList \/ ActionRequestWithList \/ AccessRequest
           \/ ReadRequest \/ WriteRequest \/ UnconfirmedWriteRequest
  BY <1>1, <1>2 DEF GetRequestWithList, ActionRequestWithList, AccessRequest, ReadRequest,
     WriteRequest, UnconfirmedWriteRequest, Services
<1>3. CASE NextBlockRequest
  BY <1>3, NextBlockStory
<1>4. CASE HandleResponse
  BY <1>4, ResponseStory
<1>5. CASE Abandon
  BY <1>5, AbandonStory
<1>6. CASE Handle
  BY <1>6, HandleStory
<1>7. CASE UNCHANGED vars
  BY <1>7, StutterOwn
<1> QED
  BY <1>2, <1>3, <1>4, <1>5, <1>6, <1>7 DEF Next

\* Entry i of an answer is what became of item i of that very invocation, whatever a failing
\* store wrote before, however the list was cut into blocks, and whatever came late: for every
\* caller that waits, and for one that does not and uses the services whose answers carry the
\* invoke id handle_response compares.  Only a Read whose results cannot be delivered is
\* answered otherwise, by read_error's single failure.
THEOREM AnswersAreTheirOwn ==
  ASSUME Steady
  PROVE  Spec => []EachItsOwn
<1> DEFINE IInv == Inv /\ TypeInv /\ OwnInv /\ ReadInv
<1>1. Init => IInv
  BY InitInv, InitTypes, InitOwn, InitReads
<1>2. IInv /\ [Next]_vars => IInv'
  <2> SUFFICES ASSUME IInv, [Next]_vars PROVE IInv'
    OBVIOUS
  <2>1. Inv' /\ TypeInv'
    BY NextInv, NextTypes
  <2>2. OwnInv'
    BY <2>1, NextOwn
  <2>3. ReadInv'
    BY NextReadInv DEF OwnInv
  <2> QED
    BY <2>1, <2>2, <2>3
<1>3. IInv => EachItsOwn
  BY DEF OwnInv, DoneInv
<1> QED
  BY <1>1, <1>2, <1>3, PTL DEF Spec
=============================================================================
