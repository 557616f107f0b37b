------------------------------ MODULE Services ------------------------------
(***************************************************************************)
(* The GET, SET and ACTION services inside an open association: a          *)
(* ClientSession with the caller that drives it (src/client/session.rs)    *)
(* and a Server with its one Transfer and its one response buffer          *)
(* (src/server/mod.rs), over a link that delays, reorders or loses (never  *)
(* delivers) messages, and duplicates them too if Duplicating says so: the *)
(* wrapper over UDP is such a link.                                        *)
(*                                                                         *)
(* A value is a sequence of pieces; a fragment is one piece, so a value of *)
(* more than one piece needs block transfer.  A piece knows which object   *)
(* it belongs to, which writing of that object it comes from (its tag) and *)
(* its place in the value: a spliced value is visible in the model though  *)
(* neither program can see it.  Selectors and attribute lists, which the   *)
(* server keeps at the front of the same buffer, are pieces at place 0.    *)
(***************************************************************************)
EXTENDS Integers, Sequences, SequencesExt

CONSTANTS
  Objects,      \* attributes of the meter's store
  Methods,      \* methods of the meter's store
  Lists,        \* the attribute lists the caller writes in one request
  Writable,     \* the objects whose access rights admit a write
  Sizes,        \* how many pieces a value may have
  Buffer,       \* N: how many pieces the server's response buffer holds
  BlocksAgreed, \* whether block transfer may be in the negotiated conformance
  IdMod,        \* invoke ids are counted modulo this (16)
  Requests,     \* bound: invocations the caller makes
  Updates,      \* bound: times the meter changes an attribute by itself
  Duplicating,  \* whether the link delivers a message more than once
  Callers       \* the callers there may be: whether one gives up on an invocation,
                \* and in which services' transfers it reads something else between blocks

ASSUME BoundsAssumption ==
  /\ Sizes \subseteq Nat \ {0} /\ Buffer \in Nat \ {0}
  /\ IdMod \in Nat \ {0} /\ Requests \in Nat /\ Updates \in Nat
ASSUME ObjectsAssumption ==
  /\ Writable \subseteq Objects /\ Objects \cap Methods = {}
  /\ \A list \in Lists : /\ list \in Seq(Objects) /\ IsInjective(list)
                         /\ Len(list) \in 2 .. Buffer
ASSUME FlagsAssumption ==
  /\ Duplicating \in BOOLEAN
  /\ BlocksAgreed \subseteq BOOLEAN
  /\ Callers \subseteq [impatient : BOOLEAN, interleaving : SUBSET {"get", "set", "action"}]

VARIABLES
  agreed,      \* whether block transfer was negotiated
  caller,      \* which of Callers it is
  invokeId,    \* ClientSession.invoke_id
  outstanding, \* ClientSession.outstanding
  op,          \* the caller's invocation, with its BlockSender and BlockCollector
  transfer,    \* Server.transfer
  response,    \* Server.response
  versions,    \* the values each object has had, the store's current one last
  updated,     \* how often the meter has changed an attribute by itself
  performed,   \* history: the writes and method calls the store has carried out, and
               \* what a method returned
  asked,       \* history: the writes and method calls the caller has asked for
  started,     \* how many invocations the caller has made
  done,        \* history: the last invocation that was answered, and its answer
  requests,    \* the link, client to server
  responses    \* the link, server to client

clientVars == <<invokeId, outstanding, op, started, asked, done>>
storeVars == <<versions, updated, performed>>
serverVars == <<transfer, response, storeVars>>
fixed == <<agreed, caller>>
vars == <<fixed, clientVars, serverVars, requests, responses>>

NoId == 0 - 1
NoPiece == [of |-> "nothing", tag |-> 0, at |-> 0]
Idle == [kind |-> "idle"]
NoOp == [svc |-> "none"]

Piece(o, t, i) == [of |-> o, tag |-> t, at |-> i]

\* The encoding of writing t of object o, n pieces long.
Value(o, t, n) == [i \in 1 .. n |-> Piece(o, t, i)]

\* The attribute list of a batched write, and the value list that goes with it.
Names(list, t) == [i \in DOMAIN list |-> Piece(list[i], t, 0)]
ValueList(list, t) == [i \in DOMAIN list |-> Piece(list[i], t, 1)]

\* Which bytes are whose: one attribute takes them all, a list one value each.
Values(target, bytes) ==
  IF Len(target) = 1 THEN <<bytes>> ELSE [i \in DOMAIN target |-> <<bytes[i]>>]

\* One operation on the store: on what, with which selector or list, and what value.
Operations(target, header, bytes) ==
  {[of |-> target[i], header |-> header, value |-> Values(target, bytes)[i]] :
     i \in DOMAIN target}

Current(o) == Last(versions[o])

Init ==
  /\ agreed \in BlocksAgreed /\ caller \in Callers
  /\ invokeId = 0 /\ outstanding = NoId
  /\ op = NoOp /\ started = 0 /\ asked = {} /\ done = NoOp
  /\ transfer = Idle
  /\ response = [i \in 1 .. Buffer |-> NoPiece]
  /\ \E size \in [Objects -> Sizes] :
       versions = [o \in Objects |-> <<Value(o, 0, size[o])>>]
  /\ updated = 0 /\ performed = {}
  /\ requests = {} /\ responses = {}

-----------------------------------------------------------------------------
(* The client session and its caller. *)

\* Mutant: the four-bit mask is forgotten.
NextInvokeIdUnmasked == invokeId + 1

\* next_invoke_id.
NextInvokeId == (invokeId + 1) % IdMod

\* The tag of what the next invocation writes.
Tag == started + 1

\* An invocation before anything of it is sent.
Op(svc, target, header, bytes) ==
  [n |-> Tag, svc |-> svc, target |-> target, header |-> header, bytes |-> bytes,
   sent |-> 0, block |-> 0, lastBlock |-> 0, got |-> <<>>, ok |-> FALSE,
   ready |-> FALSE, aside |-> FALSE, since |-> IF svc = "get" THEN Len(versions[target[1]]) ELSE 0]

\* A request under a fresh invoke id.
Invoke(newOp, message) ==
  /\ op = NoOp
  /\ started < Requests
  /\ started' = started + 1
  /\ invokeId' = NextInvokeId
  /\ outstanding' = NextInvokeId
  /\ op' = newOp
  /\ asked' = IF newOp.svc = "get" THEN asked
              ELSE asked \union Operations(newOp.target, newOp.header, newOp.bytes)
  /\ requests' = requests \union {message}
  /\ UNCHANGED <<fixed, done, serverVars, responses>>

\* get_request.
GetRequest ==
  \E o \in Objects :
    Invoke(Op("get", <<o>>, <<>>, <<>>),
           [svc |-> "get", form |-> "normal", id |-> NextInvokeId, target |-> <<o>>])

\* set_request, set_request_with_list and action_request: the value goes whole.
WholeRequest(svc, target, header, bytes) ==
  Invoke([Op(svc, target, header, bytes) EXCEPT !.sent = Len(bytes), !.block = 1],
         [svc |-> svc, form |-> "normal", id |-> NextInvokeId, target |-> target,
          header |-> header, data |-> bytes])

\* next_block_request: the block a BlockSender gives next.
BlockEnd(sender) ==
  IF sender.sent + 1 < Len(sender.bytes) THEN sender.sent + 1 ELSE Len(sender.bytes)

\* Mutant: blocks are numbered from zero.
NextBlockFromZero(sender) ==
  [number |-> sender.block, last |-> BlockEnd(sender) = Len(sender.bytes),
   data |-> SubSeq(sender.bytes, sender.sent + 1, BlockEnd(sender))]

NextBlock(sender) ==
  [number |-> sender.block + 1, last |-> BlockEnd(sender) = Len(sender.bytes),
   data |-> SubSeq(sender.bytes, sender.sent + 1, BlockEnd(sender))]

AfterNextBlock(sender) ==
  [sender EXCEPT !.sent = BlockEnd(sender), !.block = @ + 1, !.ready = FALSE]

\* set_transfer, set_transfer_with_list or action_transfer, and the first block.
FirstBlockRequest(svc, target, header, bytes) ==
  /\ agreed
  /\ LET sender == Op(svc, target, header, bytes)
     IN  Invoke(AfterNextBlock(sender),
                [svc |-> svc, form |-> "first", id |-> NextInvokeId, target |-> target,
                 header |-> header, block |-> NextBlock(sender)])

\* A value of one piece is sent whole, a longer one in blocks.
ValueRequest(svc, target, header, bytes) ==
  IF Len(bytes) = 1 THEN WholeRequest(svc, target, header, bytes)
                    ELSE FirstBlockRequest(svc, target, header, bytes)

SetRequest ==
  \E o \in Objects, n \in Sizes :
    \E header \in {<<>>, <<Piece(o, Tag, 0)>>} :
      ValueRequest("set", <<o>>, header, Value(o, Tag, n))

SetListRequest ==
  \E list \in Lists :
    \/ WholeRequest("set", list, Names(list, Tag), ValueList(list, Tag))
    \/ FirstBlockRequest("set", list, Names(list, Tag), ValueList(list, Tag))

ActionRequest ==
  \E m \in Methods, n \in Sizes : ValueRequest("action", <<m>>, <<>>, Value(m, Tag, n))

\* BlockSender::is_done.
SenderDone(sender) == sender.block > 0 /\ sender.sent >= Len(sender.bytes)

Continue(message) ==
  /\ requests' = requests \union {message}
  /\ UNCHANGED <<fixed, invokeId, outstanding, started, asked, done, serverVars, responses>>

\* next_block_request after the first block.
NextBlockRequest ==
  /\ op # NoOp
  /\ op.ready
  /\ op.block > 0
  /\ ~SenderDone(op)
  /\ op' = AfterNextBlock(op)
  /\ Continue([svc |-> op.svc, form |-> "block", id |-> outstanding,
               block |-> NextBlock(op)])

\* get_next_block_request and action_next_block_request.
NextResultRequest ==
  /\ op # NoOp
  /\ op.ready
  /\ op.lastBlock > 0
  /\ op' = [op EXCEPT !.ready = FALSE]
  /\ Continue([svc |-> op.svc, form |-> "next", id |-> outstanding,
               number |-> op.lastBlock])

\* Mutant: any response is taken for the answer.
AnswersAnything(m) == TRUE

\* handle_response: the invoke id of the response is that of the last request.
Answers(m) == outstanding = NoId \/ m.id = outstanding

Finish(ok, answer) == done' = [op EXCEPT !.ok = ok, !.got = answer] /\ op' = NoOp
GiveUp == op' = NoOp /\ UNCHANGED done

\* BlockCollector::push; an error from it makes the caller give up.
Push(m) ==
  IF m.number # op.lastBlock + 1 THEN GiveUp
  ELSE IF m.last THEN Finish(TRUE, op.got \o m.data)
  ELSE /\ op' = [op EXCEPT !.got = @ \o m.data, !.lastBlock = m.number, !.ready = TRUE]
       /\ UNCHANGED done

\* What the caller does with the Response that handle_response makes of m.
UseResponse(m) ==
  IF op.aside THEN op' = [op EXCEPT !.aside = FALSE, !.ready = TRUE] /\ UNCHANGED done
  ELSE CASE m.form = "block" /\ op.svc # "set" -> Push(m)
         [] m.form = "accepted" /\ ~SenderDone(op) ->
              op' = [op EXCEPT !.ready = TRUE] /\ UNCHANGED done
         [] m.form = "result" /\ m.svc = op.svc -> Finish(TRUE, m.data)
         [] m.form = "error" -> Finish(FALSE, <<>>)
         [] OTHER -> GiveUp

HandleResponse ==
  \E m \in responses :
    /\ responses' = IF Duplicating THEN responses ELSE responses \ {m}
    /\ IF op = NoOp \/ ~Answers(m) THEN UNCHANGED <<op, done>> ELSE UseResponse(m)
    /\ UNCHANGED <<fixed, invokeId, outstanding, started, asked, serverVars, requests>>

\* The caller's own timeout: it stops waiting and is free to ask something else.
Abandon ==
  /\ caller.impatient
  /\ op # NoOp
  /\ GiveUp
  /\ UNCHANGED <<fixed, invokeId, outstanding, started, asked, serverVars, requests,
                 responses>>

\* get_request between two blocks of a transfer: the caller reads something else,
\* uses the first answer to that, and then goes on with the transfer.
Interject ==
  /\ op # NoOp
  /\ op.svc \in caller.interleaving
  /\ op.ready
  /\ started < Requests
  /\ started' = started + 1
  /\ invokeId' = NextInvokeId
  /\ outstanding' = NextInvokeId
  /\ op' = [op EXCEPT !.ready = FALSE, !.aside = TRUE]
  /\ \E o \in Objects :
       requests' = requests \union
         {[svc |-> "get", form |-> "normal", id |-> NextInvokeId, target |-> <<o>>]}
  /\ UNCHANGED <<fixed, asked, done, serverVars, responses>>

-----------------------------------------------------------------------------
(* The server: each handler takes one request and answers it. *)

Answer(m, reply) ==
  /\ requests' = IF Duplicating THEN requests ELSE requests \ {m}
  /\ responses' = responses \union {reply}
  /\ UNCHANGED <<fixed, clientVars, updated>>

ErrorReply(m) == [svc |-> m.svc, id |-> m.id, form |-> "error"]
ResultReply(m, data) == [svc |-> m.svc, id |-> m.id, form |-> "result", data |-> data]

\* The response buffer with data put in after the first at pieces.
Put(buffer, at, data) ==
  [i \in 1 .. Buffer |-> IF i - at \in DOMAIN data THEN data[i - at] ELSE buffer[i]]

FragmentEnd(t) == IF t.sent + 1 < t.len THEN t.sent + 1 ELSE t.len

\* send_next_block.
SendNextBlock(m, t, buffer) ==
  /\ response' = buffer
  /\ transfer' = IF FragmentEnd(t) = t.len THEN Idle
                 ELSE [t EXCEPT !.sent = FragmentEnd(t), !.block = @ + 1]
  /\ Answer(m, [svc |-> t.svc, id |-> t.id, form |-> "block", number |-> t.block + 1,
                last |-> FragmentEnd(t) = t.len,
                data |-> SubSeq(buffer, t.sent + 1, FragmentEnd(t))])

\* The end of handle_get and of answer_method: one APDU, the first of a run of
\* blocks, or an error when block transfer was not agreed or the value is too long.
Deliver(m, body, buffer) ==
  IF Len(body) > 1 /\ agreed /\ Len(body) <= Buffer
    THEN SendNextBlock(m, [kind |-> "sending", id |-> m.id, svc |-> m.svc,
                           len |-> Len(body), sent |-> 0, block |-> 0],
                       Put(buffer, 0, body))
    ELSE /\ transfer' = Idle
         /\ response' = buffer
         /\ Answer(m, IF Len(body) > 1 THEN ErrorReply(m) ELSE ResultReply(m, body))

\* handle_get, get-request-normal.
HandleGet(m) ==
  /\ m.svc = "get" /\ m.form = "normal"
  /\ Deliver(m, Current(m.target[1]), response)
  /\ UNCHANGED <<versions, performed>>

Sending(svc) == transfer.kind = "sending" /\ transfer.svc = svc

\* The acknowledgement names the block last sent, under the transfer's id.
NamesLastBlock(m) == m.id = transfer.id /\ m.number = transfer.block

\* handle_get_next and handle_action_next.
HandleNext(m) ==
  /\ m.form = "next"
  /\ IF Sending(m.svc) /\ NamesLastBlock(m)
       THEN SendNextBlock(m, transfer, response)
       ELSE /\ transfer' = IF Sending(m.svc) THEN Idle ELSE transfer
            /\ UNCHANGED response
            /\ Answer(m, ErrorReply(m))
  /\ UNCHANGED <<versions, performed>>

\* write_one for every attribute of the target: rights are per attribute.
WriteAll(target, header, bytes) ==
  LET writes == {w \in Operations(target, header, bytes) : w.of \in Writable}
      To(o) == {w \in writes : w.of = o}
  IN  /\ performed' = performed \union {[did |-> w, result |-> <<>>] : w \in writes}
      /\ versions' = [o \in Objects |->
           IF To(o) = {} THEN versions[o]
           ELSE Append(versions[o], (CHOOSE w \in To(o) : TRUE).value)]

\* Mutant: every write is reported a success.
ResultsAllGood(target) == [i \in DOMAIN target |-> TRUE]

\* The result of each write: success, or read-write-denied.
Results(target) == [i \in DOMAIN target |-> target[i] \in Writable]

\* handle_set, set-request-normal, and handle_set_with_list.
HandleSet(m) ==
  /\ m.svc = "set" /\ m.form = "normal"
  /\ transfer' = Idle
  /\ WriteAll(m.target, m.header, m.data)
  /\ Answer(m, ResultReply(m, Results(m.target)))
  /\ UNCHANGED response

\* run_method and answer_method: the store fails, returns nothing, or a value.
InvokeMethod(m, method, parameter, buffer) ==
  \E n \in {0 - 1, 0} \union Sizes :
    LET result == IF n < 0 THEN <<>> ELSE Value(method, Cardinality(performed) + 1, n)
    IN  /\ performed' = performed \union
             {[did |-> [of |-> method, header |-> <<>>, value |-> parameter],
               result |-> result]}
        /\ UNCHANGED versions
        /\ IF n < 0 THEN /\ transfer' = Idle
                         /\ response' = buffer
                         /\ Answer(m, ErrorReply(m))
                    ELSE Deliver(m, result, buffer)

\* handle_action, action-request-normal.
HandleAction(m) ==
  /\ m.svc = "action" /\ m.form = "normal"
  /\ InvokeMethod(m, m.target[1], m.data, response)

\* Mutant: the number of a block is checked, its invoke id is not.
InOrderAnyId(m, t) == m.block.number = t.block + 1

\* Blocks arrive in order under the invoke id the transfer opened with.
InOrder(m, t) == m.id = t.id /\ m.block.number = t.block + 1

\* The last block has arrived: the header and the value are decoded from the
\* buffer.  finish_blocked_list_set takes the attribute list from there as well.
Complete(m, t, buffer, end) ==
  LET header == SubSeq(buffer, 1, t.headerEnd)
      value == SubSeq(buffer, t.headerEnd + 1, end)
      target == IF t.list THEN [i \in DOMAIN header |-> header[i].of] ELSE t.target
  IN  IF t.svc = "action"
        THEN InvokeMethod(m, target[1], value, buffer)
        ELSE /\ transfer' = Idle
             /\ response' = buffer
             /\ WriteAll(target, header, value)
             /\ Answer(m, ResultReply(m, Results(target)))

\* continue_blocked_set and continue_blocked_action, from their second check on.
TakeBlock(m, t, buffer) ==
  LET at == t.headerEnd + t.len
      end == at + Len(m.block.data)
  IN  IF ~InOrder(m, t) \/ end > Buffer THEN
        /\ transfer' = Idle
        /\ response' = buffer
        /\ Answer(m, ErrorReply(m))
        /\ UNCHANGED <<versions, performed>>
      ELSE IF ~m.block.last THEN
        /\ transfer' = [t EXCEPT !.len = @ + Len(m.block.data), !.block = m.block.number]
        /\ response' = Put(buffer, at, m.block.data)
        /\ Answer(m, [svc |-> m.svc, id |-> m.id, form |-> "accepted"])
        /\ UNCHANGED <<versions, performed>>
      ELSE Complete(m, t, Put(buffer, at, m.block.data), end)

\* begin_blocked_set, begin_blocked_list_set and action-request-with-first-pblock:
\* the rights to a single attribute are checked before anything is kept.
HandleFirstBlock(m) ==
  /\ m.form = "first"
  /\ IF m.svc = "set" /\ Len(m.target) = 1 /\ m.target[1] \notin Writable
       THEN /\ transfer' = Idle
            /\ UNCHANGED <<response, versions, performed>>
            /\ Answer(m, ResultReply(m, <<FALSE>>))
       ELSE TakeBlock(m, [kind |-> "receiving", svc |-> m.svc, id |-> m.id,
                          list |-> Len(m.target) > 1, target |-> m.target,
                          headerEnd |-> Len(m.header), len |-> 0, block |-> 0],
                      Put(response, 0, m.header))

\* The first check of continue_blocked_set and continue_blocked_action.
HandleBlock(m) ==
  /\ m.form = "block"
  /\ IF transfer.kind = "receiving" /\ transfer.svc = m.svc
       THEN TakeBlock(m, transfer, response)
       ELSE /\ Answer(m, ErrorReply(m))
            /\ UNCHANGED <<transfer, response, versions, performed>>

\* Server::handle, for a request of an open association.
Handle ==
  \E m \in requests :
    \/ HandleGet(m)
    \/ HandleNext(m)
    \/ HandleSet(m)
    \/ HandleAction(m)
    \/ HandleFirstBlock(m)
    \/ HandleBlock(m)

\* The meter changes an attribute by itself, between two requests.
MeterUpdates ==
  /\ updated < Updates
  /\ updated' = updated + 1
  /\ \E o \in Objects, n \in Sizes :
       versions' = [versions EXCEPT ![o] = Append(@, Value(o, Requests + updated + 1, n))]
  /\ UNCHANGED <<fixed, clientVars, transfer, response, performed, requests, responses>>

-----------------------------------------------------------------------------
Next ==
  \/ GetRequest
  \/ SetRequest
  \/ SetListRequest
  \/ ActionRequest
  \/ NextBlockRequest
  \/ NextResultRequest
  \/ HandleResponse
  \/ Abandon
  \/ Interject
  \/ Handle
  \/ MeterUpdates

Spec == Init /\ [][Next]_vars

\* Both ends serve what reaches them, and a caller that has been told to go on does.
FairSpec ==
  /\ Spec
  /\ WF_vars(Handle)
  /\ WF_vars(HandleResponse)
  /\ WF_vars(NextBlockRequest)
  /\ WF_vars(NextResultRequest)

-----------------------------------------------------------------------------
Pieces == [of : Objects \union Methods, tag : Nat, at : Nat]

\* Types; the four-bit invoke id stays in its range and a transfer inside the buffer.
TypeOK ==
  /\ agreed \in BlocksAgreed /\ caller \in Callers
  /\ invokeId \in 0 .. IdMod - 1
  /\ outstanding \in {NoId} \union 0 .. IdMod - 1
  /\ op = NoOp \/ (op.sent <= Len(op.bytes) /\ op.got \in Seq(Pieces))
  /\ transfer.kind \in {"idle", "sending", "receiving"}
  /\ transfer.kind = "sending" => transfer.sent < transfer.len /\ transfer.len <= Buffer
  /\ transfer.kind = "receiving" => transfer.headerEnd + transfer.len <= Buffer
  /\ response \in [1 .. Buffer -> Pieces \union {NoPiece}]
  /\ \A o \in Objects : versions[o] \in Seq(Seq(Pieces)) /\ versions[o] # <<>>

\* Every write and every method call the store carries out is one the caller asked
\* for, whole: the attribute, the selector or attribute list, and every byte of the
\* value come from one invocation, whatever else was in the shared buffer, and
\* whatever arrived late.  ("A fragment concatenated in the wrong place usually
\* still decodes, into a value that is simply wrong - and this one is a write.")
PerformedAsAsked == \A p \in performed : p.did \in asked

\* A read that completes gives one value the attribute really had, at a moment
\* after the read was asked for: never parts of two, though the attribute may
\* change and other requests may reach the server between the blocks.
ReadIntact ==
  (done.svc = "get" /\ done.ok) =>
    \E k \in done.since .. Len(versions[done.target[1]]) :
      done.got = versions[done.target[1]][k]

\* What the client is told of a write or of a method call is what became of that
\* one: a reported success was performed, a refused write was not, and a method's
\* result is the one its own invocation returned.
AnswersMatch ==
  (done.svc \in {"set", "action"} /\ done.ok) =>
    \A i \in DOMAIN done.target :
      LET mine == {p \in performed :
                     /\ p.did.of = done.target[i]
                     /\ p.did.value = Values(done.target, done.bytes)[i]}
      IN  IF done.svc = "set" THEN done.got[i] = (mine # {})
          ELSE \E p \in mine : p.result = done.got

\* What the server can do: a read if blocks were agreed, a write that fits its buffer.
Feasible(o) ==
  \/ o.svc = "get" /\ agreed
  \/ o.svc = "set" /\ Len(o.header) + Len(o.bytes) <= Buffer

\* On a link that loses nothing, a caller that waits and does one thing at a time
\* has every invocation answered, and every feasible one without an error.
Answered ==
  \A n \in 1 .. Requests :
    (~caller.impatient /\ caller.interleaving = {} /\ op # NoOp /\ op.n = n) ~>
      (done # NoOp /\ done.n = n /\ (Feasible(done) => done.ok))
=============================================================================
