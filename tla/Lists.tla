-------------------------------- MODULE Lists -------------------------------
(***************************************************************************)
(* The services that ask for several things at once, inside an open        *)
(* association: GET and ACTION with a list, ACCESS, and the short-name     *)
(* Read, Write and unconfirmed Write.  A ClientSession with its caller     *)
(* (src/client/session.rs), the Server's list handlers                     *)
(* (src/server/mod.rs) over the host's ObjectStore, and the lists as they  *)
(* are laid out on the wire (src/xdlms/result.rs, access.rs, sn.rs): a     *)
(* count, and that many elements one after the other with nothing between  *)
(* them, so that which element is whose is a matter of counting.           *)
(*                                                                         *)
(* A list's encoding is a sequence of tokens: the choice or outcome bytes, *)
(* and the pieces of a value.  A value piece knows which invocation and    *)
(* which item of it the store wrote it for; the programs do not.           *)
(***************************************************************************)
EXTENDS Integers, Sequences, FiniteSets

CONSTANTS
  Batches,     \* what the caller may ask for: [svc, items], an item is [kind, name]
  Denied,      \* the names the association has no rights to
  Unknown,     \* short names that address nothing
  Sizes,       \* how many pieces a value may have
  Buffer,      \* N: tokens the server's buffers hold
  Pdu,         \* tokens of a list the client's receive size admits
  Fragment,    \* tokens in a block
  MaxItems,    \* MAX_ACCESS_ITEMS
  Agreements,  \* whether block transfer may be in the negotiated conformance
  IdMod,       \* invoke ids are counted modulo this (16)
  Requests,    \* bound: invocations the caller makes
  Callers      \* the callers there may be: whether one gives up while something of
               \* its invocation is still under way, and which services it uses

ASSUME BoundsAssumption ==
  /\ Sizes \subseteq Nat \ {0} /\ Agreements \subseteq BOOLEAN
  /\ {Buffer, Pdu, Fragment, MaxItems, IdMod} \subseteq Nat \ {0} /\ Requests \in Nat
ASSUME BatchesAssumption ==
  \A b \in Batches : /\ b.svc \in {"get", "action", "access", "read", "write", "unconfirmed"}
                     /\ b.items \in Seq({b.items[k] : k \in DOMAIN b.items}) /\ b.items # <<>>

VARIABLES
  agreed,      \* whether block transfer was negotiated
  caller,      \* which of Callers it is
  invokeId,    \* ClientSession.invoke_id
  outstanding, \* ClientSession.outstanding
  op,          \* the caller's invocation, with its BlockCollector
  started,     \* how many invocations the caller has made
  done,        \* history: the last invocation that was answered, and its answer
  transfer,    \* Server.transfer, with what it sends of Server.response
  calls,       \* history: what the store said of each item of each invocation, and
               \* how long the results were
  requests,    \* the link, client to server
  responses    \* the link, server to client

clientVars == <<invokeId, outstanding, op, started, done>>
fixed == <<agreed, caller>>
vars == <<fixed, clientVars, transfer, calls, requests, responses>>

NoId == 0 - 1
NoOp == [svc |-> "none"]
Idle == [kind |-> "idle"]
NoCalls == [svc |-> "none", items |-> <<>>, said |-> <<>>, size |-> 0]

Init ==
  /\ agreed \in Agreements /\ caller \in Callers
  /\ invokeId = 0 /\ outstanding = NoId
  /\ op = NoOp /\ started = 0 /\ done = NoOp
  /\ transfer = Idle
  /\ calls = [n \in 1 .. Requests |-> NoCalls]
  /\ requests = {} /\ responses = {}

-----------------------------------------------------------------------------
(* Lists on the wire. *)

Mark(what) == [what |-> what, of |-> <<0, 0>>, size |-> 0, at |-> 0]
Ok == Mark("ok")         \* the choice or result byte before a value
Done == Mark("done")     \* success, and no value follows
Failed == Mark("failed") \* the choice byte of an error, and the error
Null == [what |-> "null", of |-> <<0, 0>>, size |-> 1, at |-> 1]
Count(n) == [Mark("count") EXCEPT !.size = n]

\* The value the store wrote for item i of invocation n.
Value(n, i, size) ==
  [k \in 1 .. size |-> [what |-> "value", of |-> <<n, i>>, size |-> size, at |-> k]]

\* What starts at a token: an element of a result list (an Ok byte and its value are
\* one), or a bare value.
Begins(tokens) ==
  {p \in DOMAIN tokens : tokens[p].at <= 1 /\ (p > 1 => tokens[p - 1] # Ok)}

Begin(tokens, k) ==
  CHOOSE p \in Begins(tokens) : Cardinality({q \in Begins(tokens) : q < p}) = k - 1

\* List::iter: the element at each position.
Elements(tokens, count) ==
  [k \in 1 .. count |->
     SubSeq(tokens, Begin(tokens, k),
            IF k = count THEN Len(tokens) ELSE Begin(tokens, k + 1) - 1)]

\* A value is decoded by its own length, and must be all there.
WholeValue(value) ==
  value # <<>> /\ Len(value) = value[1].size
  /\ \A k \in DOMAIN value : value[k] = [value[1] EXCEPT !.at = k]

WholeElement(element) ==
  \/ element \in {<<Done>>, <<Failed>>}
  \/ element[1] = Ok /\ WholeValue(Tail(element))
  \/ WholeValue(element)

\* List::decode: count elements, nothing missing, and nothing left over
\* (Decode::from_bytes).
Decodable(tokens, count) ==
  /\ Cardinality(Begins(tokens)) = count
  /\ \A k \in 1 .. count : WholeElement(Elements(tokens, count)[k])

-----------------------------------------------------------------------------
(* The host's object store. *)

Refusal == [ok |-> FALSE, returns |-> FALSE, size |-> 0]

\* ObjectStore: whether the store may be asked at all, and what it may say: that it
\* failed (having written something), that it did it, and how much it wrote.  A store
\* that claims a value and writes none has broken its contract, and the server says
\* that it checks.
Called(item) == item.kind # "other" /\ item.name \notin Denied \union Unknown

Says(item) ==
  IF ~Called(item) THEN {Refusal}
  ELSE {[ok |-> FALSE, returns |-> FALSE, size |-> 1]}
       \union (IF item.kind = "set" THEN {}
               ELSE {[ok |-> TRUE, returns |-> TRUE, size |-> s] : s \in Sizes \union {0}})
       \union (IF item.kind = "get" THEN {}
               ELSE {[ok |-> TRUE, returns |-> FALSE, size |-> 0]})

\* What it may say of the items of a list.
SaysAll(items) ==
  {says \in [DOMAIN items -> UNION {Says(items[i]) : i \in DOMAIN items}] :
     \A i \in DOMAIN items : says[i] \in Says(items[i])}

-----------------------------------------------------------------------------
(* The client session and its caller. *)

\* Mutant: the four-bit mask is forgotten.
NextInvokeIdUnmasked == invokeId + 1

NextInvokeId == (invokeId + 1) % IdMod

\* The id under which handle_response will look for the answer: next_invoke_id keeps
\* it; next_long_invoke_id and the short-name services, which have none, clear it.
Outstanding(svc) == IF svc \in {"get", "action"} THEN NextInvokeId ELSE NoId

\* get_request_with_list, action_request_with_list, access_request, read_request,
\* write_request.  The client bounds the number of items for ACTION and ACCESS only.
Ask(svc) ==
  /\ op = NoOp
  /\ svc \in caller.services
  /\ started < Requests
  /\ started' = started + 1
  /\ invokeId' = IF svc \in {"get", "action", "access"} THEN NextInvokeId ELSE invokeId
  /\ outstanding' = Outstanding(svc)
  /\ \E b \in Batches :
       /\ b.svc = svc
       /\ svc \in {"action", "access"} => Len(b.items) <= MaxItems
       /\ op' = IF svc = "unconfirmed" THEN NoOp
                ELSE [n |-> started + 1, svc |-> svc, items |-> b.items,
                      lastBlock |-> 0, got |-> <<>>, ready |-> FALSE]
       /\ requests' = requests \union
            {[n |-> started + 1, svc |-> svc, form |-> "list", id |-> Outstanding(svc),
              items |-> b.items]}
  /\ UNCHANGED <<fixed, done, transfer, calls, responses>>

GetRequestWithList == Ask("get")
ActionRequestWithList == Ask("action")
AccessRequest == Ask("access")
ReadRequest == Ask("read")
WriteRequest == Ask("write")
UnconfirmedWriteRequest == Ask("unconfirmed")

\* get_next_block_request and read_next_block_request.
NextBlockRequest ==
  /\ op # NoOp
  /\ op.ready
  /\ op' = [op EXCEPT !.ready = FALSE]
  /\ requests' = requests \union
       {[n |-> op.n, svc |-> op.svc, form |-> "next", id |-> outstanding,
         number |-> op.lastBlock]}
  /\ UNCHANGED <<fixed, invokeId, outstanding, started, done, transfer, calls, responses>>

\* Mutant: any response is taken for the answer.
AnswersAnything(m) == TRUE

\* handle_response: a response that carries a short invoke id (response_invoke_id)
\* is compared with the outstanding one; the long invoke id of ACCESS is not.
Answers(m) == outstanding = NoId \/ m.id = NoId \/ m.id = outstanding

Finish(form, results) ==
  /\ done' = [n |-> op.n, svc |-> op.svc, items |-> op.items, form |-> form,
              results |-> results]
  /\ op' = NoOp

GiveUp == op' = NoOp /\ UNCHANGED done

\* An answer in one APDU: a list of results, and in ACCESS a list of values before it.
TakeList(m) ==
  LET data == IF m.svc = "access" THEN Elements(m.data, m.count) ELSE <<>>
      results == Elements(m.results, m.count)
  IN  IF ~Decodable(m.results, m.count)
           \/ (m.svc = "access" /\ ~Decodable(m.data, m.count))
        THEN GiveUp
      ELSE Finish("list", [i \in 1 .. m.count |->
             IF m.svc = "access" THEN results[i] \o data[i] ELSE results[i]])

\* BlockCollector::push, and at the end BlockCollector::results or ::value.
TakeBlock(m) ==
  LET got == op.got \o m.data
      count == IF op.svc = "get" THEN got[1].size ELSE 1
      body == IF op.svc = "get" THEN Tail(got) ELSE got
  IN  IF m.number # op.lastBlock + 1 THEN GiveUp
      ELSE IF ~m.last THEN
        /\ op' = [op EXCEPT !.got = got, !.lastBlock = m.number, !.ready = TRUE]
        /\ UNCHANGED done
      ELSE IF ~Decodable(body, count) THEN GiveUp
      ELSE Finish("list", [i \in 1 .. count |->
             IF op.svc = "get" THEN Elements(body, count)[i] ELSE <<Ok>> \o body])

\* What the caller makes of a Response: one of another kind than it waits for ends
\* its invocation.  An exception names no request at all.
UseResponse(m) ==
  CASE m.form = "exception" -> Finish("refused", <<>>)
    [] m.form = "error" /\ m.svc = op.svc -> Finish("error", <<>>)
    [] m.form = "list" /\ m.svc = op.svc -> TakeList(m)
    [] m.form = "block" /\ m.svc = op.svc -> TakeBlock(m)
    [] OTHER -> GiveUp

HandleResponse ==
  \E m \in responses :
    /\ responses' = responses \ {m}
    /\ IF op = NoOp \/ ~Answers(m) THEN UNCHANGED <<op, done>> ELSE UseResponse(m)
    /\ UNCHANGED <<fixed, invokeId, outstanding, started, transfer, calls, requests>>

\* The caller's timeout: a patient caller's is longer than anything takes.
TimedOut == caller.impatient \/ (requests = {} /\ responses = {} /\ ~op.ready)

Abandon ==
  /\ op # NoOp
  /\ TimedOut
  /\ GiveUp
  /\ UNCHANGED <<fixed, invokeId, outstanding, started, transfer, calls, requests,
                 responses>>

-----------------------------------------------------------------------------
(* The server: the handlers take one request, call the store once per item, and
   lay the results out one after the other. *)

\* Where the store writes: into what is left of the list's buffer behind the choice
\* byte, or, for a method that is invoked by writing its short name, one byte.
Room(svc, list) ==
  CASE svc \in {"write", "unconfirmed"} -> 1
    [] svc = "access" -> Buffer - Len(list.data)
    [] OTHER -> Buffer - Len(list.results) - 1

\* A value that does not fit is an error the store gets from the writer and reports.
Fitted(said, room) ==
  IF said.size > room THEN [ok |-> FALSE, returns |-> FALSE, size |-> room] ELSE said

NothingWritten(c) == c.returns /\ c.size = 0

\* Mutant: what a failing store wrote is not taken back.
ResultOfUnrewound(svc, item, c, value) ==
  IF ~c.ok THEN <<Ok>> \o value \o <<Failed>>
  ELSE IF NothingWritten(c) THEN <<Failed>> ELSE IF c.returns THEN <<Ok>> \o value
  ELSE IF svc = "action" THEN <<Done>> ELSE <<Ok, Null>>

\* One entry of handle_get_with_list, handle_action_with_list and handle_read: the
\* choice byte and the value, or, rewound over both, the failure.
ResultOf(svc, item, c, value) ==
  IF ~c.ok \/ NothingWritten(c) THEN <<Failed>>
  ELSE IF c.returns THEN <<Ok>> \o value
  ELSE IF svc = "action" THEN <<Done>> ELSE <<Ok, Null>>

\* handle_access and access_one: what goes into the list of values.  A read that wrote
\* nothing is given null-data; a method that claims a value and wrote none is not.
AccessData(item, c, value) ==
  IF c.ok /\ c.returns /\ (item.kind = "get" => c.size > 0) THEN value ELSE <<Null>>

AccessOutcome(item, c) ==
  IF ~c.ok \/ (item.kind = "get" /\ c.size = 0) THEN <<Failed>> ELSE <<Done>>

\* One turn of a handler's loop, unless an earlier one found the buffer full.
Entry(svc, list, n, item, said) ==
  LET c == Fitted(said, Room(svc, list))
      value == Value(n, Len(list.said) + 1, c.size)
  IN  IF Room(svc, list) < 0 THEN list
      ELSE [said |-> Append(list.said, c),
            data |-> IF svc = "access" THEN list.data \o AccessData(item, c, value)
                     ELSE <<>>,
            results |-> list.results \o
              CASE svc = "access" -> AccessOutcome(item, c)
                [] svc \in {"write", "unconfirmed"} -> <<IF c.ok THEN Done ELSE Failed>>
                [] OTHER -> ResultOf(svc, item, c, value)]

\* The loop of every handler, over the items in order.
Loop(svc, n, items, says) ==
  LET list[k \in 0 .. Len(items)] ==
        IF k = 0 THEN [said |-> <<>>, data |-> <<>>, results |-> <<>>]
        ELSE CHOOSE longer \in {Entry(svc, shorter, n, items[k], says[k]) :
                                  shorter \in {list[k - 1]}} : TRUE
  IN  list[Len(items)]

Reply(m, replies) ==
  /\ requests' = requests \ {m}
  /\ responses' = responses \union replies
  /\ UNCHANGED <<fixed, clientVars>>


\* get_error: an answer of another kind than the list that was asked for.
GetError(m) == [svc |-> "get", id |-> m.id, form |-> "error"]

\* read_error: a Read has no such answer, and is given a list of one result, which is a
\* failure, however many entries it asked for.
ReadError(m) ==
  [svc |-> "read", id |-> NoId, form |-> "list", count |-> 1, data |-> <<>>, results |-> <<Failed>>]

ErrorReply(m) == IF m.svc = "read" THEN ReadError(m) ELSE GetError(m)
Exception(m) == [svc |-> m.svc, id |-> NoId, form |-> "exception"]
ListReply(m, list) ==
  [svc |-> m.svc, id |-> m.id, form |-> "list", count |-> Len(m.items),
   data |-> list.data, results |-> list.results]

FragmentEnd(t) == IF t.sent + Fragment < Len(t.body) THEN t.sent + Fragment ELSE Len(t.body)

\* send_next_block.
SendNextBlock(m, t) ==
  /\ transfer' = IF FragmentEnd(t) = Len(t.body) THEN Idle
                 ELSE [t EXCEPT !.sent = FragmentEnd(t), !.block = @ + 1]
  /\ Reply(m, {[svc |-> t.svc, id |-> t.id, form |-> "block", number |-> t.block + 1,
                last |-> FragmentEnd(t) = Len(t.body),
                data |-> SubSeq(t.body, t.sent + 1, FragmentEnd(t))]})

Sending(m, body) ==
  [kind |-> "sending", svc |-> m.svc, id |-> m.id, body |-> body, sent |-> 0, block |-> 0]

\* The last part of each handler: one APDU if the client's receive size admits it.
\* A longer GET goes out in blocks with its count in front; a longer Read does so only
\* if it has one entry, whose value it is.  A longer ACTION or ACCESS is an error of
\* send, which the client hears nothing of, as it hears nothing of what an unconfirmed
\* write did and of a list that outgrew the buffer.
Answer(m, list) ==
  LET size == Len(list.data) + Len(list.results)
      blocked == /\ agreed
                 /\ m.svc = "get" \/ (m.svc = "read" /\ Len(m.items) = 1)
      body == IF m.svc = "get" THEN <<Count(Len(m.items))>> \o list.results
              ELSE Tail(list.results)
  IN  IF m.svc = "unconfirmed" \/ Len(list.said) < Len(m.items)
        THEN transfer' = Idle /\ Reply(m, {})
      ELSE IF size <= Pdu THEN transfer' = Idle /\ Reply(m, {ListReply(m, list)})
      ELSE IF m.svc \in {"get", "read"} /\ ~blocked
        THEN transfer' = Idle /\ Reply(m, {ErrorReply(m)})
      ELSE IF m.svc \notin {"get", "read"} \/ Len(body) > Buffer
        THEN transfer' = Idle /\ Reply(m, {})
      ELSE SendNextBlock(m, Sending(m, body))

\* The requests that are refused whole, before the store hears of any item.  The lists
\* are as long as each other: the client has seen to it.
TooMany(m) == m.svc # "get" /\ Len(m.items) > MaxItems

\* Mutant: the number of items is looked at when they have been carried out.
HandleListLateCheck(m) ==
  /\ m.form = "list"
  /\ \E says \in SaysAll(m.items) :
     \E list \in {Loop(m.svc, m.n, m.items, says)} :
       /\ calls' = [calls EXCEPT ![m.n] =
            [svc |-> m.svc, items |-> m.items, said |-> list.said,
             size |-> Len(list.data) + Len(list.results)]]
       /\ IF TooMany(m) THEN Reply(m, {Exception(m)}) /\ UNCHANGED transfer
          ELSE Answer(m, list)

\* What the handlers of lists have in common: the list is bounded, carried out and
\* answered.
HandleList(m) ==
  /\ m.form = "list"
  /\ IF TooMany(m) THEN
       /\ Reply(m, IF m.svc = "unconfirmed" THEN {} ELSE {Exception(m)})
       /\ UNCHANGED <<transfer, calls>>
     ELSE \E says \in SaysAll(m.items) :
       \E list \in {Loop(m.svc, m.n, m.items, says)} :
         /\ calls' = [calls EXCEPT ![m.n] =
              [svc |-> m.svc, items |-> m.items, said |-> list.said,
               size |-> Len(list.data) + Len(list.results)]]
         /\ Answer(m, list)

\* handle_get_next and continue_read_block: the block last sent, and for GET the
\* invoke id the transfer opened with.
HandleNext(m) ==
  /\ m.form = "next"
  /\ IF transfer.kind = "sending" /\ transfer.svc = m.svc /\ transfer.block = m.number
          /\ (m.svc = "get" => transfer.id = m.id)
       THEN SendNextBlock(m, transfer)
       ELSE /\ transfer' = IF transfer.kind = "sending" /\ transfer.svc = m.svc
                           THEN Idle ELSE transfer
            /\ Reply(m, {ErrorReply(m)})
  /\ UNCHANGED calls

HandleGetWithList(m) == m.svc = "get" /\ HandleList(m)
HandleActionWithList(m) == m.svc = "action" /\ HandleList(m)
HandleAccess(m) == m.svc = "access" /\ HandleList(m)
HandleRead(m) == m.svc = "read" /\ HandleList(m)
HandleWrite(m) == m.svc \in {"write", "unconfirmed"} /\ HandleList(m)

Handle ==
  \E m \in requests :
    \/ HandleGetWithList(m) \/ HandleActionWithList(m) \/ HandleAccess(m)
    \/ HandleRead(m) \/ HandleWrite(m)
    \/ HandleNext(m)

-----------------------------------------------------------------------------
Next ==
  \/ GetRequestWithList
  \/ ActionRequestWithList
  \/ AccessRequest
  \/ ReadRequest
  \/ WriteRequest
  \/ UnconfirmedWriteRequest
  \/ NextBlockRequest
  \/ HandleResponse
  \/ Abandon
  \/ Handle

Spec == Init /\ [][Next]_vars

\* Both ends serve what reaches them, and a caller that has been told to go on does.
FairSpec ==
  /\ Spec
  /\ WF_vars(Handle)
  /\ WF_vars(HandleResponse)
  /\ WF_vars(NextBlockRequest)

-----------------------------------------------------------------------------
\* Types; the four-bit invoke id stays in its range, the store is asked about no more
\* items than a request may have, and a transfer stays inside what it sends.
TypeOK ==
  /\ invokeId \in 0 .. IdMod - 1
  /\ outstanding \in {NoId} \union 0 .. IdMod - 1
  /\ transfer.kind = "sending" => transfer.sent < Len(transfer.body) /\ Len(transfer.body) <= Buffer
  /\ \A n \in 1 .. Requests : Len(calls[n].said) <= Len(calls[n].items)

\* One element of an answer is what became of one call of the store.
Tells(element, n, i, svc, c) ==
  IF element[1] = Failed THEN ~c.ok \/ NothingWritten(c)
  ELSE /\ c.ok
       /\ \/ svc = "write"
          \/ c.returns /\ Tail(element) = Value(n, i, c.size)
          \/ ~c.returns /\ Tail(element) \in {<<>>, <<Null>>}

\* The server has also carried out an unconfirmed write the caller had made before
\* invocation n.  It ends the transfer it falls into (handle_write).
Interrupted(n) == \E k \in 1 .. n - 1 : calls[k].svc = "unconfirmed"

\* The results of the GET or Read that is invocation n do not fit the client's receive
\* size, and cannot be cut into blocks or are not all asked for in time.
Undeliverable(n) ==
  /\ calls[n].svc \in {"get", "read"}
  /\ calls[n].size > Pdu
  /\ \/ ~agreed
     \/ calls[n].svc = "read" /\ Len(calls[n].items) > 1
     \/ Interrupted(n)

\* Entry i of an answer is what became of item i of that very invocation: its value if
\* it was read or returned, a success if the store did it, a failure if the store said
\* so - whatever the other items did, whatever a store wrote before it failed, however
\* the list was cut into blocks, and whatever came late.  The one exception is read_error's:
\* a Read whose results cannot be delivered is answered by a single failure, whatever
\* it asked for and whatever of it was carried out.
EachItsOwn ==
  (done # NoOp /\ done.form = "list") =>
    \/ /\ Len(done.results) = Len(done.items)
       /\ Len(calls[done.n].said) = Len(done.items)
       /\ \A i \in DOMAIN done.items :
            Tells(done.results[i], done.n, i, done.svc, calls[done.n].said[i])
    \/ done.svc = "read" /\ done.results = <<<<Failed>>>> /\ Undeliverable(done.n)

\* Whether a write or a method of invocation n was carried out.
Touched(n) ==
  \E i \in DOMAIN calls[n].said :
    calls[n].items[i].kind \in {"set", "action"} /\ Called(calls[n].items[i])

\* What a patient caller is told was refused whole has not been done in part.
RefusedUntouched ==
  (done # NoOp /\ done.form = "refused" /\ ~caller.impatient) => ~Touched(done.n)

\* Nobody will be told what became of every item of invocation n: its results cannot be
\* delivered, or the server's own buffer does not hold them, or they do not fit one APDU and
\* its service has no blocks here, or an ACCESS has a method that claimed a value and wrote
\* none.
Unanswerable(n) ==
  \/ Undeliverable(n)
  \/ Len(calls[n].said) < Len(calls[n].items)
  \/ calls[n].svc \notin {"get", "read"} /\ calls[n].size > Pdu
  \/ calls[n].svc = "get" /\ calls[n].size >= Buffer
  \/ /\ calls[n].svc = "access"
     /\ \E i \in DOMAIN calls[n].said :
          calls[n].items[i].kind = "action" /\ NothingWritten(calls[n].said[i])

\* On a link that loses nothing a patient caller is told what became of every item of
\* every invocation, or is refused it for its length, but for those Unanswerable names:
\* the blocks of a long list and the requests for them always find each other.
Answered ==
  \A n \in 1 .. Requests :
    (~caller.impatient /\ op # NoOp /\ op.n = n) ~>
      \/ /\ done # NoOp /\ done.n = n
         /\ \/ done.form = "list" /\ Len(done.results) = Len(done.items)
            \/ done.form = "refused" /\ Len(done.items) > MaxItems
      \/ calls[n].said # <<>> /\ Unanswerable(n)
=============================================================================
