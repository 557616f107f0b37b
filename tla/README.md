# TLA+ models of dlms-cosem-rs

This directory holds a TLA+ development of the protocol engines of `dlms-cosem-rs`: what
is modelled, what TLC checks on small instances, and what TLAPS proves for every
instance. Source paths below are relative to the crate's `src/`.

## The system

`dlms-cosem-rs` is a sans-I/O implementation of DLMS/COSEM, the protocol smart meters
speak. Nothing in it owns a socket, a clock or a thread: every engine is a state machine
its host calls with the bytes that arrived and that answers with bytes to send. What is
concurrent, late, lost, repeated or restarted is therefore always *between* calls, and
that is where a unit test hardly reaches.

| component | state | operations | talks to |
| --- | --- | --- | --- |
| invocation counters, replay windows (`security/counter.rs`) | last counter used; highest accepted, bitmap, width | `next`; `check`, `accept`, `resumed` | everything that protects a message |
| APDU protection (`security/wrap.rs`, `protect.rs`) | key set in force | `protect_apdu`, `unprotect_apdu`, HLS proofs | client, server, push |
| client session (`client/session.rs`) | association state, challenges, invoke id, outstanding id, counter, window | associate, HLS reply, GET / SET / ACTION and blocks, release, `handle_response` | server, by APDUs |
| server (`server/mod.rs`) | association state, challenges, peer, window and its owner, one `Transfer`, one response buffer | `handle` and its handlers, `reset` | client; the object store |
| push (`server/push.rs`, `client/notify.rs`) | counter, long invoke id; one window per meter | `notify`; `handle`, `handle_from` | a listener, over any transport |
| general block transfer (`xdlms/gbt.rs`) | last block, last acknowledged; blocks held, received, since_ack, complete | `next_block`, `acknowledge`; `push`, `acknowledgement`, `reset` | its two callers |
| HDLC (`transport/hdlc.rs`) | link state, sequence numbers, what is owed an acknowledgement; the segmenter's place; the reassembler's buffer | connect, disconnect, acknowledge, poll, `next_frame`, `handle`, `push`; `Framer::next_frame` | the line; the host |
| wrapper, P1 (`transport/wrapper.rs`, `p1.rs`) | what the host has kept of the stream | `next_pdu`; `next_telegram` | the line; the host |
| codec, A-XDR, BER, ACSE, xDLMS APDUs | none | encode, decode, skip, walk | all of the above |
| COSEM classes, OBIS, keys | none | look up, format | the host |

What makes each correct: a counter is never reused and never wraps; a window accepts each
counter once and everything it promised; the server carries out a request once, whole, and
only for a peer that has proved itself in this association; what the client is told is what
happened, item by item where it asked for a list; a value read or written in blocks is one
value; an APDU cut into blocks, or a unit cut into frames, arrives once, whole, in order; a
unit on a noisy line is found, and a decoder says "truncated" when and only when more input
can change its answer. `PROJECT.json` lists the hazards at their lines.

## Modules

| module | models |
| --- | --- |
| `ReplayWindow` | `InvocationCounter` and `ReplayWindow` as operators. The bitmap is the set of its set bits, of any size `Slots`; the counter is `0 .. CounterMax` |
| `Push` | every meter's `PushSender`, a network that delays, repeats, loses and damages, and a `NotificationListener`; power loss at both ends |
| `PushProofs` | the theorems about `Push` |
| `ReplayWindowProofs` | the lemmas about the window that `PushProofs` and `AssociationProofs` share |
| `Gbt`, `MCGbt` | `GbtSender` and `GbtReceiver` with their callers over a FIFO link that may lose |
| `BlockDelivery` | what block transfer promises: each APDU handed over exactly once, whole, in order |
| `GbtProofs` | the theorems about `Gbt`, and that it implements `BlockDelivery` |
| `Services`, `MCServices` | GET, SET, SET-with-list and ACTION, whole or in blocks, between a `ClientSession` and a `Server`, in an open association |
| `ServicesProofs` | the theorems about what `Services` carries out |
| `ServicesAnswers` | the theorems about what a caller of `Services` is told |
| `Lists`, `MCLists` | GET and ACTION with a list, ACCESS, short-name Read, Write and unconfirmed Write, down to the place of each element in the encoded list |
| `ListsProofs` | the theorems about `Lists` |
| `Hdlc`, `MCHdlc` | `Connection`, `Segmenter` and `Reassembler` at both ends of a line that may lose frames, with their hosts |
| `HdlcProofs` | the theorems about `Hdlc` |
| `Codec` | `Reader`, `Writer` and the length coding |
| `Axdr` | `Data`, `Seq`, `DataBuf`, `skip` and compact arrays with their walks (EXTENDS `Codec`) |
| `Acse` | BER and AARQ, AARE, RLRQ, RLRE (EXTENDS `Codec`) |
| `Apdus` | every xDLMS APDU, plain and protected (EXTENDS `Axdr`, `Acse`) |
| `Framing` | HDLC frames and `Framer`, wrapper PDUs and `StreamReassembler`, P1 telegrams and `TelegramReader` (EXTENDS `Codec`) |
| `Wire`, `MCWire` | bytes arriving one at a time at any of these decoders, and a host that polls when it likes (EXTENDS `Framing`, `Apdus`) |
| `Association`, `MCAssociation` | AARQ / AARE, HLS with GMAC, dedicated keys, protected requests and responses, release and re-association, with counters and windows at both ends |
| `AssociationProofs` | the theorems about `Association` |

Each action is one call of the code with everything it changes; `PROJECT.json` ("map")
gives the lines. An `MC` module only names the values its runs give the constants.

**Push.** A frame is a record naming the title in its header, the meter whose key made the
tag, its counter, and whether it decodes as a notification. `Handle` is `handle_inner`:
title, `check`, verification, `accept`; a frame that does not pass changes nothing, which is
why it has no action. The hosts are external, modelled by the contract the code documents:
the sender's host stores a counter ahead of use ("store n + 1000, use up to that"), the
listener's host stores `highest` before it uses a reading. Restarts may fall between any
two of these steps.

**Gbt.** `PushOutOfOrder`, `PushTooLarge` and `PushTakes` are the three ways out of
`GbtReceiver::push`; the acknowledgement it asks for goes out in the same step. GBT has no
clock: the receiver's caller repeats its acknowledgement when nothing moves (`Timeout`).
Streaming and loss are chosen once, in `mode`.

**Services.** A value is a sequence of pieces, one to a fragment. A piece carries its
object, the writing it comes from and its place, which neither program sees, so a splice is
visible. `transfer` and `response` are the server's fields of that name; a selector or an
attribute list sits at the front of `response` as in the code. `op` is the caller's
invocation with its `BlockSender` and `BlockCollector`. The store refuses what its rights
refuse and carries out the rest; one that fails in the middle is in `Lists`. A caller may give up and ask
something else, and may read in the middle of a transfer. `asked` and `performed` are
histories, the operations the caller has asked for and those the store has carried out.

**Lists.** What `Services` does not have: requests for several things at once. An encoded
list is a sequence of tokens, the choice or result bytes and the pieces of values, with
nothing between two elements; which element is whose is a matter of counting, on both
sides, and `EachItsOwn` is about exactly that. The store is external and nondeterministic
at every item: it may refuse, fail after writing, succeed with or without a value, or claim
a value and write none. `Room` is what the handler has left in its buffer at that item. A request that cannot be answered with its results is answered in two
ways: GET has an error of its own, a Read is given a list of one failure (`GetError`,
`ReadError`), which the caller reads like any other list.

**Hdlc.** A frame is a record of its fields; a unit's pieces name their sender, unit and
place, which no station sees. A frame that fails its check sequence never reaches `handle`,
so damage is loss. HDLC has no clock here: the client's host polls, repeats its last frame
or resets the link when it has waited in vain, and `patient` says that its wait is longer
than a round trip. The server may be a station that hands the line over after each segment
(`polled`), which exercises `poll` and the poll/final bit. The client's host may close the link
whenever it waits for no response, and open it again. `FRMR` is handled as `DM`, `RNR`
and `UI` as `RR`, as in the code.

**Wire and the codecs.** A byte is a number, an input a sequence of them, and a decoder an
operator from input and position to a value and the position after it, or to the kind of
the error (`Then` is the `?` operator). `Apdus` describes each APDU once, as its fields,
and `Read` and `Write` follow the description, so the map gives for each description both
the encoder and the decoder. A codec is handed a growing input, as by a host that decodes
until the answer is no longer "truncated"; one byte may be damaged and bytes may follow.
Checksums are ideal: symbols above the bytes, different for different texts, so a false
match is outside the model. Numbers and dates are their bytes.

**Association.** A tag verifies exactly when the receiver holds the sender for its peer and
the key set agrees. Challenges are drawn from a counter: each is new. `setting` fixes who is
there, the mechanism, the dedicated key and what the link does. The caller asks for the HLS
reply once per AARE and releases only an open association. Told by an exception which
counter the server expects, it may move its own there, forward only, as the doc of
`set_invocation_counter` asks. An exception is protected, and spends a counter, where
`general` says that both ends propose GENERAL_PROTECTION; the one that names a counter is
always bare. Restarts are the hosts': each stores, with every call, what
the docs ask it to (the counter at both ends; owner and highest counter of the server's
window, restored with `resume_replay_window`). A server carries a request out inside
`handle`, so power lost between that and the storing is outside what any host could repair.

## Runs

| run | checks | bounds |
| --- | --- | --- |
| `PushWindow` | `TypeOK`, `NonceUsedOnce`, `UsedAtMostOnce`, `NoFalseReplay` | one meter, counters to 5 with 3 slots: the window slides past its size, the width is clamped, the counter is exhausted |
| `PushMeters` | `Authentic`, `NoLockOut` | two meters, so a frame can be tried with the wrong key; two counters |
| `GbtRetry` | `TypeOK`, `TakenIntact`, `DoneIsDelivered`, `AckedNeverFalls` | four blocks, window 3 clamped to 2, buffers of 3 (too small) and 4, loss, unasked acknowledgements, resets |
| `GbtDelivery` | `ImplementsDelivery`, `FirstDelivered`, `AllDelivered` | four APDUs of six blocks, stop-and-wait with loss or streaming without |
| `ServicesMixed` | `TypeOK`, `PerformedAsAsked`, `ReadIntact`, `AnswersMatch`, `Answered` | two invocations of any kind on two attributes (one read-only) and a method, values of 1 or 2 pieces, a buffer of 3, so a write with a list is one piece too long |
| `Association` | `TypeOK`, `NonceUsedOnce`, `AtMostOnce`, `ProvenBeforeUse`, `MutualAuthentication`, `Opens`, `Served` | six settings: a repeating link without authentication while the server loses power, and with HLS while the client does; two clients in turn, exceptions protected, with HLS and with a password one lacks; a client refused four times for its counter; one client undisturbed. Counters to 6, so they are exhausted in the middle of an HLS exchange |
| `Lists` | `TypeOK`, `EachItsOwn`, `RefusedUntouched`, `Answered` | two invocations out of fourteen batches, values of 1 or 4 pieces, a PDU of 4, blocks of 3 and a buffer of 8, so lists fit, go out in blocks, or overflow; three items where two are allowed; two invoke ids |
| `Hdlc` | `TypeOK`, `UnitsIntact`, `OncePerLink`, `FitsReceiver`, `DownOnlyWhenAsked`, `AllAnswered` | three requests and responses of 1 or 4 pieces, links closed and opened again at any time, numbers modulo 4 so they wrap, limits that differ at the two ends and from the default, lossy or not, polled or not, a buffer too small for the longest unit |
| `Wire` | `NothingLost`, `BufferBounded`, `RoundTrips`, `WalksAgree`, `Settled` | three units or bursts of noise in any order; one to three samples of every form of every APDU, damaged once in its first 20 bytes; data freely grown to five bytes over an alphabet of tags, counts and a long-form length; nesting to 4 and 8 compact nodes, so both limits are met |

Deadlock is not checked except in `Push`: with every request made and answered these
systems may stop.

Each property has a mutant, a definition changed as a plausible bug would change it, under
which TLC finds the property violated.

### Disagreements found

Three runs are expected to be violated; each states what a comment or a test says.

* `ServicesTornRead` (`ReadIntact`): `get_next_block_request` carries the id of the *last*
  request, not of the read it continues. A read of another attribute between two blocks
  splices the two values. The same happens in a plain association over UDP when the link
  repeats a `get-request-normal` (set `Duplicating` to `TRUE` and one update).
* `AssociationTwoClients` (`AtMostOnce`): the window is replaced whenever the title changes,
  so after client c, client d and c again, c's earlier requests are carried out again.
* `WireNoise` (`NothingLost`): the P1 reader requires everything from the `/` to the end of
  the buffer to be text. One other byte behind a complete telegram, received before the
  host polls, has the telegram discarded as noise.

### Observed while modelling

The same modules show the following under other constants; no run is kept for them.

* *A GBT block does not say which APDU it belongs to.* Streaming over a lossy link, blocks
  of one APDU sent again after a late rewind are still in flight when the next begins, and
  the receiver completes an APDU cut from both (`gbt.rs` line 307). `MCGbt`, `Spec`,
  `TakenIntact`: `Apdus = 2`, `Total = Window = WindowMax = LinkMax = 3`,
  `Capacities = {3}`, `Modes <- StreamingLossy`, no eager acknowledgements, no resets.
* *A repeated block after the last one resets the receiver*, which then acknowledges 0,
  which the sender refuses; if the last acknowledgement was lost the sender is never done.
  `FairSpec`, `FirstDelivered`: as above with `Apdus = 1`, `Total = 4`, `Capacities = {4}`.
* *APDUs of one block over a lossy link*: the second APDU's only block is lost, the receiver's
  caller repeats its last acknowledgement, and number 1 of the first APDU is taken for number
  1 of the second, which is then done and was never delivered (`gbt.rs` line 356). `MCGbt`,
  `Spec`, `DoneIsDelivered`: `Apdus = 2`, `Total = 1`, a lossy mode without streaming.
* *An error from the random source inside `handle_aarq`* leaves the server `Associated` with
  the new association's peer (`server/mod.rs` line 628). `MCAssociation`,
  `ProvenBeforeUse`: `Settings <- NoEntropy`, `Clients <- OneClient`, `CounterMax = 9`.
* *A client has nothing to restore its replay window with.* After a restart, recorded
  responses are taken again: without HLS from the second attempt on, and with it from the
  third. `AtMostOnce` is therefore stated for the responses of clients that are not restarted
  where the link repeats. `MCAssociation`, `AtMostOnce` without that condition: a setting
  with `duplicating`, `disrupted` and `restarts = {"client"}`, of two attempts without HLS
  and three with it.
* *The exception a repeated AARQ draws* ends the client's attempt if it overtakes the AARE
  (`Opens` is stated for links that repeat nothing).
* *HDLC numbers are modulo eight and no window is enforced*: eight frames of one unit lost
  in a row are not noticed, and the unit is handed over with a gap. `MCHdlc`, `Spec`,
  `UnitsIntact`: `Mod = 8`, `Units = 1`, `Sizes = {10}`, `Proposed <- ShortLimits`,
  `Modes <- LossyModes`. Units of at most as many
  segments as there are numbers are safe (`UnitsArrive`).
* *An HDLC client that does not wait for a round trip* opens the link twice, and the UA to
  the second SNRM takes down the link the first one opened, because `handle` takes a UA on an
  open link for the answer to a DISC (`hdlc.rs` line 965); likewise, after a reset, the
  response to what it asked before is taken on the new link for that to the next request.
  `DownOnlyWhenAsked` and `OncePerLink` are therefore about hosts that wait: a mode with
  `patient = FALSE` violates both, and `UnitsIntact` too where the line loses.
* *The UA to a DISC carries no parameters*, and a client that has closed the link and opens it
  again before that UA is in comes up on it, with the default parameters (`hdlc.rs` line 957,
  where the comment has the UA carry what the peer agreed to). It then sends fields of the
  default length to a server that proposed less. `FitsReceiver` is therefore about hosts that
  wait for a round trip, or servers that take the default: `MCHdlc`, with a mode
  `patient = FALSE` and a server whose `rx` is below the default.
* *ACCESS and the short-name services clear `outstanding`*, so the late answer to an ACCESS
  that was given up is taken for the answer to the next. `MCLists`, `EachItsOwn`:
  `Callers <- HastyAccess`. A caller that waits, or uses GET and ACTION, is safe.
* *A method that claims a return value and writes none* is answered with `OtherReason`
  (`server/store.rs` line 62) in ACTION; in ACCESS it is reported a success with nothing in
  the data list, and the client cannot decode the response. ACTION with a list and ACCESS
  whose results exceed the PDU are not answered at all, after the methods have run.
  `Answered` names these cases in `Unanswerable`.
* *A Read of several entries whose results exceed the PDU* is answered by one entry, a failure
  (`server/mod.rs` lines 1898 and 1982), where the doc of `handle_read` (line 1826) has it
  "refused per entry". The entries have been served by then: after a Read of a method and an
  attribute the caller holds one failure for two entries, the first of which was carried out.
  A Read in blocks gets the same when an unconfirmed write arrives between two of them and ends
  the transfer. `Undeliverable` names these cases, and `EachItsOwn` admits the single failure in
  them only.
* *A method invoked by writing its short name* has one byte for its return value: one that
  returns more has run and is reported refused (`server/mod.rs` line 2060).
* *A complete frame whose source address does not end* (destination of four bytes, source
  bytes all even) is reported truncated (`hdlc.rs` line 350) and kept as a candidate: the
  framer then asks its host to keep everything from there on, until a frame completes
  behind it. `BufferBounded` holds for what `MCWire` puts on the line, not with
  `<<126, 160, 7, 2, 2, 2, 3, 2, 126>>` among the noise. A P1 fragment without `!` is kept
  in the same way.
* *The end of an exception response and of a gateway's payload is the end of the input*: a
  host that decodes early has an answer that more input would change; `Settled` leaves
  these three tags out.
* *Two frames that share one flag* lose the second; a frame inside an information field is
  found before the frame around it; a P1 fragment without checksum merges with the next
  telegram; the wrapper does not resynchronise.
* `CompactArray` derives `PartialEq` over the positions it borrowed from, which the doc of
  `Seq` (`axdr/data.rs`) explains not to do. A `DataBuf` nested deeper than `MAX_DEPTH`
  encodes and cannot be decoded. `unconfirmed_write_request` requires both the Write and
  the unconfirmed-Write bits. A one-byte address above 127 loses its top bit. In
  `cosem/sn.rs`, `attribute` may name an address that `resolve` takes for a method.

### Fairness

Only for progress, only for calls a host makes as a matter of course. `Services` and
`Association`: both ends handle what reaches them, and a caller told to go on with a
transfer, or with HLS, does; requests, releases and restarts carry no fairness. `Gbt`: the
callers keep driving their ends (weak fairness), and a link used again and again delivers
again and again (strong fairness of `Push` and `Acknowledge`), without which a link may lose
everything for ever. `Lists`: both ends handle what reaches them and a caller told that more
blocks follow asks for them. `Hdlc`: the hosts read, answer, poll and retry (weak fairness
of `HostStep` and of each end's `Progress`); nobody is obliged to close, to send again or to
lose. `AllAnswered` is about clients that stop closing the link. `Wire` claims no progress. `FirstDelivered` needs the repeated acknowledgement; on a lossy link
nothing more than the first APDU is promised, because a completed receiver acknowledges the
old APDU until the first block of the next one arrives.

## Proofs

The theorems hold for every value of the constants the assumptions beside them admit. Where a
theorem has a hypothesis of its own, the runs and the observations above show why.

None of the safety properties is inductive as it stands. Each proof module defines the
stronger invariant as a conjunction of named parts, and has one lemma per action.

**Push** (`PushProofs`): every safety property, for every set of meters, window size, width,
counter width and storage interval: `TypeCorrect`, `NonceUniqueness`, `AtMostOnce`,
`Authenticity`, `NoLockOutTheorem`, `NoFalseReplayTheorem`. `IInv` adds why they hold:

* `SenderInv`: the counter never passes what is stored and nothing above it is sealed, so a
  restart from the stored value can only skip counters;
* `NetInv`: a frame some key opens was sealed under that key;
* `StorageInv`: floor, stored value, window and meter stand in that order;
* `ReadingInv`: what was handed over or used is refused by the window, and what was used is
  refused by the window a restart would build as well, because storing comes before use;
* `BitmapInv`: above the floor, a bit of the window stands for a frame really accepted.

It rests on `ReplayWindowProofs`: an accepted counter is refused from then on
(`AcceptedIsRefused`), a refused one stays refused (`RefusedStaysRefused`), and accepting
sets no bit but its own (`AcceptSetsOneBit`).

**Association** (`AssociationProofs`): every safety property, for every set of clients and of
settings, every counter and window size: `TypeCorrect`, `NoncesAreUnique`,
`AuthenticationIsMutual`, and under hypotheses on the setting `OnlyTheProvenAreServed` and
`NothingIsReplayed`. The parts of `IInv`:

* `ToServerInv`, `ToClientInv`, `NonceInv`: whatever is on the link or sealed carries a
  counter its sender has reached, so the next counter is new;
* `ProvenInv`: the peer of an open association is the one proven in it. Its hypothesis
  `EntropyHolds` leaves out a random source that fails under HLS: that is the observation
  about `handle_aarq` above;
* `ChallengeInv`, `PairInv`: an answer to the server's challenge under way, or accepted, was
  made by a client that has taken that challenge for the very attempt it holds. Without it
  the last message of HLS says nothing about which attempt it closes;
* `ExecutedInv`, `TakenInv`: what was carried out or taken is refused by the window where the
  link repeats, and gone from the link where it does not. `OneOwner` says that the link
  repeats nothing or one client has the server to itself; the run `AssociationTwoClients`
  shows what happens otherwise.

**Gbt** (`GbtProofs`): `TypeCorrect` and `AcksStand` without hypothesis. `OneIsIntact` and
`OneIsDelivered` for one APDU (`Apdus = 1`) and any link, streaming, unasked
acknowledgements and resets included. `OrderlyIsIntact`, `OrderlyIsDelivered` and the
refinement `DeliveryImplemented` for any number of APDUs when the transfer is `Orderly`: no
unasked acknowledgements, no resets, and a lossy link is used stop-and-wait with APDUs of
more than one block. Both restrictions on lossy links are needed (Observed while modelling);
the run `GbtDelivery` has an orderly instance of either kind. The invariant `SafeInv` has
one account of the link for each: `TurnInv` for stop-and-wait, where one message is under
way, the next block or an acknowledgement of where the receiver is, and `SteadyInv` for a
lossless link, where the blocks in flight continue exactly what the receiver has, or the one
acknowledgement of the window is in flight. `Behind` is the state between two APDUs, in which the
receiver still acknowledges the old one. The refinement maps each step to handing over the
present APDU, going on to the next, or a stutter.

**Services** (`ServicesProofs`): `WritesAreAsked` (`PerformedAsAsked`) and `TypeCorrect` for
every store, buffer, list and caller, over links that reorder, lose and duplicate, under
`NoWrap`: not more invocations than invoke ids. (Sixteen invocations later, a block of an old
write is a block of a new one, for all anyone can tell; then not even the number of values
has to match that of attributes.) The invariant is that there is a book with one write or
method call to each id (`OneJobPerId`): every block on the link is a block of the entry of
its id (`Fits`), the front of the server's buffer holds the header and the first pieces of
the entry of the transfer's id (`Holds`), and the caller's sender stands in the entry of the
outstanding id (`IsJob`). A fresh id gives a new entry; an old one is never changed.

What the caller is told (`ServicesAnswers`): `AnswersAreOurs` (`AnswersMatch`) and
`ReadsAreWhole` (`ReadIntact`), for the same stores and callers, over links that reorder and
lose. The book says what was asked under an id and not what was answered, and neither
property is inductive without that: a block on the link has to be a block of the same value
as the ones the caller has, though the attribute may have been written since, and the buffer
it was cut from may be in use for something else. So the invariant (`OneStoryPerId`) adds a
story to each id, told once: a response carries the piece of the story its number says
(`Report`), the server's transfer sends the story's value and has it in the shared buffer
(`Carries`), what the caller has put together is the front of it, and a story that was told
happened: the call was made and returned that, the write was carried out where the rights
allow it, the value read was the attribute's at some moment since the read began (`Became`,
`Reads`). The hypotheses beyond `NoWrap` are needed, each shown by TLC: a duplicated request
is carried out and told again, with another value (so `~Duplicating`), and for `ReadIntact`
a read in the middle of a read takes its blocks (`ServicesTornRead`); writes and method calls
in between are covered.

**Hdlc** (`HdlcProofs`): `TypeCorrect` and `FieldsFit` (`FitsReceiver`) for every modulus,
pair of proposals, size of unit and buffer, over a line that loses or not, with a polled
station or not. The two ends negotiate apart, the client from the
server's answer, so the invariant `Inv` follows the limits over the wire: an SNRM on its way
carries the client's proposal, a UA that may still open the client's link carries a receive
limit within the server's proposal (`Fit`), the server keeps such a limit as long as it owes
the acknowledgement, and whoever is connected sends within its peer's proposal (`LinkOK`).
The UA to a DISC carries the defaults, which need not fit, and nothing in `handle` keeps it from
opening the next link. So `FieldsFit` has the hypothesis `Careful`: the hosts wait for a round
trip, or the server takes fields of the default length. `FitInv` says that while the client
opens a link every UA under way allows no more than the server accepts, and no DISC is owed
its answer; and that what the client's host may send again was cut within the same limit.
`LinkStaysUp` (`DownOnlyWhenAsked`) has the hypothesis that hosts wait for a round trip, which
is needed (Observed while modelling). Its invariant `HandshakeInv`: while the client opens
the link, one SNRM, the server's debt of an acknowledgement or one UA is under way, and none
of them once it is open.

`UnitsArrive` (`UnitsIntact`) and `HandedOnce` (`OncePerLink`) have that hypothesis and
`Countable`: on a line that loses, no unit has more segments than there are numbers. Both are
needed: TLC finds either property violated by a host that does not wait, and `UnitsIntact` by
a unit of `Mod + 1` segments. (The run `Hdlc` meets both; its longest response has
exactly `Mod` segments.) Neither property is inductive, because a frame carries a
number and not a place, so the invariant `UnitsInv` says which frame may be where. `Situation`
has a case for each pair of ends that are up or down; when both are up the link is at rest, at
a request or at a response (`Rest`, `Asking`, `Answering`). A unit on its way is a `Flow` of
segments: `Gone` says that the segmenter has sent the first `i` and numbers them from `b`,
`Come` that the reassembler has the first `j` and expects the number of the next, and
`Between` that the wire holds some of the segments `j` to `i - 1` in their order, and all of
them where nothing is lost. `Accepts` is the step that everything turns on: within `Mod`
segments a number that is neither repeated nor refused is that of segment `j`. The rest
accounts for what a waiting host may send again: during a response the wire to the server
holds at most one frame that talks, the request's last segment, which the server takes for a
repeat, or a poll that tells where the client stands (`Waiting`); during a request a poll is
alone on it (`Polling`).

**Lists** (`ListsProofs`): `RefusedWhole` (`RefusedUntouched`) for every set of batches and
callers, all rights, sizes of values, buffers and PDUs. An exception carries no invoke id, so
that it tells of the invocation waited for, and not of an earlier one, is a matter of what
else is under way. The invariant says it: `NumbersInv` numbers invocations as they are made
and keeps an unconfirmed write apart from those that are waited for or answered; `UnderWay`,
for a caller that waits, has at most one confirmed request or response on the link, a list
that has not arrived has not been begun, and an exception on its way tells of an invocation
with nothing carried out. The property is about callers that wait, as the theorem is; what
becomes of the others is an observation above.

`TypeCorrect` (`TypeOK`), and `AnswersAreTheirOwn` (`EachItsOwn`) for lists of any length and
values of any size. The second is about counting, on both sides of the link, and its argument
has two halves, and a part for `read_error`:

* *A list is read as it was written.* `Laid` relates a token sequence to the elements it was
  written from: at most one element begins with each of them, and if one does, then they
  begin in their order, where one ends the next begins, and counting beginnings finds each
  (`ElementsLaid`). An element is `Shaped` when nothing begins after its first token, and
  appending one keeps `Laid` (`LaidStep`). Not every element begins anywhere: in an ACCESS a
  method that claims a value and writes none leaves nothing in the list of values. There the
  count does not come out, and the client gives up before it could take one value for another.
  Every turn of a handler's loop appends a shaped element that tells what the store said of
  its item (`ResultTells`, `AccessTells`, `EntryWritten`), or finds the buffer full, so a
  loop that gets to the end has written the `Tale` of its items (`LoopWritten`). The loop is a
  recursive function over the items; `LoopIs` takes its definition apart along the numbers up
  to the length of the list (`Induction`, on a set of numbers).
* *What the client reads is what was written for it.* The invariant `OwnInv` has a book of
  what each invocation sends in blocks: the server's transfer stands at a multiple of the
  block size in the entry of its invocation (`Carries`), a block on the link is the piece its
  number says (`BlockOf`), a list on it is the tale of its invocation (`ListOf`), and what the
  collector holds is the front of the entry of the caller's own (`OpInv`). Whose they are is
  `MeantForIt`: a caller that waits has only its own under way, and only while something of a
  transfer is under way (`Asked`) does the transfer have to be its own; one that does not
  compares invoke ids.
* *A Read that is told one failure was `Undeliverable`.* `ReadInv` says that a Read that is to
  go on behind a block was too long for one APDU, and finds its transfer where that block ended,
  unless an unconfirmed write has ended it (`Resumes`).

The hypothesis `Steady` says that who does not wait uses GET and ACTION only, and makes no
more invocations than there are ids. The first half is needed (`HastyAccess`, above). So is
the second: the invoke id has four bits, and an answer sixteen invocations old looks like the
one waited for (TLC finds `EachItsOwn` violated with two ids and three invocations). `BatchesAssumption` says that a batch is a list and not empty: the client
refuses to send an empty one.

Only model-checked:

* all liveness (`Opens`, `Served`, `FirstDelivered`, `AllDelivered`, the three `Answered`,
  `AllAnswered`), which is out of the prover's reach;
* `Wire`: what a decoder returns for every input needs induction over data, and its modules
  are written with recursive operators.

## Not modelled

* The ciphers, hashes and checksums themselves: a tag verifies exactly under the key, title
  and counter it was made with, and a checksum exactly for its text.
* The text and calendar conversions of `axdr/datetime.rs`, `axdr/unit.rs` and `obis.rs`, and
  the lines and values inside a P1 telegram: pure formatting and parsing of one value.
* The COSEM classes, their registry and profiles: static descriptions. What they decide in
  the protocol, who may read, write and invoke, is a constant of `Services` and `Lists`.
* The address layout of `cosem/sn.rs`, which a host uses to choose its short names.
* The 24 conformance bits one by one: `Services` and `Lists` keep block transfer agreed or
  not.
* A meter's `PushSender` and `Server` may share a key and a title but hold separate
  counters; splitting the range between them is the host's.
* Two associations of one server at a time: the code has one per `Server`.

## Plan

The conformance bits, with the check each request makes of them.
