-------------------------------- MODULE Wire --------------------------------
(***************************************************************************)
(* Bytes arriving one after another at a decoder of the crate.             *)
(*                                                                         *)
(* A stream reader (Framer, StreamReassembler, TelegramReader) is polled   *)
(* by its host over the bytes the host has kept, at any moment: the host   *)
(* drops what the reader tells it to and keeps the rest.  On a serial line *)
(* the peer's units are mixed with noise.                                  *)
(*                                                                         *)
(* A codec (Data, Apdu) is given what has arrived of one message so far,   *)
(* as a host does that decodes until the answer is no longer "truncated".  *)
(* One byte of a message may be damaged, and bytes may follow it.          *)
(***************************************************************************)
EXTENDS Framing, Apdus

CONSTANTS
    Units,        \* for each stream reader, what the peer may send
    Noise,        \* for each stream reader, what else the line may carry
    MaxApdu,      \* what StreamReassembler::new was given
    Samples,      \* for each codec, messages (or beginnings of messages)
    Damage,       \* what a damaged byte of a message may be
    DamageWithin, \* only the first so many bytes of a message are damaged
    Alphabet,     \* the bytes that may follow a sample
    MaxFree,      \* for each codec, how long a message may grow that way
    MaxPieces     \* how many units and bursts of noise there are

VARIABLES
    reader,    \* which decoder this is
    todo,      \* the bytes on the line, still to arrive
    buf,       \* what has arrived and is kept by the host
    sent,      \* the units the peer has put on the line
    got,       \* the units the reader has found
    pieces,    \* how many units and bursts of noise have been sent
    dry,       \* the reader was polled, and nothing has arrived since
    refused,   \* the reader returned an error
    damaged,   \* a byte of the message was damaged
    past,      \* the byte after the first settled answer has arrived
    answer     \* what the codec makes of buf

vars == <<reader, todo, buf, sent, got, pieces, dry, refused, damaged, past, answer>>

Streams == DOMAIN Units
Codecs == DOMAIN Samples

\* One call of the reader on the bytes its host has kept.
Look(r, bytes) ==
    CASE r = "hdlc"    -> NextFrame(bytes)
      [] r = "wrapper" -> NextPdu(bytes, MaxApdu)
      [] r = "p1"      -> NextTelegram(bytes, TRUE)
      [] r = "p1bare"  -> NextTelegram(bytes, FALSE)

Encoded(r, unit) ==
    CASE r = "hdlc"    -> EncodeFrame(unit)
      [] r = "wrapper" -> EncodeWpdu(unit)
      [] r = "p1"      -> EncodeTelegram(unit, TRUE)
      [] r = "p1bare"  -> EncodeTelegram(unit, FALSE)

Decode(r, bytes) ==
    CASE r = "data" -> DecodeData(bytes, 1)
      [] r = "apdu" -> DecodeApdu(bytes, 1)

Encode(r, value) ==
    CASE r = "data" -> EncodeData(value)
      [] r = "apdu" -> EncodeApdu(value)

Init ==
    /\ \/ reader \in Streams /\ todo = <<>>
       \/ reader \in Codecs /\ todo \in Samples[reader]
    /\ buf = <<>> /\ sent = <<>> /\ got = <<>> /\ pieces = 0
    /\ dry = TRUE /\ refused = FALSE
    /\ damaged = FALSE /\ past = FALSE /\ answer = Err("truncated")

----------------------------------------------------------------------------
(* The line                                                                *)

Idle == reader \in Streams /\ todo = <<>> /\ pieces < MaxPieces /\ ~refused

Send ==
    /\ Idle
    /\ \E unit \in Units[reader] :
          /\ todo' = Encoded(reader, unit)
          /\ sent' = Append(sent, unit)
    /\ pieces' = pieces + 1
    /\ UNCHANGED <<reader, buf, got, dry, refused, damaged, past, answer>>

Chatter ==
    /\ Idle
    /\ todo' \in Noise[reader]
    /\ pieces' = pieces + 1
    /\ UNCHANGED <<reader, buf, sent, got, dry, refused, damaged, past, answer>>

\* The byte b reaches the host, which hands a codec all it has.
Receive(b) ==
    /\ buf' = Append(buf, b)
    /\ dry' = FALSE
    /\ answer' = IF reader \in Codecs THEN Decode(reader, buf') ELSE answer
    /\ past' = (past \/ ~IsTruncated(answer))
    /\ UNCHANGED <<reader, sent, got, pieces, refused>>

\* A codec is asked again only while its answer is open, and once after that.
Listening == ~refused /\ ~past

Arrive ==
    /\ todo # <<>> /\ Listening
    /\ Receive(Head(todo))
    /\ todo' = Tail(todo)
    /\ UNCHANGED damaged

Corrupt ==
    /\ reader \in Codecs /\ todo # <<>> /\ Listening
    /\ ~damaged /\ Len(buf) < DamageWithin
    /\ \E b \in Damage \ {Head(todo)} : Receive(b)
    /\ todo' = Tail(todo)
    /\ damaged' = TRUE

Follow ==
    /\ reader \in Codecs /\ todo = <<>> /\ Listening
    /\ ~IsTruncated(answer) \/ Len(buf) < MaxFree[reader]
    /\ \E b \in Alphabet : Receive(b)
    /\ UNCHANGED <<todo, damaged>>

----------------------------------------------------------------------------
(* The host of a stream reader                                             *)

Poll ==
    /\ reader \in Streams /\ ~dry /\ ~refused
    /\ LET found == Look(reader, buf) IN
          /\ buf' = From(buf, found.used + 1)
          /\ got' = IF found.kind = "unit" THEN Append(got, found.unit) ELSE got
          /\ dry' = (found.kind = "wait")
          /\ refused' = (found.kind = "refused")
    /\ UNCHANGED <<reader, todo, sent, pieces, damaged, past, answer>>

Next == Send \/ Chatter \/ Arrive \/ Corrupt \/ Follow \/ Poll

Spec == Init /\ [][Next]_vars

----------------------------------------------------------------------------
(* Properties                                                              *)

\* Whatever noise surrounds the peer's units and however the host cuts the
\* stream into polls, the reader finds only units the peer sent, in order,
\* and once everything has arrived and it has nothing more to say it has
\* found them all: a false start in the noise never hides a real unit
\* (Framer::next_frame, StreamReassembler::next_pdu, next_telegram).
NothingLost ==
    reader \in Streams /\ ~refused =>
        /\ IsPrefix(got, sent)
        /\ dry /\ todo = <<>> => got = sent

\* What a host keeps after the reader had nothing for it could still become a
\* unit: it is shorter than the frame its first bytes announce
\* (Found::Incomplete.discard), or than the largest PDU the reassembler takes.
BufferBounded ==
    dry => /\ reader = "hdlc" /\ buf # <<>> =>
                /\ buf[1] = Flag
                /\ Len(buf) < 3 \/ Len(buf) < AnnouncedLen(buf) + 2
           /\ reader = "wrapper" => Len(buf) < HeaderLen + MaxApdu

\* The two APDUs whose end is the end of the input: an exception response
\* that may carry a counter, and a gateway's payload.
EndsWithInput(a) ==
    /\ reader = "apdu" /\ a.kind = "ok"
    /\ a.value.tag \in {216, 230, 231}

\* Error::is_truncated is the only answer of a decoder that more input may
\* change: a value once decoded, or an error once reported, stays the answer
\* when further bytes arrive, so a host may act on it at once.
Settled ==
    [][~IsTruncated(answer) /\ ~EndsWithInput(answer) => answer' = answer]_vars

\* What was decoded survives being encoded: a value or an APDU decodes to
\* itself again whatever lengths it was first written with, and so does the
\* owned copy of a value, compact arrays expanded (Encode and Decode of Data,
\* DataBuf and Apdu).
RoundTrips ==
    reader \in Codecs /\ answer.kind = "ok" =>
        /\ LET again == Encode(reader, answer.value)
           IN  FromBytes(again, Decode(reader, again)) = Ok(answer.value, Len(again) + 1)
        /\ reader = "data" /\ FromData(answer.value).kind = "ok" =>
              LET tree == FromData(answer.value).value
                  again == EncodeBuf(tree)
                  read == FromBytes(again, DecodeData(again, 1))
              IN  read.kind = "ok" /\ FromData(read.value) = Ok(tree, 0)

RECURSIVE LeavesOf(_)

\* The leaves of an owned value, from left to right.
LeavesOf(tree) ==
    IF tree.tag \in {Array, Structure}
    THEN FlattenSeq([i \in DOMAIN tree.kids |-> LeavesOf(tree.kids[i])])
    ELSE <<[tag |-> tree.tag, n |-> tree.n, raw |-> tree.raw]>>

\* The walks of a compact array tell the same story: for_each_leaf hands out
\* the leaves of the rows to_rows builds, each row has row_len of them, there
\* are row_count rows, and where one refuses the contents the others do.
CompactWalksAgree(c) ==
    LET walked == ForEachLeaf(c)
        built == ToRows(c)
        Bare(d) == [tag |-> d.tag, n |-> d.n, raw |-> d.raw]
    IN  /\ walked.kind = built.kind /\ RowCount(c).kind = built.kind
        /\ built.kind = "ok" =>
              /\ Len(walked.value) = Len(built.value) /\ RowCount(c).value = Len(built.value)
              /\ \A i \in DOMAIN built.value :
                    /\ LeavesOf(built.value[i])
                          = [k \in DOMAIN walked.value[i] |-> Bare(walked.value[i][k])]
                    /\ Len(walked.value[i]) = RowLen(c).value

\* The crate goes over a value in several ways that must not disagree: skip
\* finds the same end as decode_at or the same error, so that the elements a
\* sequence hands out later are those it was checked to have; and the walks of
\* a compact array agree with each other.
WalksAgree ==
    reader = "data" /\ buf # <<>> =>
        /\ Skip(buf, 1, 0).kind = answer.kind
        /\ Skip(buf, 1, 0).at = answer.at
        /\ answer.kind = "ok" /\ answer.value.tag = CompactArray => CompactWalksAgree(answer.value)
        /\ answer.kind = "ok" /\ answer.value.tag \in {Array, Structure} =>
              LET elements == SeqIter(answer.value) IN
              /\ elements.kind = "ok"
              /\ Len(elements.value) = answer.value.n
              /\ elements.at = Len(answer.value.raw) + 1
=============================================================================
