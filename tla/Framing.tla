------------------------------- MODULE Framing ------------------------------
(***************************************************************************)
(* The three formats that find their units in a stream of bytes: HDLC      *)
(* frames (transport/hdlc.rs), wrapper PDUs (transport/wrapper.rs) and P1  *)
(* telegrams (transport/p1.rs).  Each finder is a pure function of the     *)
(* bytes its caller has kept; it answers with a unit and how many bytes to *)
(* drop, or with how many bytes to drop while it waits.                    *)
(*                                                                         *)
(* Checksums are ideal: the bytes of the checksum of a text are symbols    *)
(* above the bytes that no other text here has.                            *)
(***************************************************************************)
EXTENDS Codec

\* A number for a text; distinct for the texts of an instance.
Digest(text) ==
    LET Mix(v, b) == (v * 241 + (b % 8191) + 1) % 8388593 IN FoldLeft(Mix, 7, text)

ChecksumBytes(text, n) == [i \in 1 .. n |-> 1000 + n * Digest(text) + i]

IsByte(b) == b < 256

Positions(s, b) == {i \in DOMAIN s : s[i] = b}

Least(S) == CHOOSE i \in S : \A j \in S : i <= j

From(s, i) == SubSeq(s, i, Len(s))

Found(unit, used) == [kind |-> "unit", unit |-> unit, used |-> used]
Incomplete(discard) == [kind |-> "wait", unit |-> <<>>, used |-> discard]
Refused == [kind |-> "refused", unit |-> <<>>, used |-> 0]

----------------------------------------------------------------------------
(* HDLC                                                                    *)

Flag == 126
MinFrameLen == 7

\* Address: one byte (upper only), or an upper and a lower half of seven bits
\* (size 2) or of fourteen (size 4).
Address(size, upper, lower) == [size |-> size, upper |-> upper, lower |-> lower]

EncodeAddress(a) ==
    CASE a.size = 1 -> <<((2 * a.upper) % 256) + 1>>
      [] a.size = 2 -> <<(2 * a.upper) % 256, ((2 * a.lower) % 256) + 1>>
      [] a.size = 4 -> <<2 * (a.upper \div 128), 2 * (a.upper % 128),
                         2 * (a.lower \div 128), 2 * (a.lower % 128) + 1>>

\* Address::decode: up to four bytes, the last one odd; three are no address.
DecodeAddress(s, at) ==
    LET here == {n \in 1 .. 4 : at + n - 1 <= Len(s)}
        ends == {n \in here : s[at + n - 1] % 2 = 1}
        Part(i) == s[at + i - 1] \div 2
    IN  CASE ends = {} /\ here # 1 .. 4 -> Err("truncated")
          [] ends = {} /\ here = 1 .. 4 -> Err("invalid_value")
          [] OTHER ->
                LET n == Least(ends) IN
                CASE n = 1 -> Ok(Address(1, Part(1), 0), at + 1)
                  [] n = 2 -> Ok(Address(2, Part(1), Part(2)), at + 2)
                  [] n = 3 -> Err("invalid_value")
                  [] n = 4 -> Ok(Address(4, Part(1) * 128 + Part(2),
                                            Part(3) * 128 + Part(4)), at + 4)

\* Control: the kind of the frame and, where it has them, its numbers.
Control(type, ns, nr, pf) == [type |-> type, ns |-> ns, nr |-> nr, pf |-> pf]

Unnumbered == [snrm |-> 147, ua |-> 115, disc |-> 83, dm |-> 31, frmr |-> 151, ui |-> 19]

\* Control::as_u8
ControlByte(c) ==
    CASE c.type = "i"   -> (c.nr % 8) * 32 + c.pf * 16 + (c.ns % 8) * 2
      [] c.type = "rr"  -> (c.nr % 8) * 32 + c.pf * 16 + 1
      [] c.type = "rnr" -> (c.nr % 8) * 32 + c.pf * 16 + 5
      [] OTHER          -> Unnumbered[c.type]

\* Control::from_u8: the poll bit does not tell unnumbered frames apart.
ControlOf(v) ==
    LET pf == (v \div 16) % 2
        nr == (v \div 32) % 8
        unnumbered == {t \in DOMAIN Unnumbered : Unnumbered[t] - 16 = v - 16 * pf}
    IN  CASE v % 2 = 0 -> Control("i", (v \div 2) % 8, nr, pf)
          [] v % 2 = 1 /\ unnumbered # {} -> Control(CHOOSE t \in unnumbered : TRUE, 0, 0, 0)
          [] v % 2 = 1 /\ unnumbered = {} ->
                CASE v % 16 = 1 -> Control("rr", 0, nr, pf)
                  [] v % 16 = 5 -> Control("rnr", 0, nr, pf)
                  [] OTHER      -> Control("frmr", 0, 0, 0)

Frame(segmented, destination, source, control, information) ==
    [segmented |-> segmented, destination |-> destination, source |-> source,
     control |-> control, information |-> information]

\* fcs16, least significant byte first.
Fcs16(text) == ChecksumBytes(text, 2)

\* Encode for Frame, of a frame short enough for the eleven-bit length.
EncodeFrame(f) ==
    LET info == f.information
        size == 2 + f.destination.size + f.source.size + 1
                  + (IF info = <<>> THEN 0 ELSE 2 + Len(info)) + 2
        header == <<160 + (IF f.segmented THEN 8 ELSE 0) + size \div 256, size % 256>>
                    \o EncodeAddress(f.destination) \o EncodeAddress(f.source)
                    \o <<ControlByte(f.control)>>
        checked == header \o (IF info = <<>> THEN <<>> ELSE Fcs16(header) \o info)
    IN  <<Flag>> \o checked \o Fcs16(checked) \o <<Flag>>

\* The length the format field at the start of s announces.
AnnouncedLen(s) == (s[2] % 8) * 256 + (s[3] % 256)

\* What decode_frame reads once the frame is known to be all there.
DecodeWhole(frame) ==
    LET fcsAt == Len(frame) - 2 IN
    Then(DecodeAddress(frame, 4), LAMBDA destination, p :
    Then(DecodeAddress(frame, p), LAMBDA source, q :
    Then(U8(frame, q), LAMBDA control, headerEnd :
        LET Good(info) == Ok(Frame(frame[2] % 16 >= 8, destination, source,
                                   ControlOf(control), info), Len(frame) + 1)
        IN  CASE headerEnd > fcsAt -> Err("invalid_length")
              [] SubSeq(frame, fcsAt, fcsAt + 1) # Fcs16(SubSeq(frame, 2, fcsAt - 1)) ->
                    Err("bad_checksum")
              [] headerEnd = fcsAt -> Good(<<>>)
              [] headerEnd + 2 > fcsAt -> Err("invalid_length")
              [] SubSeq(frame, headerEnd, headerEnd + 1)
                    # Fcs16(SubSeq(frame, 2, headerEnd - 1)) -> Err("bad_checksum")
              [] OTHER -> Good(SubSeq(frame, headerEnd + 2, fcsAt - 1)))))

\* decode_frame, of bytes that begin with a flag.
DecodeFrame(s) ==
    IF Len(s) < 3 THEN Err("truncated")
    ELSE LET total == AnnouncedLen(s) + 2 IN
         CASE s[2] \div 16 # 10             -> Err("invalid_value")
           [] AnnouncedLen(s) < MinFrameLen -> Err("invalid_length")
           [] Len(s) < total                -> Err("truncated")
           [] s[total] # Flag               -> Err("invalid_value")
           [] OTHER                         -> DecodeWhole(SubSeq(s, 1, total))

\* Mutant: the first candidate that is short is waited for.
NextFrameWaits(buf) ==
    LET flags == Positions(buf, Flag)
        Kind(i) == DecodeFrame(From(buf, i)).kind
        likely == {i \in flags : Kind(i) \in {"ok", "truncated"}}
    IN  IF likely = {} THEN Incomplete(Len(buf))
        ELSE LET i == Least(likely)
                 result == DecodeFrame(From(buf, i))
             IN  IF Kind(i) = "ok" THEN Found(result.value, i - 1 + result.at - 1)
                                   ELSE Incomplete(i - 1)

\* Mutant: nothing is dropped before there is a frame.
NextFrameKeeps(buf) ==
    LET whole == {i \in Positions(buf, Flag) : DecodeFrame(From(buf, i)).kind = "ok"}
    IN  IF whole = {} THEN Incomplete(0)
        ELSE LET i == Least(whole)
                 result == DecodeFrame(From(buf, i))
             IN  Found(result.value, i - 1 + result.at - 1)

\* Framer::next_frame: every flag is tried, a complete frame wins, and what
\* comes before the first candidate that is still short is noise.
NextFrame(buf) ==
    LET flags == Positions(buf, Flag)
        whole == {i \in flags : DecodeFrame(From(buf, i)).kind = "ok"}
        short == {i \in flags : IsTruncated(DecodeFrame(From(buf, i)))}
    IN  CASE whole # {} ->
                LET i == Least(whole)
                    result == DecodeFrame(From(buf, i))
                IN  Found(result.value, i - 1 + result.at - 1)
          [] whole = {} /\ short # {} -> Incomplete(Least(short) - 1)
          [] whole = {} /\ short = {} -> Incomplete(Len(buf))

----------------------------------------------------------------------------
(* The TCP and UDP wrapper                                                 *)

WrapperVersion == 1
HeaderLen == 8

Word(s, i) == s[i] * 256 + s[i + 1]
WriteWord(n) == <<n \div 256, n % 256>>

Wpdu(source, destination, apdu) ==
    [source |-> source, destination |-> destination, apdu |-> apdu]

EncodeWpdu(w) ==
    WriteWord(WrapperVersion) \o WriteWord(w.source) \o WriteWord(w.destination)
      \o WriteWord(Len(w.apdu)) \o w.apdu

\* StreamReassembler::next_pdu; a maximum of zero means there is none.
NextPdu(buf, maxApdu) ==
    IF Len(buf) < HeaderLen THEN Incomplete(0)
    ELSE LET total == HeaderLen + Word(buf, 7) IN
         CASE Word(buf, 1) # WrapperVersion -> Refused
           [] Word(buf, 1) = WrapperVersion /\ maxApdu # 0 /\ Word(buf, 7) > maxApdu -> Refused
           [] OTHER ->
                IF Len(buf) < total THEN Incomplete(0)
                ELSE Found(Wpdu(Word(buf, 3), Word(buf, 5),
                                SubSeq(buf, HeaderLen + 1, total)), total)

----------------------------------------------------------------------------
(* The P1 port                                                             *)

Slash == 47
Bang == 33
Cr == 13
Lf == 10

\* Four hexadecimal characters, most significant first.
Crc16(text) == ChecksumBytes(text, 4)

IsHexDigit(b) == b \in (48 .. 57) \cup (65 .. 70) \cup (97 .. 102) \/ ~IsByte(b)

\* A byte above 127 is never text here: P1 is ASCII.
IsText(s) == \A i \in DOMAIN s : IsByte(s[i]) => s[i] < 128

Telegram(identification, body) == [identification |-> identification, body |-> body]

\* The identification, a line end, the body and the closing mark; then the
\* checksum of everything before it and a line end.
EncodeTelegram(t, checksum) ==
    LET checked == <<Slash>> \o t.identification \o <<Cr, Lf>> \o t.body \o <<Bang>>
    IN  checked \o (IF checksum THEN Crc16(checked) ELSE <<>>) \o <<Cr, Lf>>

TrimEnd(s) ==
    LET solid == {i \in DOMAIN s : s[i] \notin {Cr, Lf, 32}}
    IN  SubSeq(s, 1, IF solid = {} THEN 0 ELSE CHOOSE i \in solid : \A j \in solid : i >= j)

\* The line end after a telegram goes with it if it is there already.
WithLineEnd(s, used) ==
    CASE IsPrefix(<<Cr, Lf>>, From(s, used + 1)) -> used + 2
      [] IsPrefix(<<Lf>>, From(s, used + 1))     -> used + 1
      [] OTHER                                   -> used

\* TelegramReader::parse, of bytes that begin with a slash.
ParseTelegram(s, requireChecksum) ==
    IF ~IsText(s) THEN Err("broken")
    ELSE IF Positions(s, Bang) = {} THEN Err("truncated")
    ELSE LET bang == Least(Positions(s, Bang))
             checked == SubSeq(s, 1, bang)
             after == From(s, bang + 1)
             printed == SubSeq(after, 1, 4)
             isHex == Len(after) >= 4 /\ \A i \in 1 .. 4 : IsHexDigit(after[i])
             used == IF requireChecksum \/ isHex THEN bang + 4 ELSE bang
             head == SubSeq(s, 2, bang - 1)
             lines == Positions(head, Lf)
             telegram == IF lines = {} THEN Telegram(TrimEnd(head), <<>>)
                         ELSE Telegram(TrimEnd(SubSeq(head, 1, Least(lines) - 1)),
                                       From(head, Least(lines) + 1))
         IN  CASE requireChecksum /\ Len(after) < 4 -> Err("truncated")
               [] requireChecksum /\ Len(after) >= 4 /\ (~isHex \/ printed # Crc16(checked)) ->
                    Err("broken")
               [] OTHER -> Ok(telegram, WithLineEnd(s, used) + 1)

\* TelegramReader::next_telegram: the same search as the HDLC framer's.
NextTelegram(buf, requireChecksum) ==
    LET starts == Positions(buf, Slash)
        Parsed(i) == ParseTelegram(From(buf, i), requireChecksum)
        whole == {i \in starts : Parsed(i).kind = "ok"}
        short == {i \in starts : IsTruncated(Parsed(i))}
    IN  CASE whole # {} ->
                Found(Parsed(Least(whole)).value, Least(whole) - 1 + Parsed(Least(whole)).at - 1)
          [] whole = {} /\ short # {} -> Incomplete(Least(short) - 1)
          [] whole = {} /\ short = {} -> Incomplete(Len(buf))
=============================================================================
