------------------------------- MODULE MCWire -------------------------------
(* What is on the line in the runs about Wire. *)
EXTENDS Wire

Station(n) == Address(1, n, 0)
Quad == Address(4, 130, 17)

\* A bare command, a reply whose information looks like the start of a frame, and
\* a segment for a station with four-byte addressing.
HdlcUnits ==
    {Frame(FALSE, Station(1), Station(16), Control("snrm", 0, 0, 0), <<>>),
     Frame(FALSE, Station(16), Station(1), Control("i", 1, 2, 1), <<126, 160, 9>>),
     Frame(TRUE, Quad, Address(2, 1, 16), Control("i", 0, 0, 0), <<5>>)}

\* Flags, false starts that announce a little and a lot, and an interrupted one.
HdlcNoise == {<<126>>, <<126, 167, 255>>, <<126, 160, 7>>, <<5, 126, 160>>}

WrapperUnits == {Wpdu(1, 16, <<>>), Wpdu(16, 1, <<192, 0, 1>>), Wpdu(258, 1, <<0, 1>>)}
TooLong == {<<0, 1, 0, 1, 0, 16, 0, 4>>, <<0, 2, 0, 1>>}

P1Units == {Telegram(<<73, 83>>, <<49, 13, 10>>), Telegram(<<65>>, <<>>)}
P1Noise == {<<47, 65>>, <<33>>, <<47, 65, 13, 10, 49, 33, 48>>}
P1BareNoise == {<<33>>, <<65, 13, 10>>}

SerialUnits ==
    [r \in {"hdlc", "wrapper", "p1", "p1bare"} |->
        CASE r = "hdlc" -> HdlcUnits [] r = "wrapper" -> WrapperUnits [] OTHER -> P1Units]
SerialNoise ==
    [r \in DOMAIN SerialUnits |->
        CASE r = "hdlc" -> HdlcNoise [] r = "wrapper" -> TooLong
          [] r = "p1" -> P1Noise [] r = "p1bare" -> P1BareNoise]

\* One byte with its top bit set: not text, wherever it turns up.
BitErrorUnits == [r \in {"p1"} |-> P1Units]
BitErrorNoise == [r \in {"p1"} |-> {<<200>>}]

----------------------------------------------------------------------------
(* Messages.                                                               *)

D == <<0, 3, 1, 0, 1, 8, 0, 255, 2>>        \* a descriptor
V == <<17, 5>>                               \* a value
Sel == <<1, 2>> \o <<2, 1, 17, 1>>           \* a selection, present
Blk == <<0, 0, 0, 1>>                        \* a block number
Sa == <<7>> \o Blk \o <<2, 8, 9>>            \* a block; any non-zero byte means the last
Date == [i \in 1 .. 12 |-> i]
Ci == <<7, 48, 0, 0, 0, 9, 1, 2>>            \* a ciphered service

GetMessages ==
    {<<192, 1, 65>> \o D \o <<0>>, <<192, 1, 65>> \o D \o Sel, <<192, 2, 65>> \o Blk,
     <<192, 3, 65, 129, 2>> \o D \o <<0>> \o D \o Sel,
     <<196, 1, 65, 0>> \o V, <<196, 1, 65, 1, 200>>, <<196, 2, 65, 0>> \o Blk \o <<0, 2, 8, 9>>,
     <<196, 2, 65, 1>> \o Blk \o <<1, 4>>, <<196, 3, 65, 2, 0>> \o V \o <<1, 3>>}
SetMessages ==
    {<<193, 1, 65>> \o D \o <<0>> \o V, <<193, 2, 65>> \o D \o Sel \o Sa, <<193, 3, 65>> \o Sa,
     <<193, 4, 65, 1>> \o D \o <<0, 1>> \o V, <<193, 5, 65, 1>> \o D \o <<0>> \o Sa,
     <<197, 1, 65, 0>>, <<197, 2, 65>> \o Blk, <<197, 3, 65, 11>> \o Blk,
     <<197, 4, 65, 2, 0, 9>> \o Blk, <<197, 5, 65, 2, 0, 9>>}
ActionMessages ==
    {<<195, 1, 65>> \o D \o <<1>> \o V, <<195, 2, 65>> \o Blk,
     <<195, 3, 65, 1>> \o D \o <<1>> \o V, <<195, 4, 65>> \o D \o Sa,
     <<195, 5, 65, 1>> \o D \o Sa, <<195, 6, 65>> \o Sa,
     <<199, 1, 65, 0, 1, 0>> \o V, <<199, 1, 65, 3, 0>>, <<199, 2, 65>> \o Sa,
     <<199, 3, 65, 2, 0, 0, 0, 1, 1, 4>>, <<199, 4, 65>> \o Blk}
AccessMessages ==
    {<<217>> \o Blk \o <<0, 3, 1>> \o D \o <<3>> \o D \o <<4>> \o D \o <<0, 3, 0, 0, 0>>,
     <<217>> \o Blk \o <<0, 2, 2>> \o D \o <<5>> \o D \o <<0, 2>> \o V \o V,
     <<218>> \o Blk \o <<12>> \o Date \o <<0, 1>> \o V \o <<2, 1, 0, 3, 4>>,
     <<218>> \o Blk \o <<0, 1, 1, 2>> \o D \o <<1, 0, 1, 2, 0>>}
NoticeMessages ==
    {<<15>> \o Blk \o <<0>> \o V, <<15>> \o Blk \o <<12>> \o Date \o V,
     <<194, 1, 12>> \o Date \o D \o V, <<194, 0>> \o D \o V}
ShortNameMessages ==
    {<<5, 2, 2, 32, 8, 4, 32, 16, 1>> \o V, <<5, 3, 5, 0, 1, 6, 3, 0, 1, 1, 9, 7, 0, 0, 1>>,
     <<6, 1, 2, 32, 8, 1>> \o V, <<22, 1, 2, 32, 8, 1>> \o V,
     <<12, 2, 0>> \o V \o <<1, 3>>, <<12, 2, 2, 1, 0, 1, 1, 9, 3, 0, 2>>,
     <<13, 3, 0, 1, 3, 2, 0, 1>>, <<24, 1, 1, 9, 1, 2, 32, 8, 1>> \o V}
AssociationMessages ==
    {<<1, 1, 2, 7, 7, 1, 0, 1, 3, 6, 95, 31, 4, 0, 0, 30, 29, 4, 0>>,
     <<1, 0, 0, 0, 6, 95, 31, 4, 0, 0, 30, 29, 4, 0>>,
     <<8, 0, 6, 95, 31, 4, 0, 0, 30, 29, 1, 0, 0, 7>>,
     <<14, 1, 6, 2>>, <<216, 1, 2>>, <<216, 1, 6, 0, 0, 0, 9>>, <<40>> \o Ci}
GeneralMessages ==
    {<<224, 193, 0, 1, 0, 0, 2, 8, 9>>, <<200>> \o Ci, <<208>> \o Ci, <<37>> \o Ci, <<69>> \o Ci,
     <<219, 1, 9>> \o Ci, <<220, 1, 9>> \o Ci, <<200, 3, 1, 2, 3>>,
     <<221, 1, 1, 1, 9, 1, 8, 0, 0, 1, 0, 1>> \o Ci, <<221, 0, 0, 0, 0, 0, 1, 1, 2, 1, 7>> \o Ci,
     <<221, 0, 0, 0, 0, 0, 1, 2, 1, 6, 1, 7>> \o Ci, <<221, 0, 0, 0, 0, 0, 0>> \o Ci,
     <<223, 1, 1, 0, 0, 0, 0, 1, 5, 1, 6>>, <<230, 1, 2, 8, 9>> \o V, <<231, 1, 0>>,
     <<25>>}

\* Associations: with everything, with the least, with fields repeated, given in
\* primitive form, or of no interest.
T(tag, value) == WriteTlv(tag, value)
AcseMessages ==
    {T(96, T(161, T(6, Oid(1, 3))) \o T(166, T(4, <<7>>)) \o T(138, <<7, 128>>)
             \o T(139, Oid(2, 5)) \o T(172, T(128, <<8>>)) \o T(190, T(4, <<1>>))),
     T(96, T(130, <<9>>) \o T(167, T(4, <<>>)) \o T(138, <<7, 128>>) \o T(138, <<7>>)),
     T(97, T(161, T(6, Oid(1, 1))) \o T(162, T(2, <<1>>)) \o T(163, T(162, T(2, <<3>>)))),
     T(97, T(164, T(4, <<6>>)) \o T(136, <<7, 128, 0>>) \o T(137, Oid(1, 7))
             \o T(170, T(128, <<8>>)) \o T(168, <<>>)),
     T(98, T(128, <<0>>) \o T(190, T(4, <<1, 2>>))), T(99, T(128, <<30>>) \o T(4, <<1>>)),
     T(98, <<>>), <<96, 129, 2, 190, 4>>}

Long == [i \in 1 .. 128 |-> i]

DataMessages ==
    {<<>>, <<19, 2, 2, 17, 9, 5, 1, 1, 65, 2, 0>>, <<19, 1, 0, 2, 17, 4, 1, 2, 3, 4>>,
     <<19, 0, 1, 7>>, <<19, 1, 0, 3, 2, 2, 0, 17, 2, 5, 6>>, <<2, 1, 19, 17, 2, 7, 8>>,
     <<1, 2, 26, 7, 232, 1, 1, 1, 17, 9>>, <<2, 2, 27, 1, 2, 3, 4, 3, 5>>,
     <<19, 2, 2, 26, 17, 12, 7, 232, 1, 1, 1, 9, 7, 232, 1, 1, 2, 8>>,
     <<1, 2, 4, 3, 160, 255>>, <<4, 9, 160, 128>>, <<9, 129, 128>> \o Long,
     <<9, 130, 0, 2, 1, 2>>, <<1, 129, 1, 0>>, <<1, 1, 1, 1, 1, 1, 1, 1, 0>>,
     <<25>> \o Date, <<2, 3, 16, 0, 1, 5, 0, 0, 0, 1, 20, 0, 0, 0, 0, 0, 0, 0, 1>>,
     <<19, 1, 0, 2, 1, 0, 2, 1, 0, 1, 17, 4, 1, 2, 3, 4>>}

Messages ==
    [c \in {"data", "apdu"} |->
        IF c = "data" THEN DataMessages
        ELSE UNION {GetMessages, SetMessages, ActionMessages, AccessMessages, NoticeMessages,
                    ShortNameMessages, AssociationMessages, GeneralMessages,
                    AcseMessages}]
NoMessages == [c \in {} |-> {}]

Growth == [c \in {"data", "apdu"} |-> IF c = "data" THEN 5 ELSE 0]
=============================================================================
