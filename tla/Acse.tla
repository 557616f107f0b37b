-------------------------------- MODULE Acse --------------------------------
(***************************************************************************)
(* The BER of the association-control APDUs (ber.rs) and the APDUs: AARQ,  *)
(* AARE and the two that release an association (acse.rs).  Each is a list *)
(* of fields told apart by a context tag number; what was read is, for     *)
(* every field of the APDU, <<v>> or, if the field is absent, <<>>.        *)
(* Contexts, mechanisms, results, diagnostics and reasons are their codes: *)
(* the code names some and keeps every other as it is.                     *)
(***************************************************************************)
EXTENDS Codec, TLC

\* read_tlv: identifiers of one byte, definite lengths of up to four.
ReadTlv(s, at) ==
    Then(U8(s, at), LAMBDA tag, p :
        IF tag % 32 = 31 THEN Err("invalid_tag")
        ELSE Then(LengthPrefixed(s, p), LAMBDA v, q : Ok([tag |-> tag, value |-> v], q)))

\* write_tlv and write_constructed
WriteTlv(tag, value) == <<tag>> \o WriteLengthPrefixed(value)

IsConstructed(tlv) == (tlv.tag \div 32) % 2 = 1

ContextNumber(tlv) == IF tlv.tag \div 64 = 2 THEN tlv.tag % 32 ELSE -1

AsU8(tlv) == IF Len(tlv.value) = 1 THEN Ok(tlv.value[1], 0) ELSE Err("invalid_length")

OidPrefix == <<96, 133, 116, 5, 8>>

Oid(branch, arc) == OidPrefix \o <<branch, arc>>

\* check_oid_prefix: the last arc; the branch is not looked at.
OidArc(value) ==
    IF Len(value) = 7 /\ SubSeq(value, 1, 5) = OidPrefix THEN Ok(value[7], 0)
                                                         ELSE Err("invalid_value")

\* inner_octets: a primitive field is the value itself.
InnerOctets(tlv, expected) ==
    IF ~IsConstructed(tlv) THEN Ok(tlv.value, 0)
    ELSE Then(ReadTlv(tlv.value, 1), LAMBDA inner, p :
        IF inner.tag = expected THEN Ok(inner.value, 0) ELSE Err("invalid_tag"))

\* authentication_bit: the top bit of the first byte after the unused-bit count.
AuthenticationBit(value) == Len(value) >= 2 /\ value[2] >= 128

----------------------------------------------------------------------------
(* The fields, in the order they are written.                              *)

Field(number, kind) == [number |-> number, kind |-> kind]

Aarq == <<Field(1, "context"), Field(2, "octets"), Field(6, "octets"), Field(7, "octets"),
          Field(10, "requirements"), Field(11, "mechanism"), Field(12, "challenge"),
          Field(30, "octets")>>

Aare == <<Field(1, "context"), Field(2, "result"), Field(3, "diagnostic"), Field(4, "octets"),
          Field(8, "requirements"), Field(9, "mechanism"), Field(10, "challenge"),
          Field(30, "octets")>>

Rlrq == <<Field(0, "reason"), Field(30, "octets")>>
Rlre == Rlrq

AcseApdus == 96 :> Aarq @@ 97 :> Aare @@ 98 :> Rlrq @@ 99 :> Rlre

\* Aare's default: accepted, a null diagnostic of the user; nothing else is there.
DefaultField(field) ==
    CASE field.kind = "result"     -> <<0>>
      [] field.kind = "diagnostic" -> <<<<1, 0>>>>
      [] OTHER                     -> <<>>

\* A diagnostic is who gave it (1 the user, 2 the provider) and the code.
ReadDiagnostic(tlv) ==
    Then(ReadTlv(tlv.value, 1), LAMBDA inner, p :
    Then(ReadTlv(inner.value, 1), LAMBDA code, q :
    Then(AsU8(code), LAMBDA d, e : Ok(<<<<IF ContextNumber(inner) = 1 THEN 1 ELSE 2, d>>>>, 0))))

ReadField(kind, tlv) ==
    LET Some(result) == Then(result, LAMBDA v, p : Ok(<<v>>, 0)) IN
    CASE kind = "context" ->
            Then(ReadTlv(tlv.value, 1), LAMBDA inner, p :
                IF inner.tag = 6 THEN Some(OidArc(inner.value)) ELSE Err("invalid_tag"))
      [] kind = "mechanism"    -> Some(OidArc(tlv.value))
      [] kind = "octets"       -> Some(InnerOctets(tlv, 4))
      [] kind = "challenge"    -> Some(InnerOctets(tlv, 128))
      [] kind = "requirements" -> Ok(IF AuthenticationBit(tlv.value) THEN <<TRUE>> ELSE <<>>, 0)
      [] kind = "result"       -> Then(ReadTlv(tlv.value, 1), LAMBDA inner, p : Some(AsU8(inner)))
      [] kind = "diagnostic"   -> ReadDiagnostic(tlv)
      [] kind = "reason"       -> Some(AsU8(tlv))

WriteField(field, v) ==
    LET primitive == 128 + field.number
        constructed == 160 + field.number
    IN  CASE field.kind = "context"      -> WriteTlv(constructed, WriteTlv(6, Oid(1, v)))
          [] field.kind = "mechanism"    -> WriteTlv(primitive, Oid(2, v))
          [] field.kind = "octets"       -> WriteTlv(constructed, WriteTlv(4, v))
          [] field.kind = "challenge"    -> WriteTlv(constructed, WriteTlv(128, v))
          [] field.kind = "requirements" -> WriteTlv(primitive, <<7, 128>>)
          [] field.kind = "result"       -> WriteTlv(constructed, WriteTlv(2, <<v>>))
          [] field.kind = "diagnostic"   ->
                WriteTlv(constructed, WriteTlv(160 + v[1], WriteTlv(2, <<v[2]>>)))
          [] field.kind = "reason"       -> WriteTlv(primitive, <<v>>)

RECURSIVE IterTlv(_, _, _, _)

\* The loop over the contents: a later occurrence of a field replaces an earlier
\* one, and what the APDU has no field for is passed over.
IterTlv(fields, s, at, sofar) ==
    IF at > Len(s) THEN Ok(sofar, at)
    ELSE Then(ReadTlv(s, at), LAMBDA tlv, p :
        LET mine == {i \in DOMAIN fields : fields[i].number = ContextNumber(tlv)} IN
        IF mine = {} THEN IterTlv(fields, s, p, sofar)
        ELSE LET i == CHOOSE j \in mine : TRUE
             IN  Then(ReadField(fields[i].kind, tlv), LAMBDA v, q :
                      IterTlv(fields, s, p, [sofar EXCEPT ![i] = v])))

\* Decode for Aarq, Aare, Rlrq and Rlre, the tag byte chosen by being there.
DecodeAcse(fields, s, at) ==
    Then(ReadTlv(s, at), LAMBDA outer, p :
        Then(IterTlv(fields, outer.value, 1, [i \in DOMAIN fields |-> DefaultField(fields[i])]),
             LAMBDA body, q : Ok(body, p)))

EncodeAcse(tag, body) ==
    LET fields == AcseApdus[tag]
        Written(i) == IF body[i] = <<>> THEN <<>> ELSE WriteField(fields[i], body[i][1])
    IN  WriteTlv(tag, FlattenSeq([i \in DOMAIN fields |-> Written(i)]))
=============================================================================
