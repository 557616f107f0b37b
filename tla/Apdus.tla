-------------------------------- MODULE Apdus -------------------------------
(***************************************************************************)
(* The xDLMS APDUs (xdlms/): what each is made of, and how the tag byte    *)
(* chooses between them.  Every APDU of the crate has an encoder and a     *)
(* decoder written field by field; here both follow from one description   *)
(* of the fields, read by Read and written by Write.  A decoded field is   *)
(* the sequence of its bytes, except that a bool is <<0>> or <<1>>, a      *)
(* value is a Data record and an absent option is <<>>.                    *)
(* The ACSE APDUs are those of Acse.                                       *)
(***************************************************************************)
EXTENDS Axdr, Acse

(* The kinds of field.                                                     *)
Fixed(n) == [k |-> "fixed", n |-> n]          \* u8, u16, u32, [u8; n]
Bool == [k |-> "bool"]                        \* a byte, zero or not
Octets == [k |-> "octets"]                    \* length-prefixed bytes
Rest == [k |-> "rest"]                        \* all that is left
Value == [k |-> "data"]                       \* a Data
Fields(fs) == [k |-> "fields", of |-> fs]     \* one after another
Choice(alts) == [k |-> "choice", of |-> alts] \* a tag, then that alternative

\* encode_optional and decode_optional: any non-zero byte means present.
Optional(f) == [k |-> "optional", of |-> f]

\* List: a count and that many elements, kept as their bytes.
List(f) == [k |-> "list", of |-> f]

\* The choice of a service: its byte, the invoke id, and only then the choice.
Service(alts) == [k |-> "service", of |-> alts]

\* DataAccessResult and ActionResult: every byte is one, Other(v) if unnamed.
ResultCode == Fixed(1)

LongInvokeId == Fixed(4)
BlockNumber == Fixed(4)

\* OptionalDateTime: length-prefixed, and nothing or twelve bytes.
OptionalDateTime == [k |-> "sized", of |-> {0, 12}]
DateTimeOctets == [k |-> "sized", of |-> {12}]

\* Conformance::encode_tagged and decode_tagged: 5F 1F 04 00 and three bytes.
Conformance == [k |-> "conformance"]

\* CipheredService: length-prefixed control byte, counter and payload.
CipheredService == [k |-> "ciphered"]

\* ExceptionResponse: two codes, and a counter if it is one and it is there.
ExceptionResponse == [k |-> "exception"]
InvocationCounterError == 6

----------------------------------------------------------------------------
(* Reading and writing.                                                    *)

ReadConformance(s, at) ==
    Then(U8(s, at), LAMBDA t0, p :
    Then(U8(s, p), LAMBDA t1, q :
        IF t0 # 95 \/ t1 # 31 THEN Err("invalid_tag")
        ELSE Then(U8(s, q), LAMBDA len, v :
            IF len # 4 THEN Err("invalid_length")
            ELSE Then(U8(s, v), LAMBDA unused, w :
                IF unused # 0 THEN Err("invalid_value") ELSE Take(s, w, 3)))))

ReadCiphered(s, at) ==
    Then(LengthPrefixed(s, at), LAMBDA body, p :
        Then(Take(body, 1, 5), LAMBDA head, q : Ok(<<head, SubSeq(body, q, Len(body))>>, p)))

ReadException(s, at) ==
    Then(Take(s, at, 2), LAMBDA codes, p :
        IF codes[2] = InvocationCounterError /\ Remaining(s, p) >= 4
        THEN Then(Take(s, p, 4), LAMBDA ic, q : Ok(<<codes, ic>>, q))
        ELSE Ok(<<codes, <<>>>>, p))

RECURSIVE Read(_, _, _), ReadFields(_, _, _, _), ReadList(_, _, _, _)

Read(f, s, at) ==
    CASE f.k = "fixed"  -> Take(s, at, f.n)
      [] f.k = "bool"   -> Then(U8(s, at), LAMBDA b, p : Ok(<<IF b # 0 THEN 1 ELSE 0>>, p))
      [] f.k = "octets" -> LengthPrefixed(s, at)
      [] f.k = "rest"   -> TakeRest(s, at)
      [] f.k = "data"   -> DecodeData(s, at)
      [] f.k = "sized"  ->
            Then(LengthPrefixed(s, at), LAMBDA b, p :
                IF Len(b) \in f.of THEN Ok(b, p) ELSE Err("invalid_length"))
      [] f.k = "optional" ->
            Then(U8(s, at), LAMBDA b, p :
                IF b = 0 THEN Ok(<<>>, p)
                ELSE Then(Read(f.of, s, p), LAMBDA v, q : Ok(<<v>>, q)))
      [] f.k = "list" ->
            Then(Length(s, at), LAMBDA n, p :
                Then(ReadList(f.of, s, p, n), LAMBDA none, q :
                    Ok(<<<<n>>, SubSeq(s, p, q - 1)>>, q)))
      [] f.k = "fields" -> ReadFields(f.of, s, at, <<>>)
      [] f.k = "choice" ->
            Then(U8(s, at), LAMBDA c, p :
                IF c \notin DOMAIN f.of THEN Err("invalid_tag")
                ELSE Then(Read(f.of[c], s, p), LAMBDA v, q : Ok(<<<<c>>, v>>, q)))
      [] f.k = "service" ->
            Then(U8(s, at), LAMBDA c, p :
            Then(U8(s, p), LAMBDA id, q :
                IF c \notin DOMAIN f.of THEN Err("invalid_tag")
                ELSE Then(Read(f.of[c], s, q), LAMBDA v, e : Ok(<<<<c, id>>, v>>, e))))
      [] f.k = "conformance" -> ReadConformance(s, at)
      [] f.k = "ciphered"    -> ReadCiphered(s, at)
      [] f.k = "exception"   -> ReadException(s, at)

ReadFields(fs, s, at, sofar) ==
    IF fs = <<>> THEN Ok(sofar, at)
    ELSE Then(Read(Head(fs), s, at), LAMBDA v, p :
            ReadFields(Tail(fs), s, p, Append(sofar, v)))

ReadList(f, s, at, n) ==
    IF n = 0 THEN Ok(<<>>, at)
    ELSE Then(Read(f, s, at), LAMBDA v, p : ReadList(f, s, p, n - 1))

RECURSIVE Write(_, _)

Write(f, v) ==
    CASE f.k \in {"fixed", "bool", "rest"} -> v
      [] f.k \in {"octets", "sized"}       -> WriteLengthPrefixed(v)
      [] f.k = "data"        -> EncodeData(v)
      [] f.k = "optional"    -> IF v = <<>> THEN <<0>> ELSE <<1>> \o Write(f.of, v[1])
      [] f.k = "list"        -> WriteLength(v[1][1]) \o v[2]
      [] f.k = "fields"      -> FlattenSeq([i \in DOMAIN f.of |-> Write(f.of[i], v[i])])
      [] f.k \in {"choice", "service"} -> v[1] \o Write(f.of[v[1][1]], v[2])
      [] f.k = "conformance" -> <<95, 31, 4, 0>> \o v
      [] f.k = "ciphered"    -> WriteLength(5 + Len(v[2])) \o v[1] \o v[2]
      [] f.k = "exception"   -> v[1] \o v[2]

----------------------------------------------------------------------------
(* Descriptors and blocks.                                                 *)

\* Class, logical name, attribute or method.
AttributeDescriptor == Fields(<<Fixed(2), Fixed(6), Fixed(1)>>)
MethodDescriptor == Fields(<<Fixed(2), Fixed(6), Fixed(1)>>)

SelectiveAccess == Fields(<<Fixed(1), Value>>)
AttributeDescriptorWithSelection == Fields(<<AttributeDescriptor, Optional(SelectiveAccess)>>)

GetDataResult == Choice(0 :> Value @@ 1 :> ResultCode)
DataBlockG == Fields(<<Bool, BlockNumber, Choice(0 :> Octets @@ 1 :> ResultCode)>>)
DataBlockSA == Fields(<<Bool, BlockNumber, Octets>>)

----------------------------------------------------------------------------
(* GET, SET and ACTION.                                                    *)

GetRequest == Service(
    1 :> Fields(<<AttributeDescriptor, Optional(SelectiveAccess)>>) @@
    2 :> BlockNumber @@
    3 :> List(AttributeDescriptorWithSelection))

GetResponse == Service(1 :> GetDataResult @@ 2 :> DataBlockG @@ 3 :> List(GetDataResult))

SetRequest == Service(
    1 :> Fields(<<AttributeDescriptor, Optional(SelectiveAccess), Value>>) @@
    2 :> Fields(<<AttributeDescriptor, Optional(SelectiveAccess), DataBlockSA>>) @@
    3 :> DataBlockSA @@
    4 :> Fields(<<List(AttributeDescriptorWithSelection), List(Value)>>) @@
    5 :> Fields(<<List(AttributeDescriptorWithSelection), DataBlockSA>>))

SetResponse == Service(
    1 :> ResultCode @@
    2 :> BlockNumber @@
    3 :> Fields(<<ResultCode, BlockNumber>>) @@
    4 :> Fields(<<List(ResultCode), BlockNumber>>) @@
    5 :> List(ResultCode))

ActionRequest == Service(
    1 :> Fields(<<MethodDescriptor, Optional(Value)>>) @@
    2 :> BlockNumber @@
    3 :> Fields(<<List(MethodDescriptor), List(Value)>>) @@
    4 :> Fields(<<MethodDescriptor, DataBlockSA>>) @@
    5 :> Fields(<<List(MethodDescriptor), DataBlockSA>>) @@
    6 :> DataBlockSA)

ActionResponseWithOptionalData == Fields(<<ResultCode, Optional(GetDataResult)>>)

ActionResponse == Service(
    1 :> ActionResponseWithOptionalData @@
    2 :> DataBlockSA @@
    3 :> List(ActionResponseWithOptionalData) @@
    4 :> BlockNumber)

----------------------------------------------------------------------------
(* ACCESS, notifications and the short-name services.                      *)

AccessRequestSpecification == Choice(
    1 :> AttributeDescriptor @@ 2 :> AttributeDescriptor @@ 3 :> MethodDescriptor @@
    4 :> AttributeDescriptorWithSelection @@ 5 :> AttributeDescriptorWithSelection)

AccessResponseSpecification == Choice([c \in 1 .. 3 |-> ResultCode])

AccessRequest == Fields(<<LongInvokeId, OptionalDateTime,
                          List(AccessRequestSpecification), List(Value)>>)

AccessResponse == Fields(<<LongInvokeId, OptionalDateTime,
                           Optional(List(AccessRequestSpecification)),
                           List(Value), List(AccessResponseSpecification)>>)

DataNotification == Fields(<<LongInvokeId, OptionalDateTime, Value>>)

EventNotification == Fields(<<Optional(DateTimeOctets), AttributeDescriptor, Value>>)

VariableAccess == Choice(
    2 :> Fixed(2) @@
    4 :> Fields(<<Fixed(2), Fixed(1), Value>>) @@
    5 :> Fixed(2) @@
    6 :> Fields(<<Bool, Fixed(2), Octets>>) @@
    7 :> Fields(<<Bool, Fixed(2)>>))

ReadResult == Choice(
    0 :> Value @@ 1 :> ResultCode @@ 2 :> Fields(<<Bool, Fixed(2), Octets>>) @@ 3 :> Fixed(2))

WriteResult == Choice(0 :> Fixed(0) @@ 1 :> ResultCode @@ 2 :> Fixed(2))

ReadRequest == List(VariableAccess)
ReadResponse == List(ReadResult)
WriteRequest == Fields(<<List(VariableAccess), List(Value)>>)
WriteResponse == List(WriteResult)
UnconfirmedWriteRequest == Fields(<<List(VariableAccess), List(Value)>>)
InformationReportRequest == Fields(<<Optional(Octets), List(VariableAccess), List(Value)>>)

----------------------------------------------------------------------------
(* Association, errors, blocks and protection.                             *)

\* Dedicated key, response allowed, quality of service, version, conformance, size.
InitiateRequest == Fields(<<Optional(Octets), Optional(Bool), Optional(Fixed(1)),
                            Fixed(1), Conformance, Fixed(2)>>)

InitiateResponse == Fields(<<Optional(Fixed(1)), Fixed(1), Conformance, Fixed(2), Fixed(2)>>)

ConfirmedServiceError == Fixed(3)

\* Block control, number, acknowledged number, data.
GeneralBlockTransfer == Fields(<<Fixed(1), Fixed(2), Fixed(2), Octets>>)

GeneralGloCiphering == Fields(<<Octets, CipheredService>>)

KeyInfo == Choice(0 :> Fixed(1) @@ 1 :> Fields(<<Fixed(1), Octets>>) @@
                  2 :> Fields(<<Octets, Octets>>))

GeneralCiphering == Fields(<<Octets, Octets, Octets, Octets, Octets,
                             Optional(KeyInfo), CipheredService>>)

GeneralSigning == Fields([i \in 1 .. 7 |-> Octets])

Gateway == Fields(<<Fixed(1), Octets, Rest>>)

----------------------------------------------------------------------------
(* The tag byte.                                                           *)

\* The services that have ciphered forms, by how far away the forms are.
LowServices == {1, 5, 6, 8, 12, 13, 14, 22, 24}
HighServices == {192, 193, 194, 195, 196, 197, 199}
Services == LowServices \cup HighServices

Offset(protection, service) ==
    CASE service \in LowServices  -> IF protection = "global" THEN 32 ELSE 64
      [] service \in HighServices -> IF protection = "global" THEN 8 ELSE 16

\* Mutant: both protections at the distance of the global one.
ProtectedAsGlobal(protection, service) == service + Offset("global", service)

\* ApduTag::protected_as, for the services that have such a form.
ProtectedAs(protection, service) == service + Offset(protection, service)

\* ApduTag::unprotect: the ciphered form of what, if of anything.
Unprotect(tag) ==
    {<<p, service>> \in {"global", "dedicated"} \X Services : service + Offset(p, service) = tag}

\* What follows the tag byte of an APDU that is not a ciphered service.
Body ==
    1 :> InitiateRequest @@ 5 :> ReadRequest @@ 6 :> WriteRequest @@
    8 :> InitiateResponse @@ 12 :> ReadResponse @@ 13 :> WriteResponse @@
    14 :> ConfirmedServiceError @@ 15 :> DataNotification @@
    22 :> UnconfirmedWriteRequest @@ 24 :> InformationReportRequest @@
    192 :> GetRequest @@ 193 :> SetRequest @@ 194 :> EventNotification @@
    195 :> ActionRequest @@ 196 :> GetResponse @@ 197 :> SetResponse @@
    199 :> ActionResponse @@ 216 :> ExceptionResponse @@ 217 :> AccessRequest @@
    218 :> AccessResponse @@ 219 :> GeneralGloCiphering @@ 220 :> GeneralGloCiphering @@
    221 :> GeneralCiphering @@ 223 :> GeneralSigning @@ 224 :> GeneralBlockTransfer @@
    230 :> Gateway @@ 231 :> Gateway

Apdu(protection, tag, body) == [protection |-> protection, tag |-> tag, body |-> body]

\* Decode for Apdu: the tags without a body (ping, discovery) are refused.
DecodeApdu(s, at) ==
    Then(U8(s, at), LAMBDA tag, p :
        IF tag \in DOMAIN AcseApdus
        THEN Then(DecodeAcse(AcseApdus[tag], s, at), LAMBDA v, q : Ok(Apdu("none", tag, v), q))
        ELSE IF Unprotect(tag) # {}
        THEN LET of == CHOOSE u \in Unprotect(tag) : TRUE
             IN  Then(Read(CipheredService, s, p), LAMBDA v, q : Ok(Apdu(of[1], of[2], v), q))
        ELSE IF tag \notin DOMAIN Body THEN Err("invalid_tag")
        ELSE Then(Read(Body[tag], s, p), LAMBDA v, q : Ok(Apdu("none", tag, v), q)))

\* Encode for Apdu
EncodeApdu(a) ==
    CASE a.tag \in DOMAIN AcseApdus -> EncodeAcse(a.tag, a.body)
      [] a.protection # "none" ->
            <<ProtectedAs(a.protection, a.tag)>> \o Write(CipheredService, a.body)
      [] OTHER -> <<a.tag>> \o Write(Body[a.tag], a.body)
=============================================================================
