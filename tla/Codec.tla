------------------------------- MODULE Codec -------------------------------
(***************************************************************************)
(* The reader and the writer every decoder and encoder of the crate goes   *)
(* through (codec.rs).  A byte is a number of 0 .. 255 and an input is a   *)
(* sequence of them; a reader is an input and the position it has reached. *)
(* Reading either gives a value and the position after it, or fails with   *)
(* the kind of the error; the offsets errors carry for diagnostics are     *)
(* left out.                                                               *)
(***************************************************************************)
EXTENDS Integers, Sequences, SequencesExt

\* A length that no input here can hold: longer announced ones are all alike.
HugeLength == 2^28

Ok(value, at) == [kind |-> "ok", value |-> value, at |-> at]

Err(kind) == [kind |-> kind, value |-> <<>>, at |-> 0]

\* The ? operator: go on with what was read, or return the error.
Then(result, Go(_, _)) ==
    IF result.kind = "ok" THEN Go(result.value, result.at) ELSE result

\* Error::is_truncated: documented as "more input might complete this value".
IsTruncated(result) == result.kind = "truncated"

Remaining(s, at) == Len(s) - at + 1

\* Mutant: a short read reported as a malformed one.
TakeRefuses(s, at, n) ==
    IF Remaining(s, at) < n THEN Err("invalid_length")
                            ELSE Ok(SubSeq(s, at, at + n - 1), at + n)

Take(s, at, n) ==
    IF Remaining(s, at) < n THEN Err("truncated")
                            ELSE Ok(SubSeq(s, at, at + n - 1), at + n)

TakeRest(s, at) == Ok(SubSeq(s, at, Len(s)), Len(s) + 1)

U8(s, at) == IF at > Len(s) THEN Err("truncated") ELSE Ok(s[at], at + 1)

BigEndian(bytes) ==
    LET Shift(v, b) == IF v >= HugeLength \div 256 THEN HugeLength ELSE v * 256 + b
    IN  FoldLeft(Shift, 0, bytes)

\* Below 128 the length itself; above, how many bytes (one to four) give it.
Length(s, at) ==
    Then(U8(s, at), LAMBDA first, p :
        CASE first < 128               -> Ok(first, p)
          [] first % 128 \notin 1 .. 4 -> Err("invalid_length")
          [] OTHER -> Then(Take(s, p, first % 128), LAMBDA b, q : Ok(BigEndian(b), q)))

LengthPrefixed(s, at) == Then(Length(s, at), LAMBDA n, p : Take(s, p, n))

\* Decode::from_bytes: one value, and nothing after it.
FromBytes(s, result) ==
    IF result.kind = "ok" /\ result.at <= Len(s) THEN Err("invalid_length") ELSE result

----------------------------------------------------------------------------
(* Writer: what is appended to the output.                                 *)

\* n in as few bytes as it takes, the most significant first.
Digits(n) ==
    LET size == CHOOSE k \in 1 .. 4 : n < 256^k /\ (k = 1 \/ n >= 256^(k - 1))
    IN  [i \in 1 .. size |-> (n \div 256^(size - i)) % 256]

WriteLength(n) == IF n < 128 THEN <<n>> ELSE <<128 + Len(Digits(n))>> \o Digits(n)

WriteLengthPrefixed(bytes) == WriteLength(Len(bytes)) \o bytes
=============================================================================
