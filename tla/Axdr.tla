-------------------------------- MODULE Axdr --------------------------------
(***************************************************************************)
(* A-XDR values (axdr/data.rs) and compact arrays (axdr/compact.rs).       *)
(*                                                                         *)
(* A borrowed Data value is a record: its tag, the count it announces      *)
(* (elements of an array or structure, bits of a bit string, bytes of the  *)
(* description of a compact array), the bytes it borrows and the nesting   *)
(* its elements are decoded at.  The bytes of a fixed-width number or date *)
(* stand for it: the conversions are bijections between the two.  An owned *)
(* DataBuf is the same with its elements as a sequence of trees.           *)
(***************************************************************************)
EXTENDS Codec

CONSTANTS
    MaxDepth,   \* MAX_DEPTH: how deep values may nest (16 in the code)
    MaxNodes    \* MAX_COMPACT_NODES: what one compact array may expand to (2^20)

NullData == 0
Array == 1
Structure == 2
Boolean == 3
BitString == 4
CompactArray == 19
DontCare == 255

\* DataTag::from_u8
DataTags == (0 .. 6) \cup {9, 10, 12, 13} \cup (15 .. 33) \cup {DontCare}

OctetStrings == {9, 10, 12}

\* Mutant: Date taken to be as long as Time.
FixedLenShortDate(tag) ==
    CASE tag \in {NullData, DontCare}             -> 0
      [] tag \in {3, 13, 15, 17, 22, 28, 31}      -> 1
      [] tag \in {16, 18, 29, 32}                 -> 2
      [] tag \in {5, 6, 23, 26, 27, 30, 33}       -> 4
      [] tag \in {20, 21, 24}                     -> 8
      [] tag = 25                                 -> 12
      [] OTHER                                    -> -1

\* DataTag::fixed_len, with -1 for the tags that have none.
FixedLen(tag) ==
    CASE tag \in {NullData, DontCare}         -> 0
      [] tag \in {3, 13, 15, 17, 22, 28, 31}  -> 1
      [] tag \in {16, 18, 29, 32}             -> 2
      [] tag \in {5, 6, 23, 27, 30, 33}       -> 4
      [] tag = 26                             -> 5
      [] tag \in {20, 21, 24}                 -> 8
      [] tag = 25                             -> 12
      [] OTHER                                -> -1

\* The width of the read each variant's decoding makes: i8, i16, i32, i64, [u8; N].
ReadWidth ==
    [tag \in {13, 15, 17, 22, 28, 31} |-> 1] @@ [tag \in {16, 18, 29, 32} |-> 2] @@
    [tag \in {5, 6, 23, 30, 33} |-> 4] @@ [tag \in {20, 21, 24} |-> 8] @@
    (25 :> 12) @@ (26 :> 5) @@ (27 :> 4)

Datum(tag, n, raw, depth) == [tag |-> tag, n |-> n, raw |-> raw, depth |-> depth]

BytesFor(bits) == (bits + 7) \div 8

\* A value that holds no other, its tag read already: the arms decode_at and
\* the compact array's leaf have in common.
Scalar(s, at, tag) ==
    CASE tag \in {NullData, DontCare} -> Ok(Datum(tag, 0, <<>>, 0), at)
      [] tag = Boolean ->
            Then(U8(s, at), LAMBDA b, p :
                Ok(Datum(tag, 0, <<IF b # 0 THEN 1 ELSE 0>>, 0), p))
      [] tag = BitString ->
            Then(Length(s, at), LAMBDA n, p :
                Then(Take(s, p, BytesFor(n)), LAMBDA b, q : Ok(Datum(tag, n, b, 0), q)))
      [] tag \in OctetStrings ->
            Then(LengthPrefixed(s, at), LAMBDA b, p : Ok(Datum(tag, 0, b, 0), p))
      [] OTHER -> Then(Take(s, at, ReadWidth[tag]), LAMBDA b, p : Ok(Datum(tag, 0, b, 0), p))

----------------------------------------------------------------------------
(* Type descriptions of compact arrays.                                    *)

RECURSIVE ParseDesc(_, _, _), SkipDescs(_, _, _, _)

\* TypeDesc::parse_at
ParseDesc(s, at, depth) ==
    IF depth >= MaxDepth THEN Err("depth_exceeded")
    ELSE Then(U8(s, at), LAMBDA tag, p :
        CASE tag \notin DataTags \ {CompactArray} -> Err("invalid_tag")
          [] tag = Array ->
                Then(Take(s, p, 2), LAMBDA n, q :
                    Then(ParseDesc(s, q, depth + 1), LAMBDA inner, e :
                        Ok([tag |-> tag, n |-> BigEndian(n), of |-> SubSeq(s, q, e - 1)], e)))
          [] tag = Structure ->
                Then(Length(s, p), LAMBDA n, q :
                    Then(SkipDescs(s, q, n, depth + 1), LAMBDA none, e :
                        Ok([tag |-> tag, n |-> n, of |-> SubSeq(s, q, e - 1)], e)))
          [] OTHER -> Ok([tag |-> tag, n |-> 0, of |-> <<>>], p))

SkipDescs(s, at, n, depth) ==
    IF n = 0 THEN Ok(<<>>, at)
    ELSE Then(ParseDesc(s, at, depth), LAMBDA one, p : SkipDescs(s, p, n - 1, depth))

RECURSIVE LeafCount(_, _), LeafCounts(_, _, _, _)

\* TypeDesc::leaf_count_at
LeafCount(desc, depth) ==
    CASE depth >= MaxDepth    -> Err("depth_exceeded")
      [] desc.tag = Array     ->
            Then(ParseDesc(desc.of, 1, depth + 1), LAMBDA inner, p :
                Then(LeafCount(inner, depth + 1), LAMBDA k, q : Ok(desc.n * k, 0)))
      [] desc.tag = Structure -> LeafCounts(desc.of, 1, desc.n, depth)
      [] OTHER                -> Ok(1, 0)

LeafCounts(fields, at, n, depth) ==
    IF n = 0 THEN Ok(0, 0)
    ELSE Then(ParseDesc(fields, at, depth + 1), LAMBDA field, p :
        Then(LeafCount(field, depth + 1), LAMBDA k, q :
            Then(LeafCounts(fields, p, n - 1, depth), LAMBDA rest, e : Ok(k + rest, 0))))

\* CompactArray::decode_body
DecodeBody(s, at, depth) ==
    IF depth >= MaxDepth THEN Err("depth_exceeded")
    ELSE Then(ParseDesc(s, at, depth), LAMBDA desc, p :
        Then(LengthPrefixed(s, p), LAMBDA contents, q :
            Ok(Datum(CompactArray, p - at, SubSeq(s, at, p - 1) \o contents, depth), q)))

----------------------------------------------------------------------------
(* Data                                                                    *)

RECURSIVE Skip(_, _, _), SkipAll(_, _, _, _)

\* Data::skip: where a value ends, without building it.
Skip(s, at, depth) ==
    IF depth >= MaxDepth THEN Err("depth_exceeded")
    ELSE Then(U8(s, at), LAMBDA tag, p :
        CASE tag \notin DataTags        -> Err("invalid_tag")
          [] FixedLen(tag) # -1         -> Take(s, p, FixedLen(tag))
          [] tag \in {Array, Structure} ->
                Then(Length(s, p), LAMBDA n, q : SkipAll(s, q, n, depth + 1))
          [] tag = BitString ->
                Then(Length(s, p), LAMBDA n, q : Take(s, q, BytesFor(n)))
          [] tag \in OctetStrings -> LengthPrefixed(s, p)
          [] tag = CompactArray   -> DecodeBody(s, p, depth + 1))

SkipAll(s, at, n, depth) ==
    IF n = 0 THEN Ok(<<>>, at)
    ELSE Then(Skip(s, at, depth), LAMBDA one, p : SkipAll(s, p, n - 1, depth))

\* Data::decode_at
DecodeAt(s, at, depth) ==
    IF depth >= MaxDepth THEN Err("depth_exceeded")
    ELSE Then(U8(s, at), LAMBDA tag, p :
        CASE tag \notin DataTags -> Err("invalid_tag")
          [] tag \in {Array, Structure} ->
                Then(Length(s, p), LAMBDA n, q :
                    Then(SkipAll(s, q, n, depth + 1), LAMBDA none, e :
                        Ok(Datum(tag, n, SubSeq(s, q, e - 1), depth + 1), e)))
          [] tag = CompactArray -> DecodeBody(s, p, depth + 1)
          [] OTHER -> Scalar(s, p, tag))

DecodeData(s, at) == DecodeAt(s, at, 0)

RECURSIVE Elements(_, _, _, _, _)

Elements(s, at, n, depth, sofar) ==
    IF n = 0 THEN Ok(sofar, at)
    ELSE Then(DecodeAt(s, at, depth), LAMBDA d, p :
        Elements(s, p, n - 1, depth, Append(sofar, d)))

\* Seq::iter run to its end: the elements of an array or structure.
SeqIter(d) == Elements(d.raw, 1, d.n, d.depth, <<>>)

Description(c) == SubSeq(c.raw, 1, c.n)

Contents(c) == SubSeq(c.raw, c.n + 1, Len(c.raw))

\* Encode for Data: elements and compact contents go out as they were borrowed.
EncodeData(d) ==
    <<d.tag>> \o
    CASE d.tag \in {Array, Structure, BitString} -> WriteLength(d.n) \o d.raw
      [] d.tag \in OctetStrings -> WriteLengthPrefixed(d.raw)
      [] d.tag = CompactArray   -> Description(d) \o WriteLengthPrefixed(Contents(d))
      [] OTHER                  -> d.raw

----------------------------------------------------------------------------
(* Expanding compact arrays.  One walk hands out the leaves, the other     *)
(* builds the rows; both spend one of the budget on every node.            *)

Tree(tag, n, raw, kids) == [tag |-> tag, n |-> n, raw |-> raw, kids |-> kids]

Leaf(s, at, tag) ==
    IF tag \in {Array, Structure, CompactArray} THEN Err("invalid_tag") ELSE Scalar(s, at, tag)

\* What a walk has so far: its output and what is left of the budget.
Done(out, budget) == [out |-> out, budget |-> budget]

\* The description of element i, read from position at of the enclosing one:
\* an array's elements share one, a structure's fields follow one another.
InnerDesc(desc, at) == ParseDesc(desc.of, IF desc.tag = Array THEN 1 ELSE at, 0)

RECURSIVE Walk(_, _, _, _, _), WalkElements(_, _, _, _, _, _, _)

Walk(s, at, desc, depth, budget) ==
    CASE depth >= MaxDepth -> Err("depth_exceeded")
      [] depth < MaxDepth /\ budget = 0 -> Err("work_exceeded")
      [] OTHER ->
            IF desc.tag \in {Array, Structure}
            THEN WalkElements(s, at, desc, 1, desc.n, depth + 1, Done(<<>>, budget - 1))
            ELSE Then(Leaf(s, at, desc.tag), LAMBDA d, p : Ok(Done(<<d>>, budget - 1), p))

WalkElements(s, at, desc, field, n, depth, sofar) ==
    IF n = 0 THEN Ok(sofar, at)
    ELSE Then(InnerDesc(desc, field), LAMBDA inner, f :
        Then(Walk(s, at, inner, depth, sofar.budget), LAMBDA one, p :
            WalkElements(s, p, desc, f, n - 1, depth,
                         Done(sofar.out \o one.out, one.budget))))

RECURSIVE Build(_, _, _, _, _), BuildElements(_, _, _, _, _, _, _)

Build(s, at, desc, depth, budget) ==
    CASE depth >= MaxDepth -> Err("depth_exceeded")
      [] depth < MaxDepth /\ budget = 0 -> Err("work_exceeded")
      [] OTHER ->
            IF desc.tag \in {Array, Structure}
            THEN Then(BuildElements(s, at, desc, 1, desc.n, depth + 1, Done(<<>>, budget - 1)),
                      LAMBDA all, p : Ok(Done(Tree(desc.tag, 0, <<>>, all.out), all.budget), p))
            ELSE Then(Leaf(s, at, desc.tag), LAMBDA d, p :
                      Ok(Done(Tree(d.tag, d.n, d.raw, <<>>), budget - 1), p))

BuildElements(s, at, desc, field, n, depth, sofar) ==
    IF n = 0 THEN Ok(sofar, at)
    ELSE Then(InnerDesc(desc, field), LAMBDA inner, f :
        Then(Build(s, at, inner, depth, sofar.budget), LAMBDA one, p :
            BuildElements(s, p, desc, f, n - 1, depth,
                          Done(Append(sofar.out, one.out), one.budget))))

RECURSIVE WalkRows(_, _, _, _, _), BuildRows(_, _, _, _, _)

\* The loop of for_each_leaf and row_count: the leaves of each row, which must
\* use some of the contents (ensure_progress).
WalkRows(s, at, desc, depth, sofar) ==
    IF at > Len(s) THEN Ok(sofar.out, at)
    ELSE Then(Walk(s, at, desc, depth, sofar.budget), LAMBDA row, p :
        IF p = at THEN Err("invalid_value")
        ELSE WalkRows(s, p, desc, depth,
                      Done(Append(sofar.out, row.out), row.budget)))

\* The loop of to_rows.
BuildRows(s, at, desc, depth, sofar) ==
    IF at > Len(s) THEN Ok(sofar.out, at)
    ELSE Then(Build(s, at, desc, depth, sofar.budget), LAMBDA row, p :
        IF p = at THEN Err("invalid_value")
        ELSE BuildRows(s, p, desc, depth,
                       Done(Append(sofar.out, row.out), row.budget)))

ForEachLeaf(c) ==
    Then(ParseDesc(Description(c), 1, c.depth), LAMBDA desc, p :
        WalkRows(Contents(c), 1, desc, c.depth, Done(<<>>, MaxNodes)))

RowCount(c) == Then(ForEachLeaf(c), LAMBDA rows, p : Ok(Len(rows), p))

RowLen(c) ==
    Then(ParseDesc(Description(c), 1, c.depth), LAMBDA desc, p : LeafCount(desc, 0))

ToRows(c) ==
    Then(ParseDesc(Description(c), 1, c.depth), LAMBDA desc, p :
        BuildRows(Contents(c), 1, desc, c.depth, Done(<<>>, MaxNodes)))

----------------------------------------------------------------------------
(* DataBuf                                                                 *)

RECURSIVE FromData(_), Owned(_, _)

\* DataBuf::from_data: a compact array becomes the array of its rows.
FromData(d) ==
    CASE d.tag \in {Array, Structure} ->
            Then(SeqIter(d), LAMBDA elements, p :
            Then(Owned(elements, <<>>), LAMBDA kids, q : Ok(Tree(d.tag, 0, <<>>, kids), 0)))
      [] d.tag = CompactArray ->
            Then(ToRows(d), LAMBDA rows, p : Ok(Tree(Array, 0, <<>>, rows), 0))
      [] OTHER -> Ok(Tree(d.tag, d.n, d.raw, <<>>), 0)

Owned(elements, kids) ==
    IF elements = <<>> THEN Ok(kids, 0)
    ELSE Then(FromData(Head(elements)), LAMBDA t, p : Owned(Tail(elements), Append(kids, t)))

RECURSIVE EncodeBuf(_)

\* Encode for DataBuf
EncodeBuf(t) ==
    <<t.tag>> \o
    CASE t.tag \in {Array, Structure} ->
            WriteLength(Len(t.kids)) \o
            FlattenSeq([i \in DOMAIN t.kids |-> EncodeBuf(t.kids[i])])
      [] t.tag = BitString      -> WriteLength(t.n) \o t.raw
      [] t.tag \in OctetStrings -> WriteLengthPrefixed(t.raw)
      [] OTHER                  -> t.raw
=============================================================================
