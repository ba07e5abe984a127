----------------------------- MODULE WireCodec -----------------------------
(***************************************************************************)
(* The text that clients and servers exchange inside a native frame, and   *)
(* that servers exchange when one of them forwards a command: what is      *)
(* written by the format and encode functions and what the parse and       *)
(* decode functions make of it.  The writers and the readers are separate  *)
(* definitions because they are separate functions, in three crates.       *)
(*                                                                         *)
(* A text is a sequence of tokens.  A separator, an escaped character or a *)
(* number is one token; a name, a query or a word is one token as well, and*)
(* a string that contains separators is several.                           *)
(***************************************************************************)
EXTENDS Naturals, Sequences, FiniteSets, FiniteSetsExt, TLC

-----------------------------------------------------------------------------
(* Texts: what the code asks of str.                                       *)

RECURSIVE SplitText(_, _, _)

\* At most n pieces of t, cut at c; with n = 0, all of them.
SplitText(t, c, n) ==
    LET at == {i \in DOMAIN t : t[i] = c} IN
    IF at = {} \/ n = 1 THEN <<t>>
    ELSE <<SubSeq(t, 1, Min(at) - 1)>>
             \o SplitText(SubSeq(t, Min(at) + 1, Len(t)), c, IF n = 0 THEN 0 ELSE n - 1)

RECURSIVE JoinText(_, _)
JoinText(ts, c) ==
    IF Len(ts) = 0 THEN <<>> ELSE IF Len(ts) = 1 THEN ts[1] ELSE ts[1] \o <<c>> \o JoinText(Tail(ts), c)

StartsWith(t, prefix) == Len(t) >= Len(prefix) /\ SubSeq(t, 1, Len(prefix)) = prefix

Numerals == {ToString(n) : n \in 0..12}
IsNumber(t) == Len(t) = 1 /\ t[1] \in Numerals

\* Two hexadecimal digits stand for each byte of a token.
HexEncode(t) == [i \in DOMAIN t |-> "%" \o t[i]]

\* What a reader returns: a value, or the error that it met.
Wrong == [good |-> FALSE]
Right(v) == [good |-> TRUE, val |-> v]

HexDecode(t) ==
    IF \A i \in DOMAIN t : SubSeq(t[i], 1, 1) = "%"
    THEN Right([i \in DOMAIN t |-> SubSeq(t[i], 2, Len(t[i]))]) ELSE Wrong

\* The values of all the readings, unless one of them failed.
AllRight(rs) ==
    IF \A i \in DOMAIN rs : rs[i].good THEN Right([i \in DOMAIN rs |-> rs[i].val]) ELSE Wrong

-----------------------------------------------------------------------------
(* Values.  A value is its kind, its text and its parts; the entries of a  *)
(* map, the parameters of a query and the cells of a row are parts with    *)
(* their key as the text, in the order of their keys.                      *)

Part(kind, text, parts) == [kind |-> kind, text |-> text, parts |-> parts]
NullValue == Part("null", <<>>, <<>>)
NoWireValue == Part("none", <<>>, <<>>)
Leaf(kind, text) == Part(kind, text, <<>>)

\* to_bits writes the number that the float is stored as.
BitsOf(t) == [i \in DOMAIN t |-> "#" \o t[i]]
FromBits(t) ==
    IF Len(t) = 1 /\ SubSeq(t[1], 1, 1) = "#" THEN Right(<<SubSeq(t[1], 2, Len(t[1]))>>) ELSE Wrong

RECURSIVE EncodeProperties(_)

EncodeValue(v) ==
    CASE v.kind = "null" -> <<"n">>
      [] v.kind = "bool" -> <<"b", ":", IF v.text = <<"true">> THEN "1" ELSE "0">>
      [] v.kind = "int" -> <<"i", ":">> \o v.text
      [] v.kind = "float" -> <<"f", ":">> \o BitsOf(v.text)
      [] v.kind = "str" -> <<"s", ":">> \o HexEncode(v.text)
      [] v.kind = "vec" -> <<"v", ":">> \o JoinText([i \in DOMAIN v.parts |-> BitsOf(v.parts[i].text)], ",")
      [] v.kind = "map" -> <<"m", ":">> \o HexEncode(EncodeProperties(v.parts))

EncodeEntry(p) == HexEncode(p.text) \o <<"~">> \o EncodeValue(p.parts[1])

EncodeProperties(ps) == JoinText([i \in DOMAIN ps |-> EncodeEntry(ps[i])], ",")

\* The elements of a vector, each read by Read.
ReadVector(t, Read(_)) ==
    LET items == SplitText(t, ",", 0)
        read == AllRight([i \in DOMAIN items |-> Read(items[i])]) IN
    IF read.good THEN Right(Part("vec", <<>>, [i \in DOMAIN items |-> Leaf("float", read.val[i])])) ELSE Wrong

Tagged(kind, r) == IF r.good THEN Right(Leaf(kind, r.val)) ELSE Wrong

ReadNumber(t) == IF IsNumber(t) THEN Right(t) ELSE Wrong

RECURSIVE DecodeProperties(_)

ReadMap(t) ==
    LET hex == HexDecode(t)
        read == DecodeProperties(hex.val) IN
    IF hex.good /\ read.good THEN Right(Part("map", <<>>, read.val)) ELSE Wrong

DecodeValue(t) ==
    LET cut == SplitText(t, ":", 2)
        body == cut[2] IN
    IF t = <<"n">> THEN Right(NullValue)
    ELSE IF Len(cut) < 2 THEN Wrong
    ELSE CASE cut[1] = <<"b">> -> (CASE body = <<"0">> -> Right(Leaf("bool", <<"false">>))
                                     [] body = <<"1">> -> Right(Leaf("bool", <<"true">>))
                                     [] OTHER -> Wrong)
           [] cut[1] = <<"i">> -> Tagged("int", ReadNumber(body))
           [] cut[1] = <<"f">> -> Tagged("float", FromBits(body))
           [] cut[1] = <<"s">> -> Tagged("str", HexDecode(body))
           [] cut[1] = <<"v">> -> IF body = <<>> THEN Right(Part("vec", <<>>, <<>>)) ELSE ReadVector(body, FromBits)
           [] cut[1] = <<"m">> -> ReadMap(body)
           [] OTHER -> Wrong

DecodeEntry(t) ==
    LET cut == SplitText(t, "~", 2)
        key == HexDecode(cut[1])
        value == DecodeValue(cut[2]) IN
    IF Len(cut) = 2 /\ key.good /\ value.good THEN Right(Part("entry", key.val, <<value.val>>)) ELSE Wrong

DecodeProperties(t) ==
    LET entries == SplitText(t, ",", 0) IN
    IF t = <<>> THEN Right(<<>>) ELSE AllRight([i \in DOMAIN entries |-> DecodeEntry(entries[i])])

-----------------------------------------------------------------------------
(* Values of commands and query parameters, as a person may type them.     *)

EncodeCommandValue(v) ==
    CASE v.kind = "null" -> <<"n", ":">>
      [] v.kind = "bool" -> <<"b", ":">> \o v.text
      [] v.kind = "int" -> <<"i", ":">> \o v.text
      [] v.kind = "float" -> <<"f", ":">> \o v.text
      [] v.kind = "str" -> <<"s", ":">> \o v.text
      [] v.kind = "vec" -> <<"v", ":">> \o JoinText([i \in DOMAIN v.parts |-> v.parts[i].text], ",")
      [] v.kind = "map" -> <<"m", ":">> \o HexEncode(EncodeProperties(v.parts))

\* A server writes the values of the commands that it forwards itself.
EncodeMapForRequest(ps) == JoinText([i \in DOMAIN ps |-> EncodeEntry(ps[i])], ",")

FormatValueForRequest(v) ==
    IF v.kind = "map" THEN <<"m", ":">> \o HexEncode(EncodeMapForRequest(v.parts)) ELSE EncodeCommandValue(v)

ReadFloat(t) == IF Len(t) = 1 THEN Right(t) ELSE Wrong

\* The reader of a tagged value; the client's library reads an empty vector.
ReadTyped(t, emptyVector) ==
    LET cut == SplitText(t, ":", 2)
        body == cut[2] IN
    IF Len(cut) < 2 THEN Wrong
    ELSE CASE cut[1] = <<"n">> -> IF body = <<>> THEN Right(NullValue) ELSE Wrong
           [] cut[1] = <<"b">> -> IF body \in {<<"true">>, <<"false">>} THEN Right(Leaf("bool", body)) ELSE Wrong
           [] cut[1] = <<"i">> -> Tagged("int", ReadNumber(body))
           [] cut[1] = <<"f">> -> Tagged("float", ReadFloat(body))
           [] cut[1] = <<"s">> -> Right(Leaf("str", body))
           [] cut[1] = <<"v">> -> IF body = <<>> THEN emptyVector ELSE ReadVector(body, ReadFloat)
           [] cut[1] = <<"m">> -> ReadMap(body)
           [] OTHER -> Wrong

ParseCommandValue(t) == ReadTyped(t, Right(Part("vec", <<>>, <<>>)))
ParseValue(t) == ReadTyped(t, Wrong)

\* Entries key=value, one in each field.
ReadKeyValues(fields, Read(_), KeyOk(_)) ==
    AllRight([i \in DOMAIN fields |->
        LET cut == SplitText(fields[i], "=", 2)
            value == Read(cut[2]) IN
        IF Len(cut) = 2 /\ KeyOk(cut[1]) /\ value.good
        THEN Right(Part("entry", cut[1], <<value.val>>)) ELSE Wrong])

ValidToken(t) == t # <<>> /\ \A i \in DOMAIN t : t[i] \notin {"\t", "\n", "\r"}

ParseCommandProperties(fields) == ReadKeyValues(fields, ParseCommandValue, LAMBDA key : TRUE)
ParseProperties(fields) == ReadKeyValues(fields, ParseValue, ValidToken)

FormatEntries(ps) == [i \in DOMAIN ps |-> ps[i].text \o <<"=">> \o FormatValueForRequest(ps[i].parts[1])]

-----------------------------------------------------------------------------
(* Queries and batches of queries.                                         *)

EncodeQueryPayload(query, params) ==
    JoinText(<<query>> \o [i \in DOMAIN params |->
                               params[i].text \o <<"=">> \o EncodeCommandValue(params[i].parts[1])], "\t")

\* A query with its parameters: the text is the query, the parts its parameters.
ParseQueryPayload(t) ==
    LET fields == SplitText(t, "\t", 0)
        query(params) == IF params.good THEN Right(Part("query", Head(fields), params.val)) ELSE Wrong IN
    IF Head(fields) # <<>> THEN query(ParseCommandProperties(Tail(fields))) ELSE Wrong

EncodeQueryBatchPayload(qs) ==
    JoinText(<<<<ToString(Len(qs))>>>> \o
                 [i \in 1..(2 * Len(qs)) |->
                     LET q == qs[(i + 1) \div 2] IN
                     IF i % 2 = 1 THEN HexEncode(q.text) ELSE EncodeProperties(q.parts)], "\t")

DecodeQueryBatchPayload(t) ==
    LET fields == SplitText(t, "\t", 0)
        count == Len(fields) \div 2
        read(i) == LET query == HexDecode(fields[2 * i])
                       params == DecodeProperties(fields[2 * i + 1]) IN
                   IF query.good /\ params.good THEN Right(Part("query", query.val, params.val)) ELSE Wrong
        all == AllRight([i \in 1..count |-> read(i)]) IN
    IF fields[1] = <<ToString(count)>> /\ Len(fields) = 2 * count + 1 /\ all.good
    THEN Right(Part("batch", <<>>, all.val)) ELSE Wrong

-----------------------------------------------------------------------------
(* Rows.                                                                   *)

EncodeLabels(ls) == JoinText([i \in DOMAIN ls |-> HexEncode(ls[i].text)], ",")

DecodeLabels(t) ==
    LET items == SplitText(t, ",", 0)
        read == AllRight([i \in DOMAIN items |-> HexDecode(items[i])]) IN
    IF t = <<>> THEN Right(<<>>)
    ELSE IF read.good THEN Right([i \in DOMAIN items |-> Leaf("label", read.val[i])]) ELSE Wrong

\* The fields of a node, a boundary node and a relationship, in the order of
\* the text.
EntityFields ==
    [N |-> <<"num", "labels", "props">>, B |-> <<"num", "num", "num", "labels", "props">>,
     R |-> <<"num", "num", "num", "type", "props">>]

EncodeQueryValue(v) ==
    IF v.kind = "V" THEN <<"V", ":">> \o EncodeValue(v.parts[1])
    ELSE <<v.kind, ":">> \o
         JoinText([i \in DOMAIN v.parts |->
                      CASE EntityFields[v.kind][i] = "num" -> v.parts[i].text
                        [] EntityFields[v.kind][i] = "labels" -> EncodeLabels(v.parts[i].parts)
                        [] EntityFields[v.kind][i] = "type" -> HexEncode(v.parts[i].text)
                        [] EntityFields[v.kind][i] = "props" -> EncodeProperties(v.parts[i].parts)], ":")

DecodeEntityField(kind, t) ==
    CASE kind = "num" -> Tagged("num", ReadNumber(t))
      [] kind = "type" -> Tagged("type", HexDecode(t))
      [] kind \in {"labels", "props"} ->
            LET read == IF kind = "labels" THEN DecodeLabels(t) ELSE DecodeProperties(t) IN
            IF read.good THEN Right(Part(kind, <<>>, read.val)) ELSE Wrong

DecodeQueryValue(t) ==
    LET cut == SplitText(t, ":", 2)
        kind == cut[1][1]
        fields == SplitText(cut[2], ":", Len(EntityFields[kind]))
        read == IF kind = "V" THEN AllRight(<<DecodeValue(cut[2])>>)
                ELSE AllRight([i \in DOMAIN fields |-> DecodeEntityField(EntityFields[kind][i], fields[i])]) IN
    IF Len(cut) < 2 \/ Len(cut[1]) # 1 \/ kind \notin {"V", "N", "B", "R"} THEN Wrong
    ELSE IF kind # "V" /\ Len(fields) # Len(EntityFields[kind]) THEN Wrong
    ELSE IF read.good THEN Right(Part(kind, <<>>, read.val)) ELSE Wrong

EncodeQueryRow(row) ==
    JoinText([i \in DOMAIN row.parts |->
                 HexEncode(row.parts[i].text) \o <<"=">> \o EncodeQueryValue(row.parts[i].parts[1])], ";")

DecodeQueryRow(t) ==
    LET cells == SplitText(t, ";", 0)
        cell(name, value) == IF name.good /\ value.good THEN Right(Part("cell", name.val, <<value.val>>)) ELSE Wrong
        read(cut) == IF Len(cut) = 2 THEN cell(HexDecode(cut[1]), DecodeQueryValue(cut[2])) ELSE Wrong
        row(all) == IF all.good THEN Right(Part("row", <<>>, all.val)) ELSE Wrong IN
    IF t = <<>> THEN Right(Part("row", <<>>, <<>>))
    ELSE row(AllRight([i \in DOMAIN cells |-> read(SplitText(cells[i], "=", 2))]))

EncodeQueryRows(rows) == JoinText([i \in DOMAIN rows |-> EncodeQueryRow(rows[i])], "|")

DecodeQueryRows(t) ==
    LET rows == SplitText(t, "|", 0) IN
    IF t = <<>> THEN Right(<<>>) ELSE AllRight([i \in DOMAIN rows |-> DecodeQueryRow(rows[i])])

=============================================================================
