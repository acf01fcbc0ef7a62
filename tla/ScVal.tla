------------------------------- MODULE ScVal -------------------------------
(***************************************************************************)
(* The codec of call arguments and results (internal/scval): a             *)
(* specification "type:value" becomes a value of the contract's types, and *)
(* a value becomes a document for JSON.  Pure operators.                   *)
(*                                                                         *)
(* Integers are kept as words of WordBits bits, most significant first, as *)
(* the XDR types keep them: 64 in the code, fewer here, and the widths of  *)
(* the types shrink with it.  A literal is its sign and its digits; other  *)
(* text is a name.  A collection holds no collections here.                *)
(***************************************************************************)
EXTENDS Integers, Sequences, SequencesExt

CONSTANTS
    WordBits,     \* bits of a word, even
    Base,         \* the base that literals are written in: 10
    MaxDecimals,  \* the largest decimal count of a scaled literal
    MaxSymbol     \* maxSymbolLen

ASSUME WordAssumption ==
    /\ WordBits \in Nat \ {0} /\ WordBits % 2 = 0
    /\ Base \in Nat \ {0, 1}
    /\ MaxDecimals \in Nat /\ MaxSymbol \in Nat

Pow(b, n) == LET p[i \in Nat] == IF i = 0 THEN 1 ELSE b * p[i - 1] IN p[n]

(* The number that some digits write, the most significant one first.      *)
Positional(b, digits) ==
    LET upTo[i \in 0 .. Len(digits)] == IF i = 0 THEN 0 ELSE upTo[i - 1] * b + digits[i]
    IN  upTo[Len(digits)]

(* The integer types: their width in half words and whether they have a    *)
(* sign.  Timepoints and durations are u64 with a stricter literal.        *)
IntTypes ==
    [u32 |-> [halves |-> 1, signed |-> FALSE], i32 |-> [halves |-> 1, signed |-> TRUE],
     u64 |-> [halves |-> 2, signed |-> FALSE], i64 |-> [halves |-> 2, signed |-> TRUE],
     timepoint |-> [halves |-> 2, signed |-> FALSE],
     duration  |-> [halves |-> 2, signed |-> FALSE],
     u128 |-> [halves |-> 4, signed |-> FALSE], i128 |-> [halves |-> 4, signed |-> TRUE],
     u256 |-> [halves |-> 8, signed |-> FALSE], i256 |-> [halves |-> 8, signed |-> TRUE]]

Bits(t) == IntTypes[t].halves * (WordBits \div 2)
Count(t) == IF IntTypes[t].halves = 1 THEN 1 ELSE IntTypes[t].halves \div 2

(* checkRange.                                                             *)
InRange(n, t) ==
    IF IntTypes[t].signed
    THEN -Pow(2, Bits(t) - 1) <= n /\ n < Pow(2, Bits(t) - 1)
    ELSE 0 <= n /\ n < Pow(2, Bits(t))

(* twosComplementWords; a type narrower than a word is kept as it is.      *)
WordsOf(n, t) ==
    LET v == IF n < 0 THEN n + Pow(2, WordBits * Count(t)) ELSE n
    IN  [i \in 1 .. Count(t) |-> (v \div Pow(2, WordBits * (Count(t) - i))) % Pow(2, WordBits)]

(* wordsToBigInt: the sign is the highest bit of the first word.           *)
NumberOf(words, signed) ==
    LET magnitude == Positional(Pow(2, WordBits), words)
    IN  IF signed /\ words[1] >= Pow(2, WordBits - 1)
        THEN magnitude - Pow(2, WordBits * Len(words))
        ELSE magnitude
-----------------------------------------------------------------------------
(* A value: [type, words], or [type, text], [type, flag], [type, items],   *)
(* [type, pairs], by its type; Refused where there is none.                *)
Refused == [type |-> "refused"]
Void == [type |-> "void"]

IntVal(t, n) == IF InRange(n, t) THEN [type |-> t, words |-> WordsOf(n, t)] ELSE Refused

(* Text is a number's digits, without leading zeros, or a name, so that a  *)
(* symbol can spell the same as a number does.                             *)
Decimal(n) == [decimal |-> n]
Name(w) == [name |-> w]

(* An integer literal: the sign, the digits on both sides of the point and *)
(* the decimal count after "@", or NoScale.                                *)
NoScale == -1
Literals == [int : Seq(0 .. Base - 1), frac : Seq(0 .. Base - 1), neg : BOOLEAN, scale : Int]

FromDigits(digits) == Positional(Base, digits)
Plain(lit) == lit.scale = NoScale /\ lit.frac = <<>>

(* parseWholeNumber: no point without a decimal count.                     *)
WholeReads(lit) == Plain(lit) /\ lit.int # <<>>

(* scaleByDecimals: the digits of both parts, padded with zeros.           *)
Scaled(lit) ==
    FromDigits(lit.int \o lit.frac \o [i \in 1 .. lit.scale - Len(lit.frac) |-> 0])

ScaleReads(lit) ==
    /\ lit.scale \in 0 .. MaxDecimals
    /\ lit.int \o lit.frac # <<>>
    /\ Len(lit.frac) <= lit.scale

(* parseInteger.                                                           *)
Reads(lit) == WholeReads(lit) \/ ScaleReads(lit)

Magnitude(lit) == IF Plain(lit) THEN FromDigits(lit.int) ELSE Scaled(lit)
Signed(lit) == IF lit.neg THEN -Magnitude(lit) ELSE Magnitude(lit)

(* encodeU32 to encodeI256, encodeTimepoint, encodeDuration.               *)
EncodeInt(t, lit) ==
    IF \/ ~Reads(lit)
       \/ t \in {"timepoint", "duration"} /\ (lit.neg \/ ~Plain(lit))
    THEN Refused
    ELSE IntVal(t, Signed(lit))

(* The bodies of a specification: a number, or a word, which is a name, an *)
(* address or other text and as long as it is; the words that stand for    *)
(* themselves are names of their own.                                      *)
Booleans == {"true", "false"}
Voids == {"void", "null"}

IsSymbol(body) ==
    CASE body.form = "number" -> Plain(body.lit) /\ ~body.lit.neg
      [] OTHER -> body.class = "name" /\ body.length <= MaxSymbol

TextOf(body) ==
    CASE body.form = "number" /\ Plain(body.lit) -> Decimal(Signed(body.lit))
      [] body.form = "number" /\ ~Plain(body.lit) -> [literal |-> body.lit]
      [] OTHER -> Name(body.text)

EncodeBool(body) ==
    IF body.form = "word" /\ body.text \in Booleans
    THEN [type |-> "bool", flag |-> body.text = "true"]
    ELSE IF body.form = "number" /\ WholeReads(body.lit) /\ ~body.lit.neg
            /\ body.lit.int \in {<<0>>, <<1>>}
    THEN [type |-> "bool", flag |-> body.lit.int = <<1>>]
    ELSE Refused

EncodeSymbol(body) ==
    IF IsSymbol(body) THEN [type |-> "symbol", text |-> TextOf(body)] ELSE Refused

EncodeAddress(body) ==
    IF body.form = "word" /\ body.class = "address"
    THEN [type |-> "address", text |-> TextOf(body)] ELSE Refused

EncodeString(body) == [type |-> "string", text |-> TextOf(body)]

(* An encoder of the registry by its name; what none of them is for is     *)
(* inferred.                                                               *)
EncodeAs(t, body) ==
    CASE t \in DOMAIN IntTypes -> IF body.form = "number" THEN EncodeInt(t, body.lit) ELSE Refused
      [] t = "bool"    -> EncodeBool(body)
      [] t = "void"    -> Void
      [] t = "symbol"  -> EncodeSymbol(body)
      [] t = "address" -> EncodeAddress(body)
      [] t = "string"  -> EncodeString(body)

(* infer: a bare number is i128, and refused if it does not fit.           *)
Infer(body) ==
    IF body.form = "number"
    THEN IF Plain(body.lit) THEN EncodeInt("i128", body.lit) ELSE EncodeString(body)
    ELSE IF body.text \in Booleans THEN EncodeBool(body)
    ELSE IF body.text \in Voids THEN Void
    ELSE IF body.class = "address" THEN EncodeAddress(body)
    ELSE IF IsSymbol(body) THEN EncodeSymbol(body)
    ELSE EncodeString(body)

Encoders == DOMAIN IntTypes \cup {"bool", "void", "symbol", "address", "string"}

(* Registry.Encode, of a specification without elements.                   *)
EncodeLeaf(spec) ==
    IF spec.prefix \in Encoders THEN EncodeAs(spec.prefix, spec.body) ELSE Infer(spec.body)

EncodeAll(specs) == [i \in DOMAIN specs |-> EncodeLeaf(specs[i])]

(* encodeVec, encodeMap: a map is given as [key, value] pairs, kept in the *)
(* order and with the duplicates they come with.                           *)
Encode(spec) ==
    CASE spec.prefix = "vec" ->
            LET items == EncodeAll(spec.items)
            IN  IF Refused \in ToSet(items) THEN Refused ELSE [type |-> "vec", items |-> items]
      [] spec.prefix = "map" ->
            LET keys == EncodeAll([i \in DOMAIN spec.pairs |-> spec.pairs[i][1]])
                vals == EncodeAll([i \in DOMAIN spec.pairs |-> spec.pairs[i][2]])
            IN  IF Refused \in ToSet(keys) \cup ToSet(vals) THEN Refused
                ELSE [type |-> "map", pairs |-> [i \in DOMAIN keys |-> <<keys[i], vals[i]>>]]
      [] OTHER -> EncodeLeaf(spec)
-----------------------------------------------------------------------------
(* Documents: [json, ...] by what they are in JSON.                        *)
Unsupported == [json |-> "unsupported"]
String(text) == [json |-> "string", text |-> text]

(* Decode of a value without elements: numbers of 32 bits are numbers,     *)
(* wider ones their decimal text.                                          *)
DecodeLeaf(v) ==
    CASE v.type \in {"u32", "i32"} ->
            [json |-> "number", number |-> NumberOf(v.words, IntTypes[v.type].signed)]
      [] v.type \in DOMAIN IntTypes \ {"u32", "i32"} ->
            String(Decimal(NumberOf(v.words, IntTypes[v.type].signed)))
      [] v.type = "bool" -> [json |-> "boolean", flag |-> v.flag]
      [] v.type = "void" -> [json |-> "null"]
      [] v.type \in {"symbol", "string", "address"} -> String(v.text)
      [] OTHER -> Unsupported

(* Slip: a map is always an object, its keys printed as they are.          *)
KeyText(key) ==
    CASE key.json = "string" -> key.text
      [] key.json = "number" -> Decimal(key.number)
      [] OTHER -> Name(key.json)

ObjectOf(pairs) ==
    [json |-> "object",
     members |-> {<<String(KeyText(pairs[i][1])), pairs[i][2]>> : i \in {j \in DOMAIN pairs :
                     \A l \in DOMAIN pairs : l > j => KeyText(pairs[l][1]) # KeyText(pairs[j][1])}}]

(* decodeMap: an object if every key is a string, in which a later entry   *)
(* takes the place of an earlier one of the same key, or else the list of  *)
(* the pairs.                                                              *)
DecodePairs(pairs) ==
    IF \A i \in DOMAIN pairs : pairs[i][1].json = "string"
    THEN [json |-> "object",
          members |-> {pairs[i] : i \in {j \in DOMAIN pairs :
                          \A l \in DOMAIN pairs : l > j => pairs[l][1] # pairs[j][1]}}]
    ELSE [json |-> "pairs", pairs |-> pairs]

(* Decode.                                                                 *)
Decode(v) ==
    CASE v.type = "vec" ->
            LET items == [i \in DOMAIN v.items |-> DecodeLeaf(v.items[i])]
            IN  IF Unsupported \in ToSet(items) THEN Unsupported
                ELSE [json |-> "array", items |-> items]
      [] v.type = "map" ->
            LET pairs == [i \in DOMAIN v.pairs |->
                             <<DecodeLeaf(v.pairs[i][1]), DecodeLeaf(v.pairs[i][2])>>]
            IN  IF \E i \in DOMAIN pairs : Unsupported \in {pairs[i][1], pairs[i][2]}
                THEN Unsupported
                ELSE DecodePairs(pairs)
      [] OTHER -> DecodeLeaf(v)
=============================================================================
