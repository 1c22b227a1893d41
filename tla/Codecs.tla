------------------------------- MODULE Codecs -------------------------------
(***************************************************************************)
(* Conversions checked against reference definitions: a behaviour is one   *)
(* input, of one kind of text or datagram, and, for the formats that are   *)
(* read by a loop, the turns of that loop.                                 *)
(***************************************************************************)
EXTENDS JsonText, Formats, Wire

CONSTANTS
  MaxPieces,  \* pieces of a JSON text
  MaxLiteral, \* pieces behind the quote that begins a string
  MaxNumber,  \* characters of a number
  MaxUrl,     \* characters of a URL template
  MaxAddr,    \* characters of an address
  MaxLine,    \* characters of a CSV line
  MaxBuffer   \* bytes of a print buffer

Some(kind, values) == \E v \in values : input = [kind |-> kind, of |-> v]

-----------------------------------------------------------------------------
(***************************************************************************)
(* The inputs.                                                             *)
(***************************************************************************)
Pieces == {<<"[">>, <<"]">>, <<"{">>, <<"}">>, <<",">>, <<":">>, <<" ", control>>,
           <<quote, quote>>}

\* A byte order mark, at the beginning of a text or behind it.
Marked == {bom \o FlattenSeq(s) : s \in SeqOf(Pieces, 3)}
            \union {FlattenSeq(<<p, bom, q>>) : p, q \in Pieces}

\* The 16 bits around which UTF-16 and UTF-8 change their form.
Codes == {<<"0", "0", "0", "0">>, <<"0", "0", "7", "f">>, <<"0", "0", "8", "0">>,
          <<"0", "7", "f", "f">>, <<"0", "8", "0", "0">>, <<"d", "7", "f", "f">>,
          <<"d", "8", "0", "0">>, <<"d", "b", "f", "f">>, <<"d", "c", "0", "0">>,
          <<"d", "f", "f", "f">>, <<"e", "0", "0", "0">>, <<"f", "f", "f", "f">>}

\* What may follow the quote of a string: single characters, and escapes of
\* one to four bytes of UTF-8.
LiteralPieces ==
  {<<quote>>, <<bslash>>, <<"n">>, <<"u">>, <<"a">>}
    \union {<<bslash, "u">> \o c : c \in {<<"0", "0", "7", "f">>, <<"0", "7", "f", "f">>,
                   <<"f", "f", "f", "f">>, <<"d", "8", "0", "0">>, <<"d", "c", "0", "0">>}}

null == [type |-> "null", of |-> <<>>]
String(s) == [type |-> "string", of |-> s]
Array(s) == [type |-> "array", of |-> s]
Object(s) == [type |-> "object", of |-> s]

Leaves == {null, [type |-> "number", of |-> <<"-", "1", "1">>], String(<<>>),
           String(<<"a", quote, control>>), Array(<<>>), Object(<<>>)}
Arrays == {Array(s) : s \in SeqOf(Leaves, 2)}
Objects == {Object(s) : s \in SeqOf({<<>>, <<"\n">>} \X Leaves, 2)}
Twice(v) == Array(<<v, v>>)
Deeper(v) == Array(<<Object(<<<< <<"k">>, v>>>>)>>)

\* Values of the members of a request.
Contents == <<String(<<"x", "y">>), [type |-> "number", of |-> IntMax + 5],
           [type |-> "number", of |-> 7], [type |-> "true", of |-> <<>>],
           [type |-> "false", of |-> <<>>], null>>

Lengths == {0, 1, 2, 100, 155, 156, 254, 255, 256, 257, 300}

Addresses == {<<"h">>, <<"u", ":", "/", "/", "h">>, <<"u", "u", "u", ":", "/", "/", "h">>,
              <<":", "/", "/", "h">>, <<>>, <<"h", ":", "7">>, <<"h", ":", "7", "1">>,
              <<"h", ":", "-", "1">>, <<"h", "h", "h", "h">>, <<"u", ":", "/", "/", "h", "h", "h", "h">>}

JsonInput ==
  \/ \E n \in 0 .. MaxLiteral : \E s \in [1 .. n -> LiteralPieces] :
       input = [kind |-> "literal", of |-> <<quote>> \o FlattenSeq(s)]
  \/ \E n \in 0 .. MaxNumber :
       Some("number", [1 .. n -> {"0", "1", "+", "-", ".", "e"}])
  \/ Some("codes", Codes \X Codes)
  \/ Some("text", Marked)
  \/ \E n \in 0 .. MaxPieces : \E s \in [1 .. n -> Pieces] :
       input = [kind |-> "text", of |-> FlattenSeq(s)]
  \/ Some("value", Leaves) \/ Some("value", Arrays) \/ Some("value", Objects)
  \/ Some("value", {Twice(v) : v \in Arrays}) \/ Some("value", {Deeper(v) : v \in Objects})

WireInput ==
  \/ Some("size", 0 .. MsgSize + 2)
  \/ Some("request", (0 .. MsgSize) \X {"tagged", "cnam", "unknown"} \X (0 .. JsonSizeMod - 1))
  \/ Some("reply", Lengths \X Lengths)
  \/ Some("address", SeqOf({":", "/", "h"}, MaxAddr))
  \/ Some("urls", SeqOf([addr : Addresses, fault : Faults], 2))

FormatInput ==
  \/ Some("csv", SeqOf(SeqOf({",", "x"}, MaxLine), 2))
  \/ \E s \in SeqOf([string : {"default", "a", "b"}, type : {"number", "string"},
                    of : {-1, 1, IntMax + 5}], 3), t \in {"object", "array"} :
       input = [kind |-> "operators", of |-> s, type |-> t]
  \/ Some("template", SeqOf({"{", "}", "a"}, MaxUrl))
  \/ \E t \in SeqOf({"{", "}", "a"}, MaxUrl - 1), a, b \in 1 .. Len(Contents),
        keys \in {<< <<"a">>, <<"A">> >>, << <<"A", "a">>, <<"A">> >>} :
       input = [kind |-> "url", of |-> t,
                j |-> <<[string |-> keys[1], item |-> Contents[a]],
                        [string |-> keys[2], item |-> Contents[b]]>>]

Init ==
  /\ Start
  /\ \/ (JsonInput \/ WireInput) /\ status = "idle"
     \/ FormatInput /\ status = "running"

\* The conversion is over.
Finished == status # "running" /\ UNCHANGED <<input, loop>>

Next == FormatsNext \/ Finished

Spec == Init /\ [][Next]_<<input, loop>>

-----------------------------------------------------------------------------
(***************************************************************************)
(* JSON text.                                                              *)
(***************************************************************************)
Blank(t) == Range(t) \subseteq blanks

RECURSIVE Derives(_, _, _)

\* The grammar of JSON, depth levels deep, over the texts made of Pieces, with
\* every character up to 32 for white space.
Derives(symbol, t, depth) ==
  LET cut(k, left, right) == Derives(left, SubSeq(t, 1, k - 1), depth)
                             /\ Derives(right, SubSeq(t, k + 1, Len(t)), depth)
      ends(a, b) == Len(t) > 1 /\ t[1] = a /\ Last(t) = b
      inner == SubSeq(t, 2, Len(t) - 1)
  IN CASE t # <<>> /\ Head(t) \in blanks -> Derives(symbol, Tail(t), depth)
       [] t # <<>> /\ Head(t) \notin blanks /\ Last(t) \in blanks -> Derives(symbol, Front(t), depth)
       [] symbol = "string" -> t = <<quote, quote>>
       [] symbol = "value" ->
            \/ t = <<quote, quote>>
            \/ ends("[", "]") /\ depth > 0 /\ (Blank(inner) \/ Derives("elements", inner, depth - 1))
            \/ ends("{", "}") /\ depth > 0 /\ (Blank(inner) \/ Derives("members", inner, depth - 1))
       [] symbol = "elements" ->
            \/ Derives("value", t, depth)
            \/ \E k \in DOMAIN t : t[k] = "," /\ cut(k, "value", "elements")
       [] symbol = "member" -> \E k \in DOMAIN t : t[k] = ":" /\ cut(k, "string", "value")
       [] symbol = "members" ->
            \/ Derives("member", t, depth)
            \/ \E k \in DOMAIN t : t[k] = "," /\ cut(k, "member", "members")

\* A text with or without a byte order mark before its value.
IsText(t) ==
  Derives("value", IF IsPrefix(bom, t) THEN SubSeq(t, 4, Len(t)) ELSE t, NestingLimit)

\* What cJSON_ParseWithOpts() takes, numbers aside, is JSON nested no deeper
\* than the limit, with two differences: every character up to 32 is white
\* space, and a byte order mark may come first.  It takes exactly these texts
\* when it is told to look for the end, and exactly those that begin with one
\* when it is not, as cJSON_Parse(): the zero behind the text and a missing
\* end included.
ParsesTheGrammar ==
  Kind("text") =>
    LET t == input.of
    IN /\ cJSON_ParseWithOpts(t, TRUE).ok <=> IsText(t)
       /\ cJSON_ParseWithOpts(t, FALSE).ok <=> \E k \in 1 .. Len(t) : IsText(SubSeq(t, 1, k))

\* A number is taken whole if it begins with a digit or a minus and the buffer
\* for strtod() holds it; a longer text is cut where the longest such number
\* in it ends, and is then refused by whoever looks at what follows.
NumbersAreRead ==
  Kind("number") =>
    LET t == input.of
        numbers == {k \in 1 .. Len(t) : /\ k <= NumberSize /\ t[1] \notin {"+", "."}
                                        /\ IsNumber(SubSeq(t, 1, k))}
        r == cJSON_ParseWithOpts(t, FALSE)
    IN /\ cJSON_ParseWithOpts(t, TRUE).ok <=> Len(t) \in numbers
       /\ r.ok <=> numbers # {}
       /\ r.ok => r.value.of = SubSeq(t, 1, Max(numbers))

\* The buffer of a string is allocated before its escapes are read: it holds
\* what they turn out to be, up to four bytes for one or two \u escapes, and the
\* terminating zero.
StringFits ==
  Kind("literal") =>
    LET r == parse_string(input.of, 0) IN r.ok => r.used <= r.allocated

\* Two \u escapes give the code points UTF-16 says, or none; encoded as
\* UTF-8 and decoded again each is what it was.
EscapesAreUnicode ==
  Kind("codes") =>
    LET a == parse_hex4(input.of[1])
        b == parse_hex4(input.of[2])
        high(c) == c \in 55296 .. 56319
        low(c) == c \in 56320 .. 57343
        points == IF high(a) /\ low(b) THEN <<(a - 55296) * 1024 + (b - 56320) + 65536>>
                  ELSE <<a, b>>
        lone == Len(points) = 2 /\ (high(a) \/ low(a) \/ high(b) \/ low(b))
        r == parse_string(<<quote, bslash, "u">> \o input.of[1] \o <<bslash, "u">> \o input.of[2]
                          \o <<quote>>, 0)
        tail(bytes) == FoldLeft(LAMBDA n, x : n * 64 + (x - 128), 0, Tail(bytes))
        decoded(bytes) == tail(bytes) + (64 ^ (Len(bytes) - 1)) *
                            (bytes[1] - <<0, 192, 224, 240>>[Len(bytes)])
    IN /\ r.ok <=> ~lone
       /\ r.ok => r.value.of = c_string([k \in DOMAIN points |-> character(points[k])])
       /\ r.ok => \A k \in DOMAIN points : decoded(utf8_encode(points[k])) = points[k]

RECURSIVE Depth(_)

Depth(v) ==
  LET inside == CASE v.type = "array" -> Range(v.of)
                  [] v.type = "object" -> {m[2] : m \in Range(v.of)}
                  [] OTHER -> {}
  IN IF v.type \notin {"array", "object"} THEN 0
     ELSE 1 + Max({0} \union {Depth(x) : x \in inside})

\* More reallocations than a text needs.
Enough == 9

\* Sizes of a buffer that grows before it holds the smallest texts.
FirstSizes == 1 .. 6

\* What is printed, formatted or not and however small the first buffer,
\* parses to the value that was printed, unless it is nested deeper than the
\* parser allows: the printer has no limit.
RoundTrip ==
  Kind("value") =>
    \A p \in {print(input.of, format, size, Enough) : format \in BOOLEAN, size \in {1, 8}} :
      LET r == cJSON_ParseWithOpts(p.text, TRUE)
      IN p.ok => /\ r.ok <=> Depth(input.of) <= NestingLimit
                 /\ r.ok => r.value = input.of

\* No byte is written past the buffer, whatever its size and whichever
\* reallocation fails, and one that is not returned is freed, once; a buffer of
\* five bytes more than the text and its zero is enough, as cJSON.h says of
\* cJSON_PrintPreallocated().
PrintsInsideBuffer ==
  Kind("value") =>
    \A format \in BOOLEAN :
      LET whole == Len(print(input.of, format, MaxBuffer * 4, Enough).text)
      IN /\ \A len \in 0 .. MaxBuffer :
              LET p == cJSON_PrintPreallocated(input.of, len, format)
              IN ~p.over /\ (len >= whole + 1 + 5 => p.ok)
         /\ \A size \in FirstSizes, grows \in {0, 1, Enough} :
              LET p == print(input.of, format, size, grows)
              IN ~p.over /\ p.freed = IF p.ok THEN 0 ELSE 1

\* cJSON's parser: what it accepts, the room it allocates and the characters it
\* makes of escapes.
ReadsJson == ParsesTheGrammar /\ NumbersAreRead /\ StringFits /\ EscapesAreUnicode

\* cJSON's printer: what it prints can be read, and it stays in its buffer.
PrintsJson == RoundTrip /\ PrintsInsideBuffer
=============================================================================
