------------------------------ MODULE JsonText ------------------------------
(***************************************************************************)
(* cJSON's parser and printer, as functions from text to value and back.   *)
(*                                                                         *)
(* A text is a sequence of characters; the buffer has one more byte, the   *)
(* terminating zero, which the parser takes for white space.  Offsets      *)
(* count from 0, as in the code.  A value is a record of its type and      *)
(* contents, those of a number its spelling; a member of an object is a    *)
(* pair of its name and its value.                                         *)
(***************************************************************************)
EXTENDS Inputs, FiniteSetsExt, SequencesExt

CONSTANTS
  NestingLimit, \* CJSON_NESTING_LIMIT
  NumberSize    \* characters of a number, number_c_string without its zero

ASSUME LimitAssumption == NestingLimit \in Nat /\ NumberSize \in Nat

nul == "NUL"
quote == "\""
bslash == "\\"
control == "SOH"  \* the character 1: one below 32 with no letter for its escape
blanks == {" ", "\n", "\t", control, nul}  \* the characters up to 32
bom == <<"EF", "BB", "BF">>
hexDigits == <<"0", "1", "2", "3", "4", "5", "6", "7", "8", "9", "a", "b", "c", "d", "e", "f">>
digits == {hexDigits[k] : k \in 1 .. 10}

At(t, offset) == IF offset < Len(t) THEN t[offset + 1] ELSE nul

Fail(offset) == [ok |-> FALSE, offset |-> offset]
Got(offset, value) == [ok |-> TRUE, offset |-> offset, value |-> value]

-----------------------------------------------------------------------------
(***************************************************************************)
(* Parsing numbers and strings.                                            *)
(***************************************************************************)

\* A step back when nothing is left: the terminating zero is skipped too.
buffer_skip_whitespace(t, offset) ==
  Min({o \in offset .. Len(t) : At(t, o) \notin blanks \/ o = Len(t)})

\* The mark is skipped when something is behind it.
skip_utf8_bom(t) == IF Len(t) >= 4 /\ IsPrefix(bom, t) THEN 3 ELSE 0

\* How many characters of a set there are from offset on.
Run(t, offset, set) ==
  Max({n \in 0 .. Len(t) : \A k \in 0 .. n - 1 : At(t, offset + k) \in set})

Unsigned(s) == IF s # <<>> /\ Head(s) \in {"+", "-"} THEN Tail(s) ELSE s

\* What strtod() reads as a number: a sign, digits with a point before, between
\* or behind them, and an exponent of a sign and digits.  That is every number
\* of JSON, and 01, 1. and -.1 as well.
IsNumber(s) ==
  \E m \in 1 .. Len(s) :
    LET mantissa == Unsigned(SubSeq(s, 1, m))
        exponent == Unsigned(SubSeq(s, m + 2, Len(s)))
    IN /\ Range(mantissa) \subseteq digits \union {"."}
       /\ Range(mantissa) \intersect digits # {}
       /\ Cardinality({k \in DOMAIN mantissa : mantissa[k] = "."}) <= 1
       /\ m < Len(s) => /\ s[m + 1] \in {"e", "E"}
                        /\ exponent # <<>> /\ Range(exponent) \subseteq digits

\* How much of s strtod() takes: the longest number it begins with.
strtod(s) == Max({0} \union {k \in 1 .. Len(s) : IsNumber(SubSeq(s, 1, k))})

\* Mutant: all that was copied is taken.
parse_number_whole(t, offset) ==
  LET run == Run(t, offset, digits \union {"+", "-", "e", "E", "."})
      i == IF run < NumberSize THEN run ELSE NumberSize
  IN IF strtod(SubSeq(t, offset + 1, offset + i)) = 0 THEN Fail(offset)
     ELSE Got(offset + i, [type |-> "number", of |-> SubSeq(t, offset + 1, offset + i)])

\* So many characters as the buffer holds are copied for strtod().
parse_number(t, offset) ==
  LET run == Run(t, offset, digits \union {"+", "-", "e", "E", "."})
      i == IF run < NumberSize THEN run ELSE NumberSize
      length == strtod(SubSeq(t, offset + 1, offset + i))
  IN IF length = 0 THEN Fail(offset)
     ELSE Got(offset + length,
              [type |-> "number", of |-> SubSeq(t, offset + 1, offset + length)])

\* Four hexadecimal digits; any other character makes it 0.
parse_hex4(hex) ==
  IF Range(hex) \subseteq Range(hexDigits)
  THEN FoldLeft(LAMBDA h, d : h * 16 + (CHOOSE n \in 0 .. 15 : hexDigits[n + 1] = d), 0, hex)
  ELSE 0

\* Mutant: the second half of a pair is not checked.
utf16_literal_to_utf8_unchecked(first_code, second_code) ==
  IF first_code \in 55296 .. 56319 /\ second_code # -1
  THEN 65536 + ((first_code % 1024) * 1024) + (second_code % 1024)
  ELSE IF first_code \in 55296 .. 57343 THEN -1 ELSE first_code

\* The code point of one or two codes of 16 bits, -1 for one that is wrong or
\* not there.
utf16_literal_to_utf8(first_code, second_code) ==
  IF first_code \in 55296 .. 56319 /\ second_code \in 56320 .. 57343
  THEN 65536 + ((first_code % 1024) * 1024) + (second_code % 1024)
  ELSE IF first_code \in 55296 .. 57343 THEN -1 ELSE first_code

utf8_length(codepoint) ==
  IF codepoint < 128 THEN 1 ELSE IF codepoint < 2048 THEN 2 ELSE IF codepoint < 65536 THEN 3 ELSE 4

\* The bytes of a code point: six bits at a time, from the last one.
utf8_encode(codepoint) ==
  LET length == utf8_length(codepoint)
      first_byte_mark == <<0, 192, 224, 240>>[length]
      shifted(n) == codepoint \div (64 ^ n)
  IN [b \in 1 .. length |-> IF b = 1 THEN first_byte_mark + shifted(length - 1)
                            ELSE 128 + (shifted(length - b) % 64)]

\* A code point as an element of a string.
character(codepoint) ==
  IF codepoint = 0 THEN nul ELSE IF codepoint = 1 THEN control ELSE ToString(codepoint)

escapes == [c \in {"n", "t", quote, bslash} |->
              CASE c = "n" -> "\n" [] c = "t" -> "\t" [] OTHER -> c]

RECURSIVE scan(_, _, _), unescape(_, _, _)

\* Mutant: a \u escape is counted as one byte of the string.
scan_code_is_byte(t, at, skipped_bytes) ==
  IF at > Len(t) \/ At(t, at) = quote THEN [end |-> at, skipped_bytes |-> skipped_bytes]
  ELSE IF At(t, at) # bslash THEN scan(t, at + 1, skipped_bytes)
  ELSE scan(t, at + 2, skipped_bytes + (IF At(t, at + 1) = "u" THEN 5 ELSE 1))

\* Where the literal ends, a backslash taking the character behind it along,
\* and the backslashes seen; past the buffer when it does not end.
scan(t, at, skipped_bytes) ==
  IF at > Len(t) \/ At(t, at) = quote THEN [end |-> at, skipped_bytes |-> skipped_bytes]
  ELSE IF At(t, at) = bslash THEN scan(t, at + 2, skipped_bytes + 1)
  ELSE scan(t, at + 1, skipped_bytes)

\* A code point that was written with one or two escapes; no length if wrong.
Sequence(codepoint) ==
  [length |-> IF codepoint < 0 THEN 0 ELSE IF codepoint < 65536 THEN 6 ELSE 12,
   c |-> character(codepoint), bytes |-> utf8_length(codepoint)]

\* The next character of the string and the length of what stands for it.
literal(t, at, end) ==
  LET next == At(t, at + 1)
      code(a) == parse_hex4(SubSeq(t, a + 3, a + 6))
      pair == end - at >= 12 /\ At(t, at + 6) = bslash /\ At(t, at + 7) = "u"
  IN IF At(t, at) # bslash THEN [length |-> 1, c |-> At(t, at), bytes |-> 1]
     ELSE IF next \in DOMAIN escapes THEN [length |-> 2, c |-> escapes[next], bytes |-> 1]
     ELSE IF next # "u" \/ end - at < 6 THEN Sequence(-1)
     ELSE Sequence(utf16_literal_to_utf8(code(at), IF pair THEN code(at + 6) ELSE -1))

Before(l, r) == [r EXCEPT !.out = <<l.c>> \o @, !.bytes = @ + l.bytes]

\* The characters up to end with the escapes replaced, and the bytes they take.
unescape(t, at, end) ==
  LET l == literal(t, at, end)
      stop(ok) == [ok |-> ok, out |-> <<>>, bytes |-> 0]
  IN IF at >= end THEN stop(TRUE)
     ELSE IF l.length = 0 THEN stop(FALSE)
     ELSE Before(l, unescape(t, at + l.length, end))

\* What is read of a buffer that holds a string: all up to a zero.
c_string(s) == SubSeq(s, 1, Min({k \in 0 .. Len(s) : k = Len(s) \/ s[k + 1] = nul}))

\* allocated is computed before the escapes are read, used afterwards.
LiteralRead(offset, s, r) ==
  IF ~r.ok THEN Fail(offset + 1)
  ELSE [ok |-> TRUE, offset |-> s.end + 1,
        value |-> [type |-> "string", of |-> c_string(r.out)],
        allocated |-> s.end - offset - s.skipped_bytes + 1, used |-> r.bytes + 1]

parse_string(t, offset) ==
  LET s == scan(t, offset + 1, 0)
  IN IF At(t, offset) # quote \/ s.end > Len(t) THEN Fail(offset + 1)
     ELSE LiteralRead(offset, s, unescape(t, offset + 1, s.end))

-----------------------------------------------------------------------------
(***************************************************************************)
(* Parsing values.  An item is nested as deep as depth says.               *)
(***************************************************************************)
RECURSIVE parse_value(_, _, _), parse_elements(_, _, _, _), parse_members(_, _, _, _)

\* A result whose offset has moved over the white space behind what was read.
Past(t, r) == IF r.ok THEN [r EXCEPT !.offset = buffer_skip_whitespace(t, @)] ELSE r

after_element(t, v, depth, list) ==
  IF ~v.ok THEN v
  ELSE IF At(t, v.offset) = "," THEN parse_elements(t, v.offset, depth, list)
  ELSE IF At(t, v.offset) = "]" THEN Got(v.offset + 1, [type |-> "array", of |-> list])
  ELSE Fail(v.offset)

\* The elements behind offset, which is before the first or at a comma.
parse_elements(t, offset, depth, head) ==
  LET v == parse_value(t, buffer_skip_whitespace(t, offset + 1), depth)
  IN after_element(t, Past(t, v), depth, Append(head, v.value))

\* Mutant: a comma may end the list.
parse_array_trailing_comma(t, offset, depth) ==
  LET first == buffer_skip_whitespace(t, offset + 1)
      r == parse_elements(t, first - 1, depth + 1, <<>>)
  IN IF depth >= NestingLimit THEN Fail(offset)
     ELSE IF At(t, first) = "]" THEN Got(first + 1, [type |-> "array", of |-> <<>>])
     ELSE IF ~r.ok /\ At(t, r.offset) = "]" THEN Got(r.offset + 1, [type |-> "array", of |-> <<>>])
     ELSE r

parse_array(t, offset, depth) ==
  LET first == buffer_skip_whitespace(t, offset + 1)
  IN IF depth >= NestingLimit THEN Fail(offset)
     ELSE IF At(t, first) = "]" THEN Got(first + 1, [type |-> "array", of |-> <<>>])
     ELSE parse_elements(t, first - 1, depth + 1, <<>>)

after_member(t, v, depth, list) ==
  IF ~v.ok THEN v
  ELSE IF At(t, v.offset) = "," THEN parse_members(t, v.offset, depth, list)
  ELSE IF At(t, v.offset) = "}" THEN Got(v.offset + 1, [type |-> "object", of |-> list])
  ELSE Fail(v.offset)

\* The value behind the name of a member.
parse_member(t, name, depth, head) ==
  LET v == parse_value(t, buffer_skip_whitespace(t, name.offset + 1), depth)
  IN IF ~name.ok THEN name
     ELSE IF At(t, name.offset) # ":" THEN Fail(name.offset)
     ELSE after_member(t, Past(t, v), depth, Append(head, <<name.value.of, v.value>>))

parse_members(t, offset, depth, head) ==
  parse_member(t, Past(t, parse_string(t, buffer_skip_whitespace(t, offset + 1))), depth, head)

parse_object(t, offset, depth) ==
  LET first == buffer_skip_whitespace(t, offset + 1)
  IN IF depth >= NestingLimit THEN Fail(offset)
     ELSE IF At(t, first) = "}" THEN Got(first + 1, [type |-> "object", of |-> <<>>])
     ELSE parse_members(t, first - 1, depth + 1, <<>>)

\* null stands for the three words.
parse_value(t, offset, depth) ==
  LET c == At(t, offset)
  IN CASE \A k \in 0 .. 3 : At(t, offset + k) = <<"n", "u", "l", "l">>[k + 1] ->
            Got(offset + 4, [type |-> "null", of |-> <<>>])
       [] c = quote -> LET s == parse_string(t, offset)
                       IN IF s.ok THEN Got(s.offset, s.value) ELSE s
       [] c \in digits \union {"-"} -> parse_number(t, offset)
       [] c = "[" -> parse_array(t, offset, depth)
       [] c = "{" -> parse_object(t, offset, depth)
       [] OTHER -> Fail(offset)

\* cJSON_Parse() asks for no terminating zero: it takes what follows a value.
cJSON_ParseWithOpts(t, require_null_terminated) ==
  LET v == parse_value(t, buffer_skip_whitespace(t, skip_utf8_bom(t)), 0)
      after == buffer_skip_whitespace(t, v.offset)
  IN IF v.ok /\ require_null_terminated /\ At(t, after) # nul THEN Fail(after) ELSE v

-----------------------------------------------------------------------------
(***************************************************************************)
(* Printing.  The buffer p has the text up to its offset, the bytes behind *)
(* it that update_offset() will find, its length, the reallocations that   *)
(* will still be given, how often it was freed, and whether a byte was     *)
(* written past it.                                                        *)
(***************************************************************************)
Buffer(length, noalloc, grows) ==
  [ok |-> TRUE, buffer |-> "held", text |-> <<>>, tail |-> <<>>, length |-> length,
   noalloc |-> noalloc, grows |-> grows, freed |-> 0, over |-> FALSE]

\* Mutant: no room for the terminating zero.
ensure_without_zero(p, needed) ==
  LET total == needed + Len(p.text)
  IN IF ~p.ok \/ (p.length > 0 /\ Len(p.text) >= p.length) THEN [p EXCEPT !.ok = FALSE]
     ELSE IF total <= p.length + 1 THEN p
     ELSE IF p.noalloc \/ total > IntMax THEN [p EXCEPT !.ok = FALSE]
     ELSE [p EXCEPT !.length = total * 2]

\* Mutant: the buffer that could not grow is freed and kept.
ensure_dangles(p, needed) ==
  LET total == needed + Len(p.text) + 1
      no == [p EXCEPT !.ok = FALSE]
  IN IF ~p.ok \/ (p.length > 0 /\ Len(p.text) >= p.length) \/ needed > IntMax THEN no
     ELSE IF total <= p.length THEN p
     ELSE IF p.noalloc \/ total > IntMax THEN no
     ELSE IF p.grows = 0 THEN [no EXCEPT !.length = 0, !.freed = @ + 1]
     ELSE [p EXCEPT !.length = total * 2, !.grows = @ - 1]

\* Room for needed more bytes; a buffer that cannot grow is freed.
ensure(p, needed) ==
  LET total == needed + Len(p.text) + 1
      no == [p EXCEPT !.ok = FALSE]
  IN IF ~p.ok \/ (p.length > 0 /\ Len(p.text) >= p.length) \/ needed > IntMax THEN no
     ELSE IF total <= p.length THEN p
     ELSE IF p.noalloc \/ total > IntMax THEN no
     ELSE IF p.grows = 0 THEN [no EXCEPT !.buffer = "NULL", !.length = 0, !.freed = @ + 1]
     ELSE [p EXCEPT !.length = IF total > IntMax \div 2 THEN IntMax ELSE total * 2,
                    !.grows = @ - 1]

update_offset(p) == [p EXCEPT !.text = @ \o SelectSeq(p.tail, LAMBDA c : c # nul), !.tail = <<>>]

\* bytes written at the offset, which moves over the first so many of them.
Write(p, w) ==
  LET q == ensure(p, w.needed)
  IN IF ~q.ok THEN q
     ELSE [q EXCEPT !.text = @ \o SubSeq(w.bytes, 1, w.advance),
                    !.tail = SubSeq(w.bytes, w.advance + 1, Len(w.bytes)),
                    !.over = @ \/ Len(q.text) + Len(w.bytes) > q.length]

\* What a function of the printer does to the buffer is a sequence of these: it
\* writes a piece, or its caller updates the offset behind what it wrote.
Piece(needed, bytes, advance) ==
  <<[does |-> "write", needed |-> needed, bytes |-> bytes, advance |-> advance]>>
Update == <<[does |-> "update"]>>

\* The buffer after pieces; after[n] is what the first n leave of it.
Printed(pieces, buffer) ==
  LET after[n \in 0 .. Len(pieces)] ==
        IF n = 0 THEN buffer
        ELSE IF pieces[n].does = "update" THEN update_offset(after[n - 1])
        ELSE Write(after[n - 1], pieces[n])
  IN after[Len(pieces)]

\* bytes with a zero behind them; the offset moves over all but the zero.
Terminated(bytes) == Piece(Len(bytes) + 1, Append(bytes, nul), Len(bytes))

print_number(number) == Terminated(number)

\* Mutant: a quote is not escaped.
escaped_no_quote(c) ==
  CASE c = "\n" -> <<bslash, "n">>
    [] c = bslash -> <<bslash, c>>
    [] c = control -> <<bslash, "u", "0", "0", "0", "1">>
    [] OTHER -> <<c>>

escaped(c) ==
  CASE c = "\n" -> <<bslash, "n">>
    [] c = "\t" -> <<bslash, "t">>
    [] c \in {quote, bslash} -> <<bslash, c>>
    [] c = control -> <<bslash, "u", "0", "0", "0", "1">>
    [] OTHER -> <<c>>

\* The escapes are counted, then written.
print_string_ptr(s) ==
  LET output_length == Len(s) + FoldLeft(LAMBDA n, c : n + Len(escaped(c)) - 1, 0, s)
  IN Piece(output_length + 3,
           <<quote>> \o FlattenSeq([k \in DOMAIN s |-> escaped(s[k])]) \o <<quote, nul>>, 0)

Tabs(format, n) == IF format THEN [k \in 1 .. n |-> "\t"] ELSE <<>>

RECURSIVE print_value(_, _, _)

\* The elements are nested as deep as depth says.
print_array(list, format, depth) ==
  LET comma == IF format THEN <<",", " ">> ELSE <<",">>
      element(j) == print_value(list[j], format, depth) \o Update
                      \o IF j < Len(list) THEN Terminated(comma) ELSE <<>>
  IN Piece(1, <<"[">>, 1) \o FlattenSeq([j \in DOMAIN list |-> element(j)])
       \o Piece(2, <<"]", nul>>, 0)

print_object(list, format, depth) ==
  LET line == IF format THEN <<"\n">> ELSE <<>>
      brace == <<"{">> \o line
      colon == IF format THEN <<":", "\t">> ELSE <<":">>
      indent == IF format THEN Piece(depth, Tabs(format, depth), depth) ELSE <<>>
      end(j) == (IF j < Len(list) THEN <<",">> ELSE <<>>) \o line
      member(j) == indent \o print_string_ptr(list[j][1]) \o Update
                     \o Piece(Len(colon), colon, Len(colon))
                     \o print_value(list[j][2], format, depth) \o Update \o Terminated(end(j))
  IN Piece(Len(brace) + 1, brace, Len(brace)) \o FlattenSeq([j \in DOMAIN list |-> member(j)])
       \o Piece(IF format THEN depth + 1 ELSE 2, Tabs(format, depth - 1) \o <<"}", nul>>, 0)

print_value(v, format, depth) ==
  CASE v.type = "null" -> Piece(5, <<"n", "u", "l", "l", nul>>, 0)
    [] v.type = "number" -> print_number(v.of)
    [] v.type = "string" -> print_string_ptr(v.of)
    [] v.type = "array" -> print_array(v.of, format, depth + 1)
    [] v.type = "object" -> print_object(v.of, format, depth + 1)

\* cJSON_Print() and cJSON_PrintUnformatted() begin with a buffer of size;
\* one last reallocation cuts it to the text.
print(v, format, size, grows) ==
  LET p == Printed(print_value(v, format, 0) \o Update, Buffer(size, FALSE, grows))
  IN IF p.ok /\ p.grows > 0 THEN p
     ELSE [p EXCEPT !.ok = FALSE, !.freed = @ + (IF p.buffer = "NULL" THEN 0 ELSE 1)]

cJSON_PrintPreallocated(v, len, format) ==
  Printed(print_value(v, format, 0), Buffer(len, TRUE, 0))

=============================================================================
