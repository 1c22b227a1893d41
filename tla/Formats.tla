------------------------------- MODULE Formats ------------------------------
(***************************************************************************)
(* Three small formats of the drivers: the CSV file of the hash driver, the *)
(* URL template of the CNAM driver and the operators map of Coure ANQ.     *)
(*                                                                         *)
(* Each of them is read by a loop; a step is one turn of it.  Lines and    *)
(* templates are sequences of characters.                                  *)
(***************************************************************************)
EXTENDS Inputs, FiniteSetsExt, SequencesExt

CONSTANT FieldsNumber  \* fields of a row, ECSV_FIELD_MAX

ASSUME FieldsAssumption == FieldsNumber \in Nat \ {0, 1, 2}

Comma == ","
OpenBrace == "{"
CloseBrace == "}"

VARIABLES
  status,        \* of the loop: "running", "done", "failed"; "idle" for another kind of input
  i,             \* the line, character or member whose turn it is
  map,           \* the hash of the CSV file, or the operators map
  at, row,       \* where the stream of a line stands, and the fields read of it
  pos, state,    \* where a part of the template begins, and what it is
  uri_parts,     \* the parts of the template
  default_value  \* the default of the operators map, if it was met

loop == <<status, i, map, at, row, pos, state, uri_parts, default_value>>

Start ==
  /\ i = 1 /\ map = [k \in {} |-> <<>>]
  /\ at = 1 /\ row = <<>>
  /\ pos = 1 /\ state = "normal" /\ uri_parts = <<>>
  /\ default_value = <<>>

Running(kinds) == status = "running" /\ input.kind \in kinds
Ends(how) == status' = how /\ UNCHANGED <<i, map, at, row, pos, state, uri_parts, default_value>>

\* Mutant: a later value of the same key replaces the first.
emplace_replaces(k, v) == [x \in DOMAIN map \union {k} |-> IF x = k THEN v ELSE map[x]]

\* emplace() of an unordered_map, behind find() or not: the first value stays.
emplace(k, v) ==
  IF k \in DOMAIN map THEN map ELSE [x \in DOMAIN map \union {k} |-> IF x = k THEN v ELSE map[x]]

-----------------------------------------------------------------------------
(***************************************************************************)
(* loadCsvFile().                                                          *)
(***************************************************************************)
lines == input.of

\* getline(stream, field, ','), at a position of the line: it fails only when
\* the stream has nothing left, not even a delimiter.
getline(line, from) ==
  LET comma == {k \in from .. Len(line) : line[k] = Comma}
      end == IF comma = {} THEN Len(line) + 1 ELSE Min(comma)
  IN [ok |-> from <= Len(line), field |-> SubSeq(line, from, end - 1), next |-> end + 1]

\* All fields but one have something in them.
valid_row(r) == Cardinality({k \in 1 .. FieldsNumber : r[k] # <<>>}) >= FieldsNumber - 1

CsvLine == Running({"csv"}) /\ i <= Len(lines)

\* Empty lines are skipped.
SkipLine ==
  /\ CsvLine /\ lines[i] = <<>>
  /\ i' = i + 1
  /\ UNCHANGED <<status, map, at, row, pos, state, uri_parts, default_value>>

\* The next field of the row; one that is missing throws.
ReadField ==
  /\ CsvLine /\ lines[i] # <<>> /\ Len(row) < FieldsNumber
  /\ LET g == getline(lines[i], at)
     IN IF g.ok THEN /\ row' = Append(row, g.field) /\ at' = g.next
                     /\ UNCHANGED <<status, i, map, pos, state, uri_parts, default_value>>
        ELSE Ends("failed")

\* The row is complete; one with too little in it throws.
KeepRow ==
  /\ CsvLine /\ Len(row) = FieldsNumber
  /\ IF valid_row(row)
     THEN /\ map' = emplace(row[1], row)
          /\ i' = i + 1 /\ at' = 1 /\ row' = <<>>
          /\ UNCHANGED <<status, pos, state, uri_parts, default_value>>
     ELSE Ends("failed")

EndOfCsv == Running({"csv"}) /\ i > Len(lines) /\ Ends("done")

\* CMhashCsvDriver::resolve(): a number that is not in the file is its own
\* routing number, without a tag.
csv_resolve(number) ==
  IF number \in DOMAIN map THEN [lrn |-> map[number][3], tag |-> map[number][2]]
  ELSE [lrn |-> number, tag |-> <<>>]

-----------------------------------------------------------------------------
(***************************************************************************)
(* The template processor.  A part is the piece of the template from one   *)
(* position to another.                                                    *)
(***************************************************************************)
url == input.of
Part(t, from, to) == [type |-> t, from |-> from, to |-> to]
data(p) == SubSeq(url, p.from, p.to)

\* Mutant: a static text of one character is dropped.
static_of_two(from, end) == IF end > from + 1 THEN <<Part("string", from, end - 1)>> ELSE <<>>

\* The static text before a position, if there is any.
static(from, end) == IF end > from THEN <<Part("string", from, end - 1)>> ELSE <<>>

TemplateChar == Running({"template", "url"}) /\ i <= Len(url)

OpenPlaceholder ==
  /\ TemplateChar /\ url[i] = OpenBrace /\ state = "normal"
  /\ uri_parts' = uri_parts \o static(pos, i)
  /\ pos' = i + 1 /\ state' = "placeholder" /\ i' = i + 1
  /\ UNCHANGED <<status, map, at, row, default_value>>

ClosePlaceholder ==
  /\ TemplateChar /\ url[i] = CloseBrace /\ state = "placeholder" /\ i > pos
  /\ uri_parts' = Append(uri_parts, Part("placeholder", pos, i - 1))
  /\ pos' = i + 1 /\ state' = "normal" /\ i' = i + 1
  /\ UNCHANGED <<status, map, at, row, default_value>>

\* A brace where none may be, or an empty placeholder, throws.
BadBrace ==
  /\ TemplateChar
  /\ \/ url[i] = OpenBrace /\ state = "placeholder"
     \/ url[i] = CloseBrace /\ (state = "normal" \/ i = pos)
  /\ Ends("failed")

OtherChar ==
  /\ TemplateChar /\ url[i] \notin {OpenBrace, CloseBrace}
  /\ i' = i + 1
  /\ UNCHANGED <<status, map, at, row, pos, state, uri_parts, default_value>>

\* The tail is saved, unless it is in a placeholder that was not closed.
EndOfTemplate ==
  /\ Running({"template", "url"}) /\ i > Len(url)
  /\ IF state = "placeholder" THEN Ends("failed")
     ELSE /\ status' = "done" /\ uri_parts' = uri_parts \o static(pos, i)
          /\ UNCHANGED <<i, map, at, row, pos, state, default_value>>

Supported == {"string", "number", "true", "false"}

\* Text of a JSON value in a URL: a number is the int printed, which stands
\* here for its digits, a boolean is a digit.
url_text(item) ==
  CASE item.type = "string" -> item.of
    [] item.type = "number" -> <<valueint(item.of)>>
    [] item.type = "true" -> <<"1">>
    [] item.type = "false" -> <<"0">>

capitals == <<"A", "B", "C", "D", "E", "F", "G", "H", "I", "J", "K", "L", "M", "N", "O", "P", "Q",
              "R", "S", "T", "U", "V", "W", "X", "Y", "Z">>
smalls == <<"a", "b", "c", "d", "e", "f", "g", "h", "i", "j", "k", "l", "m", "n", "o", "p", "q",
            "r", "s", "t", "u", "v", "w", "x", "y", "z">>

tolower(c) ==
  IF c \in Range(capitals) THEN smalls[CHOOSE n \in 1 .. 26 : capitals[n] = c] ELSE c

\* case_insensitive_strcmp() says that two names are the same.
Same(s, t) == Len(s) = Len(t) /\ \A k \in 1 .. Len(s) : tolower(s[k]) = tolower(t[k])

\* Mutant: a key is found by its exact name.
cJSON_GetObjectItem_exact(j, name) ==
  LET found == {k \in 1 .. Len(j) : j[k].string = name}
  IN IF found = {} THEN 0 ELSE Min(found)

\* The first member of the request j that has the name, 0 if there is none.
cJSON_GetObjectItem(j, name) ==
  LET found == {k \in 1 .. Len(j) : Same(j[k].string, name)}
  IN IF found = {} THEN 0 ELSE Min(found)

\* Mutant: a placeholder whose key is missing is left out.
get_url_skips(j) ==
  LET key(p) == cJSON_GetObjectItem(j, data(p))
      text(p) == IF p.type = "string" THEN data(p)
                 ELSE IF key(p) = 0 THEN <<>> ELSE url_text(j[key(p)].item)
  IN IF \E p \in Range(uri_parts) : key(p) # 0 /\ j[key(p)].item.type = "null"
     THEN [ok |-> FALSE]
     ELSE [ok |-> TRUE, pieces |-> [k \in DOMAIN uri_parts |-> text(uri_parts[k])]]

\* The URL as the pieces it is put together from; j is the request, the members
\* of an object.  A key that is missing or of another type throws.
get_url(j) ==
  LET key(p) == cJSON_GetObjectItem(j, data(p))
      usable(p) == p.type = "string" \/ (key(p) # 0 /\ j[key(p)].item.type \in Supported)
      text(p) == IF p.type = "string" THEN data(p) ELSE url_text(j[key(p)].item)
  IN IF \E k \in DOMAIN uri_parts : ~usable(uri_parts[k]) THEN [ok |-> FALSE]
     ELSE [ok |-> TRUE, pieces |-> [k \in DOMAIN uri_parts |-> text(uri_parts[k])]]

-----------------------------------------------------------------------------
(***************************************************************************)
(* OperatorsMap_t::parse(), over the members of a JSON value.              *)
(***************************************************************************)
members == input.of

\* getJsonValue<unsigned int>(): the int, cast.
to_unsigned(number) == valueint(number) % (2 * IntMax + 2)

\* Mutant: a second default replaces the first.
has_default_not == FALSE

has_default == default_value # <<>>

Operators == Running({"operators"}) /\ input.type = "object"
Member == Operators /\ i <= Len(members)

\* A value that is no object throws.
NoObject == Running({"operators"}) /\ input.type # "object" /\ Ends("failed")

\* A value that is no number, or a second default, throws.
BadMember ==
  /\ Member
  /\ members[i].type # "number" \/ (members[i].string = "default" /\ has_default)
  /\ Ends("failed")

DefaultMember ==
  /\ Member /\ members[i].type = "number" /\ members[i].string = "default" /\ ~has_default
  /\ default_value' = <<to_unsigned(members[i].of)>>
  /\ i' = i + 1
  /\ UNCHANGED <<status, map, at, row, pos, state, uri_parts>>

OperatorMember ==
  /\ Member /\ members[i].type = "number" /\ members[i].string # "default"
  /\ map' = emplace(members[i].string, to_unsigned(members[i].of))
  /\ i' = i + 1
  /\ UNCHANGED <<status, at, row, pos, state, uri_parts, default_value>>

EndOfMembers ==
  /\ Operators /\ i > Len(members)
  /\ Ends(IF default_value = <<>> THEN "failed" ELSE "done")

resolve_operator(operator_name) ==
  IF operator_name \in DOMAIN map THEN map[operator_name] ELSE default_value[1]

-----------------------------------------------------------------------------
ReadCsv == SkipLine \/ ReadField \/ KeepRow \/ EndOfCsv
ReadTemplate == OpenPlaceholder \/ ClosePlaceholder \/ BadBrace \/ OtherChar \/ EndOfTemplate
ReadOperators == NoObject \/ BadMember \/ DefaultMember \/ OperatorMember \/ EndOfMembers

FormatsNext == (ReadCsv \/ ReadTemplate \/ ReadOperators) /\ UNCHANGED input

\* Any file, template, request and map.
CsvInput == [kind : {"csv"}, of : Seq(Seq(STRING))]
TemplateInput == [kind : {"template"}, of : Seq(STRING)]
Items == [type : {"number"}, of : Int] \union [type : STRING \ {"number"}, of : Seq(STRING)]
UrlInput(j) == [kind : {"url"}, of : Seq(STRING), j : {j}]
Request(j) == j \in Seq([string : Seq(STRING), item : Items])
OperatorsInput == [kind : {"operators"}, type : STRING,
                   of : Seq([string : STRING, type : STRING, of : Int])]

FormatsInit ==
  /\ status = "running" /\ Start
  /\ \/ input \in CsvInput \union TemplateInput \union OperatorsInput
     \/ \E j : Request(j) /\ input \in UrlInput(j)

FormatsSpec == FormatsInit /\ [][FormatsNext]_<<input, loop>>

-----------------------------------------------------------------------------
(***************************************************************************)
(* The formats, each input read as a whole.                                *)
(***************************************************************************)
Commas(line) == {k \in 1 .. Len(line) : line[k] = Comma}
Ordinal(line, c) == Cardinality({d \in Commas(line) : d <= c})

\* The position behind the n-th field: the n-th comma, or the end of the line.
Bound(line, n) ==
  IF n = 0 THEN 0
  ELSE IF n <= Cardinality(Commas(line)) THEN CHOOSE c \in Commas(line) : Ordinal(line, c) = n
  ELSE Len(line) + 1

Field(line, n) == SubSeq(line, Bound(line, n - 1) + 1, Bound(line, n) - 1)

\* A row has enough fields, of the first FieldsNumber at most one is empty,
\* and the last of these may be empty only when another field follows.
IsRow(line) ==
  /\ Cardinality(Commas(line)) >= FieldsNumber - 1
  /\ \A j, k \in 1 .. FieldsNumber : Field(line, j) = <<>> /\ Field(line, k) = <<>> => j = k
  /\ Field(line, FieldsNumber) = <<>> => Cardinality(Commas(line)) >= FieldsNumber

Used == {l \in 1 .. Len(lines) : lines[l] # <<>>}

\* The lines that are the first of their number.
Firsts == {l \in Used : \A k \in Used : k < l => Field(lines[k], 1) # Field(lines[l], 1)}

\* A file is loaded if every line of it is empty or a row; a number is then
\* looked up in its first row, and no number is there that the file has not.
FirstRowAnswers ==
  Kind("csv") =>
    /\ status = "failed" => \E l \in Used : ~IsRow(lines[l])
    /\ status = "done" =>
         /\ \A l \in Used : IsRow(lines[l])
         /\ \A l \in Firsts : csv_resolve(Field(lines[l], 1)) =
                                [lrn |-> Field(lines[l], 3), tag |-> Field(lines[l], 2)]
         /\ DOMAIN map = {Field(lines[l], 1) : l \in Used}

Brace == {OpenBrace, CloseBrace}
Plain(from, to) == \A n \in from .. to : url[n] \notin Brace
Pair(a, b) == url[a] = OpenBrace /\ url[b] = CloseBrace /\ Plain(a + 1, b - 1)

\* The braces close each other, without nesting, around something.
Closed ==
  /\ \A a \in 1 .. Len(url) : url[a] = OpenBrace => \E b \in a + 2 .. Len(url) : Pair(a, b)
  /\ \A b \in 1 .. Len(url) : url[b] = CloseBrace => \E a \in 1 .. b - 2 : Pair(a, b)

\* Where a part begins in the template, its brace included, and what is behind.
first(p) == IF p.type = "placeholder" THEN p.from - 1 ELSE p.from
behind(p) == IF p.type = "placeholder" THEN p.to + 2 ELSE p.to + 1

\* A placeholder is what two braces enclose, a static text has no brace.
WellCut(p) == IF p.type = "placeholder" THEN Pair(p.from - 1, p.to + 1) ELSE Plain(p.from, p.to)

\* The parts lie one behind the other from the first character to before end.
Tiled(parts, end) ==
  /\ \A k \in DOMAIN parts :
       /\ WellCut(parts[k])
       /\ first(parts[k]) = IF k = 1 THEN 1 ELSE behind(parts[k - 1])
  /\ end = IF parts = <<>> THEN 1 ELSE behind(parts[Len(parts)])

\* parse_url_template() accepts a template if its braces close each other; put
\* together again its parts are the template.
TemplateIsWhole ==
  input.kind \in {"template", "url"} =>
    /\ status = "failed" => ~Closed
    /\ status = "done" => Closed /\ Tiled(uri_parts, Len(url) + 1)

\* The m-th member of the request is the first with this name, whatever the
\* case of its letters.
First(j, m, name) ==
  Same(j[m].string, name) /\ \A n \in 1 .. m - 1 : ~Same(j[n].string, name)

\* get_url() makes a URL only if every placeholder of the template has a value
\* in the request, the case of letters aside; the first such value is taken,
\* and a number is in the URL if and only if an int holds it.
UrlHasEveryValue ==
  Kind("url") /\ status = "done" =>
    LET j == input.j
        r == get_url(j)
    IN /\ r.ok <=> \A a, b \in 1 .. Len(url) :
                     a < b /\ Pair(a, b) =>
                       \E m \in 1 .. Len(j) : /\ First(j, m, SubSeq(url, a + 1, b - 1))
                                             /\ j[m].item.type \in Supported
       /\ r.ok => \A k \in DOMAIN uri_parts, m \in 1 .. Len(j) :
            uri_parts[k].type = "placeholder" /\ First(j, m, data(uri_parts[k])) =>
              /\ j[m].item.type = "string" => r.pieces[k] = j[m].item.of
              /\ j[m].item.type = "number" =>
                   (r.pieces[k] = <<j[m].item.of>> <=> j[m].item.of \in -IntMax - 1 .. IntMax)

Named(n) == {k \in 1 .. Len(members) : members[k].string = n}

\* An object, all values are numbers and one of them, only one, is the default.
GoodMap ==
  /\ input.type = "object"
  /\ \A k \in 1 .. Len(members) : members[k].type = "number"
  /\ \E d \in Named("default") : Named("default") = {d}

\* OperatorsMap_t: a good map is accepted, no other; then an operator's tag is
\* the value of its first member, in whatever order the members are, and the
\* default's for an operator that has none.
OperatorsResolved ==
  Kind("operators") =>
    /\ status = "failed" => ~GoodMap
    /\ status = "done" =>
         /\ GoodMap
         /\ \A k \in 1 .. Len(members) :
              (\A m \in Named(members[k].string) : k <= m) /\ members[k].of \in 0 .. IntMax
                => resolve_operator(members[k].string) = members[k].of
         /\ DOMAIN map \subseteq {members[k].string : k \in 1 .. Len(members)}

\* The CSV file, the URL template and the operators map of the drivers.
FormatsFaithful == FirstRowAnswers /\ TemplateIsWhole /\ UrlHasEveryValue /\ OperatorsResolved
=============================================================================
