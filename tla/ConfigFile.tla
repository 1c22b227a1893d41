----------------------------- MODULE ConfigFile -----------------------------
(***************************************************************************)
(* Reading the configuration file at start-up: the parser of libConfuse as *)
(* load_cfg() uses it (one action per state of cfg_parse_internal), the    *)
(* label() function of the exporter, and the copy of the options into the  *)
(* global configuration.                                                   *)
(*                                                                         *)
(* A file is a sequence of the scanner's tokens, chosen one at a time.     *)
(***************************************************************************)
EXTENDS Integers, FiniteSets, SequencesExt

CONSTANTS
  Words,       \* the strings of a file: names of options and values
  IntOf,       \* the numbers among them that a long holds, a function from words
  Path,        \* a word's parts between runs of bars, a function from words
  Opts,        \* the options, [section -> [name -> description]]
  UIntMod,     \* values of int and of unsigned int
  Tokens,      \* the tokens a file may have where each state reads it
  MaxTokens    \* bound on the length of a file

\* The tokens that are not words.
Assign == "="
AddTo == "+="
OpenBrace == "{"
CloseBrace == "}"
OpenParen == "("
CloseParen == ")"
Comma == ","
Comment == "#"
Punctuation == {Assign, AddTo, OpenBrace, CloseBrace, OpenParen, CloseParen, Comma, Comment, "bad"}

ASSUME WordsAssumption == /\ Words \intersect (Punctuation \union {"EOF"}) = {}
                          /\ Words \subseteq STRING /\ UIntMod \in Nat \ {0}
                          /\ DOMAIN Path = Words /\ \A w \in Words : Path[w] \in Seq(STRING) \ {<<>>}
                          /\ DOMAIN IntOf \subseteq Words /\ \A w \in DOMAIN IntOf : IntOf[w] \in Int
                          /\ 0 .. 9 \subseteq DOMAIN Tokens
                          /\ \A n \in DOMAIN Tokens : Tokens[n] \subseteq Words \union Punctuation

VARIABLES
  file,    \* the tokens read so far
  seen,    \* history: the activation in which each of them was read
  stack,   \* the activations of cfg_parse_internal, innermost last
  values,  \* the values of every option
  reset,   \* the options with CFGF_RESET
  labels,  \* static_labels
  status,  \* "parsing", "parsed", "loaded", or how it failed
  cfg      \* the global configuration, once it is set

vars == <<file, seen, stack, values, reset, labels, status, cfg>>

Keys == UNION {{<<s, n>> : n \in DOMAIN Opts[s]} : s \in DOMAIN Opts}
opt_of(k) == Opts[k[1]][k[2]]
type(k) == opt_of(k).type
is_list(k) == opt_of(k).list

\* What a value of an option may be.
Scalars(k) == IF type(k) = "INT" THEN Int ELSE STRING

\* The options of cfg_reader.cpp: sections in the root only, and where
\* load_cfg() expects an integer or a list, there is one.
ASSUME OptsAssumption ==
  /\ {"root", "db", "sip", "prometheus"} \subseteq DOMAIN Opts
  /\ <<"daemon", "listen">> \in Keys /\ type(<<"daemon", "listen">>) = "STR"
  /\ <<"daemon", "log_level">> \in Keys /\ type(<<"daemon", "log_level">>) = "INT"
  /\ \A k \in Keys :
       /\ type(k) \in {"SEC", "FUNC", "INT", "STR"}
       /\ type(k) = "SEC" => k[1] = "root" /\ k[2] \in DOMAIN Opts \ {"root"}
       /\ opt_of(k).default \in Seq(Scalars(k))
       /\ ~is_list(k) => Len(opt_of(k).default) <= 1

Frame(sec) == [sec |-> sec, state |-> 0, opt |-> <<>>, num_values |-> 0, args |-> <<>>]
top == Last(stack)
level == Len(stack) - 1

-----------------------------------------------------------------------------
(***************************************************************************)
(* Options.                                                                *)
(***************************************************************************)

\* cfg_getopt(): the option of a name, or of a path through sections that
\* begins in this one; the result is a set of at most one key.
cfg_getopt(sec, w) ==
  LET p == Path[w]
      opt(n) == <<IF n = 1 THEN sec ELSE p[n - 1], p[n]>>
      cfg_getsec(n) == opt(n) \in Keys /\ type(opt(n)) = "SEC"
  IN {k \in Keys : k = opt(Len(p)) /\ \A n \in 1 .. Len(p) - 1 : cfg_getsec(n)}

\* cfg_init_defaults(): an option without CFGF_NODEFAULT has its default, which
\* the first value of the file replaces.
cfg_init_defaults ==
  /\ values = [k \in Keys |-> opt_of(k).default]
  /\ reset = {k \in Keys : ~opt_of(k).nodefault /\ type(k) # "SEC"}

\* Mutant: a value of the file is put behind the default.
cfg_free_value_not(k) == values[k]

\* What CFGF_RESET leaves of the values of an option.
cfg_free_value(k) == IF k \in reset THEN <<>> ELSE values[k]

\* errno is 0 before strtol(): the scanner clears it when it fills its buffer,
\* and a number out of range, which sets it, ends the parsing.
convertible(k, w) == type(k) = "INT" => w \in DOMAIN IntOf

converted(k, w) == IF type(k) = "INT" THEN IntOf[w] ELSE w

\* cfg_setopt(), for a value that can be converted.
cfg_setopt(k, w) ==
  LET old == cfg_free_value(k)
      new == IF old = <<>> \/ is_list(k) THEN Append(old, converted(k, w))
             ELSE [old EXCEPT ![1] = converted(k, w)]
  IN /\ values' = [values EXCEPT ![k] = new]
     /\ reset' = reset \ {k}

-----------------------------------------------------------------------------
(***************************************************************************)
(* cfg_parse_internal().                                                   *)
(***************************************************************************)
Init ==
  /\ file = <<>> /\ seen = <<>> /\ stack = <<Frame("root")>>
  /\ cfg_init_defaults
  /\ labels = <<>> /\ status = "parsing" /\ cfg = <<>>

goto(f) == stack' = [stack EXCEPT ![Len(stack)] = f]

\* The innermost activation is in state n and is given a token.
reads(n, tok) ==
  /\ status = "parsing" /\ Len(file) < MaxTokens /\ top.state = n
  /\ file' = Append(file, tok) /\ seen' = Append(seen, top)
  /\ UNCHANGED cfg

sets(k, tok) == tok \in Words /\ convertible(k, tok)

\* label_func() takes a name and a value.
callable(args) == Len(args) = 2

\* The tokens that do not lead to the error label.
legal(n, tok) ==
  CASE n = 0 -> \/ tok = Comment \/ (tok = CloseBrace /\ level > 0)
                \/ (tok \in Words /\ cfg_getopt(top.sec, tok) # {})
    [] n = 1 -> tok = Assign \/ (tok = AddTo /\ is_list(top.opt))
    [] n = 2 -> (tok = CloseBrace /\ is_list(top.opt)) \/ sets(top.opt, tok)
    [] n = 3 -> tok = OpenBrace \/ sets(top.opt, tok)
    [] n = 4 -> tok \in {Comma, CloseBrace}
    [] n = 5 -> tok = OpenBrace
    [] n = 7 -> tok = OpenParen
    [] n = 8 -> tok \in Words \/ (tok = CloseParen /\ callable(top.args))
    [] n = 9 -> tok = Comma \/ (tok = CloseParen /\ callable(top.args))

\* goto error, in this activation and so in all that called it; the labels
\* that were set stay.  What a value that cannot be converted left of its
\* option is not read again: load_cfg() gives up.
unexpected(n, tok) ==
  /\ reads(n, tok) /\ ~legal(n, tok)
  /\ status' = "parse_error"
  /\ UNCHANGED <<stack, values, reset, labels>>

\* State 0, an option name, or the end of a section.
option_name(tok) ==
  /\ reads(0, tok) /\ legal(0, tok)
  /\ \/ tok = Comment /\ UNCHANGED stack
     \/ tok = CloseBrace /\ stack' = Front(stack)
     \/ tok \in Words /\ \E k \in cfg_getopt(top.sec, tok) :
          goto([top EXCEPT !.opt = k,
                  !.state = CASE type(k) = "SEC" -> 5 [] type(k) = "FUNC" -> 7 [] OTHER -> 1])
  /\ UNCHANGED <<values, reset, labels, status>>

reset_after(tok) == IF tok = Assign THEN reset \union {top.opt} ELSE reset \ {top.opt}

\* State 1, an equal sign or plus-equal sign.
equal_sign(tok) ==
  /\ reads(1, tok) /\ legal(1, tok)
  /\ reset' = reset_after(tok)
  /\ goto(IF is_list(top.opt) THEN [top EXCEPT !.state = 3, !.num_values = 0]
          ELSE [top EXCEPT !.state = 2])
  /\ UNCHANGED <<values, labels, status>>

\* State 2, a value, or the end of a list.
option_value(tok) ==
  /\ reads(2, tok) /\ legal(2, tok)
  /\ \/ /\ tok = CloseBrace
        /\ values' = [values EXCEPT ![top.opt] =
                        IF top.num_values = 0 THEN cfg_free_value(top.opt) ELSE @]
        /\ goto([top EXCEPT !.state = 0])
        /\ UNCHANGED reset
     \/ /\ tok \in Words
        /\ cfg_setopt(top.opt, tok)
        /\ goto(IF is_list(top.opt) THEN [top EXCEPT !.state = 4, !.num_values = @ + 1]
                ELSE [top EXCEPT !.state = 0])
  /\ UNCHANGED <<labels, status>>

\* State 3, the opening brace of a list, or its only value.
list_begin(tok) ==
  /\ reads(3, tok) /\ legal(3, tok)
  /\ \/ tok = OpenBrace /\ goto([top EXCEPT !.state = 2]) /\ UNCHANGED <<values, reset>>
     \/ /\ tok \in Words /\ cfg_setopt(top.opt, tok)
        /\ goto([top EXCEPT !.state = 0, !.num_values = @ + 1])
  /\ UNCHANGED <<labels, status>>

\* State 4, a separator, or the closing brace of a list.
list_separator(tok) ==
  /\ reads(4, tok) /\ legal(4, tok)
  /\ goto([top EXCEPT !.state = IF tok = Comma THEN 2 ELSE 0])
  /\ UNCHANGED <<values, reset, labels, status>>

\* State 5, the opening brace of a section: the section was made with its
\* defaults before the file was opened, and a new activation reads it.
section_begin(tok) ==
  /\ reads(5, tok) /\ legal(5, tok)
  /\ stack' = Append([stack EXCEPT ![Len(stack)].state = 0], Frame(top.opt[2]))
  /\ UNCHANGED <<values, reset, labels, status>>

\* State 7, the opening parenthesis of a call.
call_begin(tok) ==
  /\ reads(7, tok) /\ legal(7, tok)
  /\ goto([top EXCEPT !.state = 8])
  /\ UNCHANGED <<values, reset, labels, status>>

\* Mutant: a later label of the same name replaces the first.
label_func_replaces(args) == Append(SelectSeq(labels, LAMBDA l : l[1] # args[1]), args)

\* label_func(): emplace() keeps the first label of a name.
label_func(args) ==
  IF \E k \in DOMAIN labels : labels[k][1] = args[1] THEN labels ELSE Append(labels, args)

\* States 8 and 9, an argument, a comma, or the end of the call.
call_argument(tok) ==
  /\ \/ reads(8, tok) /\ legal(8, tok)
     \/ reads(9, tok) /\ legal(9, tok)
  /\ \/ tok = CloseParen /\ labels' = label_func(top.args) /\ goto([top EXCEPT !.state = 0, !.args = <<>>])
     \/ tok = Comma /\ goto([top EXCEPT !.state = 8]) /\ UNCHANGED labels
     \/ tok \in Words /\ goto([top EXCEPT !.state = 9, !.args = Append(@, tok)]) /\ UNCHANGED labels
  /\ UNCHANGED <<values, reset, status>>

\* Mutant: a file may end within a statement.
may_end_within(n) == TRUE

\* The end of the file must not be in a statement; the sections that are open
\* are not asked for.
may_end(n) == n = 0

end_of_file ==
  /\ reads(top.state, "EOF")
  /\ status' = IF may_end(top.state) THEN "parsed" ELSE "parse_error"
  /\ UNCHANGED <<stack, values, reset, labels>>

\* cfg_parse() cannot open the file.
file_error ==
  /\ status = "parsing" /\ file = <<>>
  /\ status' = "file_error"
  /\ UNCHANGED <<file, seen, stack, values, reset, labels, cfg>>

-----------------------------------------------------------------------------
(***************************************************************************)
(* load_cfg().                                                             *)
(***************************************************************************)
cfg_getint(k) == IF values[k] = <<>> THEN 0 ELSE values[k][1]
cfg_getstr(k) == values[k][1]

\* A string that has no value is a null pointer.
is_null(k) == type(k) = "STR" /\ ~is_list(k) /\ values[k] = <<>>

L_ERR == 0
L_DBG == 3

\* A long that becomes an int.
to_int(n) == LET u == n % UIntMod IN IF 2 * u < UIntMod THEN u ELSE u - UIntMod

\* An int holds every level.
ASSUME LevelAssumption == 2 * L_DBG < UIntMod

\* Mutant: the level is taken as it is.
log_level_as_is == to_int(cfg_getint(<<"daemon", "log_level">>))

log_level ==
  LET l == to_int(cfg_getint(<<"daemon", "log_level">>))
  IN IF l < L_ERR THEN L_ERR ELSE IF l > L_DBG THEN L_DBG ELSE l

\* Mutant: the last address is left out.
bind_urls_but_last ==
  IF values[<<"daemon", "listen">>] = <<>> THEN <<>> ELSE Front(values[<<"daemon", "listen">>])

bind_urls == values[<<"daemon", "listen">>]

of_section(s) ==
  [n \in DOMAIN Opts[s] |->
     CASE type(<<s, n>>) = "INT" -> cfg_getint(<<s, n>>) % UIntMod
       [] type(<<s, n>>) = "STR" -> cfg_getstr(<<s, n>>)
       [] OTHER -> <<>>]

\* The options are copied; a null pointer ends the process there.
load_cfg ==
  /\ status = "parsed"
  /\ IF \E k \in Keys : is_null(k) THEN status' = "crashed" /\ UNCHANGED cfg
     ELSE /\ status' = "loaded"
          /\ cfg' = [bind_urls |-> bind_urls, log_level |-> log_level,
                     db |-> of_section("db"), sip |-> of_section("sip"),
                     prometheus |-> of_section("prometheus")]
  /\ UNCHANGED <<file, seen, stack, values, reset, labels>>

Next ==
  \/ file_error
  \/ \E tok \in Tokens[top.state] :
       \/ option_name(tok) \/ equal_sign(tok) \/ option_value(tok)
       \/ list_begin(tok) \/ list_separator(tok) \/ section_begin(tok)
       \/ call_begin(tok) \/ call_argument(tok)
       \/ unexpected(top.state, tok)
  \/ end_of_file
  \/ load_cfg

Spec == Init /\ [][Next]_vars

-----------------------------------------------------------------------------
(***************************************************************************)
(* Properties.                                                             *)
(***************************************************************************)
Statuses == {"parsing", "parsed", "loaded", "crashed", "parse_error", "file_error"}

\* The activations are nested as the sections are, and an option has one value
\* unless it is a list.
TypeOK ==
  /\ status \in Statuses
  /\ Len(seen) = Len(file)
  /\ Len(stack) \in 1 .. 2 /\ stack[1].sec = "root"
  /\ \A i \in DOMAIN stack : stack[i].opt # <<>> => stack[i].opt \in Keys
  /\ reset \subseteq Keys
  /\ \A k \in Keys : values[k] \in Seq(Scalars(k)) /\ (~is_list(k) => Len(values[k]) <= 1)

\* No statement is begun and no error was met.
Between == \/ status = "parsing" /\ top.state = 0
           \/ status \in {"parsed", "loaded", "crashed"}

\* Where the file assigns to an option, where it has values for it, and those
\* behind the last assignment.
Assigned(k) == {p \in DOMAIN seen : seen[p].state = 1 /\ seen[p].opt = k /\ file[p] = Assign}
ValuesAt(k) == {p \in DOMAIN seen : seen[p].state \in {2, 3} /\ seen[p].opt = k /\ file[p] \in Words}
Given(k) == {p \in ValuesAt(k) : \A a \in Assigned(k) : a < p}

\* The values before those given.
Base(k) == IF Assigned(k) = {} THEN opt_of(k).default ELSE <<>>

\* The number of a position in a set of them.
Rank(S, p) == Cardinality({q \in S : q <= p})

\* An option has its default, if it was never assigned, and the values given,
\* in their order.
HasItsValues(k) ==
  /\ Len(values[k]) = Len(Base(k)) + Cardinality(Given(k))
  /\ \A j \in DOMAIN Base(k) : values[k][j] = Base(k)[j]
  /\ \A p \in Given(k) : values[k][Len(Base(k)) + Rank(Given(k), p)] = converted(k, file[p])

\* cfg_setopt() and CFGF_RESET: after any number of assignments, appends,
\* empty lists and sections given twice, an option has what its last
\* assignment gave it and the appends behind it, or its default.
LastAssignmentWins == Between => \A k \in Keys : HasItsValues(k)

\* A string that has no default and that the file does not assign.
Missing(k) == type(k) = "STR" /\ ~is_list(k) /\ opt_of(k).default = <<>> /\ Assigned(k) = {}

\* load_cfg(): the settings in use are those of the options, the log level
\* within its bounds, and the process gets past the copy if and only if every
\* string that has no default was given.
SettingsAreOfTheFile ==
  /\ status = "loaded" =>
       /\ \A k \in Keys : ~Missing(k)
       /\ cfg.bind_urls = values[<<"daemon", "listen">>]
       /\ cfg.log_level \in L_ERR .. L_DBG
       /\ LET l == values[<<"daemon", "log_level">>]
          IN l # <<>> /\ l[1] \in L_ERR .. L_DBG => cfg.log_level = l[1]
       /\ \A n \in DOMAIN Opts["db"] :
            type(<<"db", n>>) = "STR" /\ ~is_list(<<"db", n>>) => values[<<"db", n>>] = <<cfg.db[n]>>
  /\ status = "crashed" => \E k \in Keys : Missing(k)

\* The calls of label() that were made.
CallsAt == {p \in DOMAIN seen : seen[p].state \in {8, 9} /\ file[p] = CloseParen}

\* label_func() and static_labels.emplace(): every metric carries the first
\* label of each name, from whichever of several sections, and no other; its
\* name and value are the two words of the call.
FirstLabelsKept ==
  Between =>
    /\ \A p \in CallsAt :
         (\A q \in CallsAt : q < p => seen[q].args[1] # seen[p].args[1])
           => \E l \in DOMAIN labels : labels[l] = seen[p].args
    /\ \A l \in DOMAIN labels :
         /\ \E p \in CallsAt : labels[l] = seen[p].args
         /\ \A m \in DOMAIN labels : labels[m][1] = labels[l][1] => m = l
    /\ \A p \in CallsAt : \E b \in {p - 1, p - 2} : seen[p].args = <<file[b - 2], file[b]>>

\* The options, the global configuration and the labels are those the file
\* gives them.
ConfigOfTheFile == TypeOK /\ LastAssignmentWins /\ SettingsAreOfTheFile /\ FirstLabelsKept
=============================================================================
