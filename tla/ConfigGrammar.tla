---------------------------- MODULE ConfigGrammar ---------------------------
(***************************************************************************)
(* The grammar and the meaning of a configuration file, read as a whole,   *)
(* for comparison with the automaton of ConfigFile.                        *)
(***************************************************************************)
EXTENDS ConfigFile

At(f, i) == IF i <= Len(f) THEN f[i] ELSE "EOF"

\* Words from i on with commas between them, perhaps one behind, before the
\* closing token c.
Enclosed(f, i, c) ==
  LET ends == {e \in i .. Len(f) : f[e] = c}
      e == CHOOSE x \in ends : \A y \in ends : x <= y
      items == SubSeq(f, i, e - 1)
  IN IF ends = {} \/ \E j \in DOMAIN items : (j % 2 = 0) # (items[j] = Comma) THEN [ok |-> FALSE]
     ELSE [ok |-> TRUE, words |-> [j \in 1 .. (Len(items) + 1) \div 2 |-> items[2 * j - 1]],
           next |-> e + 1]

Wrong == [ok |-> FALSE]
Effect(k, op, words) == [key |-> k, op |-> op, words |-> words]

RECURSIVE Body(_, _, _, _)

\* The statements of section sec from token i on, with the effects before.
Body(f, i, sec, acc) ==
  LET t == At(f, i)
      then == At(f, i + 1)
      found == IF t \in Words THEN cfg_getopt(sec, t) ELSE {}
      k == CHOOSE x \in found : TRUE
      value(v) == v \in Words /\ convertible(k, v)
  IN CASE t = "EOF" -> [ok |-> TRUE, next |-> i, acc |-> acc]
       [] t = Comment -> Body(f, i + 1, sec, acc)
       [] t = CloseBrace -> IF sec = "root" THEN Wrong ELSE [ok |-> TRUE, next |-> i + 1, acc |-> acc]
       [] found # {} /\ type(k) = "SEC" /\ then = OpenBrace ->
            LET inner == Body(f, i + 2, k[2], acc)
            IN IF inner.ok THEN Body(f, inner.next, sec, inner.acc) ELSE Wrong
       [] found # {} /\ type(k) = "FUNC" /\ then = OpenParen ->
            LET args == Enclosed(f, i + 2, CloseParen)
            IN IF args.ok /\ Len(args.words) = 2 /\ \A w \in Range(args.words) : w \in Words
               THEN Body(f, args.next, sec, Append(acc, Effect(k, "call", args.words))) ELSE Wrong
       [] found # {} /\ type(k) \in {"INT", "STR"} /\ (then = Assign \/ (then = AddTo /\ is_list(k))) ->
            LET list == Enclosed(f, i + 3, CloseBrace)
            IN CASE value(At(f, i + 2)) ->
                      Body(f, i + 3, sec, Append(acc, Effect(k, then, <<f[i + 2]>>)))
                 [] is_list(k) /\ At(f, i + 2) = OpenBrace /\ list.ok ->
                      IF \A w \in Range(list.words) : value(w)
                      THEN Body(f, list.next, sec, Append(acc, Effect(k, then, list.words)))
                      ELSE Wrong
                 [] OTHER -> Wrong
       [] OTHER -> Wrong

Reading == Body(file, 1, "root", <<>>)

Applied(k) ==
  FoldLeft(LAMBDA v, e : LET new == [j \in DOMAIN e.words |-> converted(k, e.words[j])]
                         IN IF e.op = Assign THEN new ELSE v \o new,
           opt_of(k).default, SelectSeq(Reading.acc, LAMBDA e : e.key = k))

Calls == SelectSeq(Reading.acc, LAMBDA e : e.op = "call")

\* cfg_parse_internal(): the automaton accepts a file when it is a sequence of
\* statements, a comma behind the last item of a list or call and a section
\* that is not closed allowed, and it goes to its error label as soon as the
\* tokens are not those of any such file; what it accepts has the effects of
\* the statements, one after the other.
ParsesTheFile ==
  /\ status = "parse_error" => ~Reading.ok
  /\ Between =>
       /\ Reading.ok
       /\ \A k \in Keys : type(k) \in {"INT", "STR"} => values[k] = Applied(k)
       /\ \A i \in DOMAIN Calls :
            (\A j \in 1 .. i - 1 : Calls[j].words[1] # Calls[i].words[1])
              => Contains(labels, Calls[i].words)
=============================================================================
