-------------------------- MODULE ConfigFileProofs --------------------------
(***************************************************************************)
(* The configuration file, for every set of words and options and files of *)
(* every length.                                                           *)
(***************************************************************************)
EXTENDS ConfigFile, FiniteSetTheorems, SequenceTheorems, TLAPS

States == {0, 1, 2, 3, 4, 5, 7, 8, 9}
Frames == [sec : DOMAIN Opts, state : States, opt : Keys \union {<<>>}, num_values : Nat, args : Seq(Words)]
All == Words \union Punctuation \union {"EOF"}

\* What an activation is about is what its state is for.
FrameInv(f) ==
  /\ f \in Frames
  /\ f.state \in {1, 2, 3, 4} => f.opt \in Keys /\ type(f.opt) \in {"INT", "STR"}
  /\ f.state \in {3, 4} => is_list(f.opt)
  /\ f.state = 3 => f.num_values = 0
  /\ f.state = 4 => f.num_values > 0
  /\ f.state = 5 => f.opt \in Keys /\ type(f.opt) = "SEC" /\ f.sec = "root"
  /\ f.state \in {7, 8, 9} => f.opt \in Keys /\ type(f.opt) = "FUNC"
  /\ f.state \notin {8, 9} => f.args = <<>>

\* The caller of an activation is between two statements of the root.
StackInv ==
  /\ stack \in Seq(Frames) /\ Len(stack) \in 1 .. 2
  /\ \A s \in 1 .. Len(stack) : FrameInv(stack[s])
  /\ stack[1].sec = "root"
  /\ Len(stack) = 2 => stack[1].state = 0 /\ stack[2].sec # "root"

HistoryInv == file \in Seq(All) /\ seen \in Seq(Frames) /\ Len(seen) = Len(file)

ValuesInv ==
  /\ DOMAIN values = Keys /\ reset \subseteq Keys
  /\ \A k \in Keys : values[k] \in Seq(Scalars(k)) /\ (~is_list(k) => Len(values[k]) <= 1)

\* A first value is still to come.
Pending(k) == top.opt = k /\ top.state \in {2, 3} /\ (is_list(k) => top.num_values = 0)

\* An assignment waits for its first value, or nothing does.
KeyInv(k) ==
  /\ k \in reset /\ Assigned(k) # {} => Given(k) = {} /\ (~Pending(k) => values[k] = <<>>)
  /\ ~(k \in reset /\ Assigned(k) # {}) => HasItsValues(k)
  /\ ~is_list(k) /\ Assigned(k) # {} /\ Given(k) = {} => Pending(k)
  /\ ~is_list(k) /\ Assigned(k) = {} => Given(k) = {}

\* The option of the innermost activation and its CFGF_RESET.
TopInv ==
  /\ top.state \in {2, 3, 4} /\ top.opt \in reset => Assigned(top.opt) # {}
  /\ top.state \in {2, 4} /\ is_list(top.opt) /\ top.num_values > 0 => top.opt \notin reset
  /\ top.state = 2 /\ ~is_list(top.opt) => top.opt \in reset

\* Where the last argument of a call is in the file.
LastArgument == IF top.state = 8 THEN Len(file) - 1 ELSE Len(file)

ArgsInv ==
  top.state \in {8, 9} =>
    \A j \in 1 .. Len(top.args) :
      /\ LastArgument - 2 * (Len(top.args) - j) \in 1 .. Len(file)
      /\ top.args[j] = file[LastArgument - 2 * (Len(top.args) - j)]

\* The labels and the calls made.
LabelsInv ==
  /\ labels \in Seq(Seq(Words))
  /\ \A p \in CallsAt :
       (\A q \in CallsAt : q < p => seen[q].args[1] # seen[p].args[1])
         => \E l \in DOMAIN labels : labels[l] = seen[p].args
  /\ \A l \in DOMAIN labels :
       /\ \E p \in CallsAt : labels[l] = seen[p].args
       /\ \A m \in DOMAIN labels : labels[m][1] = labels[l][1] => m = l
  /\ \A p \in CallsAt : \E b \in {p - 1, p - 2} : b - 2 \in Nat \ {0} /\ seen[p].args = <<file[b - 2], file[b]>>

StatusInv ==
  /\ status \in Statuses
  /\ status \in {"parsed", "loaded", "crashed"} => top.state = 0

\* What holds while no error was met.
Sound == TopInv /\ ArgsInv /\ LabelsInv /\ \A k \in Keys : KeyInv(k)

IInv ==
  /\ StatusInv /\ StackInv /\ HistoryInv /\ ValuesInv
  /\ status # "parse_error" => Sound
  /\ SettingsAreOfTheFile

-----------------------------------------------------------------------------
(***************************************************************************)
(* Tokens, options and activations.                                        *)
(***************************************************************************)

\* The tokens are told apart.
LEMMA TokensDiffer ==
  /\ Assign # AddTo /\ OpenBrace # CloseBrace /\ Comma # CloseBrace /\ Comma # CloseParen
  /\ CloseBrace # Comment
  BY Zenon DEF Assign, AddTo, OpenBrace, CloseBrace, Comma, CloseParen, Comment

\* A word is none of the other tokens.
LEMMA WordsDiffer ==
  ASSUME NEW w \in Words
  PROVE  /\ w \in All /\ w # "EOF"
         /\ w # Assign /\ w # AddTo /\ w # OpenBrace /\ w # CloseBrace /\ w # OpenParen /\ w # CloseParen
         /\ w # Comma /\ w # Comment
  BY WordsAssumption, Zenon DEF Punctuation, All

\* The description of an option.
LEMMA OptionFacts ==
  ASSUME NEW k \in Keys
  PROVE  /\ type(k) \in {"SEC", "FUNC", "INT", "STR"}
         /\ type(k) = "SEC" => k[1] = "root" /\ k[2] \in DOMAIN Opts /\ k[2] # "root"
         /\ opt_of(k).default \in Seq(Scalars(k))
         /\ ~is_list(k) => Len(opt_of(k).default) <= 1
  BY OptsAssumption, Zenon

\* cfg_getopt() finds an option; a section is found in the root only.
LEMMA GetoptKeys ==
  ASSUME NEW sec \in DOMAIN Opts, NEW w \in Words, NEW k \in cfg_getopt(sec, w)
  PROVE  k \in Keys /\ (type(k) = "SEC" => sec = "root")
<1>1. PICK p, m : p = Path[w] /\ m = Len(p)
  OBVIOUS
<1>2. m \in Nat /\ m >= 1
  <2>1. p \in Seq(STRING) /\ p # <<>>
    BY <1>1, WordsAssumption
  <2> QED
    BY <1>1, <2>1
<1>3. /\ k \in Keys /\ k = <<IF m = 1 THEN sec ELSE p[m - 1], p[m]>>
      /\ \A n \in 1 .. m - 1 : LET o == <<IF n = 1 THEN sec ELSE p[n - 1], p[n]>>
                               IN o \in Keys /\ type(o) = "SEC"
  BY <1>1 DEF cfg_getopt
<1>4. CASE m = 1
  BY <1>3, <1>4, OptionFacts
<1>5. CASE m # 1
  <2>1. PICK o : o \in Keys /\ type(o) = "SEC" /\ o[2] = p[m - 1]
    <3>1. PICK n : n = m - 1 /\ n \in 1 .. m - 1
      BY <1>2, <1>5
    <3>2. PICK o : o = <<IF n = 1 THEN sec ELSE p[n - 1], p[n]>>
      OBVIOUS
    <3>3. o \in Keys /\ type(o) = "SEC"
      BY <1>3, <3>1, <3>2
    <3>4. o[2] = p[m - 1]
      BY <3>1, <3>2
    <3> QED
      BY <3>3, <3>4
  <2>2. k[1] = p[m - 1] /\ o[2] # "root"
    BY <1>3, <1>5, <2>1, OptionFacts
  <2> QED
    BY <1>3, <2>1, <2>2, OptionFacts
<1> QED
  BY <1>4, <1>5

\* The innermost activation.
LEMMA TopFacts ==
  ASSUME StackInv
  PROVE  /\ top = stack[Len(stack)] /\ FrameInv(top) /\ top \in Frames
         /\ Len(stack) \in Nat /\ Len(stack) \in 1 .. 2
         /\ Len(stack) = 1 <=> top.sec = "root"
<1>1. top = stack[Len(stack)]
  BY DEF top, Last
<1>2. Len(stack) \in {1, 2}
  BY DEF StackInv
<1>3. FrameInv(top)
  BY <1>1, <1>2 DEF StackInv
<1> QED
  BY <1>1, <1>2, <1>3 DEF StackInv, FrameInv

\* The innermost activation goes on in another state.
LEMMA GotoFrame ==
  ASSUME StackInv, NEW f, FrameInv(f), f.sec = top.sec, goto(f)
  PROVE  StackInv' /\ top' = f
<1>1. /\ top = stack[Len(stack)] /\ Len(stack) \in {1, 2}
      /\ Len(stack) = 1 <=> top.sec = "root"
  BY TopFacts
<1>2. f \in Frames
  BY DEF FrameInv
<1>3. /\ stack' \in Seq(Frames) /\ Len(stack') = Len(stack)
      /\ \A s \in 1 .. Len(stack) : stack'[s] = IF s = Len(stack) THEN f ELSE stack[s]
  BY <1>1, <1>2 DEF StackInv, goto
<1>4. top' = f
  BY <1>1, <1>3 DEF top, Last
<1>5. \A s \in 1 .. Len(stack) : FrameInv(stack'[s])
  BY <1>3 DEF StackInv
<1>6. \A s \in 1 .. Len(stack') : FrameInv(stack[s])'
  BY <1>3, <1>5 DEF FrameInv
<1> QED
  BY <1>1, <1>3, <1>4, <1>6 DEF StackInv

-----------------------------------------------------------------------------
(***************************************************************************)
(* The history.                                                            *)
(***************************************************************************)

\* A token more.
Read(tok) == file' = Append(file, tok) /\ seen' = Append(seen, top)

\* The token that is read is the last of the file.
LEMMA HistoryGrows ==
  ASSUME StackInv, HistoryInv, NEW tok \in All, Read(tok), NEW n, n = Len(file) + 1
  PROVE  /\ HistoryInv' /\ n \in Nat /\ n > 0
         /\ DOMAIN seen = 1 .. n - 1 /\ DOMAIN seen' = 1 .. n
         /\ \A p \in DOMAIN seen : p \in Nat /\ p < n /\ seen'[p] = seen[p] /\ file'[p] = file[p]
         /\ seen'[n] = top /\ file'[n] = tok
         /\ Len(file') = n
<1>1. top \in Frames
  BY TopFacts
<1>2. /\ file \in Seq(All) /\ seen \in Seq(Frames) /\ Len(seen) = Len(file)
      /\ file' = Append(file, tok) /\ seen' = Append(seen, top)
  BY DEF HistoryInv, Read
<1>3. n \in Nat /\ n > 0 /\ DOMAIN seen = 1 .. n - 1 /\ Len(seen) = n - 1 /\ Len(file) = n - 1
  BY <1>2
<1>4. file' \in Seq(All) /\ seen' \in Seq(Frames) /\ Len(file') = n /\ Len(seen') = n
  BY <1>1, <1>2, <1>3
<1>5. seen'[n] = top /\ file'[n] = tok
  BY <1>1, <1>2, <1>3
<1>6. \A p \in 1 .. n - 1 : p \in Nat /\ p < n /\ seen'[p] = seen[p] /\ file'[p] = file[p]
  BY <1>1, <1>2, <1>3
<1> QED
  BY <1>3, <1>4, <1>5, <1>6 DEF HistoryInv

\* A token that is no assignment and no value leaves what was given.
LEMMA OtherToken ==
  ASSUME StackInv, HistoryInv, NEW tok \in All, Read(tok), NEW k,
         ~(top.state = 1 /\ top.opt = k /\ tok = Assign),
         ~(top.state \in {2, 3} /\ top.opt = k /\ tok \in Words)
  PROVE  /\ Assigned(k)' = Assigned(k) /\ Given(k)' = Given(k)
         /\ \A p \in Given(k) : file'[p] = file[p]
<1>1. PICK n : n = Len(file) + 1
  OBVIOUS
<1>2. /\ n \in Nat /\ n > 0 /\ DOMAIN seen = 1 .. n - 1 /\ DOMAIN seen' = 1 .. n
      /\ \A p \in DOMAIN seen : seen'[p] = seen[p] /\ file'[p] = file[p]
      /\ seen'[n] = top /\ file'[n] = tok
  BY <1>1, HistoryGrows
<1>3. DOMAIN seen' = DOMAIN seen \union {n}
  BY <1>2
<1>4. Assigned(k)' = Assigned(k)
  BY <1>2, <1>3 DEF Assigned
<1>5. ValuesAt(k)' = ValuesAt(k)
  BY <1>2, <1>3 DEF ValuesAt
<1>6. \A p \in Given(k) : file'[p] = file[p]
  BY <1>2 DEF Given, ValuesAt
<1> QED
  BY <1>4, <1>5, <1>6 DEF Given

\* Nothing was given behind a new assignment.
LEMMA AssignToken ==
  ASSUME StackInv, HistoryInv, Assign \in All, Read(Assign), NEW k, top.state = 1, top.opt = k
  PROVE  Assigned(k)' # {} /\ Given(k)' = {}
<1>1. PICK n, tok : n = Len(file) + 1 /\ tok = Assign
  OBVIOUS
<1>2. /\ n \in Nat /\ n > 0 /\ DOMAIN seen = 1 .. n - 1 /\ DOMAIN seen' = 1 .. n
      /\ seen'[n] = top /\ file'[n] = tok
  BY <1>1, HistoryGrows
<1>3. n \in Assigned(k)'
  BY <1>1, <1>2 DEF Assigned
<1>4. \A p \in ValuesAt(k)' : p \in 1 .. n
  BY <1>2 DEF ValuesAt
<1>5. \A p \in ValuesAt(k)' : ~(n < p)
  BY <1>2, <1>4
<1>6. Given(k)' = {}
  BY <1>3, <1>5 DEF Given
<1> QED
  BY <1>3, <1>6

\* A value is given behind all others.
LEMMA ValueToken ==
  ASSUME StackInv, HistoryInv, NEW tok \in Words, Read(tok), NEW k, top.state \in {2, 3}, top.opt = k,
         NEW n, n = Len(file) + 1
  PROVE  /\ Assigned(k)' = Assigned(k) /\ Given(k)' = Given(k) \union {n}
         /\ n \in Nat /\ Given(k) \subseteq 1 .. n - 1
         /\ \A p \in Given(k) : file'[p] = file[p]
         /\ file'[n] = tok
<1>1. tok \in All /\ tok # Assign
  BY WordsDiffer
<1>2. /\ n \in Nat /\ n > 0 /\ DOMAIN seen = 1 .. n - 1 /\ DOMAIN seen' = 1 .. n
      /\ \A p \in DOMAIN seen : seen'[p] = seen[p] /\ file'[p] = file[p]
      /\ seen'[n] = top /\ file'[n] = tok
  BY <1>1, HistoryGrows
<1>3. DOMAIN seen' = DOMAIN seen \union {n} /\ \A a \in DOMAIN seen : a < n
  BY <1>2
<1>4. Assigned(k)' = Assigned(k)
  BY <1>1, <1>2, <1>3 DEF Assigned
<1>5. ValuesAt(k)' = ValuesAt(k) \union {n}
  BY <1>1, <1>2, <1>3 DEF ValuesAt
<1>6. \A a \in Assigned(k) : a < n
  BY <1>3 DEF Assigned
<1>7. \A p \in Given(k) : p \in DOMAIN seen
  BY DEF Given, ValuesAt
<1>8. Given(k)' = Given(k) \union {n}
  BY <1>4, <1>5, <1>6 DEF Given
<1> QED
  BY <1>2, <1>4, <1>7, <1>8

-----------------------------------------------------------------------------
(***************************************************************************)
(* The values of an option.                                                *)
(***************************************************************************)

\* A set of positions with a later one.
LEMMA RankGrows ==
  ASSUME NEW n \in Nat, NEW S, S \subseteq 1 .. n - 1
  PROVE  /\ Cardinality(S) \in Nat /\ Cardinality(S \union {n}) = Cardinality(S) + 1
         /\ \A p \in S : Rank(S \union {n}, p) = Rank(S, p) /\ Rank(S, p) \in 1 .. Cardinality(S)
         /\ Rank(S \union {n}, n) = Cardinality(S) + 1
<1>1. IsFiniteSet(1 .. n - 1)
  BY FS_Interval
<1>2. S \in SUBSET (1 .. n - 1)
  OBVIOUS
<1>3. IsFiniteSet(S)
  BY <1>1, <1>2, FS_Subset, Zenon
<1>4. Cardinality(S) \in Nat
  BY <1>3, FS_CardinalityType
<1>5. n \notin S /\ \A p \in S : p \in Nat /\ p < n
  OBVIOUS
<1>6. Cardinality(S \union {n}) = Cardinality(S) + 1
  BY <1>3, <1>5, FS_AddElement
<1>7. ASSUME NEW p \in S
      PROVE  Rank(S \union {n}, p) = Rank(S, p) /\ Rank(S, p) \in 1 .. Cardinality(S)
  <2>1. PICK T : T = {q \in S : q <= p}
    OBVIOUS
  <2>2. {q \in S \union {n} : q <= p} = T
    BY <1>5, <2>1
  <2>3. T \in SUBSET S /\ p \in T
    BY <1>5, <2>1
  <2>4. IsFiniteSet(T) /\ Cardinality(T) <= Cardinality(S)
    BY <1>3, <2>3, FS_Subset, Zenon
  <2>5. Cardinality(T) \in Nat /\ Cardinality(T) # 0
    BY <2>3, <2>4, FS_CardinalityType, FS_EmptySet
  <2>6. Rank(S \union {n}, p) = Cardinality(T) /\ Rank(S, p) = Cardinality(T)
    BY <2>1, <2>2 DEF Rank
  <2> QED
    BY <1>4, <2>4, <2>5, <2>6
<1>8. Rank(S \union {n}, n) = Cardinality(S) + 1
  <2>1. {q \in S \union {n} : q <= n} = S \union {n}
    <3>1. \A q \in S \union {n} : q <= n
      BY <1>5
    <3> QED
      BY <3>1
  <2> QED
    BY <1>6, <2>1 DEF Rank
<1> QED
  BY <1>4, <1>6, <1>7, <1>8

\* An option that was assigned nothing has nothing.
LEMMA HasNothing ==
  ASSUME NEW k, Assigned(k) # {}, Given(k) = {}, values[k] = <<>>
  PROVE  HasItsValues(k)
<1>1. Base(k) = <<>> /\ Cardinality(Given(k)) = 0
  BY FS_EmptySet DEF Base
<1> QED
  BY <1>1 DEF HasItsValues

\* What was given and the values stay.
LEMMA HasKept ==
  ASSUME NEW k, HasItsValues(k), values'[k] = values[k], Assigned(k)' = Assigned(k), Given(k)' = Given(k),
         \A p \in Given(k) : file'[p] = file[p]
  PROVE  HasItsValues(k)'
<1>1. Base(k)' = Base(k)
  BY DEF Base
<1>2. \A p \in Given(k) : converted(k, file'[p]) = converted(k, file[p])
  BY Zenon
<1> QED
  BY <1>1, <1>2 DEF HasItsValues, converted, Rank

\* A token that is not about an option.
LEMMA KeyKept ==
  ASSUME StackInv, HistoryInv, NEW tok \in All, Read(tok), NEW k, KeyInv(k),
         ~(top.state = 1 /\ top.opt = k /\ tok = Assign),
         ~(top.state \in {2, 3} /\ top.opt = k /\ tok \in Words),
         Pending(k) => Pending(k)',
         values'[k] = values[k], k \in reset' <=> k \in reset
  PROVE  KeyInv(k)'
<1>1. /\ Assigned(k)' = Assigned(k) /\ Given(k)' = Given(k)
      /\ \A p \in Given(k) : file'[p] = file[p]
  BY OtherToken
<1>2. HasItsValues(k) => HasItsValues(k)'
  BY <1>1, HasKept
<1> QED
  BY <1>1, <1>2 DEF KeyInv

\* An assignment.
LEMMA KeyAssigned ==
  ASSUME StackInv, HistoryInv, Assign \in All, Read(Assign), NEW k, top.state = 1, top.opt = k,
         Pending(k)', k \in reset'
  PROVE  KeyInv(k)'
<1>1. Assigned(k)' # {} /\ Given(k)' = {}
  BY AssignToken
<1> QED
  BY <1>1 DEF KeyInv

\* An assignment that adds.
LEMMA KeyAdded ==
  ASSUME StackInv, HistoryInv, AddTo \in All, Read(AddTo), NEW k, KeyInv(k), top.state = 1, top.opt = k,
         values'[k] = values[k], k \notin reset'
  PROVE  KeyInv(k)'
<1>1. AddTo # Assign
  BY TokensDiffer
<1>2. PICK tok : tok = AddTo
  OBVIOUS
<1>3. /\ Assigned(k)' = Assigned(k) /\ Given(k)' = Given(k)
      /\ \A p \in Given(k) : file'[p] = file[p]
  BY <1>1, <1>2, OtherToken
<1>4. ~Pending(k)
  BY DEF Pending
<1>5. HasItsValues(k)
  BY <1>4, HasNothing DEF KeyInv
<1>6. HasItsValues(k)'
  BY <1>3, <1>5, HasKept
<1> QED
  BY <1>3, <1>4, <1>6 DEF KeyInv

\* cfg_setopt() on the values it finds.
LEMMA SetoptFacts ==
  ASSUME ValuesInv, NEW k \in Keys, NEW w, sets(k, w), cfg_setopt(k, w)
  PROVE  /\ ValuesInv' /\ reset' = reset \ {k}
         /\ \A j \in Keys : j # k => values'[j] = values[j]
         /\ converted(k, w) \in Scalars(k) /\ cfg_free_value(k) \in Seq(Scalars(k))
         /\ cfg_free_value(k) = <<>> \/ is_list(k) => values'[k] = Append(cfg_free_value(k), converted(k, w))
<1>1. PICK v, old : v = converted(k, w) /\ old = cfg_free_value(k)
  OBVIOUS
<1>2. v \in Scalars(k)
  BY <1>1, WordsAssumption DEF sets, convertible, converted, Scalars
<1>3. old \in Seq(Scalars(k)) /\ (~is_list(k) => Len(old) <= 1)
  <2>1. values[k] \in Seq(Scalars(k)) /\ (~is_list(k) => Len(values[k]) <= 1)
    BY DEF ValuesInv
  <2>2. CASE k \in reset
    BY <1>1, <2>2 DEF cfg_free_value
  <2>3. CASE k \notin reset
    BY <1>1, <2>1, <2>3 DEF cfg_free_value
  <2> QED
    BY <2>2, <2>3
<1>4. PICK new : new = IF old = <<>> \/ is_list(k) THEN Append(old, v) ELSE [old EXCEPT ![1] = v]
  OBVIOUS
<1>5. values' = [values EXCEPT ![k] = new] /\ reset' = reset \ {k}
  BY <1>1, <1>4 DEF cfg_setopt
<1>6. new \in Seq(Scalars(k)) /\ (~is_list(k) => Len(new) <= 1)
  <2>1. CASE old = <<>> \/ is_list(k)
    <3>1. new = Append(old, v)
      BY <1>4, <2>1
    <3> QED
      BY <1>2, <1>3, <2>1, <3>1
  <2>2. CASE ~(old = <<>> \/ is_list(k))
    <3>1. new = [old EXCEPT ![1] = v]
      BY <1>4, <2>2
    <3>2. Len(old) <= 1
      BY <1>3, <2>2, Zenon
    <3>3. old \in Seq(Scalars(k)) /\ old # <<>>
      BY <1>3, <2>2, Zenon
    <3>4. Len(old) = 1
      <4>1. PICK l : l = Len(old)
        OBVIOUS
      <4>2. l # 0
        BY <3>3, <4>1, EmptySeq, Zenon
      <4>3. l \in Nat
        BY <3>3, <4>1
      <4>4. l <= 1
        BY <3>2, <4>1, Zenon
      <4>5. l = 1
        BY <4>2, <4>3, <4>4
      <4> QED
        BY <4>1, <4>5
    <3>5. new \in Seq(Scalars(k)) /\ Len(new) = 1
      BY <1>2, <3>1, <3>3, <3>4
    <3>6. Len(new) <= 1
      BY <3>5
    <3> QED
      BY <3>5, <3>6, Zenon
  <2> QED
    BY <2>1, <2>2
<1>7. /\ DOMAIN values' = Keys /\ values'[k] = new
      /\ \A j \in Keys : j # k => values'[j] = values[j]
  BY <1>5 DEF ValuesInv
<1>8. \A j \in Keys : values'[j] \in Seq(Scalars(j)) /\ (~is_list(j) => Len(values'[j]) <= 1)
  BY <1>6, <1>7 DEF ValuesInv
<1>9. reset' \subseteq Keys
  BY <1>5 DEF ValuesInv
<1> QED
  BY <1>1, <1>2, <1>3, <1>4, <1>5, <1>7, <1>8, <1>9 DEF ValuesInv

\* A value.
LEMMA KeyValue ==
  ASSUME StackInv, HistoryInv, ValuesInv, TopInv, NEW tok \in Words, Read(tok), NEW k \in Keys, KeyInv(k),
         top.state \in {2, 3}, top.opt = k, sets(k, tok), cfg_setopt(k, tok)
  PROVE  KeyInv(k)'
<1>1. PICK n, v, old : n = Len(file) + 1 /\ v = converted(k, tok) /\ old = cfg_free_value(k)
  OBVIOUS
<1>2. /\ Assigned(k)' = Assigned(k) /\ Given(k)' = Given(k) \union {n}
      /\ n \in Nat /\ Given(k) \subseteq 1 .. n - 1
      /\ \A p \in Given(k) : file'[p] = file[p]
      /\ file'[n] = tok
  BY <1>1, ValueToken
<1>3. /\ v \in Scalars(k) /\ old \in Seq(Scalars(k)) /\ reset' = reset \ {k}
      /\ old = <<>> \/ is_list(k) => values'[k] = Append(old, v)
  BY <1>1, SetoptFacts
<1>4. old = <<>> \/ is_list(k)
  <2>1. CASE k \in reset
    BY <1>1, <2>1 DEF cfg_free_value
  <2>2. CASE k \notin reset
    BY <2>2, TopFacts DEF TopInv, FrameInv
  <2> QED
    BY <2>1, <2>2
<1>5. /\ Len(old) = Len(Base(k)) + Cardinality(Given(k))
      /\ \A j \in DOMAIN Base(k) : old[j] = Base(k)[j]
      /\ \A p \in Given(k) : old[Len(Base(k)) + Rank(Given(k), p)] = converted(k, file[p])
  <2>1. CASE k \in reset
    <3>1. old = <<>> /\ Assigned(k) # {}
      BY <1>1, <2>1 DEF cfg_free_value, TopInv
    <3>2. Given(k) = {}
      BY <2>1, <3>1 DEF KeyInv
    <3>3. Base(k) = <<>> /\ Cardinality(Given(k)) = 0
      BY <3>1, <3>2, FS_EmptySet DEF Base
    <3> QED
      BY <3>1, <3>2, <3>3
  <2>2. CASE k \notin reset
    <3>1. old = values[k]
      BY <1>1, <2>2 DEF cfg_free_value
    <3> QED
      BY <2>2, <3>1 DEF KeyInv, HasItsValues
  <2> QED
    BY <2>1, <2>2
<1>6. Base(k)' = Base(k) /\ Base(k) \in Seq(Scalars(k))
  BY <1>2, OptionFacts DEF Base
<1>7. PICK S, b, new : S = Given(k) /\ b = Base(k) /\ new = Append(old, v)
  OBVIOUS
<1>8. /\ Cardinality(S) \in Nat /\ Cardinality(S \union {n}) = Cardinality(S) + 1
      /\ \A p \in S : Rank(S \union {n}, p) = Rank(S, p) /\ Rank(S, p) \in 1 .. Cardinality(S)
      /\ Rank(S \union {n}, n) = Cardinality(S) + 1
  <2>1. n \in Nat /\ S \subseteq 1 .. n - 1
    BY <1>2, <1>7
  <2> QED
    BY <2>1, RankGrows, Zenon
<1>9. values'[k] = new /\ Len(b) \in Nat /\ Len(old) = Len(b) + Cardinality(S) /\ DOMAIN b = 1 .. Len(b)
  BY <1>3, <1>4, <1>5, <1>6, <1>7
<1>10. /\ Len(new) = Len(b) + Cardinality(S) + 1
       /\ \A j \in 1 .. Len(b) + Cardinality(S) : new[j] = old[j]
       /\ new[Len(b) + Cardinality(S) + 1] = v
  BY <1>3, <1>7, <1>8, <1>9
<1>11. \A j \in DOMAIN b : new[j] = b[j]
  BY <1>5, <1>7, <1>8, <1>9, <1>10
<1>12. ASSUME NEW p \in S \union {n}
       PROVE  new[Len(b) + Rank(S \union {n}, p)] = converted(k, file'[p])
  <2>1. CASE p = n
    <3>1. Len(b) + Rank(S \union {n}, p) = Len(b) + Cardinality(S) + 1
      BY <1>8, <1>9, <2>1
    <3>2. converted(k, file'[p]) = v
      BY <1>1, <1>2, <2>1
    <3> QED
      BY <1>10, <3>1, <3>2
  <2>2. CASE p # n
    <3>1. p \in S
      BY <2>2
    <3>2. Len(b) + Rank(S, p) \in 1 .. Len(b) + Cardinality(S)
      BY <1>8, <1>9, <3>1
    <3>3. new[Len(b) + Rank(S, p)] = old[Len(b) + Rank(S, p)]
      BY <1>10, <3>2
    <3>4. old[Len(b) + Rank(S, p)] = converted(k, file[p])
      BY <1>5, <1>7, <3>1
    <3>5. file'[p] = file[p]
      BY <1>2, <1>7, <3>1
    <3> QED
      BY <1>8, <3>1, <3>3, <3>4, <3>5
  <2> QED
    BY <2>1, <2>2
<1>13. HasItsValues(k)'
  <2>1. Base(k)' = b /\ Given(k)' = S \union {n} /\ values'[k] = new
    BY <1>2, <1>6, <1>7, <1>9
  <2>2. Len(new) = Len(b) + Cardinality(S \union {n})
    BY <1>8, <1>9, <1>10
  <2> QED
    BY <1>11, <1>12, <2>1, <2>2 DEF HasItsValues, converted, Rank
<1>14. k \notin reset' /\ Given(k)' # {}
  BY <1>2, <1>3
<1>15. is_list(k) \/ Assigned(k)' # {}
  <2>1. CASE top.state = 2
    BY <1>2, <2>1 DEF TopInv
  <2>2. CASE top.state = 3
    BY <2>2, TopFacts DEF FrameInv
  <2> QED
    BY <2>1, <2>2
<1> QED
  BY <1>13, <1>14, <1>15 DEF KeyInv

\* The end of a list, which empties it when it has no values.
LEMMA KeyEmpty ==
  ASSUME StackInv, HistoryInv, TopInv, NEW tok \in All, tok \notin Words, Read(tok), NEW k, KeyInv(k),
         top.state = 2, top.opt = k, is_list(k),
         values'[k] = IF top.num_values = 0 THEN cfg_free_value(k) ELSE values[k],
         reset' = reset
  PROVE  KeyInv(k)'
<1>1. /\ Assigned(k)' = Assigned(k) /\ Given(k)' = Given(k)
      /\ \A p \in Given(k) : file'[p] = file[p]
  BY OtherToken
<1>2. CASE k \in reset
  <2>1. Assigned(k) # {} /\ top.num_values = 0
    <3>1. top.num_values \in Nat
      BY TopFacts DEF Frames
    <3>2. ~(top.num_values > 0)
      BY <1>2 DEF TopInv
    <3>3. Assigned(k) # {}
      BY <1>2 DEF TopInv
    <3> QED
      BY <3>1, <3>2, <3>3
  <2>2. values'[k] = <<>>
    BY <1>2, <2>1 DEF cfg_free_value
  <2>3. Given(k) = {}
    BY <1>2, <2>1 DEF KeyInv
  <2> QED
    BY <1>1, <1>2, <2>1, <2>2, <2>3, Zenon DEF KeyInv
<1>3. CASE k \notin reset
  <2>1. values'[k] = values[k]
    BY <1>3 DEF cfg_free_value
  <2>2. HasItsValues(k)
    BY <1>3 DEF KeyInv
  <2>3. HasItsValues(k)'
    BY <1>1, <2>1, <2>2, HasKept
  <2> QED
    BY <1>3, <2>3, Zenon DEF KeyInv
<1> QED
  BY <1>2, <1>3

-----------------------------------------------------------------------------
(***************************************************************************)
(* Labels.                                                                 *)
(***************************************************************************)

\* A token that ends no call.
LEMMA LabelsKept ==
  ASSUME StackInv, HistoryInv, LabelsInv, NEW tok \in All, Read(tok), labels' = labels,
         ~(top.state \in {8, 9} /\ tok = CloseParen)
  PROVE  LabelsInv'
<1>1. PICK n : n = Len(file) + 1
  OBVIOUS
<1>2. /\ n \in Nat /\ n > 0 /\ DOMAIN seen = 1 .. n - 1 /\ DOMAIN seen' = 1 .. n
      /\ \A p \in DOMAIN seen : seen'[p] = seen[p] /\ file'[p] = file[p]
      /\ seen'[n] = top /\ file'[n] = tok
  BY <1>1, HistoryGrows
<1>3. DOMAIN seen' = DOMAIN seen \union {n}
  BY <1>2
<1>4. CallsAt' = CallsAt
  BY <1>2, <1>3 DEF CallsAt
<1>5. \A p \in CallsAt : p \in 1 .. n - 1 /\ seen'[p] = seen[p]
  BY <1>2 DEF CallsAt
<1>6. ASSUME NEW p \in CallsAt
      PROVE  \E b \in {p - 1, p - 2} : b - 2 \in Nat \ {0} /\ seen'[p].args = <<file'[b - 2], file'[b]>>
  <2>1. PICK b \in {p - 1, p - 2} : b - 2 \in Nat \ {0} /\ seen[p].args = <<file[b - 2], file[b]>>
    BY DEF LabelsInv
  <2>2. b \in 1 .. n - 1 /\ b - 2 \in 1 .. n - 1
    BY <1>2, <1>5, <2>1
  <2>3. file'[b] = file[b] /\ file'[b - 2] = file[b - 2]
    BY <1>2, <2>2
  <2> QED
    BY <1>5, <2>1, <2>3
<1>7. ASSUME NEW p \in CallsAt, \A q \in CallsAt : q < p => seen'[q].args[1] # seen'[p].args[1]
      PROVE  \E l \in DOMAIN labels : labels[l] = seen'[p].args
  <2>1. \A q \in CallsAt : q < p => seen[q].args[1] # seen[p].args[1]
    BY <1>5, <1>7, Zenon
  <2>2. PICK l \in DOMAIN labels : labels[l] = seen[p].args
    BY <2>1, Zenon DEF LabelsInv
  <2> QED
    BY <1>5, <2>2
<1>8. \A l \in DOMAIN labels :
        /\ \E p \in CallsAt : labels[l] = seen'[p].args
        /\ \A m \in DOMAIN labels : labels[m][1] = labels[l][1] => m = l
  <2> SUFFICES ASSUME NEW l \in DOMAIN labels
               PROVE  /\ \E p \in CallsAt : labels[l] = seen'[p].args
                      /\ \A m \in DOMAIN labels : labels[m][1] = labels[l][1] => m = l
    OBVIOUS
  <2>1. PICK p \in CallsAt : labels[l] = seen[p].args
    BY Zenon DEF LabelsInv
  <2>2. labels[l] = seen'[p].args
    BY <1>5, <2>1
  <2> QED
    BY <2>2, Zenon DEF LabelsInv
<1>9. labels' \in Seq(Seq(Words))
  BY DEF LabelsInv
<1> QED
  BY <1>4, <1>6, <1>7, <1>8, <1>9, Zenon DEF LabelsInv

\* The end of a call.
LEMMA LabelsCalled ==
  ASSUME StackInv, HistoryInv, LabelsInv, ArgsInv, NEW tok \in All, tok = CloseParen, Read(tok),
         top.state \in {8, 9}, callable(top.args), labels' = label_func(top.args)
  PROVE  LabelsInv'
<1>1. PICK n, a : n = Len(file) + 1 /\ a = top.args
  OBVIOUS
<1>2. /\ n \in Nat /\ n > 0 /\ DOMAIN seen = 1 .. n - 1 /\ DOMAIN seen' = 1 .. n
      /\ \A p \in DOMAIN seen : seen'[p] = seen[p] /\ file'[p] = file[p]
      /\ seen'[n] = top /\ file'[n] = tok
  BY <1>1, HistoryGrows
<1>3. DOMAIN seen' = DOMAIN seen \union {n}
  BY <1>2
<1>4. CallsAt' = CallsAt \union {n}
  BY <1>2, <1>3 DEF CallsAt
<1>5. \A p \in CallsAt : p \in 1 .. n - 1 /\ p < n /\ seen'[p] = seen[p]
  BY <1>2 DEF CallsAt
<1>6. a \in Seq(Words) /\ Len(a) = 2 /\ seen'[n].args = a
  BY <1>1, <1>2, TopFacts DEF Frames, callable
<1>7. /\ labels \in Seq(Seq(Words)) /\ labels' \in Seq(Seq(Words))
      /\ Len(labels) \in Nat /\ DOMAIN labels = 1 .. Len(labels) /\ DOMAIN labels \subseteq DOMAIN labels'
      /\ \A l \in DOMAIN labels : labels'[l] = labels[l]
  BY <1>1, <1>6 DEF LabelsInv, label_func
<1>9. LastArgument - 2 \in 1 .. Len(file) /\ a[1] = file[LastArgument - 2]
  BY <1>1, <1>6 DEF ArgsInv
<1>10. LastArgument \in 1 .. Len(file) /\ a[2] = file[LastArgument]
  <2>1. LastArgument \in Int
    BY DEF LastArgument, HistoryInv
  <2>2. /\ LastArgument - 2 * (Len(a) - 2) \in 1 .. Len(file)
        /\ a[2] = file[LastArgument - 2 * (Len(a) - 2)]
    BY <1>1, <1>6 DEF ArgsInv
  <2>3. LastArgument - 2 * (Len(a) - 2) = LastArgument
    BY <1>6, <2>1
  <2> QED
    BY <2>2, <2>3
<1>11. \E b \in {n - 1, n - 2} : b - 2 \in Nat \ {0} /\ seen'[n].args = <<file'[b - 2], file'[b]>>
  <2>1. PICK b : b = LastArgument
    OBVIOUS
  <2>2. b \in {n - 1, n - 2} /\ b \in 1 .. n - 1 /\ b - 2 \in 1 .. n - 1
    <3>1. Len(file) = n - 1 /\ n - 1 \in Nat
      BY <1>1, <1>2
    <3>2. b \in {n - 1, n - 2}
      BY <1>2, <2>1, <3>1 DEF LastArgument
    <3>3. b \in 1 .. n - 1 /\ b - 2 \in 1 .. n - 1
      BY <1>9, <1>10, <2>1, <3>1
    <3> QED
      BY <3>2, <3>3
  <2>3. file'[b] = a[2] /\ file'[b - 2] = a[1]
    BY <1>2, <1>9, <1>10, <2>1, <2>2
  <2>4. a = <<a[1], a[2]>>
    BY <1>6
  <2> QED
    BY <1>6, <2>2, <2>3, <2>4
<1>12. ASSUME NEW p \in CallsAt'
       PROVE  \E b \in {p - 1, p - 2} : b - 2 \in Nat \ {0} /\ seen'[p].args = <<file'[b - 2], file'[b]>>
  <2>1. CASE p = n
    BY <1>11, <2>1
  <2>2. CASE p # n
    <3>1. p \in CallsAt
      BY <1>4, <2>2
    <3>2. PICK b \in {p - 1, p - 2} : b - 2 \in Nat \ {0} /\ seen[p].args = <<file[b - 2], file[b]>>
      BY <3>1 DEF LabelsInv
    <3>3. b \in 1 .. n - 1 /\ b - 2 \in 1 .. n - 1
      BY <1>2, <1>5, <3>1, <3>2
    <3>4. file'[b] = file[b] /\ file'[b - 2] = file[b - 2]
      BY <1>2, <3>3
    <3> QED
      BY <1>5, <3>1, <3>2, <3>4
  <2> QED
    BY <2>1, <2>2
<1>13. ASSUME NEW p \in CallsAt, \A r \in CallsAt' : r < p => seen'[r].args[1] # seen'[p].args[1]
       PROVE  \E m \in DOMAIN labels' : labels'[m] = seen'[p].args
  <2>1. \A q \in CallsAt : q < p => seen[q].args[1] # seen[p].args[1]
    BY <1>4, <1>5, <1>13, Zenon
  <2>2. PICK m \in DOMAIN labels : labels[m] = seen[p].args
    BY <2>1, Zenon DEF LabelsInv
  <2> QED
    BY <1>5, <1>7, <2>2
<1>14. ASSUME NEW m \in DOMAIN labels
       PROVE  \E p \in CallsAt' : labels[m] = seen'[p].args
  <2>1. PICK p \in CallsAt : labels[m] = seen[p].args
    BY Zenon DEF LabelsInv
  <2> QED
    BY <1>4, <1>5, <2>1
<1>15. CASE \E l \in DOMAIN labels : labels[l][1] = a[1]
  <2>1. labels' = labels
    BY <1>1, <1>15 DEF label_func
  <2>2. PICK l \in DOMAIN labels : labels[l][1] = a[1]
    BY <1>15
  <2>3. PICK q \in CallsAt : labels[l] = seen[q].args
    BY DEF LabelsInv
  <2>4. q < n /\ seen'[q].args[1] = a[1]
    BY <1>5, <2>2, <2>3
  <2>5. ASSUME NEW p \in CallsAt', \A r \in CallsAt' : r < p => seen'[r].args[1] # seen'[p].args[1]
        PROVE  \E m \in DOMAIN labels' : labels'[m] = seen'[p].args
    <3>1. p # n
      BY <1>4, <1>6, <2>4, <2>5, Zenon
    <3>2. p \in CallsAt
      BY <1>4, <3>1
    <3> QED
      BY <1>13, <2>5, <3>2, Zenon
  <2>6. \A m \in DOMAIN labels' : \E p \in CallsAt' : labels'[m] = seen'[p].args
    BY <1>14, <2>1, Zenon
  <2>7. \A m \in DOMAIN labels' : \A r \in DOMAIN labels' : labels'[r][1] = labels'[m][1] => r = m
    BY <2>1, Zenon DEF LabelsInv
  <2> QED
    BY <1>7, <1>12, <2>5, <2>6, <2>7, Zenon DEF LabelsInv
<1>16. CASE ~\E l \in DOMAIN labels : labels[l][1] = a[1]
  <2>1. labels' = Append(labels, a)
    BY <1>1, <1>16 DEF label_func
  <2>2. PICK e : e = Len(labels) + 1
    OBVIOUS
  <2>3. a \in Seq(Words) /\ labels \in Seq(Seq(Words))
    BY <1>6, <1>7
  <2>4. DOMAIN labels' = DOMAIN labels \union {e} /\ labels'[e] = a
    BY <2>1, <2>2, <2>3
  <2>5. ASSUME NEW p \in CallsAt', \A r \in CallsAt' : r < p => seen'[r].args[1] # seen'[p].args[1]
        PROVE  \E m \in DOMAIN labels' : labels'[m] = seen'[p].args
    <3>1. CASE p = n
      BY <1>6, <2>4, <3>1
    <3>2. CASE p # n
      <4>1. p \in CallsAt
        BY <1>4, <3>2
      <4> QED
        BY <1>13, <2>5, <4>1, Zenon
    <3> QED
      BY <3>1, <3>2
  <2>6. ASSUME NEW m \in DOMAIN labels'
        PROVE  \E p \in CallsAt' : labels'[m] = seen'[p].args
    <3>1. CASE m = e
      BY <1>4, <1>6, <2>4, <3>1
    <3>2. CASE m # e
      <4>1. m \in DOMAIN labels /\ labels'[m] = labels[m]
        BY <1>7, <2>4, <3>2
      <4> QED
        BY <1>14, <4>1, Zenon
    <3> QED
      BY <3>1, <3>2
  <2>7. ASSUME NEW m \in DOMAIN labels', NEW r \in DOMAIN labels', labels'[r][1] = labels'[m][1]
        PROVE  r = m
    <3>1. CASE m \in DOMAIN labels /\ r \in DOMAIN labels
      BY <1>7, <2>7, <3>1, Zenon DEF LabelsInv
    <3>2. CASE m \in DOMAIN labels /\ r = e
      BY <1>7, <1>16, <2>4, <2>7, <3>2, Zenon
    <3>3. CASE m = e /\ r \in DOMAIN labels
      BY <1>7, <1>16, <2>4, <2>7, <3>3, Zenon
    <3> QED
      BY <2>4, <3>1, <3>2, <3>3
  <2> QED
    BY <1>7, <1>12, <2>5, <2>6, <2>7, Zenon DEF LabelsInv
<1> QED
  BY <1>15, <1>16

-----------------------------------------------------------------------------
(***************************************************************************)
(* The actions.                                                            *)
(***************************************************************************)

\* The parser goes on.
Parsing == status = "parsing" /\ StackInv /\ HistoryInv /\ ValuesInv /\ Sound

\* A token that changes neither values nor labels.
LEMMA QuietToken ==
  ASSUME Parsing, NEW tok \in All, Read(tok), UNCHANGED <<values, reset, labels>>,
         ~(top.state = 1 /\ tok = Assign),
         ~(top.state \in {2, 3} /\ tok \in Words),
         ~(top.state \in {8, 9} /\ tok = CloseParen),
         \A k \in Keys : Pending(k) => Pending(k)'
  PROVE  HistoryInv' /\ ValuesInv' /\ LabelsInv' /\ \A k \in Keys : KeyInv(k)'
<1>1. HistoryInv'
  BY HistoryGrows DEF Parsing
<1>2. ValuesInv'
  BY DEF Parsing, ValuesInv
<1>3. LabelsInv'
  BY LabelsKept DEF Parsing, Sound
<1>4. ASSUME NEW k \in Keys
      PROVE  KeyInv(k)'
  <2>1. KeyInv(k) /\ StackInv /\ HistoryInv
    BY DEF Parsing, Sound
  <2>2. values'[k] = values[k] /\ (k \in reset' <=> k \in reset)
    OBVIOUS
  <2> QED
    BY <2>1, <2>2, KeyKept
<1> QED
  BY <1>1, <1>2, <1>3, <1>4

\* Outside a statement nothing is pending.
LEMMA Idle ==
  ASSUME top.state \notin {2, 3, 4}, top.state \notin {8, 9}
  PROVE  TopInv /\ ArgsInv /\ \A k \in Keys : ~Pending(k)
  BY DEF TopInv, ArgsInv, Pending

\* The same of the next state.
LEMMA IdleNext ==
  ASSUME top'.state \notin {2, 3, 4}, top'.state \notin {8, 9}
  PROVE  TopInv' /\ ArgsInv'
  BY DEF TopInv, ArgsInv

\* What a token does to the history.
LEMMA ReadsIsRead ==
  ASSUME NEW n, NEW tok, reads(n, tok)
  PROVE  Read(tok) /\ status = "parsing" /\ top.state = n /\ cfg' = cfg
  BY DEF reads, Read

\* The end of a section.
LEMMA SectionEnds ==
  ASSUME StackInv, level > 0, stack' = Front(stack)
  PROVE  StackInv' /\ top'.state = 0
<1>1. Len(stack) = 2 /\ stack \in Seq(Frames)
  BY TopFacts DEF level, StackInv
<1>2. stack' \in Seq(Frames) /\ Len(stack') = 1 /\ stack'[1] = stack[1]
  BY <1>1 DEF Front
<1>3. top' = stack[1]
  BY <1>2 DEF top, Last
<1>4. FrameInv(stack[1]) /\ stack[1].state = 0 /\ stack[1].sec = "root"
  BY <1>1 DEF StackInv
<1>5. FrameInv(stack'[1])
  BY <1>2, <1>4
<1>6. \A s \in 1 .. Len(stack') : FrameInv(stack[s])'
  BY <1>2, <1>5 DEF FrameInv
<1> QED
  BY <1>2, <1>3, <1>4, <1>6 DEF StackInv

\* State 0.
LEMMA OptionName ==
  ASSUME Parsing, NEW tok \in All, option_name(tok)
  PROVE  Parsing'
<1>1. /\ Read(tok) /\ top.state = 0 /\ legal(0, tok)
      /\ UNCHANGED <<values, reset, labels, status>>
  BY ReadsIsRead DEF option_name
<1>2. StackInv' /\ top'.state \notin {2, 3, 4} /\ top'.state \notin {8, 9}
  <2>1. CASE tok = Comment /\ UNCHANGED stack
    BY <1>1, <2>1 DEF Parsing, StackInv, FrameInv, top
  <2>2. CASE tok = CloseBrace /\ stack' = Front(stack)
    <3>1. level > 0
      <4>1. CloseBrace \notin Words /\ CloseBrace # Comment
        BY WordsDiffer, TokensDiffer
      <4> QED
        BY <1>1, <2>2, <4>1 DEF legal
    <3> QED
      BY <2>2, <3>1, SectionEnds DEF Parsing
  <2>3. CASE tok \in Words /\ \E k \in cfg_getopt(top.sec, tok) :
               goto([top EXCEPT !.opt = k,
                       !.state = CASE type(k) = "SEC" -> 5 [] type(k) = "FUNC" -> 7 [] OTHER -> 1])
    <3>1. PICK k, f : /\ k \in cfg_getopt(top.sec, tok) /\ goto(f)
                      /\ f = [top EXCEPT !.opt = k,
                                !.state = CASE type(k) = "SEC" -> 5 [] type(k) = "FUNC" -> 7 [] OTHER -> 1]
      BY <2>3
    <3>2. top \in Frames /\ FrameInv(top) /\ top.sec \in DOMAIN Opts
      BY TopFacts DEF Parsing, Frames
    <3>3. k \in Keys /\ (type(k) = "SEC" => top.sec = "root")
      BY <2>3, <3>1, <3>2, GetoptKeys
    <3>4. type(k) \in {"SEC", "FUNC", "INT", "STR"}
      BY <3>3, OptionFacts
    <3>5. /\ f.sec = top.sec /\ f.opt = k /\ f.num_values = top.num_values /\ f.args = top.args
          /\ f.state = CASE type(k) = "SEC" -> 5 [] type(k) = "FUNC" -> 7 [] OTHER -> 1
          /\ f \in Frames
      BY <3>1, <3>2, <3>3, <3>4 DEF Frames, States
    <3>6. FrameInv(f)
      BY <1>1, <3>2, <3>3, <3>4, <3>5 DEF FrameInv
    <3>7. StackInv' /\ top' = f
      BY <3>1, <3>5, <3>6, GotoFrame DEF Parsing
    <3> QED
      BY <3>4, <3>5, <3>7
  <2> QED
    BY <2>1, <2>2, <2>3 DEF option_name
<1>3. TopInv' /\ ArgsInv'
  BY <1>2, IdleNext
<1>4. HistoryInv' /\ ValuesInv' /\ LabelsInv' /\ \A k \in Keys : KeyInv(k)'
  BY <1>1, Idle, QuietToken
<1> QED
  BY <1>1, <1>2, <1>3, <1>4 DEF Parsing, Sound

\* State 1.
LEMMA EqualSign ==
  ASSUME Parsing, NEW tok \in All, equal_sign(tok)
  PROVE  Parsing'
<1>1. PICK k : k = top.opt
  OBVIOUS
<1>2. /\ Read(tok) /\ top.state = 1 /\ legal(1, tok)
      /\ UNCHANGED <<values, labels, status>> /\ reset' = reset_after(tok)
  BY ReadsIsRead DEF equal_sign
<1>3. tok = Assign \/ (tok = AddTo /\ is_list(k))
  BY <1>1, <1>2 DEF legal
<1>4. /\ StackInv /\ HistoryInv /\ ValuesInv /\ top \in Frames /\ FrameInv(top)
      /\ LabelsInv /\ \A j \in Keys : KeyInv(j)
  BY TopFacts DEF Parsing, Sound
<1>5. k \in Keys /\ type(k) \in {"INT", "STR"} /\ top.args = <<>>
  BY <1>1, <1>2, <1>4 DEF FrameInv
<1>6. PICK f : /\ goto(f)
               /\ f = IF is_list(top.opt) THEN [top EXCEPT !.state = 3, !.num_values = 0]
                      ELSE [top EXCEPT !.state = 2]
  BY DEF equal_sign
<1>7. /\ f \in Frames /\ f.sec = top.sec /\ f.opt = k /\ f.args = <<>>
      /\ is_list(k) => f.state = 3 /\ f.num_values = 0
      /\ ~is_list(k) => f.state = 2
  BY <1>1, <1>4, <1>5, <1>6 DEF Frames, States
<1>8. FrameInv(f)
  BY <1>5, <1>7 DEF FrameInv
<1>9. StackInv' /\ top' = f
  <2>1. goto(f) /\ StackInv /\ f.sec = top.sec
    BY <1>4, <1>6, <1>7
  <2> QED
    BY <1>8, <2>1, GotoFrame
<1>10. Pending(k)'
  BY <1>7, <1>9 DEF Pending
<1>11. \A j \in Keys : ~Pending(j)
  BY <1>2, Idle
<1>12. HistoryInv'
  BY <1>2, <1>4, HistoryGrows
<1>13. reset' = IF tok = Assign THEN reset \union {k} ELSE reset \ {k}
  BY <1>1, <1>2 DEF reset_after
<1>14. ValuesInv'
  BY <1>2, <1>4, <1>5, <1>13 DEF ValuesInv
<1>15. LabelsInv'
  BY <1>2, <1>4, LabelsKept
<1>16. ASSUME NEW j \in Keys
       PROVE  KeyInv(j)'
  <2>1. CASE j # k
    <3>1. values'[j] = values[j] /\ (j \in reset' <=> j \in reset)
      BY <1>2, <1>13, <2>1
    <3>2. KeyInv(j) /\ ~Pending(j)
      BY <1>4, <1>11
    <3> QED
      BY <1>1, <1>2, <1>4, <2>1, <3>1, <3>2, KeyKept
  <2>2. CASE j = k /\ tok = Assign
    <3>1. k \in reset' /\ Assign \in All /\ Read(Assign)
      BY <1>2, <1>13, <2>2
    <3> QED
      BY <1>1, <1>2, <1>4, <1>10, <2>2, <3>1, KeyAssigned
  <2>3. CASE j = k /\ tok = AddTo
    <3>1. k \notin reset' /\ AddTo \in All /\ Read(AddTo) /\ values'[k] = values[k]
      BY <1>2, <1>13, <2>3, TokensDiffer
    <3>2. KeyInv(k)
      BY <1>4, <1>5
    <3> QED
      BY <1>1, <1>2, <1>4, <2>3, <3>1, <3>2, KeyAdded
  <2> QED
    BY <1>3, <2>1, <2>2, <2>3
<1>17. TopInv'
  <2>1. k \in reset' => tok = Assign
    BY <1>13
  <2>2. tok = Assign => Assigned(k)' # {}
    BY <1>1, <1>2, <1>4, AssignToken
  <2>3. ~is_list(k) => k \in reset'
    BY <1>3, <1>13
  <2> QED
    BY <1>7, <1>9, <2>1, <2>2, <2>3 DEF TopInv
<1>18. ArgsInv'
  BY <1>7, <1>9 DEF ArgsInv
<1> QED
  BY <1>2, <1>9, <1>12, <1>14, <1>15, <1>16, <1>17, <1>18 DEF Parsing, Sound

\* A value is taken.
LEMMA ValueTaken ==
  ASSUME Parsing, NEW tok \in Words, Read(tok), UNCHANGED labels, NEW k \in Keys, k = top.opt,
         top.state \in {2, 3}, sets(k, tok), cfg_setopt(k, tok)
  PROVE  /\ HistoryInv' /\ ValuesInv' /\ LabelsInv' /\ \A j \in Keys : KeyInv(j)'
         /\ k \notin reset'
<1>1. /\ StackInv /\ HistoryInv /\ ValuesInv /\ TopInv
      /\ LabelsInv /\ \A j \in Keys : KeyInv(j)
  BY DEF Parsing, Sound
<1>2. tok \in All /\ tok # CloseParen
  BY WordsDiffer
<1>3. HistoryInv'
  BY <1>1, <1>2, HistoryGrows
<1>4. /\ ValuesInv' /\ reset' = reset \ {k}
      /\ \A j \in Keys : j # k => values'[j] = values[j]
  BY <1>1, SetoptFacts
<1>5. LabelsInv'
  BY <1>1, <1>2, LabelsKept
<1>6. ASSUME NEW j \in Keys, j # k
      PROVE  KeyInv(j)'
  <2>1. ~Pending(j)
    BY <1>6 DEF Pending
  <2>2. values'[j] = values[j] /\ (j \in reset' <=> j \in reset) /\ KeyInv(j)
    BY <1>1, <1>4, <1>6
  <2> QED
    BY <1>1, <1>2, <1>6, <2>1, <2>2, KeyKept
<1>7. KeyInv(k)'
  BY <1>1, KeyValue
<1> QED
  BY <1>3, <1>4, <1>5, <1>6, <1>7

\* State 2.
LEMMA OptionValue ==
  ASSUME Parsing, NEW tok \in All, option_value(tok)
  PROVE  Parsing'
<1>1. PICK k : k = top.opt
  OBVIOUS
<1>2. Read(tok) /\ top.state = 2 /\ legal(2, tok) /\ UNCHANGED <<labels, status>>
  BY ReadsIsRead DEF option_value
<1>3. /\ StackInv /\ HistoryInv /\ ValuesInv /\ top \in Frames /\ FrameInv(top)
      /\ TopInv /\ LabelsInv /\ \A j \in Keys : KeyInv(j)
  BY TopFacts DEF Parsing, Sound
<1>4. k \in Keys /\ type(k) \in {"INT", "STR"} /\ top.args = <<>> /\ top.num_values \in Nat
  BY <1>1, <1>2, <1>3 DEF FrameInv, Frames
<1>5. (tok = CloseBrace /\ is_list(k)) \/ sets(k, tok)
  BY <1>1, <1>2 DEF legal
<1>6. CASE /\ tok = CloseBrace
           /\ values' = [values EXCEPT ![top.opt] =
                           IF top.num_values = 0 THEN cfg_free_value(top.opt) ELSE @]
           /\ goto([top EXCEPT !.state = 0])
           /\ UNCHANGED reset
  <2>1. tok \notin Words /\ is_list(k)
    BY <1>5, <1>6, WordsDiffer DEF sets
  <2>2. PICK f : goto(f) /\ f = [top EXCEPT !.state = 0]
    BY <1>6
  <2>3. f \in Frames /\ f.sec = top.sec /\ f.state = 0 /\ f.args = <<>>
    BY <1>3, <1>4, <2>2 DEF Frames, States
  <2>4. FrameInv(f)
    BY <2>3 DEF FrameInv
  <2>5. StackInv' /\ top' = f
    BY <1>3, <2>2, <2>3, <2>4, GotoFrame
  <2>6. HistoryInv'
    BY <1>2, <1>3, HistoryGrows
  <2>7. LabelsInv'
    BY <1>2, <1>3, LabelsKept
  <2>8. PICK v : v = IF top.num_values = 0 THEN cfg_free_value(k) ELSE values[k]
    OBVIOUS
  <2>9. values' = [values EXCEPT ![k] = v]
    BY <1>1, <1>3, <1>4, <1>6, <2>8 DEF ValuesInv
  <2>10. v \in {<<>>, values[k]}
    BY <2>8 DEF cfg_free_value
  <2>11. /\ DOMAIN values' = Keys /\ values'[k] = v
         /\ \A j \in Keys : j # k => values'[j] = values[j]
    BY <1>3, <1>4, <2>9 DEF ValuesInv
  <2>12. ValuesInv'
    <3>1. v \in Seq(Scalars(k))
      <4>1. values[k] \in Seq(Scalars(k))
        BY <1>3, <1>4 DEF ValuesInv
      <4>2. <<>> \in Seq(Scalars(k))
        OBVIOUS
      <4> QED
        BY <2>10, <4>1, <4>2, Zenon
    <3>2. ASSUME NEW j \in Keys
          PROVE  values'[j] \in Seq(Scalars(j)) /\ (~is_list(j) => Len(values'[j]) <= 1)
      <4>1. CASE j = k
        BY <2>1, <2>11, <3>1, <4>1, Zenon
      <4>2. CASE j # k
        BY <1>3, <2>11, <4>2, Zenon DEF ValuesInv
      <4> QED
        BY <4>1, <4>2
    <3> QED
      BY <1>3, <1>6, <2>11, <3>2 DEF ValuesInv
  <2>13. ASSUME NEW j \in Keys
         PROVE  KeyInv(j)'
    <3>1. CASE j # k
      <4>1. values'[j] = values[j] /\ (j \in reset' <=> j \in reset)
        BY <1>6, <2>11, <3>1
      <4>2. KeyInv(j) /\ ~Pending(j)
        BY <1>1, <1>3, <3>1 DEF Pending
      <4> QED
        BY <1>1, <1>2, <1>3, <3>1, <4>1, <4>2, KeyKept
    <3>2. CASE j = k
      <4>1. values'[k] = IF top.num_values = 0 THEN cfg_free_value(k) ELSE values[k]
        BY <2>8, <2>11
      <4>2. KeyInv(k)
        BY <1>3, <1>4
      <4> QED
        BY <1>1, <1>2, <1>3, <1>6, <2>1, <3>2, <4>1, <4>2, KeyEmpty
    <3> QED
      BY <3>1, <3>2
  <2>14. TopInv' /\ ArgsInv'
    BY <2>3, <2>5, IdleNext
  <2> QED
    BY <1>2, <2>5, <2>6, <2>7, <2>12, <2>13, <2>14 DEF Parsing, Sound
<1>7. CASE /\ tok \in Words
           /\ cfg_setopt(top.opt, tok)
           /\ goto(IF is_list(top.opt) THEN [top EXCEPT !.state = 4, !.num_values = @ + 1]
                   ELSE [top EXCEPT !.state = 0])
  <2>1. tok \in Words /\ cfg_setopt(k, tok) /\ sets(k, tok)
    BY <1>1, <1>5, <1>7, WordsDiffer
  <2>2. PICK f : /\ goto(f)
                 /\ f = IF is_list(top.opt) THEN [top EXCEPT !.state = 4, !.num_values = @ + 1]
                        ELSE [top EXCEPT !.state = 0]
    BY <1>7
  <2>3. /\ f \in Frames /\ f.sec = top.sec /\ f.opt = k /\ f.args = <<>>
        /\ is_list(k) => f.state = 4 /\ f.num_values > 0
        /\ ~is_list(k) => f.state = 0
    <3>1. CASE is_list(k)
      <4>1. f = [top EXCEPT !.state = 4, !.num_values = @ + 1]
        BY <1>1, <2>2, <3>1
      <4>2. PICK m : m = top.num_values + 1
        OBVIOUS
      <4>3. m \in Nat /\ m > 0
        BY <1>4, <4>2
      <4>4. f = [top EXCEPT !.state = 4, !.num_values = m]
        BY <1>3, <4>1, <4>2 DEF Frames
      <4> QED
        BY <1>1, <1>3, <1>4, <3>1, <4>3, <4>4 DEF Frames, States
    <3>2. CASE ~is_list(k)
      <4>1. f = [top EXCEPT !.state = 0]
        BY <1>1, <2>2, <3>2
      <4> QED
        BY <1>1, <1>3, <1>4, <3>2, <4>1 DEF Frames, States
    <3> QED
      BY <3>1, <3>2
  <2>4. FrameInv(f)
    BY <1>4, <2>3 DEF FrameInv
  <2>5. StackInv' /\ top' = f
    <3>1. goto(f) /\ StackInv /\ f.sec = top.sec
      BY <1>3, <2>2, <2>3
    <3> QED
      BY <2>4, <3>1, GotoFrame
  <2>6. /\ HistoryInv' /\ ValuesInv' /\ LabelsInv' /\ \A j \in Keys : KeyInv(j)'
        /\ k \notin reset'
    BY <1>1, <1>2, <1>4, <2>1, ValueTaken
  <2>7. TopInv'
    BY <2>3, <2>5, <2>6 DEF TopInv
  <2>8. ArgsInv'
    BY <2>3, <2>5 DEF ArgsInv
  <2> QED
    BY <1>2, <2>5, <2>6, <2>7, <2>8 DEF Parsing, Sound
<1> QED
  BY <1>6, <1>7 DEF option_value

\* State 3.
LEMMA ListBegin ==
  ASSUME Parsing, NEW tok \in All, list_begin(tok)
  PROVE  Parsing'
<1>1. PICK k : k = top.opt
  OBVIOUS
<1>2. Read(tok) /\ top.state = 3 /\ legal(3, tok) /\ UNCHANGED <<labels, status>>
  BY ReadsIsRead DEF list_begin
<1>3. /\ StackInv /\ HistoryInv /\ ValuesInv /\ top \in Frames /\ FrameInv(top)
      /\ TopInv /\ LabelsInv /\ \A j \in Keys : KeyInv(j)
  BY TopFacts DEF Parsing, Sound
<1>4. k \in Keys /\ type(k) \in {"INT", "STR"} /\ top.args = <<>> /\ top.num_values = 0
  BY <1>1, <1>2, <1>3 DEF FrameInv, Frames
<1>5. is_list(k)
  BY <1>1, <1>2, <1>3 DEF FrameInv
<1>6. CASE tok = OpenBrace /\ goto([top EXCEPT !.state = 2]) /\ UNCHANGED <<values, reset>>
  <2>1. tok \notin Words
    BY <1>6, WordsDiffer
  <2>2. PICK f : goto(f) /\ f = [top EXCEPT !.state = 2]
    BY <1>6
  <2>3. f \in Frames /\ f.sec = top.sec /\ f.state = 2 /\ f.args = <<>> /\ f.opt = k /\ f.num_values = 0
    BY <1>1, <1>3, <1>4, <2>2 DEF Frames, States
  <2>4. FrameInv(f)
    BY <1>4, <2>3 DEF FrameInv
  <2>5. StackInv' /\ top' = f
    BY <1>3, <2>2, <2>3, <2>4, GotoFrame, Zenon
  <2>6. \A j \in Keys : Pending(j) => Pending(j)'
    BY <1>1, <2>3, <2>5 DEF Pending
  <2>7. HistoryInv' /\ ValuesInv' /\ LabelsInv' /\ \A j \in Keys : KeyInv(j)'
    BY <1>2, <1>6, <2>1, <2>6, QuietToken
  <2>8. Assigned(k)' = Assigned(k)
    BY <1>2, <1>3, <2>1, OtherToken
  <2>9. TopInv'
    BY <1>1, <1>2, <1>3, <1>5, <1>6, <2>3, <2>5, <2>8 DEF TopInv
  <2>10. ArgsInv'
    BY <2>3, <2>5 DEF ArgsInv
  <2> QED
    BY <1>2, <2>5, <2>7, <2>9, <2>10 DEF Parsing, Sound
<1>7. CASE /\ tok \in Words /\ cfg_setopt(top.opt, tok)
           /\ goto([top EXCEPT !.state = 0, !.num_values = @ + 1])
  <2>1. tok \in Words /\ cfg_setopt(k, tok) /\ sets(k, tok)
    BY <1>1, <1>2, <1>7, WordsDiffer DEF legal
  <2>2. PICK f : goto(f) /\ f = [top EXCEPT !.state = 0, !.num_values = @ + 1]
    BY <1>7
  <2>3. f \in Frames /\ f.sec = top.sec /\ f.args = <<>> /\ f.state = 0
    <3>1. f = [top EXCEPT !.state = 0, !.num_values = 1]
      BY <1>3, <1>4, <2>2 DEF Frames
    <3> QED
      BY <1>3, <1>4, <3>1 DEF Frames, States
  <2>4. FrameInv(f)
    BY <2>3 DEF FrameInv
  <2>5. StackInv' /\ top' = f
    BY <1>3, <2>2, <2>3, <2>4, GotoFrame, Zenon
  <2>6. HistoryInv' /\ ValuesInv' /\ LabelsInv' /\ \A j \in Keys : KeyInv(j)'
    BY <1>1, <1>2, <1>4, <2>1, ValueTaken
  <2>7. TopInv' /\ ArgsInv'
    BY <2>3, <2>5, IdleNext
  <2> QED
    BY <1>2, <2>5, <2>6, <2>7 DEF Parsing, Sound
<1> QED
  BY <1>6, <1>7 DEF list_begin

\* State 4.
LEMMA ListSeparator ==
  ASSUME Parsing, NEW tok \in All, list_separator(tok)
  PROVE  Parsing'
<1>1. PICK k : k = top.opt
  OBVIOUS
<1>2. Read(tok) /\ top.state = 4 /\ UNCHANGED <<values, reset, labels, status>>
  BY ReadsIsRead DEF list_separator
<1>3. StackInv /\ HistoryInv /\ top \in Frames /\ FrameInv(top) /\ TopInv
  BY TopFacts DEF Parsing, Sound
<1>4. k \in Keys /\ type(k) \in {"INT", "STR"} /\ top.args = <<>> /\ top.num_values > 0
  BY <1>1, <1>2, <1>3 DEF FrameInv, Frames
<1>5. is_list(k)
  BY <1>1, <1>2, <1>3 DEF FrameInv
<1>6. PICK f : goto(f) /\ f = [top EXCEPT !.state = IF tok = Comma THEN 2 ELSE 0]
  BY DEF list_separator
<1>7. /\ f \in Frames /\ f.sec = top.sec /\ f.state \in {0, 2} /\ f.args = <<>> /\ f.opt = k
      /\ f.num_values = top.num_values
  BY <1>1, <1>3, <1>4, <1>6 DEF Frames, States
<1>8. FrameInv(f)
  BY <1>4, <1>7 DEF FrameInv
<1>9. StackInv' /\ top' = f
  <2>1. goto(f) /\ StackInv /\ f.sec = top.sec
    BY <1>3, <1>6, <1>7
  <2> QED
    BY <1>8, <2>1, GotoFrame
<1>10. \A j \in Keys : ~Pending(j)
  BY <1>2 DEF Pending
<1>11. HistoryInv' /\ ValuesInv' /\ LabelsInv' /\ \A j \in Keys : KeyInv(j)'
  BY <1>2, <1>10, QuietToken
<1>12. k \notin reset'
  BY <1>1, <1>2, <1>3, <1>4, <1>5 DEF TopInv
<1>13. TopInv'
  BY <1>5, <1>7, <1>9, <1>12 DEF TopInv
<1>14. ArgsInv'
  BY <1>7, <1>9 DEF ArgsInv
<1> QED
  BY <1>2, <1>9, <1>11, <1>13, <1>14 DEF Parsing, Sound

\* State 5.
LEMMA SectionBegin ==
  ASSUME Parsing, NEW tok \in All, section_begin(tok)
  PROVE  Parsing'
<1>1. Read(tok) /\ top.state = 5 /\ UNCHANGED <<values, reset, labels, status>>
  BY ReadsIsRead DEF section_begin
<1>2. /\ StackInv /\ top = stack[Len(stack)] /\ top \in Frames /\ FrameInv(top) /\ Len(stack) \in 1 .. 2
      /\ Len(stack) = 1 <=> top.sec = "root"
  BY TopFacts DEF Parsing
<1>3. top.opt \in Keys /\ type(top.opt) = "SEC" /\ top.sec = "root" /\ top.args = <<>>
  BY <1>1, <1>2 DEF FrameInv
<1>4. Len(stack) = 1 /\ stack \in Seq(Frames) /\ top = stack[1]
  BY <1>2, <1>3 DEF StackInv
<1>5. PICK s : s = top.opt[2]
  OBVIOUS
<1>6. s \in DOMAIN Opts /\ s # "root"
  BY <1>3, <1>5, OptionFacts
<1>7. PICK f : f = [top EXCEPT !.state = 0]
  OBVIOUS
<1>8. f \in Frames /\ f.sec = "root" /\ f.state = 0 /\ f.args = <<>>
  BY <1>2, <1>3, <1>7 DEF Frames, States
<1>9. PICK g : g = Frame(s)
  OBVIOUS
<1>10. g \in Frames /\ g.sec = s /\ g.state = 0 /\ g.args = <<>>
  BY <1>6, <1>9 DEF Frame, Frames, States
<1>11. [stack EXCEPT ![Len(stack)].state = 0] = <<f>>
  BY <1>4, <1>7
<1>12. stack' = Append(<<f>>, g)
  BY <1>5, <1>9, <1>11 DEF section_begin
<1>13. stack' \in Seq(Frames) /\ Len(stack') = 2 /\ stack'[1] = f /\ stack'[2] = g
  BY <1>8, <1>10, <1>12
<1>14. FrameInv(f) /\ FrameInv(g)
  BY <1>8, <1>10 DEF FrameInv
<1>15. \A i \in 1 .. Len(stack') : FrameInv(stack[i])'
  <2>1. \A i \in {1, 2} : FrameInv(stack'[i])
    BY <1>13, <1>14
  <2> QED
    BY <1>13, <2>1 DEF FrameInv
<1>16. StackInv'
  BY <1>6, <1>8, <1>10, <1>13, <1>15 DEF StackInv
<1>17. top' = g
  BY <1>13 DEF top, Last
<1>18. TopInv' /\ ArgsInv'
  BY <1>10, <1>17, IdleNext
<1>19. HistoryInv' /\ ValuesInv' /\ LabelsInv' /\ \A j \in Keys : KeyInv(j)'
  BY <1>1, Idle, QuietToken
<1> QED
  BY <1>1, <1>16, <1>18, <1>19 DEF Parsing, Sound

\* State 7.
LEMMA CallBegin ==
  ASSUME Parsing, NEW tok \in All, call_begin(tok)
  PROVE  Parsing'
<1>1. Read(tok) /\ top.state = 7 /\ UNCHANGED <<values, reset, labels, status>>
  BY ReadsIsRead DEF call_begin
<1>2. StackInv /\ top \in Frames /\ FrameInv(top)
  BY TopFacts DEF Parsing
<1>3. top.args = <<>> /\ top.opt \in Keys /\ type(top.opt) = "FUNC"
  BY <1>1, <1>2 DEF FrameInv
<1>4. PICK f : goto(f) /\ f = [top EXCEPT !.state = 8]
  BY DEF call_begin
<1>5. f \in Frames /\ f.sec = top.sec /\ f.state = 8 /\ f.args = <<>> /\ f.opt = top.opt
  BY <1>2, <1>3, <1>4 DEF Frames, States
<1>6. FrameInv(f)
  BY <1>3, <1>5 DEF FrameInv
<1>7. StackInv' /\ top' = f
  BY <1>2, <1>4, <1>5, <1>6, GotoFrame, Zenon
<1>8. HistoryInv' /\ ValuesInv' /\ LabelsInv' /\ \A j \in Keys : KeyInv(j)'
  BY <1>1, Idle, QuietToken
<1>9. TopInv'
  BY <1>5, <1>7 DEF TopInv
<1>10. ArgsInv'
  BY <1>5, <1>7 DEF ArgsInv
<1> QED
  BY <1>1, <1>7, <1>8, <1>9, <1>10 DEF Parsing, Sound

\* States 8 and 9.
LEMMA CallArgument ==
  ASSUME Parsing, NEW tok \in All, call_argument(tok)
  PROVE  Parsing'
<1>1. PICK n, a : n = Len(file) + 1 /\ a = top.args
  OBVIOUS
<1>2. Read(tok) /\ UNCHANGED <<values, reset, status>>
  BY ReadsIsRead DEF call_argument
<1>3. /\ top.state = 8 => tok \in Words \/ (tok = CloseParen /\ callable(top.args))
      /\ top.state = 9 => tok = Comma \/ (tok = CloseParen /\ callable(top.args))
      /\ top.state \in {8, 9}
  <2>1. CASE reads(8, tok) /\ legal(8, tok)
    BY <2>1, ReadsIsRead DEF legal
  <2>2. CASE reads(9, tok) /\ legal(9, tok)
    BY <2>2, ReadsIsRead DEF legal
  <2> QED
    BY <2>1, <2>2 DEF call_argument
<1>4. /\ StackInv /\ HistoryInv /\ ValuesInv /\ top \in Frames /\ FrameInv(top)
      /\ ArgsInv /\ LabelsInv /\ \A j \in Keys : KeyInv(j)
  BY TopFacts DEF Parsing, Sound
<1>5. a \in Seq(Words) /\ top.opt \in Keys /\ type(top.opt) = "FUNC"
  BY <1>1, <1>3, <1>4 DEF FrameInv, Frames
<1>6. \A j \in Keys : ~Pending(j)
  BY <1>3 DEF Pending
<1>7. /\ HistoryInv' /\ n \in Nat /\ n > 0 /\ Len(file') = n /\ Len(file) = n - 1 /\ file'[n] = tok
      /\ \A p \in 1 .. n - 1 : file'[p] = file[p]
  BY <1>1, <1>2, <1>4, HistoryGrows
<1>8. CASE tok = CloseParen /\ labels' = label_func(top.args) /\ goto([top EXCEPT !.state = 0, !.args = <<>>])
  <2>1. tok \notin Words /\ tok # Comma
    BY <1>8, WordsDiffer, TokensDiffer
  <2>2. callable(top.args)
    BY <1>3, <2>1
  <2>3. LabelsInv'
    BY <1>2, <1>3, <1>4, <1>8, <2>2, LabelsCalled
  <2>4. PICK f : goto(f) /\ f = [top EXCEPT !.state = 0, !.args = <<>>]
    BY <1>8
  <2>5. f \in Frames /\ f.sec = top.sec /\ f.state = 0 /\ f.args = <<>>
    <3>1. PICK e : e = <<>>
      OBVIOUS
    <3>2. e \in Seq(Words) /\ f = [top EXCEPT !.state = 0, !.args = e]
      BY <2>4, <3>1
    <3>3. f \in Frames /\ f.sec = top.sec /\ f.state = 0 /\ f.args = e
      BY <1>4, <3>2 DEF Frames, States
    <3> QED
      BY <3>1, <3>3
  <2>6. FrameInv(f)
    BY <2>5 DEF FrameInv
  <2>7. StackInv' /\ top' = f
    BY <1>4, <2>4, <2>5, <2>6, GotoFrame, Zenon
  <2>8. TopInv' /\ ArgsInv'
    BY <2>5, <2>7, IdleNext
  <2>9. ASSUME NEW j \in Keys
        PROVE  KeyInv(j)'
    <3>1. values'[j] = values[j] /\ (j \in reset' <=> j \in reset) /\ KeyInv(j) /\ ~Pending(j)
      BY <1>2, <1>4, <1>6
    <3> QED
      BY <1>2, <1>3, <1>4, <3>1, KeyKept
  <2>10. ValuesInv'
    BY <1>2, <1>4 DEF ValuesInv
  <2> QED
    BY <1>2, <1>7, <2>3, <2>7, <2>8, <2>9, <2>10 DEF Parsing, Sound
<1>9. CASE tok = Comma /\ goto([top EXCEPT !.state = 8]) /\ UNCHANGED labels
  <2>1. tok \notin Words /\ tok # CloseParen
    BY <1>9, WordsDiffer, TokensDiffer
  <2>2. top.state = 9
    BY <1>3, <2>1
  <2>3. PICK f : goto(f) /\ f = [top EXCEPT !.state = 8]
    BY <1>9
  <2>4. f \in Frames /\ f.sec = top.sec /\ f.state = 8 /\ f.args = a /\ f.opt = top.opt
    BY <1>1, <1>4, <2>3 DEF Frames, States
  <2>5. FrameInv(f)
    BY <1>5, <2>4 DEF FrameInv
  <2>6. StackInv' /\ top' = f
    BY <1>4, <2>3, <2>4, <2>5, GotoFrame, Zenon
  <2>7. LastArgument = n - 1 /\ LastArgument' = n - 1
    BY <1>7, <2>2, <2>4, <2>6 DEF LastArgument
  <2>8. ASSUME NEW j \in 1 .. Len(a), NEW q, q = n - 1 - 2 * (Len(a) - j)
        PROVE  q \in 1 .. n /\ a[j] = file'[q]
    <3>1. q \in 1 .. n - 1 /\ a[j] = file[q]
      BY <1>1, <1>3, <1>4, <1>7, <2>7, <2>8 DEF ArgsInv
    <3> QED
      BY <1>7, <3>1
  <2>9. ArgsInv'
    BY <1>7, <2>4, <2>6, <2>7, <2>8 DEF ArgsInv
  <2>10. TopInv'
    BY <2>4, <2>6 DEF TopInv
  <2>11. HistoryInv' /\ ValuesInv' /\ LabelsInv' /\ \A j \in Keys : KeyInv(j)'
    BY <1>2, <1>6, <1>9, <2>1, <2>2, QuietToken
  <2> QED
    BY <1>2, <2>6, <2>9, <2>10, <2>11 DEF Parsing, Sound
<1>10. CASE tok \in Words /\ goto([top EXCEPT !.state = 9, !.args = Append(@, tok)]) /\ UNCHANGED labels
  <2>1. tok # Comma /\ tok # CloseParen
    BY <1>10, WordsDiffer
  <2>2. top.state = 8
    BY <1>3, <2>1, Zenon
  <2>3. PICK f : goto(f) /\ f = [top EXCEPT !.state = 9, !.args = Append(@, tok)]
    BY <1>10
  <2>4. PICK b : b = Append(a, tok)
    OBVIOUS
  <2>5. b \in Seq(Words) /\ Len(a) \in Nat /\ Len(b) = Len(a) + 1 /\ b[Len(a) + 1] = tok
        /\ \A j \in 1 .. Len(a) : b[j] = a[j]
    BY <1>5, <1>10, <2>4
  <2>6. f = [top EXCEPT !.state = 9, !.args = b]
    BY <1>1, <1>4, <2>3, <2>4 DEF Frames
  <2>7. f \in Frames /\ f.sec = top.sec /\ f.state = 9 /\ f.args = b /\ f.opt = top.opt
    BY <1>4, <2>5, <2>6 DEF Frames, States
  <2>8. FrameInv(f)
    BY <1>5, <2>7 DEF FrameInv
  <2>9. StackInv' /\ top' = f
    <3>1. goto(f) /\ StackInv /\ f.sec = top.sec
      BY <1>4, <2>3, <2>7
    <3> QED
      BY <2>8, <3>1, GotoFrame
  <2>10. LastArgument = n - 2 /\ LastArgument' = n
    BY <1>7, <2>2, <2>7, <2>9 DEF LastArgument
  <2>11. ASSUME NEW j \in 1 .. Len(b), NEW q, q = n - 2 * (Len(b) - j)
         PROVE  q \in 1 .. n /\ b[j] = file'[q]
    <3>1. CASE j = Len(b)
      <4>1. q = n
        BY <1>7, <2>5, <2>11, <3>1
      <4> QED
        BY <1>7, <2>5, <3>1, <4>1
    <3>2. CASE j # Len(b)
      <4>1. j \in 1 .. Len(a) /\ q = n - 2 - 2 * (Len(a) - j)
        BY <1>7, <2>5, <2>11, <3>2
      <4>2. q \in 1 .. n - 1 /\ a[j] = file[q]
        BY <1>1, <1>3, <1>4, <1>7, <2>10, <4>1 DEF ArgsInv
      <4> QED
        BY <1>7, <2>5, <4>1, <4>2
    <3> QED
      BY <3>1, <3>2
  <2>12. ArgsInv'
    BY <1>7, <2>7, <2>9, <2>10, <2>11 DEF ArgsInv
  <2>13. TopInv'
    BY <2>7, <2>9 DEF TopInv
  <2>14. HistoryInv' /\ ValuesInv' /\ LabelsInv' /\ \A j \in Keys : KeyInv(j)'
    BY <1>2, <1>6, <1>10, <2>1, <2>2, QuietToken
  <2> QED
    BY <1>2, <2>9, <2>12, <2>13, <2>14 DEF Parsing, Sound
<1> QED
  BY <1>8, <1>9, <1>10 DEF call_argument

\* Nothing the invariant is about changes.
LEMMA SoundKept ==
  ASSUME UNCHANGED <<file, seen, stack, values, reset, labels>>
  PROVE  /\ StackInv => StackInv' /\ top' = top
         /\ HistoryInv => HistoryInv'
         /\ ValuesInv => ValuesInv'
         /\ Sound => Sound'
         /\ \A k : Missing(k)' <=> Missing(k)
<1>1. top' = top /\ Len(stack)' = Len(stack)
  BY DEF top
<1>2. StackInv => StackInv'
  BY DEF StackInv, FrameInv
<1>3. HistoryInv => HistoryInv'
  BY DEF HistoryInv
<1>4. ValuesInv => ValuesInv'
  BY DEF ValuesInv
<1>5. ASSUME NEW k
      PROVE  Assigned(k)' = Assigned(k) /\ Given(k)' = Given(k) /\ CallsAt' = CallsAt
  BY DEF Assigned, Given, ValuesAt, CallsAt
<1>6. \A k : Missing(k)' <=> Missing(k)
  BY <1>5 DEF Missing
<1>7. ASSUME NEW k, KeyInv(k)
      PROVE  KeyInv(k)'
  <2>1. HasItsValues(k) => HasItsValues(k)'
    BY <1>5, HasKept
  <2>2. Pending(k)' <=> Pending(k)
    BY <1>1 DEF Pending
  <2> QED
    BY <1>5, <1>7, <2>1, <2>2, Zenon DEF KeyInv
<1>8. TopInv => TopInv'
  BY <1>1, <1>5, Zenon DEF TopInv
<1>9. ArgsInv => ArgsInv'
  BY <1>1 DEF ArgsInv, LastArgument
<1>10. LabelsInv => LabelsInv'
  BY <1>5 DEF LabelsInv
<1> QED
  BY <1>1, <1>2, <1>3, <1>4, <1>6, <1>7, <1>8, <1>9, <1>10 DEF Sound

\* The end of the file, and a token that is not legal.
LEMMA Ends ==
  ASSUME IInv, status = "parsing", NEW tok \in All, Read(tok), UNCHANGED <<stack, values, reset, labels>>,
         status' \in {"parsed", "parse_error"},
         status' = "parsed" => top.state = 0
  PROVE  IInv'
<1>1. Parsing
  BY DEF IInv, Parsing
<1>2. StackInv' /\ top' = top
  BY <1>1 DEF Parsing, StackInv, FrameInv, top
<1>3. HistoryInv'
  BY <1>1, HistoryGrows DEF Parsing
<1>4. ValuesInv'
  BY <1>1 DEF Parsing, ValuesInv
<1>5. StatusInv'
  BY <1>2 DEF StatusInv, Statuses
<1>6. SettingsAreOfTheFile'
  BY DEF SettingsAreOfTheFile
<1>7. ASSUME status' # "parse_error"
      PROVE  Sound'
  <2>1. top.state = 0 /\ top'.state = 0
    BY <1>2, <1>7
  <2>2. TopInv' /\ ArgsInv'
    BY <2>1, IdleNext
  <2>3. LabelsInv' /\ \A k \in Keys : KeyInv(k)'
    BY <1>1, <2>1, Idle, QuietToken
  <2> QED
    BY <2>2, <2>3 DEF Sound
<1> QED
  BY <1>2, <1>3, <1>4, <1>5, <1>6, <1>7 DEF IInv

\* A step of the parser that meets no error.
LEMMA GoesOn ==
  ASSUME IInv, Parsing', UNCHANGED cfg
  PROVE  IInv'
<1>1. StatusInv'
  BY DEF Parsing, StatusInv, Statuses
<1>2. SettingsAreOfTheFile'
  BY DEF Parsing, SettingsAreOfTheFile
<1> QED
  BY <1>1, <1>2 DEF Parsing, IInv

-----------------------------------------------------------------------------
(***************************************************************************)
(* load_cfg().                                                             *)
(***************************************************************************)

\* Between statements a string is a null pointer if and only if it is missing.
LEMMA NullIsMissing ==
  ASSUME HistoryInv, ValuesInv, NEW k \in Keys, KeyInv(k), ~Pending(k)
  PROVE  is_null(k) <=> Missing(k)
<1>1. SUFFICES ASSUME ~is_list(k)
               PROVE  values[k] = <<>> <=> opt_of(k).default = <<>> /\ Assigned(k) = {}
  BY DEF is_null, Missing
<1>2. PICK d, v : d = opt_of(k).default /\ v = values[k]
  OBVIOUS
<1>3. d \in Seq(Scalars(k)) /\ v \in Seq(Scalars(k))
  BY <1>2, OptionFacts DEF ValuesInv
<1>4. CASE Assigned(k) = {}
  <2>1. Given(k) = {} /\ HasItsValues(k)
    BY <1>1, <1>4, Zenon DEF KeyInv
  <2>2. Base(k) = d /\ Cardinality(Given(k)) = 0
    BY <1>2, <1>4, <2>1, FS_EmptySet DEF Base
  <2>3. Len(v) = Len(d) + 0
    BY <1>2, <2>1, <2>2 DEF HasItsValues
  <2>4. Len(v) = Len(d)
    BY <1>3, <2>3
  <2>5. v = <<>> <=> d = <<>>
    BY <1>3, <2>4, EmptySeq, Zenon
  <2> QED
    BY <1>2, <1>4, <2>5, Zenon
<1>5. CASE Assigned(k) # {}
  <2>1. Given(k) # {}
    BY <1>1, <1>5, Zenon DEF KeyInv
  <2>2. HasItsValues(k) /\ Base(k) = <<>>
    BY <1>5, <2>1, Zenon DEF KeyInv, Base
  <2>3. Cardinality(Given(k)) \in Nat /\ Cardinality(Given(k)) # 0
    <3>1. DOMAIN seen = 1 .. Len(seen) /\ Len(seen) \in Nat
      BY DEF HistoryInv
    <3>2. IsFiniteSet(DOMAIN seen)
      BY <3>1, FS_Interval
    <3>3. Given(k) \in SUBSET DOMAIN seen
      BY DEF Given, ValuesAt
    <3>4. IsFiniteSet(Given(k))
      BY <3>2, <3>3, FS_Subset, Zenon
    <3> QED
      BY <2>1, <3>4, FS_EmptySet, FS_CardinalityType
  <2>4. Len(v) = 0 + Cardinality(Given(k))
    BY <1>2, <2>2 DEF HasItsValues
  <2>5. v # <<>>
    BY <1>3, <2>3, <2>4
  <2> QED
    BY <1>2, <1>5, <2>5, Zenon
<1> QED
  BY <1>4, <1>5

\* A number below the modulus.
LEMMA SmallMod ==
  ASSUME NEW m \in Nat, NEW a \in Nat, a < m
  PROVE  a % m = a
OBVIOUS

\* The log level is kept within its bounds.
LEMMA LogLevelBounds ==
  ASSUME ValuesInv, NEW k, k = <<"daemon", "log_level">>
  PROVE  /\ log_level \in L_ERR .. L_DBG
         /\ values[k] # <<>> /\ values[k][1] \in L_ERR .. L_DBG => log_level = values[k][1]
<1>1. k \in Keys /\ type(k) = "INT"
  BY OptsAssumption
<1>2. values[k] \in Seq(Int)
  BY <1>1 DEF ValuesInv, Scalars
<1>3. PICK l : l = cfg_getint(k)
  OBVIOUS
<1>4. l \in Int /\ (values[k] # <<>> => l = values[k][1])
  <2>1. CASE values[k] = <<>>
    BY <1>3, <2>1 DEF cfg_getint
  <2>2. CASE values[k] # <<>>
    <3>1. values[k][1] \in Int
      BY <1>2, <2>2
    <3> QED
      BY <1>3, <2>2, <3>1 DEF cfg_getint
  <2> QED
    BY <2>1, <2>2
<1>7. PICK i : i = to_int(l)
  OBVIOUS
<1>8. i \in Int /\ (l \in 0 .. 3 => i = l)
  <2>1. PICK u : u = l % UIntMod
    OBVIOUS
  <2>2. UIntMod \in Nat /\ UIntMod > 6
    BY WordsAssumption, LevelAssumption DEF L_DBG
  <2>3. u \in Int /\ (l \in 0 .. 3 => u = l)
    <3>1. u \in Int
      BY <1>4, <2>1, <2>2
    <3>2. l \in 0 .. 3 => l % UIntMod = l
      BY <2>2, SmallMod
    <3> QED
      BY <2>1, <3>1, <3>2
  <2>4. i = IF 2 * u < UIntMod THEN u ELSE u - UIntMod
    BY <1>7, <2>1 DEF to_int
  <2> QED
    BY <2>2, <2>3, <2>4
<1>5. log_level = IF i < L_ERR THEN L_ERR ELSE IF i > L_DBG THEN L_DBG ELSE i
  BY <1>3, <1>7 DEF log_level
<1>6. log_level \in L_ERR .. L_DBG /\ (l \in L_ERR .. L_DBG => log_level = l)
  BY <1>5, <1>8 DEF L_ERR, L_DBG
<1> QED
  BY <1>4, <1>6, Zenon

\* The strings of a section are copied.
LEMMA StringsCopied ==
  ASSUME ValuesInv, NEW s \in DOMAIN Opts, NEW n \in DOMAIN Opts[s],
         type(<<s, n>>) = "STR", ~is_list(<<s, n>>), ~is_null(<<s, n>>)
  PROVE  values[<<s, n>>] = <<of_section(s)[n]>>
<1>1. PICK k : k = <<s, n>>
  OBVIOUS
<1>2. k \in Keys
  BY <1>1 DEF Keys
<1>3. values[k] \in Seq(Scalars(k)) /\ Len(values[k]) <= 1
  BY <1>1, <1>2, Zenon DEF ValuesInv
<1>4. values[k] # <<>>
  BY <1>1, Zenon DEF is_null
<1>5. PICK v : v = values[k]
  OBVIOUS
<1>6. v \in Seq(Scalars(k)) /\ Len(v) <= 1 /\ v # <<>>
  BY <1>3, <1>4, <1>5
<1>7. Len(v) = 1
  <2>1. PICK m : m = Len(v)
    OBVIOUS
  <2>2. m # 0 /\ m <= 1
    BY <1>6, <2>1, EmptySeq, Zenon
  <2>3. m \in Nat
    BY <1>6, <2>1
  <2>4. m = 1
    BY <2>2, <2>3
  <2> QED
    BY <2>1, <2>4
<1>8. v = <<v[1]>>
  BY <1>6, <1>7
<1>9. of_section(s)[n] = cfg_getstr(k)
  BY <1>1 DEF of_section
<1> QED
  BY <1>1, <1>5, <1>8, <1>9 DEF cfg_getstr

\* load_cfg() copies the options, or crashes.
LEMMA LoadCfg ==
  ASSUME IInv, load_cfg
  PROVE  IInv'
<1>1. status = "parsed" /\ UNCHANGED <<file, seen, stack, values, reset, labels>>
  BY DEF load_cfg
<1>2. StackInv /\ HistoryInv /\ ValuesInv /\ Sound /\ top.state = 0
  BY <1>1 DEF IInv, StatusInv
<1>3. StackInv' /\ top' = top /\ HistoryInv' /\ ValuesInv' /\ Sound' /\ \A k : Missing(k)' <=> Missing(k)
  BY <1>1, <1>2, SoundKept
<1>4. \A k \in Keys : KeyInv(k) /\ ~Pending(k)
  BY <1>2, Idle DEF Sound
<1>5. \A k \in Keys : is_null(k) <=> Missing(k)
  BY <1>2, <1>4, NullIsMissing
<1>6. status' \in {"loaded", "crashed"}
  BY DEF load_cfg
<1>7. StatusInv'
  BY <1>2, <1>3, <1>6 DEF StatusInv, Statuses
<1>8. CASE \E k \in Keys : is_null(k)
  <2>1. status' = "crashed"
    BY <1>8 DEF load_cfg
  <2>2. \E k \in Keys : Missing(k)'
    BY <1>3, <1>5, <1>8, Zenon
  <2>3. SettingsAreOfTheFile'
    BY <2>1, <2>2 DEF SettingsAreOfTheFile
  <2> QED
    BY <1>3, <1>7, <2>3 DEF IInv
<1>9. CASE \A k \in Keys : ~is_null(k)
  <2>1. /\ status' = "loaded"
        /\ cfg' = [bind_urls |-> bind_urls, log_level |-> log_level,
                   db |-> of_section("db"), sip |-> of_section("sip"),
                   prometheus |-> of_section("prometheus")]
    BY <1>9 DEF load_cfg
  <2>2. cfg'.bind_urls = bind_urls /\ cfg'.log_level = log_level /\ cfg'.db = of_section("db")
    BY <2>1
  <2>3. \A k \in Keys : ~Missing(k)'
    BY <1>3, <1>5, <1>9, Zenon
  <2>4. cfg'.bind_urls = values'[<<"daemon", "listen">>]
    BY <1>1, <2>2 DEF bind_urls
  <2>5. PICK k : k = <<"daemon", "log_level">>
    OBVIOUS
  <2>6. /\ cfg'.log_level \in L_ERR .. L_DBG
        /\ values'[k] # <<>> /\ values'[k][1] \in L_ERR .. L_DBG => cfg'.log_level = values'[k][1]
    BY <1>1, <1>2, <2>2, <2>5, LogLevelBounds
  <2>7. ASSUME NEW n \in DOMAIN Opts["db"], type(<<"db", n>>) = "STR", ~is_list(<<"db", n>>)
        PROVE  values'[<<"db", n>>] = <<cfg'.db[n]>>
    <3>1. "db" \in DOMAIN Opts
      BY OptsAssumption
    <3>2. <<"db", n>> \in Keys
      BY <3>1 DEF Keys
    <3>3. ~is_null(<<"db", n>>)
      BY <1>9, <3>2
    <3>4. values[<<"db", n>>] = <<of_section("db")[n]>>
      BY <1>2, <2>7, <3>1, <3>3, StringsCopied
    <3> QED
      BY <1>1, <2>2, <3>4
  <2>8. SettingsAreOfTheFile'
    BY <2>1, <2>3, <2>4, <2>5, <2>6, <2>7 DEF SettingsAreOfTheFile
  <2> QED
    BY <1>3, <1>7, <2>8 DEF IInv
<1> QED
  BY <1>8, <1>9

-----------------------------------------------------------------------------
(***************************************************************************)
(* The theorem.                                                            *)
(***************************************************************************)

\* Before the first token every option has its default.
LEMMA InitHolds ==
  ASSUME Init
  PROVE  IInv
<1>1. PICK f : f = Frame("root")
  OBVIOUS
<1>2. f \in Frames /\ f.sec = "root" /\ f.state = 0 /\ f.args = <<>>
  BY <1>1, OptsAssumption DEF Frame, Frames, States
<1>3. FrameInv(f)
  BY <1>2 DEF FrameInv
<1>4. stack = <<f>>
  BY <1>1 DEF Init
<1>5. StackInv /\ top = f
  BY <1>2, <1>3, <1>4 DEF StackInv, top, Last
<1>6. HistoryInv /\ DOMAIN seen = {}
  BY DEF Init, HistoryInv
<1>7. ValuesInv
  <2>1. values = [k \in Keys |-> opt_of(k).default] /\ reset \subseteq Keys
    BY DEF Init, cfg_init_defaults
  <2>2. ASSUME NEW k \in Keys
        PROVE  values[k] \in Seq(Scalars(k)) /\ (~is_list(k) => Len(values[k]) <= 1)
    BY <2>1, OptionFacts, Zenon
  <2> QED
    BY <2>1, <2>2 DEF ValuesInv
<1>8. TopInv /\ ArgsInv
  BY <1>2, <1>5, Idle
<1>9. LabelsInv
  <2>1. CallsAt = {} /\ labels = <<>>
    BY <1>6 DEF CallsAt, Init
  <2> QED
    BY <2>1 DEF LabelsInv
<1>10. ASSUME NEW k \in Keys
       PROVE  KeyInv(k)
  <2>1. Assigned(k) = {} /\ Given(k) = {}
    BY <1>6 DEF Assigned, Given, ValuesAt
  <2>2. Base(k) = opt_of(k).default /\ values[k] = opt_of(k).default /\ Cardinality(Given(k)) = 0
    BY <2>1, FS_EmptySet DEF Base, Init, cfg_init_defaults
  <2>3. Len(values[k]) \in Nat
    BY <1>7 DEF ValuesInv
  <2>4. HasItsValues(k)
    BY <2>1, <2>2, <2>3 DEF HasItsValues
  <2> QED
    BY <2>1, <2>4, Zenon DEF KeyInv
<1>11. StatusInv /\ SettingsAreOfTheFile
  BY DEF Init, StatusInv, Statuses, SettingsAreOfTheFile
<1> QED
  BY <1>5, <1>6, <1>7, <1>8, <1>9, <1>10, <1>11 DEF IInv, Sound

\* Every step keeps the invariant.
LEMMA NextHolds ==
  ASSUME IInv, [Next]_vars
  PROVE  IInv'
<1>1. CASE UNCHANGED vars
  <2>1. UNCHANGED <<file, seen, stack, values, reset, labels>> /\ status' = status /\ cfg' = cfg
    BY <1>1 DEF vars
  <2>2. StackInv' /\ top' = top /\ HistoryInv' /\ ValuesInv' /\ (Sound => Sound') /\ \A k : Missing(k)' <=> Missing(k)
    BY <2>1, SoundKept DEF IInv
  <2>3. StatusInv'
    BY <2>1, <2>2 DEF IInv, StatusInv
  <2>4. SettingsAreOfTheFile'
    BY <2>1, <2>2 DEF IInv, SettingsAreOfTheFile
  <2> QED
    BY <2>1, <2>2, <2>3, <2>4 DEF IInv
<1>2. CASE file_error
  <2>1. UNCHANGED <<file, seen, stack, values, reset, labels>> /\ status = "parsing" /\ status' = "file_error"
    BY <1>2 DEF file_error
  <2>2. StackInv' /\ HistoryInv' /\ ValuesInv' /\ Sound'
    BY <2>1, SoundKept DEF IInv
  <2>3. StatusInv' /\ SettingsAreOfTheFile'
    BY <2>1 DEF StatusInv, Statuses, SettingsAreOfTheFile
  <2> QED
    BY <2>2, <2>3 DEF IInv
<1>3. ASSUME NEW tok \in Tokens[top.state],
             \/ option_name(tok) \/ equal_sign(tok) \/ option_value(tok)
             \/ list_begin(tok) \/ list_separator(tok) \/ section_begin(tok)
             \/ call_begin(tok) \/ call_argument(tok)
             \/ unexpected(top.state, tok)
      PROVE  IInv'
  <2>1. tok \in All
    <3>1. top.state \in 0 .. 9
      BY TopFacts DEF IInv, Frames, States
    <3>2. top.state \in DOMAIN Tokens
      BY <3>1, WordsAssumption
    <3> QED
      BY <3>2, WordsAssumption DEF All
  <2>2. status = "parsing" /\ cfg' = cfg /\ Read(tok)
    BY <1>3, ReadsIsRead DEF option_name, equal_sign, option_value, list_begin, list_separator, section_begin,
         call_begin, call_argument, unexpected
  <2>3. Parsing
    BY <2>2 DEF IInv, Parsing
  <2>4. CASE unexpected(top.state, tok)
    <3>1. status' = "parse_error" /\ UNCHANGED <<stack, values, reset, labels>>
      BY <2>4 DEF unexpected
    <3> QED
      BY <2>1, <2>2, <3>1, Ends
  <2>5. CASE ~unexpected(top.state, tok)
    <3>1. Parsing'
      BY <1>3, <2>1, <2>3, <2>5, OptionName, EqualSign, OptionValue, ListBegin, ListSeparator, SectionBegin,
         CallBegin, CallArgument
    <3> QED
      BY <2>2, <3>1, GoesOn
  <2> QED
    BY <2>4, <2>5
<1>4. CASE end_of_file
  <2>1. Read("EOF") /\ status = "parsing" /\ UNCHANGED <<stack, values, reset, labels>>
    BY <1>4, ReadsIsRead DEF end_of_file
  <2>2. status' = IF top.state = 0 THEN "parsed" ELSE "parse_error"
    BY <1>4 DEF end_of_file, may_end
  <2>3. "EOF" \in All
    BY Zenon DEF All
  <2> QED
    BY <2>1, <2>2, <2>3, Ends
<1>5. CASE load_cfg
  BY <1>5, LoadCfg
<1> QED
  BY <1>1, <1>2, <1>3, <1>4, <1>5 DEF Next

\* The invariant has what is claimed.
LEMMA InvariantSuffices ==
  ASSUME IInv
  PROVE  ConfigOfTheFile
<1>1. TypeOK
  <2>1. Len(seen) = Len(file) /\ status \in Statuses
    BY DEF IInv, HistoryInv, StatusInv
  <2>2. Len(stack) \in 1 .. 2 /\ stack[1].sec = "root"
    BY DEF IInv, StackInv
  <2>3. \A i \in DOMAIN stack : stack[i].opt # <<>> => stack[i].opt \in Keys
    <3> SUFFICES ASSUME NEW i \in DOMAIN stack, stack[i].opt # <<>>
                 PROVE  stack[i].opt \in Keys
      OBVIOUS
    <3>1. stack[i] \in Frames
      BY DEF IInv, StackInv
    <3>2. stack[i].opt \in Keys \union {<<>>}
      BY <3>1 DEF Frames
    <3> QED
      BY <3>2, Zenon
  <2>4. /\ reset \subseteq Keys
        /\ \A k \in Keys : values[k] \in Seq(Scalars(k)) /\ (~is_list(k) => Len(values[k]) <= 1)
    BY DEF IInv, ValuesInv
  <2> QED
    BY <2>1, <2>2, <2>3, <2>4, Zenon DEF TypeOK
<1>2. ASSUME Between
      PROVE  Sound /\ \A k \in Keys : ~Pending(k)
  <2>1. status # "parse_error" /\ top.state = 0
    BY <1>2 DEF Between, IInv, StatusInv
  <2> QED
    BY <2>1, Idle DEF IInv
<1>3. LastAssignmentWins
  <2> SUFFICES ASSUME Between, NEW k \in Keys
               PROVE  HasItsValues(k)
    BY DEF LastAssignmentWins
  <2>1. KeyInv(k) /\ ~Pending(k)
    BY <1>2 DEF Sound
  <2> QED
    BY <2>1, HasNothing, Zenon DEF KeyInv
<1>4. FirstLabelsKept
  <2> SUFFICES ASSUME Between
               PROVE  LabelsInv
    <3>1. ASSUME LabelsInv, NEW p \in CallsAt
          PROVE  \E b \in {p - 1, p - 2} : seen[p].args = <<file[b - 2], file[b]>>
      BY <3>1 DEF LabelsInv
    <3> QED
      BY <3>1, Zenon DEF FirstLabelsKept, LabelsInv
  <2> QED
    BY <1>2 DEF Sound
<1>5. SettingsAreOfTheFile
  BY DEF IInv
<1> QED
  BY <1>1, <1>3, <1>4, <1>5 DEF ConfigOfTheFile

\* load_cfg(), cfg_parse_internal(), cfg_setopt() and label_func(): whatever
\* the file is, the options have what it last gave them or their defaults, the
\* settings are taken from them or a missing string ends the process, and the
\* first label of each name is kept.
THEOREM ConfigIsOfTheFile == Spec => []ConfigOfTheFile
<1>1. Init => IInv
  BY InitHolds
<1>2. IInv /\ [Next]_vars => IInv'
  BY NextHolds
<1>3. IInv => ConfigOfTheFile
  BY InvariantSuffices
<1> QED
  BY <1>1, <1>2, <1>3, PTL DEF Spec
=============================================================================
