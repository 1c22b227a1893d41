----------------------------- MODULE JsonForest -----------------------------
(***************************************************************************)
(* What cJSON's items promise: a forest whose items have ordered lists of  *)
(* children.  One call adds a tree, moves a tree to a place in a list or   *)
(* out of one, or frees whole trees; it touches no other list.             *)
(***************************************************************************)
EXTENDS Integers, SequencesExt

CONSTANT Node

VARIABLES
  kids,  \* the list of every item that exists
  roots  \* the items in no list

Exists == DOMAIN kids

RECURSIVE Tree(_, _)

\* An item with all below it.
Tree(k, n) == {n} \union UNION {Tree(k, c) : c \in Range(k[n])}

\* What is left when trees are gone.
Without(k, gone) == [n \in DOMAIN k \ gone |-> k[n]]

Init ==
  /\ kids = << >>
  /\ roots = {}

\* A new tree, of items that did not exist.
Grow ==
  \E new \in SUBSET (Node \ Exists) \ {{}}, root \in Node :
    /\ DOMAIN kids' = Exists \union new
    /\ Without(kids', new) = kids
    /\ root \in new
    /\ Tree(kids', root) = new
    /\ roots' = roots \union {root}

\* A new item at the end of a list.
GrowIn ==
  \E list \in Exists, new \in Node \ Exists :
    /\ kids' = [n \in Exists \union {new} |->
                  IF n = new THEN <<>> ELSE IF n = list THEN Append(kids[n], new) ELSE kids[n]]
    /\ UNCHANGED roots

\* A tree put at a place of a list that is not in it.
Insert ==
  \E list \in Exists, tree \in roots :
    /\ list \notin Tree(kids, tree)
    /\ \E j \in 1 .. Len(kids[list]) + 1 : kids' = [kids EXCEPT ![list] = InsertAt(@, j, tree)]
    /\ roots' = roots \ {tree}

\* A tree taken out of a list, to keep or to free.
TakeOut ==
  \E list \in Exists : \E j \in DOMAIN kids[list] :
    LET tree == kids[list][j]
        taken == [kids EXCEPT ![list] = RemoveAt(@, j)]
    IN \/ kids' = taken /\ roots' = roots \union {tree}
       \/ kids' = Without(taken, Tree(kids, tree)) /\ UNCHANGED roots

\* A tree put in the place of one that is freed.
Replace ==
  \E list \in Exists, tree \in roots :
    /\ list \notin Tree(kids, tree)
    /\ \E j \in DOMAIN kids[list] :
         kids' = Without([kids EXCEPT ![list][j] = tree], Tree(kids, kids[list][j]))
    /\ roots' = roots \ {tree}

Free ==
  \E tree \in roots :
    /\ kids' = Without(kids, Tree(kids, tree))
    /\ roots' = roots \ {tree}

Next == Grow \/ GrowIn \/ Insert \/ TakeOut \/ Replace \/ Free

Spec == Init /\ [][Next]_<<kids, roots>>

=============================================================================
