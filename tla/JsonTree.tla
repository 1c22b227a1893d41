------------------------------ MODULE JsonTree ------------------------------
(***************************************************************************)
(* cJSON's items: how they are allocated, linked, shared, copied, compared *)
(* and freed.                                                              *)
(*                                                                         *)
(* The memory is one value m, which every operation of the library takes   *)
(* and gives back, so that a handler that calls others is one step.  The   *)
(* caller uses the library as it is meant to: it adds an item it holds,    *)
(* not one that has an owner, never changes a list through a reference,    *)
(* and copies only what it has not freed.  Any allocation may fail.        *)
(***************************************************************************)
EXTENDS Integers, FiniteSets, FiniteSetsExt, SequencesExt

CONSTANTS
  MaxNodes,  \* items that fit in memory
  MaxAllocs, \* an allocation may fail after so many of one call
  MaxCalls,  \* calls of the library
  MaxElements, \* elements of an array created at once
  Kinds,     \* types of the items created
  Values,    \* contents of strings and numbers
  Names,     \* keys of object members
  Literals,  \* those the caller gives as constants
  Fold       \* what a key is to tolower()

ASSUME BoundAssumption == MaxNodes \in Nat \ {0} /\ {MaxAllocs, MaxCalls, MaxElements} \subseteq Nat
ASSUME KindAssumption == Kinds \subseteq {"null", "number", "string", "array", "object"}
ASSUME NameAssumption == Literals \subseteq Names /\ Names \subseteq DOMAIN Fold

VARIABLES
  mem,   \* the memory
  held,  \* items the caller owns
  lost,  \* items that nobody can free any more
  calls  \* calls made

vars == <<mem, held, lost, calls>>

NULL == 0
none == "none"
Node == 1 .. MaxNodes
Container == {"array", "object"}
Link == Node \union {NULL}

\* A cJSON structure; the flags of its type are fields of their own.  The
\* valuestring of a reference is that of the item named by shared.
Item == [live : BOOLEAN, type : Kinds, IsReference : BOOLEAN, StringIsConst : BOOLEAN,
         next : Link, prev : Link, child : Link, string : Names \union {none},
         value : Values \union {none}, shared : Link]

blank == [live |-> FALSE, type |-> CHOOSE k \in Kinds : TRUE, IsReference |-> FALSE,
          StringIsConst |-> FALSE, next |-> NULL, prev |-> NULL, child |-> NULL,
          string |-> none, value |-> none, shared |-> NULL]

\* strings counts the blocks of keys and values; left, what allocate will
\* still give; bad, that something not allocated was freed.
Init ==
  /\ mem = [item |-> [n \in Node |-> blank], strings |-> 0, left |-> 0, bad |-> FALSE]
  /\ held = {}
  /\ lost = {}
  /\ calls = 0

-----------------------------------------------------------------------------
(***************************************************************************)
(* Allocation.  An operation returns the memory and its result.            *)
(***************************************************************************)
Ret(m, r) == [m |-> m, r |-> r]

Live(m) == {n \in Node : m.item[n].live}
Set(m, n, field, v) == [m EXCEPT !.item[n][field] = v]

\* Memory that no stale link of a reference names.
Unused(m) == {n \in Node \ Live(m) : \A k \in Live(m) : n \notin {m.item[k].child, m.item[k].shared}}

\* Mutant: the structure is not cleared, and its key is whatever was there.
cJSON_New_Item_uncleared(m, type) ==
  LET n == Min(Unused(m))
  IN IF m.left = 0 \/ Unused(m) = {} THEN Ret(m, NULL)
     ELSE Ret([m EXCEPT !.left = @ - 1,
                        !.item[n] = [blank EXCEPT !.live = TRUE, !.type = type,
                                                  !.string = "garbage"]], n)

cJSON_New_Item(m, type) ==
  IF m.left = 0 \/ Unused(m) = {} THEN Ret(m, NULL)
  ELSE LET n == Min(Unused(m))
       IN Ret([m EXCEPT !.left = @ - 1,
                        !.item[n] = [blank EXCEPT !.live = TRUE, !.type = type]], n)

\* Whether the string could be allocated.
cJSON_strdup(m) ==
  IF m.left = 0 THEN Ret(m, FALSE)
  ELSE Ret([m EXCEPT !.left = @ - 1, !.strings = @ + 1], TRUE)

OwnsKey(i) == ~i.StringIsConst /\ i.string # none
OwnsValue(i) == ~i.IsReference /\ i.type = "string" /\ i.value # none

RECURSIVE cJSON_Delete(_, _)

\* Mutant: the children and the string of a reference are freed with it.
cJSON_Delete_follows_references(m, item) ==
  LET I == m.item[item]
      below == IF I.child # NULL THEN cJSON_Delete(m, I.child) ELSE m
      owned == Cardinality({x \in {"key", "value"} :
                              IF x = "key" THEN OwnsKey(I) ELSE I.value # none})
      freed == [below EXCEPT !.item[item] = blank, !.strings = @ - owned]
  IN IF item = NULL THEN m
     ELSE IF ~I.live THEN [m EXCEPT !.bad = TRUE]
     ELSE cJSON_Delete(freed, I.next)

\* item with all that it owns, and the siblings behind it.
cJSON_Delete(m, item) ==
  IF item = NULL THEN m
  ELSE IF ~m.item[item].live THEN [m EXCEPT !.bad = TRUE]
  ELSE LET I == m.item[item]
           below == IF ~I.IsReference THEN cJSON_Delete(m, I.child) ELSE m
           owned == Cardinality({x \in {"key", "value"} :
                                   IF x = "key" THEN OwnsKey(I) ELSE OwnsValue(I)})
           freed == [below EXCEPT !.item[item] = blank, !.strings = @ - owned]
       IN cJSON_Delete(freed, I.next)

-----------------------------------------------------------------------------
(***************************************************************************)
(* Reading.                                                                *)
(***************************************************************************)
RECURSIVE Walk(_, _)

\* The items from n on, along next.
Walk(m, n) == IF n = NULL THEN <<>> ELSE <<n>> \o Walk(m, m.item[n].next)

List(m, n) == Walk(m, m.item[n].child)

get_array_item(m, array, index) ==
  LET s == List(m, array) IN IF index < Len(s) THEN s[index + 1] ELSE NULL

case_insensitive_differ(name, string) == string = none \/ Fold[name] # Fold[string]

get_object_item(m, object, name, case_sensitive) ==
  LET s == List(m, object)
      key(j) == m.item[s[j]].string
      stops == {j \in DOMAIN s : IF case_sensitive THEN key(j) \in {none, name}
                                 ELSE ~case_insensitive_differ(name, key(j))}
  IN IF name = none \/ stops = {} \/ key(Min(stops)) = none THEN NULL ELSE s[Min(stops)]

-----------------------------------------------------------------------------
(***************************************************************************)
(* Linking.                                                                *)
(***************************************************************************)
\* Mutant: the item behind the detached one keeps its prev.
cJSON_DetachItemViaPointer_keeps_prev(m, parent, item) ==
  LET I == m.item[item]
      before == IF I.prev # NULL THEN Set(m, I.prev, "next", I.next) ELSE m
      head == IF m.item[parent].child = item THEN Set(before, parent, "child", I.next) ELSE before
  IN IF item = NULL THEN m ELSE Set(Set(head, item, "prev", NULL), item, "next", NULL)

cJSON_DetachItemViaPointer(m, parent, item) ==
  IF item = NULL THEN m
  ELSE LET I == m.item[item]
           before == IF I.prev # NULL THEN Set(m, I.prev, "next", I.next) ELSE m
           behind == IF I.next # NULL THEN Set(before, I.next, "prev", I.prev) ELSE before
           head == IF m.item[parent].child = item
                   THEN Set(behind, parent, "child", I.next) ELSE behind
       IN Set(Set(head, item, "prev", NULL), item, "next", NULL)

suffix_object(m, prev, item) == Set(Set(m, prev, "next", item), item, "prev", prev)

add_item_to_array(m, array, item) ==
  IF item = NULL THEN Ret(m, FALSE)
  ELSE Ret(IF m.item[array].child = NULL THEN Set(m, array, "child", item)
           ELSE suffix_object(m, Last(List(m, array)), item), TRUE)

\* Mutant: a member of that name is replaced.
add_item_to_object_replaces(m, object, string, item, constant_key) ==
  LET old == get_object_item(m, object, string, TRUE)
      alone == IF old = NULL THEN m
               ELSE cJSON_Delete(cJSON_DetachItemViaPointer(m, object, old), old)
      key == cJSON_strdup(alone)
      named == [key.m EXCEPT !.item[item].string = string, !.item[item].StringIsConst = FALSE]
  IN IF item = NULL \/ ~key.r \/ constant_key THEN Ret(m, FALSE)
     ELSE add_item_to_array(named, object, item)

\* The new key first: when it cannot be allocated nothing has changed.
add_item_to_object(m, object, string, item, constant_key) ==
  IF item = NULL THEN Ret(m, FALSE)
  ELSE LET key == IF constant_key THEN Ret(m, TRUE) ELSE cJSON_strdup(m)
           named == [key.m EXCEPT !.strings = @ - (IF OwnsKey(m.item[item]) THEN 1 ELSE 0),
                                  !.item[item].string = string,
                                  !.item[item].StringIsConst = constant_key]
       IN IF ~key.r THEN Ret(key.m, FALSE) ELSE add_item_to_array(named, object, item)

\* The item whose block an item's valuestring is.
valuestring(m, item) == IF m.item[item].shared # NULL THEN m.item[item].shared ELSE item

\* The same contents under a new item, which owns none of them.
create_reference(m, item) ==
  LET new == cJSON_New_Item(m, m.item[item].type)
  IN IF new.r = NULL THEN new
     ELSE Ret([new.m EXCEPT !.item[new.r] =
                 [m.item[item] EXCEPT !.string = none, !.IsReference = TRUE,
                    !.next = NULL, !.prev = NULL,
                    !.shared = IF m.item[item].type = "string" THEN valuestring(m, item) ELSE NULL]], new.r)

cJSON_InsertItemInArray(m, array, which, newitem) ==
  LET after == get_array_item(m, array, which)
  IN IF after = NULL THEN add_item_to_array(m, array, newitem).m
     ELSE LET prev == m.item[after].prev
              linked == [m EXCEPT !.item[newitem].next = after, !.item[newitem].prev = prev,
                                  !.item[after].prev = newitem]
          IN IF m.item[array].child = after THEN Set(linked, array, "child", newitem)
             ELSE Set(linked, prev, "next", newitem)

\* The replaced item is freed.
cJSON_ReplaceItemViaPointer(m, parent, item, replacement) ==
  IF item = NULL THEN Ret(m, FALSE)
  ELSE LET I == m.item[item]
           placed == [m EXCEPT !.item[replacement].next = I.next,
                               !.item[replacement].prev = I.prev]
           behind == IF I.next # NULL THEN Set(placed, I.next, "prev", replacement) ELSE placed
           before == IF I.prev # NULL THEN Set(behind, I.prev, "next", replacement) ELSE behind
           head == IF m.item[parent].child = item
                   THEN Set(before, parent, "child", replacement) ELSE before
       IN Ret(cJSON_Delete(Set(Set(head, item, "next", NULL), item, "prev", NULL), item), TRUE)

\* The replacement takes the name before the place is looked for; a key that
\* cannot be allocated leaves it without one.
replace_item_in_object(m, object, string, replacement, case_sensitive) ==
  LET unnamed == [m EXCEPT !.strings = @ - (IF OwnsKey(m.item[replacement]) THEN 1 ELSE 0)]
      key == cJSON_strdup(unnamed)
      named == [key.m EXCEPT !.item[replacement].string = IF key.r THEN string ELSE none,
                             !.item[replacement].StringIsConst = FALSE]
  IN cJSON_ReplaceItemViaPointer(named, object,
       get_object_item(named, object, string, case_sensitive), replacement)

-----------------------------------------------------------------------------
(***************************************************************************)
(* Creating, copying and comparing.                                        *)
(***************************************************************************)

CreateContainer(m, type) == cJSON_New_Item(m, type)

\* Every kind of Create: only a string needs a second block.
Create(m, type, value) ==
  LET new == cJSON_New_Item(m, type)
      copy == cJSON_strdup(new.m)
      valued == Set(new.m, new.r, "value", value)
  IN IF type \in Container THEN CreateContainer(m, type)
     ELSE IF new.r = NULL \/ type = "null" THEN new
     ELSE IF type = "number" THEN Ret(valued, new.r)
     ELSE IF copy.r THEN Ret(Set(copy.m, new.r, "value", value), new.r)
     ELSE Ret(cJSON_Delete(new.m, new.r), NULL)

RECURSIVE CreateElements(_, _, _, _, _)

\* The rest of the elements, behind p.
CreateElements(m, a, p, type, values) ==
  IF values = <<>> THEN Ret(m, a)
  ELSE LET n == Create(m, type, Head(values))
           linked == IF p = NULL THEN Set(n.m, a, "child", n.r) ELSE suffix_object(n.m, p, n.r)
       IN IF n.r = NULL THEN Ret(cJSON_Delete(n.m, a), NULL)
          ELSE CreateElements(linked, a, n.r, type, Tail(values))

\* The arrays of numbers and the array of strings.
CreateArrayOf(m, type, values) ==
  LET a == Create(m, "array", none)
  IN IF a.r = NULL THEN a ELSE CreateElements(a.m, a.r, NULL, type, values)

RECURSIVE cJSON_Duplicate(_, _, _), DuplicateChildren(_, _, _, _)

\* Mutant: what was copied before a failure is forgotten.
DuplicateChildren_leaks(m, newitem, next, child) ==
  LET new == cJSON_Duplicate(m, child, TRUE)
      linked == IF next # NULL THEN suffix_object(new.m, next, new.r)
                ELSE Set(new.m, newitem, "child", new.r)
  IN IF child = NULL THEN Ret(m, newitem)
     ELSE IF new.r = NULL THEN new
     ELSE DuplicateChildren(linked, newitem, new.r, new.m.item[child].next)

\* The children from child on, put behind next; any failure frees the copy.
DuplicateChildren(m, newitem, next, child) ==
  IF child = NULL THEN Ret(m, newitem)
  ELSE LET new == cJSON_Duplicate(m, child, TRUE)
           linked == IF next # NULL THEN suffix_object(new.m, next, new.r)
                     ELSE Set(new.m, newitem, "child", new.r)
       IN IF new.r = NULL THEN Ret(cJSON_Delete(new.m, newitem), NULL)
          ELSE DuplicateChildren(linked, newitem, new.r, new.m.item[child].next)

\* The copy of a reference owns its contents; a constant key is shared.
cJSON_Duplicate(m, item, recurse) ==
  LET I == m.item[item]
      new == cJSON_New_Item(m, I.type)
      flagged == Set(new.m, new.r, "StringIsConst", I.StringIsConst)
      value == IF I.type = "string" THEN cJSON_strdup(flagged) ELSE Ret(flagged, TRUE)
      valued == IF value.r THEN Set(value.m, new.r, "value", I.value) ELSE value.m
      key == IF OwnsKey(I) THEN cJSON_strdup(valued) ELSE Ret(valued, TRUE)
      keyed == IF key.r THEN Set(key.m, new.r, "string", I.string) ELSE key.m
  IN IF new.r = NULL THEN new
     ELSE IF ~value.r THEN Ret(cJSON_Delete(valued, new.r), NULL)
     ELSE IF ~key.r THEN Ret(cJSON_Delete(keyed, new.r), NULL)
     ELSE IF ~recurse THEN Ret(keyed, new.r)
     ELSE DuplicateChildren(keyed, new.r, NULL, I.child)

RECURSIVE cJSON_Compare(_, _, _, _)

\* Mutant: only the members of a are looked for.
cJSON_Compare_one_way(m, a, b, case_sensitive) ==
  LET A == List(m, a)
      B == List(m, b)
      within(s, o) == \A j \in DOMAIN s :
        LET x == get_object_item(m, o, m.item[s[j]].string, case_sensitive)
        IN x # NULL /\ cJSON_Compare(m, s[j], x, case_sensitive)
  IN /\ m.item[a].type = m.item[b].type
     /\ \/ a = b
        \/ m.item[a].type \notin Container /\ m.item[a].value = m.item[b].value
        \/ /\ m.item[a].type = "array"
           /\ Len(A) = Len(B)
           /\ \A j \in DOMAIN A : cJSON_Compare(m, A[j], B[j], case_sensitive)
        \/ m.item[a].type = "object" /\ within(A, b)

\* The members of an object are compared by name, in both directions.
cJSON_Compare(m, a, b, case_sensitive) ==
  LET A == List(m, a)
      B == List(m, b)
      within(s, o) == \A j \in DOMAIN s :
        LET x == get_object_item(m, o, m.item[s[j]].string, case_sensitive)
        IN x # NULL /\ cJSON_Compare(m, s[j], x, case_sensitive)
  IN /\ m.item[a].type = m.item[b].type
     /\ \/ a = b
        \/ m.item[a].type \notin Container /\ m.item[a].value = m.item[b].value
        \/ /\ m.item[a].type = "array"
           /\ Len(A) = Len(B)
           /\ \A j \in DOMAIN A : cJSON_Compare(m, A[j], B[j], case_sensitive)
        \/ m.item[a].type = "object" /\ within(A, b) /\ within(B, a)

-----------------------------------------------------------------------------
(***************************************************************************)
(* What the caller may do.                                                 *)
(***************************************************************************)
RECURSIVE Owned(_, _), Readable(_, _, _)

\* n and all that is freed with it.
Owned(m, n) ==
  {n} \union (IF m.item[n].IsReference THEN {}
             ELSE UNION {Owned(m, k) : k \in Range(List(m, n))})

\* All that is seen from n is allocated, the string of a reference included, and
\* ends.
Readable(m, n, depth) ==
  /\ depth > 0
  /\ m.item[n].live
  /\ m.item[valuestring(m, n)].live
  /\ LET RECURSIVE along(_, _)
         along(k, steps) == IF k = NULL THEN TRUE
                            ELSE /\ steps > 0
                                 /\ Readable(m, k, depth - 1)
                                 /\ along(m.item[k].next, steps - 1)
     IN along(m.item[n].child, MaxNodes)

Reachable == UNION {Owned(mem, n) : n \in held}
Lists(type) == {n \in Reachable : mem.item[n].type = type /\ ~mem.item[n].IsReference}
Movable(list) == {i \in held : list \notin Owned(mem, i)}
Index == 0 .. MaxNodes - 1

\* The memory of a call, and the memory after it.  A call that leaves some of
\* left over ends as it does when given no more than it asks for.
Starts == {[mem EXCEPT !.left = k] : k \in 0 .. MaxAllocs}
End(m) ==
  /\ calls < MaxCalls
  /\ m.left = 0
  /\ mem' = [m EXCEPT !.left = 0]
  /\ calls' = calls + 1

\* The items of this step that the caller counts as given away.
GiveAway(item, done) ==
  /\ held' = held \ {item}
  /\ lost' = IF done THEN lost ELSE lost \union {item}

\* A new item or none.
TakeNew(res) ==
  /\ End(res.m)
  /\ held' = held \union ({res.r} \ {NULL})
  /\ UNCHANGED lost

CreateItem == \E m \in Starts, type \in Kinds, value \in Values : TakeNew(Create(m, type, value))

CreateArray ==
  \E m \in Starts, type \in Kinds \ Container, values \in SeqOf(Values, MaxElements) :
    TakeNew(CreateArrayOf(m, type, values))

AddItemToArray ==
  \E array \in Lists("array") : \E item \in Movable(array) :
    /\ End(add_item_to_array(mem, array, item).m)
    /\ GiveAway(item, TRUE)

\* The caller is not told when the key could not be allocated.
AddItemToObject ==
  \E m \in Starts, object \in Lists("object"), name \in Names : \E item \in Movable(object) :
      LET res == add_item_to_object(m, object, name, item, name \in Literals)
      IN End(res.m) /\ GiveAway(item, res.r)

\* Not of something the array is in: what is seen from it would not end.
AddItemReferenceToArray ==
  \E m \in Starts, array \in Lists("array"), item \in Reachable :
    /\ array \notin Owned(mem, item)
    /\ End(add_item_to_array(create_reference(m, item).m, array, create_reference(m, item).r).m)
    /\ UNCHANGED <<held, lost>>

\* A reference whose key cannot be allocated belongs to nobody.
AddItemReferenceToObject ==
  \E m \in Starts, object \in Lists("object"), name \in Names \ Literals, item \in Reachable :
    LET ref == create_reference(m, item)
        res == add_item_to_object(ref.m, object, name, ref.r, FALSE)
    IN /\ object \notin Owned(mem, item)
       /\ End(res.m)
       /\ lost' = IF res.r THEN lost ELSE lost \union ({ref.r} \ {NULL})
       /\ UNCHANGED held

\* The family of AddNullToObject: what cannot be added is freed.
AddNewToObject ==
  \E m \in Starts, object \in Lists("object"), name \in Names \ Literals, type \in Kinds, value \in Values :
    LET new == Create(m, type, value)
        res == add_item_to_object(new.m, object, name, new.r, FALSE)
    IN /\ End(IF res.r THEN res.m ELSE cJSON_Delete(res.m, new.r))
       /\ UNCHANGED <<held, lost>>

Detach(list, item) ==
  /\ item # NULL
  /\ End(cJSON_DetachItemViaPointer(mem, list, item))
  /\ held' = held \union {item}
  /\ UNCHANGED lost

DetachItemFromArray ==
  \E array \in Lists("array"), which \in Index : Detach(array, get_array_item(mem, array, which))

DetachItemFromObject ==
  \E object \in Lists("object"), name \in Names, case_sensitive \in BOOLEAN :
    Detach(object, get_object_item(mem, object, name, case_sensitive))

DeleteFrom(list, item) ==
  /\ item # NULL
  /\ End(cJSON_Delete(cJSON_DetachItemViaPointer(mem, list, item), item))
  /\ UNCHANGED <<held, lost>>

DeleteItemFromArray ==
  \E array \in Lists("array"), which \in Index :
    DeleteFrom(array, get_array_item(mem, array, which))

DeleteItemFromObject ==
  \E object \in Lists("object"), name \in Names, case_sensitive \in BOOLEAN :
    DeleteFrom(object, get_object_item(mem, object, name, case_sensitive))

InsertItemInArray ==
  \E array \in Lists("array"), which \in Index : \E item \in Movable(array) :
    /\ End(cJSON_InsertItemInArray(mem, array, which, item))
    /\ GiveAway(item, TRUE)

\* A place that does not exist is not reported.
ReplaceItemInArray ==
  \E array \in Lists("array"), which \in Index : \E item \in Movable(array) :
    LET res == cJSON_ReplaceItemViaPointer(mem, array, get_array_item(mem, array, which), item)
    IN End(res.m) /\ GiveAway(item, res.r)

ReplaceItemInObject ==
  \E m \in Starts, object \in Lists("object"), name \in Names, case_sensitive \in BOOLEAN :
    \E item \in Movable(object) :
      LET res == replace_item_in_object(m, object, name, item, case_sensitive)
      IN End(res.m) /\ GiveAway(item, res.r)

Duplicate(item, recurse) ==
  /\ Readable(mem, item, MaxNodes + 1)
  /\ \E m \in Starts : TakeNew(cJSON_Duplicate(m, item, recurse))

DuplicateItem == \E item \in Reachable, recurse \in BOOLEAN : Duplicate(item, recurse)

Delete ==
  \E item \in held :
    /\ End(cJSON_Delete(mem, item))
    /\ held' = held \ {item}
    /\ UNCHANGED lost

Next ==
  \/ CreateItem \/ CreateArray
  \/ AddItemToArray \/ AddItemToObject \/ AddNewToObject
  \/ AddItemReferenceToArray \/ AddItemReferenceToObject
  \/ DetachItemFromArray \/ DetachItemFromObject
  \/ DeleteItemFromArray \/ DeleteItemFromObject
  \/ InsertItemInArray \/ ReplaceItemInArray \/ ReplaceItemInObject
  \/ DuplicateItem \/ Delete

Spec == Init /\ [][Next]_vars

-----------------------------------------------------------------------------
(***************************************************************************)
(* Properties.                                                             *)
(***************************************************************************)

\* Every item is a structure cJSON knows, and the sets are of items.
TypeOK ==
  /\ mem.item \in [Node -> Item]
  /\ mem.strings \in Nat
  /\ mem.left = 0
  /\ held \subseteq Node
  /\ lost \subseteq Node

\* The links of every list agree: the next of an item has it as its prev, the
\* head of a list and every item outside a list has none (suffix_object,
\* DetachItemViaPointer, InsertItemInArray, ReplaceItemViaPointer and the
\* crosswiring of Duplicate).
LinksAgree ==
  \A n \in Live(mem) :
    LET I == mem.item[n]
    IN /\ I.next # NULL => mem.item[I.next].live /\ mem.item[I.next].prev = n
       /\ I.prev # NULL => mem.item[I.prev].live /\ mem.item[I.prev].next = n
       /\ ~I.IsReference /\ I.child # NULL =>
            mem.item[I.child].live /\ mem.item[I.child].prev = NULL
       /\ n \in held \union lost => I.next = NULL /\ I.prev = NULL

\* Every allocated item is freed by exactly one delete to come: it is one the
\* caller holds or lost, or it is in the list of one item that is not a
\* reference; nothing was freed twice and no key or value is leaked or freed
\* twice, whatever allocation failed in the middle of a call.
EverythingOwnedOnce ==
  /\ ~mem.bad
  /\ \A n \in Live(mem) :
       Cardinality({p \in Live(mem) : ~mem.item[p].IsReference /\ Contains(List(mem, p), n)})
         = IF n \in held \union lost THEN 0 ELSE 1
  /\ held \union lost \subseteq Live(mem)
  /\ mem.strings = Cardinality({n \in Live(mem) : OwnsKey(mem.item[n])})
                   + Cardinality({n \in Live(mem) : OwnsValue(mem.item[n])})

RECURSIVE Meaning(_, _)

\* The JSON value of an item: an object is a function of its keys.
Meaning(m, n) ==
  LET s == List(m, n)
      I == m.item[n]
  IN CASE I.type = "array" -> [type |-> "array", of |-> [j \in DOMAIN s |-> Meaning(m, s[j])]]
       [] I.type = "object" ->
            [type |-> "object",
             of |-> [k \in {m.item[x].string : x \in Range(s)} |->
                       Meaning(m, CHOOSE x \in Range(s) : m.item[x].string = k)]]
       [] OTHER -> [type |-> I.type, of |-> I.value]

RECURSIVE Proper(_, _)

\* Every member below n has a key of its own.
Proper(m, n) ==
  LET s == List(m, n)
  IN /\ m.item[n].type = "object" =>
          /\ \A x \in Range(s) : m.item[x].string # none
          /\ \A x, y \in Range(s) : m.item[x].string = m.item[y].string => x = y
     /\ \A x \in Range(s) : Proper(m, x)

\* cJSON_Compare tells JSON values apart exactly: two trees compare equal if
\* and only if they mean the same value, the order of the members of an
\* object aside.
CompareIsEquality ==
  \A a, b \in {n \in Reachable : Readable(mem, n, MaxNodes + 1) /\ Proper(mem, n)} :
    cJSON_Compare(mem, a, b, TRUE) <=> Meaning(mem, a) = Meaning(mem, b)

\* Whatever is copied here and wherever the memory ends: a deep copy means
\* what the original means and shares no item with it, references in the
\* original included, and a copy that fails leaves nothing behind.
CopyIsWhole ==
  \A item \in {n \in Reachable : Readable(mem, n, MaxNodes + 1)}, m \in Starts :
    LET res == cJSON_Duplicate(m, item, TRUE)
    IN IF res.r = NULL THEN [res.m EXCEPT !.left = 0] = mem
       ELSE /\ \A n \in Live(mem) : res.m.item[n] = mem.item[n]
            /\ Readable(res.m, res.r, MaxNodes + 1)
            /\ Owned(res.m, res.r) = Live(res.m) \ Live(mem)
            /\ Proper(mem, item) => Meaning(res.m, res.r) = Meaning(mem, item)

\* The lists as sequences; a reference owns none.
Forest == INSTANCE JsonForest WITH
  kids <- [n \in Live(mem) |-> IF mem.item[n].IsReference THEN <<>> ELSE List(mem, n)],
  roots <- held \union lost

\* Every call, with its pointer surgery, does one thing to the forest and
\* leaves every other list as it was.
ImplementsForest == Forest!Spec

\* The memory after any calls of cJSON's interface, with allocations failing in
\* any of them: lists whose links agree, and each item with one owner.
MemorySound == TypeOK /\ LinksAgree /\ EverythingOwnedOnce

\* cJSON_Compare and cJSON_Duplicate agree with the values that items mean.
CopiesFaithful == CompareIsEquality /\ CopyIsWhole
=============================================================================
