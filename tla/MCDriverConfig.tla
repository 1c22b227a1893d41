--------------------------- MODULE MCDriverConfig ---------------------------
(***************************************************************************)
(* Tables for TLC.                                                         *)
(***************************************************************************)
EXTENDS DriverConfig

JsonKeys == UNION {Texts[t] \union Numbers[t] : t \in 1 .. 7}
            \union {"operators_map", "validate_https_certificate"}

Cells(schema) == Columns[schema] \union (IF schema = 3 THEN JsonKeys ELSE {})

good(schema, type, id, v) ==
  [schema |-> schema, type |-> type, id |-> id, v |-> v, n |-> id, csv |-> TRUE,
   cell |-> [k \in Cells(schema) |-> "ok"]]

\* Columns that are not absent, and keys that may be.
Faults(schema, k) ==
  IF k \in Columns[schema]
  THEN IF k = "o_driver_id" THEN {"outside"}
       ELSE {"null"} \union (IF k \in {"o_port", "o_timeout"} THEN {"outside"} ELSE {"empty"})
  ELSE {"absent", "wrong"} \union (IF k \in {"port", "timeout"} THEN {"outside"} ELSE {"empty"})

\* What of a row may be bad and matters to its type.
Relevant(schema, type) ==
  LET keys == Texts[type] \union Numbers[type]
  IN IF schema = 3 THEN {"id", "name", "parameters", "operators_map", "validate_https_certificate"} \union keys
     ELSE {"o_id", "o_name", "o_driver_id"} \union {Prefix[k] : k \in keys \intersect DOMAIN Prefix}

bad(schema, type, id, v) ==
  {[good(schema, type, id, v) EXCEPT !.csv = FALSE]} \union
  UNION {{[good(schema, type, id, v) EXCEPT !.cell[k] = s] : s \in Faults(schema, k)} :
           k \in Relevant(schema, type) \intersect Cells(schema)}

\* One row of every kind, sound or with one bad cell; two sound rows of the
\* same or of different ids; a sound row before a bad one.
One == UNION {{<<r>> : r \in bad(s, t, 1, "x") \union {good(s, t, 1, "x")}} : s \in 1 .. 4, t \in 1 .. 7}
Odd == {<<good(s, t, 1, "x")>> : s \in 1 .. 4, t \in {0, 8}}
Two == {<<good(s, t, 1, "x"), good(s, u, i, "y")>> : s \in 1 .. 4, t \in {1, 7}, u \in {3, 4}, i \in {1, 2}}
Mixed == {<<good(2, 2, 1, "x"), r>> : r \in bad(2, 4, 2, "y")}
         \union {<<good(3, 5, 1, "x"), r>> : r \in bad(3, 1, 2, "y")}

AllTables == {<<>>} \union One \union Odd \union Two \union Mixed
=============================================================================
