------------------------------- MODULE Inputs -------------------------------
(***************************************************************************)
(* What the conversions of texts and datagrams share: a behaviour is about *)
(* one input, of one kind; and the width of an int.                        *)
(***************************************************************************)
EXTENDS Integers

CONSTANT IntMax  \* INT_MAX

ASSUME IntAssumption == IntMax \in Nat

VARIABLE input  \* the kind of the input and what it is

Kind(k) == input.kind = k

\* cJSON_SetNumberHelper(): the int kept beside the double of a number.
valueint(number) ==
  IF number >= IntMax THEN IntMax ELSE IF number <= -IntMax - 1 THEN -IntMax - 1 ELSE number
=============================================================================
