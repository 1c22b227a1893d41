---------------------------- MODULE HttpService ----------------------------
(***************************************************************************)
(* What the resolver relies on in AsyncHttpClient and the dispatcher: a    *)
(* transfer that was submitted is answered once, by a call of              *)
(* on_http_response_received, and a transfer with a timeout is answered    *)
(* unless the event loop ends first or a timeout was lost: then a transfer *)
(* may wait for ever.                                                      *)
(***************************************************************************)
CONSTANTS
  Transfer,  \* transfers
  Timed      \* those submitted with a timeout other than 0

VARIABLES
  state,   \* of each transfer
  broken,  \* a timeout was lost
  ended    \* the event loop is over

vars == <<state, broken, ended>>

Init ==
  /\ state = [t \in Transfer |-> "idle"]
  /\ broken = FALSE
  /\ ended = FALSE

Submit(t) ==
  /\ ~ended
  /\ state[t] = "idle"
  /\ state' = [state EXCEPT ![t] = "pending"]
  /\ UNCHANGED <<broken, ended>>

\* One drain of the response queue answers every transfer that is in it.
Reply(S) ==
  /\ ~ended
  /\ S # {}
  /\ \A t \in S : state[t] = "pending"
  /\ state' = [t \in Transfer |-> IF t \in S THEN "answered" ELSE state[t]]
  /\ UNCHANGED <<broken, ended>>

Break ==
  /\ ~ended /\ ~broken
  /\ broken' = TRUE
  /\ UNCHANGED <<state, ended>>

End ==
  /\ ~ended
  /\ ended' = TRUE
  /\ UNCHANGED <<state, broken>>

Next ==
  \/ \E t \in Transfer : Submit(t)
  \/ \E S \in SUBSET Transfer : Reply(S)
  \/ Break
  \/ End

Fairness == \A t \in Timed : WF_vars(~broken /\ \E S \in SUBSET Transfer : t \in S /\ Reply(S))

Spec == Init /\ [][Next]_vars

FairSpec == Spec /\ Fairness
=============================================================================
