----------------------------- MODULE SipClient -----------------------------
(***************************************************************************)
(* CSipClient: the creation of its one instance and the calls the SIP      *)
(* driver makes through it.                                                *)
(*                                                                         *)
(* perform() runs on the dispatcher thread, with the reply buffer on that  *)
(* thread's stack; the close handler runs on libre's thread and writes     *)
(* through the pointer it was given.  Calls follow each other, and the     *)
(* buffers of two calls are the same piece of stack.  libre is external: a *)
(* session calls its close handler once, when a final reply ends it or     *)
(* when it is closed.                                                      *)
(***************************************************************************)
EXTENDS Integers

CONSTANTS
  MaxCalls,   \* bound on the calls
  MaxLoads,   \* bound on the drivers constructed
  InitFault   \* steps of getInstance() that may fail

ASSUME BoundAssumption == MaxCalls \in Nat /\ MaxLoads \in Nat

\* socket: a step up to the session socket; loop: the thread that runs re_main.
ASSUME FaultAssumption == InitFault \subseteq {"socket", "loop"}

VARIABLES
  sInstance,  \* "null", or how far its initialization got
  returned,   \* getInstance() has returned an instance
  loads,      \* drivers constructed, or tried
  call,       \* the call perform() waits for, 0 for none
  made,       \* calls made
  session,    \* of each call
  reply,      \* the reply buffer
  handler,    \* the close handler's run on libre's thread
  outcome,    \* of each call
  answer,     \* the call whose redirect it was answered with
  overtaken,  \* calls that returned while their close handler ran
  stray       \* calls whose buffer was written by a handler begun after they returned

callVars == <<call, made, session, reply, handler, outcome, answer, overtaken, stray>>
vars == <<sInstance, returned, loads, callVars>>

Call == 1 .. MaxCalls
Session == {"none", "open", "terminated", "freed"}
Outcome == {"none", "ok", "fail", "error"}

\* What a final reply can be: a 301 or 302 with a contact, one without, or
\* another status.
Final == {"redirect", "no_contact", "other"}

no_handler == [call |-> 0, msg |-> "none", at |-> "idle"]

Init ==
  /\ sInstance = "null"
  /\ returned = FALSE
  /\ loads = 0
  /\ call = 0
  /\ made = 0
  /\ session = [k \in Call |-> "none"]
  /\ reply = [processed |-> FALSE, from |-> 0]
  /\ handler = no_handler
  /\ outcome = [k \in Call |-> "none"]
  /\ answer = [k \in Call |-> 0]
  /\ overtaken = {}
  /\ stray = {}

-----------------------------------------------------------------------------
(***************************************************************************)
(* getInstance(), from CSipDriver's constructor.                           *)
(***************************************************************************)

\* sInstance is set first; an exception leaves it where the step failed.
getInstance_first ==
  /\ sInstance = "null"
  /\ loads < MaxLoads
  /\ loads' = loads + 1
  /\ \/ "socket" \in InitFault /\ sInstance' = "no_socket" /\ UNCHANGED returned
     \/ "loop" \in InitFault /\ sInstance' = "no_loop" /\ UNCHANGED returned
     \/ sInstance' = "ready" /\ returned' = TRUE
  /\ UNCHANGED callVars

getInstance_again ==
  /\ sInstance # "null"
  /\ loads < MaxLoads
  /\ loads' = loads + 1
  /\ returned' = TRUE
  /\ UNCHANGED <<sInstance, callVars>>

-----------------------------------------------------------------------------
(***************************************************************************)
(* perform().                                                              *)
(***************************************************************************)

\* Mutant: the buffer is not cleared.
SReplyData_kept == reply

SReplyData == [processed |-> FALSE, from |-> 0]

\* An INVITE goes out, or sipsess_connect fails and perform() throws: always
\* without a session socket, and for reasons of its own at any time.
perform ==
  /\ returned
  /\ call = 0
  /\ made < MaxCalls
  /\ made' = made + 1
  /\ reply' = SReplyData
  /\ \/ /\ outcome' = [outcome EXCEPT ![made'] = "error"]
        /\ UNCHANGED <<call, session>>
     \/ /\ sInstance # "no_socket"
        /\ call' = made'
        /\ session' = [session EXCEPT ![made'] = "open"]
        /\ UNCHANGED outcome
  /\ UNCHANGED <<sInstance, returned, loads, handler, answer, overtaken, stray>>

\* The call returns while its close handler runs.
still_handled == {call} \cap {handler.call}

\* wait_for_to returns true: the session is freed.
perform_ok ==
  /\ call # 0
  /\ reply.processed
  /\ session' = [session EXCEPT ![call] = "freed"]
  /\ outcome' = [outcome EXCEPT ![call] = "ok"]
  /\ answer' = [answer EXCEPT ![call] = reply.from]
  /\ call' = 0
  /\ overtaken' = overtaken \cup still_handled
  /\ UNCHANGED <<sInstance, returned, loads, made, reply, handler, stray>>

\* Mutant: the state the sessions are left in is forgotten.
sipsess_close_all_untyped == [k \in Call |-> IF session[k] = "open" THEN "closed" ELSE session[k]]

\* Mutant: the sessions are left open.
sipsess_close_all_not == session

\* sipsess_close_all ends the sessions that are open; their close handlers get
\* no message and do nothing.
sipsess_close_all == [k \in Call |-> IF session[k] = "open" THEN "terminated" ELSE session[k]]

\* Mutant: the wait has no timeout.
wait_over_never == FALSE

\* wait_for_to ends without a reply; setTimeout never leaves it without a limit.
wait_over == ~reply.processed

perform_timeout ==
  /\ call # 0
  /\ wait_over
  /\ session' = sipsess_close_all
  /\ outcome' = [outcome EXCEPT ![call] = "fail"]
  /\ call' = 0
  /\ overtaken' = overtaken \cup still_handled
  /\ UNCHANGED <<sInstance, returned, loads, made, reply, handler, answer, stray>>

-----------------------------------------------------------------------------
(***************************************************************************)
(* libre's thread.                                                         *)
(***************************************************************************)

\* A final reply ends the session and the close handler is called.  It needs
\* the main loop.
final_reply(k, msg) ==
  /\ sInstance = "ready"
  /\ session[k] = "open"
  /\ handler.at = "idle"
  /\ session' = [session EXCEPT ![k] = "terminated"]
  /\ handler' = [call |-> k, msg |-> msg, at |-> "called"]
  /\ UNCHANGED <<sInstance, returned, loads, call, made, reply, outcome, answer, overtaken, stray>>

\* The handler writes through arg when its call does not wait any more, and did
\* not when the handler was called.
late_write == {handler.call} \ ({call} \cup overtaken)

\* replyHandler takes redirects only, and fills the buffer before it looks for
\* the contact.
replyHandler ==
  /\ handler.at = "called"
  /\ IF handler.msg = "other"
       THEN handler' = no_handler /\ UNCHANGED <<reply, stray>>
       ELSE /\ stray' = stray \cup late_write
            /\ reply' = [reply EXCEPT !.from = handler.call]
            /\ handler' = IF handler.msg = "redirect"
                            THEN [handler EXCEPT !.at = "handled"] ELSE no_handler
  /\ UNCHANGED <<sInstance, returned, loads, call, made, session, outcome, answer, overtaken>>

\* processed.set(true)
closeHandler_set ==
  /\ handler.at = "handled"
  /\ stray' = stray \cup late_write
  /\ reply' = [reply EXCEPT !.processed = TRUE]
  /\ handler' = no_handler
  /\ UNCHANGED <<sInstance, returned, loads, call, made, session, outcome, answer, overtaken>>

re_main == replyHandler \/ closeHandler_set

perform_returns == perform_ok \/ perform_timeout

Next ==
  \/ getInstance_first
  \/ getInstance_again
  \/ perform
  \/ perform_returns
  \/ \E k \in Call, msg \in Final : final_reply(k, msg)
  \/ re_main

Spec == Init /\ [][Next]_vars

\* Both threads are scheduled and the wait has a timeout.  No server has to
\* reply.
Fairness == WF_vars(re_main) /\ WF_vars(perform_returns)

FairSpec == Spec /\ Fairness

-----------------------------------------------------------------------------
(***************************************************************************)
(* Properties.                                                             *)
(***************************************************************************)
TypeOK ==
  /\ sInstance \in {"null", "no_socket", "no_loop", "ready"}
  /\ returned \in BOOLEAN
  /\ loads \in 0 .. MaxLoads
  /\ call \in 0 .. made
  /\ made \in 0 .. MaxCalls
  /\ session \in [Call -> Session]
  /\ reply \in [processed : BOOLEAN, from : 0 .. MaxCalls]
  /\ handler \in [call : 0 .. MaxCalls, msg : Final \cup {"none"}, at : {"idle", "called", "handled"}]
  /\ outcome \in [Call -> Outcome]
  /\ answer \in [Call -> 0 .. MaxCalls]
  /\ overtaken \subseteq Call
  /\ stray \subseteq Call

\* A close handler that begins after its call has returned writes nothing into
\* that call's buffer, which is gone from the stack: a call that times out
\* closes its session (SipClient.cpp:314), and a reply that comes later finds no
\* handler.  Only a handler that was running when the wait ended may still
\* write.
NoWriteAfterReturn == stray = {}

\* A call that succeeds was answered by the redirect to its own INVITE and not
\* by a late one to an earlier call, as long as no call returned while its handler ran.
AnswerIsOfThisCall ==
  \A k \in Call : outcome[k] = "ok" => answer[k] = k \/ \E j \in overtaken : j < k

\* The dispatcher thread is not blocked for ever by a call, whatever the server
\* answers and however far the initialization got.
EveryCallReturns == \A k \in Call : (call = k) ~> (call = 0 /\ outcome[k] # "none")

\* The one reply buffer and the calls of CSipClient::perform(): no late handler
\* writes into it, and no call takes the answer to another.
CallsSound == TypeOK /\ NoWriteAfterReturn /\ AnswerIsOfThisCall
=============================================================================
