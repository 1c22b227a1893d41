-------------------------- MODULE SipClientProofs --------------------------
(***************************************************************************)
(* Theorems about SipClient, for any number of calls and of drivers.       *)
(***************************************************************************)
EXTENDS SipClient, TLAPS

(***************************************************************************)
(* The inductive invariant: what the call that waits, the sessions, the    *)
(* close handler and the buffer have to do with each other.                *)
(***************************************************************************)

\* Only the session of the call that waits is open.
OnlyWaitedIsOpen == \A k \in Call : session[k] = "open" => k = call

\* A handler that runs is that of the call that waits, or of one it overtook.
HandlerIsKnown ==
  /\ handler.at = "idle" => handler.call = 0
  /\ handler.at # "idle" => handler.call \in Call /\ handler.call \in {call} \cup overtaken

\* The call that waits is the last one made; the overtaken ones are over.
OvertakenAreOver ==
  /\ overtaken \subseteq 1 .. made
  /\ call # 0 => call = made /\ call \notin overtaken

\* While no handler was overtaken, the buffer holds what the handler of the call
\* that waits wrote.
BufferIsOwn ==
  /\ call # 0 /\ overtaken = {}
  /\ reply.processed \/ handler.at = "handled"
  => reply.from = call

SipInv ==
  CallsSound /\ OnlyWaitedIsOpen /\ HandlerIsKnown /\ OvertakenAreOver /\ BufferIsOwn

\* The invariant holds before the first call.
LEMMA InvInitially == Init => SipInv
  <1>1. SUFFICES ASSUME Init
                 PROVE  SipInv
    OBVIOUS
  <1>2. session \in [Call -> Session] /\ outcome \in [Call -> Outcome]
    BY <1>1 DEF Init, Session, Outcome
  <1>3. 0 \in 0 .. MaxCalls /\ 0 \in 0 .. MaxLoads /\ 0 \in 0 .. 0
    BY BoundAssumption
  <1>4. answer \in [Call -> 0 .. MaxCalls]
    BY <1>1, <1>3 DEF Init
  <1>5. TypeOK
    BY <1>1, <1>2, <1>3, <1>4 DEF Init, no_handler, TypeOK
  <1>6. QED
    BY <1>1, <1>5
       DEF Init, no_handler, SipInv, CallsSound, NoWriteAfterReturn, AnswerIsOfThisCall,
           OnlyWaitedIsOpen, HandlerIsKnown, OvertakenAreOver, BufferIsOwn

\* No handler ever writes after its call has returned without it.
LEMMA NoLateWrite ==
  ASSUME HandlerIsKnown, handler.at # "idle"
  PROVE  late_write = {}
  BY DEF HandlerIsKnown, late_write

\* getInstance keeps it, however far the initialization got.
LEMMA InstanceKeepsInv ==
  ASSUME SipInv, getInstance_first \/ getInstance_again \/ UNCHANGED vars
  PROVE  SipInv'
  <1>1. UNCHANGED callVars
    BY DEF getInstance_first, getInstance_again, vars
  <1>2. TypeOK'
    <2>1. /\ sInstance' \in {"null", "no_socket", "no_loop", "ready"}
          /\ returned' \in BOOLEAN
      BY DEF getInstance_first, getInstance_again, vars, SipInv, CallsSound, TypeOK
    <2>2. loads' \in 0 .. MaxLoads
      BY BoundAssumption
         DEF getInstance_first, getInstance_again, vars, SipInv, CallsSound, TypeOK
    <2>3. QED BY <1>1, <2>1, <2>2 DEF callVars, SipInv, CallsSound, TypeOK
  <1>3. QED BY <1>1, <1>2
     DEF callVars, SipInv, CallsSound, NoWriteAfterReturn, AnswerIsOfThisCall,
         OnlyWaitedIsOpen, HandlerIsKnown, OvertakenAreOver, BufferIsOwn

\* So does the beginning of a call.
LEMMA PerformKeepsInv ==
  ASSUME SipInv, perform
  PROVE  SipInv'
  <1>1. TypeOK /\ made' = made + 1 /\ made' \in Call /\ call = 0 /\ made \in Nat
    BY BoundAssumption DEF SipInv, CallsSound, TypeOK, perform, Call
  <1>2. /\ reply' = [processed |-> FALSE, from |-> 0]
        /\ UNCHANGED <<sInstance, returned, loads, handler, answer, overtaken, stray>>
        /\ made' <= MaxCalls
    BY <1>1 DEF perform, SReplyData, Call
  <1>3. /\ session' \in [Call -> Session]
        /\ outcome' \in [Call -> Outcome]
        /\ call' \in 0 .. made'
        /\ \A k \in Call : session'[k] = "open" => k = call'
        /\ \A k \in Call : outcome'[k] = "ok" => outcome[k] = "ok"
        /\ call' # 0 => call' = made'
    <2>1. CASE /\ outcome' = [outcome EXCEPT ![made'] = "error"]
               /\ UNCHANGED <<call, session>>
      BY <1>1, <2>1 DEF TypeOK, SipInv, OnlyWaitedIsOpen, Outcome
    <2>2. CASE /\ call' = made'
               /\ session' = [session EXCEPT ![made'] = "open"]
               /\ UNCHANGED outcome
      BY <1>1, <2>2 DEF TypeOK, SipInv, OnlyWaitedIsOpen, Session, Call
    <2>3. QED BY <2>1, <2>2 DEF perform
  <1>4. TypeOK'
    <2>1. made' \in 0 .. MaxCalls /\ 0 \in 0 .. MaxCalls
      BY <1>1, <1>2, BoundAssumption
    <2>2. reply' \in [processed : BOOLEAN, from : 0 .. MaxCalls]
      BY <1>2, <2>1
    <2>3. QED BY <1>1, <1>2, <1>3, <2>1, <2>2 DEF TypeOK
  <1>5. OvertakenAreOver' /\ OnlyWaitedIsOpen' /\ HandlerIsKnown'
    BY <1>1, <1>2, <1>3 DEF SipInv, OvertakenAreOver, OnlyWaitedIsOpen, HandlerIsKnown, Call
  <1>6. BufferIsOwn'
    BY <1>1, <1>2 DEF SipInv, BufferIsOwn, HandlerIsKnown, Call
  <1>7. NoWriteAfterReturn' /\ AnswerIsOfThisCall'
    BY <1>2, <1>3 DEF SipInv, CallsSound, NoWriteAfterReturn, AnswerIsOfThisCall
  <1>8. QED BY <1>4, <1>5, <1>6, <1>7 DEF SipInv, CallsSound

\* A call that returns overtakes its own handler or none.
LEMMA Overtaking ==
  ASSUME SipInv, call # 0, overtaken' = overtaken \cup still_handled
  PROVE  /\ call \in Call /\ call = made
         /\ overtaken' \subseteq 1 .. made /\ overtaken' \subseteq Call
         /\ overtaken \subseteq overtaken'
         /\ handler.at # "idle" => handler.call \in overtaken'
         /\ overtaken # {} => \E j \in overtaken : j < call
  <1>1. TypeOK /\ call = made /\ call \in Call
    BY BoundAssumption DEF SipInv, CallsSound, TypeOK, OvertakenAreOver, Call
  <1>2. overtaken' \subseteq 1 .. made
    BY <1>1 DEF SipInv, OvertakenAreOver, still_handled, Call
  <1>3. overtaken' \subseteq Call
    BY <1>1, <1>2, BoundAssumption DEF Call
  <1>4. handler.at # "idle" => handler.call \in overtaken'
    BY DEF SipInv, HandlerIsKnown, still_handled
  <1>5. \A j \in overtaken : j < call
    BY <1>1 DEF SipInv, OvertakenAreOver, Call
  <1>6. QED BY <1>1, <1>2, <1>3, <1>4, <1>5

\* What the two ways to return have in common.
LEMMA ReturnKeepsInv ==
  ASSUME SipInv, call # 0, call' = 0, overtaken' = overtaken \cup still_handled,
         session' \in [Call -> Session], \A k \in Call : session'[k] # "open",
         outcome' \in [Call -> Outcome], answer' \in [Call -> 0 .. MaxCalls],
         AnswerIsOfThisCall',
         UNCHANGED <<sInstance, returned, loads, made, reply, handler, stray>>
  PROVE  SipInv'
  <1>1. /\ overtaken' \subseteq 1 .. made /\ overtaken' \subseteq Call
        /\ handler.at # "idle" => handler.call \in overtaken'
    BY Overtaking
  <1>2. TypeOK'
    BY <1>1 DEF SipInv, CallsSound, TypeOK
  <1>3. OnlyWaitedIsOpen' /\ OvertakenAreOver' /\ BufferIsOwn'
    BY <1>1 DEF OnlyWaitedIsOpen, OvertakenAreOver, BufferIsOwn
  <1>4. HandlerIsKnown'
    BY <1>1 DEF SipInv, HandlerIsKnown
  <1>5. QED BY <1>2, <1>3, <1>4 DEF SipInv, CallsSound, NoWriteAfterReturn

\* So does a call that returns with its answer.
LEMMA OkKeepsInv ==
  ASSUME SipInv, perform_ok
  PROVE  SipInv'
  <1>1. /\ TypeOK /\ call # 0 /\ call' = 0 /\ overtaken' = overtaken \cup still_handled
        /\ session' = [session EXCEPT ![call] = "freed"]
        /\ outcome' = [outcome EXCEPT ![call] = "ok"]
        /\ answer' = [answer EXCEPT ![call] = reply.from]
        /\ UNCHANGED <<sInstance, returned, loads, made, reply, handler, stray>>
    BY DEF SipInv, CallsSound, perform_ok
  <1>2. /\ call \in Call
        /\ overtaken \subseteq overtaken'
        /\ overtaken # {} => \E j \in overtaken : j < call
    BY <1>1, Overtaking
  <1>3. /\ session' \in [Call -> Session]
        /\ \A k \in Call : session'[k] # "open"
    BY <1>1, <1>2 DEF SipInv, OnlyWaitedIsOpen, TypeOK, Session
  <1>4. outcome' \in [Call -> Outcome] /\ answer' \in [Call -> 0 .. MaxCalls]
    BY <1>1, <1>2 DEF TypeOK, Outcome
  <1>5. reply.from = call \/ \E j \in overtaken : j < call
    BY <1>1, <1>2 DEF SipInv, BufferIsOwn, perform_ok
  <1>6. AnswerIsOfThisCall'
    <2>1. ASSUME NEW k \in Call, outcome'[k] = "ok"
          PROVE  answer'[k] = k \/ \E j \in overtaken' : j < k
      <3>1. CASE k = call
        BY <1>1, <1>2, <1>5, <3>1 DEF TypeOK
      <3>2. CASE k # call
        BY <1>1, <1>2, <2>1, <3>2 DEF TypeOK, SipInv, CallsSound, AnswerIsOfThisCall
      <3>3. QED BY <3>1, <3>2
    <2>2. QED BY <2>1 DEF AnswerIsOfThisCall
  <1>7. QED BY <1>1, <1>3, <1>4, <1>6, ReturnKeepsInv

\* So does a call that returns at its timeout.
LEMMA TimeoutKeepsInv ==
  ASSUME SipInv, perform_timeout
  PROVE  SipInv'
  <1>1. /\ TypeOK /\ call # 0 /\ call' = 0 /\ overtaken' = overtaken \cup still_handled
        /\ session' = [k \in Call |-> IF session[k] = "open" THEN "terminated" ELSE session[k]]
        /\ outcome' = [outcome EXCEPT ![call] = "fail"]
        /\ answer' = answer
        /\ UNCHANGED <<sInstance, returned, loads, made, reply, handler, stray>>
    BY DEF SipInv, CallsSound, perform_timeout, sipsess_close_all
  <1>2. call \in Call /\ overtaken \subseteq overtaken'
    BY <1>1, Overtaking
  <1>3. session' \in [Call -> Session] /\ \A k \in Call : session'[k] # "open"
    BY <1>1 DEF TypeOK, Session
  <1>4. outcome' \in [Call -> Outcome] /\ answer' \in [Call -> 0 .. MaxCalls]
    BY <1>1, <1>2 DEF TypeOK, Outcome
  <1>5. AnswerIsOfThisCall'
    BY <1>1, <1>2 DEF TypeOK, SipInv, CallsSound, AnswerIsOfThisCall
  <1>6. QED BY <1>1, <1>3, <1>4, <1>5, ReturnKeepsInv

\* So does a reply of the server.
LEMMA FinalReplyKeepsInv ==
  ASSUME SipInv, NEW k \in Call, NEW msg \in Final, final_reply(k, msg)
  PROVE  SipInv'
  <1>1. /\ TypeOK /\ session[k] = "open" /\ k = call /\ handler.at = "idle"
        /\ session' = [session EXCEPT ![k] = "terminated"]
        /\ handler' = [call |-> k, msg |-> msg, at |-> "called"]
        /\ UNCHANGED <<sInstance, returned, loads, call, made, reply, outcome, answer,
                       overtaken, stray>>
    BY DEF SipInv, CallsSound, OnlyWaitedIsOpen, final_reply
  <1>2. k \in 0 .. MaxCalls
    BY DEF Call
  <1>3. TypeOK'
    <2>1. session' \in [Call -> Session]
      BY <1>1 DEF TypeOK, Session
    <2>2. handler' \in [call : 0 .. MaxCalls, msg : Final \cup {"none"},
                        at : {"idle", "called", "handled"}]
      BY <1>1, <1>2
    <2>3. QED BY <1>1, <2>1, <2>2 DEF TypeOK
  <1>4. OnlyWaitedIsOpen' /\ HandlerIsKnown'
    BY <1>1 DEF SipInv, OnlyWaitedIsOpen, HandlerIsKnown, TypeOK
  <1>5. OvertakenAreOver' /\ BufferIsOwn'
    BY <1>1 DEF SipInv, OvertakenAreOver, BufferIsOwn
  <1>6. QED BY <1>1, <1>3, <1>4, <1>5
            DEF SipInv, CallsSound, NoWriteAfterReturn, AnswerIsOfThisCall

\* What the two parts of the close handler have in common: they write into the
\* buffer while their call waits, or was overtaken.
LEMMA HandlerKeepsInv ==
  ASSUME SipInv, handler.at # "idle",
         reply' \in [processed : BOOLEAN, from : 0 .. MaxCalls],
         handler' = no_handler \/ handler' = [handler EXCEPT !.at = "handled"],
         stray' = stray \/ stray' = stray \cup late_write,
         BufferIsOwn',
         UNCHANGED <<sInstance, returned, loads, call, made, session, outcome, answer, overtaken>>
  PROVE  SipInv'
  <1>1. TypeOK /\ HandlerIsKnown /\ stray' = stray
    BY NoLateWrite DEF SipInv, CallsSound
  <1>2. 0 \in 0 .. MaxCalls
    BY BoundAssumption
  <1>3. handler' \in [call : 0 .. MaxCalls, msg : Final \cup {"none"},
                      at : {"idle", "called", "handled"}]
    BY <1>1, <1>2 DEF TypeOK, no_handler
  <1>4. TypeOK'
    BY <1>1, <1>3 DEF TypeOK
  <1>5. HandlerIsKnown'
    BY <1>1 DEF HandlerIsKnown, no_handler, TypeOK
  <1>6. QED BY <1>1, <1>4, <1>5
            DEF SipInv, CallsSound, NoWriteAfterReturn, AnswerIsOfThisCall, OnlyWaitedIsOpen,
                OvertakenAreOver

\* So does each part of the close handler.
LEMMA CloseHandlerKeepsInv ==
  ASSUME SipInv, re_main
  PROVE  SipInv'
  <1>1. TypeOK /\ handler.at # "idle"
    BY DEF SipInv, CallsSound, re_main, replyHandler, closeHandler_set
  <1>2. /\ handler.call \in 0 .. MaxCalls
        /\ reply.processed \in BOOLEAN /\ reply.from \in 0 .. MaxCalls
        /\ reply = [processed |-> reply.processed, from |-> reply.from]
        /\ overtaken = {} => handler.call = call
    BY <1>1 DEF TypeOK, SipInv, HandlerIsKnown
  <1>3. UNCHANGED <<sInstance, returned, loads, call, made, session, outcome, answer, overtaken>>
    BY DEF re_main, replyHandler, closeHandler_set
  <1>4. CASE replyHandler /\ handler.msg = "other"
    <2>1. handler' = no_handler /\ UNCHANGED <<reply, stray>>
      BY <1>4 DEF replyHandler
    <2>2. BufferIsOwn'
      BY <1>3, <2>1 DEF SipInv, BufferIsOwn, no_handler
    <2>3. QED BY <1>1, <1>3, <2>1, <2>2, HandlerKeepsInv DEF TypeOK
  <1>5. CASE replyHandler /\ handler.msg # "other"
    <2>1. /\ stray' = stray \cup late_write
          /\ reply' = [reply EXCEPT !.from = handler.call]
          /\ handler' = no_handler \/ handler' = [handler EXCEPT !.at = "handled"]
      BY <1>5 DEF replyHandler
    <2>2. reply' \in [processed : BOOLEAN, from : 0 .. MaxCalls] /\ reply'.from = handler.call
      BY <1>1, <1>2, <2>1 DEF TypeOK
    <2>3. BufferIsOwn'
      BY <1>2, <1>3, <2>2 DEF BufferIsOwn
    <2>4. QED BY <1>1, <1>3, <2>1, <2>2, <2>3, HandlerKeepsInv
  <1>6. CASE closeHandler_set
    <2>1. /\ handler.at = "handled"
          /\ stray' = stray \cup late_write
          /\ reply' = [reply EXCEPT !.processed = TRUE]
          /\ handler' = no_handler
      BY <1>6 DEF closeHandler_set
    <2>2. reply' \in [processed : BOOLEAN, from : 0 .. MaxCalls] /\ reply'.from = reply.from
      BY <1>1, <1>2, <2>1 DEF TypeOK
    <2>3. BufferIsOwn'
      BY <1>3, <2>1, <2>2 DEF SipInv, BufferIsOwn
    <2>4. QED BY <1>1, <1>3, <2>1, <2>2, <2>3, HandlerKeepsInv
  <1>7. QED BY <1>4, <1>5, <1>6 DEF re_main

\* The inductive invariant holds in every reachable state.
THEOREM SipInvariant == Spec => []SipInv
  <1>1. SipInv /\ [Next]_vars => SipInv'
    BY InstanceKeepsInv, PerformKeepsInv, OkKeepsInv, TimeoutKeepsInv, FinalReplyKeepsInv,
       CloseHandlerKeepsInv DEF Next, perform_returns
  <1>2. QED BY <1>1, InvInitially, PTL DEF Spec

\* However many calls are made and whenever the replies come: no handler that
\* begins after its call returned writes into the buffer on the stack, and a
\* call takes the answer to another only after one was overtaken by its wait.
THEOREM CallsAreSound == Spec => []CallsSound
  BY SipInvariant, PTL DEF SipInv
=============================================================================
