------------------------------ MODULE Signals ------------------------------
(***************************************************************************)
(* sig_handler and the locks of the program.  A handler runs on a thread   *)
(* of the program, on top of whatever that thread was doing; the mutexes   *)
(* are not recursive.                                                      *)
(*                                                                         *)
(* What a function does is written as the sequence of its operations on    *)
(* locks and conditions.  A thread is a stack of such sequences: the       *)
(* thread's own work at the bottom and the handlers that interrupted it.   *)
(***************************************************************************)
EXTENDS Integers, Sequences, FiniteSets

CONSTANTS
  Receivers,  \* threads that may get a signal
  AtRest,     \* a thread gets one only while it waits for events
  Sent,       \* the signals sent, each once
  MaxRows     \* rows of the driver table (bound of the model)

Signal == {"HUP", "TERM", "INT"}

\* main runs main() and then the dispatcher's loop, writer is lnp_cache's
\* thread, other any thread of a library: the one that serves the metrics, that
\* of the SIP stack.
Thread == {"main", "writer", "other"}

\* The mutexes of the program: of the singletons, of the driver map, of the
\* exporter, of the SIP client, of the writer and of its queue and conditions
\* (q_run, stopped, _stopped); sip_stopped is _stopped of the SIP client's
\* thread.  family_m stands for the mutexes of the four metric families of the
\* prometheus library, which are never held two at a time.
Lock == {"exporter_inst_m", "resolver_inst_m", "transport_inst_m", "cache_inst_m",
         "dispatcher_inst_m", "mDriversMutex", "exporter_m", "family_m", "sMutex",
         "sip_stopped_m", "m_td", "_stopped_m", "q_m", "q_run", "stopped_m"}

ASSUME SignalAssumption ==
  /\ Receivers \subseteq Thread
  /\ AtRest \in BOOLEAN
  /\ Sent \subseteq Signal
  /\ MaxRows \in Nat

VARIABLES
  stack,       \* of each thread: records of the signal and what is left to do
  owner,       \* of each lock
  gotostop,    \* of lnp_cache
  stopped,     \* condition<bool> stopped of lnp_cache
  _stopped,    \* of the writer's thread object: it does not run
  terminator,  \* loop_terminator was created
  fired,       \* its eventfd is readable
  sent,        \* signals that were delivered
  rows,        \* rows the load in progress has read
  reloads      \* maps swapped in by configure()

condVars == <<gotostop, stopped, _stopped, terminator, fired>>
vars == <<stack, owner, condVars, sent, rows, reloads>>

-----------------------------------------------------------------------------
(***************************************************************************)
(* What the functions do.                                                  *)
(***************************************************************************)
locked(l, ops) == <<<<"lock", l>>>> \o ops \o <<<<"unlock", l>>>>

do(what) == <<<<what, "">>>>

\* singleton<T>::instance
instance(l) == locked(l, <<>>)

\* Transport::send_data, from any of the replies.
send_data == instance("transport_inst_m")

\* Each of the exporter's four functions on the metrics of a driver.
metrics == instance("exporter_inst_m") \o locked("exporter_m", locked("family_m", <<>>))

\* CSipClient::getInstance for the first SIP driver, which starts the client's
\* thread; for a later one it takes no lock.
getInstance == locked("sMutex", locked("sip_stopped_m", <<>>))

\* CDriver::instantiate of a row, the first of a SIP driver or another.
instantiate(sip) == (IF sip THEN getInstance ELSE <<>>) \o metrics

\* Mutant: the map's mutex is not released.
swap_map_unreleased == <<<<"lock", "mDriversMutex">>>> \o do("swap")

\* Mutant: the map is swapped and swapped back.
swap_map_twice == locked("mDriversMutex", do("swap") \o do("swap"))

\* The end of a load that worked.
swap_map == locked("mDriversMutex", do("swap"))

\* The drivers are loaded without the map's mutex.
configure == do("load")

\* Mutant: the entry is pushed with the condition's mutex held.
sync_nested == locked("q_run", locked("q_m", <<>>))

\* _cache::sync
sync == locked("q_m", <<>>) \o locked("q_run", <<>>)

\* What becomes of a request or of a response: the datagram cannot be parsed,
\* the request is refused, its lookup fails, waits for a response, or is done
\* by a driver of one type or the other.
Outcome == {"malformed", "refused", "failed", "waits", "tagged", "cnam"}

\* What resolve() and parse_response() do with the map's mutex held, behind the
\* count of the request.  A SIP driver's resolve() waits there for its reply,
\* but not longer than its timeout.
lookup(o) ==
  CASE o = "failed"             -> metrics
    [] o = "tagged"             -> metrics \o instance("cache_inst_m") \o sync \o send_data
    [] o = "cnam"               -> metrics \o send_data
    [] o \in {"refused", "waits", "malformed"} -> <<>>

\* send_error_reply
error_reply(o) == IF o \in {"refused", "failed"} THEN send_data ELSE <<>>

\* send_provisional_reply and resolve
on_data_received(o) ==
  IF o = "malformed" THEN send_data
  ELSE send_data
         \o locked("mDriversMutex", (IF o = "refused" THEN <<>> ELSE metrics) \o lookup(o))
         \o error_reply(o)

\* parse_response
on_http_response_received(o) == locked("mDriversMutex", lookup(o)) \o error_reply(o)

\* What the loop may do for one event.
Work ==
  {on_data_received(o) : o \in Outcome}
    \cup {on_http_response_received(o) : o \in {"refused", "failed", "tagged", "cnam"}}

\* The constructors of Resolver and Transport make an EventHandler, which
\* registers.
main_start ==
  instance("exporter_inst_m")
    \o locked("resolver_inst_m", instance("dispatcher_inst_m"))
    \o configure
    \o locked("transport_inst_m", instance("dispatcher_inst_m")) \o instance("resolver_inst_m")
    \o instance("cache_inst_m") \o locked("_stopped_m", <<>>) \o do("start")
    \o instance("dispatcher_inst_m") \o do("make_terminator")
    \o do("epoll_wait")

\* Mutant: on_stop() waits with q_m held.
on_stop_holding_q_m ==
  locked("q_m", do("gotostop") \o locked("q_run", <<>>) \o do("wait_stopped"))

\* _cache::on_stop: the wait takes the mutex of stopped when it ends.
on_stop ==
  do("gotostop") \o locked("q_run", <<>>) \o do("wait_stopped") \o locked("stopped_m", <<>>)

\* _cache::run up to the wait, which takes the condition's mutex when it ends,
\* one round of its loop, and its end.
run_start == locked("m_td", <<>>) \o locked("q_run", <<>>) \o do("wait_q_run")
run_round == locked("q_m", locked("q_run", <<>>)) \o locked("q_run", <<>>) \o do("wait_q_run")
run_end == locked("stopped_m", do("set_stopped")) \o locked("_stopped_m", do("ended"))

sig_handler(s) ==
  IF s = "HUP" THEN instance("resolver_inst_m") \o configure
  ELSE instance("cache_inst_m")
         \o <<<<"lock", "m_td">>>> \o locked("_stopped_m", <<>>) \o do("stop")
         \o instance("dispatcher_inst_m") \o do("fire")

-----------------------------------------------------------------------------
Init ==
  /\ stack = [t \in Thread |->
                <<[sig |-> "none", ops |-> IF t = "main" THEN main_start ELSE <<>>]>>]
  /\ owner = [l \in Lock |-> "none"]
  /\ gotostop = FALSE
  /\ stopped = FALSE
  /\ _stopped = TRUE
  /\ terminator = FALSE
  /\ fired = FALSE
  /\ sent = {}
  /\ rows = 0
  /\ reloads = 0

top(t) == stack[t][Len(stack[t])]

\* t is about to do op.
at(t, what) == top(t).ops # <<>> /\ Head(top(t).ops)[1] = what

\* The process goes on: main has not returned from main().
running == stack["main"] # <<>> /\ stack["main"][1].ops # <<>>

rest(t) == Tail(top(t).ops)

\* t goes on with ops.
goes_on(t, ops) == stack' = [stack EXCEPT ![t][Len(stack[t])].ops = ops]

lock(t) ==
  /\ at(t, "lock")
  /\ owner[Head(top(t).ops)[2]] = "none"
  /\ owner' = [owner EXCEPT ![Head(top(t).ops)[2]] = t]
  /\ goes_on(t, rest(t))
  /\ UNCHANGED <<condVars, sent, rows, reloads>>

unlock(t) ==
  /\ at(t, "unlock")
  /\ owner' = [owner EXCEPT ![Head(top(t).ops)[2]] = "none"]
  /\ goes_on(t, rest(t))
  /\ UNCHANGED <<condVars, sent, rows, reloads>>

\* loadResolveDrivers reads one more row, whose driver is made.
load_row(t) ==
  /\ at(t, "load")
  /\ rows < MaxRows
  /\ rows' = rows + 1
  /\ \E sip \in BOOLEAN : goes_on(t, instantiate(sip) \o top(t).ops)
  /\ UNCHANGED <<owner, condVars, sent, reloads>>

\* It has read the table, and configure() swaps the map in.
load_done(t) ==
  /\ at(t, "load")
  /\ rows' = 0
  /\ goes_on(t, swap_map \o rest(t))
  /\ UNCHANGED <<owner, condVars, sent, reloads>>

\* It fails, in the database or at a row, possibly after the SIP client took its
\* mutex: the map stays as it is.  At start-up main() returns.
load_fails(t) ==
  /\ at(t, "load")
  /\ rows' = 0
  /\ \E sip \in BOOLEAN :
       goes_on(t, (IF sip THEN getInstance ELSE <<>>)
                    \o (IF top(t).sig = "none" THEN <<>> ELSE rest(t)))
  /\ UNCHANGED <<owner, condVars, sent, reloads>>

swap(t) ==
  /\ at(t, "swap")
  /\ reloads' = reloads + 1
  /\ goes_on(t, rest(t))
  /\ UNCHANGED <<owner, condVars, sent, rows>>

\* thread::start of the cache.
start ==
  /\ at("main", "start")
  /\ _stopped' = FALSE
  /\ stack' = [stack EXCEPT !["main"][Len(stack["main"])].ops = rest("main"),
                            !["writer"][1].ops = run_start]
  /\ UNCHANGED <<owner, gotostop, stopped, terminator, fired, sent, rows, reloads>>

make_terminator ==
  /\ at("main", "make_terminator")
  /\ terminator' = TRUE
  /\ goes_on("main", rest("main"))
  /\ UNCHANGED <<owner, gotostop, stopped, _stopped, fired, sent, rows, reloads>>

\* The loop handles a request, or the terminator's event and main() returns.
epoll_wait ==
  /\ at("main", "epoll_wait")
  /\ \/ fired /\ goes_on("main", <<>>)
     \/ \E work \in Work : goes_on("main", work \o do("epoll_wait"))
  /\ UNCHANGED <<owner, condVars, sent, rows, reloads>>

\* The writer's wait ends: it leaves when gotostop is set.
wait_q_run ==
  /\ at("writer", "wait_q_run")
  /\ goes_on("writer", IF gotostop THEN run_end ELSE run_round)
  /\ UNCHANGED <<owner, condVars, sent, rows, reloads>>

set_stopped ==
  /\ at("writer", "set_stopped")
  /\ stopped' = TRUE
  /\ goes_on("writer", rest("writer"))
  /\ UNCHANGED <<owner, gotostop, _stopped, terminator, fired, sent, rows, reloads>>

\* thread::_start after run().
ended ==
  /\ at("writer", "ended")
  /\ _stopped' = TRUE
  /\ goes_on("writer", rest("writer"))
  /\ UNCHANGED <<owner, gotostop, stopped, terminator, fired, sent, rows, reloads>>

\* thread::stop with m_td held: nothing for a thread that does not run.
stop(t) ==
  /\ at(t, "stop")
  /\ goes_on(t, (IF _stopped THEN <<>> ELSE on_stop) \o <<<<"unlock", "m_td">>>> \o rest(t))
  /\ UNCHANGED <<owner, condVars, sent, rows, reloads>>

set_gotostop(t) ==
  /\ at(t, "gotostop")
  /\ gotostop' = TRUE
  /\ goes_on(t, rest(t))
  /\ UNCHANGED <<owner, stopped, _stopped, terminator, fired, sent, rows, reloads>>

wait_stopped(t) ==
  /\ at(t, "wait_stopped")
  /\ stopped
  /\ goes_on(t, rest(t))
  /\ UNCHANGED <<owner, condVars, sent, rows, reloads>>

\* Dispatcher::stop
fire(t) ==
  /\ at(t, "fire")
  /\ fired' = TRUE
  /\ goes_on(t, rest(t))
  /\ UNCHANGED <<owner, gotostop, stopped, _stopped, terminator, sent, rows, reloads>>

\* A handler returns to what it interrupted.
handler_returns(t) ==
  /\ Len(stack[t]) > 1
  /\ top(t).ops = <<>>
  /\ stack' = [stack EXCEPT ![t] = SubSeq(@, 1, Len(@) - 1)]
  /\ UNCHANGED <<owner, condVars, sent, rows, reloads>>

\* The metrics are served: every family is collected under its mutex.
scrape ==
  /\ running
  /\ Len(stack["other"]) = 1 /\ top("other").ops = <<>>
  /\ goes_on("other", locked("family_m", <<>>))
  /\ UNCHANGED <<owner, condVars, sent, rows, reloads>>

\* t waits for events and holds nothing.
resting(t) ==
  /\ Len(stack[t]) = 1
  /\ IF t = "other" THEN top(t).ops = <<>> ELSE at(t, "epoll_wait") \/ at(t, "wait_q_run")

\* The loop has begun and the writer has its name.  (A stop before that is the
\* subject of CacheWriter.)
started ==
  /\ terminator
  /\ \A k \in 1 .. Len(stack["writer"][1].ops) : stack["writer"][1].ops[k] # <<"lock", "m_td">>

\* A signal is delivered.  signal() blocks it on t until its handler returns,
\* and no other.
deliver(t, s) ==
  /\ running
  /\ s \notin sent
  /\ started
  /\ t = "writer" => ~_stopped
  /\ AtRest => resting(t)
  /\ sent' = sent \cup {s}
  /\ stack' = [stack EXCEPT ![t] = Append(@, [sig |-> s, ops |-> sig_handler(s)])]
  /\ UNCHANGED <<owner, condVars, rows, reloads>>

main_steps == start \/ make_terminator \/ epoll_wait
writer_steps == wait_q_run \/ set_stopped \/ ended

step(t) ==
  /\ running
  /\ \/ lock(t)
     \/ unlock(t)
     \/ load_row(t)
     \/ load_done(t)
     \/ load_fails(t)
     \/ swap(t)
     \/ stop(t)
     \/ set_gotostop(t)
     \/ wait_stopped(t)
     \/ fire(t)
     \/ handler_returns(t)
     \/ t = "main" /\ main_steps
     \/ t = "writer" /\ writer_steps

Next ==
  \/ \E t \in Thread : step(t)
  \/ scrape
  \/ \E t \in Receivers, s \in Sent : deliver(t, s)

Spec == Init /\ [][Next]_vars

\* Every thread is scheduled, a mutex that is released again and again goes to
\* each thread that waits for it in the end, and epoll_wait reports the
\* terminator's event.
Fairness ==
  /\ \A t \in Thread : SF_vars(step(t))
  /\ SF_vars(running /\ fired /\ epoll_wait /\ goes_on("main", <<>>))

FairSpec == Spec /\ Fairness

-----------------------------------------------------------------------------
(***************************************************************************)
(* Properties.                                                             *)
(***************************************************************************)
TypeOK ==
  /\ \A t \in Thread : \A k \in 1 .. Len(stack[t]) : stack[t][k].sig \in Signal \cup {"none"}
  /\ owner \in [Lock -> Thread \cup {"none"}]
  /\ gotostop \in BOOLEAN
  /\ stopped \in BOOLEAN
  /\ _stopped \in BOOLEAN
  /\ terminator \in BOOLEAN
  /\ fired \in BOOLEAN
  /\ sent \subseteq Sent
  /\ rows \in 0 .. MaxRows
  /\ reloads \in 0 .. 1 + Cardinality(sent \cap {"HUP"})

Handling(t, s) == \E k \in 1 .. Len(stack[t]) : stack[t][k].sig = s

\* The lock t waits for.
WaitsFor(t) == {l \in Lock : at(t, "lock") /\ Head(top(t).ops)[2] = l /\ owner[l] # "none"}

\* No thread waits for a lock whose owner waits, directly or through others,
\* for that thread: the nesting of the singletons' mutexes, of mDriversMutex, of
\* the exporter and its families, of m_td, q_m and the conditions in resolve(),
\* parse_response(), run(), stop(), configure() and a scrape has no cycle.
NoLockCycle ==
  ~ \E S \in (SUBSET Thread) \ {{}} :
      \A t \in S : \E l \in WaitsFor(t) : owner[l] \in S

\* A handler for SIGTERM or SIGINT that starts ends the program: the writer
\* stops, then the dispatcher, and main() returns.
TerminationEndsProgram ==
  ("TERM" \in sent \/ "INT" \in sent) ~> ~running

Reloading == \E t \in Thread : Handling(t, "HUP")

\* A reload that was asked for ends, with a new map or with the old one after a
\* load that failed, or the program ends: no lock that configure() needs, of the
\* exporter, of a metric family or of the map, is kept from it for ever.
ReloadCompletes == Reloading ~> (~Reloading \/ ~running)

\* The locks of all threads and handlers are of their types and without a cycle.
LocksSound == TypeOK /\ NoLockCycle
=============================================================================
