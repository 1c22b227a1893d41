----------------------------- MODULE EventLoop -----------------------------
(***************************************************************************)
(* The dispatcher's loop (Dispatcher, EventHandler, LoopTerminator) and the *)
(* part of AsyncHttpClient that lives in it: the sockets libcurl asks for, *)
(* the one timer it shares among all transfers, and the notifier.          *)
(*                                                                         *)
(* One thread runs the loop.  epoll_wait returns a batch of events, and    *)
(* each is handled in turn; by the time its turn comes, an earlier handler *)
(* may have unlinked its descriptor, linked another one of the same        *)
(* number, set the timer again or ended the loop.  Another thread calls    *)
(* Dispatcher::stop.                                                       *)
(*                                                                         *)
(* libcurl is external.  It runs a transfer when its socket has an event   *)
(* or its time has come, tells the program which sockets to watch, and     *)
(* tells it the time to the next timeout only when that changed since it   *)
(* last did.                                                               *)
(***************************************************************************)
EXTENDS FiniteSets, Integers

CONSTANTS
  Transfer,  \* transfers, each submitted once at most
  Timed,     \* those with CURLOPT_TIMEOUT_MS other than 0
  Fd,        \* numbers the sockets can get
  NoFd,      \* stands for no socket
  Asked,     \* Asked[f]: what libcurl may ask to watch socket f for
  LinkFault, \* sockets for which EPOLL_CTL_ADD and EPOLL_CTL_MOD may fail
  CurlFault  \* curl_multi_socket_action may fail (memory, internal error)

ASSUME TimedAssumption == Timed \subseteq Transfer

ASSUME FdAssumption == NoFd \notin Fd /\ Fd \cap {"timer", "notifier", "terminator", "udp"} = {}

ASSUME FaultAssumption == LinkFault \subseteq Fd /\ CurlFault \in BOOLEAN

VARIABLES
  transfer,    \* how far each transfer is
  conn,        \* the socket libcurl uses for it
  watch,       \* what libcurl asked to watch each socket for
  events_map,  \* AsyncHttpClient's events_map and, with it, the epoll set
  refused,     \* sockets for which the last epoll_ctl libcurl caused failed
  timer,       \* timer_fd: "off", "armed", or "expired" and not read
  told,        \* the timeout libcurl last passed to timer_cb
  notifier,    \* respose_notifier_fd is readable
  fired,       \* LoopTerminator's event_fd is readable
  batch,       \* events of the last epoll_wait that are still to be handled
  stop,        \* local of loop(): it ends
  stray,       \* libcurl was handed an event of a socket it does not watch
  broken       \* a timeout was lost: the timer was read and libcurl not told

curlVars == <<transfer, conn, watch, told>>
vars == <<curlVars, events_map, refused, timer, notifier, fired, batch, stop, stray, broken>>

\* due: its timeout has passed; queued: in response_queue; delivered: passed
\* to on_http_response_received.
TransferState == {"idle", "added", "active", "due", "queued", "delivered"}
Action == {"IN", "OUT", "INOUT"}

ASSUME AskedAssumption == Asked \in [Fd -> SUBSET Action]

Event == {"in", "out", "err", "hup"}
Source == Fd \cup {"timer", "notifier", "terminator", "udp"}
Ready == [fd : Source, event : Event]

Init ==
  /\ transfer = [t \in Transfer |-> "idle"]
  /\ conn = [t \in Transfer |-> NoFd]
  /\ watch = [f \in Fd |-> "none"]
  /\ events_map = [f \in Fd |-> {}]
  /\ refused = {}
  /\ timer = "off"
  /\ told = "never"
  /\ notifier = FALSE
  /\ fired = FALSE
  /\ batch = {}
  /\ stop = FALSE
  /\ stray = FALSE
  /\ broken = FALSE

-----------------------------------------------------------------------------
(***************************************************************************)
(* Sockets.                                                                *)
(***************************************************************************)

\* Mutant: EPOLLHUP is asked for as well.
sock_events_hup(action) ==
  {"err", "hup"} \cup (IF action # "OUT" THEN {"in"} ELSE {}) \cup (IF action # "IN" THEN {"out"} ELSE {})

\* set_sock: the events for an action.
sock_events(action) ==
  {"err"} \cup (IF action # "OUT" THEN {"in"} ELSE {}) \cup (IF action # "IN" THEN {"out"} ELSE {})

\* link: a descriptor that is already in the epoll set is refused.
link(fd, events, ok) == IF ok /\ events_map[fd] = {} THEN events ELSE events_map[fd]

\* Mutant: events_map is changed whether or not EPOLL_CTL_MOD worked, and one
\* that did not leaves the descriptor with no event at all.
modify_link_forgets(fd, events, ok) ==
  CASE events_map[fd] = {}        -> link(fd, events, ok)
    [] events_map[fd] # {} /\ ok  -> events
    [] OTHER                      -> events \ {"in", "out"}

\* modify_link falls back to link for one that is not, and leaves the events
\* as they were when EPOLL_CTL_MOD fails.
modify_link(fd, events, ok) ==
  CASE events_map[fd] = {}        -> link(fd, events, ok)
    [] events_map[fd] # {} /\ ok  -> events
    [] OTHER                      -> events_map[fd]

\* Mutant: a socket that is already known is linked once more.
set_sock_links(fd, action, known, ok) == link(fd, sock_events(action), ok)

set_sock(fd, action, known, ok) ==
  IF known THEN modify_link(fd, sock_events(action), ok) ELSE link(fd, sock_events(action), ok)

\* rem_sock unlinks.
rem_sock(fd) == {}

\* socket_cb: libcurl watches fd for action, or for nothing any more.
socket_cb(fd, action, ok) ==
  CASE action = watch[fd]                    -> events_map[fd]
    [] action # watch[fd] /\ action = "none" -> rem_sock(fd)
    [] OTHER                                 -> set_sock(fd, action, watch[fd] # "none", ok)

-----------------------------------------------------------------------------
(***************************************************************************)
(* The timer.                                                              *)
(***************************************************************************)

\* Mutant: the 0 that means "now" is written to the timer as it is.
set_timer_value_zero(v) == IF v = "later" THEN "armed" ELSE "off"

\* set_timer_value: -1 disarms the timer, and 0 arms it for 1 ns.
set_timer_value(v) == IF v = "never" THEN "off" ELSE "armed"

\* The next timeout libcurl has to be called for: at once for a transfer that
\* was just added, at its deadline for one with a timeout.
next_timeout(tr) ==
  CASE \E t \in Transfer : tr[t] = "added"         -> "now"
    [] /\ \A t \in Transfer : tr[t] # "added"
       /\ \E t \in Timed : tr[t] \in {"active", "due"} -> "later"
    [] OTHER                                       -> "never"

\* timer_cb is called when the timeout is not the one told before, and may be
\* called again with the same one.  The timer ends up as after.
timer_cb(tr, before, after, old) ==
  /\ told' = next_timeout(tr)
  /\ \/ after = set_timer_value(next_timeout(tr))
     \/ next_timeout(tr) = old /\ after = before

-----------------------------------------------------------------------------
(***************************************************************************)
(* libcurl runs transfers.                                                 *)
(***************************************************************************)
Alive(tr) == {t \in Transfer : tr[t] \in {"added", "active", "due"}}

\* Transfers whose time has come.
expired == {t \in Transfer : transfer[t] \in {"added", "due"}}

\* libcurl runs the transfers of T: one goes on with a socket, which it starts
\* to watch, or ends, and then its socket is removed.
curl_runs(T) ==
  \E sock \in [T -> Fd \cup {NoFd}], action \in [T -> Action], failing \in SUBSET Fd :
    LET used == {conn[t] : t \in Alive(transfer)}
        ends == {t \in T : sock[t] = NoFd}
        wanted == [f \in Fd |->
                     IF \E t \in T : sock[t] = f
                       THEN action[CHOOSE t \in T : sock[t] = f]
                       ELSE IF \E t \in T : conn[t] = f THEN "none" ELSE watch[f]]
    IN  /\ failing \subseteq {f \in LinkFault : wanted[f] \notin {watch[f], "none"}}
        /\ \A t \in T :
             /\ sock[t] # NoFd => action[t] \in Asked[sock[t]]
             /\ transfer[t] = "due" => sock[t] = NoFd
             /\ transfer[t] = "active" => sock[t] \in {conn[t], NoFd}
             /\ transfer[t] = "added" => sock[t] \notin used \ {NoFd}
        /\ \A t, u \in T : t # u /\ sock[t] = sock[u] => sock[t] = NoFd
        /\ transfer' = [t \in Transfer |->
                          IF t \in ends THEN "queued"
                          ELSE IF t \in T THEN "active" ELSE transfer[t]]
        /\ conn' = [t \in Transfer |-> IF t \in T THEN sock[t] ELSE conn[t]]
        /\ watch' = wanted
        /\ events_map' = [f \in Fd |-> socket_cb(f, wanted[f], f \notin failing)]
        /\ refused' = {f \in Fd : /\ wanted[f] # "none"
                                 /\ IF wanted[f] = watch[f] THEN f \in refused ELSE f \in failing}
        /\ notifier' = (notifier \/ ends # {})

\* read_timer fails when the timer was set again after it had expired.  A
\* timeout makes libcurl forget what it told.
timer_event_handler ==
  \/ /\ timer # "expired"
     /\ UNCHANGED <<curlVars, events_map, refused, timer, notifier, stray, broken>>
  \/ /\ timer = "expired"
     /\ curl_runs(expired)
     /\ timer_cb(transfer', "off", timer', "forgotten")
     /\ UNCHANGED <<stray, broken>>
  \/ /\ timer = "expired" /\ CurlFault
     /\ timer' = "off"
     /\ broken' = TRUE
     /\ UNCHANGED <<curlVars, events_map, refused, notifier, stray>>

\* Mutant: one transfer may still run when the timer is cleared.
last_done_early(tr) == Cardinality(Alive(tr)) <= 1

\* still_running <= 0
last_done(tr) == Cardinality(Alive(tr)) <= 0

\* The transfer on the socket is run, and libcurl may look at the time as well.
socket_event_handler(fd) ==
  /\ stray' = (stray \/ watch[fd] = "none")
  /\ \/ LET own == {t \in Alive(transfer) : conn[t] = fd}
        IN  \E T \in {own, own \cup expired} :
              /\ curl_runs(T)
              /\ \E set \in {"off", "armed", "expired"} :
                   /\ timer_cb(transfer', timer, set, told)
                   /\ timer' = IF last_done(transfer') THEN "off" ELSE set
     \/ /\ CurlFault
        /\ UNCHANGED <<curlVars, events_map, refused, timer, notifier>>
  /\ UNCHANGED broken

\* The queue is drained: every response goes to the resolver.
respose_notifier_event_handler ==
  /\ notifier' = FALSE
  /\ transfer' = [t \in Transfer |->
                    IF transfer[t] = "queued" THEN "delivered" ELSE transfer[t]]
  /\ UNCHANGED <<conn, watch, told, events_map, refused, timer, stray, broken>>

-----------------------------------------------------------------------------
(***************************************************************************)
(* The loop.                                                               *)
(***************************************************************************)

\* epoll_wait: every descriptor of the program that is readable, and sockets
\* with an event they are linked for or one that is always reported.
epoll_wait ==
  /\ ~stop
  /\ batch = {}
  /\ \E S \in SUBSET {f \in Fd : events_map[f] # {}}, datagram \in BOOLEAN :
       \E ev \in [S -> Event] :
         /\ \A f \in S : ev[f] \in events_map[f] \cup {"err", "hup"}
         /\ batch' = {[fd |-> f, event |-> ev[f]] : f \in S}
                       \cup {r \in [fd : {"timer"}, event : {"in"}] : timer = "expired"}
                       \cup {r \in [fd : {"notifier"}, event : {"in"}] : notifier}
                       \cup {r \in [fd : {"terminator"}, event : {"in"}] : fired}
                       \cup {r \in [fd : {"udp"}, event : {"in"}] : datagram}
  /\ batch' # {}
  /\ UNCHANGED <<curlVars, events_map, refused, timer, notifier, fired, stop, stray, broken>>

\* Mutant: AsyncHttpClient takes every event of a descriptor it does not know.
is_can_handle_any(e) == TRUE

\* is_can_handle: what the descriptor is linked for now, not when the event
\* was reported.
is_can_handle(e) == e.fd \in Fd => e.event \in events_map[e.fd]

\* Transport::handle_event: a datagram goes to the resolver, which may add a
\* transfer, and curl_multi_add_handle asks to be called at once.  An error of
\* recvfrom is dropped, but one of a closed descriptor (EBADF) ends the loop.
handle_datagram(e) ==
  /\ e.fd = "udp"
  /\ \/ \E t \in Transfer :
          /\ transfer[t] = "idle"
          /\ transfer' = [transfer EXCEPT ![t] = "added"]
          /\ timer_cb(transfer', timer, timer', told)
          /\ batch' = batch \ {e}
          /\ UNCHANGED stop
     \/ batch' = batch \ {e} /\ UNCHANGED <<transfer, told, timer, stop>>
     \/ batch' = {} /\ stop' = TRUE /\ UNCHANGED <<transfer, told, timer>>
  /\ UNCHANGED <<conn, watch, events_map, refused, notifier, fired, stray, broken>>

handle_timer(e) ==
  /\ e.fd = "timer"
  /\ batch' = batch \ {e}
  /\ timer_event_handler
  /\ UNCHANGED <<fired, stop>>

handle_notifier(e) ==
  /\ e.fd = "notifier"
  /\ batch' = batch \ {e}
  /\ respose_notifier_event_handler
  /\ UNCHANGED <<fired, stop>>

handle_socket(e) ==
  /\ e.fd \in Fd
  /\ batch' = batch \ {e}
  /\ IF is_can_handle(e)
       THEN socket_event_handler(e.fd)
       ELSE UNCHANGED <<curlVars, events_map, refused, timer, notifier, stray, broken>>
  /\ UNCHANGED <<fired, stop>>

\* Mutant: the loop goes on after the terminator's event.
ends_loop_not == FALSE

\* LoopTerminator::handle_event sets stop.
ends_loop == TRUE

\* The rest of the batch is dropped.
handle_terminator(e) ==
  /\ e.fd = "terminator"
  /\ fired' = FALSE
  /\ stop' = ends_loop
  /\ batch' = IF ends_loop THEN {} ELSE batch \ {e}
  /\ UNCHANGED <<curlVars, events_map, refused, timer, notifier, stray, broken>>

handle_event(e) ==
  \/ handle_datagram(e)
  \/ handle_timer(e)
  \/ handle_notifier(e)
  \/ handle_socket(e)
  \/ handle_terminator(e)

\* Dispatcher::stop, on the thread that received the signal.
fire ==
  /\ ~stop /\ ~fired
  /\ fired' = TRUE
  /\ UNCHANGED <<curlVars, events_map, refused, timer, notifier, batch, stop, stray, broken>>

-----------------------------------------------------------------------------
(***************************************************************************)
(* Time.                                                                   *)
(***************************************************************************)
timer_expires ==
  /\ ~stop
  /\ timer = "armed"
  /\ timer' = "expired"
  /\ UNCHANGED <<curlVars, events_map, refused, notifier, fired, batch, stop, stray, broken>>

deadline(t) ==
  /\ ~stop
  /\ transfer[t] = "active"
  /\ transfer' = [transfer EXCEPT ![t] = "due"]
  /\ UNCHANGED <<conn, watch, told, events_map, refused, timer, notifier, fired, batch, stop, stray, broken>>

loop == epoll_wait \/ \E e \in batch : handle_event(e)

Next ==
  \/ loop
  \/ fire
  \/ timer_expires
  \/ \E t \in Timed : deadline(t)

Spec == Init /\ [][Next]_vars

\* The loop's thread is scheduled and time passes.  Nothing is assumed of the
\* servers: a socket may never have an event.  The order in which a batch is
\* handled is not fair either, but a batch is finite.
Fairness ==
  /\ WF_vars(loop)
  /\ WF_vars(timer_expires)
  /\ \A t \in Timed : WF_vars(deadline(t))

FairSpec == Spec /\ Fairness

-----------------------------------------------------------------------------
(***************************************************************************)
(* Properties.                                                             *)
(***************************************************************************)
TypeOK ==
  /\ transfer \in [Transfer -> TransferState]
  /\ conn \in [Transfer -> Fd \cup {NoFd}]
  /\ watch \in [Fd -> Action \cup {"none"}]
  /\ events_map \in [Fd -> SUBSET {"in", "out", "err"}]
  /\ refused \subseteq Fd
  /\ timer \in {"off", "armed", "expired"}
  /\ told \in {"never", "later", "now"}
  /\ notifier \in BOOLEAN
  /\ fired \in BOOLEAN
  /\ batch \subseteq Ready
  /\ stop \in BOOLEAN
  /\ stray \in BOOLEAN
  /\ broken \in BOOLEAN

\* The one timer is never off while a transfer waits for it, however timer_cb,
\* the reads of an expired timer and the clearing after the last transfer
\* (AsyncHttpClient.cpp:352) follow each other, unless curl_multi_socket_action
\* failed for a timer that was already read (AsyncHttpClient.cpp:425).
TimerCoversTransfers ==
  ~broken /\ (\E t \in Transfer : transfer[t] = "added" \/ (t \in Timed /\ transfer[t] \in {"active", "due"}))
    => timer # "off"

\* The epoll set follows libcurl: a socket is linked for what libcurl asked
\* last, also when its number is used again within one batch.  Where epoll_ctl
\* refused that request (set_sock looks at no result) the socket is missing or
\* still linked for an earlier one, never for anything else, and only until
\* libcurl asks again; one that libcurl removed is linked for nothing, whatever
\* was refused before (rem_sock).
SocketsFollowCurl ==
  \A f \in Fd :
    /\ watch[f] = "none" => events_map[f] = {} /\ f \notin refused
    /\ watch[f] # "none" /\ f \notin refused => events_map[f] = sock_events(watch[f])
    /\ f \in refused => f \in LinkFault /\ events_map[f] \in {{}} \cup {sock_events(a) : a \in Action}

\* libcurl is never handed an event of a socket it stopped watching earlier in
\* the same batch: Dispatcher::loop asks is_can_handle when the event's turn
\* comes.
NoStrayEvents == ~stray

\* Dispatcher::stop ends the loop.
StopEndsLoop == fired ~> stop

\* The transfers and the loop as the resolver sees them.
Service ==
  INSTANCE HttpService WITH
    state <- [t \in Transfer |->
                CASE transfer[t] = "idle"      -> "idle"
                  [] transfer[t] = "delivered" -> "answered"
                  [] OTHER                     -> "pending"],
    broken <- broken,
    ended <- stop

\* The event loop and AsyncHttpClient give the resolver what it relies on.
ImplementsService == Service!FairSpec

\* What holds of the loop in every state: the epoll set follows libcurl
\* (AsyncHttpClient::set_sock, rem_sock) but for the requests that EPOLL_CTL_ADD
\* or EPOLL_CTL_MOD refused, and Dispatcher::loop hands on no event that is out
\* of date.
LoopSound == TypeOK /\ SocketsFollowCurl /\ NoStrayEvents
=============================================================================
