-------------------------- MODULE EventLoopProofs --------------------------
(***************************************************************************)
(* Theorems about EventLoop, for any number of transfers and of sockets,   *)
(* with and without the faults.                                            *)
(***************************************************************************)
EXTENDS EventLoop, FiniteSetTheorems, TLAPS

\* What a socket's entry in the epoll set may be, given what libcurl asked last
\* and whether epoll_ctl refused it.
Follows(f, events, action, bad) ==
  /\ events \in SUBSET {"in", "out", "err"}
  /\ action = "none" => events = {} /\ ~bad
  /\ action # "none" /\ ~bad => events = sock_events(action)
  /\ bad => f \in LinkFault /\ events \in {{}} \cup {sock_events(a) : a \in Action}

\* SocketsFollowCurl says so of every socket.
LEMMA FollowsEverywhere ==
  ASSUME events_map \in [Fd -> SUBSET {"in", "out", "err"}]
  PROVE  SocketsFollowCurl <=> \A f \in Fd : Follows(f, events_map[f], watch[f], f \in refused)
  BY DEF SocketsFollowCurl, Follows

\* What one call of socket_cb leaves in the epoll set, for a socket that was
\* linked as libcurl had asked or whose last request was refused.
LEMMA SocketCallback ==
  ASSUME NEW f \in Fd, NEW action \in Action \cup {"none"}, NEW failing \in SUBSET LinkFault,
         watch[f] \in Action \cup {"none"},
         Follows(f, events_map[f], watch[f], f \in refused)
  PROVE  Follows(f, socket_cb(f, action, f \notin failing), action,
                 action # "none" /\ IF action = watch[f] THEN f \in refused ELSE f \in failing)
  <1>1. ASSUME NEW a \in Action
        PROVE  sock_events(a) \subseteq {"in", "out", "err"} /\ sock_events(a) # {}
    BY <1>1 DEF sock_events, Action
  <1>2. CASE action = watch[f]
    <2>1. socket_cb(f, action, f \notin failing) = events_map[f]
      BY <1>2 DEF socket_cb
    <2>2. QED BY <1>2, <2>1 DEF Follows
  <1>3. CASE action # watch[f] /\ action = "none"
    <2>1. socket_cb(f, action, f \notin failing) = {}
      BY <1>3 DEF socket_cb, rem_sock
    <2>2. QED BY <1>3, <2>1 DEF Follows
  <1>4. CASE action # watch[f] /\ action # "none"
    <2>1. /\ socket_cb(f, action, f \notin failing)
               = set_sock(f, action, watch[f] # "none", f \notin failing)
          /\ action \in Action
      BY <1>4 DEF socket_cb
    <2>2. CASE f \notin failing
      <3>1. socket_cb(f, action, f \notin failing) = sock_events(action)
        <4>1. CASE watch[f] # "none"
          BY <1>1, <2>1, <2>2, <4>1 DEF set_sock, modify_link, link
        <4>2. CASE watch[f] = "none"
          BY <2>1, <2>2, <4>2 DEF set_sock, link, Follows
        <4>3. QED BY <4>1, <4>2
      <3>2. QED BY <1>1, <1>4, <2>1, <2>2, <3>1 DEF Follows
    <2>3. CASE f \in failing
      <3>1. socket_cb(f, action, f \notin failing) = events_map[f]
        BY <2>1, <2>3 DEF set_sock, modify_link, link
      <3>2. events_map[f] \in {{}} \cup {sock_events(a) : a \in Action}
        BY DEF Follows
      <3>3. events_map[f] \in SUBSET {"in", "out", "err"}
        BY DEF Follows
      <3>4. QED BY <1>4, <2>1, <2>3, <3>1, <3>2, <3>3 DEF Follows
    <2>4. QED BY <2>2, <2>3
  <1>5. QED BY <1>2, <1>3, <1>4

\* What libcurl does when it runs the transfers of T: they end or become
\* active, and the epoll set goes on following it.
RunEffect(T) ==
  /\ transfer' \in [Transfer -> TransferState]
  /\ \A t \in Transfer : \/ transfer'[t] = transfer[t]
                         \/ t \in T /\ transfer'[t] \in {"active", "queued"}
  /\ conn' \in [Transfer -> Fd \cup {NoFd}]
  /\ watch' \in [Fd -> Action \cup {"none"}]
  /\ events_map' \in [Fd -> SUBSET {"in", "out", "err"}]
  /\ refused' \subseteq Fd
  /\ SocketsFollowCurl'
  /\ notifier' \in BOOLEAN

\* curl_multi_socket_action and the callbacks it makes have that effect.
LEMMA RunHasEffect ==
  ASSUME TypeOK, SocketsFollowCurl, NEW T \in SUBSET Transfer, curl_runs(T)
  PROVE  RunEffect(T)
  <1>1. PICK sock \in [T -> Fd \cup {NoFd}], action \in [T -> Action], failing \in SUBSET Fd :
          LET used == {conn[t] : t \in Alive(transfer)}
              ends == {t \in T : sock[t] = NoFd}
              wanted == [f \in Fd |->
                           IF \E t \in T : sock[t] = f
                             THEN action[CHOOSE t \in T : sock[t] = f]
                             ELSE IF \E t \in T : conn[t] = f THEN "none" ELSE watch[f]]
          IN  /\ failing \subseteq {f \in LinkFault : wanted[f] \notin {watch[f], "none"}}
              /\ \A t \in T :
                   /\ sock[t] # NoFd => action[t] \in Asked[sock[t]]
                   /\ transfer[t] = "due" => sock[t] = NoFd
                   /\ transfer[t] = "active" => sock[t] \in {conn[t], NoFd}
                   /\ transfer[t] = "added" => sock[t] \notin used \ {NoFd}
              /\ \A t, u \in T : t # u /\ sock[t] = sock[u] => sock[t] = NoFd
              /\ transfer' = [t \in Transfer |->
                                IF t \in ends THEN "queued"
                                ELSE IF t \in T THEN "active" ELSE transfer[t]]
              /\ conn' = [t \in Transfer |-> IF t \in T THEN sock[t] ELSE conn[t]]
              /\ watch' = wanted
              /\ events_map' = [f \in Fd |-> socket_cb(f, wanted[f], f \notin failing)]
              /\ refused' = {f \in Fd : /\ wanted[f] # "none"
                                        /\ IF wanted[f] = watch[f] THEN f \in refused
                                                                   ELSE f \in failing}
              /\ notifier' = (notifier \/ ends # {})
    BY DEF curl_runs
  <1> DEFINE ends == {t \in T : sock[t] = NoFd}
             wanted == [f \in Fd |->
                          IF \E t \in T : sock[t] = f
                            THEN action[CHOOSE t \in T : sock[t] = f]
                            ELSE IF \E t \in T : conn[t] = f THEN "none" ELSE watch[f]]
  <1>2. ASSUME NEW f \in Fd
        PROVE  wanted[f] \in Action \cup {"none"}
    BY DEF TypeOK
  <1>3. watch' = wanted /\ wanted \in [Fd -> Action \cup {"none"}]
    BY <1>1, <1>2
  <1> HIDE DEF wanted
  <1>4. /\ events_map' = [f \in Fd |-> socket_cb(f, wanted[f], f \notin failing)]
        /\ refused' = {f \in Fd : /\ wanted[f] # "none"
                                  /\ IF wanted[f] = watch[f] THEN f \in refused
                                                             ELSE f \in failing}
        /\ failing \in SUBSET LinkFault
    BY <1>1 DEF wanted
  <1>5. ASSUME NEW f \in Fd
        PROVE  Follows(f, events_map'[f], watch'[f], f \in refused')
    <2>1. /\ events_map'[f] = socket_cb(f, wanted[f], f \notin failing) /\ watch'[f] = wanted[f]
          /\ f \in refused' <=> /\ wanted[f] # "none"
                                /\ IF wanted[f] = watch[f] THEN f \in refused ELSE f \in failing
      BY <1>3, <1>4
    <2>2. watch[f] \in Action \cup {"none"} /\ Follows(f, events_map[f], watch[f], f \in refused)
      BY FollowsEverywhere DEF TypeOK
    <2>3. Follows(f, socket_cb(f, wanted[f], f \notin failing), wanted[f],
                  wanted[f] # "none" /\ IF wanted[f] = watch[f] THEN f \in refused ELSE f \in failing)
      BY <1>3, <1>4, <2>2, SocketCallback
    <2>4. QED BY <2>1, <2>3 DEF Follows
  <1>6. /\ events_map' \in [Fd -> SUBSET {"in", "out", "err"}] /\ SocketsFollowCurl'
        /\ refused' \subseteq Fd
    <2>1. events_map' \in [Fd -> SUBSET {"in", "out", "err"}]
      BY <1>4, <1>5 DEF Follows
    <2>2. SocketsFollowCurl'
      BY <1>5 DEF SocketsFollowCurl, Follows, sock_events
    <2>3. QED BY <1>4, <2>1, <2>2
  <1>7. /\ transfer' \in [Transfer -> TransferState]
        /\ \A t \in Transfer : \/ transfer'[t] = transfer[t]
                               \/ t \in T /\ transfer'[t] \in {"active", "queued"}
    <2>1. transfer' = [t \in Transfer |-> IF t \in ends THEN "queued"
                                          ELSE IF t \in T THEN "active" ELSE transfer[t]]
      BY <1>1
    <2>2. QED BY <2>1 DEF TypeOK, TransferState
  <1>8. conn' \in [Transfer -> Fd \cup {NoFd}]
    BY <1>1 DEF TypeOK
  <1>9. notifier' \in BOOLEAN
    BY <1>1 DEF TypeOK
  <1>10. QED BY <1>3, <1>6, <1>7, <1>8, <1>9 DEF RunEffect
-----------------------------------------------------------------------------
(***************************************************************************)
(* The inductive invariant.  What libcurl was last told is what it would   *)
(* tell now, the timer is on whenever that is a time, and a loop that      *)
(* ended has nothing left to handle.  The transfers alive are finitely     *)
(* many, without which still_running would not be a number.                *)
(***************************************************************************)
TimerFollowsCurl ==
  /\ told = next_timeout(transfer)
  /\ ~broken /\ told # "never" => timer # "off"

LoopInv ==
  /\ LoopSound
  /\ TimerFollowsCurl
  /\ IsFiniteSet(Alive(transfer))
  /\ stop => batch = {}

\* libcurl has a timeout exactly when a transfer waits for time.
LEMMA NextTimeout ==
  ASSUME NEW tr
  PROVE  /\ next_timeout(tr) \in {"never", "later", "now"}
         /\ next_timeout(tr) # "never" <=>
              \E t \in Transfer : tr[t] = "added" \/ (t \in Timed /\ tr[t] \in {"active", "due"})
  <1>1. CASE \E t \in Transfer : tr[t] = "added"
    <2>1. next_timeout(tr) = "now"
      BY <1>1 DEF next_timeout
    <2>2. QED BY <1>1, <2>1
  <1>2. CASE /\ \A t \in Transfer : tr[t] # "added"
             /\ \E t \in Timed : tr[t] \in {"active", "due"}
    <2>1. next_timeout(tr) = "later"
      BY <1>2 DEF next_timeout
    <2>2. QED BY <1>2, <2>1, TimedAssumption
  <1>3. CASE /\ \A t \in Transfer : tr[t] # "added"
             /\ ~ \E t \in Timed : tr[t] \in {"active", "due"}
    <2>1. next_timeout(tr) = "never"
      BY <1>3 DEF next_timeout
    <2>2. QED BY <1>3, <2>1
  <1>4. QED BY <1>1, <1>2, <1>3

\* After timer_cb the timer is on when there is a timeout, if it was on before
\* whenever one had been told.
LEMMA TimerCallback ==
  ASSUME NEW tr, NEW before \in {"off", "armed", "expired"}, NEW after, NEW old,
         timer_cb(tr, before, after, old)
  PROVE  /\ told' = next_timeout(tr)
         /\ told' \in {"never", "later", "now"}
         /\ after \in {"off", "armed", "expired"}
         /\ old = "forgotten" \/ (old # "never" => before # "off")
              => (told' # "never" => after # "off")
  <1>1. /\ told' = next_timeout(tr) /\ told' \in {"never", "later", "now"}
        /\ \/ after = set_timer_value(next_timeout(tr))
           \/ next_timeout(tr) = old /\ after = before
    BY NextTimeout DEF timer_cb
  <1>2. CASE after = set_timer_value(next_timeout(tr))
    BY <1>1, <1>2 DEF set_timer_value
  <1>3. CASE next_timeout(tr) = old /\ after = before
    BY <1>1, <1>3
  <1>4. QED BY <1>1, <1>2, <1>3

\* A run that ends or continues transfers that are alive makes no others so.
LEMMA RunKeepsAliveFinite ==
  ASSUME IsFiniteSet(Alive(transfer)), NEW T \in SUBSET Alive(transfer), RunEffect(T)
  PROVE  IsFiniteSet(Alive(transfer'))
  <1>1. Alive(transfer') \subseteq Alive(transfer)
    BY DEF RunEffect, Alive
  <1>2. QED BY <1>1, FS_Subset

\* Nothing runs any more when the timer is cleared.
LEMMA LastDone ==
  ASSUME IsFiniteSet(Alive(transfer')), last_done(transfer')
  PROVE  next_timeout(transfer') = "never"
  <1>1. Cardinality(Alive(transfer')) \in Nat /\ Cardinality(Alive(transfer')) <= 0
    BY FS_CardinalityType DEF last_done
  <1>2. Cardinality(Alive(transfer')) = 0
    BY <1>1
  <1>3. Alive(transfer') = {}
    BY <1>2, FS_EmptySet
  <1>4. QED BY <1>3, NextTimeout DEF Alive
-----------------------------------------------------------------------------
\* A datagram that adds a transfer keeps the invariant.
LEMMA DatagramKeepsInv ==
  ASSUME LoopInv, NEW e \in batch, handle_datagram(e)
  PROVE  LoopInv'
  <1>1. TypeOK /\ batch' \subseteq batch
    BY DEF LoopInv, LoopSound, handle_datagram
  <1>2. CASE UNCHANGED <<transfer, told, timer>>
    <2>1. /\ UNCHANGED <<conn, watch, events_map, refused, notifier, fired, stray, broken>>
          /\ stop' = stop \/ (stop' = TRUE /\ batch' = {})
      <3>1. UNCHANGED <<conn, watch, events_map, refused, notifier, fired, stray, broken>>
        BY DEF handle_datagram
      <3>2. stop' = stop \/ (stop' = TRUE /\ batch' = {})
        BY DEF handle_datagram
      <3>3. QED BY <3>1, <3>2
    <2>2. stop' \in BOOLEAN /\ (stop' => batch' = {})
      <3>1. stop \in BOOLEAN /\ (stop => batch = {})
        BY <1>1 DEF LoopInv, TypeOK
      <3>2. CASE stop' = stop
        BY <1>1, <3>1, <3>2
      <3>3. CASE stop' = TRUE /\ batch' = {}
        BY <3>3
      <3>4. QED BY <2>1, <3>2, <3>3
    <2>3. TypeOK'
      BY <1>1, <1>2, <2>1, <2>2 DEF TypeOK
    <2>4. QED BY <1>1, <1>2, <2>1, <2>2, <2>3
                 DEF LoopInv, LoopSound, SocketsFollowCurl, NoStrayEvents, TimerFollowsCurl
  <1>3. ASSUME NEW t \in Transfer, transfer[t] = "idle",
               transfer' = [transfer EXCEPT ![t] = "added"],
               timer_cb(transfer', timer, timer', told), UNCHANGED stop
        PROVE  LoopInv'
    <2>1. transfer' \in [Transfer -> TransferState]
      BY <1>1, <1>3 DEF TypeOK, TransferState
    <2>2. /\ told' = next_timeout(transfer')
          /\ told' \in {"never", "later", "now"}
          /\ timer' \in {"off", "armed", "expired"}
          /\ (told # "never" => timer # "off") => (told' # "never" => timer' # "off")
      BY <1>1, <1>3, TimerCallback DEF TypeOK
    <2>3. IsFiniteSet(Alive(transfer'))
      <3>1. Alive(transfer') = Alive(transfer) \cup {t}
        BY <1>1, <1>3 DEF Alive, TypeOK
      <3>2. QED BY <3>1, FS_AddElement DEF LoopInv
    <2>4. TypeOK'
      BY <1>1, <2>1, <2>2 DEF handle_datagram, TypeOK
    <2>5. SocketsFollowCurl' /\ NoStrayEvents' /\ (stop' => batch' = {})
      BY <1>1 DEF handle_datagram, LoopInv, LoopSound, SocketsFollowCurl, NoStrayEvents
    <2>6. TimerFollowsCurl'
      BY <2>2 DEF handle_datagram, LoopInv, TimerFollowsCurl
    <2>7. QED BY <2>3, <2>4, <2>5, <2>6 DEF LoopInv, LoopSound
  <1>4. QED BY <1>2, <1>3 DEF handle_datagram

\* What handle_timer and handle_socket have in common.
LEMMA RunKeepsInv ==
  ASSUME LoopInv, NEW T \in SUBSET Alive(transfer), RunEffect(T),
         told' = next_timeout(transfer'), told' \in {"never", "later", "now"},
         timer' \in {"off", "armed", "expired"},
         ~broken /\ told' # "never" => timer' # "off",
         batch' \subseteq batch, UNCHANGED <<fired, stop, stray, broken>>
  PROVE  LoopInv'
  <1>1. TypeOK'
    BY DEF LoopInv, LoopSound, TypeOK, RunEffect
  <1>2. IsFiniteSet(Alive(transfer'))
    BY RunKeepsAliveFinite DEF LoopInv
  <1>3. QED BY <1>1, <1>2 DEF LoopInv, LoopSound, NoStrayEvents, TimerFollowsCurl, RunEffect

\* So does the timer handler, also when libcurl fails.
LEMMA TimerKeepsInv ==
  ASSUME LoopInv, NEW e \in batch, handle_timer(e)
  PROVE  LoopInv'
  <1>1. /\ TypeOK /\ SocketsFollowCurl
        /\ batch' \subseteq batch /\ UNCHANGED <<fired, stop>>
    BY DEF LoopInv, LoopSound, handle_timer
  <1>2. CASE UNCHANGED <<curlVars, events_map, refused, timer, notifier, stray, broken>>
    BY <1>1, <1>2 DEF LoopInv, LoopSound, TypeOK, SocketsFollowCurl, NoStrayEvents,
                      TimerFollowsCurl, curlVars
  <1>3. ASSUME timer = "expired", curl_runs(expired),
               timer_cb(transfer', "off", timer', "forgotten"), UNCHANGED <<stray, broken>>
        PROVE  LoopInv'
    <2>1. expired \in SUBSET Alive(transfer) /\ expired \in SUBSET Transfer
      BY DEF expired, Alive
    <2>2. RunEffect(expired)
      BY <1>1, <1>3, <2>1, RunHasEffect
    <2>3. /\ told' = next_timeout(transfer')
          /\ told' \in {"never", "later", "now"}
          /\ timer' \in {"off", "armed", "expired"}
          /\ told' # "never" => timer' # "off"
      BY <1>3, TimerCallback
    <2>4. QED BY <1>1, <1>3, <2>1, <2>2, <2>3, RunKeepsInv
  <1>4. ASSUME timer' = "off", broken' = TRUE,
               UNCHANGED <<curlVars, events_map, refused, notifier, stray>>
        PROVE  LoopInv'
    BY <1>1, <1>4 DEF LoopInv, LoopSound, TypeOK, SocketsFollowCurl, NoStrayEvents,
                      TimerFollowsCurl, curlVars
  <1>5. QED BY <1>2, <1>3, <1>4 DEF handle_timer, timer_event_handler

\* So does the event of a socket.
LEMMA SocketKeepsInv ==
  ASSUME LoopInv, NEW e \in batch, handle_socket(e)
  PROVE  LoopInv'
  <1>1. /\ TypeOK /\ SocketsFollowCurl /\ e.fd \in Fd
        /\ batch' \subseteq batch /\ UNCHANGED <<fired, stop>>
    BY DEF LoopInv, LoopSound, handle_socket
  <1>2. CASE UNCHANGED <<curlVars, events_map, refused, timer, notifier, stray, broken>>
    BY <1>1, <1>2 DEF LoopInv, LoopSound, TypeOK, SocketsFollowCurl, NoStrayEvents,
                      TimerFollowsCurl, curlVars
  <1>3. ASSUME is_can_handle(e), socket_event_handler(e.fd)
        PROVE  LoopInv'
    \* The event is one the socket is linked for, so libcurl watches it.
    <2>1. UNCHANGED <<stray, broken>>
      <3>1. e.event \in events_map[e.fd]
        BY <1>1, <1>3 DEF is_can_handle
      <3>2. watch[e.fd] # "none"
        BY <1>1, <3>1 DEF SocketsFollowCurl
      <3>3. stray' = stray
        BY <1>1, <1>3, <3>2 DEF socket_event_handler, TypeOK
      <3>4. QED BY <1>3, <3>3 DEF socket_event_handler
    <2>2. CASE UNCHANGED <<curlVars, events_map, refused, timer, notifier>>
      BY <1>2, <2>1, <2>2
    <2>3. ASSUME NEW T \in SUBSET Alive(transfer), curl_runs(T),
                 NEW set \in {"off", "armed", "expired"},
                 timer_cb(transfer', timer, set, told),
                 timer' = IF last_done(transfer') THEN "off" ELSE set
          PROVE  LoopInv'
      <3>1. T \in SUBSET Transfer
        BY DEF Alive
      <3>2. RunEffect(T)
        BY <1>1, <2>3, <3>1, RunHasEffect
      <3>3. /\ told' = next_timeout(transfer')
            /\ told' \in {"never", "later", "now"}
            /\ (told # "never" => timer # "off") => (told' # "never" => set # "off")
        BY <1>1, <2>3, TimerCallback DEF TypeOK
      <3>4. IsFiniteSet(Alive(transfer'))
        BY <3>2, RunKeepsAliveFinite DEF LoopInv
      <3>5. ~broken /\ told' # "never" => timer' # "off"
        BY <2>3, <3>3, <3>4, LastDone DEF LoopInv, TimerFollowsCurl
      <3>6. timer' \in {"off", "armed", "expired"}
        BY <2>3
      <3>7. QED BY <1>1, <2>1, <3>2, <3>3, <3>5, <3>6, RunKeepsInv
    <2>4. ASSUME NEW T \in {{t \in Alive(transfer) : conn[t] = e.fd},
                           {t \in Alive(transfer) : conn[t] = e.fd} \cup expired}
          PROVE  T \in SUBSET Alive(transfer)
      BY DEF expired, Alive
    <2>5. QED BY <1>3, <2>2, <2>3, <2>4 DEF socket_event_handler
  <1>4. QED BY <1>2, <1>3 DEF handle_socket

\* So does the delivery of responses.
LEMMA NotifierKeepsInv ==
  ASSUME LoopInv, NEW e \in batch, handle_notifier(e)
  PROVE  LoopInv'
  <1>1. TypeOK /\ batch' \subseteq batch
    BY DEF LoopInv, LoopSound, handle_notifier
  <1>2. /\ transfer' \in [Transfer -> TransferState]
        /\ \A t \in Transfer : /\ transfer'[t] = "added" <=> transfer[t] = "added"
                               /\ transfer'[t] \in {"active", "due"}
                                    <=> transfer[t] \in {"active", "due"}
                               /\ transfer'[t] # transfer[t] => transfer[t] = "queued"
    BY <1>1 DEF handle_notifier, respose_notifier_event_handler, TypeOK, TransferState
  <1>3. Alive(transfer') = Alive(transfer)
    BY <1>2 DEF Alive
  <1>4. next_timeout(transfer') = next_timeout(transfer)
    BY <1>2, TimedAssumption DEF next_timeout
  <1>5. TypeOK'
    BY <1>1, <1>2 DEF handle_notifier, respose_notifier_event_handler, TypeOK
  <1>6. QED
    BY <1>1, <1>3, <1>4, <1>5
       DEF handle_notifier, respose_notifier_event_handler, LoopInv, LoopSound,
           SocketsFollowCurl, NoStrayEvents, TimerFollowsCurl

\* So do epoll_wait, the terminator and what happens outside.
LEMMA OtherStepsKeepInv ==
  ASSUME LoopInv,
         \/ epoll_wait
         \/ \E e \in batch : handle_terminator(e)
         \/ fire
         \/ timer_expires
         \/ UNCHANGED vars
  PROVE  LoopInv'
  <1>1. TypeOK
    BY DEF LoopInv, LoopSound
  <1>2. UNCHANGED <<curlVars, events_map, refused, notifier, stray, broken>>
    BY DEF epoll_wait, handle_terminator, fire, timer_expires, vars
  <1>3. /\ timer' \in {"off", "armed", "expired"}
        /\ timer # "off" => timer' # "off"
    BY <1>1 DEF epoll_wait, handle_terminator, fire, timer_expires, vars, TypeOK
  <1>4. /\ fired' \in BOOLEAN /\ stop' \in BOOLEAN
        /\ stop' => batch' = {}
    <2>1. fired \in BOOLEAN /\ stop \in BOOLEAN /\ (stop => batch = {})
      BY <1>1 DEF TypeOK, LoopInv
    <2>2. CASE epoll_wait
      BY <2>1, <2>2 DEF epoll_wait
    <2>3. CASE \E e \in batch : handle_terminator(e)
      BY <2>3 DEF handle_terminator, ends_loop
    <2>4. CASE fire \/ timer_expires \/ UNCHANGED vars
      <3>1. UNCHANGED <<stop, batch>> /\ (fired' = fired \/ fired' = TRUE)
        BY <2>4 DEF fire, timer_expires, vars
      <3>2. QED BY <2>1, <3>1
    <2>5. QED BY <2>2, <2>3, <2>4
  <1>5. batch' \subseteq Ready
    <2>1. CASE epoll_wait
      BY <2>1 DEF epoll_wait, Ready, Source, Event
    <2>2. CASE ~epoll_wait
      BY <1>1, <2>2 DEF handle_terminator, fire, timer_expires, vars, TypeOK
    <2>3. QED BY <2>1, <2>2
  <1>6. TypeOK'
    BY <1>1, <1>2, <1>3, <1>4, <1>5 DEF TypeOK, curlVars
  <1>7. QED
    BY <1>2, <1>3, <1>4, <1>6
       DEF LoopInv, LoopSound, SocketsFollowCurl, NoStrayEvents, TimerFollowsCurl, curlVars

\* So does a deadline that passes.
LEMMA DeadlineKeepsInv ==
  ASSUME LoopInv, NEW t \in Timed, deadline(t)
  PROVE  LoopInv'
  <1>1. TypeOK /\ t \in Transfer
    BY TimedAssumption DEF LoopInv, LoopSound
  <1>2. /\ transfer' \in [Transfer -> TransferState]
        /\ \A u \in Transfer : /\ transfer'[u] = "added" <=> transfer[u] = "added"
                               /\ transfer'[u] \in {"active", "due"}
                                    <=> transfer[u] \in {"active", "due"}
    BY <1>1 DEF deadline, TypeOK, TransferState
  <1>3. Alive(transfer') = Alive(transfer)
    BY <1>2 DEF Alive
  <1>4. next_timeout(transfer') = next_timeout(transfer)
    BY <1>2, TimedAssumption DEF next_timeout
  <1>5. TypeOK'
    BY <1>1, <1>2 DEF deadline, TypeOK
  <1>6. QED
    BY <1>1, <1>3, <1>4, <1>5
       DEF deadline, LoopInv, LoopSound, SocketsFollowCurl, NoStrayEvents, TimerFollowsCurl

\* The invariant holds when the loop begins.
LEMMA InvInitially == Init => LoopInv
  <1>1. SUFFICES ASSUME Init
                 PROVE  LoopInv
    OBVIOUS
  <1>2. Alive(transfer) = {}
    BY <1>1 DEF Init, Alive
  <1>3. IsFiniteSet(Alive(transfer))
    BY <1>2, FS_EmptySet
  <1>4. next_timeout(transfer) = "never"
    BY <1>2, NextTimeout DEF Alive
  <1>5. TypeOK
    BY <1>1 DEF Init, TypeOK, TransferState
  <1>6. QED
    BY <1>1, <1>3, <1>4, <1>5
       DEF Init, LoopInv, LoopSound, SocketsFollowCurl, NoStrayEvents, TimerFollowsCurl

\* The inductive invariant holds in every reachable state.
THEOREM LoopInvariant == Spec => []LoopInv
  <1>1. LoopInv /\ [Next]_vars => LoopInv'
    BY DatagramKeepsInv, TimerKeepsInv, SocketKeepsInv, NotifierKeepsInv, OtherStepsKeepInv,
       DeadlineKeepsInv DEF Next, loop, handle_event
  <1>2. QED BY <1>1, InvInitially, PTL DEF Spec

\* The epoll set follows libcurl and no event reaches libcurl late, for any
\* number of sockets, however their numbers are used again, and with sockets
\* that could not be linked.
THEOREM LoopIsSound == Spec => []LoopSound
  BY LoopInvariant, PTL DEF LoopInv

\* The one timer is never off while any transfer waits for it, unless a timeout
\* was lost: read, and curl_multi_socket_action failed.
THEOREM TimerIsOn == Spec => []TimerCoversTransfers
  <1>1. LoopInv => TimerCoversTransfers
    BY NextTimeout DEF LoopInv, TimerFollowsCurl, TimerCoversTransfers
  <1>2. QED BY <1>1, LoopInvariant, PTL
-----------------------------------------------------------------------------
(***************************************************************************)
(* Refinement: without its fairness, which is left to TLC, HttpService is  *)
(* implemented step by step.                                               *)
(***************************************************************************)

\* What the resolver sees of the transfers, as in Service.
seen(tr) ==
  [t \in Transfer |-> CASE tr[t] = "idle"      -> "idle"
                        [] tr[t] = "delivered" -> "answered"
                        [] OTHER               -> "pending"]

\* What the service sees of a transfer.
LEMMA Seen ==
  ASSUME NEW tr, NEW t \in Transfer
  PROVE  /\ tr[t] = "idle" => seen(tr)[t] = "idle"
         /\ tr[t] = "delivered" => seen(tr)[t] = "answered"
         /\ tr[t] \notin {"idle", "delivered"} => seen(tr)[t] = "pending"
  BY DEF seen

\* A step between states of a transfer that the resolver does not tell apart.
LEMMA Unseen ==
  ASSUME \A t \in Transfer :
           \/ transfer'[t] = transfer[t]
           \/ /\ transfer[t] \in {"added", "active", "due", "queued"}
              /\ transfer'[t] \in {"added", "active", "due", "queued"}
  PROVE  seen(transfer') = seen(transfer)
  <1>1. ASSUME NEW t \in Transfer
        PROVE  seen(transfer')[t] = seen(transfer)[t]
    BY Seen DEF seen
  <1>2. QED BY <1>1 DEF seen

\* The steps of the service, said of seen.
LEMMA ServiceSteps ==
  /\ Service!vars = <<seen(transfer), broken, stop>>
  /\ Service!vars' = <<seen(transfer'), broken', stop'>>
  /\ Service!Init <=> /\ seen(transfer) = [t \in Transfer |-> "idle"]
                      /\ broken = FALSE
                      /\ stop = FALSE
  /\ \A t \in Transfer :
       Service!Submit(t) <=> /\ ~stop /\ seen(transfer)[t] = "idle"
                             /\ seen(transfer') = [seen(transfer) EXCEPT ![t] = "pending"]
                             /\ UNCHANGED <<broken, stop>>
  /\ \A S \in SUBSET Transfer :
       Service!Reply(S) <=> /\ ~stop /\ S # {}
                            /\ \A t \in S : seen(transfer)[t] = "pending"
                            /\ seen(transfer') = [t \in Transfer |->
                                 IF t \in S THEN "answered" ELSE seen(transfer)[t]]
                            /\ UNCHANGED <<broken, stop>>
  /\ Service!Break <=> /\ ~stop /\ ~broken
                       /\ broken' = TRUE
                       /\ seen(transfer') = seen(transfer) /\ UNCHANGED stop
  /\ Service!End <=> /\ ~stop /\ stop' = TRUE
                     /\ seen(transfer') = seen(transfer) /\ UNCHANGED broken
  BY DEF Service!vars, Service!Init, Service!Submit, Service!Reply, Service!Break,
         Service!End, seen

\* A datagram that adds a transfer is a submission, and a closed socket ends the
\* service.
LEMMA DatagramIsSubmit ==
  ASSUME LoopInv, NEW e \in batch, handle_datagram(e)
  PROVE  Service!Next \/ UNCHANGED Service!vars
  <1>1. TypeOK /\ ~stop /\ UNCHANGED broken
    BY DEF LoopInv, LoopSound, handle_datagram
  <1>2. CASE transfer' = transfer /\ stop' = stop
    BY <1>1, <1>2, ServiceSteps DEF seen
  <1>3. CASE transfer' = transfer /\ stop' = TRUE
    <2>1. Service!End
      BY <1>1, <1>3, ServiceSteps
    <2>2. QED BY <2>1 DEF Service!Next
  <1>4. ASSUME NEW t \in Transfer, transfer[t] = "idle",
               transfer' = [transfer EXCEPT ![t] = "added"], stop' = stop
        PROVE  Service!Next
    <2>1. seen(transfer)[t] = "idle"
      BY <1>4, Seen
    <2>2. ASSUME NEW u \in Transfer
          PROVE  seen(transfer')[u] = IF u = t THEN "pending" ELSE seen(transfer)[u]
      BY <1>1, <1>4, Seen DEF TypeOK, seen
    <2>3. seen(transfer') = [seen(transfer) EXCEPT ![t] = "pending"]
      BY <2>2 DEF seen
    <2>4. Service!Submit(t)
      BY <1>1, <1>4, <2>1, <2>3, ServiceSteps
    <2>5. QED BY <2>4 DEF Service!Next
  <1>5. QED BY <1>2, <1>3, <1>4 DEF handle_datagram

\* The delivery of responses answers pending transfers.
LEMMA NotifierIsReply ==
  ASSUME LoopInv, NEW e \in batch, handle_notifier(e)
  PROVE  Service!Next \/ UNCHANGED Service!vars
  <1>0. PICK S \in SUBSET Transfer : \A t \in Transfer : t \in S <=> transfer[t] = "queued"
    <2>1. {t \in Transfer : transfer[t] = "queued"} \in SUBSET Transfer
      OBVIOUS
    <2>2. QED BY <2>1
  <1>1. /\ TypeOK /\ ~stop /\ UNCHANGED <<broken, stop>>
        /\ transfer' = [t \in Transfer |->
                          IF transfer[t] = "queued" THEN "delivered" ELSE transfer[t]]
    BY DEF LoopInv, LoopSound, handle_notifier, respose_notifier_event_handler
  <1>2. CASE S = {}
    <2>1. seen(transfer') = seen(transfer)
      BY <1>0, <1>1, <1>2, Unseen
    <2>2. QED BY <1>1, <2>1, ServiceSteps
  <1>3. CASE S # {}
    <2>1. \A t \in S : seen(transfer)[t] = "pending"
      BY <1>0, Seen
    <2>2. ASSUME NEW t \in Transfer
          PROVE  seen(transfer')[t] = IF t \in S THEN "answered" ELSE seen(transfer)[t]
      BY <1>0, <1>1, Seen DEF seen
    <2>3. seen(transfer') = [t \in Transfer |->
                               IF t \in S THEN "answered" ELSE seen(transfer)[t]]
      BY <2>2 DEF seen
    <2>4. Service!Reply(S)
      BY <1>1, <1>3, <2>1, <2>3, ServiceSteps
    <2>5. QED BY <2>4 DEF Service!Next
  <1>4. QED BY <1>2, <1>3

\* libcurl running transfers that are alive is not seen.
LEMMA RunIsUnseen ==
  ASSUME TypeOK, SocketsFollowCurl, NEW T \in SUBSET Alive(transfer), curl_runs(T)
  PROVE  seen(transfer') = seen(transfer)
  <1>1. T \in SUBSET Transfer
    BY DEF Alive
  <1>2. RunEffect(T)
    BY <1>1, RunHasEffect
  <1>3. QED BY <1>2, Unseen DEF RunEffect, Alive

\* The timer is invisible to the service, unless libcurl fails.
LEMMA TimerIsUnseenOrBreaks ==
  ASSUME LoopInv, NEW e \in batch, handle_timer(e)
  PROVE  Service!Next \/ UNCHANGED Service!vars
  <1>1. TypeOK /\ SocketsFollowCurl /\ ~stop /\ stop' = stop
    BY DEF LoopInv, LoopSound, handle_timer
  <1>2. seen(transfer') = seen(transfer)
    <2>1. CASE UNCHANGED curlVars
      BY <2>1 DEF curlVars
    <2>2. CASE curl_runs(expired)
      <3>1. expired \in SUBSET Alive(transfer)
        BY DEF expired, Alive
      <3>2. QED BY <1>1, <2>2, <3>1, RunIsUnseen
    <2>3. QED BY <2>1, <2>2 DEF handle_timer, timer_event_handler
  <1>3. broken' = broken \/ broken' = TRUE
    BY DEF handle_timer, timer_event_handler
  <1>4. CASE broken' = broken
    BY <1>1, <1>2, <1>4, ServiceSteps
  <1>5. CASE broken' = TRUE /\ ~broken
    <2>1. Service!Break
      BY <1>1, <1>2, <1>5, ServiceSteps
    <2>2. QED BY <2>1 DEF Service!Next
  <1>6. QED BY <1>1, <1>3, <1>4, <1>5 DEF TypeOK

\* The event of a socket is invisible.
LEMMA SocketIsUnseen ==
  ASSUME LoopInv, NEW e \in batch, handle_socket(e)
  PROVE  UNCHANGED Service!vars
  <1>1. TypeOK /\ SocketsFollowCurl /\ stop' = stop /\ broken' = broken
    BY DEF LoopInv, LoopSound, handle_socket, socket_event_handler
  <1>2. CASE UNCHANGED curlVars
    BY <1>1, <1>2, ServiceSteps DEF curlVars
  <1>3. ASSUME NEW T \in {{t \in Alive(transfer) : conn[t] = e.fd},
                         {t \in Alive(transfer) : conn[t] = e.fd} \cup expired},
               curl_runs(T)
        PROVE  UNCHANGED Service!vars
    <2>1. T \in SUBSET Alive(transfer)
      BY DEF expired, Alive
    <2>2. QED BY <1>1, <1>3, <2>1, RunIsUnseen, ServiceSteps
  <1>4. QED BY <1>2, <1>3 DEF handle_socket, socket_event_handler

\* The terminator ends the service.
LEMMA TerminatorIsEnd ==
  ASSUME LoopInv, NEW e \in batch, handle_terminator(e)
  PROVE  Service!Next
  <1>1. ~stop /\ stop' = TRUE /\ UNCHANGED <<transfer, broken>>
    BY DEF LoopInv, handle_terminator, ends_loop, curlVars
  <1>2. Service!End
    BY <1>1, ServiceSteps
  <1>3. QED BY <1>2 DEF Service!Next

\* All other steps are invisible.
LEMMA OthersAreUnseen ==
  ASSUME LoopInv,
         \/ epoll_wait
         \/ fire
         \/ timer_expires
         \/ \E t \in Timed : deadline(t)
         \/ UNCHANGED vars
  PROVE  UNCHANGED Service!vars
  <1>1. UNCHANGED <<broken, stop>>
    BY DEF epoll_wait, fire, timer_expires, deadline, vars
  <1>2. seen(transfer') = seen(transfer)
    <2>1. CASE transfer' = transfer
      BY <2>1
    <2>2. ASSUME NEW t \in Timed, deadline(t)
          PROVE  seen(transfer') = seen(transfer)
      BY <2>2, TimedAssumption, Unseen DEF deadline, LoopInv, LoopSound, TypeOK
    <2>3. QED BY <2>1, <2>2 DEF epoll_wait, fire, timer_expires, vars, curlVars
  <1>3. QED BY <1>1, <1>2, ServiceSteps

\* The loop and AsyncHttpClient do only what HttpService allows: a transfer is
\* answered once, after it was submitted and before the loop ended, and none is
\* submitted or answered after that.
THEOREM LoopImplementsService == Spec => Service!Spec
  <1>1. Init => Service!Init
    <2>1. SUFFICES ASSUME Init
                   PROVE  Service!Init
      OBVIOUS
    <2>2. ASSUME NEW t \in Transfer
          PROVE  seen(transfer)[t] = "idle"
      BY <2>1, Seen DEF Init
    <2>3. seen(transfer) = [t \in Transfer |-> "idle"]
      BY <2>2 DEF seen
    <2>4. QED BY <2>1, <2>3, ServiceSteps DEF Init
  <1>2. LoopInv /\ [Next]_vars => [Service!Next]_(Service!vars)
    BY DatagramIsSubmit, NotifierIsReply, TimerIsUnseenOrBreaks, SocketIsUnseen,
       TerminatorIsEnd, OthersAreUnseen DEF Next, loop, handle_event
  <1>3. QED BY <1>1, <1>2, LoopInvariant, PTL DEF Spec, Service!Spec
=============================================================================
