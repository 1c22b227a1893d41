--------------------------- MODULE ResolverProofs ---------------------------
(***************************************************************************)
(* Theorems about Resolver, for every set of clients, ids, drivers and     *)
(* configurations and any number of datagrams.                             *)
(***************************************************************************)
EXTENDS Resolver, FiniteSetTheorems, TLAPS

(***************************************************************************)
(* Lemmas about the histories: what an arrival and a reply add.            *)
(***************************************************************************)

\* An arrival appends d to received and leaves the receipts before it alone.
LEMMA ReceivedGrows ==
  ASSUME received \in Seq(Datagram), NEW d \in Datagram, recv_data(d)
  PROVE  /\ received' \in Seq(Datagram)
         /\ Len(received') = Len(received) + 1
         /\ Len(received) \in Nat
         /\ next_receipt = Len(received) + 1
         /\ received'[next_receipt] = d
         /\ \A n \in Receipt : received'[n] = received[n]
         /\ Receipt \subseteq Receipt'
         /\ next_receipt \in Receipt'
         /\ next_receipt \notin Receipt
         /\ Receipt' = Receipt \cup {next_receipt}
  BY DEF recv_data, next_receipt, Receipt

\* Appending to a sequence keeps its elements and adds one at the end.
LEMMA Appended ==
  ASSUME NEW S, NEW s \in Seq(S), NEW e \in S
  PROVE  /\ Append(s, e) \in Seq(S)
         /\ Len(Append(s, e)) = Len(s) + 1
         /\ Append(s, e)[Len(s) + 1] = e
         /\ \A k \in 1 .. Len(s) : Append(s, e)[k] = s[k]
  OBVIOUS

\* A sequence over a set is one over a larger set.
LEMMA SeqMonotone ==
  ASSUME NEW S, NEW T, S \subseteq T, NEW s \in Seq(S)
  PROVE  s \in Seq(T)
  OBVIOUS

\* The front and the rest of a sequence that is not empty.
LEMMA HeadTail ==
  ASSUME NEW S, NEW s \in Seq(S), s # <<>>
  PROVE  /\ Head(s) \in S
         /\ Head(s) = s[1]
         /\ Len(s) \in Nat
         /\ Len(s) >= 1
         /\ Tail(s) \in Seq(S)
         /\ Len(Tail(s)) = Len(s) - 1
         /\ \A k \in 1 .. Len(Tail(s)) : Tail(s)[k] = s[k + 1]
  OBVIOUS
-----------------------------------------------------------------------------
(***************************************************************************)
(* Type correctness.                                                       *)
(***************************************************************************)

\* What is said of the receipts stays true when one is added.
LEMMA ArrivalTypes ==
  ASSUME TypeOK, NEW d \in Datagram, recv_data(d)
  PROVE  /\ received' \in Seq(Datagram)
         /\ waiting_requests \in [Id -> 0 .. Len(received')]
         /\ emplace(d.id, next_receipt) \in [Id -> 0 .. Len(received')]
         /\ transfers \subseteq Transfer'
         /\ response_queue \in Seq(Response')
         /\ provisional \subseteq Receipt'
         /\ finals \in Seq(Final')
  <1>1. /\ received' \in Seq(Datagram)
        /\ Receipt \subseteq Receipt'
        /\ Len(received) \in Nat
        /\ Len(received') = Len(received) + 1
        /\ next_receipt = Len(received) + 1
    BY ReceivedGrows DEF TypeOK
  <1>2. Transfer \subseteq Transfer' /\ Response \subseteq Response' /\ Final \subseteq Final'
    BY <1>1 DEF Transfer, Response, Final
  <1>3. response_queue \in Seq(Response') /\ finals \in Seq(Final')
    BY <1>2, SeqMonotone DEF TypeOK
  <1>4. waiting_requests \in [Id -> 0 .. Len(received')]
    BY <1>1 DEF TypeOK
  <1>5. emplace(d.id, next_receipt) \in [Id -> 0 .. Len(received')]
    BY <1>1, <1>4, DatagramAssumption DEF emplace
  <1>6. transfers \subseteq Transfer' /\ provisional \subseteq Receipt'
    BY <1>1, <1>2 DEF TypeOK
  <1>7. QED BY <1>1, <1>3, <1>4, <1>5, <1>6

\* An error reply is a Final of the state it is sent in.
LEMMA ErrorReplyType ==
  ASSUME NEW type, NEW req \in Receipt', NEW cause \in Receipt', NEW code \in ErrorId,
         NEW at \in Receipt',
         finals \in Seq(Final'), send_error_reply(type, req, cause, code, at)
  PROVE  finals' \in Seq(Final')
  BY Appended DEF send_error_reply, Final

\* So is a result, and the entry cached with it is a cache entry.
LEMMA DoneType ==
  ASSUME NEW d \in Datagram, NEW asked \in Data, NEW req \in Receipt', NEW cause \in Receipt',
         NEW drv \in Driver, NEW at \in Receipt',
         finals \in Seq(Final'), synced \subseteq CacheEntry, requests_finished \in Nat,
         handle_request_is_done(d, asked, req, cause, drv, at)
  PROVE  /\ finals' \in Seq(Final')
         /\ synced' \subseteq CacheEntry
         /\ requests_finished' \in Nat
  <1>1. finals' \in Seq(Final')
    BY Appended DEF handle_request_is_done, send_reply, Final, ErrorId, NO_ERROR
  <1>2. synced' \subseteq CacheEntry
    BY DatagramAssumption DEF handle_request_is_done, CacheEntry
  <1>3. QED BY <1>1, <1>2 DEF handle_request_is_done

\* A datagram, whichever way it takes through resolve(), keeps the types.
LEMMA ArrivalKeepsTypes ==
  ASSUME TypeOK, NEW d \in Datagram, on_data_received(d)
  PROVE  TypeOK'
  <1>0. recv_data(d)
    BY DEF on_data_received, parse_error, resolve_unknown_database, resolve_unsupported_type,
           resolve_failed, resolve_done, http_request_started, http_request_throws,
           http_request_not_started, make_http_request, driver_resolve, send_provisional_reply
  <1>1. /\ received' \in Seq(Datagram)
        /\ waiting_requests \in [Id -> 0 .. Len(received')]
        /\ emplace(d.id, next_receipt) \in [Id -> 0 .. Len(received')]
        /\ transfers \subseteq Transfer'
        /\ response_queue \in Seq(Response')
        /\ provisional \subseteq Receipt'
        /\ finals \in Seq(Final')
    BY <1>0, ArrivalTypes
  <1>2. next_receipt \in Receipt'
    BY <1>0, ReceivedGrows DEF TypeOK
  <1>3. d.db \in DbId /\ d.data \in Data
    BY DatagramAssumption
  <1>4. mDriversMap[d.db] \in Driver \cup {NoDriver}
    BY <1>3 DEF TypeOK
  <1>c. /\ PSQL_INVALID_REQUEST \in ErrorId
        /\ GENERAL_RESOLVING_ERROR \in ErrorId
        /\ DRIVER_RESOLVING_ERROR \in ErrorId
    BY DEF ErrorId
  <1>5. CASE parse_error(d)
    <2>1. finals' \in Seq(Final')
      BY <1>1, <1>2, <1>5, <1>c, ErrorReplyType DEF parse_error
    <2>2. QED BY <1>1, <2>1, <1>5 DEF parse_error, TypeOK, httpVars, metrics
  <1>6. CASE resolve_unknown_database(d)
    <2>1. finals' \in Seq(Final')
      BY <1>1, <1>2, <1>6, <1>c, ErrorReplyType DEF resolve_unknown_database
    <2>2. QED BY <1>1, <1>2, <2>1, <1>6
              DEF resolve_unknown_database, send_provisional_reply, TypeOK, httpVars, metrics
  <1>7. CASE resolve_unsupported_type(d)
    <2>1. finals' \in Seq(Final')
      BY <1>1, <1>2, <1>7, <1>c, ErrorReplyType DEF resolve_unsupported_type
    <2>2. QED BY <1>1, <1>2, <2>1, <1>7
              DEF resolve_unsupported_type, send_provisional_reply, TypeOK, httpVars, metrics
  <1>8. CASE resolve_failed(d)
    <2>1. finals' \in Seq(Final')
      BY <1>1, <1>2, <1>8, <1>c, ErrorReplyType DEF resolve_failed
    <2>2. QED BY <1>1, <1>2, <2>1, <1>8
              DEF resolve_failed, driver_resolve, send_provisional_reply, TypeOK, httpVars, metrics
  <1>9. CASE resolve_done(d)
    <2>1. mDriversMap[d.db] \in Driver
      BY <1>4, <1>9 DEF resolve_done, driver_resolve
    <2>2. /\ finals' \in Seq(Final')
          /\ synced' \subseteq CacheEntry
          /\ requests_finished' \in Nat
      BY <1>1, <1>2, <1>3, <1>9, <2>1, DoneType DEF resolve_done, TypeOK
    <2>3. QED BY <1>1, <1>2, <2>2, <1>9
              DEF resolve_done, driver_resolve, send_provisional_reply, TypeOK, httpVars, metrics
  <1>10. CASE http_request_started(d)
    <2>1. mDriversMap[d.db] \in Driver
      BY <1>4, <1>10 DEF http_request_started, make_http_request, driver_resolve
    <2>2. transfers' \subseteq Transfer'
      BY <1>1, <1>2, <1>10, <2>1 DEF http_request_started, Transfer
    <2>3. QED BY <1>1, <1>2, <2>2, <1>10
              DEF http_request_started, make_http_request, driver_resolve,
                  send_provisional_reply, TypeOK, metrics
  <1>11. CASE http_request_throws(d)
    <2>1. finals' \in Seq(Final')
      BY <1>1, <1>2, <1>11, <1>c, ErrorReplyType DEF http_request_throws
    <2>2. QED BY <1>1, <1>2, <2>1, <1>11
              DEF http_request_throws, make_http_request, driver_resolve,
                  send_provisional_reply, TypeOK, metrics
  <1>12. CASE http_request_not_started(d)
    BY <1>1, <1>2, <1>12
       DEF http_request_not_started, make_http_request, driver_resolve,
           send_provisional_reply, TypeOK, metrics
  <1>13. QED
    BY <1>5, <1>6, <1>7, <1>8, <1>9, <1>10, <1>11, <1>12 DEF on_data_received

\* The receipt of a response, of the request found for it, and their parts.
LEMMA ResponseTypes ==
  ASSUME TypeOK, response_taken
  PROVE  /\ received' = received
         /\ Receipt' = Receipt
         /\ response \in Response
         /\ response_queue' \in Seq(Response')
         /\ received[response.n] \in Datagram
         /\ request \in 0 .. Len(received)
         /\ request # 0 => /\ request \in Receipt
                           /\ Len(received) \in Receipt
                           /\ received[request] \in Datagram
                           /\ driver \in Driver \cup {NoDriver}
                           /\ erase(received[request].id) \in [Id -> 0 .. Len(received)]
  <1>1. received' = received /\ response_queue \in Seq(Response) /\ response_queue # <<>>
    BY DEF response_taken, TypeOK
  <1>2. Receipt' = Receipt /\ Response' = Response
    BY <1>1 DEF Receipt, Response
  <1>3. response \in Response /\ response_queue' \in Seq(Response)
    BY <1>1, HeadTail DEF response, response_taken
  <1>4. response.n \in 1 .. Len(received) /\ received[response.n] \in Datagram
    BY <1>3 DEF Response, Receipt, TypeOK
  <1>5. request \in 0 .. Len(received)
    BY <1>4, DatagramAssumption DEF request, find, TypeOK
  <1>6. ASSUME request # 0
        PROVE  /\ request \in Receipt
               /\ Len(received) \in Receipt
               /\ received[request] \in Datagram
    BY <1>5, <1>6 DEF Receipt, TypeOK
  <1>7. ASSUME request # 0
        PROVE  /\ driver \in Driver \cup {NoDriver}
               /\ erase(received[request].id) \in [Id -> 0 .. Len(received)]
    BY <1>6, <1>7, DatagramAssumption DEF driver, erase, TypeOK
  <1>8. QED BY <1>1, <1>2, <1>3, <1>4, <1>5, <1>6, <1>7

\* So does a response.
LEMMA ResponseKeepsTypes ==
  ASSUME TypeOK, on_http_response_received
  PROVE  TypeOK'
  <1>0. response_taken
    BY DEF on_http_response_received, request_not_found, parse_response_unknown_database,
           parse_response_unsupported_type, parse_response_http_error, parse_response_failed,
           parse_response_done, driver_found, request_found
  <1>1. /\ received' = received
        /\ Receipt' = Receipt
        /\ response \in Response
        /\ response_queue' \in Seq(Response')
        /\ received[response.n] \in Datagram
        /\ request # 0 => /\ request \in Receipt
                          /\ Len(received) \in Receipt
                          /\ received[request] \in Datagram
                          /\ driver \in Driver \cup {NoDriver}
                          /\ erase(received[request].id) \in [Id -> 0 .. Len(received)]
    BY <1>0, ResponseTypes
  <1>2. /\ Transfer' = Transfer /\ Final' = Final
        /\ finals \in Seq(Final')
        /\ transfers' \in SUBSET Transfer'
        /\ provisional' \subseteq Receipt'
    BY <1>0, <1>1 DEF Transfer, Final, TypeOK, response_taken
  <1>3. response.n \in Receipt' /\ response.drv \in Driver
    BY <1>1 DEF Response
  <1>4. CASE request_not_found
    BY <1>0, <1>1, <1>2, <1>4 DEF request_not_found, response_taken, TypeOK
  <1>5. ASSUME request_found, NEW code \in ErrorId, response_error(code), 
               requests_failed' \in Nat
        PROVE  TypeOK'
    <2>1. finals' \in Seq(Final')
      BY <1>1, <1>2, <1>3, <1>5, ErrorReplyType DEF request_found, response_error
    <2>2. QED BY <1>0, <1>1, <1>2, <1>5, <2>1
              DEF request_found, response_error, response_taken, TypeOK
  <1>6. GENERAL_RESOLVING_ERROR \in ErrorId /\ \A outcome : error_code(outcome) \in ErrorId
    BY DEF ErrorId, error_code
  <1>7. requests_failed \in Nat /\ requests_failed + 1 \in Nat
    BY DEF TypeOK
  <1>8. CASE parse_response_unknown_database
    BY <1>5, <1>6, <1>7, <1>8 DEF parse_response_unknown_database
  <1>9. CASE parse_response_unsupported_type
    BY <1>5, <1>6, <1>7, <1>9 DEF parse_response_unsupported_type
  <1>10. CASE parse_response_http_error
    BY <1>5, <1>6, <1>7, <1>10 DEF parse_response_http_error, driver_found
  <1>11. CASE parse_response_failed
    BY <1>5, <1>6, <1>7, <1>11 DEF parse_response_failed, driver_found
  <1>12. CASE parse_response_done
    <2>1. request_found /\ request # 0 /\ driver \in Driver
      BY <1>1, <1>12 DEF parse_response_done, driver_found, request_found
    <2>2. received[response.n].data \in Data
      BY <1>1, DatagramAssumption
    <2>3. handle_request_is_done(received[request], received[response.n].data, request,
                                 response.n, driver, Len(received))
      BY <1>12 DEF parse_response_done
    <2>4. /\ finals' \in Seq(Final')
          /\ synced' \subseteq CacheEntry
          /\ requests_finished' \in Nat
      BY <1>1, <1>2, <1>3, <2>1, <2>2, <2>3, DoneType DEF TypeOK
    <2>5. QED BY <1>0, <1>1, <1>2, <1>12, <2>1, <2>4
              DEF parse_response_done, request_found, response_taken, TypeOK
  <1>13. QED
    BY <1>4, <1>8, <1>9, <1>10, <1>11, <1>12 DEF on_http_response_received

\* A step of the HTTP client or a reload keeps the receipts, so their types.
LEMMA OtherStepsKeepTypes ==
  ASSUME TypeOK,
         \/ \E t \in transfers, status \in Status : check_multi_info(t, status)
         \/ respose_notifier_event_handler
         \/ drain_end
         \/ configure
         \/ UNCHANGED vars
  PROVE  TypeOK'
  <1>1. ASSUME received' = received
        PROVE  /\ Receipt' = Receipt /\ Transfer' = Transfer
               /\ Response' = Response /\ Final' = Final
    BY <1>1 DEF Receipt, Transfer, Response, Final
  <1>2. ASSUME NEW t \in transfers, NEW status \in Status, check_multi_info(t, status)
        PROVE  TypeOK'
    <2>1. [n |-> t.n, drv |-> t.drv, status |-> status] \in Response
      BY DEF TypeOK, Transfer, Response
    <2>2. response_queue' \in Seq(Response)
      BY <1>2, <2>1, Appended DEF check_multi_info, TypeOK
    <2>3. QED BY <1>1, <1>2, <2>2
              DEF check_multi_info, remove_handle, notify_respose_available, TypeOK, metrics
  <1>3. CASE respose_notifier_event_handler
    BY <1>1, <1>3 DEF respose_notifier_event_handler, TypeOK, metrics
  <1>4. CASE drain_end
    BY <1>1, <1>4 DEF drain_end, TypeOK, metrics
  <1>5. CASE configure
    BY <1>1, <1>5, ConfigAssumption DEF configure, TypeOK, httpVars, metrics
  <1>6. CASE UNCHANGED vars
    BY <1>1, <1>6 DEF vars, TypeOK, httpVars, metrics
  <1>7. QED BY <1>2, <1>3, <1>4, <1>5, <1>6

\* The types hold at start-up.
LEMMA TypeCorrectInitially == Init => TypeOK
  <1>1. ASSUME Init
        PROVE  waiting_requests \in [Id -> 0 .. Len(received)]
    BY <1>1 DEF Init
  <1>2. ASSUME Init
        PROVE  mDriversMap \in [DbId -> Driver \cup {NoDriver}]
    BY <1>2, ConfigAssumption DEF Init
  <1>3. ASSUME Init
        PROVE  /\ received \in Seq(Datagram)
               /\ response_queue \in Seq(Response)
               /\ finals \in Seq(Final)
    BY <1>3 DEF Init
  <1>4. ASSUME Init
        PROVE  /\ transfers \subseteq Transfer
               /\ provisional \subseteq Receipt
               /\ synced \subseteq CacheEntry
    BY <1>4 DEF Init
  <1>5. ASSUME Init
        PROVE  /\ notified \in BOOLEAN /\ draining \in BOOLEAN
               /\ requests_count \in Nat
               /\ requests_failed \in Nat
               /\ requests_finished \in Nat
    BY <1>5 DEF Init
  <1>6. QED BY <1>1, <1>2, <1>3, <1>4, <1>5 DEF TypeOK

\* The type invariant holds in every reachable state: in particular the
\* waiting map, the transfers, the queue and the replies name receipts only.
THEOREM TypeCorrect == Spec => []TypeOK
  <1>1. Init => TypeOK
    BY TypeCorrectInitially
  <1>2. TypeOK /\ [Next]_vars => TypeOK'
    BY ArrivalKeepsTypes, ResponseKeepsTypes, OtherStepsKeepTypes DEF Next
  <1>3. QED BY <1>1, <1>2, PTL DEF Spec
-----------------------------------------------------------------------------
(***************************************************************************)
(* What a handler does to the map, the transfers, the queue and the        *)
(* replies, whichever of its branches it takes.  The invariants below are  *)
(* proved from these effects and not branch by branch.                     *)
(***************************************************************************)

\* f is the final reply a step sends; a positive one comes from a driver of
\* the given type.
Sends(f, req, cause, at, type) ==
  /\ f \in Final'
  /\ f.req = req
  /\ f.cause = cause
  /\ f.at = at
  /\ f.code = NO_ERROR => f.by.type = type
  /\ finals' = Append(finals, f)

Refused(d) ==
  /\ waiting_requests' = waiting_requests
  /\ transfers' = transfers
  /\ provisional' = provisional
  /\ \/ finals' = finals
     \/ \E f : Sends(f, next_receipt, next_receipt, next_receipt, d.type)

AnsweredAtOnce(d) ==
  /\ waiting_requests' = waiting_requests
  /\ transfers' = transfers
  /\ provisional' = provisional \cup {next_receipt}
  /\ \E f : Sends(f, next_receipt, next_receipt, next_receipt, d.type)

Started(d) ==
  /\ waiting_requests' = emplace(d.id, next_receipt)
  /\ \E t \in Transfer' : t.n = next_receipt /\ transfers' = transfers \cup {t}
  /\ provisional' = provisional \cup {next_receipt}
  /\ finals' = finals

Threw(d) ==
  /\ "throw" \in SetupFault
  /\ waiting_requests' = emplace(d.id, next_receipt)
  /\ transfers' = transfers
  /\ provisional' = provisional \cup {next_receipt}
  /\ \E f : /\ Sends(f, next_receipt, next_receipt, next_receipt, d.type)
           /\ f.code = GENERAL_RESOLVING_ERROR

NotStarted(d) ==
  /\ "fail" \in SetupFault
  /\ waiting_requests' = emplace(d.id, next_receipt)
  /\ transfers' = transfers
  /\ provisional' = provisional \cup {next_receipt}
  /\ finals' = finals

ArrivalEffect(d) ==
  /\ recv_data(d)
  /\ response_queue' = response_queue
  /\ notified' = notified
  /\ draining' = draining
  /\ \A e \in synced' : e \in synced \/ e.dst = e.asked
  /\ Refused(d) \/ AnsweredAtOnce(d) \/ Started(d) \/ Threw(d) \/ NotStarted(d)

ResponseEffect ==
  /\ response_taken
  /\ \/ /\ request = 0
        /\ waiting_requests' = waiting_requests
        /\ finals' = finals
        /\ synced' = synced
     \/ /\ request # 0
        /\ waiting_requests' = erase(received[request].id)
        /\ \E f : Sends(f, request, response.n, Len(received), received[request].type)
        /\ \A e \in synced' :
             \/ e \in synced
             \/ e.dst = received[request].data /\ e.asked = received[response.n].data

\* An error reply to a request of a known type is always sent.
LEMMA ErrorReplySent ==
  ASSUME NEW type \in ReqType, NEW req \in Receipt', NEW cause \in Receipt',
         NEW code \in ErrorId \ {NO_ERROR}, NEW at \in Receipt',
         send_error_reply(type, req, cause, code, at)
  PROVE  \E f : Sends(f, req, cause, at, type) /\ f.code = code
  <1> DEFINE f == [req |-> req, cause |-> cause, code |-> code,
                   by |-> NoDriver, at |-> at]
  <1>1. f \in Final'
    BY DEF Final
  <1>2. finals' = Append(finals, f)
    BY DEF send_error_reply, error_reply_sent, ReqType
  <1>3. Sends(f, req, cause, at, type)
    BY <1>1, <1>2 DEF Sends
  <1>4. QED BY <1>3

\* A result comes from the driver that handled it.
LEMMA ReplySent ==
  ASSUME NEW d, NEW asked, NEW req \in Receipt', NEW cause \in Receipt', NEW drv \in Driver,
         NEW at \in Receipt',
         handle_request_is_done(d, asked, req, cause, drv, at)
  PROVE  /\ \E f : Sends(f, req, cause, at, drv.type)
         /\ \A e \in synced' : e \in synced \/ (e.dst = d.data /\ e.asked = asked)
  <1> DEFINE f == [req |-> req, cause |-> cause, code |-> NO_ERROR,
                   by |-> drv, at |-> at]
  <1>1. f \in Final'
    BY DEF Final, ErrorId
  <1>2. Sends(f, req, cause, at, drv.type)
    BY <1>1 DEF Sends, handle_request_is_done, send_reply
  <1>3. QED BY <1>2 DEF handle_request_is_done

\* Every branch of on_data_received has the effect.
LEMMA ArrivalHasEffect ==
  ASSUME TypeOK, NEW d \in Datagram, on_data_received(d)
  PROVE  ArrivalEffect(d)
  <1>0. recv_data(d)
    BY DEF on_data_received, parse_error, resolve_unknown_database, resolve_unsupported_type,
           resolve_failed, resolve_done, http_request_started, http_request_throws,
           http_request_not_started, make_http_request, driver_resolve, send_provisional_reply
  <1>2. next_receipt \in Receipt'
    BY <1>0, ReceivedGrows DEF TypeOK
  <1>3. d.db \in DbId /\ d.type \in ReqType
    BY DatagramAssumption
  <1>4. mDriversMap[d.db] \in Driver \cup {NoDriver}
    BY <1>3 DEF TypeOK
  <1>c. /\ PSQL_INVALID_REQUEST \in ErrorId \ {NO_ERROR}
        /\ GENERAL_RESOLVING_ERROR \in ErrorId \ {NO_ERROR}
        /\ DRIVER_RESOLVING_ERROR \in ErrorId \ {NO_ERROR}
    BY DEF ErrorId, NO_ERROR, PSQL_INVALID_REQUEST, GENERAL_RESOLVING_ERROR,
           DRIVER_RESOLVING_ERROR
  <1>5. CASE parse_error(d)
    <2> DEFINE f == [req |-> next_receipt, cause |-> next_receipt,
                     code |-> PSQL_INVALID_REQUEST, by |-> NoDriver,
                     at |-> next_receipt]
    <2>1. f \in Final'
      BY <1>2, <1>c DEF Final
    <2>2. finals' = finals \/ finals' = Append(finals, f)
      BY <1>5 DEF parse_error, send_error_reply
    <2>3. finals' = finals \/ Sends(f, next_receipt, next_receipt, next_receipt, d.type)
      BY <1>c, <2>1, <2>2 DEF Sends
    <2>4. Refused(d)
      BY <1>5, <2>3 DEF parse_error, Refused, httpVars
    <2>5. QED BY <1>0, <1>5, <2>4 DEF parse_error, ArrivalEffect, httpVars
  <1>6. CASE resolve_unknown_database(d)
    <2>1. \E f : Sends(f, next_receipt, next_receipt, next_receipt, d.type)
      BY <1>2, <1>3, <1>6, <1>c, ErrorReplySent DEF resolve_unknown_database
    <2>2. AnsweredAtOnce(d)
      BY <1>6, <2>1 DEF resolve_unknown_database, send_provisional_reply, AnsweredAtOnce, httpVars
    <2>3. QED BY <1>0, <1>6, <2>2 DEF resolve_unknown_database, ArrivalEffect, httpVars
  <1>7. CASE resolve_unsupported_type(d)
    <2>1. \E f : Sends(f, next_receipt, next_receipt, next_receipt, d.type)
      BY <1>2, <1>3, <1>7, <1>c, ErrorReplySent DEF resolve_unsupported_type
    <2>2. AnsweredAtOnce(d)
      BY <1>7, <2>1 DEF resolve_unsupported_type, send_provisional_reply, AnsweredAtOnce, httpVars
    <2>3. QED BY <1>0, <1>7, <2>2 DEF resolve_unsupported_type, ArrivalEffect, httpVars
  <1>8. CASE resolve_failed(d)
    <2>1. \E f : Sends(f, next_receipt, next_receipt, next_receipt, d.type)
      BY <1>2, <1>3, <1>8, <1>c, ErrorReplySent DEF resolve_failed
    <2>2. AnsweredAtOnce(d)
      BY <1>8, <2>1 DEF resolve_failed, driver_resolve, send_provisional_reply, AnsweredAtOnce,
                        httpVars
    <2>3. QED BY <1>0, <1>8, <2>2 DEF resolve_failed, ArrivalEffect, httpVars
  <1>9. CASE resolve_done(d)
    <2>1. mDriversMap[d.db] \in Driver /\ mDriversMap[d.db].type = d.type
      BY <1>4, <1>9 DEF resolve_done, driver_resolve, type_supported
    <2>2. /\ \E f : Sends(f, next_receipt, next_receipt, next_receipt, mDriversMap[d.db].type)
          /\ \A e \in synced' : e \in synced \/ (e.dst = d.data /\ e.asked = d.data)
      BY <1>2, <1>9, <2>1, ReplySent DEF resolve_done
    <2>3. AnsweredAtOnce(d)
      BY <1>9, <2>1, <2>2 DEF resolve_done, driver_resolve, send_provisional_reply,
                              AnsweredAtOnce, httpVars
    <2>4. QED BY <1>0, <1>9, <2>2, <2>3 DEF resolve_done, ArrivalEffect, httpVars
  <1>10. CASE http_request_started(d)
    <2>1. mDriversMap[d.db] \in Driver
      BY <1>4, <1>10 DEF http_request_started, make_http_request, driver_resolve
    <2>2. [n |-> next_receipt, drv |-> mDriversMap[d.db]] \in Transfer'
      BY <1>2, <2>1 DEF Transfer
    <2>3. Started(d)
      BY <1>10, <2>2 DEF http_request_started, make_http_request, driver_resolve,
                         send_provisional_reply, Started
    <2>4. QED BY <1>0, <1>10, <2>3 DEF http_request_started, make_http_request, ArrivalEffect
  <1>11. CASE http_request_throws(d)
    <2>1. \E f : /\ Sends(f, next_receipt, next_receipt, next_receipt, d.type)
                /\ f.code = GENERAL_RESOLVING_ERROR
      BY <1>2, <1>3, <1>11, <1>c, ErrorReplySent DEF http_request_throws
    <2>2. Threw(d)
      BY <1>11, <2>1 DEF http_request_throws, make_http_request, driver_resolve,
                         send_provisional_reply, Threw
    <2>3. QED BY <1>0, <1>11, <2>2 DEF http_request_throws, make_http_request, ArrivalEffect
  <1>12. CASE http_request_not_started(d)
    <2>1. NotStarted(d)
      BY <1>12 DEF http_request_not_started, make_http_request, driver_resolve,
                   send_provisional_reply, NotStarted
    <2>2. QED BY <1>0, <1>12, <2>1 DEF http_request_not_started, make_http_request, ArrivalEffect
  <1>13. QED
    BY <1>5, <1>6, <1>7, <1>8, <1>9, <1>10, <1>11, <1>12 DEF on_data_received

\* Every branch of on_http_response_received has the effect.
LEMMA ResponseHasEffect ==
  ASSUME TypeOK, on_http_response_received
  PROVE  ResponseEffect
  <1>0. response_taken
    BY DEF on_http_response_received, request_not_found, parse_response_unknown_database,
           parse_response_unsupported_type, parse_response_http_error, parse_response_failed,
           parse_response_done, driver_found, request_found
  <1>1. /\ Receipt' = Receipt
        /\ response \in Response
        /\ request # 0 => /\ request \in Receipt
                          /\ Len(received) \in Receipt
                          /\ received[request] \in Datagram
                          /\ driver \in Driver \cup {NoDriver}
    BY <1>0, ResponseTypes
  <1>2. response.n \in Receipt' /\ response.drv \in Driver
    BY <1>1 DEF Response
  <1>3. CASE request_not_found
    BY <1>0, <1>3 DEF request_not_found, ResponseEffect
  <1>4. ASSUME request_found, NEW code \in ErrorId \ {NO_ERROR}, response_error(code)
        PROVE  ResponseEffect
    <2>1. request # 0 /\ received[request].type \in ReqType
      BY <1>1, <1>4, DatagramAssumption DEF request_found
    <2>2. \E f : Sends(f, request, response.n, Len(received), received[request].type)
      BY <1>1, <1>2, <1>4, <2>1, ErrorReplySent DEF response_error
    <2>3. QED BY <1>0, <1>4, <2>1, <2>2 DEF request_found, response_error, ResponseEffect
  <1>5. /\ GENERAL_RESOLVING_ERROR \in ErrorId \ {NO_ERROR}
        /\ \A outcome : error_code(outcome) \in ErrorId \ {NO_ERROR}
    BY DEF ErrorId, error_code, NO_ERROR, GENERAL_RESOLVING_ERROR, DRIVER_RESOLVING_ERROR
  <1>6. CASE parse_response_unknown_database
    BY <1>4, <1>5, <1>6 DEF parse_response_unknown_database
  <1>7. CASE parse_response_unsupported_type
    BY <1>4, <1>5, <1>7 DEF parse_response_unsupported_type
  <1>8. CASE parse_response_http_error
    BY <1>4, <1>5, <1>8 DEF parse_response_http_error, driver_found
  <1>9. CASE parse_response_failed
    BY <1>4, <1>5, <1>9 DEF parse_response_failed, driver_found
  <1>10. CASE parse_response_done
    <2>1. /\ request # 0
          /\ driver \in Driver
          /\ driver.type = received[request].type
          /\ waiting_requests' = erase(received[request].id)
      BY <1>1, <1>10 DEF parse_response_done, driver_found, request_found, type_supported
    <2>2. /\ \E f : Sends(f, request, response.n, Len(received), driver.type)
          /\ \A e \in synced' :
               \/ e \in synced
               \/ e.dst = received[request].data /\ e.asked = received[response.n].data
      BY <1>1, <1>2, <1>10, <2>1, ReplySent DEF parse_response_done
    <2>3. QED BY <1>0, <2>1, <2>2 DEF ResponseEffect
  <1>11. QED BY <1>3, <1>6, <1>7, <1>8, <1>9, <1>10 DEF on_http_response_received
-----------------------------------------------------------------------------
(***************************************************************************)
(* HandOver and OneReplyPerReceipt are inductive together.                 *)
(***************************************************************************)

ReplyInv == TypeOK /\ HandOver /\ OneReplyPerReceipt

\* The receipts named in a state are older than the next one.
LEMMA NextReceiptIsFresh ==
  ASSUME TypeOK
  PROVE  /\ \A t \in transfers : t.n \in Receipt /\ t.n # next_receipt
         /\ \A k \in 1 .. Len(response_queue) :
              response_queue[k].n \in Receipt /\ response_queue[k].n # next_receipt
         /\ \A k \in 1 .. Len(finals) :
              /\ finals[k].cause \in Receipt /\ finals[k].cause # next_receipt
              /\ finals[k].req \in Receipt /\ finals[k].req # next_receipt
         /\ \A i \in Id : waiting_requests[i] # 0 =>
              waiting_requests[i] \in Receipt /\ waiting_requests[i] # next_receipt
         /\ \A n \in provisional : n \in Receipt /\ n # next_receipt
         /\ next_receipt # 0
  <1>1. \A n \in Receipt : n # next_receipt
    BY DEF Receipt, next_receipt, TypeOK
  <1>2. \A t \in transfers : t.n \in Receipt
    BY DEF TypeOK, Transfer
  <1>3. \A k \in 1 .. Len(response_queue) : response_queue[k].n \in Receipt
    <2>1. \A k \in 1 .. Len(response_queue) : response_queue[k] \in Response
      BY DEF TypeOK
    <2>2. QED BY <2>1 DEF Response
  <1>4. \A k \in 1 .. Len(finals) : finals[k].cause \in Receipt /\ finals[k].req \in Receipt
    <2>1. \A k \in 1 .. Len(finals) : finals[k] \in Final
      BY DEF TypeOK
    <2>2. QED BY <2>1 DEF Final
  <1>5. \A i \in Id : waiting_requests[i] # 0 => waiting_requests[i] \in Receipt
    BY DEF TypeOK, Receipt
  <1>6. next_receipt # 0
    BY DEF next_receipt, TypeOK
  <1>7. QED BY <1>1, <1>2, <1>3, <1>4, <1>5, <1>6 DEF TypeOK

\* What a reply adds to finals.
LEMMA FinalsGrow ==
  ASSUME finals \in Seq(Final'), NEW f, NEW req, NEW cause, NEW at, NEW type,
         Sends(f, req, cause, at, type)
  PROVE  /\ Len(finals) \in Nat
         /\ Len(finals') = Len(finals) + 1
         /\ finals'[Len(finals) + 1] = f
         /\ \A k \in 1 .. Len(finals) : finals'[k] = finals[k]
         /\ f.req = req /\ f.cause = cause /\ f.at = at
  BY Appended DEF Sends

\* Storing a request keeps every entry under its own id.
LEMMA EmplaceKeepsIds ==
  ASSUME TypeOK, StoredUnderOwnId, NEW d \in Datagram, recv_data(d),
         waiting_requests' = emplace(d.id, next_receipt) \/ waiting_requests' = waiting_requests
  PROVE  StoredUnderOwnId'
  <1>1. /\ received'[next_receipt] = d
        /\ \A n \in Receipt : received'[n] = received[n]
    BY ReceivedGrows DEF TypeOK
  <1>2. SUFFICES ASSUME NEW i \in Id, waiting_requests'[i] # 0
                 PROVE  received'[waiting_requests'[i]].id = i
    BY DEF StoredUnderOwnId
  <1>3. \/ waiting_requests'[i] = waiting_requests[i]
        \/ i = d.id /\ waiting_requests'[i] = next_receipt
    BY DatagramAssumption DEF emplace, TypeOK
  <1>4. CASE waiting_requests'[i] = waiting_requests[i]
    <2>1. waiting_requests[i] \in Receipt
      BY <1>2, <1>4, NextReceiptIsFresh
    <2>2. QED BY <1>1, <1>2, <1>4, <2>1 DEF StoredUnderOwnId
  <1>5. CASE i = d.id /\ waiting_requests'[i] = next_receipt
    BY <1>1, <1>5
  <1>6. QED BY <1>3, <1>4, <1>5

\* A datagram keeps the invariant.
LEMMA ArrivalKeepsReplyInv ==
  ASSUME ReplyInv, NEW d \in Datagram, on_data_received(d)
  PROVE  ReplyInv'
  <1>1. ArrivalEffect(d) /\ TypeOK'
    BY ArrivalHasEffect, ArrivalKeepsTypes DEF ReplyInv
  <1>2. /\ received'[next_receipt] = d
        /\ \A n \in Receipt : received'[n] = received[n]
    BY <1>1, ReceivedGrows DEF ReplyInv, TypeOK, ArrivalEffect
  <1>3. StoredUnderOwnId'
    BY <1>1, EmplaceKeepsIds
       DEF ReplyInv, HandOver, ArrivalEffect, Refused, AnsweredAtOnce, Started, Threw, NotStarted
  <1>4. finals \in Seq(Final')
    BY <1>1, ArrivalTypes DEF ReplyInv, ArrivalEffect
  \* Either a transfer with the new receipt starts, or a reply to it is sent.
  <1>5. \/ /\ finals' = finals
           /\ transfers' = transfers \/ (\E t : t.n = next_receipt /\ transfers' = transfers \cup {t})
        \/ /\ transfers' = transfers
           /\ \E f : Sends(f, next_receipt, next_receipt, next_receipt, d.type)
    BY <1>1 DEF ArrivalEffect, Refused, AnsweredAtOnce, Started, Threw, NotStarted
  <1>6. InFlightOnce'
    <2>1. response_queue' = response_queue
      BY <1>1 DEF ArrivalEffect
    <2>2. CASE transfers' = transfers
      BY <2>1, <2>2 DEF ReplyInv, HandOver, InFlightOnce
    <2>3. ASSUME NEW t, t.n = next_receipt, transfers' = transfers \cup {t}
          PROVE  InFlightOnce'
      BY <2>1, <2>3, NextReceiptIsFresh DEF ReplyInv, HandOver, InFlightOnce
    <2>4. QED BY <1>5, <2>2, <2>3
  <1>7. InFlightUnanswered'
    <2>1. response_queue' = response_queue
      BY <1>1 DEF ArrivalEffect
    <2>2. CASE finals' = finals /\ transfers' = transfers
      BY <2>1, <2>2 DEF ReplyInv, HandOver, InFlightUnanswered
    <2>3. ASSUME NEW t, finals' = finals, t.n = next_receipt, transfers' = transfers \cup {t}
          PROVE  InFlightUnanswered'
      BY <2>1, <2>3, NextReceiptIsFresh DEF ReplyInv, HandOver, InFlightUnanswered
    <2>4. ASSUME NEW f, transfers' = transfers,
                 Sends(f, next_receipt, next_receipt, next_receipt, d.type)
          PROVE  InFlightUnanswered'
      <3>1. /\ Len(finals) \in Nat
            /\ Len(finals') = Len(finals) + 1
            /\ finals'[Len(finals) + 1] = f
            /\ \A k \in 1 .. Len(finals) : finals'[k] = finals[k]
            /\ f.cause = next_receipt
        BY <1>4, <2>4, FinalsGrow
      <3>2. QED BY <2>1, <2>4, <3>1, NextReceiptIsFresh DEF ReplyInv, HandOver, InFlightUnanswered
    <2>5. QED BY <1>5, <2>2, <2>3, <2>4
  <1>8. OneReplyPerReceipt'
    <2>1. CASE finals' = finals
      BY <1>2, <2>1, NextReceiptIsFresh DEF ReplyInv, OneReplyPerReceipt
    <2>2. ASSUME NEW f, Sends(f, next_receipt, next_receipt, next_receipt, d.type)
          PROVE  OneReplyPerReceipt'
      <3>1. /\ Len(finals) \in Nat
            /\ Len(finals') = Len(finals) + 1
            /\ finals'[Len(finals) + 1] = f
            /\ \A k \in 1 .. Len(finals) : finals'[k] = finals[k]
            /\ f.cause = next_receipt /\ f.req = next_receipt
        BY <1>4, <2>2, FinalsGrow
      <3>2. QED BY <1>2, <3>1, NextReceiptIsFresh DEF ReplyInv, OneReplyPerReceipt
    <2>3. QED BY <1>5, <2>1, <2>2
  <1>9. QED BY <1>1, <1>3, <1>6, <1>7, <1>8 DEF ReplyInv, HandOver

\* A response keeps the invariant.
LEMMA ResponseKeepsReplyInv ==
  ASSUME ReplyInv, on_http_response_received
  PROVE  ReplyInv'
  <1>1. ResponseEffect /\ response_taken /\ TypeOK'
    BY ResponseHasEffect, ResponseKeepsTypes DEF ReplyInv, ResponseEffect
  <1>2. /\ received' = received
        /\ Receipt' = Receipt
        /\ received[response.n] \in Datagram
        /\ request # 0 => /\ request \in Receipt
                          /\ received[request] \in Datagram
    BY <1>1, ResponseTypes DEF ReplyInv
  <1>3. /\ response = response_queue[1]
        /\ Len(response_queue) \in Nat
        /\ Len(response_queue) >= 1
        /\ Len(response_queue') = Len(response_queue) - 1
        /\ \A k \in 1 .. Len(response_queue') : response_queue'[k] = response_queue[k + 1]
        /\ transfers' = transfers
    BY <1>1, HeadTail DEF response_taken, response, ReplyInv, TypeOK
  <1>4. finals \in Seq(Final')
    BY <1>2 DEF ReplyInv, TypeOK, Final
  <1>5. request # 0 => received[request].id = received[response.n].id
    BY <1>2, DatagramAssumption DEF ReplyInv, HandOver, StoredUnderOwnId, request, find
  <1>6. StoredUnderOwnId'
    BY <1>1, <1>2 DEF ReplyInv, HandOver, StoredUnderOwnId, ResponseEffect, erase, TypeOK
  <1>s. \A k \in 1 .. Len(response_queue') :
          /\ k + 1 \in 1 .. Len(response_queue)
          /\ k + 1 # 1
          /\ response_queue'[k] = response_queue[k + 1]
    BY <1>3
  <1>7. InFlightOnce'
    <2>1. ASSUME NEW j \in 1 .. Len(response_queue'), NEW k \in 1 .. Len(response_queue'),
                 response_queue'[j].n = response_queue'[k].n
          PROVE  j = k
      <3>1. j + 1 = k + 1
        BY <1>s, <2>1 DEF ReplyInv, HandOver, InFlightOnce
      <3>2. QED BY <3>1
    <2>2. \A t \in transfers', k \in 1 .. Len(response_queue') : response_queue'[k].n # t.n
      BY <1>3, <1>s DEF ReplyInv, HandOver, InFlightOnce
    <2>3. QED BY <1>3, <2>1, <2>2 DEF ReplyInv, HandOver, InFlightOnce
  <1>8. finals' = finals \/ \E f : /\ request # 0
                                   /\ Sends(f, request, response.n, Len(received),
                                            received[request].type)
    BY <1>1 DEF ResponseEffect
  <1>9. CASE finals' = finals
    BY <1>1, <1>2, <1>3, <1>6, <1>7, <1>9
       DEF ReplyInv, HandOver, InFlightUnanswered, OneReplyPerReceipt
  <1>10. ASSUME NEW f, request # 0,
                Sends(f, request, response.n, Len(received), received[request].type)
         PROVE  ReplyInv'
    <2>1. /\ Len(finals) \in Nat
          /\ Len(finals') = Len(finals) + 1
          /\ finals'[Len(finals) + 1] = f
          /\ \A k \in 1 .. Len(finals) : finals'[k] = finals[k]
          /\ f.cause = response.n /\ f.req = request
      BY <1>4, <1>10, FinalsGrow
    <2>2. InFlightUnanswered'
      <3>1. \A t \in transfers : response.n # t.n
        BY <1>3 DEF ReplyInv, HandOver, InFlightOnce
      <3>2. \A k \in 1 .. Len(response_queue') : response.n # response_queue'[k].n
        <4>1. 1 \in 1 .. Len(response_queue)
          BY <1>3
        <4>2. QED BY <1>3, <1>s, <4>1 DEF ReplyInv, HandOver, InFlightOnce
      <3>3. \A k \in 1 .. Len(finals) :
              /\ \A t \in transfers : finals[k].cause # t.n
              /\ \A j \in 1 .. Len(response_queue') : finals[k].cause # response_queue'[j].n
        BY <1>s DEF ReplyInv, HandOver, InFlightUnanswered
      <3>4. \A k \in 1 .. Len(finals') : k \in 1 .. Len(finals) \/ k = Len(finals) + 1
        BY <2>1
      <3>5. QED BY <1>3, <2>1, <3>1, <3>2, <3>3, <3>4 DEF InFlightUnanswered
    <2>3. OneReplyPerReceipt'
      <3>1. \A k \in 1 .. Len(finals) : finals[k].cause # response.n
        <4>1. 1 \in 1 .. Len(response_queue)
          BY <1>3
        <4>2. QED BY <1>3, <4>1 DEF ReplyInv, HandOver, InFlightUnanswered
      <3>2. \A k \in 1 .. Len(finals') : k \in 1 .. Len(finals) \/ k = Len(finals) + 1
        BY <2>1
      <3>3. \A j, k \in 1 .. Len(finals') : finals'[j].cause = finals'[k].cause => j = k
        BY <2>1, <3>1, <3>2 DEF ReplyInv, OneReplyPerReceipt
      <3>4. \A k \in 1 .. Len(finals') :
              received[finals'[k].req].id = received[finals'[k].cause].id
        BY <1>5, <1>10, <2>1, <3>2 DEF ReplyInv, OneReplyPerReceipt
      <3>5. QED BY <1>2, <3>3, <3>4 DEF OneReplyPerReceipt
    <2>4. QED BY <1>1, <1>6, <1>7, <2>2, <2>3 DEF ReplyInv, HandOver
  <1>11. QED BY <1>8, <1>9, <1>10

\* The end of a transfer, the notifier and SIGHUP keep it.
LEMMA OtherStepsKeepReplyInv ==
  ASSUME ReplyInv,
         \/ \E t \in transfers, status \in Status : check_multi_info(t, status)
         \/ respose_notifier_event_handler
         \/ drain_end
         \/ configure
         \/ UNCHANGED vars
  PROVE  ReplyInv'
  <1>1. TypeOK'
    BY OtherStepsKeepTypes DEF ReplyInv
  <1>2. ASSUME NEW t \in transfers, NEW status \in Status, check_multi_info(t, status)
        PROVE  ReplyInv'
    <2> DEFINE r == [n |-> t.n, drv |-> t.drv, status |-> status]
    <2>1. r \in Response /\ r.n = t.n
      BY DEF ReplyInv, TypeOK, Transfer, Response
    <2>2. /\ Len(response_queue) \in Nat
          /\ Len(response_queue') = Len(response_queue) + 1
          /\ response_queue'[Len(response_queue) + 1] = r
          /\ \A k \in 1 .. Len(response_queue) : response_queue'[k] = response_queue[k]
      BY <1>2, <2>1, Appended DEF check_multi_info, ReplyInv, TypeOK
    <2>3. transfers' = transfers \ {t}
      BY <1>2 DEF check_multi_info, remove_handle
    <2>4. InFlightOnce'
      BY <2>1, <2>2, <2>3 DEF ReplyInv, HandOver, InFlightOnce
    <2>5. InFlightUnanswered'
      BY <1>2, <2>1, <2>2, <2>3 DEF check_multi_info, ReplyInv, HandOver, InFlightUnanswered
    <2>6. QED BY <1>1, <1>2, <2>4, <2>5
              DEF check_multi_info, ReplyInv, HandOver, StoredUnderOwnId, OneReplyPerReceipt
  <1>3. ASSUME UNCHANGED <<waiting_requests, transfers, response_queue, received, finals>>
        PROVE  ReplyInv'
    BY <1>1, <1>3 DEF ReplyInv, HandOver, StoredUnderOwnId, InFlightOnce, InFlightUnanswered,
                      OneReplyPerReceipt
  <1>4. QED
    BY <1>2, <1>3 DEF respose_notifier_event_handler, drain_end, configure, vars, httpVars

\* The inductive invariant holds in every reachable state.
THEOREM ReplyInvariant == Spec => []ReplyInv
  <1>1. Init => TypeOK
    BY TypeCorrectInitially
  <1>2. Init => HandOver /\ OneReplyPerReceipt
    BY DEF Init, HandOver, StoredUnderOwnId, InFlightOnce, InFlightUnanswered,
           OneReplyPerReceipt
  <1>3. ReplyInv /\ [Next]_vars => ReplyInv'
    BY ArrivalKeepsReplyInv, ResponseKeepsReplyInv, OtherStepsKeepReplyInv DEF Next
  <1>4. QED BY <1>1, <1>2, <1>3, PTL DEF Spec, ReplyInv

\* The map, libcurl, the queue and the replies agree on every lookup, in every
\* reachable state, whatever ids the clients use and whatever fails.
THEOREM LookupsAreHandedOver == Spec => []HandOver
  BY ReplyInvariant, PTL DEF ReplyInv

\* A lookup makes the program send at most one final reply, with the id of the
\* request that caused it.
THEOREM RepliesOncePerReceipt == Spec => []OneReplyPerReceipt
  BY ReplyInvariant, PTL DEF ReplyInv

\* When the ids of different requests differ, a positive reply is about the
\* number its request asked for: the reply and the lookup share their id.
THEOREM AnswersAreForTheNumberAsked ==
  ASSUME UniqueIds
  PROVE  Spec => []AnswerIsForTheNumberAsked
  <1>1. ReplyInv => AnswerIsForTheNumberAsked
    <2>1. SUFFICES ASSUME ReplyInv, NEW k \in 1 .. Len(finals)
                   PROVE  received[finals[k].req].data = received[finals[k].cause].data
      BY DEF AnswerIsForTheNumberAsked
    <2>2. finals[k].req \in 1 .. Len(received) /\ finals[k].cause \in 1 .. Len(received)
      BY <2>1, NextReceiptIsFresh DEF ReplyInv, Receipt
    <2>3. received[finals[k].req] \in Datagram /\ received[finals[k].cause] \in Datagram
      BY <2>1, <2>2 DEF ReplyInv, TypeOK
    <2>4. received[finals[k].req].id = received[finals[k].cause].id
      BY <2>1 DEF ReplyInv, OneReplyPerReceipt
    <2>5. QED BY <2>3, <2>4, UniqueIds DEF UniqueIds
  <1>2. QED BY <1>1, ReplyInvariant, PTL

-----------------------------------------------------------------------------
(***************************************************************************)
(* From the effects of the handlers and ReplyInv: wake-ups, the kind and   *)
(* number of replies, the cache, requests that must not be forgotten, the  *)
(* counters.                                                               *)
(***************************************************************************)

\* Every step is an arrival, a response, the end of a transfer, or leaves the
\* waiting map, the transfers, the queue and all that was sent alone.
LEMMA StepCases ==
  ASSUME TypeOK, [Next]_vars
  PROVE  \/ \E d \in Datagram : on_data_received(d) /\ ArrivalEffect(d)
         \/ on_http_response_received /\ ResponseEffect
         \/ \E t \in transfers, status \in Status : check_multi_info(t, status)
         \/ UNCHANGED <<waiting_requests, transfers, response_queue, received, provisional,
                        finals, synced, metrics>>
  BY ArrivalHasEffect, ResponseHasEffect
     DEF Next, respose_notifier_event_handler, drain_end, configure, vars, httpVars

-----------------------------------------------------------------------------
\* A finished transfer in response_queue is always announced: the eventfd is
\* read before the queue is emptied, never after.
THEOREM WakeupsAreNotLost == Spec => []NoLostWakeup
  <1>1. Init => NoLostWakeup
    BY DEF Init, NoLostWakeup
  <1>2. TypeOK /\ NoLostWakeup /\ [Next]_vars => NoLostWakeup'
    <2>1. SUFFICES ASSUME TypeOK, NoLostWakeup, [Next]_vars
                   PROVE  NoLostWakeup'
      OBVIOUS
    <2>2. ASSUME NEW d \in Datagram, on_data_received(d)
          PROVE  NoLostWakeup'
      BY <2>1, <2>2, ArrivalHasEffect DEF ArrivalEffect, NoLostWakeup
    <2>3. ASSUME NEW t \in transfers, NEW status \in Status, check_multi_info(t, status)
          PROVE  NoLostWakeup'
      BY <2>3 DEF check_multi_info, notify_respose_available, NoLostWakeup
    <2>4. CASE respose_notifier_event_handler
      BY <2>4 DEF respose_notifier_event_handler, NoLostWakeup
    <2>5. CASE on_http_response_received
      BY <2>1, <2>5, ResponseHasEffect DEF ResponseEffect, response_taken, NoLostWakeup
    <2>6. CASE drain_end
      BY <2>6 DEF drain_end, queue_drained, NoLostWakeup
    <2>7. CASE configure
      BY <2>1, <2>7 DEF configure, httpVars, NoLostWakeup
    <2>8. CASE UNCHANGED vars
      BY <2>1, <2>8 DEF vars, httpVars, NoLostWakeup
    <2>9. QED BY <2>1, <2>2, <2>3, <2>4, <2>5, <2>6, <2>7, <2>8 DEF Next
  <1>3. QED BY <1>1, <1>2, TypeCorrect, PTL DEF Spec

-----------------------------------------------------------------------------
\* What received says of a receipt stays.
LEMMA ReceivedKept ==
  ASSUME TypeOK, [Next]_vars
  PROVE  /\ \A n \in Receipt : received'[n] = received[n]
         /\ Receipt \subseteq Receipt'
         /\ Len(received') >= Len(received)
  <1>1. ASSUME NEW d \in Datagram, ArrivalEffect(d)
        PROVE  /\ \A n \in Receipt : received'[n] = received[n]
               /\ Receipt \subseteq Receipt'
               /\ Len(received') >= Len(received)
    <2>1. /\ Len(received') = Len(received) + 1
          /\ Len(received) \in Nat
          /\ \A n \in Receipt : received'[n] = received[n]
          /\ Receipt \subseteq Receipt'
      BY <1>1, ReceivedGrows DEF ArrivalEffect, TypeOK
    <2>2. QED BY <2>1
  <1>2. ASSUME received' = received
        PROVE  /\ \A n \in Receipt : received'[n] = received[n]
               /\ Receipt \subseteq Receipt'
               /\ Len(received') >= Len(received)
    BY <1>2 DEF Receipt, TypeOK
  <1>3. QED
    BY <1>1, <1>2, StepCases DEF ResponseEffect, response_taken, check_multi_info

\* A step sends at most one reply: one to the datagram that came, or one to the
\* request found for a response.  The replies sent before stay.
LEMMA RepliesGrow ==
  ASSUME TypeOK, TypeOK', [Next]_vars
  PROVE  \/ finals' = finals
         \/ \E f : /\ Len(finals) \in Nat
                   /\ Len(finals') = Len(finals) + 1
                   /\ finals'[Len(finals) + 1] = f
                   /\ \A k \in 1 .. Len(finals) : finals'[k] = finals[k]
                   /\ f.req \in Receipt'
                   /\ f.code = NO_ERROR => f.by.type = received'[f.req].type
  <1>1. ASSUME NEW f, NEW req \in Receipt', NEW cause, NEW at,
               Sends(f, req, cause, at, received'[req].type)
        PROVE  /\ Len(finals) \in Nat
               /\ Len(finals') = Len(finals) + 1
               /\ finals'[Len(finals) + 1] = f
               /\ \A k \in 1 .. Len(finals) : finals'[k] = finals[k]
               /\ f.req \in Receipt'
               /\ f.code = NO_ERROR => f.by.type = received'[f.req].type
    <2>1. finals \in Seq(Final)
      BY DEF TypeOK
    <2>2. finals' = Append(finals, f) /\ f.req = req
      BY <1>1 DEF Sends
    <2>3. QED BY <1>1, <2>1, <2>2 DEF Sends
  <1>2. ASSUME NEW d \in Datagram, ArrivalEffect(d), finals' # finals
        PROVE  \E f : Sends(f, next_receipt, next_receipt, next_receipt,
                            received'[next_receipt].type)
    <2>1. received'[next_receipt] = d
      BY <1>2, ReceivedGrows DEF ArrivalEffect, TypeOK
    <2>2. QED BY <1>2, <2>1
              DEF ArrivalEffect, Refused, AnsweredAtOnce, Started, Threw, NotStarted
  <1>3. ASSUME NEW d \in Datagram, ArrivalEffect(d)
        PROVE  next_receipt \in Receipt'
    BY <1>3, ReceivedGrows DEF ArrivalEffect, TypeOK
  <1>4. ASSUME ResponseEffect, finals' # finals
        PROVE  /\ request \in Receipt'
               /\ \E f : Sends(f, request, response.n, Len(received), received'[request].type)
    <2>1. response_taken /\ request # 0
      BY <1>4 DEF ResponseEffect
    <2>2. received' = received /\ Receipt' = Receipt /\ request \in Receipt
      BY <2>1, ResponseTypes
    <2>3. QED BY <1>4, <2>2 DEF ResponseEffect
  <1>5. QED
    BY <1>1, <1>2, <1>3, <1>4, StepCases DEF check_multi_info

\* A positive reply comes from a driver of the type its request asked for,
\* whichever drivers SIGHUP put in use in between.
THEOREM RepliesAreOfTheKindAsked == Spec => []ReplyKindMatches
  <1>1. Init => ReplyKindMatches
    BY DEF Init, ReplyKindMatches
  <1>2. TypeOK /\ TypeOK' /\ ReplyKindMatches /\ [Next]_vars => ReplyKindMatches'
    <2>1. SUFFICES ASSUME TypeOK, TypeOK', ReplyKindMatches, [Next]_vars
                   PROVE  ReplyKindMatches'
      OBVIOUS
    <2>2. \A k \in 1 .. Len(finals) :
            finals[k].code = NO_ERROR => finals[k].by.type = received'[finals[k].req].type
      BY <2>1, NextReceiptIsFresh, ReceivedKept DEF ReplyKindMatches
    <2>3. CASE finals' = finals
      BY <2>2, <2>3 DEF ReplyKindMatches
    <2>4. ASSUME NEW f, Len(finals) \in Nat,
                 Len(finals') = Len(finals) + 1,
                 finals'[Len(finals) + 1] = f,
                 \A k \in 1 .. Len(finals) : finals'[k] = finals[k],
                 f.code = NO_ERROR => f.by.type = received'[f.req].type
          PROVE  ReplyKindMatches'
      <3>1. \A k \in 1 .. Len(finals') : k \in 1 .. Len(finals) \/ k = Len(finals) + 1
        BY <2>4
      <3>2. QED BY <2>2, <2>4, <3>1 DEF ReplyKindMatches
    <2>5. QED BY <2>1, <2>3, <2>4, RepliesGrow
  <1>3. QED BY <1>1, <1>2, TypeCorrect, PTL DEF Spec
-----------------------------------------------------------------------------
\* When the ids of different requests differ, what is cached under a number is
\* the answer a driver gave for that number: the request that a response finds
\* in waiting_requests is the one its transfer was started for.
THEOREM CacheHoldsTheNumberAsked ==
  ASSUME UniqueIds
  PROVE  Spec => []CachedForTheNumberAsked
  <1>1. Init => CachedForTheNumberAsked
    BY DEF Init, CachedForTheNumberAsked
  <1>2. ReplyInv /\ CachedForTheNumberAsked /\ [Next]_vars => CachedForTheNumberAsked'
    <2>1. SUFFICES ASSUME ReplyInv, CachedForTheNumberAsked, [Next]_vars
                   PROVE  CachedForTheNumberAsked'
      OBVIOUS
    <2>2. TypeOK
      BY <2>1 DEF ReplyInv
    <2>3. ASSUME NEW d \in Datagram, ArrivalEffect(d)
          PROVE  CachedForTheNumberAsked'
      BY <2>1, <2>3 DEF ArrivalEffect, CachedForTheNumberAsked
    <2>4. ASSUME ResponseEffect
          PROVE  CachedForTheNumberAsked'
      <3>1. CASE request = 0
        BY <2>1, <2>4, <3>1 DEF ResponseEffect, CachedForTheNumberAsked
      <3>2. CASE request # 0
        <4>1. received[response.n] \in Datagram /\ received[request] \in Datagram
          BY <2>2, <2>4, <3>2, ResponseTypes DEF ResponseEffect
        <4>2. received[request].id = received[response.n].id
          BY <2>1, <3>2, <4>1, DatagramAssumption
             DEF ReplyInv, HandOver, StoredUnderOwnId, request, find
        <4>3. received[request].data = received[response.n].data
          BY <4>1, <4>2, UniqueIds DEF UniqueIds
        <4>4. QED BY <2>1, <2>4, <3>2, <4>3 DEF ResponseEffect, CachedForTheNumberAsked
      <3>3. QED BY <3>1, <3>2
    <2>5. CASE synced' = synced
      BY <2>1, <2>5 DEF CachedForTheNumberAsked
    <2>6. QED BY <2>1, <2>2, <2>3, <2>4, <2>5, StepCases DEF check_multi_info
  <1>3. QED BY <1>1, <1>2, ReplyInvariant, PTL DEF Spec
-----------------------------------------------------------------------------
(***************************************************************************)
(* NoSecondReply.  It is stated here over any replies fs and waiting map w *)
(* so that what a reply adds is one lemma; the strengthening is that a     *)
(* request that waits was replied to at most once.                         *)
(***************************************************************************)
RefusedIn(fs, n) ==
  \E k \in 1 .. Len(fs) :
    /\ fs[k].req = n /\ fs[k].cause = n /\ fs[k].at = n
    /\ fs[k].code = GENERAL_RESOLVING_ERROR

SecondAfterRefusal(fs) ==
  \A j, k \in 1 .. Len(fs) :
    fs[j].req = fs[k].req /\ j < k =>
      /\ RefusedIn(fs, fs[j].req)
      /\ \A l \in 1 .. Len(fs) : fs[l].req = fs[j].req => l \in {j, k}

WaitingWasRefused(fs, w) ==
  \A i \in Id : \A k \in 1 .. Len(fs) : w[i] = fs[k].req => RefusedIn(fs, fs[k].req)

WaitingRepliedOnce(fs, w) ==
  \A i \in Id : \A j, k \in 1 .. Len(fs) :
    w[i] = fs[j].req /\ fs[j].req = fs[k].req => j = k

AtMostTwice(fs, w) ==
  SecondAfterRefusal(fs) /\ WaitingWasRefused(fs, w) /\ WaitingRepliedOnce(fs, w)

SecondReplyInv == ReplyInv /\ AtMostTwice(finals, waiting_requests)

\* A reply goes to a request that had none or to one that waited; a request
\* that still waits afterwards was refused by the reply itself.
LEMMA ReplyAppended ==
  ASSUME NEW S, NEW fs \in Seq(S), NEW f \in S, NEW w, NEW v,
         AtMostTwice(fs, w),
         (\A k \in 1 .. Len(fs) : fs[k].req # f.req) \/ (\E i \in Id : w[i] = f.req),
         \A i \in Id : v[i] = f.req =>
           /\ \A k \in 1 .. Len(fs) : fs[k].req # f.req
           /\ f.cause = f.req /\ f.at = f.req /\ f.code = GENERAL_RESOLVING_ERROR,
         \A i \in Id : v[i] \in {0, w[i], f.req},
         \A k \in 1 .. Len(fs) : fs[k].req # 0,
         f.req # 0
  PROVE  AtMostTwice(Append(fs, f), v)
  <1> DEFINE gs == Append(fs, f)
             last == Len(fs) + 1
  <1>1. /\ Len(fs) \in Nat
        /\ Len(gs) = last
        /\ gs[last] = f
        /\ \A k \in 1 .. Len(fs) : gs[k] = fs[k] /\ k < last
        /\ \A k \in 1 .. Len(gs) : k \in 1 .. Len(fs) \/ k = last
        /\ \A k \in 1 .. Len(fs) : k \in 1 .. Len(gs)
        /\ last \in 1 .. Len(gs)
    BY Appended
  <1> HIDE DEF gs, last
  <1>2. \A n : RefusedIn(fs, n) => RefusedIn(gs, n)
    BY <1>1 DEF RefusedIn
  <1>3. SecondAfterRefusal(gs)
    <2>1. SUFFICES ASSUME NEW j \in 1 .. Len(gs), NEW k \in 1 .. Len(gs),
                          gs[j].req = gs[k].req, j < k
                   PROVE  /\ RefusedIn(gs, gs[j].req)
                          /\ \A l \in 1 .. Len(gs) : gs[l].req = gs[j].req => l \in {j, k}
      BY DEF SecondAfterRefusal
    <2>2. j \in 1 .. Len(fs) /\ gs[j] = fs[j]
      BY <1>1, <2>1 DEF last
    <2>3. CASE k \in 1 .. Len(fs)
      <3>1. fs[j].req = fs[k].req /\ j # k
        BY <1>1, <2>1, <2>2, <2>3
      <3>2. RefusedIn(gs, gs[j].req)
        BY <1>2, <2>1, <2>2, <2>3, <3>1 DEF AtMostTwice, SecondAfterRefusal
      <3>3. fs[j].req # f.req
        BY <2>2, <2>3, <3>1 DEF AtMostTwice, WaitingRepliedOnce
      <3>4. QED BY <1>1, <2>1, <2>2, <2>3, <3>1, <3>2, <3>3 DEF AtMostTwice, SecondAfterRefusal
    <2>4. CASE k = last
      <3>1. fs[j].req = f.req
        BY <1>1, <2>1, <2>2, <2>4
      <3>2. PICK i \in Id : w[i] = f.req
        BY <2>2, <3>1
      <3>3. RefusedIn(gs, gs[j].req)
        BY <1>2, <2>2, <3>1, <3>2 DEF AtMostTwice, WaitingWasRefused
      <3>4. \A l \in 1 .. Len(fs) : fs[l].req = fs[j].req => l = j
        BY <2>2, <3>1, <3>2 DEF AtMostTwice, WaitingRepliedOnce
      <3>5. QED BY <1>1, <2>2, <2>4, <3>3, <3>4
    <2>5. QED BY <1>1, <2>3, <2>4
  <1>4. WaitingWasRefused(gs, v)
    <2>1. SUFFICES ASSUME NEW i \in Id, NEW k \in 1 .. Len(gs), v[i] = gs[k].req
                   PROVE  RefusedIn(gs, gs[k].req)
      BY DEF WaitingWasRefused
    <2>2. CASE v[i] = f.req
      <3>1. f.cause = f.req /\ f.at = f.req /\ f.code = GENERAL_RESOLVING_ERROR
        BY <2>2
      <3>2. QED BY <1>1, <2>1, <2>2, <3>1 DEF RefusedIn
    <2>3. CASE v[i] # f.req
      <3>1. k \in 1 .. Len(fs) /\ gs[k] = fs[k] /\ v[i] = w[i]
        BY <1>1, <2>1, <2>3
      <3>2. QED BY <1>2, <2>1, <3>1 DEF AtMostTwice, WaitingWasRefused
    <2>4. QED BY <2>2, <2>3
  <1>5. WaitingRepliedOnce(gs, v)
    <2>1. SUFFICES ASSUME NEW i \in Id, NEW j \in 1 .. Len(gs), NEW k \in 1 .. Len(gs),
                          v[i] = gs[j].req, gs[j].req = gs[k].req
                   PROVE  j = k
      BY DEF WaitingRepliedOnce
    <2>2. CASE v[i] = f.req
      BY <1>1, <2>1, <2>2
    <2>3. CASE v[i] # f.req
      <3>1. /\ j \in 1 .. Len(fs) /\ gs[j] = fs[j]
            /\ k \in 1 .. Len(fs) /\ gs[k] = fs[k]
            /\ v[i] = w[i]
        BY <1>1, <2>1, <2>3
      <3>2. QED BY <2>1, <3>1 DEF AtMostTwice, WaitingRepliedOnce
    <2>4. QED BY <2>2, <2>3
  <1>6. QED BY <1>3, <1>4, <1>5 DEF AtMostTwice, gs

\* A request that was not replied to may start to wait, and one may stop.
LEMMA WaitingChanged ==
  ASSUME NEW fs, NEW w, NEW v, AtMostTwice(fs, w),
         \A i \in Id : v[i] = w[i] \/ (\A k \in 1 .. Len(fs) : fs[k].req # v[i])
  PROVE  AtMostTwice(fs, v)
  BY DEF AtMostTwice, WaitingWasRefused, WaitingRepliedOnce

\* A datagram is answered on arrival at most once.
LEMMA ArrivalKeepsAtMostTwice ==
  ASSUME SecondReplyInv, NEW d \in Datagram, ArrivalEffect(d)
  PROVE  AtMostTwice(finals', waiting_requests')
  <1>1. TypeOK /\ AtMostTwice(finals, waiting_requests)
    BY DEF SecondReplyInv, ReplyInv
  <1>2. /\ \A k \in 1 .. Len(finals) : finals[k].req # next_receipt /\ finals[k].req # 0
        /\ \A i \in Id : waiting_requests[i] # next_receipt
        /\ next_receipt # 0
    <2>1. 0 \notin Receipt
      BY DEF Receipt
    <2>2. QED BY <1>1, <2>1, NextReceiptIsFresh
  <1>3. finals \in Seq(Final')
    BY <1>1, ArrivalTypes DEF ArrivalEffect
  <1>4. \A i \in Id : emplace(d.id, next_receipt)[i] \in {0, waiting_requests[i], next_receipt}
    BY <1>1 DEF emplace, TypeOK
  <1>5. ASSUME NEW f, Sends(f, next_receipt, next_receipt, next_receipt, d.type),
               \/ waiting_requests' = waiting_requests
               \/ /\ waiting_requests' = emplace(d.id, next_receipt)
                  /\ f.code = GENERAL_RESOLVING_ERROR
        PROVE  AtMostTwice(finals', waiting_requests')
    <2>1. /\ f \in Final' /\ finals' = Append(finals, f)
          /\ f.req = next_receipt /\ f.cause = next_receipt /\ f.at = next_receipt
      BY <1>5 DEF Sends
    <2>2. \A i \in Id : waiting_requests'[i] \in {0, waiting_requests[i], f.req}
      BY <1>4, <1>5, <2>1
    <2>3. \A k \in 1 .. Len(finals) : finals[k].req # f.req /\ finals[k].req # 0
      BY <1>2, <2>1
    <2>4. \A i \in Id : waiting_requests'[i] = f.req =>
            f.cause = f.req /\ f.at = f.req /\ f.code = GENERAL_RESOLVING_ERROR
      BY <1>2, <1>5, <2>1
    <2>5. AtMostTwice(Append(finals, f), waiting_requests')
      BY <1>1, <1>2, <1>3, <2>1, <2>2, <2>3, <2>4, ReplyAppended
    <2>6. QED BY <2>1, <2>5
  <1>6. ASSUME finals' = finals,
               \/ waiting_requests' = waiting_requests
               \/ waiting_requests' = emplace(d.id, next_receipt)
        PROVE  AtMostTwice(finals', waiting_requests')
    <2>1. \A i \in Id : \/ waiting_requests'[i] = waiting_requests[i]
                        \/ \A k \in 1 .. Len(finals) : finals[k].req # waiting_requests'[i]
      BY <1>2, <1>4, <1>6
    <2>2. AtMostTwice(finals, waiting_requests')
      BY <1>1, <2>1, WaitingChanged
    <2>3. QED BY <1>6, <2>2
  <1>7. QED
    BY <1>5, <1>6 DEF ArrivalEffect, Refused, AnsweredAtOnce, Started, Threw, NotStarted

\* A response answers the request that it takes out of the map.
LEMMA ResponseKeepsAtMostTwice ==
  ASSUME SecondReplyInv, ResponseEffect
  PROVE  AtMostTwice(finals', waiting_requests')
  <1>1. /\ TypeOK /\ StoredUnderOwnId /\ AtMostTwice(finals, waiting_requests)
        /\ response_taken
    BY DEF SecondReplyInv, ReplyInv, HandOver, ResponseEffect
  <1>2. CASE request = 0
    <2>1. finals' = finals /\ waiting_requests' = waiting_requests
      BY <1>2 DEF ResponseEffect
    <2>2. QED BY <1>1, <2>1
  <1>3. CASE request # 0
    <2>1. /\ request \in Receipt /\ Receipt' = Receipt
          /\ received[response.n] \in Datagram
          /\ received[request] \in Datagram
      BY <1>1, <1>3, ResponseTypes
    <2>2. PICK f : Sends(f, request, response.n, Len(received), received[request].type)
      BY <1>3 DEF ResponseEffect
    <2>3. f \in Final' /\ finals' = Append(finals, f) /\ f.req = request
      BY <2>2 DEF Sends
    <2>4. finals \in Seq(Final')
      BY <1>1, <2>1 DEF TypeOK, Final
    <2>5. /\ \A k \in 1 .. Len(finals) : finals[k].req # 0
          /\ f.req # 0
      <3>1. 0 \notin Receipt
        BY DEF Receipt
      <3>2. QED BY <1>1, <1>3, <2>3, <3>1, NextReceiptIsFresh
    <2>6. received[response.n].id \in Id /\ waiting_requests[received[response.n].id] = f.req
      BY <2>1, <2>3, DatagramAssumption DEF request, find
    <2>7. waiting_requests' = [waiting_requests EXCEPT ![received[request].id] = 0]
      BY <1>3 DEF ResponseEffect, erase
    <2>8. \A i \in Id : /\ waiting_requests'[i] \in {0, waiting_requests[i], f.req}
                        /\ waiting_requests'[i] # f.req
      BY <1>1, <1>3, <2>3, <2>7 DEF TypeOK, StoredUnderOwnId
    <2>9. AtMostTwice(Append(finals, f), waiting_requests')
      BY <1>1, <2>3, <2>4, <2>5, <2>6, <2>8, ReplyAppended
    <2>10. QED BY <2>3, <2>9
  <1>4. QED BY <1>2, <1>3

\* A request gets at most one final reply, and a second one only when
\* make_request threw and left it in waiting_requests; whatever ids the
\* clients use, however often they retransmit, whatever fails.
THEOREM SecondReplyOnlyAfterRefusal == Spec => []NoSecondReply
  <1>1. Init => AtMostTwice(finals, waiting_requests)
    BY DEF Init, AtMostTwice, SecondAfterRefusal, WaitingWasRefused, WaitingRepliedOnce
  <1>2. ReplyInv /\ AtMostTwice(finals, waiting_requests) /\ [Next]_vars
          => AtMostTwice(finals, waiting_requests)'
    <2>1. SUFFICES ASSUME SecondReplyInv, [Next]_vars
                   PROVE  AtMostTwice(finals', waiting_requests')
      BY DEF SecondReplyInv
    <2>2. ASSUME UNCHANGED <<waiting_requests, finals>>
          PROVE  AtMostTwice(finals', waiting_requests')
      BY <2>1, <2>2 DEF SecondReplyInv
    <2>3. TypeOK
      BY <2>1 DEF SecondReplyInv, ReplyInv
    <2>4. QED
      BY <2>1, <2>2, <2>3, StepCases, ArrivalKeepsAtMostTwice, ResponseKeepsAtMostTwice
         DEF check_multi_info
  <1>3. AtMostTwice(finals, waiting_requests) => NoSecondReply
    BY DEF AtMostTwice, SecondAfterRefusal, WaitingWasRefused, NoSecondReply, RefusedIn,
           RefusedOnArrival
  <1>4. QED BY <1>1, <1>2, <1>3, ReplyInvariant, PTL DEF Spec
-----------------------------------------------------------------------------
(***************************************************************************)
(* NoRequestForgotten, from ReplyInv.  The two ways in which a receipt is  *)
(* remembered are stated over the values of the variables, so that a step  *)
(* can speak of them before and after.                                     *)
(***************************************************************************)
AnsweredIn(fs, rs, n) ==
  \E k \in 1 .. Len(fs) : fs[k].at >= n /\ rs[fs[k].req] = rs[n]

InFlightIn(ts, q, rs, i) ==
  \/ \E t \in ts : rs[t.n].id = i
  \/ \E k \in 1 .. Len(q) : rs[q[k].n].id = i

AwaitedIn(w, ts, q, rs, n) ==
  /\ w[rs[n].id] # 0
  /\ rs[w[rs[n].id]] = rs[n]
  /\ InFlightIn(ts, q, rs, rs[n].id)

\* An answer stays an answer.
LEMMA AnswersStay ==
  ASSUME TypeOK, TypeOK', [Next]_vars, NEW n \in Receipt, AnsweredIn(finals, received, n)
  PROVE  AnsweredIn(finals', received', n)
  <1>1. PICK k \in 1 .. Len(finals) : finals[k].at >= n /\ received[finals[k].req] = received[n]
    BY DEF AnsweredIn
  <1>2. finals[k].req \in Receipt
    BY NextReceiptIsFresh
  <1>3. received'[finals[k].req] = received'[n]
    BY <1>1, <1>2, ReceivedKept
  <1>4. k \in 1 .. Len(finals') /\ finals'[k] = finals[k]
    BY RepliesGrow DEF TypeOK
  <1>5. QED BY <1>1, <1>3, <1>4 DEF AnsweredIn

\* A reply sent when every receipt had arrived answers the receipts that carry
\* the same datagram.
LEMMA ReplyAnswers ==
  ASSUME TypeOK, TypeOK', NEW f, NEW req, NEW cause, NEW at, NEW type, NEW n,
         Sends(f, req, cause, at, type), at >= n, received'[req] = received'[n]
  PROVE  AnsweredIn(finals', received', n)
  <1>1. f.req = req /\ f.at = at /\ finals' = Append(finals, f)
    BY DEF Sends
  <1>2. Len(finals) + 1 \in 1 .. Len(finals') /\ finals'[Len(finals) + 1] = f
    BY <1>1 DEF TypeOK
  <1>3. QED BY <1>1, <1>2 DEF AnsweredIn

\* A receipt stands for a datagram, and its id is one.
LEMMA ReceiptsAreDatagrams ==
  ASSUME TypeOK, NEW n \in Receipt
  PROVE  received[n] \in Datagram /\ received[n].id \in Id
  <1>1. received[n] \in Datagram
    BY DEF TypeOK, Receipt
  <1>2. QED BY <1>1, DatagramAssumption

\* A datagram is stored, answered or finds its like stored.
LEMMA ArrivalForgetsNone ==
  ASSUME UniqueIds, "fail" \notin SetupFault, ReplyInv, TypeOK', [Next]_vars,
         NEW d \in Datagram, ArrivalEffect(d),
         \A n \in provisional : \/ AnsweredIn(finals, received, n)
                                \/ AwaitedIn(waiting_requests, transfers, response_queue,
                                             received, n),
         NEW n \in provisional'
  PROVE  \/ AnsweredIn(finals', received', n)
         \/ AwaitedIn(waiting_requests', transfers', response_queue', received', n)
  <1>1. TypeOK /\ StoredUnderOwnId
    BY DEF ReplyInv, HandOver
  <1>2. /\ received'[next_receipt] = d
        /\ next_receipt \in Receipt' /\ next_receipt \in Nat
        /\ \A m \in Receipt : received'[m] = received[m] /\ m \in Receipt'
    BY <1>1, ReceivedGrows DEF ArrivalEffect, TypeOK
  <1>3. d.id \in Id /\ d \in Datagram
    BY DatagramAssumption
  <1>4. response_queue' = response_queue /\ transfers \subseteq transfers'
    BY DEF ArrivalEffect, Refused, AnsweredAtOnce, Started, Threw, NotStarted
  <1>5. \A i \in Id : waiting_requests[i] # 0 => waiting_requests'[i] = waiting_requests[i]
    BY <1>1, <1>3
       DEF TypeOK, emplace, ArrivalEffect, Refused, AnsweredAtOnce, Started, Threw, NotStarted
  <1>6. CASE n \in provisional /\ AnsweredIn(finals, received, n)
    BY <1>1, <1>6, AnswersStay, NextReceiptIsFresh
  <1>7. CASE /\ n \in provisional
             /\ AwaitedIn(waiting_requests, transfers, response_queue, received, n)
    <2>1. n \in Receipt /\ received'[n] = received[n]
      BY <1>1, <1>2, <1>7, NextReceiptIsFresh
    <2> DEFINE i == received[n].id
    <2>2. i \in Id
      BY <1>1, <2>1, ReceiptsAreDatagrams
    <2>3. /\ waiting_requests[i] # 0
          /\ received[waiting_requests[i]] = received[n]
          /\ InFlightIn(transfers, response_queue, received, i)
      BY <1>7 DEF AwaitedIn
    <2>4. /\ waiting_requests'[i] = waiting_requests[i]
          /\ waiting_requests[i] \in Receipt
      BY <1>1, <1>5, <2>2, <2>3, NextReceiptIsFresh
    <2>5. received'[waiting_requests'[i]] = received'[n]
      BY <1>2, <2>1, <2>3, <2>4
    <2>6. InFlightIn(transfers', response_queue', received', i)
      BY <1>1, <1>2, <1>4, <2>3, NextReceiptIsFresh DEF InFlightIn
    <2>7. QED BY <2>1, <2>3, <2>4, <2>5, <2>6 DEF AwaitedIn
  <1>8. CASE n \notin provisional
    <2>1. n = next_receipt
      BY <1>8 DEF ArrivalEffect, Refused, AnsweredAtOnce, Started, Threw, NotStarted
    <2>2. ASSUME NEW f, Sends(f, next_receipt, next_receipt, next_receipt, d.type)
          PROVE  AnsweredIn(finals', received', n)
      <3>1. next_receipt >= n
        BY <1>2, <2>1
      <3>2. QED BY <1>1, <2>1, <2>2, <3>1, ReplyAnswers
    <2>3. CASE Started(d)
      <3>1. PICK t \in Transfer' : t.n = next_receipt /\ transfers' = transfers \cup {t}
        BY <2>3 DEF Started
      <3>2. InFlightIn(transfers', response_queue', received', d.id)
        BY <1>2, <3>1 DEF InFlightIn
      <3>3. /\ waiting_requests'[d.id] # 0
            /\ \/ waiting_requests'[d.id] = next_receipt
               \/ /\ waiting_requests'[d.id] = waiting_requests[d.id]
                  /\ waiting_requests[d.id] \in Receipt
        BY <1>1, <1>3, <2>3, NextReceiptIsFresh DEF Started, emplace, TypeOK
      <3>4. received'[waiting_requests'[d.id]] = d
        <4>1. CASE waiting_requests'[d.id] = next_receipt
          BY <1>2, <4>1
        <4>2. CASE /\ waiting_requests'[d.id] = waiting_requests[d.id]
                   /\ waiting_requests[d.id] \in Receipt
          <5> DEFINE m == waiting_requests[d.id]
          <5>1. received'[m] = received[m] /\ received[m] \in Datagram
            BY <1>1, <1>2, <4>2 DEF TypeOK, Receipt
          <5>2. received[m].id = d.id
            BY <1>1, <1>3, <3>3, <4>2 DEF StoredUnderOwnId
          <5>3. QED BY <1>3, <4>2, <5>1, <5>2, UniqueIds DEF UniqueIds
        <4>3. QED BY <3>3, <4>1, <4>2
      <3>5. QED BY <1>2, <2>1, <3>2, <3>3, <3>4 DEF AwaitedIn
    <2>4. QED
      BY <1>8, <2>2, <2>3 DEF ArrivalEffect, Refused, AnsweredAtOnce, Threw, NotStarted
  <1>9. QED BY <1>6, <1>7, <1>8

\* A response answers all that wait under its id.
LEMMA ResponseForgetsNone ==
  ASSUME UniqueIds, ReplyInv, TypeOK', [Next]_vars, ResponseEffect,
         NEW n \in provisional',
         \/ AnsweredIn(finals, received, n)
         \/ AwaitedIn(waiting_requests, transfers, response_queue, received, n)
  PROVE  \/ AnsweredIn(finals', received', n)
         \/ AwaitedIn(waiting_requests', transfers', response_queue', received', n)
  <1>1. TypeOK /\ StoredUnderOwnId /\ response_taken
    BY DEF ReplyInv, HandOver, ResponseEffect
  <1>2. /\ received' = received /\ transfers' = transfers
        /\ response_queue' = Tail(response_queue) /\ response_queue # <<>>
        /\ n \in provisional /\ n \in Receipt
    BY <1>1, NextReceiptIsFresh DEF response_taken
  <1>3. /\ received[response.n] \in Datagram
        /\ request # 0 => /\ request \in Receipt
                          /\ received[request] \in Datagram
    BY <1>1, ResponseTypes
  <1>4. CASE AnsweredIn(finals, received, n)
    BY <1>1, <1>2, <1>4, AnswersStay
  <1>5. CASE /\ AwaitedIn(waiting_requests, transfers, response_queue, received, n)
             /\ received[n].id = received[response.n].id
    <2>1. request # 0
      BY <1>5 DEF AwaitedIn, request, find
    <2>2. PICK f : Sends(f, request, response.n, Len(received), received[request].type)
      BY <2>1 DEF ResponseEffect
    <2>3. received'[request] = received'[n]
      BY <1>2, <1>5 DEF AwaitedIn, request, find
    <2>4. Len(received) >= n
      BY <1>1, <1>2 DEF Receipt, TypeOK
    <2>5. QED BY <1>1, <2>2, <2>3, <2>4, ReplyAnswers
  <1>6. CASE /\ AwaitedIn(waiting_requests, transfers, response_queue, received, n)
             /\ received[n].id # received[response.n].id
    <2> DEFINE i == received[n].id
    <2>1. waiting_requests'[i] = waiting_requests[i]
      <3>1. i \in Id /\ received[response.n].id \in Id
        BY <1>1, <1>2, <1>3, ReceiptsAreDatagrams, DatagramAssumption
      <3>2. request # 0 => received[request].id = received[response.n].id
        BY <1>1, <3>1 DEF StoredUnderOwnId, request, find
      <3>3. QED BY <1>1, <1>6, <3>1, <3>2 DEF ResponseEffect, erase, TypeOK
    <2>2. InFlightIn(transfers', response_queue', received', i)
      <3>1. CASE \E t \in transfers : received[t.n].id = i
        BY <1>2, <3>1 DEF InFlightIn
      <3>2. ASSUME NEW k \in 1 .. Len(response_queue), received[response_queue[k].n].id = i
            PROVE  InFlightIn(transfers', response_queue', received', i)
        <4>1. response_queue \in Seq(Response)
          BY <1>1 DEF TypeOK
        <4>2. k # 1
          BY <1>2, <1>6, <3>2, <4>1, HeadTail DEF response
        <4>3. k - 1 \in 1 .. Len(response_queue') /\ response_queue'[k - 1] = response_queue[k]
          BY <1>2, <4>1, <4>2, HeadTail
        <4>4. QED BY <1>2, <3>2, <4>3 DEF InFlightIn
      <3>3. QED BY <1>6, <3>1, <3>2 DEF AwaitedIn, InFlightIn
    <2>3. QED BY <1>2, <1>6, <2>1, <2>2 DEF AwaitedIn
  <1>7. QED BY <1>4, <1>5, <1>6

\* A transfer that ends becomes a response.
LEMMA TransferEndForgetsNone ==
  ASSUME TypeOK, NEW t \in transfers, NEW status \in Status, check_multi_info(t, status),
         NEW i, InFlightIn(transfers, response_queue, received, i)
  PROVE  InFlightIn(transfers', response_queue', received, i)
  <1> DEFINE r == [n |-> t.n, drv |-> t.drv, status |-> status]
  <1>1. r \in Response
    BY DEF TypeOK, Transfer, Response
  <1>2. /\ Len(response_queue) \in Nat
        /\ Len(response_queue') = Len(response_queue) + 1
        /\ response_queue'[Len(response_queue) + 1] = r
        /\ \A k \in 1 .. Len(response_queue) : response_queue'[k] = response_queue[k]
    BY <1>1, Appended DEF check_multi_info, TypeOK
  <1>3. r.n = t.n /\ transfers' = transfers \ {t}
    BY DEF check_multi_info, remove_handle
  <1>4. Len(response_queue) + 1 \in 1 .. Len(response_queue')
    BY <1>2
  <1>5. \A k \in 1 .. Len(response_queue) : k \in 1 .. Len(response_queue')
    BY <1>2
  <1>6. QED BY <1>2, <1>3, <1>4, <1>5 DEF InFlightIn

\* When the ids of different requests differ and a lookup always starts or
\* throws, a request that got a provisional reply is answered or waits for a
\* response that is under way: no retransmission, reload, error or order of
\* completions makes resolve() or parse_response() drop it.
THEOREM RequestsAreNotForgotten ==
  ASSUME UniqueIds, "fail" \notin SetupFault
  PROVE  Spec => []NoRequestForgotten
  <1> DEFINE Remembered(n) ==
               \/ AnsweredIn(finals, received, n)
               \/ AwaitedIn(waiting_requests, transfers, response_queue, received, n)
             Inv == \A n \in provisional : Remembered(n)
  <1>1. Init => Inv
    BY DEF Init
  <1>2. ReplyInv /\ ReplyInv' /\ Inv /\ [Next]_vars => Inv'
    <2>1. SUFFICES ASSUME ReplyInv, ReplyInv', Inv, [Next]_vars, NEW n \in provisional'
                   PROVE  \/ AnsweredIn(finals', received', n)
                          \/ AwaitedIn(waiting_requests', transfers', response_queue',
                                       received', n)
      OBVIOUS
    <2>2. TypeOK /\ TypeOK'
      BY <2>1 DEF ReplyInv
    <2>3. ASSUME NEW d \in Datagram, ArrivalEffect(d)
          PROVE  \/ AnsweredIn(finals', received', n)
                 \/ AwaitedIn(waiting_requests', transfers', response_queue', received', n)
      BY <2>1, <2>2, <2>3, ArrivalForgetsNone
    <2>4. ASSUME ResponseEffect
          PROVE  \/ AnsweredIn(finals', received', n)
                 \/ AwaitedIn(waiting_requests', transfers', response_queue', received', n)
      <3>1. n \in provisional
        BY <2>4 DEF ResponseEffect, response_taken
      <3>2. QED BY <2>1, <2>2, <2>4, <3>1, ResponseForgetsNone
    <2>5. ASSUME NEW t \in transfers, NEW status \in Status, check_multi_info(t, status)
          PROVE  \/ AnsweredIn(finals', received', n)
                 \/ AwaitedIn(waiting_requests', transfers', response_queue', received', n)
      <3>1. UNCHANGED <<waiting_requests, received, provisional, finals>>
        BY <2>5 DEF check_multi_info
      <3>2. QED BY <2>1, <2>2, <2>5, <3>1, TransferEndForgetsNone DEF AwaitedIn
    <2>6. CASE UNCHANGED <<waiting_requests, transfers, response_queue, received, provisional,
                           finals>>
      BY <2>1, <2>6
    <2>7. QED BY <2>1, <2>2, <2>3, <2>4, <2>5, <2>6, StepCases
  <1>3. Inv => NoRequestForgotten
    BY DEF AnsweredIn, AwaitedIn, InFlightIn, NoRequestForgotten, Answered, InFlight
  <1>4. QED BY <1>1, <1>2, <1>3, ReplyInvariant, PTL DEF Spec
-----------------------------------------------------------------------------
(***************************************************************************)
(* MetricsConservation.  The number of transfers is only defined because   *)
(* the set of them stays finite, which is the strengthening.               *)
(***************************************************************************)

\* A step counts at most one result.
AtMostOneResult ==
  \/ UNCHANGED <<requests_finished, requests_failed>>
  \/ requests_finished' = requests_finished + 1 /\ requests_failed' = requests_failed
  \/ requests_finished' = requests_finished /\ requests_failed' = requests_failed + 1

\* An arrival counts the request at most once, and then as one thing only:
\* started, finished or failed.
LEMMA ArrivalCounts ==
  ASSUME TypeOK, NEW d \in Datagram, on_data_received(d)
  PROVE  \/ UNCHANGED <<transfers, metrics>>
         \/ /\ requests_count' = requests_count + 1
            /\ AtMostOneResult
            /\ transfers' = transfers
         \/ /\ requests_count' = requests_count + 1
            /\ UNCHANGED <<requests_finished, requests_failed>>
            /\ \E t : transfers' = transfers \cup {t}
  <1>1. CASE parse_error(d)
    BY <1>1 DEF parse_error, httpVars
  <1>2. CASE resolve_unknown_database(d)
    BY <1>2 DEF resolve_unknown_database, httpVars
  <1>3. CASE resolve_unsupported_type(d)
    BY <1>3 DEF resolve_unsupported_type, httpVars
  <1>4. CASE resolve_failed(d)
    BY <1>4 DEF resolve_failed, AtMostOneResult, driver_resolve, httpVars
  <1>5. CASE resolve_done(d)
    BY <1>5 DEF resolve_done, AtMostOneResult, driver_resolve, handle_request_is_done, httpVars
  <1>6. CASE http_request_started(d)
    BY <1>6 DEF http_request_started, make_http_request, driver_resolve
  <1>7. CASE http_request_throws(d)
    BY <1>7 DEF http_request_throws, AtMostOneResult, make_http_request, driver_resolve
  <1>8. CASE http_request_not_started(d)
    BY <1>8 DEF http_request_not_started, AtMostOneResult, make_http_request, driver_resolve
  <1>9. QED
    BY <1>1, <1>2, <1>3, <1>4, <1>5, <1>6, <1>7, <1>8 DEF on_data_received

\* A response is counted at most once, as it leaves the queue.
LEMMA ResponseCounts ==
  ASSUME TypeOK, on_http_response_received
  PROVE  /\ requests_count' = requests_count
         /\ transfers' = transfers
         /\ Len(response_queue') = Len(response_queue) - 1
         /\ AtMostOneResult
  <1>1. response_taken
    BY ResponseHasEffect DEF ResponseEffect
  <1>2. Len(response_queue') = Len(response_queue) - 1
    BY <1>1, HeadTail DEF response_taken, TypeOK
  <1>3. AtMostOneResult
    BY DEF on_http_response_received, request_not_found, parse_response_unknown_database,
           parse_response_unsupported_type, parse_response_http_error, parse_response_failed,
           parse_response_done, response_error, handle_request_is_done, AtMostOneResult
  <1>4. QED BY <1>1, <1>2, <1>3 DEF response_taken

\* A lookup counted as started is counted at most once as finished or failed,
\* and not before its transfer and its response are gone; the numbers that
\* Prometheus reads never claim more results than requests.
THEOREM CountersBalance == Spec => []MetricsConservation
  <1> DEFINE Inv == IsFiniteSet(transfers) /\ MetricsConservation
  <1>1. Init => Inv
    BY FS_EmptySet DEF Init, MetricsConservation
  <1>2. TypeOK /\ TypeOK' /\ Inv /\ [Next]_vars => Inv'
    <2>1. SUFFICES ASSUME TypeOK, TypeOK', Inv, [Next]_vars
                   PROVE  Inv'
      OBVIOUS
    <2>2. /\ requests_count \in Nat /\ requests_failed \in Nat /\ requests_finished \in Nat
          /\ requests_count' \in Nat /\ requests_failed' \in Nat /\ requests_finished' \in Nat
          /\ Len(response_queue) \in Nat
          /\ Cardinality(transfers) \in Nat
      BY <2>1, FS_CardinalityType DEF TypeOK
    <2>b. requests_finished + requests_failed + Cardinality(transfers) + Len(response_queue)
            <= requests_count
      BY <2>1 DEF MetricsConservation
    <2>3. ASSUME NEW d \in Datagram, on_data_received(d), ArrivalEffect(d)
          PROVE  Inv'
      <3>1. response_queue' = response_queue
        BY <2>3 DEF ArrivalEffect
      <3>2. CASE transfers' = transfers
        <4>1. UNCHANGED metrics \/ (requests_count' = requests_count + 1 /\ AtMostOneResult)
          BY <2>1, <2>3, ArrivalCounts DEF metrics, AtMostOneResult
        <4>2. CASE UNCHANGED metrics
          BY <2>1, <3>1, <3>2, <4>2 DEF MetricsConservation, metrics
        <4>3. ASSUME requests_count' = requests_count + 1,
                     UNCHANGED <<requests_finished, requests_failed>>
              PROVE  MetricsConservation'
          BY <2>2, <2>b, <3>1, <3>2, <4>3 DEF MetricsConservation
        <4>4. ASSUME requests_count' = requests_count + 1,
                     requests_finished' = requests_finished + 1,
                     requests_failed' = requests_failed
              PROVE  MetricsConservation'
          BY <2>2, <2>b, <3>1, <3>2, <4>4 DEF MetricsConservation
        <4>5. ASSUME requests_count' = requests_count + 1,
                     requests_finished' = requests_finished,
                     requests_failed' = requests_failed + 1
              PROVE  MetricsConservation'
          BY <2>2, <2>b, <3>1, <3>2, <4>5 DEF MetricsConservation
        <4>6. QED BY <2>1, <3>2, <4>1, <4>2, <4>3, <4>4, <4>5 DEF AtMostOneResult
      <3>3. ASSUME NEW t, transfers' = transfers \cup {t}, transfers' # transfers
            PROVE  Inv'
        <4>1. IsFiniteSet(transfers') /\ Cardinality(transfers') = Cardinality(transfers) + 1
          BY <2>1, <3>3, FS_AddElement
        <4>2. requests_count' = requests_count + 1
          BY <2>1, <2>3, <3>3, ArrivalCounts
        <4>3. UNCHANGED <<requests_finished, requests_failed>>
          BY <2>1, <2>3, <3>3, ArrivalCounts
        <4>4. MetricsConservation'
          BY <2>1, <2>2, <3>1, <4>1, <4>2, <4>3 DEF MetricsConservation
        <4>5. QED BY <4>1, <4>4
      <3>4. QED BY <2>1, <2>3, <3>2, <3>3, ArrivalCounts
    <2>4. CASE on_http_response_received
      <3>1. /\ requests_count' = requests_count
            /\ transfers' = transfers
            /\ Len(response_queue') = Len(response_queue) - 1
            /\ AtMostOneResult
        BY <2>1, <2>4, ResponseCounts
      <3>2. CASE UNCHANGED <<requests_finished, requests_failed>>
        BY <2>1, <2>2, <2>b, <3>1, <3>2 DEF MetricsConservation
      <3>3. CASE requests_finished' = requests_finished + 1 /\ requests_failed' = requests_failed
        BY <2>1, <2>2, <2>b, <3>1, <3>3 DEF MetricsConservation
      <3>4. CASE requests_finished' = requests_finished /\ requests_failed' = requests_failed + 1
        BY <2>1, <2>2, <2>b, <3>1, <3>4 DEF MetricsConservation
      <3>5. QED BY <3>1, <3>2, <3>3, <3>4 DEF AtMostOneResult
    <2>5. ASSUME NEW t \in transfers, NEW status \in Status, check_multi_info(t, status)
          PROVE  Inv'
      <3>1. /\ UNCHANGED metrics
            /\ transfers' = transfers \ {t}
            /\ Len(response_queue') = Len(response_queue) + 1
        BY <2>1, <2>5 DEF check_multi_info, remove_handle, TypeOK
      <3>2. IsFiniteSet(transfers') /\ Cardinality(transfers') = Cardinality(transfers) - 1
        BY <2>1, <3>1, FS_RemoveElement
      <3>3. QED BY <2>1, <2>2, <3>1, <3>2 DEF MetricsConservation, metrics
    <2>6. CASE UNCHANGED <<waiting_requests, transfers, response_queue, received, provisional,
                           finals, synced, metrics>>
      BY <2>1, <2>6 DEF MetricsConservation, metrics
    <2>7. QED BY <2>1, <2>3, <2>4, <2>5, <2>6, StepCases
  <1>3. QED BY <1>1, <1>2, TypeCorrect, PTL DEF Spec
=============================================================================
