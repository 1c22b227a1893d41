------------------------------ MODULE Resolver ------------------------------
(***************************************************************************)
(* The request path of yeti-lnp-resolver: the Resolver object, the map of  *)
(* requests that wait for an HTTP answer, and the queue through which      *)
(* AsyncHttpClient hands finished transfers back (resolver/Resolver.cpp,   *)
(* drivers/modules/AsyncHttpClient.cpp).                                   *)
(*                                                                         *)
(* One dispatcher thread runs every handler, so a handler is one action.   *)
(* Two things interleave with it: libcurl's completions, and the SIGHUP    *)
(* handler, which replaces the driver map between any two handlers and     *)
(* between any two responses of one drain of the response queue.           *)
(*                                                                         *)
(* A datagram that arrives gets a receipt number, its index in received;   *)
(* the same datagram may arrive any number of times.  The program keeps no *)
(* such number: requests, transfers and responses are told apart by the    *)
(* four-byte id the client chose.  The receipts are what the properties    *)
(* use to say which request a reply really belongs to.                     *)
(***************************************************************************)
EXTENDS Integers, Sequences, FiniteSets

CONSTANTS
  Client,      \* addresses that send datagrams
  Id,          \* request ids the clients use
  DbId,        \* ids of driver rows that requests name
  Data,        \* request payloads: a number or a JSON object
  Datagram,    \* datagrams that may arrive
  Driver,      \* driver objects a configuration may hold
  NoDriver,    \* "no driver under this database id"
  Config,      \* driver maps that loadResolveDrivers may return
  SetupFault,  \* ways in which AsyncHttpClient::make_request may fail
  MaxRecv      \* bound on the datagrams received

TAGGED_REQ_VERSION == 0
CNAM_REQ_VERSION == 1
NoType == -1         \* ResolverRequest::type before parse() sets it

ReqType == {TAGGED_REQ_VERSION, CNAM_REQ_VERSION}

\* ECErrorId
NO_ERROR == 0
PSQL_INVALID_REQUEST == 11
GENERAL_RESOLVING_ERROR == 21
DRIVER_RESOLVING_ERROR == 22

ErrorId == {NO_ERROR, PSQL_INVALID_REQUEST, GENERAL_RESOLVING_ERROR,
            DRIVER_RESOLVING_ERROR}

\* How a datagram is framed: well formed, shorter than the common header,
\* of an unknown type, or with a length field that exceeds the datagram.
Frame == {"ok", "short", "bad_type", "bad_len"}

\* The driver classes: from memory, by a blocking SIP call, over HTTP.
DriverName == {"csv", "sip", "thinq", "alcazar", "coure_anq", "bulkvs", "cnam"}

\* What a finished transfer brings: a body its own vendor sends for a number
\* it knows, a body its own driver rejects, or a transport error.
Status == {"answer", "junk", "failed"}

ASSUME DatagramAssumption ==
  Datagram \subseteq [client : Client, id : Id, db : DbId, type : ReqType,
                      data : Data, frame : Frame]

\* timed says that the driver's timeout is not 0, which libcurl reads as never.
ASSUME DriverAssumption ==
  /\ Driver \subseteq [name : DriverName, type : ReqType, timed : BOOLEAN]
  /\ \A drv \in Driver : drv.type = CNAM_REQ_VERSION <=> drv.name = "cnam"
  /\ NoDriver \notin Driver

ASSUME ConfigAssumption ==
  /\ Config \subseteq [DbId -> Driver \cup {NoDriver}]
  /\ Config # {}

ASSUME FaultAssumption == SetupFault \subseteq {"throw", "fail"}

ASSUME BoundAssumption == MaxRecv \in Nat

-----------------------------------------------------------------------------
VARIABLES
  \* Resolver
  mDriversMap,       \* database id -> driver or NoDriver
  waiting_requests,  \* id -> receipt of the request stored, 0 when none is
  \* AsyncHttpClient
  transfers,         \* transfers libcurl runs: receipt and issuing driver
  response_queue,    \* finished transfers that were not handed over yet
  notified,          \* respose_notifier_fd is readable
  draining,          \* respose_notifier_event_handler is in its loop
  \* what the outside has seen
  received,          \* every datagram received, in order
  provisional,       \* receipts whose provisional reply was sent
  finals,            \* final replies sent, in order
  synced,            \* entries handed to lnp_cache
  requests_count, requests_failed, requests_finished    \* Prometheus totals

httpVars == <<transfers, response_queue, notified, draining>>
metrics == <<requests_count, requests_failed, requests_finished>>
vars == <<mDriversMap, waiting_requests, httpVars, received, provisional,
          finals, synced, metrics>>

Receipt == 1 .. Len(received)

Transfer == [n : Receipt, drv : Driver]
Response == [n : Receipt, drv : Driver, status : Status]

\* A final reply goes to the client of receipt req; the event that made the
\* program send it was the arrival, or the HTTP response, of receipt cause.
\* by is the driver that produced the result (NoDriver in an error);
\* at is the number of datagrams received by then.
Final == [req : Receipt, cause : Receipt, code : ErrorId, by : Driver \cup {NoDriver},
          at : Receipt]

CacheEntry == [db : DbId, dst : Data, asked : Data]

Init ==
  /\ mDriversMap \in Config
  /\ waiting_requests = [i \in Id |-> 0]
  /\ transfers = {}
  /\ response_queue = <<>>
  /\ notified = FALSE
  /\ draining = FALSE
  /\ received = <<>>
  /\ provisional = {}
  /\ finals = <<>>
  /\ synced = {}
  /\ requests_count = 0
  /\ requests_failed = 0
  /\ requests_finished = 0

-----------------------------------------------------------------------------
(***************************************************************************)
(* Replies.                                                                *)
(***************************************************************************)

\* The type the request has when parse() returns or throws: an unknown type is
\* forced to tagged, a datagram below the common header leaves it unset.
parsed_type(d) ==
  CASE d.frame = "short"    -> NoType
    [] d.frame = "bad_type" -> TAGGED_REQ_VERSION
    [] OTHER                -> d.type

\* Mutant: CNAM requests fall through the switch.
error_reply_sent_to_tagged_only(type) == type = TAGGED_REQ_VERSION

\* The switch of send_error_reply: any other type is not answered.
error_reply_sent(type) == type \in {TAGGED_REQ_VERSION, CNAM_REQ_VERSION}

send_error_reply(type, req, cause, code, at) ==
  finals' = IF error_reply_sent(type)
              THEN Append(finals, [req |-> req, cause |-> cause, code |-> code,
                                   by |-> NoDriver, at |-> at])
              ELSE finals

send_reply(req, cause, drv, at) ==
  finals' = Append(finals, [req |-> req, cause |-> cause, code |-> NO_ERROR,
                            by |-> drv, at |-> at])

\* Result of a lookup: counted, cached when the driver is a tagged one, sent.
\* d is the request answered, asked the payload the lookup was made for.
handle_request_is_done(d, asked, req, cause, drv, at) ==
  /\ requests_finished' = requests_finished + 1
  /\ synced' = IF drv.type = TAGGED_REQ_VERSION
                 THEN synced \cup {[db |-> d.db, dst |-> d.data, asked |-> asked]}
                 ELSE synced
  /\ send_reply(req, cause, drv, at)

-----------------------------------------------------------------------------
(***************************************************************************)
(* The waiting map.                                                        *)
(***************************************************************************)

\* Mutant: the slot of the next receipt is stored.
emplace_off_by_one(i, n) ==
  [waiting_requests EXCEPT ![i] = IF @ = 0 THEN n + 1 ELSE @]

\* std::map::emplace stores nothing when the id is already there.
emplace(i, n) ==
  [waiting_requests EXCEPT ![i] = IF @ = 0 THEN n ELSE @]

\* Mutant: the entry stays in the map.
erase_forgotten(i) == waiting_requests

erase(i) == [waiting_requests EXCEPT ![i] = 0]

\* Mutant: any waiting request is taken for the one that was answered.
find_any(i) ==
  IF \E j \in Id : waiting_requests[j] # 0
    THEN waiting_requests[CHOOSE j \in Id : waiting_requests[j] # 0]
    ELSE 0

\* Receipt of the request stored under id i; 0 is end().
find(i) == waiting_requests[i]

-----------------------------------------------------------------------------
(***************************************************************************)
(* Drivers, as resolve() and parse_response() see them.                    *)
(***************************************************************************)

\* Mutant: the check of the database type is dropped.
type_supported_unchecked(drv, type) == TRUE

type_supported(drv, type) == drv.type = type

\* What CDriver::resolve may do: finish, throw CDriver::error, or start a
\* lookup over HTTP.  The CNAM driver first parses the request's JSON.
csv_resolve == {"done"}
sip_resolve == {"done", "driver_error"}
thinq_resolve == {"http"}
alcazar_resolve == {"http"}
coure_anq_resolve == {"http"}
bulkvs_resolve == {"http"}
cnam_resolve == {"http", "driver_error"}

resolve_outcome(drv) ==
  CASE drv.name = "csv"       -> csv_resolve
    [] drv.name = "sip"       -> sip_resolve
    [] drv.name = "thinq"     -> thinq_resolve
    [] drv.name = "alcazar"   -> alcazar_resolve
    [] drv.name = "coure_anq" -> coure_anq_resolve
    [] drv.name = "bulkvs"    -> bulkvs_resolve
    [] drv.name = "cnam"      -> cnam_resolve

\* The driver in the map need not be the one that issued the lookup.  A driver
\* that reads JSON accepts its own answer, rejects the bodies it was sent as
\* junk, and may do either with a body meant for another driver.
json_parse(name, r, rejections) ==
  IF r.drv.name # name THEN {"done"} \cup rejections
  ELSE IF r.status = "answer" THEN {"done"} ELSE rejections

\* What CDriver::parse may do with the body of response r.  The CSV driver's
\* parse is empty; the SIP driver's takes any text without ';' for the number.
csv_parse(r) == {"done"}
sip_parse(r) == {"done", "driver_error"}
thinq_parse(r) == json_parse("thinq", r, {"driver_error"})
alcazar_parse(r) == json_parse("alcazar", r, {"driver_error"})
coure_anq_parse(r) == json_parse("coure_anq", r, {"driver_error", "other_error"})
bulkvs_parse(r) == json_parse("bulkvs", r, {"driver_error"})
cnam_parse(r) == json_parse("cnam", r, {"driver_error"})

parse_outcome(drv, r) ==
  CASE drv.name = "csv"       -> csv_parse(r)
    [] drv.name = "sip"       -> sip_parse(r)
    [] drv.name = "thinq"     -> thinq_parse(r)
    [] drv.name = "alcazar"   -> alcazar_parse(r)
    [] drv.name = "coure_anq" -> coure_anq_parse(r)
    [] drv.name = "bulkvs"    -> bulkvs_parse(r)
    [] drv.name = "cnam"      -> cnam_parse(r)

error_code(outcome) ==
  IF outcome = "driver_error" THEN DRIVER_RESOLVING_ERROR
                              ELSE GENERAL_RESOLVING_ERROR

-----------------------------------------------------------------------------
(***************************************************************************)
(* on_data_received: parse, provisional reply, resolve.                    *)
(***************************************************************************)

\* The dispatcher takes datagram d from the socket, as receipt next_receipt.
next_receipt == Len(received) + 1

recv_data(d) ==
  /\ ~draining
  /\ Len(received) < MaxRecv
  /\ received' = Append(received, d)

\* parse() throws before the provisional reply.
parse_error(d) ==
  /\ d.frame # "ok"
  /\ recv_data(d)
  /\ send_error_reply(parsed_type(d), next_receipt, next_receipt,
                      PSQL_INVALID_REQUEST, next_receipt)
  /\ UNCHANGED <<mDriversMap, waiting_requests, httpVars, provisional, synced, metrics>>

\* parse() succeeds and the provisional reply is sent.
send_provisional_reply(d) ==
  /\ d.frame = "ok"
  /\ recv_data(d)
  /\ provisional' = provisional \cup {next_receipt}

resolve_unknown_database(d) ==
  /\ mDriversMap[d.db] = NoDriver
  /\ send_provisional_reply(d)
  /\ send_error_reply(d.type, next_receipt, next_receipt,
                      GENERAL_RESOLVING_ERROR, next_receipt)
  /\ UNCHANGED <<mDriversMap, waiting_requests, httpVars, synced, metrics>>

resolve_unsupported_type(d) ==
  /\ mDriversMap[d.db] # NoDriver
  /\ ~type_supported(mDriversMap[d.db], d.type)
  /\ send_provisional_reply(d)
  /\ send_error_reply(d.type, next_receipt, next_receipt,
                      GENERAL_RESOLVING_ERROR, next_receipt)
  /\ UNCHANGED <<mDriversMap, waiting_requests, httpVars, synced, metrics>>

\* The request reaches its driver, whose resolve() may end in outcome.
driver_resolve(d, outcome) ==
  /\ mDriversMap[d.db] # NoDriver
  /\ type_supported(mDriversMap[d.db], d.type)
  /\ outcome \in resolve_outcome(mDriversMap[d.db])
  /\ send_provisional_reply(d)
  /\ requests_count' = requests_count + 1
  /\ UNCHANGED mDriversMap

resolve_failed(d) ==
  /\ driver_resolve(d, "driver_error")
  /\ requests_failed' = requests_failed + 1
  /\ send_error_reply(d.type, next_receipt, next_receipt,
                      DRIVER_RESOLVING_ERROR, next_receipt)
  /\ UNCHANGED <<waiting_requests, httpVars, synced, requests_finished>>

resolve_done(d) ==
  /\ driver_resolve(d, "done")
  /\ handle_request_is_done(d, d.data, next_receipt, next_receipt,
                            mDriversMap[d.db], next_receipt)
  /\ UNCHANGED <<waiting_requests, httpVars, requests_failed>>

\* make_http_request stores the request before it starts the transfer.
make_http_request(d) ==
  /\ driver_resolve(d, "http")
  /\ waiting_requests' = emplace(d.id, next_receipt)
  /\ UNCHANGED <<response_queue, notified, draining, synced, requests_finished>>

http_request_started(d) ==
  /\ make_http_request(d)
  /\ transfers' = transfers \cup {[n |-> next_receipt, drv |-> mDriversMap[d.db]]}
  /\ UNCHANGED <<finals, requests_failed>>

\* Mutant: the error is raised when libcurl already has the transfer.
http_request_throws_late(d) ==
  /\ "throw" \in SetupFault
  /\ make_http_request(d)
  /\ requests_failed' = requests_failed + 1
  /\ send_error_reply(d.type, next_receipt, next_receipt,
                      GENERAL_RESOLVING_ERROR, next_receipt)
  /\ transfers' = transfers \cup {[n |-> next_receipt, drv |-> mDriversMap[d.db]]}

\* curl_easy_setopt fails: AsyncHttpClient::error, caught in resolve().  The
\* entry stays in waiting_requests.
http_request_throws(d) ==
  /\ "throw" \in SetupFault
  /\ make_http_request(d)
  /\ requests_failed' = requests_failed + 1
  /\ send_error_reply(d.type, next_receipt, next_receipt,
                      GENERAL_RESOLVING_ERROR, next_receipt)
  /\ UNCHANGED transfers

\* curl_easy_init or curl_multi_add_handle fails: -1, which nobody looks at.
http_request_not_started(d) ==
  /\ "fail" \in SetupFault
  /\ make_http_request(d)
  /\ UNCHANGED <<transfers, finals, requests_failed>>

on_data_received(d) ==
  \/ parse_error(d)
  \/ resolve_unknown_database(d)
  \/ resolve_unsupported_type(d)
  \/ resolve_failed(d)
  \/ resolve_done(d)
  \/ http_request_started(d)
  \/ http_request_throws(d)
  \/ http_request_not_started(d)

-----------------------------------------------------------------------------
(***************************************************************************)
(* AsyncHttpClient: completion, notification, hand-over.                   *)
(***************************************************************************)

\* Mutant: the easy handle stays in the multi handle and completes again.
remove_handle_forgotten(t) == transfers

remove_handle(t) == transfers \ {t}

\* Mutant: the eventfd is not written.
notify_respose_missing == notified

\* The eventfd is readable from here on.
notify_respose_available == TRUE

\* One completed transfer, as read from curl_multi_info_read.
check_multi_info(t, status) ==
  /\ ~draining
  /\ response_queue' = Append(response_queue, [n |-> t.n, drv |-> t.drv, status |-> status])
  /\ transfers' = remove_handle(t)
  /\ notified' = notify_respose_available
  /\ UNCHANGED <<mDriversMap, waiting_requests, draining, received, provisional,
                 finals, synced, metrics>>

\* eventfd_read, then the loop over the queue.
respose_notifier_event_handler ==
  /\ notified
  /\ ~draining
  /\ notified' = FALSE
  /\ draining' = TRUE
  /\ UNCHANGED <<mDriversMap, waiting_requests, transfers, response_queue,
                 received, provisional, finals, synced, metrics>>

\* Mutant: the handler takes one response per notification.
queue_drained_early == TRUE

queue_drained == response_queue = <<>>

drain_end ==
  /\ draining
  /\ queue_drained
  /\ draining' = FALSE
  /\ UNCHANGED <<mDriversMap, waiting_requests, transfers, response_queue, notified,
                 received, provisional, finals, synced, metrics>>

-----------------------------------------------------------------------------
(***************************************************************************)
(* on_http_response_received and parse_response.                           *)
(***************************************************************************)

\* The response at the front of the queue, the receipt of the request stored
\* under its id, and the driver now in the map for that request.
response == Head(response_queue)
request == find(received[response.n].id)
driver == mDriversMap[received[request].db]

\* The loop pops the response and calls on_http_response_received.
response_taken ==
  /\ draining
  /\ response_queue # <<>>
  /\ response_queue' = Tail(response_queue)
  /\ UNCHANGED <<mDriversMap, transfers, notified, draining, received, provisional,
                 requests_count>>

request_not_found ==
  /\ response_taken
  /\ request = 0
  /\ UNCHANGED <<waiting_requests, finals, synced, requests_failed, requests_finished>>

\* The request leaves the map and parse_response looks its driver up again.
request_found ==
  /\ response_taken
  /\ request # 0
  /\ waiting_requests' = erase(received[request].id)

\* The request is answered with an error.
response_error(code) ==
  /\ send_error_reply(received[request].type, request, response.n, code, Len(received))
  /\ UNCHANGED <<synced, requests_finished>>

parse_response_unknown_database ==
  /\ request_found
  /\ driver = NoDriver
  /\ response_error(GENERAL_RESOLVING_ERROR)
  /\ UNCHANGED requests_failed

parse_response_unsupported_type ==
  /\ request_found
  /\ driver # NoDriver
  /\ ~type_supported(driver, received[request].type)
  /\ response_error(GENERAL_RESOLVING_ERROR)
  /\ UNCHANGED requests_failed

\* The driver may look at the response.
driver_found ==
  /\ request_found
  /\ driver # NoDriver
  /\ type_supported(driver, received[request].type)

parse_response_http_error ==
  /\ driver_found
  /\ response.status = "failed"
  /\ requests_failed' = requests_failed + 1
  /\ response_error(GENERAL_RESOLVING_ERROR)

parse_response_failed ==
  /\ driver_found
  /\ response.status # "failed"
  /\ \E outcome \in parse_outcome(driver, response) \ {"done"} :
       response_error(error_code(outcome))
  /\ requests_failed' = requests_failed + 1

parse_response_done ==
  /\ driver_found
  /\ response.status # "failed"
  /\ "done" \in parse_outcome(driver, response)
  /\ handle_request_is_done(received[request], received[response.n].data, request,
                            response.n, driver, Len(received))
  /\ UNCHANGED requests_failed

on_http_response_received ==
  \/ request_not_found
  \/ parse_response_unknown_database
  \/ parse_response_unsupported_type
  \/ parse_response_http_error
  \/ parse_response_failed
  \/ parse_response_done

-----------------------------------------------------------------------------
(***************************************************************************)
(* SIGHUP.  A load that fails leaves the map as it is.                     *)
(***************************************************************************)
configure ==
  /\ mDriversMap' \in Config
  /\ UNCHANGED <<waiting_requests, httpVars, received, provisional, finals, synced, metrics>>

Next ==
  \/ \E d \in Datagram : on_data_received(d)
  \/ \E t \in transfers, status \in Status : check_multi_info(t, status)
  \/ respose_notifier_event_handler
  \/ on_http_response_received
  \/ drain_end
  \/ configure

Spec == Init /\ [][Next]_vars

-----------------------------------------------------------------------------
(***************************************************************************)
(* Fairness.  The dispatcher thread is never blocked for ever (epoll_wait  *)
(* returns every readable descriptor in turn, a SIP call has a timeout),   *)
(* so a readable notifier is served and the loop over the queue goes on.   *)
(* A transfer ends by itself only when its driver gave it a timeout.       *)
(***************************************************************************)
transfer_ends(n) ==
  \E t \in transfers, status \in Status :
    t.n = n /\ t.drv.timed /\ check_multi_info(t, status)

Fairness ==
  /\ WF_vars(respose_notifier_event_handler)
  /\ WF_vars(on_http_response_received)
  /\ WF_vars(drain_end)
  /\ \A n \in 1 .. MaxRecv : WF_vars(transfer_ends(n))

FairSpec == Spec /\ Fairness

-----------------------------------------------------------------------------
(***************************************************************************)
(* Properties.                                                             *)
(***************************************************************************)

\* Every variable holds what its C++ counterpart can hold; an entry of
\* waiting_requests, a transfer, a response and a reply name a datagram that
\* really was received (Resolver.h, the state of class Resolver).
TypeOK ==
  /\ mDriversMap \in [DbId -> Driver \cup {NoDriver}]
  /\ received \in Seq(Datagram)
  /\ waiting_requests \in [Id -> 0 .. Len(received)]
  /\ transfers \subseteq Transfer
  /\ response_queue \in Seq(Response)
  /\ notified \in BOOLEAN
  /\ draining \in BOOLEAN
  /\ provisional \subseteq Receipt
  /\ finals \in Seq(Final)
  /\ synced \subseteq CacheEntry
  /\ requests_count \in Nat
  /\ requests_failed \in Nat
  /\ requests_finished \in Nat

\* One receipt, or the one transfer it started, makes the program send at most
\* one final reply, and that reply carries the id of the request that caused
\* it: on_http_response_received answers each finished transfer once, and never
\* a request that resolve() already answered.
OneReplyPerReceipt ==
  /\ \A j, k \in 1 .. Len(finals) : finals[j].cause = finals[k].cause => j = k
  /\ \A k \in 1 .. Len(finals) :
       received[finals[k].req].id = received[finals[k].cause].id

\* What the map, libcurl, the queue and the replies sent say of a receipt fits
\* together: a request is stored under its own id, a receipt is in libcurl or
\* in the queue at most once and not in both, and a lookup in flight has not
\* been answered (make_http_request, check_multi_info and on_http_response_
\* received hand a lookup over, they never copy it).
StoredUnderOwnId ==
  \A i \in Id : waiting_requests[i] # 0 => received[waiting_requests[i]].id = i

InFlightOnce ==
  /\ \A t, u \in transfers : t.n = u.n => t = u
  /\ \A j, k \in 1 .. Len(response_queue) :
       response_queue[j].n = response_queue[k].n => j = k
  /\ \A t \in transfers, k \in 1 .. Len(response_queue) : response_queue[k].n # t.n

InFlightUnanswered ==
  \A k \in 1 .. Len(finals) :
    /\ \A t \in transfers : finals[k].cause # t.n
    /\ \A j \in 1 .. Len(response_queue) : finals[k].cause # response_queue[j].n

HandOver == StoredUnderOwnId /\ InFlightOnce /\ InFlightUnanswered

\* The request was answered with an error by the call that received it.
RefusedOnArrival(n) ==
  \E k \in 1 .. Len(finals) :
    /\ finals[k].req = n /\ finals[k].cause = n /\ finals[k].at = n
    /\ finals[k].code = GENERAL_RESOLVING_ERROR

\* A request gets at most one final reply, and one that still waits has had
\* none, also when its id is used by several requests at once (waiting_requests
\* gives the request up before it is answered).  The one exception is a
\* make_request that throws: resolve() answers with an error and the entry
\* stays, to be answered once more, by the next response with that id.
NoSecondReply ==
  /\ \A j, k \in 1 .. Len(finals) :
       finals[j].req = finals[k].req /\ j < k =>
         /\ RefusedOnArrival(finals[j].req)
         /\ \A l \in 1 .. Len(finals) : finals[l].req = finals[j].req => l \in {j, k}
  /\ \A i \in Id : \A k \in 1 .. Len(finals) :
       waiting_requests[i] = finals[k].req => RefusedOnArrival(finals[k].req)

\* A positive reply was produced by a driver of the type the request asked
\* for, whatever SIGHUP did between the request and the response: the type
\* check of resolve() is repeated in parse_response().
ReplyKindMatches ==
  \A k \in 1 .. Len(finals) :
    finals[k].code = NO_ERROR => finals[k].by.type = received[finals[k].req].type

\* A finished transfer is never left in response_queue unannounced: the
\* notifier is readable or the handler is still in its loop.
NoLostWakeup == response_queue # <<>> => notified \/ draining

\* A lookup that was counted as started is counted at most once as finished or
\* failed, and not before its transfer and its response are gone.
MetricsConservation ==
  requests_finished + requests_failed + Cardinality(transfers) + Len(response_queue)
    <= requests_count

\* Requests that carry the same id are the same request.
UniqueIds == \A d, e \in Datagram : d.id = e.id => d = e

\* A positive reply answers the number its request asked about: on_http_
\* response_received finds the request the response belongs to.
AnswerIsForTheNumberAsked ==
  \A k \in 1 .. Len(finals) :
    finals[k].code = NO_ERROR =>
      received[finals[k].req].data = received[finals[k].cause].data

\* What is cached under a number is the answer a driver gave for that number.
CachedForTheNumberAsked == \A e \in synced : e.dst = e.asked

\* Receipt n has had its final reply: one for the same datagram was sent when
\* n had been received.
Answered(n) ==
  \E k \in 1 .. Len(finals) :
    /\ finals[k].at >= n
    /\ received[finals[k].req] = received[n]

\* A response for request id i is still to come.
InFlight(i) ==
  \/ \E t \in transfers : received[t.n].id = i
  \/ \E k \in 1 .. Len(response_queue) : received[response_queue[k].n].id = i

\* A request that got a provisional reply is answered, or it is stored in
\* waiting_requests and a response that will find it there is under way: no
\* retransmission and no reload makes resolve() or parse_response() drop it.
NoRequestForgotten ==
  \A n \in provisional :
    \/ Answered(n)
    \/ /\ waiting_requests[received[n].id] # 0
       /\ received[waiting_requests[received[n].id]] = received[n]
       /\ InFlight(received[n].id)

\* Every request that got a provisional reply gets its final one.
EveryRequestAnswered ==
  \A n \in 1 .. MaxRecv : n \in provisional ~> n \in provisional /\ Answered(n)
=============================================================================
