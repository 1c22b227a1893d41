-------------------------------- MODULE Wire --------------------------------
(***************************************************************************)
(* Datagrams and addresses: how Transport receives a datagram and binds    *)
(* its sockets, how ResolverRequest::parse() finds the data in a request,  *)
(* how replies announce their lengths, and how parseAddr() splits a URL.   *)
(*                                                                         *)
(* Only lengths are kept of a datagram.  The sizes of buffers are          *)
(* constants; a field of one byte holds 0 to 255.                          *)
(***************************************************************************)
EXTENDS Inputs, FiniteSetsExt, SequencesExt

CONSTANTS
  MsgSize,      \* MSG_SZ
  JsonSizeMod,  \* values of the four bytes of json_size
  SizeMod,      \* values of a size_t
  ProtocolSize, \* PROTOCOL_SIZE
  HostSize,     \* HOST_SIZE
  SockaddrSize, \* SOCKADDR_SIZE
  PortMod       \* values of the two bytes of sin_port

ASSUME SizeAssumption == {MsgSize, ProtocolSize, HostSize, SockaddrSize} \subseteq Nat
ASSUME PortAssumption == PortMod \in Nat \ {0}

\* A size_t is wider than json_size, by more than any header.
ASSUME WidthAssumption ==
  JsonSizeMod \in Nat \ {0} /\ SizeMod \in Nat /\ SizeMod > JsonSizeMod + MsgSize + 16

-----------------------------------------------------------------------------
(***************************************************************************)
(* Receiving.                                                              *)
(***************************************************************************)

Byte == 256

\* The zero behind a datagram of k bytes: behind the buffer lies length, of
\* which it clears the lowest byte.
zero_at(out, k) == IF k = MsgSize THEN [out EXCEPT !.length = @ - (@ % Byte)] ELSE out

\* Mutant: the length is that of the datagram, not of what was received.
recv_data_uncut(size) ==
  LET ret == IF size < MsgSize THEN size ELSE MsgSize
      out == [received |-> ret, length |-> 0]
  IN IF ret > 0 THEN [zero_at(out, ret) EXCEPT !.length = size] ELSE out

\* recvfrom() cuts what does not fit.
recv_data(size) ==
  LET ret == IF size < MsgSize THEN size ELSE MsgSize
      out == [received |-> ret, length |-> 0]
  IN IF ret > 0 THEN [zero_at(out, ret) EXCEPT !.length = ret] ELSE out

\* What follows the fields id, database_id and type.
req_hdr_common_size == 6
data_offset == [tagged |-> req_hdr_common_size + 1, cnam |-> req_hdr_common_size + 4]

\* Mutant: the sum of header and data is kept in four bytes.
parse_wraps(length, type, announced) ==
  IF length < req_hdr_common_size \/ type \notin DOMAIN data_offset THEN [ok |-> FALSE]
  ELSE IF length < data_offset[type] \/ (data_offset[type] + announced) % JsonSizeMod > length
  THEN [ok |-> FALSE]
  ELSE [ok |-> TRUE, first |-> data_offset[type], size |-> announced]

\* The piece of a datagram of this length that becomes the request's data.
parse(length, type, announced) ==
  IF length < req_hdr_common_size \/ type \notin DOMAIN data_offset THEN [ok |-> FALSE]
  ELSE IF length < data_offset[type] \/ (data_offset[type] + announced) % SizeMod > length
  THEN [ok |-> FALSE]
  ELSE [ok |-> TRUE, first |-> data_offset[type], size |-> announced]

-----------------------------------------------------------------------------
(***************************************************************************)
(* Replying.                                                               *)
(***************************************************************************)
\* Mutant: lrn_size is the size of the tag.
send_tagged_reply_swapped(lrn, tag) ==
  [data_size |-> (lrn + tag) % Byte, lrn_size |-> tag % Byte, sent |-> lrn + tag]

\* The sizes of a routing number and a tag, in fields of one byte.
send_tagged_reply(lrn, tag) ==
  [data_size |-> (lrn + tag) % Byte, lrn_size |-> lrn % Byte, sent |-> lrn + tag]

-----------------------------------------------------------------------------
(***************************************************************************)
(* Addresses: sequences of characters.                                     *)
(***************************************************************************)
Colon == ":"
delimiter == <<Colon, "/", "/">>

IsAt(addr, k, s) == k + Len(s) - 1 <= Len(addr) /\ SubSeq(addr, k, k + Len(s) - 1) = s
Starts(addr, s) == {k \in 1 .. Len(addr) : IsAt(addr, k, s)}

\* strncpy() of so many characters into a field that holds limit.
Copied(s, limit) == IF Len(s) \in 1 .. limit THEN s ELSE <<>>

\* Mutant: the host before a port is copied whatever its size.
parseAddr_unchecked(addr) ==
  LET found == Starts(addr, delimiter)
      proto == IF found = {} THEN <<>> ELSE SubSeq(addr, 1, Min(found) - 1)
      rest == IF found = {} THEN addr ELSE SubSeq(addr, Min(found) + 3, Len(addr))
      colon == Starts(rest, <<Colon>>)
  IN IF addr = <<>> \/ Len(addr) >= SockaddrSize THEN [ok |-> FALSE, overrun |-> FALSE]
     ELSE [ok |-> TRUE, overrun |-> colon = {} /\ Len(rest) > HostSize,
           proto |-> Copied(proto, ProtocolSize),
           host |-> IF colon = {} THEN rest ELSE SubSeq(rest, 1, Min(colon) - 1),
           port |-> IF colon = {} THEN <<>> ELSE SubSeq(rest, Min(colon) + 1, Len(rest))]

\* Without a port the host is copied a second time, whatever its size: one
\* that is too long is not terminated, or overruns the caller's structure.
parseAddr(addr) ==
  LET found == Starts(addr, delimiter)
      proto == IF found = {} THEN <<>> ELSE SubSeq(addr, 1, Min(found) - 1)
      rest == IF found = {} THEN addr ELSE SubSeq(addr, Min(found) + 3, Len(addr))
      colon == Starts(rest, <<Colon>>)
  IN IF addr = <<>> \/ Len(addr) >= SockaddrSize THEN [ok |-> FALSE, overrun |-> FALSE]
     ELSE [ok |-> TRUE, overrun |-> colon = {} /\ Len(rest) > HostSize,
           proto |-> Copied(proto, ProtocolSize),
           host |-> IF colon = {} THEN rest ELSE Copied(SubSeq(rest, 1, Min(colon) - 1), HostSize),
           port |-> IF colon = {} THEN <<>> ELSE SubSeq(rest, Min(colon) + 1, Len(rest))]

numerals == <<"0", "1", "2", "3", "4", "5", "6", "7", "8", "9">>

\* The number a text begins with.
atoi(text) ==
  LET minus == text # <<>> /\ Head(text) = "-"
      t == IF minus THEN Tail(text) ELSE text
      length == Max({n \in 0 .. Len(t) : \A k \in 1 .. n : t[k] \in Range(numerals)})
      number == FoldLeft(LAMBDA v, c : v * 10 + (CHOOSE n \in 0 .. 9 : numerals[n + 1] = c), 0,
                         SubSeq(t, 1, length))
  IN IF minus THEN -number ELSE number

\* htons() takes the two lowest bytes of the int.
bind_sock_to(port) == atoi(port) % PortMod

\* socket() and link().
init_sock(fault) == fault \notin {"socket", "link"}

\* Mutant: the first endpoint that fails ends the loop.
bind_endpoints_stops(urls) ==
  LET a(j) == parseAddr(urls[j].addr)
      ok(j) == a(j).ok /\ a(j).proto = <<>> /\ urls[j].fault = "none"
      bound == {j \in DOMAIN urls : \A k \in 1 .. j : ok(k)}
  IN [undefined |-> \E j \in DOMAIN urls : a(j).overrun, watched |-> bound, bound |-> bound,
      sin_port |-> [j \in bound |-> bind_sock_to(a(j).port)], threw |-> bound = {}]

\* The endpoints of the configuration that are watched and bound, and where; a
\* url that fails is left out, its socket stays watched when only bind()
\* failed.  undefined: a url has overrun uri_c on the stack, and whatever else
\* is said here need not happen.
bind_endpoints(urls) ==
  LET a(j) == parseAddr(urls[j].addr)
      watched == {j \in DOMAIN urls : a(j).ok /\ a(j).proto = <<>> /\ init_sock(urls[j].fault)}
      bound == {j \in watched : urls[j].fault # "bind"}
  IN [undefined |-> \E j \in DOMAIN urls : a(j).overrun, watched |-> watched, bound |-> bound,
      sin_port |-> [j \in bound |-> bind_sock_to(a(j).port)], threw |-> bound = {}]

-----------------------------------------------------------------------------
(***************************************************************************)
(* What the conversions promise of one input.                              *)
(***************************************************************************)
Faults == {"none", "socket", "link", "bind"}

\* Any datagram, request, reply, address and configuration.
WireInit ==
  \/ input \in [kind : {"size"}, of : Nat]
  \/ input \in [kind : {"request"}, of : (0 .. MsgSize) \X STRING \X (0 .. JsonSizeMod - 1)]
  \/ input \in [kind : {"reply"}, of : Nat \X Nat]
  \/ input \in [kind : {"address"}, of : Seq(STRING)]
  \/ input \in [kind : {"urls"}, of : Seq([addr : Seq(STRING), fault : Faults])]

WireSpec == WireInit /\ [][UNCHANGED input]_input

\* The length of a datagram survives the zero written behind it, also when
\* the datagram fills the buffer.
KeepsLength(size) == recv_data(size).length = recv_data(size).received

\* The data of a request that is accepted lies inside the datagram, whatever
\* length its header announces.
DataInside(length, type, announced) ==
  LET r == parse(length, type, announced)
  IN r.ok => r.first + r.size <= length

\* A client that splits a tagged reply as its header says gets the routing
\* number and the tag, if and only if together they have at most 255 bytes.
Decodes(lrn, tag) ==
  LET r == send_tagged_reply(lrn, tag)
  IN (r.lrn_size = lrn /\ r.data_size - r.lrn_size = tag) <=> lrn + tag < Byte

\* The host begins at k: behind the first delimiter, or at the beginning.
HostAt(addr, k) ==
  \/ k = 1 /\ Starts(addr, delimiter) = {}
  \/ k - 3 \in Starts(addr, delimiter) /\ \A m \in Starts(addr, delimiter) : k - 3 <= m

\* An address that ends in its host, of more characters than the field holds.
HostTooLong(addr) ==
  \E k \in 1 .. Len(addr) :
    /\ HostAt(addr, k) /\ Len(addr) - k + 1 > HostSize
    /\ \A n \in k .. Len(addr) : addr[n] # Colon

\* The components of an address fit their fields, but for a host that is too
\* long and has no port behind it.
Fits(addr) ==
  LET r == parseAddr(addr)
  IN r.ok => /\ Len(r.proto) <= ProtocolSize
             /\ r.overrun <=> HostTooLong(addr)
             /\ ~r.overrun => Len(r.host) <= HostSize

\* An address with a scheme that its field holds: the first delimiter comes
\* behind one character at least and not behind too many.
HasScheme(addr) ==
  \E k \in 2 .. ProtocolSize + 1 :
    k \in Starts(addr, delimiter) /\ \A m \in Starts(addr, delimiter) : k <= m

\* The addresses of the configuration that can be listened on.
Listenable(urls) ==
  {j \in DOMAIN urls : /\ Len(urls[j].addr) \in 1 .. SockaddrSize - 1
                       /\ ~HasScheme(urls[j].addr)
                       /\ urls[j].fault = "none"}

\* As long as no address of the configuration overruns the structure it is
\* parsed into, an endpoint that can be bound is bound and watched, whatever
\* happens to the others, at the port that was asked for if two bytes hold it;
\* the program starts if one is.
EndpointsIndependent(urls) ==
  LET r == bind_endpoints(urls)
      long(j) == Len(urls[j].addr) < SockaddrSize /\ HostTooLong(urls[j].addr)
  IN /\ r.undefined <=> \E j \in DOMAIN urls : long(j)
     /\ ~r.undefined =>
          /\ r.bound = Listenable(urls)
          /\ r.bound \subseteq r.watched
          /\ \A j \in r.bound, n \in 0 .. IntMax :
               atoi(parseAddr(urls[j].addr).port) = n => (r.sin_port[j] = n <=> n < PortMod)
          /\ r.threw <=> Listenable(urls) = {}

\* Transport and ResolverRequest: the lengths of datagrams and of the parts of
\* requests and replies, and the addresses that are listened on.
WireFaithful ==
  /\ Kind("size") => KeepsLength(input.of)
  /\ Kind("request") => DataInside(input.of[1], input.of[2], input.of[3])
  /\ Kind("reply") => Decodes(input.of[1], input.of[2])
  /\ Kind("address") => Fits(input.of)
  /\ Kind("urls") => EndpointsIndependent(input.of)
=============================================================================
