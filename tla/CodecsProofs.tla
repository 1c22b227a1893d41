---------------------------- MODULE CodecsProofs ----------------------------
(***************************************************************************)
(* Datagrams, addresses and the drivers' formats, for every size of the    *)
(* buffers and fields and for inputs of every length: what the loops of    *)
(* Formats read, and that nothing of Wire reaches out of its buffer.       *)
(***************************************************************************)
EXTENDS Wire, Formats, FiniteSetTheorems, SequenceTheorems, WellFoundedInduction, TLAPS

\* A sum that a size_t can hold is kept as it is.
LEMMA NoWrap ==
  ASSUME NEW a \in Nat, NEW m \in Nat, a < m
  PROVE  a % m = a
OBVIOUS

\* recv_data() stores the length behind the terminating zero, so that a
\* datagram that fills the buffer keeps its length.
THEOREM LengthIsKept == \A size \in Nat : KeepsLength(size)
<1> SUFFICES ASSUME NEW size \in Nat PROVE KeepsLength(size)
  OBVIOUS
<1>1. PICK ret : ret = (IF size < MsgSize THEN size ELSE MsgSize)
  OBVIOUS
<1>2. PICK out : out = [received |-> ret, length |-> 0]
  OBVIOUS
<1>3. ret \in Nat
  BY <1>1, SizeAssumption
<1>4. CASE ret > 0
  <2>1. recv_data(size) = [zero_at(out, ret) EXCEPT !.length = ret]
    BY <1>1, <1>2, <1>4 DEF recv_data
  <2>2. zero_at(out, ret) = [received |-> ret, length |-> 0]
    <3>1. 0 - (0 % Byte) = 0
      BY DEF Byte
    <3>2. [out EXCEPT !.length = 0 - (0 % Byte)] = [received |-> ret, length |-> 0]
      BY <1>2, <3>1
    <3>3. out.length = 0
      BY <1>2
    <3> QED
      BY <1>2, <3>2, <3>3 DEF zero_at
  <2>3. recv_data(size) = [received |-> ret, length |-> ret]
    BY <2>1, <2>2
  <2> QED
    BY <2>3 DEF KeepsLength
<1>5. CASE ~(ret > 0)
  <2>1. recv_data(size) = out /\ ret = 0
    BY <1>1, <1>2, <1>3, <1>5 DEF recv_data
  <2> QED
    BY <1>2, <2>1 DEF KeepsLength
<1> QED
  BY <1>4, <1>5

\* ResolverRequest::parse(): the announced size is added to the header's in a
\* size_t, which is wider than the field it was read from, so that no announced
\* size makes the data reach past the datagram.
THEOREM DataIsInside ==
  \A length \in 0 .. MsgSize, announced \in 0 .. JsonSizeMod - 1 :
    \A type : DataInside(length, type, announced)
<1> SUFFICES ASSUME NEW length \in 0 .. MsgSize, NEW announced \in 0 .. JsonSizeMod - 1, NEW type,
                    parse(length, type, announced).ok
             PROVE  parse(length, type, announced).first + parse(length, type, announced).size
                      <= length
  BY DEF DataInside
<1>1. MsgSize \in Nat /\ length \in Nat /\ announced \in Nat
  BY SizeAssumption, WidthAssumption
<1>2. ~(length < req_hdr_common_size \/ type \notin DOMAIN data_offset)
  BY DEF parse
<1>3. PICK off : off = data_offset[type]
  OBVIOUS
<1>4. off \in {7, 10}
  BY <1>2, <1>3 DEF data_offset, req_hdr_common_size
<1>5. ~(length < off \/ (off + announced) % SizeMod > length)
  BY <1>2, <1>3 DEF parse
<1>6. off + announced \in Nat /\ off + announced < SizeMod /\ SizeMod \in Nat
  BY <1>1, <1>4, WidthAssumption
<1>7. (off + announced) % SizeMod = off + announced
  BY <1>6, NoWrap
<1>8. off + announced <= length
  BY <1>1, <1>5, <1>6, <1>7
<1>9. parse(length, type, announced) = [ok |-> TRUE, first |-> off, size |-> announced]
  BY <1>2, <1>3, <1>5 DEF parse
<1> QED
  BY <1>8, <1>9

\* send_tagged_reply(): one byte each for the size of the data and that of the
\* routing number.
THEOREM RepliesDecode == \A lrn, tag \in Nat : Decodes(lrn, tag)
<1> SUFFICES ASSUME NEW lrn \in Nat, NEW tag \in Nat PROVE Decodes(lrn, tag)
  OBVIOUS
<1>1. PICK r : r = send_tagged_reply(lrn, tag)
  OBVIOUS
<1>2. r.lrn_size = lrn % 256 /\ r.data_size = (lrn + tag) % 256
  BY <1>1 DEF send_tagged_reply, Byte
<1>3. ((lrn % 256) = lrn /\ ((lrn + tag) % 256) - (lrn % 256) = tag) <=> lrn + tag < 256
  OBVIOUS
<1> QED
  BY <1>1, <1>2, <1>3 DEF Decodes, Byte

\* A piece is copied whole or not at all.
LEMMA CopiedFits ==
  ASSUME NEW s, NEW limit \in Nat
  PROVE  Len(Copied(s, limit)) <= limit
<1>1. CASE Len(s) \in 1 .. limit
  BY <1>1 DEF Copied
<1>2. CASE Len(s) \notin 1 .. limit
  BY <1>2 DEF Copied
<1> QED
  BY <1>1, <1>2

\* A set of natural numbers that is not empty has a smallest one.
LEMMA MinOfNat ==
  ASSUME NEW S \in SUBSET Nat, S # {}
  PROVE  Min(S) \in S /\ \A y \in S : Min(S) <= y
<1>1. PICK R : R = OpToRel(<, Nat)
  OBVIOUS
<1>2. IsWellFoundedOn(R, Nat)
  BY <1>1, NatLessThanWellFounded
<1>3. PICK x \in S : \A y \in S : ~ (<<y, x>> \in R)
  BY <1>2, WFMin
<1>4. \A a, b \in Nat : a < b => <<a, b>> \in R
  BY <1>1 DEF OpToRel
<1>5. \A y \in S : y \in Nat /\ x \in Nat /\ ~(y < x)
  BY <1>3, <1>4
<1>6. \A y \in S : x <= y
  BY <1>5
<1> QED
  BY <1>6 DEF Min

\* Where a text of one character is found.
LEMMA SingleStarts ==
  ASSUME NEW S, NEW t \in Seq(S), NEW c
  PROVE  Starts(t, <<c>>) = {k \in 1 .. Len(t) : t[k] = c}
<1>1. ASSUME NEW k \in 1 .. Len(t)
      PROVE  IsAt(t, k, <<c>>) <=> t[k] = c
  <2>1. PICK w : w = <<c>>
    OBVIOUS
  <2>2. k + Len(w) - 1 = k /\ k <= Len(t)
    BY <2>1
  <2>3. IsAt(t, k, w) <=> SubSeq(t, k, k) = w
    BY <2>2, Zenon DEF IsAt
  <2>4. PICK u : u = SubSeq(t, k, k)
    OBVIOUS
  <2>5. u \in Seq(S) /\ Len(u) = 1 /\ u[1] = t[k]
    BY <2>4
  <2>6. u = <<c>> <=> u[1] = c
    BY <2>5
  <2> QED
    BY <2>1, <2>3, <2>4, <2>5, <2>6
<1> QED
  BY <1>1 DEF Starts

\* What is left of a sequence from a position on.
LEMMA Suffix ==
  ASSUME NEW S, NEW t \in Seq(S), NEW from \in 1 .. Len(t) + 1, NEW rest,
         rest = SubSeq(t, from, Len(t))
  PROVE  /\ rest \in Seq(S)
         /\ Len(rest) = Len(t) - from + 1
         /\ \A n \in 1 .. Len(rest) : rest[n] = t[from + n - 1]
<1>1. PICK L \in Int : L = Len(t)
  OBVIOUS
<1>2. from \in Int
  OBVIOUS
<1>3. \A n \in from .. L : t[n] \in S
  BY <1>1
<1>4. rest = SubSeq(t, from, L)
  BY <1>1
<1>5. rest \in Seq(S)
  BY <1>2, <1>3, <1>4, SubSeqProperties, Zenon
<1>6. Len(rest) = IF from <= L THEN L - from + 1 ELSE 0
  BY <1>1, <1>2, <1>3, <1>4, SubSeqProperties
<1>7. from .. L \subseteq 1 .. L
  BY <1>1, <1>2
<1>8. \A n \in 1 .. L - from + 1 : rest[n] = t[from + n - 1]
  BY <1>1, <1>2, <1>3, <1>4, <1>7, SubSeqProperties
<1>9. Len(rest) = L - from + 1
  BY <1>1, <1>2, <1>6
<1> QED
  BY <1>1, <1>5, <1>8, <1>9

\* What parseAddr() takes for the rest of an address behind its scheme begins
\* where HostAt says.
LEMMA RestOfAddress ==
  ASSUME NEW S, NEW addr \in Seq(S), NEW found, NEW rest,
         found = Starts(addr, delimiter),
         found = {} => rest = addr,
         found # {} => rest = SubSeq(addr, Min(found) + 3, Len(addr))
  PROVE  \E h \in 1 .. Len(addr) + 1 :
           /\ rest = SubSeq(addr, h, Len(addr))
           /\ \A k \in 1 .. Len(addr) : HostAt(addr, k) <=> k = h
<1>1. found \in SUBSET Nat /\ found \subseteq 1 .. Len(addr) /\ Len(addr) \in Nat
  BY DEF Starts
<1>2. CASE found = {}
  <2>1. \A k \in 1 .. Len(addr) : HostAt(addr, k) <=> k = 1
    BY <1>2 DEF HostAt
  <2>2. rest = addr
    BY <1>2
  <2>3. 1 \in 1 .. Len(addr) + 1
    BY <1>1
  <2>4. PICK whole : whole = SubSeq(addr, 1, Len(addr))
    OBVIOUS
  <2>5. /\ whole \in Seq(S)
        /\ Len(whole) = Len(addr) - 1 + 1
        /\ \A n \in 1 .. Len(whole) : whole[n] = addr[1 + n - 1]
    BY <2>3, <2>4, Suffix
  <2>6. whole = addr
    BY <1>1, <2>5, SeqEqual
  <2> QED
    BY <2>1, <2>2, <2>3, <2>4, <2>6
<1>3. CASE found # {}
  <2>1. PICK m : m = Min(found)
    OBVIOUS
  <2>2. m \in found /\ \A y \in found : m <= y
    BY <1>1, <1>3, <2>1, MinOfNat
  <2>3. IsAt(addr, m, delimiter) /\ m \in 1 .. Len(addr)
    BY <2>2 DEF Starts
  <2>4. Len(delimiter) = 3
    BY DEF delimiter
  <2>5. m + 2 <= Len(addr) /\ m \in Nat
    BY <1>1, <2>3, <2>4 DEF IsAt
  <2>6. rest = SubSeq(addr, m + 3, Len(addr))
    BY <1>3, <2>1
  <2>7. \A k \in 1 .. Len(addr) : HostAt(addr, k) <=> k = m + 3
    <3>1. ASSUME NEW k \in 1 .. Len(addr)
          PROVE  HostAt(addr, k) <=> k = m + 3
      <4>1. HostAt(addr, k) <=> k - 3 \in found /\ \A y \in found : k - 3 <= y
        BY <1>3 DEF HostAt
      <4>2. ASSUME k - 3 \in found, \A y \in found : k - 3 <= y
            PROVE  k = m + 3
        <5>1. k - 3 <= m /\ m <= k - 3
          BY <2>2, <4>2
        <5> QED
          BY <2>5, <5>1
      <4>3. ASSUME k = m + 3
            PROVE  k - 3 \in found /\ \A y \in found : k - 3 <= y
        <5>1. k - 3 = m
          BY <2>5, <4>3
        <5> QED
          BY <2>2, <5>1
      <4> QED
        BY <4>1, <4>2, <4>3
    <3> QED
      BY <3>1
  <2>8. m + 3 \in 1 .. Len(addr) + 1
    BY <1>1, <2>5
  <2> QED
    BY <2>6, <2>7, <2>8
<1> QED
  BY <1>2, <1>3

\* parseAddr() on any address.
THEOREM AddressesFit == \A addr \in Seq(STRING) : Fits(addr)
<1> SUFFICES ASSUME NEW addr \in Seq(STRING), parseAddr(addr).ok
             PROVE  /\ Len(parseAddr(addr).proto) <= ProtocolSize
                    /\ parseAddr(addr).overrun <=> HostTooLong(addr)
                    /\ ~parseAddr(addr).overrun => Len(parseAddr(addr).host) <= HostSize
  BY DEF Fits
<1>1. ~(addr = <<>> \/ Len(addr) >= SockaddrSize)
  BY DEF parseAddr
<1>2. ProtocolSize \in Nat /\ HostSize \in Nat
  BY SizeAssumption
<1>3. PICK found : found = Starts(addr, delimiter)
  OBVIOUS
<1>4. PICK proto : proto = IF found = {} THEN <<>> ELSE SubSeq(addr, 1, Min(found) - 1)
  OBVIOUS
<1>5. PICK rest : rest = IF found = {} THEN addr ELSE SubSeq(addr, Min(found) + 3, Len(addr))
  OBVIOUS
<1>6. PICK colon : colon = Starts(rest, <<Colon>>)
  OBVIOUS
<1>7. PICK overrun, host, port, kept :
        /\ overrun = (colon = {} /\ Len(rest) > HostSize)
        /\ kept = Copied(proto, ProtocolSize)
        /\ host = IF colon = {} THEN rest ELSE Copied(SubSeq(rest, 1, Min(colon) - 1), HostSize)
        /\ port = IF colon = {} THEN <<>> ELSE SubSeq(rest, Min(colon) + 1, Len(rest))
  OBVIOUS
<1>8. parseAddr(addr) =
        [ok |-> TRUE, overrun |-> overrun, proto |-> kept, host |-> host, port |-> port]
  BY <1>1, <1>3, <1>4, <1>5, <1>6, <1>7, Zenon DEF parseAddr
<1>9. parseAddr(addr).overrun = overrun
  BY <1>8
<1>10. parseAddr(addr).host = host /\ parseAddr(addr).proto = kept
  BY <1>8
<1>11. PICK h \in 1 .. Len(addr) + 1 :
         /\ rest = SubSeq(addr, h, Len(addr))
         /\ \A k \in 1 .. Len(addr) : HostAt(addr, k) <=> k = h
  <2>1. found = {} => rest = addr
    BY <1>5, Zenon
  <2>2. found # {} => rest = SubSeq(addr, Min(found) + 3, Len(addr))
    BY <1>5, Zenon
  <2>3. PICK set : set = STRING
    OBVIOUS
  <2>4. addr \in Seq(set)
    BY <2>3
  <2> QED
    BY <1>3, <2>1, <2>2, <2>4, RestOfAddress
<1>12. /\ rest \in Seq(STRING)
       /\ Len(rest) = Len(addr) - h + 1
       /\ \A n \in 1 .. Len(rest) : rest[n] = addr[h + n - 1]
  BY <1>11, Suffix
<1>13. colon = {n \in 1 .. Len(rest) : rest[n] = Colon}
  BY <1>6, <1>12, SingleStarts
<1>14. colon = {} <=> \A n \in h .. Len(addr) : addr[n] # Colon
  <2>1. ASSUME NEW n \in 1 .. Len(rest)
        PROVE  h + n - 1 \in h .. Len(addr) /\ rest[n] = addr[h + n - 1]
    BY <1>12
  <2>2. ASSUME NEW n \in h .. Len(addr)
        PROVE  n - h + 1 \in 1 .. Len(rest) /\ rest[n - h + 1] = addr[n]
    <3>1. n - h + 1 \in 1 .. Len(rest) /\ h + (n - h + 1) - 1 = n
      BY <1>12
    <3> QED
      BY <1>12, <3>1
  <2>3. ASSUME NEW n \in colon PROVE \E m \in h .. Len(addr) : addr[m] = Colon
    BY <1>13, <2>1, <2>3
  <2>4. ASSUME NEW n \in h .. Len(addr), addr[n] = Colon PROVE n - h + 1 \in colon
    BY <1>13, <2>2, <2>4
  <2> QED
    BY <2>3, <2>4
<1>15. HostTooLong(addr) <=> /\ h \in 1 .. Len(addr) /\ Len(addr) - h + 1 > HostSize
                            /\ \A n \in h .. Len(addr) : addr[n] # Colon
  BY <1>11 DEF HostTooLong
<1>16. Len(rest) > HostSize <=> h \in 1 .. Len(addr) /\ Len(addr) - h + 1 > HostSize
  BY <1>2, <1>12
<1>17. parseAddr(addr).overrun <=> HostTooLong(addr)
  BY <1>7, <1>9, <1>14, <1>15, <1>16, Zenon
<1>18. Len(Copied(proto, ProtocolSize)) <= ProtocolSize
  BY <1>2, CopiedFits
<1>19. ASSUME ~parseAddr(addr).overrun
       PROVE  Len(parseAddr(addr).host) <= HostSize
  <2>1. CASE colon = {}
    <3>1. parseAddr(addr).host = rest /\ ~(Len(rest) > HostSize)
      BY <1>7, <1>9, <1>10, <1>19, <2>1, Zenon
    <3> QED
      BY <1>2, <1>12, <3>1
  <2>2. CASE colon # {}
    BY <1>2, <1>7, <1>10, <2>2, CopiedFits
  <2> QED
    BY <2>1, <2>2
<1> QED
  BY <1>7, <1>10, <1>17, <1>18, <1>19

\* parseAddr() takes an address that its buffer holds, and keeps no scheme of
\* one whose scheme is missing, empty or too long.
LEMMA SchemeOfAddress ==
  ASSUME NEW addr \in Seq(STRING)
  PROVE  /\ parseAddr(addr).ok <=> Len(addr) \in 1 .. SockaddrSize - 1
         /\ parseAddr(addr).ok => (parseAddr(addr).proto = <<>> <=> ~HasScheme(addr))
<1>1. PICK found : found = Starts(addr, delimiter)
  OBVIOUS
<1>2. PICK proto : proto = IF found = {} THEN <<>> ELSE SubSeq(addr, 1, Min(found) - 1)
  OBVIOUS
<1>3. addr = <<>> \/ Len(addr) >= SockaddrSize => ~parseAddr(addr).ok
  BY DEF parseAddr
<1>4. ~(addr = <<>> \/ Len(addr) >= SockaddrSize) =>
        parseAddr(addr).ok /\ parseAddr(addr).proto = Copied(proto, ProtocolSize)
  BY <1>1, <1>2 DEF parseAddr
<1>5. (addr = <<>> \/ Len(addr) >= SockaddrSize) <=> Len(addr) \notin 1 .. SockaddrSize - 1
  BY SizeAssumption
<1>6. found \in SUBSET Nat /\ found \subseteq 1 .. Len(addr)
  BY <1>1 DEF Starts
<1>7. CASE found = {}
  <2>1. Copied(proto, ProtocolSize) = <<>>
    BY <1>2, <1>7 DEF Copied
  <2>2. ~HasScheme(addr)
    BY <1>1, <1>7 DEF HasScheme
  <2> QED
    BY <1>3, <1>4, <1>5, <2>1, <2>2
<1>8. CASE found # {}
  <2>1. PICK k : k = Min(found)
    OBVIOUS
  <2>2. k \in found /\ \A y \in found : k <= y
    BY <1>6, <1>8, <2>1, MinOfNat
  <2>3. k \in 1 .. Len(addr)
    BY <1>6, <2>2
  <2>4. proto = SubSeq(addr, 1, k - 1)
    BY <1>2, <1>8, <2>1
  <2>5. Len(proto) = k - 1
    BY <2>3, <2>4
  <2>6. HasScheme(addr) <=> k \in 2 .. ProtocolSize + 1
    <3>1. k \in 2 .. ProtocolSize + 1 => HasScheme(addr)
      BY <1>1, <2>2 DEF HasScheme
    <3>2. ASSUME NEW m \in 2 .. ProtocolSize + 1, m \in found, \A y \in found : m <= y
          PROVE  m = k
      BY <1>6, <2>2, <2>3, <3>2, SizeAssumption
    <3> QED
      BY <1>1, <3>1, <3>2 DEF HasScheme
  <2>7. Copied(proto, ProtocolSize) = <<>> <=> k \notin 2 .. ProtocolSize + 1
    <3>1. Len(proto) \in 1 .. ProtocolSize <=> k \in 2 .. ProtocolSize + 1
      BY <2>3, <2>5, SizeAssumption
    <3>2. Len(proto) \in 1 .. ProtocolSize => Copied(proto, ProtocolSize) # <<>>
      BY DEF Copied
    <3>3. Len(proto) \notin 1 .. ProtocolSize => Copied(proto, ProtocolSize) = <<>>
      BY DEF Copied
    <3> QED
      BY <3>1, <3>2, <3>3
  <2> QED
    BY <1>3, <1>4, <1>5, <2>6, <2>7
<1> QED
  BY <1>7, <1>8

\* The address of a url is a text, and its fault one that bind_endpoints()
\* meets.
LEMMA AddressOfUrl ==
  ASSUME NEW urls \in Seq([addr : Seq(STRING), fault : Faults]), NEW j \in DOMAIN urls
  PROVE  urls[j].addr \in Seq(STRING) /\ urls[j].fault \in Faults
<1>1. j \in 1 .. Len(urls)
  OBVIOUS
<1>2. urls[j] \in [addr : Seq(STRING), fault : Faults]
  BY <1>1, ElementOfSeq, Zenon
<1> QED
  BY <1>2

\* A port is kept by htons() if and only if two bytes hold it.
LEMMA PortKept ==
  ASSUME NEW n \in Nat
  PROVE  n % PortMod = n <=> n < PortMod
<1>1. PortMod \in Nat /\ PortMod > 0
  BY PortAssumption
<1>2. n % PortMod < PortMod
  BY <1>1
<1>3. n < PortMod => n % PortMod = n
  BY <1>1, NoWrap
<1> QED
  BY <1>1, <1>2, <1>3

\* Transport::bind_endpoints(): each url of the configuration on its own.
THEOREM EndpointsAreIndependent ==
  \A urls \in Seq([addr : Seq(STRING), fault : Faults]) : EndpointsIndependent(urls)
<1> SUFFICES ASSUME NEW urls \in Seq([addr : Seq(STRING), fault : Faults])
             PROVE  EndpointsIndependent(urls)
  OBVIOUS
<1>1. PICK r : r = bind_endpoints(urls)
  OBVIOUS
<1>2. PICK watched : watched = {j \in DOMAIN urls : /\ parseAddr(urls[j].addr).ok
                                                   /\ parseAddr(urls[j].addr).proto = <<>>
                                                   /\ init_sock(urls[j].fault)}
  OBVIOUS
<1>3. PICK bound : bound = {j \in watched : urls[j].fault # "bind"}
  OBVIOUS
<1>4. PICK undefined : undefined = \E j \in DOMAIN urls : parseAddr(urls[j].addr).overrun
  OBVIOUS
<1>5. PICK ports : ports = [j \in bound |-> bind_sock_to(parseAddr(urls[j].addr).port)]
  OBVIOUS
<1>6. r = [undefined |-> undefined, watched |-> watched, bound |-> bound, sin_port |-> ports,
            threw |-> bound = {}]
  BY <1>1, <1>2, <1>3, <1>4, <1>5, Zenon DEF bind_endpoints
<1>7. ASSUME NEW j \in DOMAIN urls
      PROVE  j \in bound <=> j \in Listenable(urls)
  <2>1. urls[j].addr \in Seq(STRING) /\ urls[j].fault \in Faults
    BY AddressOfUrl
  <2>2. (parseAddr(urls[j].addr).ok /\ parseAddr(urls[j].addr).proto = <<>>)
          <=> (Len(urls[j].addr) \in 1 .. SockaddrSize - 1 /\ ~HasScheme(urls[j].addr))
    BY <2>1, SchemeOfAddress
  <2>3. (init_sock(urls[j].fault) /\ urls[j].fault # "bind") <=> urls[j].fault = "none"
    BY <2>1 DEF init_sock, Faults
  <2>4. j \in bound <=> /\ parseAddr(urls[j].addr).ok
                        /\ parseAddr(urls[j].addr).proto = <<>>
                        /\ init_sock(urls[j].fault)
                        /\ urls[j].fault # "bind"
    BY <1>2, <1>3
  <2>5. j \in Listenable(urls) <=> /\ Len(urls[j].addr) \in 1 .. SockaddrSize - 1
                                   /\ ~HasScheme(urls[j].addr)
                                   /\ urls[j].fault = "none"
    BY DEF Listenable
  <2> QED
    BY <2>2, <2>3, <2>4, <2>5
<1>8. bound \subseteq DOMAIN urls /\ Listenable(urls) \subseteq DOMAIN urls /\ bound \subseteq watched
  BY <1>2, <1>3 DEF Listenable
<1>9. bound = Listenable(urls)
  BY <1>7, <1>8
<1>10. r.bound = bound /\ r.watched = watched /\ r.sin_port = ports
  BY <1>6
<1>11. r.threw = (bound = {}) /\ r.undefined = undefined
  BY <1>6, Zenon
<1>12. ASSUME NEW j \in DOMAIN urls
       PROVE  parseAddr(urls[j].addr).overrun
                <=> Len(urls[j].addr) < SockaddrSize /\ HostTooLong(urls[j].addr)
  <2>1. PICK addr \in Seq(STRING) : addr = urls[j].addr
    BY AddressOfUrl
  <2>2. CASE parseAddr(addr).ok
    <3>1. Len(addr) < SockaddrSize
      BY <2>2, SchemeOfAddress, SizeAssumption
    <3> QED
      BY <2>1, <2>2, <3>1, AddressesFit DEF Fits
  <2>3. CASE ~parseAddr(addr).ok
    <3>1. addr = <<>> \/ Len(addr) >= SockaddrSize
      BY <2>3 DEF parseAddr
    <3>2. ~parseAddr(addr).overrun
      BY <3>1 DEF parseAddr
    <3>3. ~(Len(addr) < SockaddrSize /\ HostTooLong(addr))
      BY <3>1, SizeAssumption DEF HostTooLong
    <3> QED
      BY <2>1, <3>2, <3>3
  <2> QED
    BY <2>2, <2>3
<1>13. undefined <=> \E j \in DOMAIN urls :
                       Len(urls[j].addr) < SockaddrSize /\ HostTooLong(urls[j].addr)
  BY <1>4, <1>12
<1>14. ASSUME NEW j \in bound, NEW n \in 0 .. IntMax, atoi(parseAddr(urls[j].addr).port) = n
       PROVE  ports[j] = n <=> n < PortMod
  <2>1. ports[j] = n % PortMod
    BY <1>14, <1>5 DEF bind_sock_to
  <2> QED
    BY <2>1, PortKept, IntAssumption
<1> QED
  BY <1>1, <1>8, <1>9, <1>10, <1>11, <1>13, <1>14 DEF EndpointsIndependent

\* Any datagram, request, reply, address and configuration.
THEOREM WireIsFaithful == WireSpec => []WireFaithful
<1>1. WireInit => WireFaithful
  <2> SUFFICES ASSUME WireInit PROVE WireFaithful
    OBVIOUS
  <2>1. CASE input \in [kind : {"size"}, of : Nat]
    <3>1. input.kind = "size" /\ input.of \in Nat
      BY <2>1
    <3>2. KeepsLength(input.of)
      BY <3>1, LengthIsKept
    <3> QED
      BY <3>1, <3>2 DEF WireFaithful, Kind
  <2>2. CASE input \in [kind : {"request"}, of : (0 .. MsgSize) \X STRING \X (0 .. JsonSizeMod - 1)]
    <3>1. input.kind = "request" /\ input.of[1] \in 0 .. MsgSize /\ input.of[3] \in 0 .. JsonSizeMod - 1
      BY <2>2
    <3>2. DataInside(input.of[1], input.of[2], input.of[3])
      BY <3>1, DataIsInside
    <3> QED
      BY <3>1, <3>2 DEF WireFaithful, Kind
  <2>3. CASE input \in [kind : {"reply"}, of : Nat \X Nat]
    <3>1. input.kind = "reply" /\ input.of[1] \in Nat /\ input.of[2] \in Nat
      BY <2>3
    <3>2. Decodes(input.of[1], input.of[2])
      BY <3>1, RepliesDecode
    <3> QED
      BY <3>1, <3>2 DEF WireFaithful, Kind
  <2>4. CASE input \in [kind : {"address"}, of : Seq(STRING)]
    <3>1. input.kind = "address" /\ input.of \in Seq(STRING)
      BY <2>4
    <3>2. Fits(input.of)
      BY <3>1, AddressesFit
    <3> QED
      BY <3>1, <3>2 DEF WireFaithful, Kind
  <2>5. CASE input \in [kind : {"urls"}, of : Seq([addr : Seq(STRING), fault : Faults])]
    <3>1. input.kind = "urls" /\ input.of \in Seq([addr : Seq(STRING), fault : Faults])
      BY <2>5
    <3>2. EndpointsIndependent(input.of)
      BY <3>1, EndpointsAreIndependent
    <3> QED
      BY <3>1, <3>2 DEF WireFaithful, Kind
  <2> QED
    BY <2>1, <2>2, <2>3, <2>4, <2>5 DEF WireInit
<1>2. WireFaithful /\ [UNCHANGED input]_input => WireFaithful'
  BY DEF WireFaithful, Kind
<1> QED
  BY <1>1, <1>2, PTL DEF WireSpec

-----------------------------------------------------------------------------
Statuses == {"running", "done", "failed"}

-----------------------------------------------------------------------------
(***************************************************************************)
(* The operators map.                                                      *)
(***************************************************************************)

\* What the loop of OperatorsMap_t::parse() has of the first n members.
OperatorsRead(n) ==
  /\ \A k \in 1 .. n : members[k].type = "number"
  /\ default_value = <<>> => \A k \in 1 .. n : members[k].string # "default"
  /\ default_value # <<>> =>
       \E d \in 1 .. n : /\ members[d].string = "default"
                         /\ default_value = <<to_unsigned(members[d].of)>>
                         /\ \A k \in 1 .. n : members[k].string = "default" => k = d
  /\ \A x : x \in DOMAIN map <=> x # "default" /\ \E k \in 1 .. n : x = members[k].string
  /\ \A k \in 1 .. n :
       members[k].string # "default" /\ (\A m \in 1 .. k - 1 : members[m].string # members[k].string)
         => map[members[k].string] = to_unsigned(members[k].of)

OperatorsInv ==
  Kind("operators") =>
    /\ Len(members) \in Nat
    /\ i \in 1 .. Len(members) + 1
    /\ status \in Statuses
    /\ status # "failed" => OperatorsRead(i - 1)
    /\ status = "done" => /\ input.type = "object"
                          /\ i = Len(members) + 1 /\ default_value # <<>>
    /\ status = "failed" => ~GoodMap

\* emplace() adds a key, and changes no value.
LEMMA EmplaceFacts ==
  ASSUME NEW k, NEW v
  PROVE  /\ DOMAIN emplace(k, v) = DOMAIN map \union {k}
         /\ \A x \in DOMAIN map : emplace(k, v)[x] = map[x]
         /\ k \notin DOMAIN map => emplace(k, v)[k] = v
<1>1. CASE k \in DOMAIN map
  <2>1. emplace(k, v) = map
    BY <1>1 DEF emplace
  <2> QED
    BY <1>1, <2>1
<1>2. CASE k \notin DOMAIN map
  BY <1>2 DEF emplace
<1> QED
  BY <1>1, <1>2

\* A member that may not be there makes the map a bad one.
LEMMA OperatorsStep ==
  ASSUME OperatorsInv, Kind("operators"), FormatsNext
  PROVE  OperatorsInv'
<1>1. /\ input' = input /\ input.kind = "operators" /\ members' = members
      /\ ReadOperators
  BY DEF FormatsNext, ReadCsv, ReadTemplate, SkipLine, ReadField, KeepRow, EndOfCsv, CsvLine, Running,
         OpenPlaceholder, ClosePlaceholder, BadBrace, OtherChar, EndOfTemplate, TemplateChar, Kind, members
<1>2. /\ Len(members) \in Nat
      /\ i \in 1 .. Len(members) + 1
      /\ status = "running"
      /\ OperatorsRead(i - 1)
  BY <1>1 DEF OperatorsInv, ReadOperators, NoObject, BadMember, DefaultMember, OperatorMember,
              EndOfMembers, Operators, Member, Running
<1>3. GoodMap' <=> GoodMap
  BY <1>1 DEF GoodMap, Named
<1>0. CASE NoObject
  <2>1. i' = i /\ status' = "failed" /\ ~GoodMap
    BY <1>0 DEF NoObject, Ends, GoodMap
  <2> QED
    BY <1>1, <1>2, <1>3, <2>1 DEF OperatorsInv, Statuses
<1>4. CASE BadMember
  <2>1. i \in 1 .. Len(members) /\ i' = i /\ status' = "failed"
    BY <1>2, <1>4 DEF BadMember, Member, Ends
  <2>2. ~GoodMap
    <3>1. CASE members[i].type # "number"
      BY <2>1, <3>1 DEF GoodMap
    <3>2. CASE members[i].string = "default" /\ default_value # <<>>
      <4>1. PICK d \in 1 .. i - 1 : members[d].string = "default"
        BY <1>2, <3>2 DEF OperatorsRead
      <4>2. d \in Named("default") /\ i \in Named("default") /\ d # i
        BY <1>2, <2>1, <3>2, <4>1 DEF Named
      <4> QED
        BY <4>2 DEF GoodMap
    <3> QED
      BY <1>4, <3>1, <3>2 DEF BadMember, has_default
  <2> QED
    BY <1>1, <1>2, <1>3, <2>1, <2>2 DEF OperatorsInv, Statuses
<1>5. CASE DefaultMember
  <2>1. /\ i \in 1 .. Len(members) /\ i' = i + 1 /\ status' = "running" /\ map' = map
        /\ default_value = <<>> /\ default_value' = <<to_unsigned(members[i].of)>>
        /\ members[i].type = "number" /\ members[i].string = "default"
    BY <1>2, <1>5 DEF DefaultMember, Member, has_default
  <2>2. OperatorsRead(i - 1)'
    <3>0. i' - 1 = i
      BY <1>2, <2>1
    <3>1. \A k \in 1 .. i : members[k].type = "number"
      BY <1>2, <2>1 DEF OperatorsRead
    <3>2. \A k \in 1 .. i : members[k].string = "default" => k = i
      BY <1>2, <2>1 DEF OperatorsRead
    <3>3. \A x : x \in DOMAIN map <=> x # "default" /\ \E k \in 1 .. i : x = members[k].string
      BY <1>2, <2>1 DEF OperatorsRead
    <3>4. \A k \in 1 .. i :
            members[k].string # "default" /\ (\A m \in 1 .. k - 1 : members[m].string # members[k].string)
              => map[members[k].string] = to_unsigned(members[k].of)
      BY <1>2, <2>1 DEF OperatorsRead
    <3> QED
      BY <1>1, <2>1, <3>0, <3>1, <3>2, <3>3, <3>4 DEF OperatorsRead, to_unsigned, valueint
  <2> QED
    BY <1>1, <1>2, <2>1, <2>2 DEF OperatorsInv, Statuses
<1>6. CASE OperatorMember
  <2>1. /\ i \in 1 .. Len(members) /\ i' = i + 1 /\ status' = "running"
        /\ map' = emplace(members[i].string, to_unsigned(members[i].of))
        /\ default_value' = default_value
        /\ members[i].type = "number" /\ members[i].string # "default"
    BY <1>2, <1>6 DEF OperatorMember, Member
  <2>2. /\ DOMAIN map' = DOMAIN map \union {members[i].string}
        /\ \A x \in DOMAIN map : map'[x] = map[x]
        /\ members[i].string \notin DOMAIN map => map'[members[i].string] = to_unsigned(members[i].of)
    <3>1. PICK k, v : k = members[i].string /\ v = to_unsigned(members[i].of)
      OBVIOUS
    <3>2. /\ DOMAIN emplace(k, v) = DOMAIN map \union {k}
          /\ \A x \in DOMAIN map : emplace(k, v)[x] = map[x]
          /\ k \notin DOMAIN map => emplace(k, v)[k] = v
      BY EmplaceFacts
    <3> QED
      BY <2>1, <3>1, <3>2
  <2>3. OperatorsRead(i - 1)'
    <3>0. i' - 1 = i
      BY <1>2, <2>1
    <3>1. \A k \in 1 .. i : members[k].type = "number"
      BY <1>2, <2>1 DEF OperatorsRead
    <3>2. default_value = <<>> => \A k \in 1 .. i : members[k].string # "default"
      BY <1>2, <2>1 DEF OperatorsRead
    <3>3. default_value # <<>> =>
            \E d \in 1 .. i : /\ members[d].string = "default"
                              /\ default_value = <<to_unsigned(members[d].of)>>
                              /\ \A k \in 1 .. i : members[k].string = "default" => k = d
      BY <1>2, <2>1 DEF OperatorsRead
    <3>4. \A x : x \in DOMAIN map' <=> x # "default" /\ \E k \in 1 .. i : x = members[k].string
      BY <1>2, <2>1, <2>2 DEF OperatorsRead
    <3>5. ASSUME NEW k \in 1 .. i, members[k].string # "default",
                 \A m \in 1 .. k - 1 : members[m].string # members[k].string
          PROVE  map'[members[k].string] = to_unsigned(members[k].of)
      <4>1. CASE k = i
        <5>1. members[i].string \notin DOMAIN map
          BY <1>2, <3>5, <4>1 DEF OperatorsRead
        <5> QED
          BY <2>2, <4>1, <5>1
      <4>2. CASE k # i
        <5>1. k \in 1 .. i - 1
          BY <1>2, <4>2
        <5>2. members[k].string \in DOMAIN map /\ map[members[k].string] = to_unsigned(members[k].of)
          BY <1>2, <3>5, <5>1 DEF OperatorsRead
        <5> QED
          BY <2>2, <5>2
      <4> QED
        BY <4>1, <4>2
    <3> QED
      BY <1>1, <2>1, <3>0, <3>1, <3>2, <3>3, <3>4, <3>5 DEF OperatorsRead, to_unsigned, valueint
  <2> QED
    BY <1>1, <1>2, <2>1, <2>3 DEF OperatorsInv, Statuses
<1>7. CASE EndOfMembers
  <2>1. /\ i = Len(members) + 1 /\ i' = i /\ map' = map /\ default_value' = default_value
        /\ status' = IF default_value = <<>> THEN "failed" ELSE "done"
        /\ input.type = "object"
    BY <1>2, <1>7 DEF EndOfMembers, Operators, Ends
  <2>2. default_value = <<>> => ~GoodMap
    BY <1>2, <2>1 DEF OperatorsRead, GoodMap, Named
  <2>3. OperatorsRead(i - 1)'
    BY <1>1, <1>2, <2>1 DEF OperatorsRead, to_unsigned, valueint
  <2> QED
    BY <1>1, <1>2, <1>3, <2>1, <2>2, <2>3 DEF OperatorsInv, Statuses
<1> QED
  BY <1>0, <1>1, <1>4, <1>5, <1>6, <1>7 DEF ReadOperators

\* The map read to its end resolves as it says.
LEMMA OperatorsDone ==
  ASSUME OperatorsInv
  PROVE  OperatorsResolved
<1> SUFFICES ASSUME Kind("operators"), status = "done"
             PROVE  /\ GoodMap
                    /\ \A k \in 1 .. Len(members) :
                         (\A m \in Named(members[k].string) : k <= m) /\ members[k].of \in 0 .. IntMax
                           => resolve_operator(members[k].string) = members[k].of
                    /\ DOMAIN map \subseteq {members[k].string : k \in 1 .. Len(members)}
  BY DEF OperatorsInv, OperatorsResolved
<1>1. /\ Len(members) \in Nat
      /\ OperatorsRead(Len(members)) /\ default_value # <<>> /\ input.type = "object"
  BY DEF OperatorsInv
<1>2. PICK d \in 1 .. Len(members) :
        /\ members[d].string = "default"
        /\ default_value = <<to_unsigned(members[d].of)>>
        /\ \A k \in 1 .. Len(members) : members[k].string = "default" => k = d
  BY <1>1 DEF OperatorsRead
<1>3. GoodMap
  BY <1>1, <1>2 DEF GoodMap, Named, OperatorsRead
<1>4. \A n \in 0 .. IntMax : to_unsigned(n) = n
  BY IntAssumption DEF to_unsigned, valueint
<1>5. ASSUME NEW k \in 1 .. Len(members), \A m \in Named(members[k].string) : k <= m,
             members[k].of \in 0 .. IntMax
      PROVE  resolve_operator(members[k].string) = members[k].of
  <2>1. \A m \in 1 .. k - 1 : members[m].string # members[k].string
    BY <1>1, <1>5 DEF Named
  <2>2. CASE members[k].string = "default"
    <3>1. "default" \notin DOMAIN map /\ d = k
      BY <1>1, <1>2, <2>2 DEF OperatorsRead
    <3>2. resolve_operator(members[k].string) = to_unsigned(members[k].of)
      BY <1>2, <2>2, <3>1 DEF resolve_operator
    <3> QED
      BY <1>4, <1>5, <3>2
  <2>3. CASE members[k].string # "default"
    <3>1. members[k].string \in DOMAIN map /\ map[members[k].string] = to_unsigned(members[k].of)
      BY <1>1, <2>1, <2>3 DEF OperatorsRead
    <3> QED
      BY <1>4, <1>5, <3>1 DEF resolve_operator
  <2> QED
    BY <2>2, <2>3
<1>6. DOMAIN map \subseteq {members[k].string : k \in 1 .. Len(members)}
  BY <1>1 DEF OperatorsRead
<1> QED
  BY <1>3, <1>5, <1>6

-----------------------------------------------------------------------------
(***************************************************************************)
(* The URL template.                                                       *)
(***************************************************************************)
TemplateKinds == {"template", "url"}
Parts == [type : {"string", "placeholder"}, from : Nat, to : Nat]

\* A part lies in the template, with its braces.
Inside(p) ==
  /\ p.from \in 1 .. p.to /\ p.to <= Len(url)
  /\ p.type = "placeholder" => p.from >= 2 /\ p.to < Len(url)

\* Every placeholder of the first n characters is a part.
AllFound(n) ==
  \A a, b \in 1 .. n : a < b /\ Pair(a, b) =>
    \E k \in DOMAIN uri_parts : uri_parts[k] = Part("placeholder", a + 1, b - 1)

\* Where the parts found so far end.
Cut == IF state = "normal" THEN pos ELSE pos - 1

\* What the loop of parse_url_template() has of the characters before i.
TemplateRead ==
  /\ pos \in 1 .. i /\ state \in {"normal", "placeholder"}
  /\ Plain(pos, i - 1)
  /\ state = "placeholder" => pos > 1 /\ url[pos - 1] = OpenBrace
  /\ \A a \in 1 .. i - 1 : url[a] = OpenBrace =>
       (state = "placeholder" /\ a = pos - 1) \/ \E b \in a + 2 .. i - 1 : Pair(a, b)
  /\ \A b \in 1 .. i - 1 : url[b] = CloseBrace => \E a \in 1 .. b - 2 : Pair(a, b)
  /\ Tiled(uri_parts, Cut)
  /\ AllFound(i - 1)

TemplateInv ==
  input.kind \in TemplateKinds =>
    /\ Len(url) \in Nat
    /\ i \in 1 .. Len(url) + 1
    /\ status \in Statuses
    /\ uri_parts \in Seq(Parts)
    /\ \A k \in DOMAIN uri_parts : Inside(uri_parts[k])
    /\ status = "running" => TemplateRead
    /\ status = "failed" => ~Closed
    /\ status = "done" => Closed /\ Tiled(uri_parts, Len(url) + 1) /\ AllFound(Len(url))

\* The two braces are different characters.
LEMMA BracesDiffer == OpenBrace # CloseBrace
  BY Zenon DEF OpenBrace, CloseBrace

\* One more part behind the others.
LEMMA TiledAppend ==
  ASSUME uri_parts \in Seq(Parts), NEW end \in Int, Tiled(uri_parts, end),
         NEW p \in Parts, WellCut(p), first(p) = end
  PROVE  Tiled(Append(uri_parts, p), behind(p))
<1>1. PICK q : q = Append(uri_parts, p)
  OBVIOUS
<1>2. PICK n : n = Len(uri_parts)
  OBVIOUS
<1>3. /\ n \in Nat /\ Len(q) = n + 1 /\ DOMAIN q = 1 .. n + 1 /\ DOMAIN uri_parts = 1 .. n
      /\ q[n + 1] = p /\ \A k \in 1 .. n : q[k] = uri_parts[k]
  BY <1>1, <1>2
<1>4. q # <<>> /\ (uri_parts = <<>> <=> n = 0)
  BY <1>2, <1>3
<1>5. ASSUME NEW k \in DOMAIN q
      PROVE  WellCut(q[k]) /\ first(q[k]) = IF k = 1 THEN 1 ELSE behind(q[k - 1])
  <2>1. CASE k = n + 1
    <3>1. end = IF uri_parts = <<>> THEN 1 ELSE behind(uri_parts[n])
      BY <1>2 DEF Tiled
    <3>2. k = 1 <=> uri_parts = <<>>
      BY <1>3, <1>4, <2>1
    <3>3. k # 1 => q[k - 1] = uri_parts[n]
      BY <1>3, <2>1
    <3> QED
      BY <1>3, <2>1, <3>1, <3>2, <3>3
  <2>2. CASE k # n + 1
    <3>1. k \in 1 .. n /\ q[k] = uri_parts[k] /\ (k # 1 => q[k - 1] = uri_parts[k - 1])
      BY <1>3, <2>2
    <3>2. WellCut(uri_parts[k]) /\ first(uri_parts[k]) = IF k = 1 THEN 1 ELSE behind(uri_parts[k - 1])
      BY <1>3, <3>1 DEF Tiled
    <3> QED
      BY <3>1, <3>2
  <2> QED
    BY <2>1, <2>2
<1> QED
  BY <1>1, <1>3, <1>4, <1>5 DEF Tiled

\* The static text before a position, if there is any, continues the parts.
LEMMA TiledStatic ==
  ASSUME uri_parts \in Seq(Parts), \A k \in DOMAIN uri_parts : Inside(uri_parts[k]),
         Len(url) \in Nat, NEW from \in Nat, NEW end \in Nat, 1 <= from, from <= end, end <= Len(url) + 1,
         Tiled(uri_parts, from), Plain(from, end - 1)
  PROVE  /\ uri_parts \o static(from, end) \in Seq(Parts)
         /\ Tiled(uri_parts \o static(from, end), end)
         /\ \A k \in DOMAIN uri_parts : /\ k \in DOMAIN (uri_parts \o static(from, end))
                                        /\ (uri_parts \o static(from, end))[k] = uri_parts[k]
         /\ \A k \in DOMAIN (uri_parts \o static(from, end)) :
              Inside((uri_parts \o static(from, end))[k])
<1>1. CASE end = from
  <2>1. uri_parts \o static(from, end) = uri_parts
    BY <1>1 DEF static
  <2> QED
    BY <1>1, <2>1
<1>2. CASE end > from
  <2>1. PICK p : p = Part("string", from, end - 1)
    OBVIOUS
  <2>2. /\ p \in Parts /\ p.type = "string" /\ p.from = from /\ p.to = end - 1
        /\ first(p) = from /\ behind(p) = end
    BY <1>2, <2>1 DEF Part, Parts, first, behind
  <2>3. Inside(p) /\ WellCut(p)
    BY <1>2, <2>2 DEF Inside, WellCut
  <2>4. static(from, end) = <<p>>
    BY <1>2, <2>1 DEF static
  <2>5. PICK q : q = Append(uri_parts, p)
    OBVIOUS
  <2>6. uri_parts \o static(from, end) = q
    BY <2>2, <2>4, <2>5
  <2>7. Tiled(q, end)
    BY <2>2, <2>3, <2>5, TiledAppend
  <2>8. q \in Seq(Parts)
    BY <2>2, <2>5
  <2>9. \A k \in DOMAIN uri_parts : k \in DOMAIN q /\ q[k] = uri_parts[k]
    BY <2>5
  <2>10. \A k \in DOMAIN q : q[k] = p \/ (k \in DOMAIN uri_parts /\ q[k] = uri_parts[k])
    BY <2>5
  <2>11. \A k \in DOMAIN q : Inside(q[k])
    BY <2>3, <2>10
  <2> QED
    BY <2>6, <2>7, <2>8, <2>9, <2>11
<1> QED
  BY <1>1, <1>2

\* The parts of an unchanged template, in the next state.
LEMMA TemplateReadNext ==
  ASSUME input' = input,
         pos' \in 1 .. i', state' \in {"normal", "placeholder"},
         Plain(pos', i' - 1),
         state' = "placeholder" => pos' > 1 /\ url[pos' - 1] = OpenBrace,
         \A a \in 1 .. i' - 1 : url[a] = OpenBrace =>
           (state' = "placeholder" /\ a = pos' - 1) \/ \E b \in a + 2 .. i' - 1 : Pair(a, b),
         \A b \in 1 .. i' - 1 : url[b] = CloseBrace => \E a \in 1 .. b - 2 : Pair(a, b),
         Tiled(uri_parts', IF state' = "normal" THEN pos' ELSE pos' - 1),
         \A a, b \in 1 .. i' - 1 : a < b /\ Pair(a, b) =>
           \E k \in DOMAIN uri_parts' : uri_parts'[k] = Part("placeholder", a + 1, b - 1)
  PROVE  TemplateRead'
<1>1. url' = url
  BY DEF url
<1>2. ASSUME NEW a, NEW b PROVE Plain(a, b)' <=> Plain(a, b)
  BY <1>1 DEF Plain
<1>3. ASSUME NEW a, NEW b PROVE Pair(a, b)' <=> Pair(a, b)
  BY <1>1 DEF Plain, Pair
<1>4. Plain(pos, i - 1)'
  BY <1>1 DEF Plain
<1>5. Tiled(uri_parts, Cut)'
  BY <1>1 DEF Tiled, WellCut, Pair, Plain, Cut
<1>6. AllFound(i - 1)'
  BY <1>3 DEF AllFound
<1>7. (\A a \in 1 .. i - 1 : url[a] = OpenBrace =>
         (state = "placeholder" /\ a = pos - 1) \/ \E b \in a + 2 .. i - 1 : Pair(a, b))'
  BY <1>1, <1>3
<1>8. (\A b \in 1 .. i - 1 : url[b] = CloseBrace => \E a \in 1 .. b - 2 : Pair(a, b))'
  BY <1>1, <1>3
<1> QED
  BY <1>1, <1>4, <1>5, <1>6, <1>7, <1>8 DEF TemplateRead

\* A template is read character by character.
LEMMA TemplateStep ==
  ASSUME TemplateInv, input.kind \in TemplateKinds, FormatsNext
  PROVE  TemplateInv'
<1>1. /\ input' = input /\ url' = url
      /\ ReadTemplate
  BY DEF FormatsNext, ReadCsv, ReadOperators, SkipLine, ReadField, KeepRow, EndOfCsv, CsvLine, Running,
         NoObject, Operators, BadMember, DefaultMember, OperatorMember, EndOfMembers, Member, TemplateKinds, url
<1>2. /\ Len(url) \in Nat
      /\ i \in 1 .. Len(url) + 1
      /\ status = "running"
      /\ uri_parts \in Seq(Parts)
      /\ \A k \in DOMAIN uri_parts : Inside(uri_parts[k])
      /\ TemplateRead
  BY <1>1 DEF TemplateInv, ReadTemplate, OpenPlaceholder, ClosePlaceholder, BadBrace, OtherChar,
              EndOfTemplate, TemplateChar, Running
<1>3. /\ pos \in 1 .. i /\ state \in {"normal", "placeholder"}
      /\ Plain(pos, i - 1)
      /\ state = "placeholder" => pos > 1 /\ url[pos - 1] = OpenBrace
  BY <1>2 DEF TemplateRead
<1>4. \A a \in 1 .. i - 1 : url[a] = OpenBrace =>
        (state = "placeholder" /\ a = pos - 1) \/ \E b \in a + 2 .. i - 1 : Pair(a, b)
  BY <1>2 DEF TemplateRead
<1>5. \A b \in 1 .. i - 1 : url[b] = CloseBrace => \E a \in 1 .. b - 2 : Pair(a, b)
  BY <1>2 DEF TemplateRead
<1>6. Tiled(uri_parts, Cut) /\ AllFound(i - 1)
  BY <1>2 DEF TemplateRead
<1>7. Closed' <=> Closed
  BY <1>1 DEF Closed, Pair, Plain
<1>8. \A p : Inside(p)' <=> Inside(p)
  BY <1>1 DEF Inside
<1>9. CASE OpenPlaceholder
  <2>1. /\ i \in 1 .. Len(url) /\ url[i] = OpenBrace /\ state = "normal"
        /\ uri_parts' = uri_parts \o static(pos, i)
        /\ pos' = i + 1 /\ state' = "placeholder" /\ i' = i + 1 /\ status' = "running"
    BY <1>2, <1>9 DEF OpenPlaceholder, TemplateChar
  <2>2. Tiled(uri_parts, pos)
    BY <1>6, <2>1 DEF Cut
  <2>3. /\ uri_parts' \in Seq(Parts)
        /\ Tiled(uri_parts', i)
        /\ \A k \in DOMAIN uri_parts : k \in DOMAIN uri_parts' /\ uri_parts'[k] = uri_parts[k]
        /\ \A k \in DOMAIN uri_parts' : Inside(uri_parts'[k])
    BY <1>2, <1>3, <2>1, <2>2, TiledStatic
  <2>4. \A a, b \in 1 .. i' - 1 : a < b /\ Pair(a, b) => b # i
    BY <2>1, BracesDiffer DEF Pair
  <2>5. \A a, b \in 1 .. i' - 1 : a < b /\ Pair(a, b) =>
          \E k \in DOMAIN uri_parts' : uri_parts'[k] = Part("placeholder", a + 1, b - 1)
    BY <1>6, <2>1, <2>3, <2>4 DEF AllFound
  <2>6. \A a \in 1 .. i' - 1 : url[a] = OpenBrace =>
          (state' = "placeholder" /\ a = pos' - 1) \/ \E b \in a + 2 .. i' - 1 : Pair(a, b)
    BY <1>4, <2>1
  <2>7. \A b \in 1 .. i' - 1 : url[b] = CloseBrace => \E a \in 1 .. b - 2 : Pair(a, b)
    BY <1>5, <2>1, BracesDiffer
  <2>8. Plain(pos', i' - 1)
    BY <2>1 DEF Plain
  <2>9. TemplateRead'
    BY <1>1, <2>1, <2>3, <2>5, <2>6, <2>7, <2>8, TemplateReadNext
  <2> QED
    BY <1>1, <1>2, <1>8, <2>1, <2>3, <2>9 DEF TemplateInv, Statuses
<1>10. CASE ClosePlaceholder
  <2>1. /\ i \in 1 .. Len(url) /\ url[i] = CloseBrace /\ state = "placeholder" /\ i > pos
        /\ uri_parts' = Append(uri_parts, Part("placeholder", pos, i - 1))
        /\ pos' = i + 1 /\ state' = "normal" /\ i' = i + 1 /\ status' = "running"
    BY <1>2, <1>10 DEF ClosePlaceholder, TemplateChar
  <2>2. PICK p : p = Part("placeholder", pos, i - 1)
    OBVIOUS
  <2>3. /\ p \in Parts /\ p.type = "placeholder" /\ p.from = pos /\ p.to = i - 1
        /\ first(p) = pos - 1 /\ behind(p) = i + 1
    BY <1>3, <2>1, <2>2 DEF Part, Parts, first, behind
  <2>4. Pair(pos - 1, i)
    BY <1>3, <2>1 DEF Pair
  <2>5. Inside(p) /\ WellCut(p)
    BY <1>3, <2>1, <2>3, <2>4 DEF Inside, WellCut
  <2>6. Tiled(uri_parts, pos - 1) /\ pos - 1 \in Int
    BY <1>3, <1>6, <2>1 DEF Cut
  <2>7. Tiled(uri_parts', i + 1)
    BY <1>2, <2>1, <2>2, <2>3, <2>5, <2>6, TiledAppend
  <2>8. /\ uri_parts' \in Seq(Parts)
        /\ \A k \in DOMAIN uri_parts : k \in DOMAIN uri_parts' /\ uri_parts'[k] = uri_parts[k]
        /\ \A k \in DOMAIN uri_parts' : uri_parts'[k] = p \/ (k \in DOMAIN uri_parts /\ uri_parts'[k] = uri_parts[k])
        /\ \E k \in DOMAIN uri_parts' : uri_parts'[k] = p
    BY <1>2, <2>1, <2>2, <2>3
  <2>9. \A k \in DOMAIN uri_parts' : Inside(uri_parts'[k])
    BY <1>2, <2>5, <2>8
  <2>10. ASSUME NEW a \in 1 .. i' - 1, NEW b \in 1 .. i' - 1, a < b, Pair(a, b)
         PROVE  \E k \in DOMAIN uri_parts' : uri_parts'[k] = Part("placeholder", a + 1, b - 1)
    <3>1. CASE b = i
      <4>1. a = pos - 1
        <5>1. ~(a > pos - 1)
          BY <1>3, <2>1, <2>10, <3>1 DEF Pair, Plain, Brace
        <5>2. ~(a < pos - 1)
          BY <1>3, <2>1, <2>10, <3>1 DEF Pair, Plain, Brace
        <5> QED
          BY <1>3, <2>1, <5>1, <5>2
      <4>2. p = Part("placeholder", a + 1, b - 1)
        BY <1>3, <2>2, <3>1, <4>1
      <4> QED
        BY <2>8, <4>2
    <3>2. CASE b # i
      <4>1. a \in 1 .. i - 1 /\ b \in 1 .. i - 1
        BY <2>1, <2>10, <3>2
      <4>2. PICK k \in DOMAIN uri_parts : uri_parts[k] = Part("placeholder", a + 1, b - 1)
        BY <1>6, <2>10, <4>1 DEF AllFound
      <4> QED
        BY <2>8, <4>2
    <3> QED
      BY <3>1, <3>2
  <2>11. \A a \in 1 .. i' - 1 : url[a] = OpenBrace => \E b \in a + 2 .. i' - 1 : Pair(a, b)
    <3> SUFFICES ASSUME NEW a \in 1 .. i, url[a] = OpenBrace PROVE \E b \in a + 2 .. i : Pair(a, b)
      BY <2>1
    <3>1. a \in 1 .. i - 1
      BY <2>1, BracesDiffer
    <3>2. CASE a = pos - 1
      <4>1. i \in a + 2 .. i
        BY <1>3, <2>1, <3>2
      <4> QED
        BY <2>4, <3>2, <4>1
    <3>3. CASE a # pos - 1
      BY <1>4, <2>1, <3>1, <3>3
    <3> QED
      BY <3>2, <3>3
  <2>12. \A b \in 1 .. i' - 1 : url[b] = CloseBrace => \E a \in 1 .. b - 2 : Pair(a, b)
    <3> SUFFICES ASSUME NEW b \in 1 .. i, url[b] = CloseBrace PROVE \E a \in 1 .. b - 2 : Pair(a, b)
      BY <2>1
    <3>1. CASE b = i
      <4>1. pos - 1 \in 1 .. b - 2
        BY <1>3, <2>1, <3>1
      <4> QED
        BY <2>4, <3>1, <4>1
    <3>2. CASE b # i
      BY <1>5, <2>1, <3>2
    <3> QED
      BY <3>1, <3>2
  <2>13. Plain(pos', i' - 1)
    BY <2>1 DEF Plain
  <2>14. TemplateRead'
    <3>1. Tiled(uri_parts', IF state' = "normal" THEN pos' ELSE pos' - 1)
      BY <2>1, <2>7
    <3>2. pos' \in 1 .. i' /\ state' \in {"normal", "placeholder"} /\ state' # "placeholder"
      BY <2>1
    <3>3. \A a, b \in 1 .. i' - 1 : a < b /\ Pair(a, b) =>
           \E k \in DOMAIN uri_parts' : uri_parts'[k] = Part("placeholder", a + 1, b - 1)
      BY <2>10
    <3> QED
      BY <1>1, <2>11, <2>12, <2>13, <3>1, <3>2, <3>3, TemplateReadNext
  <2> QED
    BY <1>1, <1>2, <1>8, <2>1, <2>8, <2>9, <2>14 DEF TemplateInv, Statuses
<1>11. CASE BadBrace
  <2>1. /\ i \in 1 .. Len(url) /\ status' = "failed" /\ i' = i /\ uri_parts' = uri_parts
        /\ \/ url[i] = OpenBrace /\ state = "placeholder"
           \/ url[i] = CloseBrace /\ (state = "normal" \/ i = pos)
    BY <1>2, <1>11 DEF BadBrace, TemplateChar, Ends
  <2>2. ~Closed
    <3>1. CASE url[i] = OpenBrace /\ state = "placeholder"
      <4>1. pos - 1 \in 1 .. Len(url) /\ url[pos - 1] = OpenBrace /\ i >= pos
        BY <1>3, <2>1, <3>1
      <4>2. ASSUME NEW b \in (pos - 1) + 2 .. Len(url), Pair(pos - 1, b) PROVE FALSE
        <5>1. CASE b < i
          <6>1. b \in pos .. i - 1
            BY <1>2, <1>3, <2>1, <4>1, <5>1
          <6> QED
            BY <1>3, <4>2, <6>1 DEF Pair, Plain, Brace
        <5>2. CASE b = i
          BY <3>1, <4>2, <5>2, BracesDiffer DEF Pair
        <5>3. CASE b > i
          <6>1. i \in (pos - 1) + 1 .. b - 1
            BY <1>3, <2>1, <4>1, <5>3
          <6> QED
            BY <3>1, <4>2, <6>1 DEF Pair, Plain, Brace
        <5> QED
          BY <2>1, <5>1, <5>2, <5>3
      <4> QED
        BY <4>1, <4>2 DEF Closed
    <3>2. CASE url[i] = CloseBrace /\ state = "normal"
      <4>1. ASSUME NEW a \in 1 .. i - 2, Pair(a, i) PROVE FALSE
        <5>1. PICK b \in a + 2 .. i - 1 : Pair(a, b)
          BY <1>4, <2>1, <3>2, <4>1 DEF Pair
        <5>2. b \in a + 1 .. i - 1 /\ url[b] = CloseBrace
          BY <2>1, <5>1 DEF Pair
        <5> QED
          BY <4>1, <5>2 DEF Pair, Plain, Brace
      <4> QED
        BY <2>1, <3>2, <4>1 DEF Closed
    <3>3. CASE url[i] = CloseBrace /\ state = "placeholder" /\ i = pos
      <4>1. url[i - 1] = OpenBrace /\ i > 1
        BY <1>3, <3>3
      <4>2. ASSUME NEW a \in 1 .. i - 2, Pair(a, i) PROVE FALSE
        <5>1. i - 1 \in a + 1 .. i - 1
          BY <2>1, <4>1
        <5> QED
          BY <4>1, <4>2, <5>1 DEF Pair, Plain, Brace
      <4> QED
        BY <2>1, <3>3, <4>2 DEF Closed
    <3> QED
      BY <1>3, <2>1, <3>1, <3>2, <3>3
  <2> QED
    BY <1>1, <1>2, <1>7, <1>8, <2>1, <2>2 DEF TemplateInv, Statuses
<1>12. CASE OtherChar
  <2>1. /\ i \in 1 .. Len(url) /\ url[i] \notin Brace
        /\ i' = i + 1 /\ status' = "running" /\ pos' = pos /\ state' = state /\ uri_parts' = uri_parts
    BY <1>2, <1>12 DEF OtherChar, TemplateChar, Brace
  <2>2. Plain(pos', i' - 1)
    BY <1>3, <2>1 DEF Plain
  <2>3. \A a \in 1 .. i' - 1 : url[a] = OpenBrace =>
          (state' = "placeholder" /\ a = pos' - 1) \/ \E b \in a + 2 .. i' - 1 : Pair(a, b)
    BY <1>4, <2>1 DEF Brace
  <2>4. \A b \in 1 .. i' - 1 : url[b] = CloseBrace => \E a \in 1 .. b - 2 : Pair(a, b)
    BY <1>5, <2>1 DEF Brace
  <2>5. \A a, b \in 1 .. i' - 1 : a < b /\ Pair(a, b) =>
          \E k \in DOMAIN uri_parts' : uri_parts'[k] = Part("placeholder", a + 1, b - 1)
    <3>1. \A a, b \in 1 .. i' - 1 : a < b /\ Pair(a, b) => b # i
      BY <2>1 DEF Pair, Brace
    <3> QED
      BY <1>6, <2>1, <3>1 DEF AllFound
  <2>6. Tiled(uri_parts', IF state' = "normal" THEN pos' ELSE pos' - 1)
    BY <1>6, <2>1 DEF Cut
  <2>7. pos' \in 1 .. i' /\ state' \in {"normal", "placeholder"}
        /\ (state' = "placeholder" => pos' > 1 /\ url[pos' - 1] = OpenBrace)
    BY <1>3, <2>1
  <2>8. TemplateRead'
    BY <1>1, <2>2, <2>3, <2>4, <2>5, <2>6, <2>7, TemplateReadNext
  <2> QED
    BY <1>1, <1>2, <1>8, <2>1, <2>8 DEF TemplateInv, Statuses
<1>13. CASE EndOfTemplate
  <2>1. i = Len(url) + 1
    BY <1>2, <1>13 DEF EndOfTemplate
  <2>2. CASE state = "placeholder"
    <3>1. status' = "failed" /\ i' = i /\ uri_parts' = uri_parts
      BY <1>13, <2>2 DEF EndOfTemplate, Ends
    <3>2. pos - 1 \in 1 .. Len(url) /\ url[pos - 1] = OpenBrace
      BY <1>2, <1>3, <2>1, <2>2
    <3>3. ASSUME NEW b \in (pos - 1) + 2 .. Len(url), Pair(pos - 1, b) PROVE FALSE
      BY <1>3, <2>1, <3>3 DEF Pair, Plain, Brace
    <3>4. ~Closed
      BY <3>2, <3>3 DEF Closed
    <3> QED
      BY <1>1, <1>2, <1>7, <1>8, <3>1, <3>4 DEF TemplateInv, Statuses
  <2>3. CASE state = "normal"
    <3>1. status' = "done" /\ i' = i /\ uri_parts' = uri_parts \o static(pos, i)
      BY <1>13, <2>3 DEF EndOfTemplate
    <3>2. Tiled(uri_parts, pos)
      BY <1>6, <2>3 DEF Cut
    <3>3. /\ uri_parts' \in Seq(Parts)
          /\ Tiled(uri_parts', i)
          /\ \A k \in DOMAIN uri_parts : k \in DOMAIN uri_parts' /\ uri_parts'[k] = uri_parts[k]
          /\ \A k \in DOMAIN uri_parts' : Inside(uri_parts'[k])
      <4>1. PICK n : n = i
        OBVIOUS
      <4>2. /\ n \in Nat /\ pos \in Nat /\ 1 <= pos /\ pos <= n /\ n <= Len(url) + 1
        BY <1>2, <1>3, <2>1, <4>1
      <4>3. Plain(pos, n - 1)
        BY <1>3, <4>1
      <4>4. uri_parts' = uri_parts \o static(pos, n)
        BY <3>1, <4>1
      <4>5. /\ uri_parts \o static(pos, n) \in Seq(Parts)
            /\ Tiled(uri_parts \o static(pos, n), n)
            /\ \A k \in DOMAIN uri_parts : /\ k \in DOMAIN (uri_parts \o static(pos, n))
                                           /\ (uri_parts \o static(pos, n))[k] = uri_parts[k]
            /\ \A k \in DOMAIN (uri_parts \o static(pos, n)) :
                 Inside((uri_parts \o static(pos, n))[k])
        BY <1>2, <3>2, <4>2, <4>3, TiledStatic, Zenon
      <4> QED
        BY <4>1, <4>4, <4>5
    <3>4. Closed
      BY <1>2, <1>4, <1>5, <2>1, <2>3 DEF Closed
    <3>5. Tiled(uri_parts, Len(url) + 1)'
      BY <1>1, <2>1, <3>3 DEF Tiled, WellCut, Pair, Plain
    <3>6. AllFound(Len(url))'
      <4>1. \A a, b : Pair(a, b)' <=> Pair(a, b)
        BY <1>1 DEF Pair, Plain
      <4>2. AllFound(Len(url))
        BY <1>2, <1>6, <2>1
      <4> QED
        BY <1>1, <3>3, <4>1, <4>2 DEF AllFound
    <3> QED
      BY <1>1, <1>2, <1>7, <1>8, <3>1, <3>3, <3>4, <3>5, <3>6 DEF TemplateInv, Statuses
  <2> QED
    BY <1>3, <2>2, <2>3
<1> QED
  BY <1>1, <1>9, <1>10, <1>11, <1>12, <1>13 DEF ReadTemplate

\* A template that was read is the one its parts are cut from.
LEMMA TemplateDone ==
  ASSUME TemplateInv
  PROVE  TemplateIsWhole
BY DEF TemplateInv, TemplateIsWhole, TemplateKinds

\* The request is one a client may send.
RequestInv == Kind("url") => Request(input.j)

\* A member of the request has a name, and a value that a URL can have.
HasValue(j, name) == \E m \in 1 .. Len(j) : First(j, m, name) /\ j[m].item.type \in Supported

\* cJSON_GetObjectItem() finds the first member that has the name, if one has.
LEMMA ItemFound ==
  ASSUME NEW S, NEW j \in Seq(S), NEW name
  PROVE  /\ cJSON_GetObjectItem(j, name) # 0 =>
              /\ cJSON_GetObjectItem(j, name) \in 1 .. Len(j)
              /\ First(j, cJSON_GetObjectItem(j, name), name)
         /\ \A m \in 1 .. Len(j) :
              First(j, m, name) => m # 0 /\ m = cJSON_GetObjectItem(j, name)
<1>1. PICK found : found = {k \in 1 .. Len(j) : Same(j[k].string, name)}
  OBVIOUS
<1>2. PICK g : g = cJSON_GetObjectItem(j, name)
  OBVIOUS
<1>3. g = IF found = {} THEN 0 ELSE Min(found)
  BY <1>1, <1>2 DEF cJSON_GetObjectItem
<1>4. found \in SUBSET Nat /\ found \subseteq 1 .. Len(j) /\ Len(j) \in Nat
  BY <1>1
<1>5. CASE found = {}
  <2>1. g = 0
    BY <1>3, <1>5
  <2>2. \A m \in 1 .. Len(j) : ~First(j, m, name)
    BY <1>1, <1>5 DEF First
  <2> QED
    BY <1>2, <2>1, <2>2
<1>6. CASE found # {}
  <2>1. g \in found /\ \A y \in found : g <= y
    BY <1>3, <1>4, <1>6, MinOfNat
  <2>2. g \in 1 .. Len(j) /\ Same(j[g].string, name)
    BY <1>1, <2>1
  <2>3. \A n \in 1 .. g - 1 : n \in 1 .. Len(j) /\ ~(g <= n)
    BY <1>4, <2>2
  <2>4. \A n \in 1 .. g - 1 : ~Same(j[n].string, name)
    BY <1>1, <2>1, <2>3
  <2>5. First(j, g, name)
    BY <2>2, <2>4 DEF First
  <2>6. ASSUME NEW m \in 1 .. Len(j), First(j, m, name)
        PROVE  m = g
    <3>1. m \in found
      BY <1>1, <2>6 DEF First
    <3>2. ~(g < m)
      <4>1. g < m => g \in 1 .. m - 1
        BY <2>2
      <4> QED
        BY <2>2, <2>6, <4>1 DEF First
    <3> QED
      BY <1>4, <2>1, <2>2, <3>1, <3>2
  <2> QED
    BY <1>2, <2>2, <2>5, <2>6
<1> QED
  BY <1>5, <1>6

\* A URL is made if all its placeholders have a value that can be in it.
LEMMA UrlDone ==
  ASSUME TemplateInv, RequestInv
  PROVE  UrlHasEveryValue
<1> SUFFICES ASSUME Kind("url"), status = "done"
             PROVE  UrlHasEveryValue
  BY DEF UrlHasEveryValue
<1>1. /\ Len(url) \in Nat /\ uri_parts \in Seq(Parts)
      /\ \A k \in DOMAIN uri_parts : Inside(uri_parts[k])
      /\ Tiled(uri_parts, Len(url) + 1) /\ AllFound(Len(url))
  BY DEF TemplateInv, TemplateKinds, Kind
<1>2. PICK j, r : j = input.j /\ r = get_url(j)
  OBVIOUS
<1>3. j \in Seq([string : Seq(STRING), item : Items])
  BY <1>2 DEF RequestInv, Request
<1>4. ASSUME NEW k \in DOMAIN uri_parts, uri_parts[k].type # "string"
      PROVE  /\ uri_parts[k].type = "placeholder"
             /\ \E a, b \in 1 .. Len(url) : /\ a < b /\ Pair(a, b)
                                            /\ data(uri_parts[k]) = SubSeq(url, a + 1, b - 1)
  <2>1. PICK p : p = uri_parts[k]
    OBVIOUS
  <2>2. p \in Parts
    BY <1>1, <2>1
  <2>3. p.type = "placeholder" /\ p.from \in Nat /\ p.to \in Nat
    BY <1>4, <2>1, <2>2 DEF Parts
  <2>4. Inside(p) /\ WellCut(p)
    BY <1>1, <2>1 DEF Tiled
  <2>5. PICK a, b : a = p.from - 1 /\ b = p.to + 1
    OBVIOUS
  <2>6. a \in 1 .. Len(url) /\ b \in 1 .. Len(url) /\ a < b /\ a + 1 = p.from /\ b - 1 = p.to
    <3>1. PICK n \in Nat : n = Len(url)
      BY <1>1
    <3>2. PICK f \in Nat : f = p.from
      BY <2>3
    <3>3. PICK t \in Nat : t = p.to
      BY <2>3
    <3>4. f \in 1 .. t /\ t <= n /\ f >= 2 /\ t < n
      BY <2>3, <2>4, <3>1, <3>2, <3>3 DEF Inside
    <3>5. a = f - 1 /\ b = t + 1
      BY <2>5, <3>2, <3>3
    <3>6. a \in 1 .. n /\ b \in 1 .. n /\ a < b /\ a + 1 = f /\ b - 1 = t
      BY <3>4, <3>5
    <3> QED
      BY <3>1, <3>2, <3>3, <3>6
  <2>7. Pair(a, b)
    BY <2>3, <2>4, <2>5 DEF WellCut
  <2>8. data(p) = SubSeq(url, a + 1, b - 1)
    BY <2>6 DEF data
  <2> QED
    BY <2>1, <2>3, <2>6, <2>7, <2>8
<1>5. ASSUME NEW a \in 1 .. Len(url), NEW b \in 1 .. Len(url), a < b, Pair(a, b)
      PROVE  \E k \in DOMAIN uri_parts : /\ uri_parts[k].type = "placeholder"
                                         /\ data(uri_parts[k]) = SubSeq(url, a + 1, b - 1)
  <2>1. PICK k \in DOMAIN uri_parts : uri_parts[k] = Part("placeholder", a + 1, b - 1)
    BY <1>1, <1>5 DEF AllFound
  <2> QED
    BY <2>1 DEF Part, data
<1>6. r.ok <=> \A k \in DOMAIN uri_parts :
        \/ uri_parts[k].type = "string"
        \/ /\ cJSON_GetObjectItem(j, data(uri_parts[k])) # 0
           /\ j[cJSON_GetObjectItem(j, data(uri_parts[k]))].item.type \in Supported
  BY <1>2 DEF get_url
<1>7. \A name : HasValue(j, name) <=>
        /\ cJSON_GetObjectItem(j, name) # 0
        /\ j[cJSON_GetObjectItem(j, name)].item.type \in Supported
  BY <1>3, ItemFound, Zenon DEF HasValue
<1>8. r.ok <=> \A k \in DOMAIN uri_parts :
        uri_parts[k].type = "string" \/ HasValue(j, data(uri_parts[k]))
  BY <1>6, <1>7, Zenon
<1>9. r.ok <=> \A a, b \in 1 .. Len(url) :
                 a < b /\ Pair(a, b) => HasValue(j, SubSeq(url, a + 1, b - 1))
  <2>1. ASSUME r.ok, NEW a \in 1 .. Len(url), NEW b \in 1 .. Len(url), a < b, Pair(a, b)
        PROVE  HasValue(j, SubSeq(url, a + 1, b - 1))
    <3>1. PICK k \in DOMAIN uri_parts : /\ uri_parts[k].type = "placeholder"
                                        /\ data(uri_parts[k]) = SubSeq(url, a + 1, b - 1)
      BY <1>5, <2>1, Zenon
    <3> QED
      BY <1>8, <2>1, <3>1
  <2>2. ASSUME \A a, b \in 1 .. Len(url) :
                 a < b /\ Pair(a, b) => HasValue(j, SubSeq(url, a + 1, b - 1)),
               NEW k \in DOMAIN uri_parts, uri_parts[k].type # "string"
        PROVE  HasValue(j, data(uri_parts[k]))
    <3>1. PICK a, b \in 1 .. Len(url) : /\ a < b /\ Pair(a, b)
                                        /\ data(uri_parts[k]) = SubSeq(url, a + 1, b - 1)
      BY <1>4, <2>2, Zenon
    <3> QED
      BY <2>2, <3>1, Zenon
  <2> QED
    BY <1>8, <2>1, <2>2, Zenon
<1>10. ASSUME r.ok, NEW k \in DOMAIN uri_parts, NEW m \in 1 .. Len(j),
              uri_parts[k].type = "placeholder", First(j, m, data(uri_parts[k]))
       PROVE  /\ j[m].item.type = "string" => r.pieces[k] = j[m].item.of
              /\ j[m].item.type = "number" =>
                   (r.pieces[k] = <<j[m].item.of>> <=> j[m].item.of \in -IntMax - 1 .. IntMax)
  <2>1. PICK p, item : p = uri_parts[k] /\ item = j[m].item
    OBVIOUS
  <2>2. m = cJSON_GetObjectItem(j, data(p))
    BY <1>3, <1>10, <2>1, ItemFound
  <2>3. item \in Items
    <3>1. j[m] \in [string : Seq(STRING), item : Items]
      BY <1>3, <1>10, ElementOfSeq, Zenon
    <3> QED
      BY <2>1, <3>1
  <2>4. r.pieces[k] = url_text(item)
    BY <1>2, <1>10, <2>1, <2>2 DEF get_url
  <2>5. item.type = "string" => url_text(item) = item.of
    BY DEF url_text
  <2>6. ASSUME item.type = "number"
        PROVE  r.pieces[k] = <<item.of>> <=> item.of \in -IntMax - 1 .. IntMax
    <3>1. item.of \in Int
      BY <2>3, <2>6 DEF Items
    <3>2. url_text(item) = <<valueint(item.of)>>
      BY <2>6 DEF url_text
    <3>3. \A n \in Int : valueint(n) = n <=> n \in -IntMax - 1 .. IntMax
      BY IntAssumption DEF valueint
    <3>4. r.pieces[k] = <<item.of>> <=> valueint(item.of) = item.of
      BY <2>4, <3>2
    <3> QED
      BY <3>1, <3>3, <3>4
  <2> QED
    BY <2>1, <2>4, <2>5, <2>6
<1>11. UrlHasEveryValue <=>
         /\ r.ok <=> \A a, b \in 1 .. Len(url) :
                       a < b /\ Pair(a, b) => HasValue(j, SubSeq(url, a + 1, b - 1))
         /\ r.ok => \A k \in DOMAIN uri_parts, m \in 1 .. Len(j) :
              uri_parts[k].type = "placeholder" /\ First(j, m, data(uri_parts[k])) =>
                /\ j[m].item.type = "string" => r.pieces[k] = j[m].item.of
                /\ j[m].item.type = "number" =>
                     (r.pieces[k] = <<j[m].item.of>> <=> j[m].item.of \in -IntMax - 1 .. IntMax)
  BY <1>2, Zenon DEF UrlHasEveryValue, HasValue
<1> QED
  BY <1>9, <1>10, <1>11

-----------------------------------------------------------------------------
(***************************************************************************)
(* The CSV file.                                                           *)
(***************************************************************************)

\* The commas of a line up to a position.
Low(line, c) == {d \in Commas(line) : d <= c}

\* They can be counted.
LEMMA CommasCount ==
  ASSUME NEW line, Len(line) \in Nat
  PROVE  /\ IsFiniteSet(Commas(line)) /\ Cardinality(Commas(line)) \in Nat
         /\ \A c : /\ IsFiniteSet(Low(line, c)) /\ Cardinality(Low(line, c)) \in Nat
                   /\ Cardinality(Low(line, c)) <= Cardinality(Commas(line))
                   /\ Cardinality(Low(line, c)) = Cardinality(Commas(line)) => Low(line, c) = Commas(line)
                   /\ Ordinal(line, c) = Cardinality(Low(line, c))
<1>1. IsFiniteSet(1 .. Len(line))
  BY FS_Interval
<1>2. Commas(line) \in SUBSET (1 .. Len(line))
  BY DEF Commas
<1>3. IsFiniteSet(Commas(line))
  BY <1>1, <1>2, FS_Subset
<1>4. ASSUME NEW c
      PROVE  /\ IsFiniteSet(Low(line, c))
             /\ Cardinality(Low(line, c)) <= Cardinality(Commas(line))
             /\ Cardinality(Low(line, c)) = Cardinality(Commas(line)) => Low(line, c) = Commas(line)
  <2>1. PICK C, T : C = Commas(line) /\ T = Low(line, c)
    OBVIOUS
  <2>2. T \in SUBSET C /\ IsFiniteSet(C)
    BY <1>3, <2>1 DEF Low
  <2>3. /\ IsFiniteSet(T)
        /\ Cardinality(T) <= Cardinality(C)
        /\ Cardinality(C) = Cardinality(T) => C = T
    BY <2>2, FS_Subset, Zenon
  <2> QED
    BY <2>1, <2>3
<1>5. \A c : Ordinal(line, c) = Cardinality(Low(line, c))
  BY DEF Ordinal, Low
<1> QED
  BY <1>3, <1>4, <1>5, FS_CardinalityType

\* Two commas are not the same in number.
LEMMA OrdinalUnique ==
  ASSUME NEW line, Len(line) \in Nat, NEW c \in Commas(line), NEW d \in Commas(line),
         Ordinal(line, c) = Ordinal(line, d)
  PROVE  c = d
<1>1. ASSUME NEW a \in Commas(line), NEW b \in Commas(line), a < b
      PROVE  Ordinal(line, a) # Ordinal(line, b)
  <2>1. a \in Nat /\ b \in Nat /\ \A x \in Commas(line) : x \in Nat
    BY DEF Commas
  <2>2. PICK A, B : A = Low(line, a) /\ B = Low(line, b)
    OBVIOUS
  <2>3. b \in B /\ b \notin A
    BY <1>1, <2>1, <2>2 DEF Low
  <2>4. A \in SUBSET B
    <3>1. ASSUME NEW x \in A PROVE x \in B
      <4>1. x \in Commas(line) /\ x <= a
        BY <2>2 DEF Low
      <4>2. x <= b
        BY <1>1, <2>1, <4>1
      <4> QED
        BY <2>2, <4>1, <4>2 DEF Low
    <3> QED
      BY <3>1
  <2>5. IsFiniteSet(B)
    BY <2>2, CommasCount
  <2>6. Cardinality(B) = Cardinality(A) => B = A
    BY <2>4, <2>5, FS_Subset, Zenon
  <2> QED
    BY <2>2, <2>3, <2>6, CommasCount
<1>2. c \in Nat /\ d \in Nat
  BY DEF Commas
<1>3. ~(c < d)
  BY <1>1
<1>4. ~(d < c)
  BY <1>1
<1> QED
  BY <1>2, <1>3, <1>4

\* The n-th comma is where the n-th field ends.
LEMMA BoundOfComma ==
  ASSUME NEW line, Len(line) \in Nat, NEW c \in Commas(line), NEW n \in Nat, Ordinal(line, c) = n
  PROVE  n # 0 /\ n <= Cardinality(Commas(line)) /\ Bound(line, n) = c
<1>1. c \in Low(line, c)
  BY DEF Low, Commas
<1>2. n # 0
  <2>1. PICK A : A = Low(line, c)
    OBVIOUS
  <2>2. IsFiniteSet(A) /\ n = Cardinality(A)
    BY <2>1, CommasCount
  <2>3. A # {}
    BY <1>1, <2>1
  <2> QED
    BY <2>2, <2>3, FS_EmptySet
<1>3. n <= Cardinality(Commas(line))
  BY CommasCount
<1>4. PICK d : d = CHOOSE x \in Commas(line) : Ordinal(line, x) = n
  OBVIOUS
<1>5. d \in Commas(line) /\ Ordinal(line, d) = n
  BY <1>4
<1>6. d = c
  BY <1>5, OrdinalUnique
<1> QED
  BY <1>2, <1>3, <1>4, <1>6 DEF Bound

\* A row is valid if at most one of its fields is empty.
LEMMA ValidRow ==
  ASSUME NEW r
  PROVE  valid_row(r) <=> \A j, k \in 1 .. FieldsNumber : r[j] = <<>> /\ r[k] = <<>> => j = k
<1>1. FieldsNumber \in Nat /\ FieldsNumber > 2
  BY FieldsAssumption
<1>2. PICK D, S : D = 1 .. FieldsNumber /\ S = {k \in 1 .. FieldsNumber : r[k] # <<>>}
  OBVIOUS
<1>3. IsFiniteSet(D) /\ Cardinality(D) = FieldsNumber
  BY <1>1, <1>2, FS_Interval
<1>4. valid_row(r) <=> Cardinality(S) >= FieldsNumber - 1
  BY <1>2 DEF valid_row
<1>5. ASSUME NEW j \in D, NEW k \in D, j # k, r[j] = <<>>, r[k] = <<>>
      PROVE  ~valid_row(r)
  <2>1. PICK T : T = D \ {j}
    OBVIOUS
  <2>2. IsFiniteSet(T) /\ Cardinality(T) = FieldsNumber - 1
    BY <1>3, <1>5, <2>1, FS_RemoveElement
  <2>3. PICK U : U = T \ {k}
    OBVIOUS
  <2>4. k \in T
    BY <1>5, <2>1
  <2>5. IsFiniteSet(U) /\ Cardinality(U) = FieldsNumber - 1 - 1
    BY <2>2, <2>3, <2>4, FS_RemoveElement
  <2>6. S \in SUBSET U
    BY <1>2, <1>5, <2>1, <2>3
  <2>7. IsFiniteSet(S) /\ Cardinality(S) <= Cardinality(U)
    BY <2>5, <2>6, FS_Subset, Zenon
  <2>8. Cardinality(S) \in Nat
    BY <2>7, FS_CardinalityType
  <2> QED
    BY <1>1, <1>4, <2>5, <2>7, <2>8
<1>6. ASSUME \A j, k \in D : r[j] = <<>> /\ r[k] = <<>> => j = k
      PROVE  valid_row(r)
  <2>1. CASE S = D
    BY <1>1, <1>3, <1>4, <2>1
  <2>2. CASE S # D
    <3>1. PICK e \in D : r[e] = <<>>
      BY <1>2, <2>2
    <3>2. S = D \ {e}
      BY <1>2, <1>6, <3>1
    <3>3. Cardinality(S) = FieldsNumber - 1
      BY <1>3, <3>1, <3>2, FS_RemoveElement
    <3> QED
      BY <1>1, <1>4, <3>3
  <2> QED
    BY <2>1, <2>2
<1> QED
  BY <1>2, <1>5, <1>6

\* The stream of a line stands behind its first n fields.
Reached(line, n, from, r) ==
  \/ /\ from = 1 \/ from - 1 \in Commas(line)
     /\ Cardinality(Low(line, from - 1)) = n
  \/ /\ from = Len(line) + 2 /\ Cardinality(Commas(line)) = n - 1
     /\ r[n] # <<>>

\* Where the stream stands, the field before it ends.
LEMMA BoundReached ==
  ASSUME NEW line, Len(line) \in Nat, NEW n \in Nat, NEW from \in 1 .. Len(line) + 1,
         from = 1 \/ from - 1 \in Commas(line),
         Cardinality(Low(line, from - 1)) = n
  PROVE  Bound(line, n) = from - 1
<1>1. CASE from = 1
  <2>1. Low(line, from - 1) = {}
    BY <1>1 DEF Low, Commas
  <2>2. n = 0
    BY <2>1, FS_EmptySet
  <2> QED
    BY <1>1, <2>2 DEF Bound
<1>2. CASE from - 1 \in Commas(line)
  <2>1. Ordinal(line, from - 1) = n
    BY CommasCount
  <2> QED
    BY <1>2, <2>1, BoundOfComma
<1> QED
  BY <1>1, <1>2

\* getline() fails only at the end of the line; what it reads is text.
LEMMA GetlineText ==
  ASSUME NEW line \in Seq(STRING), NEW from \in Nat, from >= 1
  PROVE  /\ getline(line, from).ok <=> from <= Len(line)
         /\ from <= Len(line) => getline(line, from).field \in Seq(STRING)
<1>1. PICK S, end : /\ S = {k \in from .. Len(line) : line[k] = Comma}
                    /\ end = IF S = {} THEN Len(line) + 1 ELSE Min(S)
  OBVIOUS
<1>2. Len(line) \in Nat
  OBVIOUS
<1>3. getline(line, from).ok <=> from <= Len(line)
  BY Zenon DEF getline
<1>4. getline(line, from).field = SubSeq(line, from, end - 1)
  BY <1>1 DEF getline
<1>5. S \in SUBSET Nat
  BY <1>1, <1>2
<1>6. S # {} => end \in S
  BY <1>1, <1>5, MinOfNat
<1>7. end \in 1 .. Len(line) + 1
  BY <1>1, <1>2, <1>6
<1>8. end - 1 \in 0 .. Len(line)
  BY <1>2, <1>7
<1>9. from <= Len(line) => SubSeq(line, from, end - 1) \in Seq(STRING)
  BY <1>2, <1>8, SubSeqProperties
<1> QED
  BY <1>3, <1>4, <1>9

\* getline() reads the field that follows.
LEMMA GetlineReads ==
  ASSUME NEW line \in Seq(STRING), NEW n \in Nat, NEW from \in 1 .. Len(line),
         from = 1 \/ from - 1 \in Commas(line),
         Cardinality(Low(line, from - 1)) = n, NEW r, r[n + 1] = getline(line, from).field
  PROVE  /\ getline(line, from).field = Field(line, n + 1)
         /\ getline(line, from).next \in 1 .. Len(line) + 2
         /\ Reached(line, n + 1, getline(line, from).next, r)
<1>1. Len(line) \in Nat
  OBVIOUS
<1>2. Bound(line, n) = from - 1
  BY <1>1, BoundReached
<1>3. PICK S, end : /\ S = {k \in from .. Len(line) : line[k] = Comma}
                    /\ end = IF S = {} THEN Len(line) + 1 ELSE Min(S)
  OBVIOUS
<1>4. getline(line, from).field = SubSeq(line, from, end - 1) /\ getline(line, from).next = end + 1
  BY <1>3 DEF getline
<1>5. PICK L : L = Low(line, from - 1)
  OBVIOUS
<1>6. IsFiniteSet(L) /\ Cardinality(L) = n
  BY <1>1, <1>5, CommasCount
<1>7. Field(line, n + 1) = SubSeq(line, from, Bound(line, n + 1) - 1)
  <2>1. PICK m, b : m = n + 1 /\ b = from - 1
    OBVIOUS
  <2>2. m - 1 = n /\ b + 1 = from
    BY <2>1
  <2>3. Field(line, m) = SubSeq(line, Bound(line, m - 1) + 1, Bound(line, m) - 1)
    BY Zenon DEF Field
  <2> QED
    BY <1>2, <2>1, <2>2, <2>3, Zenon
<1>8. CASE S = {}
  <2>1. end = Len(line) + 1
    BY <1>3, <1>8
  <2>2. \A x \in Commas(line) : x <= from - 1
    <3> SUFFICES ASSUME NEW x \in Commas(line), ~(x <= from - 1) PROVE FALSE
      OBVIOUS
    <3>1. x \in from .. Len(line) /\ line[x] = Comma
      BY <1>1 DEF Commas
    <3> QED
      BY <1>3, <1>8, <3>1
  <2>3. Commas(line) = L
    BY <1>5, <2>2 DEF Low
  <2>4. Cardinality(Commas(line)) = n
    BY <1>6, <2>3
  <2>5. Bound(line, n + 1) = Len(line) + 1
    BY <2>4 DEF Bound
  <2>6. getline(line, from).field = Field(line, n + 1)
    BY <1>4, <1>7, <2>1, <2>5
  <2>7. Len(SubSeq(line, from, end - 1)) = Len(line) - from + 1
    BY <1>1, <2>1, SubSeqProperties
  <2>8. r[n + 1] # <<>>
    <3>1. PICK q : q = SubSeq(line, from, end - 1)
      OBVIOUS
    <3>2. Len(line) - from + 1 > 0
      BY <1>1
    <3>3. Len(q) > 0
      BY <2>7, <3>1, <3>2, Zenon
    <3>4. q # <<>>
      BY <3>3
    <3> QED
      BY <1>4, <3>1, <3>4
  <2>9. end + 1 = Len(line) + 2 /\ n + 1 - 1 = n
    BY <1>1, <2>1
  <2>10. Reached(line, n + 1, end + 1, r)
    BY <2>4, <2>8, <2>9 DEF Reached
  <2>11. end + 1 \in 1 .. Len(line) + 2
    BY <1>1, <2>1
  <2> QED
    BY <1>4, <2>6, <2>10, <2>11
<1>9. CASE S # {}
  <2>1. S \in SUBSET Nat /\ end = Min(S)
    BY <1>3, <1>9
  <2>2. end \in S /\ \A y \in S : end <= y
    BY <1>9, <2>1, MinOfNat
  <2>3. end \in from .. Len(line) /\ line[end] = Comma
    BY <1>3, <2>2
  <2>4. end \in Commas(line) /\ end \notin L
    BY <1>5, <2>3 DEF Commas, Low
  <2>5. Low(line, end) = L \union {end}
    <3>1. ASSUME NEW x \in Low(line, end) PROVE x \in L \union {end}
      <4>1. x \in 1 .. Len(line) /\ line[x] = Comma /\ x <= end /\ x \in Commas(line)
        BY DEF Low, Commas
      <4>2. CASE x >= from
        <5>1. x \in S
          BY <1>1, <1>3, <4>1, <4>2
        <5> QED
          BY <2>2, <2>3, <4>1, <5>1
      <4>3. CASE x < from
        <5>1. x <= from - 1
          BY <4>1, <4>3
        <5> QED
          BY <1>5, <4>1, <5>1 DEF Low
      <4> QED
        BY <4>1, <4>2, <4>3
    <3>2. ASSUME NEW x \in L PROVE x \in Low(line, end)
      <4>1. x \in Commas(line) /\ x <= from - 1
        BY <1>5 DEF Low
      <4>2. x \in Nat
        BY <4>1 DEF Commas
      <4>3. x <= end
        BY <2>3, <4>1, <4>2
      <4> QED
        BY <4>1, <4>3 DEF Low
    <3>3. end \in Low(line, end)
      BY <2>3, <2>4 DEF Low
    <3> QED
      BY <3>1, <3>2, <3>3
  <2>6. Cardinality(Low(line, end)) = n + 1
    BY <1>6, <2>4, <2>5, FS_AddElement
  <2>7. Ordinal(line, end) = n + 1
    BY <1>1, <2>6, CommasCount
  <2>8. Bound(line, n + 1) = end
    BY <1>1, <2>4, <2>7, BoundOfComma
  <2>9. getline(line, from).field = Field(line, n + 1)
    BY <1>4, <1>7, <2>8
  <2>10. end + 1 - 1 = end /\ end + 1 \in 1 .. Len(line) + 2
    BY <1>1, <2>3
  <2>11. Reached(line, n + 1, end + 1, r)
    <3>1. PICK e, m : e = end + 1 /\ m = n + 1
      OBVIOUS
    <3>2. e - 1 = end
      BY <2>3, <3>1
    <3>3. e - 1 \in Commas(line) /\ Cardinality(Low(line, e - 1)) = m
      BY <2>4, <2>6, <3>1, <3>2, Zenon
    <3>4. Reached(line, m, e, r)
      BY <3>3, Zenon DEF Reached
    <3> QED
      BY <3>1, <3>4
  <2> QED
    BY <1>4, <2>9, <2>10, <2>11
<1> QED
  BY <1>8, <1>9

\* A line that ends before its row is complete is no row.
LEMMA TooShort ==
  ASSUME NEW line \in Seq(STRING), line # <<>>, NEW n \in Nat, n < FieldsNumber,
         NEW from \in 1 .. Len(line) + 2, from > Len(line), NEW r, Reached(line, n, from, r)
  PROVE  ~IsRow(line)
<1>1. FieldsNumber \in Nat /\ FieldsNumber > 2 /\ Len(line) \in Nat /\ Len(line) > 0
  BY FieldsAssumption
<1>2. Cardinality(Commas(line)) \in Nat
  BY <1>1, CommasCount
<1>3. CASE Cardinality(Commas(line)) = n - 1
  BY <1>1, <1>2, <1>3 DEF IsRow
<1>4. CASE /\ from = 1 \/ from - 1 \in Commas(line)
           /\ Cardinality(Low(line, from - 1)) = n
  <2>1. from - 1 \in Commas(line)
    BY <1>1, <1>4
  <2>2. from = Len(line) + 1
    BY <1>1, <2>1 DEF Commas
  <2>3. Low(line, from - 1) = Commas(line)
    BY <2>2 DEF Low, Commas
  <2>4. Cardinality(Commas(line)) = n
    BY <1>4, <2>3
  <2>5. CASE n < FieldsNumber - 1
    BY <1>1, <2>4, <2>5 DEF IsRow
  <2>6. CASE n = FieldsNumber - 1
    <3>1. Bound(line, FieldsNumber - 1) = from - 1
      BY <1>1, <1>4, <2>2, <2>6, BoundReached
    <3>2. Bound(line, FieldsNumber) = Len(line) + 1
      BY <1>1, <2>4, <2>6 DEF Bound
    <3>3. Field(line, FieldsNumber) = SubSeq(line, Len(line) + 1, Len(line))
      BY <1>1, <2>2, <3>1, <3>2 DEF Field
    <3>4. SubSeq(line, Len(line) + 1, Len(line)) = <<>>
      BY <1>1
    <3> QED
      BY <1>1, <2>4, <2>6, <3>3, <3>4 DEF IsRow
  <2> QED
    BY <1>1, <2>5, <2>6
<1> QED
  BY <1>3, <1>4 DEF Reached

\* The row that was read is checked as the line would be.
LEMMA RowChecked ==
  ASSUME NEW line \in Seq(STRING), NEW from, NEW r, Reached(line, FieldsNumber, from, r),
         \A m \in 1 .. FieldsNumber : r[m] = Field(line, m)
  PROVE  valid_row(r) <=> IsRow(line)
<1>1. FieldsNumber \in Nat /\ FieldsNumber > 2 /\ Len(line) \in Nat
  BY FieldsAssumption
<1>2. valid_row(r) <=> \A j, k \in 1 .. FieldsNumber : Field(line, j) = <<>> /\ Field(line, k) = <<>> => j = k
  BY ValidRow
<1>3. Cardinality(Commas(line)) \in Nat
  BY <1>1, CommasCount
<1>4. /\ Cardinality(Commas(line)) >= FieldsNumber - 1
      /\ Field(line, FieldsNumber) = <<>> => Cardinality(Commas(line)) >= FieldsNumber
  <2>1. CASE Cardinality(Low(line, from - 1)) = FieldsNumber
    BY <1>1, <1>3, <2>1, CommasCount
  <2>2. CASE Cardinality(Commas(line)) = FieldsNumber - 1 /\ r[FieldsNumber] # <<>>
    BY <1>1, <2>2
  <2> QED
    BY <2>1, <2>2 DEF Reached
<1> QED
  BY <1>2, <1>4 DEF IsRow

\* What the map has of the first n lines.
Loaded(n) ==
  /\ \A l \in Used : l <= n => IsRow(lines[l])
  /\ \A x : x \in DOMAIN map <=> \E l \in Used : l <= n /\ x = Field(lines[l], 1)
  /\ \A l \in Firsts : l <= n =>
       /\ map[Field(lines[l], 1)][2] = Field(lines[l], 2)
       /\ map[Field(lines[l], 1)][3] = Field(lines[l], 3)

\* What the loop of loadCsvFile() has of line i.
RowRead ==
  /\ row \in Seq(Seq(STRING)) /\ Len(row) <= FieldsNumber
  /\ row = <<>> => at = 1
  /\ row # <<>> =>
       /\ i \in Used /\ at \in 1 .. Len(lines[i]) + 2
       /\ \A m \in 1 .. Len(row) : row[m] = Field(lines[i], m)
       /\ Reached(lines[i], Len(row), at, row)

CsvInv ==
  Kind("csv") =>
    /\ lines \in Seq(Seq(STRING))
    /\ i \in 1 .. Len(lines) + 1
    /\ status \in Statuses
    /\ status = "running" => Loaded(i - 1) /\ RowRead
    /\ status = "failed" => \E l \in Used : ~IsRow(lines[l])
    /\ status = "done" => Loaded(Len(lines))

\* The rows that were kept, when a line more has been read.
LEMMA LoadedNext ==
  ASSUME input' = input, Len(lines) \in Nat, i \in 1 .. Len(lines), i' = i + 1, Loaded(i - 1),
         i \in Used => IsRow(lines[i]),
         \A x : x \in DOMAIN map' <=> x \in DOMAIN map \/ (i \in Used /\ x = Field(lines[i], 1)),
         \A x \in DOMAIN map : map'[x] = map[x],
         i \in Used /\ Field(lines[i], 1) \notin DOMAIN map =>
           /\ map'[Field(lines[i], 1)][2] = Field(lines[i], 2)
           /\ map'[Field(lines[i], 1)][3] = Field(lines[i], 3)
  PROVE  Loaded(i - 1)'
<1>1. /\ lines' = lines /\ Used' = Used /\ Firsts' = Firsts /\ i' - 1 = i
      /\ \A l \in Used : l \in 1 .. Len(lines)
  BY DEF lines, Used, Firsts
<1>2. \A l \in Used : l <= i => IsRow(lines[l])
  BY <1>1 DEF Loaded
<1>3. \A x : x \in DOMAIN map' <=> \E l \in Used : l <= i /\ x = Field(lines[l], 1)
  <2>1. \A l \in Used : l <= i <=> l <= i - 1 \/ l = i
    BY <1>1
  <2> QED
    BY <2>1, Zenon DEF Loaded
<1>4. ASSUME NEW l \in Firsts, l <= i
      PROVE  /\ map'[Field(lines[l], 1)][2] = Field(lines[l], 2)
             /\ map'[Field(lines[l], 1)][3] = Field(lines[l], 3)
  <2>1. l \in Used /\ l \in 1 .. Len(lines)
    BY <1>1 DEF Firsts
  <2>2. CASE l = i
    <3>1. \A k \in Used : k <= i - 1 => Field(lines[k], 1) # Field(lines[i], 1)
      BY <1>1, <2>2 DEF Firsts
    <3>2. Field(lines[i], 1) \notin DOMAIN map
      BY <3>1, Zenon DEF Loaded
    <3> QED
      BY <2>1, <2>2, <3>2
  <2>3. CASE l # i
    <3>1. l <= i - 1
      BY <1>4, <2>1, <2>3
    <3>2. Field(lines[l], 1) \in DOMAIN map
      BY <2>1, <3>1, Zenon DEF Loaded
    <3>3. /\ map[Field(lines[l], 1)][2] = Field(lines[l], 2)
          /\ map[Field(lines[l], 1)][3] = Field(lines[l], 3)
      BY <3>1 DEF Loaded
    <3> QED
      BY <3>2, <3>3
  <2> QED
    BY <2>2, <2>3
<1>5. \A l : IsRow(lines[l])' <=> IsRow(lines[l])
  BY <1>1
<1> QED
  BY <1>1, <1>2, <1>3, <1>4, Zenon DEF Loaded

\* The loop reads line by line and, of a line, field by field.
LEMMA CsvStep ==
  ASSUME CsvInv, Kind("csv"), FormatsNext
  PROVE  CsvInv'
<1>1. /\ input' = input /\ lines' = lines /\ Used' = Used /\ Kind("csv")'
      /\ ReadCsv
  BY DEF FormatsNext, ReadTemplate, ReadOperators, OpenPlaceholder, ClosePlaceholder, BadBrace, OtherChar,
         EndOfTemplate, TemplateChar, NoObject, Operators, BadMember, DefaultMember, OperatorMember, EndOfMembers, Member, Running,
         Kind, lines, Used
<1>2. lines \in Seq(Seq(STRING)) /\ Len(lines) \in Nat
  BY DEF CsvInv
<1>3. i \in 1 .. Len(lines) + 1
  BY DEF CsvInv
<1>4. status = "running"
  BY <1>1 DEF ReadCsv, SkipLine, ReadField, KeepRow, EndOfCsv, CsvLine, Running
<1>5. Loaded(i - 1) /\ RowRead
  BY <1>4 DEF CsvInv
<1>6. FieldsNumber \in Nat /\ FieldsNumber > 2
  BY FieldsAssumption
<1>7. ASSUME status' = "failed", i' = i, \E l \in Used : ~IsRow(lines[l])
      PROVE  CsvInv'
  BY <1>1, <1>2, <1>3, <1>7 DEF CsvInv, Statuses
<1>8. ASSUME status' = "running", i' \in 1 .. Len(lines) + 1, Loaded(i - 1)', RowRead'
      PROVE  CsvInv'
  BY <1>1, <1>2, <1>8 DEF CsvInv, Statuses
<1>9. CASE SkipLine
  <2>1. i \in 1 .. Len(lines) /\ i' = i + 1 /\ status' = "running" /\ map' = map /\ row' = row /\ at' = at
    BY <1>3, <1>2, <1>4, <1>9 DEF SkipLine, CsvLine
  <2>2. i \notin Used
    BY <1>9 DEF SkipLine, Used
  <2>3. Loaded(i - 1)'
    BY <1>1, <1>2, <1>5, <2>1, <2>2, LoadedNext
  <2>4. row = <<>> /\ at = 1
    BY <1>5, <2>2 DEF RowRead
  <2>5. RowRead'
    BY <1>6, <2>1, <2>4 DEF RowRead
  <2> QED
    BY <1>2, <1>8, <2>1, <2>3, <2>5
<1>10. CASE ReadField
  <2>1. i \in 1 .. Len(lines) /\ lines[i] # <<>> /\ Len(row) < FieldsNumber
    BY <1>2, <1>3, <1>10 DEF ReadField, CsvLine
  <2>2. i \in Used
    BY <2>1 DEF Used
  <2>3. PICK line, n, from, g : line = lines[i] /\ n = Len(row) /\ from = at /\ g = getline(lines[i], at)
    OBVIOUS
  <2>4. line \in Seq(STRING) /\ line # <<>>
    <3>1. lines[i] \in Seq(STRING)
      BY <1>2, <2>1, ElementOfSeq, Zenon
    <3> QED
      BY <2>1, <2>3, <3>1
  <2>5. n \in Nat /\ n < FieldsNumber /\ row \in Seq(Seq(STRING)) /\ Len(line) \in Nat /\ Len(line) > 0
    BY <1>5, <2>1, <2>3, <2>4 DEF RowRead
  <2>6. from \in 1 .. Len(line) + 2 /\ Reached(line, n, from, row)
    <3>1. CASE row = <<>>
      <4>1. from = 1 /\ n = 0
        BY <1>5, <2>3, <3>1 DEF RowRead
      <4>2. from - 1 = 0
        BY <4>1
      <4>3. Low(line, 0) = {}
        BY <2>5 DEF Low, Commas
      <4>4. Cardinality(Low(line, from - 1)) = n
        BY <4>1, <4>2, <4>3, FS_EmptySet
      <4> QED
        BY <2>5, <4>1, <4>4 DEF Reached
    <3>2. CASE row # <<>>
      BY <1>5, <2>3, <3>2 DEF RowRead
    <3> QED
      BY <3>1, <3>2
  <2>7. \A m \in 1 .. n : row[m] = Field(line, m)
    <3>1. CASE row = <<>>
      BY <2>3, <3>1
    <3>2. CASE row # <<>>
      BY <1>5, <2>3, <3>2 DEF RowRead
    <3> QED
      BY <3>1, <3>2
  <2>8. g = getline(line, from) /\ from \in Nat /\ from >= 1
    BY <2>3, <2>5, <2>6
  <2>9. g.ok <=> from <= Len(line)
    <3>1. getline(line, from).ok <=> from <= Len(line)
      BY <2>4, <2>8, GetlineText, Zenon
    <3> QED
      BY <2>8, <3>1, Zenon
  <2>10. CASE ~g.ok
    <3>1. status' = "failed" /\ i' = i
      BY <1>10, <2>3, <2>10 DEF ReadField, Ends
    <3>2. from > Len(line)
      <4>1. ~(from <= Len(line))
        BY <2>10, <2>9, Zenon
      <4> QED
        BY <2>5, <2>6, <4>1
    <3>3. ~IsRow(line)
      BY <2>4, <2>5, <2>6, <3>2, TooShort
    <3> QED
      BY <1>7, <2>2, <2>3, <3>1, <3>3
  <2>11. CASE g.ok
    <3>1. /\ row' = Append(row, g.field) /\ at' = g.next
          /\ status' = "running" /\ i' = i /\ map' = map
      BY <1>4, <1>10, <2>3, <2>11 DEF ReadField
    <3>2. from \in 1 .. Len(line)
      <4>1. from <= Len(line)
        BY <2>11, <2>9, Zenon
      <4> QED
        BY <2>5, <2>6, <4>1
    <3>3. /\ from = 1 \/ from - 1 \in Commas(line)
          /\ Cardinality(Low(line, from - 1)) = n
      BY <2>5, <2>6, <3>2 DEF Reached
    <3>4. PICK r : r = Append(row, g.field)
      OBVIOUS
    <3>5. g.field \in Seq(STRING)
      <4>1. from <= Len(line)
        BY <2>4, <3>2
      <4> QED
        BY <2>4, <2>8, <4>1, GetlineText, Zenon
    <3>6. /\ r \in Seq(Seq(STRING)) /\ Len(r) = n + 1 /\ r # <<>> /\ r[n + 1] = g.field
          /\ \A m \in 1 .. n : r[m] = row[m]
      BY <2>3, <2>5, <3>4, <3>5
    <3>7. /\ g.field = Field(line, n + 1) /\ g.next \in 1 .. Len(line) + 2
          /\ Reached(line, n + 1, g.next, r)
      <4>1. g = getline(line, from)
        BY <2>3
      <4>2. r[n + 1] = getline(line, from).field
        BY <3>6, <4>1
      <4> QED
        BY <2>4, <2>5, <3>2, <3>3, <4>1, <4>2, GetlineReads, Zenon
    <3>8. \A m \in 1 .. n + 1 : r[m] = Field(line, m)
      <4>1. ASSUME NEW m \in 1 .. n + 1 PROVE r[m] = Field(line, m)
        <5>1. CASE m = n + 1
          <6>1. Field(line, m) = g.field /\ r[m] = g.field
            BY <3>6, <3>7, <5>1, Zenon
          <6> QED
            BY <6>1, Zenon
        <5>2. CASE m # n + 1
          <6>1. m \in 1 .. n
            BY <2>5, <5>2
          <6> QED
            BY <2>7, <3>6, <6>1, Zenon
        <5> QED
          BY <5>1, <5>2
      <4> QED
        BY <4>1, Zenon
    <3>9. line = lines[i]' /\ row' = r /\ i' \in Used'
      BY <1>1, <2>2, <2>3, <3>1, <3>4
    <3>10. RowRead'
      <4>1. row' \in Seq(Seq(STRING)) /\ Len(row') = n + 1 /\ row' # <<>>
        BY <3>6, <3>9, Zenon
      <4>2. Len(row') <= FieldsNumber
        BY <1>6, <2>5, <4>1
      <4>3. at' \in 1 .. Len(lines[i]') + 2
        BY <3>1, <3>7, <3>9, Zenon
      <4>4. \A m \in 1 .. Len(row') : row'[m] = Field(lines[i]', m)
        BY <3>8, <3>9, <4>1, Zenon
      <4>5. Reached(lines[i]', Len(row'), at', row')
        BY <3>1, <3>7, <3>9, <4>1, Zenon
      <4>6. /\ (i \in Used)' /\ (at \in 1 .. Len(lines[i]) + 2)'
            /\ (\A m \in 1 .. Len(row) : row[m] = Field(lines[i], m))'
            /\ Reached(lines[i], Len(row), at, row)'
        BY <3>9, <4>3, <4>4, <4>5 DEF Reached, Field, Bound, Low, Commas, Ordinal
      <4> QED
        BY <4>1, <4>2, <4>6 DEF RowRead
    <3>11. Loaded(i - 1)'
      BY <1>1, <1>5, <3>1 DEF Loaded, Firsts
    <3> QED
      BY <1>3, <1>8, <3>1, <3>10, <3>11
  <2> QED
    BY <2>10, <2>11
<1>11. CASE KeepRow
  <2>1. i \in 1 .. Len(lines) /\ Len(row) = FieldsNumber
    BY <1>2, <1>3, <1>11 DEF KeepRow, CsvLine
  <2>2. row # <<>>
    BY <1>6, <2>1
  <2>3. PICK line, from, r : line = lines[i] /\ from = at /\ r = row
    OBVIOUS
  <2>4. /\ i \in Used
        /\ \A m \in 1 .. FieldsNumber : r[m] = Field(line, m)
        /\ Reached(line, FieldsNumber, from, r)
    BY <1>5, <2>1, <2>2, <2>3 DEF RowRead
  <2>5. line \in Seq(STRING)
    BY <1>2, <2>1, <2>3, ElementOfSeq, Zenon
  <2>6. valid_row(r) <=> IsRow(line)
    BY <2>4, <2>5, RowChecked, Zenon
  <2>7. CASE ~valid_row(row)
    <3>1. status' = "failed" /\ i' = i
      BY <1>11, <2>7 DEF KeepRow, Ends
    <3> QED
      BY <1>7, <2>3, <2>4, <2>6, <2>7, <3>1
  <2>8. CASE valid_row(row)
    <3>1. /\ map' = emplace(row[1], row) /\ i' = i + 1 /\ at' = 1 /\ row' = <<>> /\ status' = "running"
      BY <1>4, <1>11, <2>8 DEF KeepRow
    <3>2. PICK k : k = r[1]
      OBVIOUS
    <3>3. /\ DOMAIN emplace(k, r) = DOMAIN map \union {k}
          /\ \A x \in DOMAIN map : emplace(k, r)[x] = map[x]
          /\ k \notin DOMAIN map => emplace(k, r)[k] = r
      BY EmplaceFacts
    <3>4. map' = emplace(k, r)
      BY <2>3, <3>1, <3>2
    <3>5. k = Field(line, 1) /\ r[2] = Field(line, 2) /\ r[3] = Field(line, 3)
      BY <1>6, <2>4, <3>2
    <3>6. IsRow(lines[i])
      BY <2>3, <2>6, <2>8
    <3>7. \A x : x \in DOMAIN map' <=> x \in DOMAIN map \/ (i \in Used /\ x = Field(lines[i], 1))
      BY <2>3, <2>4, <3>3, <3>4, <3>5
    <3>8. \A x \in DOMAIN map : map'[x] = map[x]
      BY <3>3, <3>4
    <3>9. Field(lines[i], 1) \notin DOMAIN map =>
            /\ map'[Field(lines[i], 1)][2] = Field(lines[i], 2)
            /\ map'[Field(lines[i], 1)][3] = Field(lines[i], 3)
      BY <2>3, <3>3, <3>4, <3>5
    <3>10. Loaded(i - 1)'
      BY <1>1, <1>2, <1>5, <2>1, <3>1, <3>6, <3>7, <3>8, <3>9, LoadedNext
    <3>11. RowRead'
      BY <1>6, <3>1 DEF RowRead
    <3> QED
      BY <1>2, <1>8, <2>1, <3>1, <3>10, <3>11
  <2> QED
    BY <2>7, <2>8
<1>12. CASE EndOfCsv
  <2>1. i = Len(lines) + 1 /\ i' = i /\ map' = map /\ status' = "done"
    BY <1>2, <1>3, <1>12 DEF EndOfCsv, Ends
  <2>2. i - 1 = Len(lines)
    BY <1>2, <2>1
  <2>3. Loaded(Len(lines))
    BY <1>5, <2>2
  <2>4. Loaded(Len(lines))'
    BY <1>1, <2>1, <2>3 DEF Loaded, Firsts
  <2> QED
    BY <1>1, <1>2, <1>3, <2>1, <2>4 DEF CsvInv, Statuses
<1> QED
  BY <1>1, <1>9, <1>10, <1>11, <1>12 DEF ReadCsv

\* The file read to its end answers with the first row of a number.
LEMMA CsvDone ==
  ASSUME CsvInv
  PROVE  FirstRowAnswers
<1> SUFFICES ASSUME Kind("csv"), status = "done"
             PROVE  /\ \A l \in Used : IsRow(lines[l])
                    /\ \A l \in Firsts : csv_resolve(Field(lines[l], 1)) =
                                           [lrn |-> Field(lines[l], 3), tag |-> Field(lines[l], 2)]
                    /\ DOMAIN map = {Field(lines[l], 1) : l \in Used}
  BY DEF CsvInv, FirstRowAnswers
<1>1. Len(lines) \in Nat /\ Loaded(Len(lines))
  BY DEF CsvInv
<1>2. \A l \in Used : l <= Len(lines)
  BY <1>1 DEF Used
<1>3. \A l \in Used : IsRow(lines[l])
  BY <1>1, <1>2 DEF Loaded
<1>4. \A x : x \in DOMAIN map <=> \E l \in Used : x = Field(lines[l], 1)
  BY <1>1, <1>2 DEF Loaded
<1>5. ASSUME NEW l \in Firsts
      PROVE  csv_resolve(Field(lines[l], 1)) = [lrn |-> Field(lines[l], 3), tag |-> Field(lines[l], 2)]
  <2>1. l \in Used
    BY DEF Firsts
  <2>2. Field(lines[l], 1) \in DOMAIN map
    BY <1>4, <2>1
  <2>3. /\ map[Field(lines[l], 1)][2] = Field(lines[l], 2)
        /\ map[Field(lines[l], 1)][3] = Field(lines[l], 3)
    BY <1>1, <1>2, <2>1 DEF Loaded
  <2> QED
    BY <2>2, <2>3 DEF csv_resolve
<1> QED
  BY <1>3, <1>4, <1>5

-----------------------------------------------------------------------------
(***************************************************************************)
(* All formats.                                                            *)
(***************************************************************************)
FormatsInv == CsvInv /\ TemplateInv /\ RequestInv /\ OperatorsInv

\* Nothing has been read when a loop starts.
LEMMA FormatsStart ==
  ASSUME FormatsInit
  PROVE  FormatsInv
<1>1. status = "running" /\ Start
  BY DEF FormatsInit
<1>2. /\ i = 1 /\ map = [k \in {} |-> <<>>] /\ at = 1 /\ row = <<>> /\ pos = 1 /\ state = "normal"
      /\ uri_parts = <<>> /\ default_value = <<>>
  BY <1>1 DEF Start
<1>3. \A x : x \notin DOMAIN map
  BY <1>2
<1>4. i - 1 = 0
  BY <1>2
<1>5. \/ input \in CsvInput
      \/ input \in TemplateInput
      \/ input \in OperatorsInput
      \/ \E j : Request(j) /\ input \in UrlInput(j)
  BY DEF FormatsInit
<1>6. FieldsNumber \in Nat /\ FieldsNumber > 2
  BY FieldsAssumption
<1>7. CsvInv
  <2> SUFFICES ASSUME Kind("csv") PROVE CsvInv
    BY DEF CsvInv
  <2>1. lines \in Seq(Seq(STRING))
    BY <1>5 DEF Kind, lines, CsvInput, TemplateInput, OperatorsInput, UrlInput
  <2>2. Len(lines) \in Nat
    BY <2>1
  <2>3. \A l \in Used : ~(l <= 0)
    BY <2>2 DEF Used
  <2>4. \A l \in Firsts : l \in Used
    BY DEF Firsts
  <2>5. Loaded(0)
    BY <1>3, <2>3, <2>4 DEF Loaded
  <2>6. RowRead
    BY <1>2, <1>6 DEF RowRead
  <2> QED
    BY <1>1, <1>2, <1>4, <2>1, <2>2, <2>5, <2>6 DEF CsvInv, Statuses
<1>8. TemplateInv
  <2> SUFFICES ASSUME input.kind \in TemplateKinds PROVE TemplateInv
    BY DEF TemplateInv
  <2>1. url \in Seq(STRING)
    BY <1>5 DEF TemplateKinds, url, CsvInput, TemplateInput, OperatorsInput, UrlInput
  <2>2. Len(url) \in Nat
    BY <2>1
  <2>3. Cut = 1 /\ Tiled(uri_parts, 1)
    BY <1>2 DEF Cut, Tiled
  <2>4. TemplateRead
    BY <1>2, <2>3 DEF TemplateRead, Plain, AllFound
  <2>5. uri_parts \in Seq(Parts) /\ \A k \in DOMAIN uri_parts : Inside(uri_parts[k])
    BY <1>2
  <2> QED
    BY <1>1, <1>2, <2>2, <2>4, <2>5 DEF TemplateInv, Statuses
<1>9. RequestInv
  BY <1>5 DEF RequestInv, Kind, CsvInput, TemplateInput, OperatorsInput, UrlInput
<1>10. OperatorsInv
  <2> SUFFICES ASSUME Kind("operators") PROVE OperatorsInv
    BY DEF OperatorsInv
  <2>1. members \in Seq([string : STRING, type : STRING, of : Int])
    BY <1>5 DEF Kind, members, CsvInput, TemplateInput, OperatorsInput, UrlInput
  <2>2. Len(members) \in Nat
    BY <2>1
  <2>3. OperatorsRead(0)
    BY <1>2, <1>3 DEF OperatorsRead
  <2> QED
    BY <1>1, <1>2, <1>4, <2>2, <2>3 DEF OperatorsInv, Statuses
<1> QED
  BY <1>7, <1>8, <1>9, <1>10 DEF FormatsInv

\* A turn of one loop leaves the others alone.
LEMMA FormatsStep ==
  ASSUME FormatsInv, FormatsNext
  PROVE  FormatsInv'
<1>1. input' = input
  BY DEF FormatsNext
<1>2. CsvInv'
  <2>1. CASE Kind("csv")
    BY <2>1, CsvStep DEF FormatsInv
  <2>2. CASE ~Kind("csv")
    BY <1>1, <2>2 DEF CsvInv, Kind
  <2> QED
    BY <2>1, <2>2
<1>3. TemplateInv'
  <2>1. CASE input.kind \in TemplateKinds
    BY <2>1, TemplateStep DEF FormatsInv
  <2>2. CASE input.kind \notin TemplateKinds
    BY <1>1, <2>2 DEF TemplateInv, TemplateKinds
  <2> QED
    BY <2>1, <2>2
<1>4. OperatorsInv'
  <2>1. CASE Kind("operators")
    BY <2>1, OperatorsStep DEF FormatsInv
  <2>2. CASE ~Kind("operators")
    BY <1>1, <2>2 DEF OperatorsInv, Kind
  <2> QED
    BY <2>1, <2>2
<1>5. RequestInv'
  BY <1>1 DEF FormatsInv, RequestInv, Kind, Request
<1> QED
  BY <1>2, <1>3, <1>4, <1>5 DEF FormatsInv

\* A step that changes no variable.
LEMMA FormatsStutter ==
  ASSUME FormatsInv, UNCHANGED <<input, loop>>
  PROVE  FormatsInv'
<1>1. /\ input' = input /\ status' = status /\ i' = i /\ map' = map /\ at' = at /\ row' = row
      /\ pos' = pos /\ state' = state /\ uri_parts' = uri_parts /\ default_value' = default_value
  BY DEF loop
<1>2. CsvInv'
  BY <1>1 DEF FormatsInv, CsvInv, Kind, lines, Used, Loaded, Firsts, RowRead
<1>3. TemplateInv'
  <2>1. url' = url /\ Cut' = Cut
    BY <1>1 DEF url, Cut
  <2>2. Closed' <=> Closed
    BY <2>1 DEF Closed, Pair, Plain
  <2>3. /\ Tiled(uri_parts, Cut)' <=> Tiled(uri_parts, Cut)
        /\ Tiled(uri_parts, Len(url) + 1)' <=> Tiled(uri_parts, Len(url) + 1)
    BY <1>1, <2>1 DEF Tiled, WellCut, Pair, Plain
  <2>4. /\ AllFound(i - 1)' <=> AllFound(i - 1)
        /\ AllFound(Len(url))' <=> AllFound(Len(url))
    BY <1>1, <2>1 DEF AllFound, Pair, Plain
  <2>5. TemplateRead' <=> TemplateRead
    BY <1>1, <2>1, <2>3, <2>4 DEF TemplateRead, Pair, Plain
  <2>6. (\A k \in DOMAIN uri_parts : Inside(uri_parts[k]))' <=> \A k \in DOMAIN uri_parts : Inside(uri_parts[k])
    BY <1>1, <2>1 DEF Inside
  <2> QED
    BY <1>1, <2>1, <2>2, <2>3, <2>4, <2>5, <2>6, Zenon DEF FormatsInv, TemplateInv
<1>4. OperatorsInv'
  <2>1. members' = members
    BY <1>1 DEF members
  <2>2. GoodMap' <=> GoodMap
    BY <1>1, <2>1 DEF GoodMap, Named
  <2>3. OperatorsRead(i - 1)' <=> OperatorsRead(i - 1)
    BY <1>1, <2>1 DEF OperatorsRead, to_unsigned, valueint
  <2> QED
    BY <1>1, <2>1, <2>2, <2>3 DEF FormatsInv, OperatorsInv, Kind
<1>5. RequestInv'
  BY <1>1 DEF FormatsInv, RequestInv, Kind, Request
<1> QED
  BY <1>2, <1>3, <1>4, <1>5 DEF FormatsInv

\* loadCsvFile(), the template processor and OperatorsMap_t::parse() read every
\* file, template and map as it is written, whatever their length: a number is
\* answered from its first row, the parts of a template put together are the
\* template and every placeholder gets its value, and an operator's tag is that
\* of its first member.
THEOREM FormatsAreFaithful == FormatsSpec => []FormatsFaithful
<1>1. FormatsInit => FormatsInv
  BY FormatsStart
<1>2. FormatsInv /\ [FormatsNext]_<<input, loop>> => FormatsInv'
  BY FormatsStep, FormatsStutter
<1>3. FormatsInv => FormatsFaithful
  BY CsvDone, TemplateDone, UrlDone, OperatorsDone DEF FormatsInv, FormatsFaithful
<1> QED
  BY <1>1, <1>2, <1>3, PTL DEF FormatsSpec
=============================================================================
