--------------------------- MODULE SignalsProofs ---------------------------
(***************************************************************************)
(* The locks of the program are taken in one order (Rank), on every thread *)
(* and in every handler that interrupts a thread at rest.  From that order *)
(* follows that no threads wait for each other in a circle.                *)
(***************************************************************************)
EXTENDS Signals, SequenceTheorems, FiniteSetTheorems, TLAPS

(***************************************************************************)
(* The order.                                                              *)
(***************************************************************************)
\* Besides its locks a thread holds what it must do once: swap a map in, start
\* the writer.
Token == Lock \cup {"map", "unborn"}

\* Locks are taken in ascending order.
Rank(x) ==
  IF x \in {"map", "unborn"} THEN 0
  ELSE IF x \in {"resolver_inst_m", "mDriversMutex", "m_td", "sMutex"} THEN 1
  ELSE IF x \in {"transport_inst_m", "cache_inst_m", "exporter_inst_m", "exporter_m"} THEN 2
  ELSE IF x \in {"dispatcher_inst_m", "family_m", "q_m"} THEN 3
  ELSE 4

Verb == {"lock", "unlock", "load", "swap", "start", "make_terminator", "epoll_wait", "wait_q_run",
         "set_stopped", "ended", "stop", "gotostop", "wait_stopped", "fire"}
Op == Verb \X (Lock \cup {""})
Frame == [sig : Signal \cup {"none"}, ops : Seq(Op)]

\* A thread that holds H and keeps to the order may do op, and then holds E.
Effect(H, op, E) ==
  \/ /\ op[1] = "lock" /\ op[2] \in Lock /\ op[2] \notin H
     /\ \A m \in H : Rank(m) < Rank(op[2])
     /\ E = H \cup {op[2]}
  \/ op[1] = "unlock" /\ op[2] \in Lock /\ op[2] \in H /\ E = H \ {op[2]}
  \/ op[1] = "load" /\ "map" \in H /\ H \subseteq {"map", "unborn"} /\ E = H \ {"map"}
  \/ op[1] = "swap" /\ "map" \in H /\ E = H \ {"map"}
  \/ op[1] = "start" /\ "unborn" \in H /\ E = H \ {"unborn"}
  \/ op[1] = "make_terminator" /\ "map" \notin H /\ E = H
  \/ op[1] = "stop" /\ H = {"m_td"} /\ E = {}
  \/ op[1] \in {"epoll_wait", "wait_q_run"} /\ H = {} /\ E = {}
  \/ op[1] \in {"set_stopped", "ended", "gotostop", "wait_stopped", "fire"} /\ E = H

\* h is what a thread holds before each of the operations ops and at the end.
Holds(h, ops) ==
  /\ h \in [1 .. Len(ops) + 1 -> SUBSET Token]
  /\ \A k \in 1 .. Len(ops) : Effect(h[k], ops[k], h[k + 1])

\* ops keep to the order for a thread that holds H, which holds E afterwards.
Ordered(H, ops, E) ==
  /\ ops \in Seq(Op)
  /\ \E h : Holds(h, ops) /\ h[1] = H /\ h[Len(ops) + 1] = E

-----------------------------------------------------------------------------
(***************************************************************************)
(* Pieces of code that keep to the order.                                  *)
(***************************************************************************)
\* Nothing is done.
LEMMA OrderedNone ==
  ASSUME NEW H \in SUBSET Token
  PROVE  Ordered(H, <<>>, H)
<1>1. <<>> \in Seq(Op) /\ Len(<<>>) = 0
  OBVIOUS
<1>2. PICK h : h = [k \in 1 .. 1 |-> H]
  OBVIOUS
<1>3. Holds(h, <<>>) /\ h[1] = H
  BY <1>1, <1>2 DEF Holds
<1> QED
  BY <1>1, <1>3 DEF Ordered

\* Nothing to do, nothing gained.
LEMMA NoneLeft ==
  ASSUME NEW H, NEW E, Ordered(H, <<>>, E)
  PROVE  H = E
<1>1. Len(<<>>) + 1 = 1
  OBVIOUS
<1> QED
  BY <1>1 DEF Ordered

\* One operation.
LEMMA OrderedOne ==
  ASSUME NEW H \in SUBSET Token, NEW E \in SUBSET Token, NEW op \in Op, Effect(H, op, E)
  PROVE  Ordered(H, <<op>>, E)
<1>1. <<op>> \in Seq(Op) /\ Len(<<op>>) = 1 /\ <<op>>[1] = op
  OBVIOUS
<1>2. PICK h : h = [k \in 1 .. 2 |-> IF k = 1 THEN H ELSE E]
  OBVIOUS
<1>3. h \in [1 .. 2 -> SUBSET Token] /\ h[1] = H /\ h[2] = E
  BY <1>2
<1>4. \A k \in 1 .. 1 : Effect(h[k], <<op>>[k], h[k + 1])
  <2> SUFFICES ASSUME NEW k \in 1 .. 1 PROVE Effect(h[k], <<op>>[k], h[k + 1])
    OBVIOUS
  <2>1. k = 1 /\ k + 1 = 2
    OBVIOUS
  <2> QED
    BY <1>1, <1>3, <2>1, Zenon
<1>5. Holds(h, <<op>>)
  BY <1>1, <1>3, <1>4 DEF Holds
<1>6. h[Len(<<op>>) + 1] = E
  BY <1>1, <1>3
<1> QED
  BY <1>1, <1>3, <1>5, <1>6, Zenon DEF Ordered

\* One piece after another.
LEMMA OrderedConcat ==
  ASSUME NEW H, NEW M, NEW E, NEW a, NEW b,
         Ordered(H, a, M), Ordered(M, b, E)
  PROVE  Ordered(H, a \o b, E)
<1>1. a \in Seq(Op) /\ b \in Seq(Op)
  BY DEF Ordered
<1>2. PICK f : Holds(f, a) /\ f[1] = H /\ f[Len(a) + 1] = M
  BY DEF Ordered
<1>3. PICK g : Holds(g, b) /\ g[1] = M /\ g[Len(b) + 1] = E
  BY DEF Ordered
<1>4. /\ a \o b \in Seq(Op) /\ Len(a \o b) = Len(a) + Len(b)
      /\ Len(a) \in Nat /\ Len(b) \in Nat
      /\ \A k \in 1 .. Len(a) : (a \o b)[k] = a[k]
      /\ \A k \in Len(a) + 1 .. Len(a) + Len(b) : (a \o b)[k] = b[k - Len(a)]
  BY <1>1
<1>5. PICK h : h = [k \in 1 .. Len(a) + Len(b) + 1 |-> IF k <= Len(a) THEN f[k] ELSE g[k - Len(a)]]
  OBVIOUS
<1>6. \A k \in 1 .. Len(a) + Len(b) + 1 : k <= Len(a) => h[k] = f[k]
  BY <1>5
<1>7. \A k \in 1 .. Len(a) + Len(b) + 1 : k > Len(a) => h[k] = g[k - Len(a)]
  BY <1>4, <1>5
<1>8. /\ \A k \in 1 .. Len(a) : Effect(f[k], a[k], f[k + 1])
      /\ \A k \in 1 .. Len(b) : Effect(g[k], b[k], g[k + 1])
      /\ f \in [1 .. Len(a) + 1 -> SUBSET Token] /\ g \in [1 .. Len(b) + 1 -> SUBSET Token]
  BY <1>2, <1>3 DEF Holds
<1>9. h \in [1 .. Len(a \o b) + 1 -> SUBSET Token]
  <2> SUFFICES ASSUME NEW k \in 1 .. Len(a) + Len(b) + 1 PROVE h[k] \in SUBSET Token
    BY <1>4, <1>5
  <2>1. CASE k <= Len(a)
    <3>1. k \in 1 .. Len(a) + 1 /\ h[k] = f[k]
      BY <1>4, <1>6, <2>1
    <3> QED
      BY <1>8, <3>1, Zenon
  <2>2. CASE k > Len(a)
    <3>1. k - Len(a) \in 1 .. Len(b) + 1 /\ h[k] = g[k - Len(a)]
      BY <1>4, <1>7, <2>2
    <3> QED
      BY <1>8, <3>1, Zenon
  <2> QED
    BY <1>4, <2>1, <2>2
<1>10. \A k \in 1 .. Len(a \o b) : Effect(h[k], (a \o b)[k], h[k + 1])
  <2> SUFFICES ASSUME NEW k \in 1 .. Len(a) + Len(b) PROVE Effect(h[k], (a \o b)[k], h[k + 1])
    BY <1>4
  <2>1. CASE k \in 1 .. Len(a)
    <3>1. h[k] = f[k] /\ (a \o b)[k] = a[k]
      BY <1>4, <1>6, <2>1
    <3>2. h[k + 1] = f[k + 1]
      <4>1. CASE k < Len(a)
        BY <1>4, <1>6, <4>1
      <4>2. CASE k = Len(a)
        BY <1>2, <1>3, <1>4, <1>7, <4>2
      <4> QED
        BY <1>4, <2>1, <4>1, <4>2
    <3> QED
      BY <1>8, <2>1, <3>1, <3>2, Zenon
  <2>2. CASE k > Len(a)
    <3>1. k - Len(a) \in 1 .. Len(b) /\ (k - Len(a)) + 1 = (k + 1) - Len(a)
      BY <1>4, <2>2
    <3>2. h[k] = g[k - Len(a)] /\ h[k + 1] = g[(k - Len(a)) + 1]
      BY <1>4, <1>7, <2>2
    <3>3. (a \o b)[k] = b[k - Len(a)]
      <4>1. k \in Len(a) + 1 .. Len(a) + Len(b)
        BY <1>4, <2>2
      <4> QED
        BY <1>4, <4>1, Zenon
    <3> QED
      BY <1>8, <3>1, <3>2, <3>3, Zenon
  <2> QED
    BY <1>4, <2>1, <2>2
<1>11. h[1] = H
  <2>1. CASE Len(a) = 0
    BY <1>2, <1>3, <1>4, <1>7, <2>1
  <2>2. CASE Len(a) > 0
    BY <1>2, <1>4, <1>6, <2>2
  <2> QED
    BY <1>4, <2>1, <2>2
<1>12. h[Len(a \o b) + 1] = E
  BY <1>3, <1>4, <1>7
<1>13. Holds(h, a \o b)
  BY <1>9, <1>10 DEF Holds
<1> QED
  BY <1>4, <1>11, <1>12, <1>13, Zenon DEF Ordered

\* The first operation, and the rest.
LEMMA OrderedFirst ==
  ASSUME NEW H, NEW E, NEW ops, Ordered(H, ops, E), ops # <<>>
  PROVE  /\ Head(ops) \in Op /\ Tail(ops) \in Seq(Op) /\ H \subseteq Token
         /\ \E M : M \subseteq Token /\ Effect(H, Head(ops), M) /\ Ordered(M, Tail(ops), E)
<1>1. ops \in Seq(Op)
  BY DEF Ordered
<1>2. PICK h : Holds(h, ops) /\ h[1] = H /\ h[Len(ops) + 1] = E
  BY DEF Ordered
<1>3. /\ Len(ops) \in Nat /\ Len(ops) > 0 /\ Head(ops) = ops[1] /\ ops[1] \in Op
      /\ Tail(ops) \in Seq(Op) /\ Len(Tail(ops)) = Len(ops) - 1
      /\ \A k \in 1 .. Len(ops) - 1 : Tail(ops)[k] = ops[k + 1]
  BY <1>1
<1>4. /\ h \in [1 .. Len(ops) + 1 -> SUBSET Token]
      /\ \A k \in 1 .. Len(ops) : Effect(h[k], ops[k], h[k + 1])
  BY <1>2 DEF Holds
<1>5. 1 \in 1 .. Len(ops) /\ 1 + 1 = 2 /\ 2 \in 1 .. Len(ops) + 1 /\ 1 \in 1 .. Len(ops) + 1
  BY <1>3
<1>6. Effect(H, Head(ops), h[2])
  BY <1>2, <1>3, <1>4, <1>5, Zenon
<1>7. PICK g : g = [k \in 1 .. Len(ops) |-> h[k + 1]]
  OBVIOUS
<1>8. g \in [1 .. Len(Tail(ops)) + 1 -> SUBSET Token]
  BY <1>3, <1>4, <1>7
<1>9. \A k \in 1 .. Len(Tail(ops)) : Effect(g[k], Tail(ops)[k], g[k + 1])
  <2> SUFFICES ASSUME NEW k \in 1 .. Len(ops) - 1 PROVE Effect(g[k], Tail(ops)[k], g[k + 1])
    BY <1>3
  <2>1. k + 1 \in 1 .. Len(ops) /\ g[k] = h[k + 1] /\ g[k + 1] = h[(k + 1) + 1]
    BY <1>3, <1>7
  <2>2. Tail(ops)[k] = ops[k + 1]
    BY <1>3
  <2> QED
    BY <1>4, <2>1, <2>2, Zenon
<1>10. Holds(g, Tail(ops))
  BY <1>8, <1>9 DEF Holds
<1>11. g[1] = h[2] /\ g[Len(Tail(ops)) + 1] = E
  BY <1>2, <1>3, <1>7
<1>12. Ordered(h[2], Tail(ops), E)
  BY <1>3, <1>10, <1>11, Zenon DEF Ordered
<1>13. H \subseteq Token /\ h[2] \subseteq Token
  BY <1>2, <1>4, <1>5
<1> QED
  BY <1>3, <1>6, <1>12, <1>13, Zenon

-----------------------------------------------------------------------------
(***************************************************************************)
(* The functions of the program keep to the order.                         *)
(***************************************************************************)
\* Ranks are five numbers.
LEMMA RankRange == \A x : Rank(x) \in 0 .. 4
BY DEF Rank

\* H is held and l may be taken.
MayTake(H, l) ==
  H \in SUBSET Token /\ l \in Lock /\ l \notin H /\ \A m \in H : Rank(m) < Rank(l)

\* A section under a lock.
LEMMA OrderedLocked ==
  ASSUME NEW H, NEW E \in SUBSET Token, NEW l, NEW ops,
         MayTake(H, l), l \notin E, Ordered(H \cup {l}, ops, E \cup {l})
  PROVE  Ordered(H, locked(l, ops), E)
<1>1. /\ <<"lock", l>> \in Op /\ <<"unlock", l>> \in Op
      /\ H \cup {l} \in SUBSET Token /\ E \cup {l} \in SUBSET Token
  BY DEF Op, Verb, Token, MayTake
<1>2. Effect(H, <<"lock", l>>, H \cup {l})
  BY DEF Effect, MayTake
<1>3. (E \cup {l}) \ {l} = E /\ l \in E \cup {l}
  OBVIOUS
<1>4. Effect(E \cup {l}, <<"unlock", l>>, E)
  BY <1>3 DEF Effect, MayTake
<1>5. Ordered(H, <<<<"lock", l>>>>, H \cup {l})
  <2>1. H \in SUBSET Token
    BY DEF MayTake
  <2> QED
    BY <1>1, <1>2, <2>1, OrderedOne, Zenon
<1>6. Ordered(E \cup {l}, <<<<"unlock", l>>>>, E)
  BY <1>1, <1>4, OrderedOne, Zenon
<1>7. Ordered(H, <<<<"lock", l>>>> \o ops, E \cup {l})
  BY <1>5, OrderedConcat, Zenon
<1> QED
  BY <1>6, <1>7, OrderedConcat, Zenon DEF locked

\* singleton<T>::instance
LEMMA OrderedInstance ==
  ASSUME NEW H, NEW l, MayTake(H, l)
  PROVE  Ordered(H, instance(l), H)
<1>1. H \in SUBSET Token /\ H \cup {l} \in SUBSET Token /\ l \notin H
  BY DEF MayTake, Token
<1>2. Ordered(H \cup {l}, <<>>, H \cup {l})
  BY <1>1, OrderedNone, Zenon
<1> QED
  BY <1>1, <1>2, OrderedLocked, Zenon DEF instance

\* An operation without a lock.
LEMMA OrderedDo ==
  ASSUME NEW H \in SUBSET Token, NEW E \in SUBSET Token, NEW what \in Verb,
         Effect(H, <<what, "">>, E)
  PROVE  Ordered(H, do(what), E)
<1>1. <<what, "">> \in Op
  BY DEF Op
<1> QED
  BY <1>1, OrderedOne, Zenon DEF do

\* The metrics of a driver, counted under the map's mutex or while it is loaded.
LEMMA OrderedMetrics ==
  ASSUME NEW H \in SUBSET {"map", "unborn", "mDriversMutex"}
  PROVE  Ordered(H, metrics, H)
<1>1. /\ MayTake(H, "exporter_inst_m") /\ MayTake(H, "exporter_m")
      /\ MayTake(H \cup {"exporter_m"}, "family_m")
  BY DEF MayTake, Rank, Token, Lock
<1>2. H \in SUBSET Token /\ "exporter_m" \notin H
  BY DEF Token, Lock
<1>3. Ordered(H, instance("exporter_inst_m"), H)
  BY <1>1, OrderedInstance, Zenon
<1>4. Ordered(H \cup {"exporter_m"}, locked("family_m", <<>>), H \cup {"exporter_m"})
  BY <1>1, OrderedInstance, Zenon DEF instance
<1>5. Ordered(H, locked("exporter_m", locked("family_m", <<>>)), H)
  BY <1>1, <1>2, <1>4, OrderedLocked, Zenon
<1> QED
  BY <1>3, <1>5, OrderedConcat, Zenon DEF metrics

\* The SIP client's mutexes, when it is made while the drivers are loaded or not.
LEMMA OrderedGetInstance ==
  ASSUME NEW H \in SUBSET {"map", "unborn"}, NEW sip \in BOOLEAN
  PROVE  Ordered(H, IF sip THEN getInstance ELSE <<>>, H)
<1>1. MayTake(H, "sMutex") /\ MayTake(H \cup {"sMutex"}, "sip_stopped_m")
  BY DEF MayTake, Rank, Token, Lock
<1>2. H \in SUBSET Token /\ "sMutex" \notin H
  BY DEF Token, Lock
<1>3. Ordered(H \cup {"sMutex"}, locked("sip_stopped_m", <<>>), H \cup {"sMutex"})
  BY <1>1, OrderedInstance, Zenon DEF instance
<1>4. Ordered(H, getInstance, H)
  BY <1>1, <1>2, <1>3, OrderedLocked, Zenon DEF getInstance
<1>5. Ordered(H, <<>>, H)
  BY <1>2, OrderedNone, Zenon
<1>6. CASE sip
  BY <1>4, <1>6, Zenon
<1>7. CASE ~sip
  BY <1>5, <1>7, Zenon
<1> QED
  BY <1>6, <1>7

\* CDriver::instantiate
LEMMA OrderedInstantiate ==
  ASSUME NEW H \in SUBSET {"map", "unborn"}, NEW sip \in BOOLEAN
  PROVE  Ordered(H, instantiate(sip), H)
<1>1. H \in SUBSET {"map", "unborn", "mDriversMutex"}
  OBVIOUS
<1>2. PICK get : get = IF sip THEN getInstance ELSE <<>>
  OBVIOUS
<1>3. Ordered(H, get, H)
  BY <1>2, OrderedGetInstance, Zenon
<1>4. Ordered(H, metrics, H)
  BY <1>1, OrderedMetrics, Zenon
<1>5. Ordered(H, get \o metrics, H)
  BY <1>3, <1>4, OrderedConcat, Zenon
<1> QED
  BY <1>2, <1>5, Zenon DEF instantiate

\* What a thread that is to swap a map in holds besides the map.
LEMMA OrderedSwapMap ==
  ASSUME NEW H \in SUBSET {"unborn"}
  PROVE  Ordered(H \cup {"map"}, swap_map, H)
<1>1. MayTake(H \cup {"map"}, "mDriversMutex")
  BY DEF MayTake, Rank, Token, Lock
<1>2. /\ H \in SUBSET Token /\ "mDriversMutex" \notin H /\ "swap" \in Verb
      /\ (H \cup {"map"}) \cup {"mDriversMutex"} \in SUBSET Token
      /\ H \cup {"mDriversMutex"} \in SUBSET Token
  BY DEF Token, Lock, Verb
<1>3. ((H \cup {"map"}) \cup {"mDriversMutex"}) \ {"map"} = H \cup {"mDriversMutex"}
  OBVIOUS
<1>4. Effect((H \cup {"map"}) \cup {"mDriversMutex"}, <<"swap", "">>, H \cup {"mDriversMutex"})
  BY <1>3 DEF Effect
<1>5. Ordered((H \cup {"map"}) \cup {"mDriversMutex"}, do("swap"), H \cup {"mDriversMutex"})
  BY <1>2, <1>4, OrderedDo, Zenon
<1> QED
  BY <1>1, <1>2, <1>5, OrderedLocked, Zenon DEF swap_map

\* A load, whichever way it ends.
LEMMA OrderedConfigure ==
  ASSUME NEW H \in SUBSET {"unborn"}
  PROVE  Ordered(H \cup {"map"}, configure, H)
<1>1. H \in SUBSET Token /\ H \cup {"map"} \in SUBSET Token /\ "load" \in Verb
  BY DEF Token, Verb
<1>2. (H \cup {"map"}) \ {"map"} = H
  OBVIOUS
<1>3. Effect(H \cup {"map"}, <<"load", "">>, H)
  BY <1>2 DEF Effect
<1> QED
  BY <1>1, <1>3, OrderedDo, Zenon DEF configure

\* _cache::sync under the map's mutex.
LEMMA OrderedSync ==
  Ordered({"mDriversMutex"}, sync, {"mDriversMutex"})
<1>1. MayTake({"mDriversMutex"}, "q_m") /\ MayTake({"mDriversMutex"}, "q_run")
  BY DEF MayTake, Rank, Token, Lock
<1>2. Ordered({"mDriversMutex"}, locked("q_m", <<>>), {"mDriversMutex"})
  BY <1>1, OrderedInstance, Zenon DEF instance
<1>3. Ordered({"mDriversMutex"}, locked("q_run", <<>>), {"mDriversMutex"})
  BY <1>1, OrderedInstance, Zenon DEF instance
<1> QED
  BY <1>2, <1>3, OrderedConcat, Zenon DEF sync

\* A reply, under the map's mutex or not.
LEMMA OrderedSend ==
  ASSUME NEW H \in SUBSET {"mDriversMutex"}
  PROVE  Ordered(H, send_data, H)
<1>1. MayTake(H, "transport_inst_m")
  BY DEF MayTake, Rank, Token, Lock
<1> QED
  BY <1>1, OrderedInstance, Zenon DEF send_data

\* What is done for a request or a response under the map's mutex.
LEMMA OrderedLookup ==
  ASSUME NEW o \in Outcome
  PROVE  Ordered({"mDriversMutex"}, lookup(o), {"mDriversMutex"})
<1> DEFINE D == {"mDriversMutex"}
<1>1. /\ MayTake(D, "cache_inst_m") /\ D \in SUBSET Token
      /\ D \in SUBSET {"map", "unborn", "mDriversMutex"} /\ D \in SUBSET {"mDriversMutex"}
  BY DEF MayTake, Rank, Token, Lock
<1>2. Ordered(D, metrics, D) /\ Ordered(D, send_data, D) /\ Ordered(D, <<>>, D)
  BY <1>1, OrderedMetrics, OrderedSend, OrderedNone, Zenon
<1>3. Ordered(D, instance("cache_inst_m"), D)
  BY <1>1, OrderedInstance, Zenon
<1>4. Ordered(D, metrics \o instance("cache_inst_m"), D)
  BY <1>2, <1>3, OrderedConcat, Zenon
<1>5. Ordered(D, metrics \o instance("cache_inst_m") \o sync, D)
  BY <1>4, OrderedSync, OrderedConcat, Zenon
<1>6. Ordered(D, metrics \o instance("cache_inst_m") \o sync \o send_data, D)
  BY <1>2, <1>5, OrderedConcat, Zenon
<1>7. Ordered(D, metrics \o send_data, D)
  BY <1>2, OrderedConcat, Zenon
<1>8. CASE o = "failed"
  <2>1. lookup(o) = metrics
    BY <1>8 DEF lookup
  <2> QED
    BY <1>2, <2>1, Zenon
<1>9. CASE o = "tagged"
  <2>1. lookup(o) = metrics \o instance("cache_inst_m") \o sync \o send_data
    BY <1>9 DEF lookup
  <2> QED
    BY <1>6, <2>1, Zenon
<1>10. CASE o = "cnam"
  <2>1. lookup(o) = metrics \o send_data
    BY <1>10 DEF lookup
  <2> QED
    BY <1>7, <2>1, Zenon
<1>11. CASE o \in {"refused", "waits", "malformed"}
  <2>1. lookup(o) = <<>>
    BY <1>11 DEF lookup
  <2> QED
    BY <1>2, <2>1, Zenon
<1> QED
  BY <1>8, <1>9, <1>10, <1>11 DEF Outcome

\* What the loop does for one event, from epoll_wait to epoll_wait.
LEMMA OrderedWork ==
  ASSUME NEW work \in Work
  PROVE  Ordered({}, work \o do("epoll_wait"), {})
<1> DEFINE D == {"mDriversMutex"}
<1>1. /\ MayTake({}, "mDriversMutex") /\ {} \in SUBSET Token /\ D \in SUBSET Token
      /\ D \in SUBSET {"map", "unborn", "mDriversMutex"} /\ {} \in SUBSET {"mDriversMutex"}
      /\ "epoll_wait" \in Verb /\ {} \cup {"mDriversMutex"} = D /\ "mDriversMutex" \notin {}
  BY DEF MayTake, Rank, Token, Lock, Verb
<1>2. Ordered({}, send_data, {}) /\ Ordered({}, <<>>, {}) /\ Ordered(D, <<>>, D) /\ Ordered(D, metrics, D)
  BY <1>1, OrderedMetrics, OrderedSend, OrderedNone, Zenon
<1>3. ASSUME NEW o \in Outcome
      PROVE  Ordered({}, error_reply(o), {})
  <2>1. CASE o \in {"refused", "failed"}
    BY <1>2, <2>1, Zenon DEF error_reply
  <2>2. CASE o \notin {"refused", "failed"}
    BY <1>2, <2>2, Zenon DEF error_reply
  <2> QED
    BY <2>1, <2>2
<1>4. ASSUME NEW o \in Outcome
      PROVE  Ordered({}, on_data_received(o), {})
  <2>1. PICK counted : counted = IF o = "refused" THEN <<>> ELSE metrics
    OBVIOUS
  <2>2. Ordered(D, counted, D)
    <3>1. CASE o = "refused"
      BY <1>2, <2>1, <3>1, Zenon
    <3>2. CASE o # "refused"
      BY <1>2, <2>1, <3>2, Zenon
    <3> QED
      BY <3>1, <3>2
  <2>3. Ordered(D, counted \o lookup(o), D)
    BY <2>2, OrderedLookup, OrderedConcat, Zenon
  <2>4. Ordered({}, locked("mDriversMutex", counted \o lookup(o)), {})
    BY <1>1, <2>3, OrderedLocked, Zenon
  <2>5. Ordered({}, send_data \o locked("mDriversMutex", counted \o lookup(o)), {})
    BY <1>2, <2>4, OrderedConcat, Zenon
  <2>6. Ordered({}, send_data \o locked("mDriversMutex", counted \o lookup(o)) \o error_reply(o), {})
    BY <1>3, <2>5, OrderedConcat, Zenon
  <2>7. CASE o = "malformed"
    BY <1>2, <2>7, Zenon DEF on_data_received
  <2>8. CASE o # "malformed"
    BY <2>1, <2>6, <2>8, Zenon DEF on_data_received
  <2> QED
    BY <2>7, <2>8
<1>5. ASSUME NEW o \in Outcome
      PROVE  Ordered({}, on_http_response_received(o), {})
  <2>1. Ordered({}, locked("mDriversMutex", lookup(o)), {})
    BY <1>1, OrderedLookup, OrderedLocked, Zenon
  <2> QED
    BY <1>3, <2>1, OrderedConcat, Zenon DEF on_http_response_received
<1>6. Ordered({}, work, {})
  <2>1. CASE \E o \in Outcome : work = on_data_received(o)
    BY <1>4, <2>1, Zenon
  <2>2. CASE \E o \in {"refused", "failed", "tagged", "cnam"} : work = on_http_response_received(o)
    <3>1. {"refused", "failed", "tagged", "cnam"} \subseteq Outcome
      BY DEF Outcome
    <3> QED
      BY <1>5, <2>2, <3>1, Zenon
  <2> QED
    BY <2>1, <2>2, Zenon DEF Work
<1>7. Effect({}, <<"epoll_wait", "">>, {})
  BY DEF Effect
<1>8. Ordered({}, do("epoll_wait"), {})
  BY <1>1, <1>7, OrderedDo, Zenon
<1> QED
  BY <1>6, <1>8, OrderedConcat, Zenon

\* main() up to the loop.
LEMMA OrderedMain == Ordered({"unborn"} \cup {"map"}, main_start, {})
<1> DEFINE A == {"unborn"} \cup {"map"}
           B == {"unborn"}
           N == {}
<1>1. /\ MayTake(A, "exporter_inst_m")
      /\ MayTake(A, "resolver_inst_m") /\ MayTake(A \cup {"resolver_inst_m"}, "dispatcher_inst_m")
      /\ MayTake(B, "transport_inst_m") /\ MayTake(B \cup {"transport_inst_m"}, "dispatcher_inst_m")
      /\ MayTake(B, "resolver_inst_m") /\ MayTake(B, "cache_inst_m") /\ MayTake(B, "_stopped_m")
      /\ MayTake(N, "dispatcher_inst_m")
  BY DEF MayTake, Rank, Token, Lock
<1>2. /\ A \in SUBSET Token /\ B \in SUBSET Token /\ N \in SUBSET Token
      /\ B \in SUBSET {"unborn"} /\ "resolver_inst_m" \notin A /\ "transport_inst_m" \notin B
      /\ "start" \in Verb /\ "make_terminator" \in Verb /\ "epoll_wait" \in Verb
  BY DEF Token, Lock, Verb
<1>3. Ordered(A, locked("resolver_inst_m", instance("dispatcher_inst_m")), A)
  <2>1. Ordered(A \cup {"resolver_inst_m"}, instance("dispatcher_inst_m"), A \cup {"resolver_inst_m"})
    BY <1>1, OrderedInstance, Zenon
  <2> QED
    BY <1>1, <1>2, <2>1, OrderedLocked, Zenon
<1>4. Ordered(B, locked("transport_inst_m", instance("dispatcher_inst_m")), B)
  <2>1. Ordered(B \cup {"transport_inst_m"}, instance("dispatcher_inst_m"), B \cup {"transport_inst_m"})
    BY <1>1, OrderedInstance, Zenon
  <2> QED
    BY <1>1, <1>2, <2>1, OrderedLocked, Zenon
<1>5. Ordered(A, configure, B)
  BY <1>2, OrderedConfigure, Zenon
<1>6. /\ Ordered(A, instance("exporter_inst_m"), A)
      /\ Ordered(B, instance("resolver_inst_m"), B)
      /\ Ordered(B, instance("cache_inst_m"), B)
      /\ Ordered(N, instance("dispatcher_inst_m"), N)
  BY <1>1, OrderedInstance, Zenon
<1>7. Ordered(B, locked("_stopped_m", <<>>), B)
  BY <1>1, OrderedInstance, Zenon DEF instance
<1>8. /\ Effect(B, <<"start", "">>, N) /\ Effect(N, <<"make_terminator", "">>, N)
      /\ Effect(N, <<"epoll_wait", "">>, N)
  BY DEF Effect
<1>9. /\ Ordered(B, do("start"), N) /\ Ordered(N, do("make_terminator"), N)
      /\ Ordered(N, do("epoll_wait"), N)
  BY <1>2, <1>8, OrderedDo, Zenon
<1> DEFINE p1 == instance("exporter_inst_m") \o locked("resolver_inst_m", instance("dispatcher_inst_m"))
           p2 == p1 \o configure
           p3 == p2 \o locked("transport_inst_m", instance("dispatcher_inst_m"))
           p4 == p3 \o instance("resolver_inst_m")
           p5 == p4 \o instance("cache_inst_m")
           p6 == p5 \o locked("_stopped_m", <<>>)
           p7 == p6 \o do("start")
           p8 == p7 \o instance("dispatcher_inst_m")
           p9 == p8 \o do("make_terminator")
<1>10. Ordered(A, p1, A)
  BY <1>3, <1>6, OrderedConcat, Zenon
<1>11. Ordered(A, p2, B)
  <2> HIDE DEF p1
  <2> QED BY <1>5, <1>10, OrderedConcat, Zenon
<1>12. Ordered(A, p3, B)
  <2> HIDE DEF p2
  <2> QED BY <1>4, <1>11, OrderedConcat, Zenon
<1>13. Ordered(A, p4, B)
  <2> HIDE DEF p3
  <2> QED BY <1>6, <1>12, OrderedConcat, Zenon
<1>14. Ordered(A, p5, B)
  <2> HIDE DEF p4
  <2> QED BY <1>6, <1>13, OrderedConcat, Zenon
<1>15. Ordered(A, p6, B)
  <2> HIDE DEF p5
  <2> QED BY <1>7, <1>14, OrderedConcat, Zenon
<1>16. Ordered(A, p7, N)
  <2> HIDE DEF p6
  <2> QED BY <1>9, <1>15, OrderedConcat, Zenon
<1>17. Ordered(A, p8, N)
  <2> HIDE DEF p7
  <2> QED BY <1>6, <1>16, OrderedConcat, Zenon
<1>18. Ordered(A, p9, N)
  <2> HIDE DEF p8
  <2> QED BY <1>9, <1>17, OrderedConcat, Zenon
<1>19. Ordered(A, p9 \o do("epoll_wait"), N)
  <2> HIDE DEF p9
  <2> QED BY <1>9, <1>18, OrderedConcat, Zenon
<1> QED
  BY <1>19, Zenon DEF main_start

\* _cache::on_stop with _m_td held.
LEMMA OrderedOnStop == Ordered({"m_td"}, on_stop, {"m_td"})
<1> DEFINE H == {"m_td"}
<1>1. /\ MayTake(H, "q_run") /\ MayTake(H, "stopped_m") /\ H \in SUBSET Token
      /\ "gotostop" \in Verb /\ "wait_stopped" \in Verb
  BY DEF MayTake, Rank, Token, Lock, Verb
<1>2. Effect(H, <<"gotostop", "">>, H) /\ Effect(H, <<"wait_stopped", "">>, H)
  BY DEF Effect
<1>3. Ordered(H, do("gotostop"), H) /\ Ordered(H, do("wait_stopped"), H)
  BY <1>1, <1>2, OrderedDo, Zenon
<1>4. Ordered(H, locked("q_run", <<>>), H) /\ Ordered(H, locked("stopped_m", <<>>), H)
  BY <1>1, OrderedInstance, Zenon DEF instance
<1>5. Ordered(H, do("gotostop") \o locked("q_run", <<>>), H)
  BY <1>3, <1>4, OrderedConcat, Zenon
<1>6. Ordered(H, do("gotostop") \o locked("q_run", <<>>) \o do("wait_stopped"), H)
  BY <1>3, <1>5, OrderedConcat, Zenon
<1> QED
  BY <1>4, <1>6, OrderedConcat, Zenon DEF on_stop

\* What thread::stop does with the mutex held, and what is left of its caller.
LEMMA OrderedStop ==
  ASSUME NEW E, NEW ops, Ordered({}, ops, E), NEW off \in BOOLEAN
  PROVE  Ordered({"m_td"}, (IF off THEN <<>> ELSE on_stop) \o <<<<"unlock", "m_td">>>> \o ops, E)
<1>1. {"m_td"} \in SUBSET Token /\ {} \in SUBSET Token /\ <<"unlock", "m_td">> \in Op
  BY DEF Token, Lock, Op, Verb
<1>2. Effect({"m_td"}, <<"unlock", "m_td">>, {})
  BY DEF Effect, Lock
<1>3. Ordered({"m_td"}, <<<<"unlock", "m_td">>>>, {})
  BY <1>1, <1>2, OrderedOne, Zenon
<1>4. Ordered({"m_td"}, <<>>, {"m_td"})
  BY <1>1, OrderedNone, Zenon
<1>5. PICK body : body = (IF off THEN <<>> ELSE on_stop)
  OBVIOUS
<1>6. Ordered({"m_td"}, body, {"m_td"})
  <2>1. CASE off
    BY <1>4, <1>5, <2>1, Zenon
  <2>2. CASE ~off
    BY <1>5, <2>2, OrderedOnStop, Zenon
  <2> QED
    BY <2>1, <2>2
<1>7. Ordered({"m_td"}, body \o <<<<"unlock", "m_td">>>>, {})
  BY <1>3, <1>6, OrderedConcat, Zenon
<1>8. Ordered({"m_td"}, (body \o <<<<"unlock", "m_td">>>>) \o ops, E)
  BY <1>7, OrderedConcat, Zenon
<1> QED
  BY <1>5, <1>8, Zenon

\* _cache::run and what thread::_start does behind it.
LEMMA OrderedRun ==
  Ordered({}, run_start, {}) /\ Ordered({}, run_round, {}) /\ Ordered({}, run_end, {})
<1>1. /\ MayTake({}, "m_td") /\ MayTake({}, "q_run") /\ MayTake({}, "q_m") /\ MayTake({"q_m"}, "q_run")
      /\ MayTake({}, "stopped_m") /\ MayTake({}, "_stopped_m")
      /\ {} \in SUBSET Token /\ {"stopped_m"} \in SUBSET Token /\ {"_stopped_m"} \in SUBSET Token
      /\ "wait_q_run" \in Verb /\ "set_stopped" \in Verb /\ "ended" \in Verb
      /\ {} \cup {"q_m"} = {"q_m"} /\ "q_m" \notin {}
      /\ {} \cup {"stopped_m"} = {"stopped_m"} /\ "stopped_m" \notin {}
      /\ {} \cup {"_stopped_m"} = {"_stopped_m"} /\ "_stopped_m" \notin {}
  BY DEF MayTake, Rank, Token, Lock, Verb
<1>2. /\ Effect({}, <<"wait_q_run", "">>, {})
      /\ Effect({"stopped_m"}, <<"set_stopped", "">>, {"stopped_m"})
      /\ Effect({"_stopped_m"}, <<"ended", "">>, {"_stopped_m"})
  BY DEF Effect
<1>3. /\ Ordered({}, do("wait_q_run"), {})
      /\ Ordered({"stopped_m"}, do("set_stopped"), {"stopped_m"})
      /\ Ordered({"_stopped_m"}, do("ended"), {"_stopped_m"})
  BY <1>1, <1>2, OrderedDo, Zenon
<1>4. Ordered({}, locked("m_td", <<>>), {}) /\ Ordered({}, locked("q_run", <<>>), {})
  BY <1>1, OrderedInstance, Zenon DEF instance
<1>5. Ordered({"q_m"}, locked("q_run", <<>>), {"q_m"})
  BY <1>1, OrderedInstance, Zenon DEF instance
<1>6. Ordered({}, locked("q_m", locked("q_run", <<>>)), {})
  BY <1>1, <1>5, OrderedLocked, Zenon
<1>7. /\ Ordered({}, locked("m_td", <<>>) \o locked("q_run", <<>>), {})
      /\ Ordered({}, locked("q_m", locked("q_run", <<>>)) \o locked("q_run", <<>>), {})
  BY <1>4, <1>6, OrderedConcat, Zenon
<1>8. Ordered({}, run_start, {})
  BY <1>3, <1>7, OrderedConcat, Zenon DEF run_start
<1>9. Ordered({}, run_round, {})
  BY <1>3, <1>7, OrderedConcat, Zenon DEF run_round
<1>10. /\ Ordered({}, locked("stopped_m", do("set_stopped")), {})
       /\ Ordered({}, locked("_stopped_m", do("ended")), {})
  BY <1>1, <1>3, OrderedLocked, Zenon
<1>11. Ordered({}, run_end, {})
  BY <1>10, OrderedConcat, Zenon DEF run_end
<1> QED
  BY <1>8, <1>9, <1>11, Zenon

\* What a handler is to do when it begins.
Errand(s) == IF s = "HUP" THEN {"map"} ELSE {}

\* sig_handler keeps to the order, from its errand on.
LEMMA OrderedHandler ==
  ASSUME NEW s \in Signal
  PROVE  Ordered(Errand(s), sig_handler(s), {})
<1>1. CASE s = "HUP"
  <2>1. MayTake({"map"}, "resolver_inst_m") /\ {} \in SUBSET {"unborn"} /\ {} \cup {"map"} = {"map"}
    BY DEF MayTake, Rank, Token, Lock
  <2>2. Ordered({"map"}, instance("resolver_inst_m"), {"map"})
    BY <2>1, OrderedInstance, Zenon
  <2>3. Ordered({"map"}, configure, {})
    BY <2>1, OrderedConfigure, Zenon
  <2>4. Ordered({"map"}, instance("resolver_inst_m") \o configure, {})
    BY <2>2, <2>3, OrderedConcat, Zenon
  <2> QED
    BY <1>1, <2>4, Zenon DEF Errand, sig_handler
<1>2. CASE s # "HUP"
  <2>1. /\ MayTake({}, "cache_inst_m") /\ MayTake({}, "dispatcher_inst_m")
        /\ MayTake({"m_td"}, "_stopped_m")
        /\ {} \in SUBSET Token /\ {"m_td"} \in SUBSET Token
        /\ <<"lock", "m_td">> \in Op /\ "stop" \in Verb /\ "fire" \in Verb
    <3>1. MayTake({}, "cache_inst_m") /\ MayTake({}, "dispatcher_inst_m")
      BY DEF MayTake, Lock
    <3>2. MayTake({"m_td"}, "_stopped_m")
      BY DEF MayTake, Rank, Token, Lock
    <3>3. {} \in SUBSET Token /\ {"m_td"} \in SUBSET Token
      BY DEF Token, Lock
    <3>4. <<"lock", "m_td">> \in Op /\ "stop" \in Verb /\ "fire" \in Verb
      BY DEF Lock, Op, Verb
    <3> QED
      BY <3>1, <3>2, <3>3, <3>4
  <2>2. /\ Effect({}, <<"lock", "m_td">>, {"m_td"}) /\ Effect({"m_td"}, <<"stop", "">>, {})
        /\ Effect({}, <<"fire", "">>, {})
    BY DEF Effect, Lock
  <2>3. Ordered({}, <<<<"lock", "m_td">>>>, {"m_td"})
    BY <2>1, <2>2, OrderedOne, Zenon
  <2>4. Ordered({"m_td"}, do("stop"), {}) /\ Ordered({}, do("fire"), {})
    BY <2>1, <2>2, OrderedDo, Zenon
  <2>5. Ordered({}, instance("cache_inst_m"), {}) /\ Ordered({}, instance("dispatcher_inst_m"), {})
    BY <2>1, OrderedInstance, Zenon
  <2>6. Ordered({}, instance("cache_inst_m") \o <<<<"lock", "m_td">>>>, {"m_td"})
    BY <2>3, <2>5, OrderedConcat, Zenon
  <2>7. Ordered({"m_td"}, locked("_stopped_m", <<>>), {"m_td"})
    BY <2>1, OrderedInstance, Zenon DEF instance
  <2>8. Ordered({}, instance("cache_inst_m") \o <<<<"lock", "m_td">>>>
                      \o locked("_stopped_m", <<>>), {"m_td"})
    BY <2>6, <2>7, OrderedConcat, Zenon
  <2>9. Ordered({}, instance("cache_inst_m") \o <<<<"lock", "m_td">>>>
                      \o locked("_stopped_m", <<>>) \o do("stop"), {})
    BY <2>4, <2>8, OrderedConcat, Zenon
  <2>10. Ordered({}, instance("cache_inst_m") \o <<<<"lock", "m_td">>>>
                      \o locked("_stopped_m", <<>>) \o do("stop")
                      \o instance("dispatcher_inst_m"), {})
    BY <2>5, <2>9, OrderedConcat, Zenon
  <2>11. Ordered({}, instance("cache_inst_m") \o <<<<"lock", "m_td">>>>
                      \o locked("_stopped_m", <<>>) \o do("stop")
                      \o instance("dispatcher_inst_m") \o do("fire"), {})
    BY <2>4, <2>10, OrderedConcat, Zenon
  <2> QED
    BY <1>2, <2>11, Zenon DEF Errand, sig_handler
<1> QED
  BY <1>1, <1>2

-----------------------------------------------------------------------------
(***************************************************************************)
(* The inductive invariant.                                                *)
(***************************************************************************)
\* Reloads that were asked for.
Asked == IF "HUP" \in sent THEN 1 ELSE 0

Flags ==
  /\ owner \in [Lock -> Thread \cup {"none"}]
  /\ gotostop \in BOOLEAN /\ stopped \in BOOLEAN /\ _stopped \in BOOLEAN
  /\ terminator \in BOOLEAN /\ fired \in BOOLEAN
  /\ sent \subseteq Sent
  /\ rows \in 0 .. MaxRows
  /\ reloads \in Nat /\ reloads <= 1 + Asked

Fresh == [sig |-> "none", ops |-> <<>>]

\* A handler interrupts a thread that waits for events, and no handler.
Stacks ==
  /\ stack \in [Thread -> Seq(Frame)]
  /\ \A t \in Thread : Len(stack[t]) \in {1, 2}
  /\ \A t \in Thread : Len(stack[t]) = 2 => Ordered({}, stack[t][1].ops, {})

Owned(held) == \A t \in Thread : \A l \in Lock : l \in held[t] <=> owner[l] = t

\* A map that waits to be swapped in is not counted yet; it is that of the start
\* or that of the one SIGHUP.
Maps(held) ==
  \A t \in Thread : "map" \in held[t] =>
    reloads <= Asked /\ ("HUP" \in sent \/ (t = "main" /\ ~terminator))

\* held is what each thread holds: the locks it owns, and the errands that are
\* its own.  What it is doing keeps to the order from there.
Keeps(held) ==
  /\ held \in [Thread -> SUBSET Token]
  /\ Owned(held)
  /\ Maps(held)
  /\ \A t \in Thread : Ordered(held[t], top(t).ops, {})
  /\ \A t \in Thread : "unborn" \in held[t] => t = "main" /\ stack["writer"] = <<Fresh>>
  /\ \A t, u \in Thread : "map" \in held[t] /\ "map" \in held[u] => t = u

LockInv == Flags /\ Stacks /\ \E held : Keeps(held)

\* The invariant implies what the runs check: a thread that waits for a lock
\* holds only lower ones, so that a circle of threads would climb for ever.
LEMMA NoCircle ==
  ASSUME Stacks, NEW held, Keeps(held)
  PROVE  NoLockCycle
<1> SUFFICES ASSUME NEW S \in SUBSET Thread, S # {},
                    \A t \in S : \E l \in WaitsFor(t) : owner[l] \in S
             PROVE  FALSE
  BY DEF NoLockCycle
<1>1. ASSUME NEW t \in S, NEW l \in WaitsFor(t), NEW m \in Lock, owner[m] = t
      PROVE  Rank(m) < Rank(l)
  <2>1. /\ top(t).ops # <<>> /\ Head(top(t).ops)[1] = "lock" /\ Head(top(t).ops)[2] = l
        /\ Ordered(held[t], top(t).ops, {}) /\ m \in held[t] /\ t \in Thread
    BY <1>1 DEF WaitsFor, at, Keeps, Owned
  <2>2. PICK M : Effect(held[t], Head(top(t).ops), M)
    BY <2>1, OrderedFirst, Zenon
  <2> QED
    BY <2>1, <2>2 DEF Effect
<1>2. ASSUME NEW t \in S, NEW l \in WaitsFor(t), owner[l] \in S
      PROVE  \E u \in S : \E m \in WaitsFor(u) : owner[m] \in S /\ Rank(l) < Rank(m)
  <2>1. PICK m \in WaitsFor(owner[l]) : owner[m] \in S
    BY <1>2
  <2>2. l \in Lock
    BY DEF WaitsFor
  <2>3. Rank(l) < Rank(m)
    BY <1>1, <1>2, <2>1, <2>2
  <2> QED
    BY <1>2, <2>1, <2>3
<1>3. PICK t0 \in S : \E l \in WaitsFor(t0) : owner[l] \in S
  OBVIOUS
<1>4. PICK l0 \in WaitsFor(t0) : owner[l0] \in S
  BY <1>3
<1>5. PICK t1 \in S : \E m \in WaitsFor(t1) : owner[m] \in S /\ Rank(l0) < Rank(m)
  BY <1>2, <1>4, Zenon
<1>6. PICK l1 \in WaitsFor(t1) : owner[l1] \in S /\ Rank(l0) < Rank(l1)
  BY <1>5
<1>7. PICK t2 \in S : \E m \in WaitsFor(t2) : owner[m] \in S /\ Rank(l1) < Rank(m)
  BY <1>2, <1>6, Zenon
<1>8. PICK l2 \in WaitsFor(t2) : owner[l2] \in S /\ Rank(l1) < Rank(l2)
  BY <1>7
<1>9. PICK t3 \in S : \E m \in WaitsFor(t3) : owner[m] \in S /\ Rank(l2) < Rank(m)
  BY <1>2, <1>8, Zenon
<1>10. PICK l3 \in WaitsFor(t3) : owner[l3] \in S /\ Rank(l2) < Rank(l3)
  BY <1>9
<1>11. PICK t4 \in S : \E m \in WaitsFor(t4) : owner[m] \in S /\ Rank(l3) < Rank(m)
  BY <1>2, <1>10, Zenon
<1>12. PICK l4 \in WaitsFor(t4) : owner[l4] \in S /\ Rank(l3) < Rank(l4)
  BY <1>11
<1>13. PICK t5 \in S : \E m \in WaitsFor(t5) : owner[m] \in S /\ Rank(l4) < Rank(m)
  BY <1>2, <1>12, Zenon
<1>14. PICK l5 \in WaitsFor(t5) : Rank(l4) < Rank(l5)
  BY <1>13
<1> QED
  BY <1>6, <1>8, <1>10, <1>12, <1>14, RankRange

\* SIGHUP is counted once.
LEMMA AskedIsCounted ==
  Cardinality(sent \cap {"HUP"}) = Asked
<1>1. CASE "HUP" \in sent
  <2>1. sent \cap {"HUP"} = {"HUP"}
    BY <1>1
  <2>2. Cardinality({"HUP"}) = 1
    BY FS_Singleton
  <2> QED
    BY <1>1, <2>1, <2>2 DEF Asked
<1>2. CASE "HUP" \notin sent
  <2>1. sent \cap {"HUP"} = {}
    BY <1>2
  <2> QED
    BY <1>2, <2>1, FS_EmptySet DEF Asked
<1> QED
  BY <1>1, <1>2

\* The invariant implies what the run checks.
LEMMA InvImpliesSound == LockInv => LocksSound
<1> SUFFICES ASSUME LockInv PROVE LocksSound
  OBVIOUS
<1>1. PICK held : Keeps(held)
  BY DEF LockInv
<1>2. NoLockCycle
  BY <1>1, NoCircle DEF LockInv
<1>3. \A t \in Thread : \A k \in 1 .. Len(stack[t]) : stack[t][k].sig \in Signal \cup {"none"}
  <2> SUFFICES ASSUME NEW t \in Thread, NEW k \in 1 .. Len(stack[t])
               PROVE  stack[t][k].sig \in Signal \cup {"none"}
    OBVIOUS
  <2>1. stack[t] \in Seq(Frame)
    BY DEF LockInv, Stacks
  <2>2. stack[t][k] \in Frame
    BY <2>1, ElementOfSeq, Zenon
  <2> QED
    BY <2>2 DEF Frame
<1>4. Asked \in Nat
  BY DEF Asked
<1>5. reloads \in 0 .. 1 + Cardinality(sent \cap {"HUP"})
  BY <1>4, AskedIsCounted DEF LockInv, Flags
<1> QED
  BY <1>2, <1>3, <1>5 DEF LocksSound, TypeOK, LockInv, Flags

-----------------------------------------------------------------------------
(***************************************************************************)
(* Steps.                                                                  *)
(***************************************************************************)
\* A thread that goes on changes its topmost frame only.
LEMMA GoesOn ==
  ASSUME Stacks, NEW t \in Thread, NEW ops \in Seq(Op), goes_on(t, ops)
  PROVE  /\ Stacks' /\ top(t)'.ops = ops
         /\ \A u \in Thread \ {t} : stack'[u] = stack[u] /\ top(u)' = top(u)
<1>1. PICK n : n = Len(stack[t])
  OBVIOUS
<1>2. stack[t] \in Seq(Frame) /\ n \in {1, 2} /\ n \in 1 .. Len(stack[t]) /\ Len(stack[t]) \in Nat
  <2>1. stack[t] \in Seq(Frame) /\ n \in {1, 2}
    BY <1>1 DEF Stacks
  <2>2. Len(stack[t]) \in Nat
    BY <2>1
  <2>3. n \in 1 .. n
    BY <2>1
  <2>4. n \in 1 .. Len(stack[t])
    BY <1>1, <2>3, Zenon
  <2> QED
    BY <2>1, <2>2, <2>4
<1>3. PICK s : s = [stack[t] EXCEPT ![n] = [stack[t][n] EXCEPT !.ops = ops]]
  OBVIOUS
<1>4. stack[t][n] \in Frame /\ [stack[t][n] EXCEPT !.ops = ops] \in Frame
  <2>1. stack[t][n] \in Frame
    BY <1>2, ElementOfSeq, Zenon
  <2> QED
    BY <2>1 DEF Frame
<1>5. /\ s \in Seq(Frame) /\ Len(s) = n /\ s[n].ops = ops
      /\ \A k \in 1 .. n : k # n => s[k] = stack[t][k]
  <2>1. s \in Seq(Frame) /\ Len(s) = n
    <3>1. s \in Seq(Frame) /\ Len(s) = Len(stack[t])
      BY <1>2, <1>3, <1>4, ExceptSeq
    <3> QED
      BY <1>1, <3>1
  <2>2. s[n] = [stack[t][n] EXCEPT !.ops = ops] /\ \A k \in 1 .. n : k # n => s[k] = stack[t][k]
    BY <1>1, <1>2, <1>3
  <2>3. s[n].ops = ops
    BY <1>4, <2>2 DEF Frame
  <2> QED
    BY <2>1, <2>2, <2>3
<1>6. stack' = [stack EXCEPT ![t] = s]
  BY <1>1, <1>3 DEF goes_on
<1>7. stack' \in [Thread -> Seq(Frame)] /\ stack'[t] = s
  BY <1>5, <1>6 DEF Stacks
<1>8. \A u \in Thread \ {t} : stack'[u] = stack[u]
  BY <1>6 DEF Stacks
<1>9. \A u \in Thread \ {t} : top(u)' = top(u)
  BY <1>8 DEF top
<1>10. top(t)'.ops = ops
  BY <1>5, <1>7 DEF top
<1>11. \A u \in Thread : Len(stack'[u]) \in {1, 2}
  BY <1>2, <1>5, <1>7, <1>8 DEF Stacks
<1>12. ASSUME NEW u \in Thread, Len(stack'[u]) = 2 PROVE Ordered({}, stack'[u][1].ops, {})
  <2>1. Len(stack[u]) = 2 /\ stack'[u][1] = stack[u][1]
    <3>1. CASE u = t
      <4>1. n = 2
        BY <1>5, <1>7, <1>12, <3>1, Zenon
      <4>2. 1 \in 1 .. n /\ 1 # n
        BY <4>1
      <4> QED
        BY <1>1, <1>5, <1>7, <3>1, <4>1, <4>2, Zenon
    <3>2. CASE u # t
      BY <1>8, <1>12, <3>2
    <3> QED
      BY <3>1, <3>2
  <2> QED
    BY <2>1 DEF Stacks
<1>13. Stacks'
  BY <1>7, <1>11, <1>12 DEF Stacks
<1> QED
  BY <1>8, <1>9, <1>10, <1>13

\* A step of t to a point where it holds something else.
LEMMA Advance ==
  ASSUME Stacks, NEW held, Keeps(held), NEW t \in Thread, top(t).ops # <<>> \/ t = "other",
         NEW ops, goes_on(t, ops),
         NEW h \in [Thread -> SUBSET Token], Ordered(h[t], ops, {}),
         h[t] \subseteq held[t] \cup Lock, \A u \in Thread \ {t} : h[u] = held[u],
         Owned(h)', Maps(h)'
  PROVE  Stacks' /\ Keeps(h)'
<1>1. ops \in Seq(Op)
  BY DEF Ordered
<1>2. /\ Stacks' /\ top(t)'.ops = ops
      /\ \A u \in Thread \ {t} : stack'[u] = stack[u] /\ top(u)' = top(u)
  BY <1>1, GoesOn
<1>3. \A u \in Thread : Ordered(h[u], top(u)'.ops, {})
  <2> SUFFICES ASSUME NEW u \in Thread PROVE Ordered(h[u], top(u)'.ops, {})
    OBVIOUS
  <2>1. CASE u = t
    BY <1>2, <2>1, Zenon
  <2>2. CASE u # t
    <3>1. h[u] = held[u] /\ top(u)' = top(u) /\ Ordered(held[u], top(u).ops, {})
      BY <1>2, <2>2 DEF Keeps
    <3> QED
      BY <3>1, Zenon
  <2> QED
    BY <2>1, <2>2
<1>4. "unborn" \notin Lock /\ "map" \notin Lock
  BY DEF Lock
<1>5. ASSUME NEW u \in Thread, "unborn" \in h[u] PROVE u = "main" /\ stack'["writer"] = <<Fresh>>
  <2>1. "unborn" \in held[u]
    BY <1>4, <1>5
  <2>2. u = "main" /\ stack["writer"] = <<Fresh>>
    BY <2>1 DEF Keeps
  <2>3. t # "writer"
    <3>1. top("writer").ops = <<>> /\ "writer" # "other"
      BY <2>2 DEF top, Fresh
    <3> QED
      BY <3>1
  <2> QED
    BY <1>2, <2>2, <2>3 DEF Thread
<1>6. ASSUME NEW u \in Thread, NEW w \in Thread, "map" \in h[u], "map" \in h[w] PROVE u = w
  <2>1. "map" \in held[u] /\ "map" \in held[w]
    BY <1>4, <1>6
  <2> QED
    BY <2>1 DEF Keeps
<1>7. Keeps(h)'
  BY <1>3, <1>5, <1>6, Zenon DEF Keeps
<1> QED
  BY <1>2, <1>7

\* A step of t that leaves what it holds as it is.
LEMMA Continue ==
  ASSUME Stacks, NEW held, Keeps(held), NEW t \in Thread, top(t).ops # <<>> \/ t = "other",
         NEW ops, Ordered(held[t], ops, {}), goes_on(t, ops),
         UNCHANGED <<owner, sent, reloads>>,
         terminator' = terminator \/ (t = "main" /\ "map" \notin held[t])
  PROVE  Stacks' /\ Keeps(held)'
<1>1. Asked' = Asked
  BY DEF Asked
<1>2. Owned(held)'
  BY DEF Keeps, Owned
<1>3. Maps(held)'
  BY <1>1 DEF Keeps, Maps
<1>4. held \in [Thread -> SUBSET Token] /\ held[t] \subseteq held[t] \cup Lock
  BY DEF Keeps
<1> QED
  BY <1>2, <1>3, <1>4, Advance, Zenon

\* The order lets t do what it is about to do.
LEMMA Allowed ==
  ASSUME NEW held, Keeps(held), NEW t \in Thread, NEW what, at(t, what)
  PROVE  /\ top(t).ops # <<>> /\ Head(top(t).ops)[1] = what /\ held[t] \subseteq Token
         /\ \E M : /\ M \subseteq Token /\ Effect(held[t], Head(top(t).ops), M)
                   /\ Ordered(M, rest(t), {})
<1>1. top(t).ops # <<>> /\ Head(top(t).ops)[1] = what /\ Ordered(held[t], top(t).ops, {})
  BY DEF at, Keeps
<1> QED
  BY <1>1, OrderedFirst, Zenon DEF rest

\* mutex::lock
LEMMA LockKeeps ==
  ASSUME Flags, Stacks, NEW held, Keeps(held), NEW t \in Thread, lock(t)
  PROVE  Flags' /\ Stacks' /\ (\E h : Keeps(h)')
<1>1. at(t, "lock")
  BY DEF lock
<1>2. /\ top(t).ops # <<>> /\ Head(top(t).ops)[1] = "lock" /\ held[t] \subseteq Token
      /\ \E M : /\ M \subseteq Token /\ Effect(held[t], Head(top(t).ops), M)
                /\ Ordered(M, rest(t), {})
  BY <1>1, Allowed, Zenon
<1>3. PICK M : M \subseteq Token /\ Effect(held[t], Head(top(t).ops), M) /\ Ordered(M, rest(t), {})
  BY <1>2
<1>4. PICK l : l = Head(top(t).ops)[2]
  OBVIOUS
<1>5. l \in Lock /\ M = held[t] \cup {l}
  BY <1>2, <1>3, <1>4 DEF Effect
<1>6. /\ owner[l] = "none" /\ owner' = [owner EXCEPT ![l] = t] /\ goes_on(t, rest(t))
      /\ UNCHANGED <<condVars, sent, rows, reloads>>
  BY <1>4 DEF lock
<1>7. PICK h : h = [held EXCEPT ![t] = M]
  OBVIOUS
<1>8. h \in [Thread -> SUBSET Token] /\ h[t] = M /\ \A u \in Thread \ {t} : h[u] = held[u]
  BY <1>3, <1>7 DEF Keeps
<1>9. "none" \notin Thread /\ "map" \notin Lock
  BY DEF Thread, Lock
<1>10. owner'[l] = t /\ \A m \in Lock \ {l} : owner'[m] = owner[m]
  BY <1>5, <1>6 DEF Flags
<1>11. Owned(h)'
  <2> SUFFICES ASSUME NEW u \in Thread, NEW m \in Lock PROVE m \in h[u] <=> owner'[m] = u
    BY DEF Owned
  <2>1. m \in held[u] <=> owner[m] = u
    BY DEF Keeps, Owned
  <2> QED
    BY <1>5, <1>6, <1>8, <1>9, <1>10, <2>1
<1>12. Asked' = Asked /\ terminator' = terminator /\ reloads' = reloads /\ sent' = sent
  BY <1>6 DEF Asked, condVars
<1>13. Maps(h)'
  BY <1>5, <1>8, <1>9, <1>12 DEF Keeps, Maps
<1>14. Stacks' /\ Keeps(h)'
  <2>1. M \subseteq held[t] \cup Lock
    BY <1>5
  <2> QED
    BY <1>2, <1>3, <1>6, <1>8, <1>11, <1>13, <2>1, Advance
<1>15. Flags'
  BY <1>5, <1>6, <1>12 DEF Flags, condVars
<1> QED
  BY <1>14, <1>15

\* mutex::unlock
LEMMA UnlockKeeps ==
  ASSUME Flags, Stacks, NEW held, Keeps(held), NEW t \in Thread, unlock(t)
  PROVE  Flags' /\ Stacks' /\ (\E h : Keeps(h)')
<1>1. at(t, "unlock")
  BY DEF unlock
<1>2. /\ top(t).ops # <<>> /\ Head(top(t).ops)[1] = "unlock" /\ held[t] \subseteq Token
      /\ \E M : /\ M \subseteq Token /\ Effect(held[t], Head(top(t).ops), M)
                /\ Ordered(M, rest(t), {})
  BY <1>1, Allowed, Zenon
<1>3. PICK M : M \subseteq Token /\ Effect(held[t], Head(top(t).ops), M) /\ Ordered(M, rest(t), {})
  BY <1>2
<1>4. PICK l : l = Head(top(t).ops)[2]
  OBVIOUS
<1>5. l \in Lock /\ l \in held[t] /\ M = held[t] \ {l}
  BY <1>2, <1>3, <1>4 DEF Effect
<1>6. /\ owner' = [owner EXCEPT ![l] = "none"] /\ goes_on(t, rest(t))
      /\ UNCHANGED <<condVars, sent, rows, reloads>>
  BY <1>4 DEF unlock
<1>7. PICK h : h = [held EXCEPT ![t] = M]
  OBVIOUS
<1>8. h \in [Thread -> SUBSET Token] /\ h[t] = M /\ \A u \in Thread \ {t} : h[u] = held[u]
  BY <1>3, <1>7 DEF Keeps
<1>9. "none" \notin Thread /\ "map" \notin Lock /\ owner[l] = t
  BY <1>5 DEF Thread, Lock, Keeps, Owned
<1>10. owner'[l] = "none" /\ \A m \in Lock \ {l} : owner'[m] = owner[m]
  BY <1>5, <1>6 DEF Flags
<1>11. Owned(h)'
  <2> SUFFICES ASSUME NEW u \in Thread, NEW m \in Lock PROVE m \in h[u] <=> owner'[m] = u
    BY DEF Owned
  <2>1. m \in held[u] <=> owner[m] = u
    BY DEF Keeps, Owned
  <2> QED
    BY <1>5, <1>6, <1>8, <1>9, <1>10, <2>1
<1>12. Asked' = Asked /\ terminator' = terminator /\ reloads' = reloads /\ sent' = sent
  BY <1>6 DEF Asked, condVars
<1>13. Maps(h)'
  BY <1>5, <1>8, <1>12 DEF Keeps, Maps
<1>14. Stacks' /\ Keeps(h)'
  <2>1. M \subseteq held[t] \cup Lock
    BY <1>5
  <2> QED
    BY <1>2, <1>3, <1>6, <1>8, <1>11, <1>13, <2>1, Advance
<1>15. Flags'
  BY <1>5, <1>6, <1>12 DEF Flags, condVars
<1> QED
  BY <1>14, <1>15

\* The map is swapped in.
LEMMA SwapKeeps ==
  ASSUME Flags, Stacks, NEW held, Keeps(held), NEW t \in Thread, swap(t)
  PROVE  Flags' /\ Stacks' /\ (\E h : Keeps(h)')
<1>1. at(t, "swap")
  BY DEF swap
<1>2. /\ top(t).ops # <<>> /\ Head(top(t).ops)[1] = "swap" /\ held[t] \subseteq Token
      /\ \E M : /\ M \subseteq Token /\ Effect(held[t], Head(top(t).ops), M)
                /\ Ordered(M, rest(t), {})
  BY <1>1, Allowed, Zenon
<1>3. PICK M : M \subseteq Token /\ Effect(held[t], Head(top(t).ops), M) /\ Ordered(M, rest(t), {})
  BY <1>2
<1>4. "map" \in held[t] /\ M = held[t] \ {"map"}
  BY <1>2, <1>3 DEF Effect
<1>5. /\ reloads' = reloads + 1 /\ goes_on(t, rest(t)) /\ UNCHANGED <<owner, condVars, sent, rows>>
  BY DEF swap
<1>6. PICK h : h = [held EXCEPT ![t] = M]
  OBVIOUS
<1>7. h \in [Thread -> SUBSET Token] /\ h[t] = M /\ \A u \in Thread \ {t} : h[u] = held[u]
  BY <1>3, <1>6 DEF Keeps
<1>8. Owned(h)'
  <2>1. "map" \notin Lock
    BY DEF Lock
  <2> QED
    BY <1>4, <1>5, <1>7, <2>1 DEF Keeps, Owned
<1>9. \A u \in Thread : "map" \notin h[u]
  BY <1>4, <1>7 DEF Keeps
<1>10. Maps(h)'
  BY <1>9 DEF Maps
<1>11. Stacks' /\ Keeps(h)'
  <2>1. M \subseteq held[t] \cup Lock
    BY <1>4
  <2> QED
    BY <1>2, <1>3, <1>5, <1>7, <1>8, <1>10, <2>1, Advance
<1>12. Flags'
  <2>1. reloads <= Asked /\ Asked' = Asked /\ Asked \in Nat
    BY <1>4, <1>5 DEF Keeps, Maps, Asked
  <2>2. reloads' \in Nat /\ reloads' <= 1 + Asked'
    BY <1>5, <2>1 DEF Flags
  <2> QED
    BY <1>5, <2>2 DEF Flags, condVars
<1> QED
  BY <1>11, <1>12

\* What a thread that loads the drivers holds, and what is left of it.
LEMMA Loads ==
  ASSUME NEW held, Keeps(held), NEW t \in Thread, at(t, "load")
  PROVE  /\ top(t).ops # <<>> /\ "map" \in held[t] /\ held[t] \in SUBSET {"map", "unborn"}
         /\ held[t] \ {"map"} \in SUBSET {"unborn"}
         /\ Ordered(held[t], top(t).ops, {}) /\ Ordered(held[t] \ {"map"}, rest(t), {})
<1>1. /\ top(t).ops # <<>> /\ Head(top(t).ops)[1] = "load"
      /\ \E M : /\ M \subseteq Token /\ Effect(held[t], Head(top(t).ops), M)
                /\ Ordered(M, rest(t), {})
  BY Allowed, Zenon
<1>2. PICK M : M \subseteq Token /\ Effect(held[t], Head(top(t).ops), M) /\ Ordered(M, rest(t), {})
  BY <1>1
<1>3. "map" \in held[t] /\ held[t] \subseteq {"map", "unborn"} /\ M = held[t] \ {"map"}
  BY <1>1, <1>2 DEF Effect
<1>4. Ordered(held[t] \ {"map"}, rest(t), {})
  BY <1>2, <1>3, Zenon
<1>5. Ordered(held[t], top(t).ops, {})
  BY DEF Keeps
<1> QED
  BY <1>1, <1>3, <1>4, <1>5

\* A row is read and its driver made.
LEMMA LoadRowKeeps ==
  ASSUME Flags, Stacks, NEW held, Keeps(held), NEW t \in Thread, load_row(t)
  PROVE  Flags' /\ Stacks' /\ (\E h : Keeps(h)')
<1>1. /\ at(t, "load") /\ rows < MaxRows /\ rows' = rows + 1
      /\ UNCHANGED <<owner, condVars, sent, reloads>>
  BY DEF load_row
<1>2. PICK sip \in BOOLEAN : goes_on(t, instantiate(sip) \o top(t).ops)
  BY DEF load_row
<1>3. /\ top(t).ops # <<>> /\ held[t] \in SUBSET {"map", "unborn"}
      /\ Ordered(held[t], top(t).ops, {})
  BY <1>1, Loads
<1>4. Ordered(held[t], instantiate(sip), held[t])
  BY <1>3, OrderedInstantiate, Zenon
<1>5. Ordered(held[t], instantiate(sip) \o top(t).ops, {})
  BY <1>3, <1>4, OrderedConcat, Zenon
<1>6. terminator' = terminator
  BY <1>1 DEF condVars
<1>7. PICK ops : ops = instantiate(sip) \o top(t).ops
  OBVIOUS
<1>8. Ordered(held[t], ops, {}) /\ goes_on(t, ops)
  BY <1>2, <1>5, <1>7, Zenon
<1>9. Stacks' /\ Keeps(held)'
  BY <1>1, <1>3, <1>6, <1>8, Continue
<1>10. rows' \in 0 .. MaxRows
  BY <1>1, SignalAssumption DEF Flags
<1>11. Flags'
  BY <1>1, <1>10 DEF Flags, Asked, condVars
<1> QED
  BY <1>9, <1>11

\* The table has been read: the map is still to be swapped in.
LEMMA LoadDoneKeeps ==
  ASSUME Flags, Stacks, NEW held, Keeps(held), NEW t \in Thread, load_done(t)
  PROVE  Flags' /\ Stacks' /\ (\E h : Keeps(h)')
<1>1. /\ at(t, "load") /\ rows' = 0 /\ goes_on(t, swap_map \o rest(t))
      /\ UNCHANGED <<owner, condVars, sent, reloads>>
  BY DEF load_done
<1>2. /\ top(t).ops # <<>> /\ "map" \in held[t] /\ held[t] \ {"map"} \in SUBSET {"unborn"}
      /\ Ordered(held[t] \ {"map"}, rest(t), {})
  BY <1>1, Loads
<1>3. PICK K : K = held[t] \ {"map"}
  OBVIOUS
<1>4. K \in SUBSET {"unborn"} /\ K \cup {"map"} = held[t] /\ Ordered(K, rest(t), {})
  <2>1. K \cup {"map"} = held[t]
    BY <1>2, <1>3
  <2> QED
    BY <1>2, <1>3, <2>1, Zenon
<1>5. Ordered(held[t], swap_map, K)
  <2>1. Ordered(K \cup {"map"}, swap_map, K)
    BY <1>4, OrderedSwapMap, Zenon
  <2> QED
    BY <1>4, <2>1, Zenon
<1>6. Ordered(held[t], swap_map \o rest(t), {})
  BY <1>4, <1>5, OrderedConcat, Zenon
<1>7. terminator' = terminator
  BY <1>1 DEF condVars
<1>8. PICK ops : ops = swap_map \o rest(t)
  OBVIOUS
<1>9. Ordered(held[t], ops, {}) /\ goes_on(t, ops)
  BY <1>1, <1>6, <1>8, Zenon
<1>10. Stacks' /\ Keeps(held)'
  BY <1>1, <1>2, <1>7, <1>9, Continue
<1>11. rows' \in 0 .. MaxRows
  BY <1>1, SignalAssumption
<1>12. Flags'
  BY <1>1, <1>11 DEF Flags, Asked, condVars
<1> QED
  BY <1>10, <1>12

\* A load fails: there is no map to be swapped in, and at start-up main() ends
\* without starting the writer.
LEMMA LoadFailsKeeps ==
  ASSUME Flags, Stacks, NEW held, Keeps(held), NEW t \in Thread, load_fails(t)
  PROVE  Flags' /\ Stacks' /\ (\E h : Keeps(h)')
<1>1. at(t, "load") /\ rows' = 0 /\ UNCHANGED <<owner, condVars, sent, reloads>>
  BY DEF load_fails
<1>2. /\ top(t).ops # <<>> /\ "map" \in held[t] /\ held[t] \in SUBSET {"map", "unborn"}
      /\ held[t] \ {"map"} \in SUBSET {"unborn"} /\ Ordered(held[t] \ {"map"}, rest(t), {})
  BY <1>1, Loads
<1>3. PICK sip \in BOOLEAN :
        goes_on(t, (IF sip THEN getInstance ELSE <<>>)
                     \o (IF top(t).sig = "none" THEN <<>> ELSE rest(t)))
  BY DEF load_fails
<1>4. PICK K : K = IF top(t).sig = "none" THEN {} ELSE held[t] \ {"map"}
  OBVIOUS
<1>5. K \in SUBSET {"map", "unborn"} /\ K \subseteq held[t] /\ K \subseteq Token /\ "map" \notin K
  BY <1>2, <1>4 DEF Token
<1>6. PICK left : left = IF top(t).sig = "none" THEN <<>> ELSE rest(t)
  OBVIOUS
<1>7. Ordered(K, left, {})
  <2>1. CASE top(t).sig = "none"
    <3>1. K = {} /\ left = <<>> /\ {} \in SUBSET Token
      BY <1>4, <1>6, <2>1
    <3> QED
      BY <3>1, OrderedNone, Zenon
  <2>2. CASE top(t).sig # "none"
    BY <1>2, <1>4, <1>6, <2>2, Zenon
  <2> QED
    BY <2>1, <2>2
<1>8. PICK get : get = IF sip THEN getInstance ELSE <<>>
  OBVIOUS
<1>9. Ordered(K, get, K)
  BY <1>5, <1>8, OrderedGetInstance, Zenon
<1>10. Ordered(K, get \o left, {})
  BY <1>7, <1>9, OrderedConcat, Zenon
<1>11. goes_on(t, get \o left)
  BY <1>3, <1>6, <1>8, Zenon
<1>12. PICK h : h = [held EXCEPT ![t] = K]
  OBVIOUS
<1>13. h \in [Thread -> SUBSET Token] /\ h[t] = K /\ \A u \in Thread \ {t} : h[u] = held[u]
  BY <1>5, <1>12 DEF Keeps
<1>14. Owned(h)'
  <2>1. "map" \notin Lock /\ "unborn" \notin Lock
    BY DEF Lock
  <2> SUFFICES ASSUME NEW u \in Thread, NEW l \in Lock PROVE l \in h[u] <=> owner'[l] = u
    BY DEF Owned
  <2>2. l \in held[u] <=> owner[l] = u
    BY DEF Keeps, Owned
  <2> QED
    BY <1>1, <1>2, <1>5, <1>13, <2>1, <2>2
<1>15. Maps(h)'
  <2>1. Asked' = Asked /\ terminator' = terminator
    BY <1>1 DEF Asked, condVars
  <2>2. \A u \in Thread : "map" \in h[u] => "map" \in held[u]
    BY <1>5, <1>13
  <2> QED
    BY <1>1, <2>1, <2>2 DEF Keeps, Maps
<1>16. PICK ops : ops = get \o left
  OBVIOUS
<1>17. Ordered(h[t], ops, {}) /\ goes_on(t, ops)
  BY <1>10, <1>11, <1>13, <1>16, Zenon
<1>18. h[t] \subseteq held[t] \cup Lock
  BY <1>5, <1>13
<1>19. Stacks' /\ Keeps(h)'
  BY <1>2, <1>13, <1>14, <1>15, <1>17, <1>18, Advance
<1>20. rows' \in 0 .. MaxRows
  BY <1>1, SignalAssumption
<1>21. Flags'
  BY <1>1, <1>20 DEF Flags, Asked, condVars
<1> QED
  BY <1>19, <1>21

\* The metrics are served.
LEMMA ScrapeKeeps ==
  ASSUME Flags, Stacks, NEW held, Keeps(held), scrape
  PROVE  Flags' /\ Stacks' /\ (\E h : Keeps(h)')
<1>1. /\ top("other").ops = <<>> /\ goes_on("other", locked("family_m", <<>>))
      /\ UNCHANGED <<owner, condVars, sent, rows, reloads>>
  BY DEF scrape
<1>2. "other" \in Thread /\ MayTake({}, "family_m")
  BY DEF Thread, MayTake, Lock
<1>3. held["other"] = {}
  <2>1. Ordered(held["other"], <<>>, {})
    BY <1>1, <1>2 DEF Keeps
  <2> QED
    BY <2>1, NoneLeft, Zenon
<1>4. Ordered({}, locked("family_m", <<>>), {})
  BY <1>2, OrderedInstance, Zenon DEF instance
<1>5. PICK ops : ops = locked("family_m", <<>>)
  OBVIOUS
<1>6. Ordered(held["other"], ops, {}) /\ goes_on("other", ops)
  BY <1>1, <1>3, <1>4, <1>5, Zenon
<1>7. terminator' = terminator
  BY <1>1 DEF condVars
<1>8. Stacks' /\ Keeps(held)'
  BY <1>1, <1>2, <1>6, <1>7, Continue
<1>9. Flags'
  BY <1>1 DEF Flags, Asked, condVars
<1> QED
  BY <1>8, <1>9

\* Steps that take and release nothing: the operations of stop(), the creation of
\* the terminator and what the writer does at its end.
LEMMA PlainKeeps ==
  ASSUME Flags, Stacks, NEW held, Keeps(held), NEW t \in Thread,
         \/ set_gotostop(t) \/ wait_stopped(t) \/ fire(t) \/ (t = "main" /\ make_terminator)
         \/ (t = "writer" /\ (set_stopped \/ ended))
  PROVE  Flags' /\ Stacks' /\ (\E h : Keeps(h)')
<1>1. /\ UNCHANGED <<owner, sent, rows, reloads>> /\ goes_on(t, rest(t))
      /\ \E what \in {"gotostop", "wait_stopped", "fire", "make_terminator", "set_stopped", "ended"} :
           at(t, what) /\ (what # "make_terminator" => terminator' = terminator)
                       /\ (what = "make_terminator" => t = "main")
  <2>1. CASE set_gotostop(t)
    BY <2>1 DEF set_gotostop
  <2>2. CASE wait_stopped(t)
    BY <2>2 DEF wait_stopped, condVars
  <2>3. CASE fire(t)
    BY <2>3 DEF fire
  <2>4. CASE t = "main" /\ make_terminator
    BY <2>4 DEF make_terminator
  <2>5. CASE t = "writer" /\ set_stopped
    BY <2>5 DEF set_stopped
  <2>6. CASE t = "writer" /\ ended
    BY <2>6 DEF ended
  <2> QED
    BY <2>1, <2>2, <2>3, <2>4, <2>5, <2>6
<1>2. PICK what \in {"gotostop", "wait_stopped", "fire", "make_terminator", "set_stopped", "ended"} :
        at(t, what) /\ (what # "make_terminator" => terminator' = terminator)
                    /\ (what = "make_terminator" => t = "main")
  BY <1>1
<1>3. /\ top(t).ops # <<>> /\ Head(top(t).ops)[1] = what /\ held[t] \subseteq Token
      /\ \E M : /\ M \subseteq Token /\ Effect(held[t], Head(top(t).ops), M)
                /\ Ordered(M, rest(t), {})
  BY <1>2, Allowed, Zenon
<1>4. PICK M : M \subseteq Token /\ Effect(held[t], Head(top(t).ops), M) /\ Ordered(M, rest(t), {})
  BY <1>3
<1>5. M = held[t] /\ (what = "make_terminator" => "map" \notin held[t])
  BY <1>2, <1>3, <1>4 DEF Effect
<1>6. Ordered(held[t], rest(t), {})
  BY <1>4, <1>5, Zenon
<1>7. Stacks' /\ Keeps(held)'
  BY <1>1, <1>2, <1>3, <1>5, <1>6, Continue
<1>8. Asked' = Asked
  BY <1>1 DEF Asked
<1>9. Flags'
  BY <1>1, <1>8 DEF Flags, set_gotostop, wait_stopped, fire, make_terminator, set_stopped, ended, condVars
<1> QED
  BY <1>7, <1>9

\* thread::stop
LEMMA StopKeeps ==
  ASSUME Flags, Stacks, NEW held, Keeps(held), NEW t \in Thread, stop(t)
  PROVE  Flags' /\ Stacks' /\ (\E h : Keeps(h)')
<1>1. at(t, "stop") /\ UNCHANGED <<owner, condVars, sent, rows, reloads>>
  BY DEF stop
<1>2. /\ top(t).ops # <<>> /\ Head(top(t).ops)[1] = "stop" /\ held[t] \subseteq Token
      /\ \E M : /\ M \subseteq Token /\ Effect(held[t], Head(top(t).ops), M)
                /\ Ordered(M, rest(t), {})
  BY <1>1, Allowed, Zenon
<1>3. PICK M : M \subseteq Token /\ Effect(held[t], Head(top(t).ops), M) /\ Ordered(M, rest(t), {})
  BY <1>2
<1>4. held[t] = {"m_td"} /\ M = {}
  BY <1>2, <1>3 DEF Effect
<1>5. PICK ops : ops = (IF _stopped THEN <<>> ELSE on_stop) \o <<<<"unlock", "m_td">>>> \o rest(t)
  OBVIOUS
<1>6. Ordered({}, rest(t), {}) /\ _stopped \in BOOLEAN
  BY <1>3, <1>4 DEF Flags
<1>7. Ordered(held[t], ops, {})
  <2>1. Ordered({"m_td"}, ops, {})
    BY <1>5, <1>6, OrderedStop
  <2> QED
    BY <1>4, <2>1, Zenon
<1>8. goes_on(t, ops) /\ terminator' = terminator
  BY <1>1, <1>5 DEF stop, condVars
<1>9. Stacks' /\ Keeps(held)'
  BY <1>1, <1>2, <1>7, <1>8, Continue
<1>10. Flags'
  BY <1>1 DEF Flags, condVars, Asked
<1> QED
  BY <1>9, <1>10

\* The waits of the loop and of the writer.
LEMMA WaitKeeps ==
  ASSUME Flags, Stacks, NEW held, Keeps(held), NEW t \in Thread,
         \/ t = "main" /\ epoll_wait
         \/ t = "writer" /\ wait_q_run
  PROVE  Flags' /\ Stacks' /\ (\E h : Keeps(h)')
<1>1. Ordered({}, <<>>, {})
  <2>1. {} \in SUBSET Token
    OBVIOUS
  <2> QED
    BY <2>1, OrderedNone, Zenon
<1>2. /\ UNCHANGED <<owner, sent, rows, reloads, terminator>>
      /\ \E what \in {"epoll_wait", "wait_q_run"} : at(t, what)
      /\ \E ops : Ordered({}, ops, {}) /\ goes_on(t, ops)
  <2>1. CASE t = "main" /\ epoll_wait
    <3>1. at(t, "epoll_wait") /\ UNCHANGED <<owner, sent, rows, reloads, terminator>>
      BY <2>1 DEF epoll_wait, condVars
    <3>2. \E ops : Ordered({}, ops, {}) /\ goes_on(t, ops)
      <4>1. CASE goes_on("main", <<>>)
        BY <1>1, <2>1, <4>1, Zenon
      <4>2. ASSUME NEW work \in Work, goes_on("main", work \o do("epoll_wait"))
            PROVE  \E ops : Ordered({}, ops, {}) /\ goes_on(t, ops)
        BY <2>1, <4>2, OrderedWork, Zenon
      <4> QED
        BY <2>1, <4>1, <4>2 DEF epoll_wait
    <3> QED
      BY <3>1, <3>2
  <2>2. CASE t = "writer" /\ wait_q_run
    <3>1. at(t, "wait_q_run") /\ UNCHANGED <<owner, sent, rows, reloads, terminator>>
      BY <2>2 DEF wait_q_run, condVars
    <3>2. goes_on(t, run_end) \/ goes_on(t, run_round)
      BY <2>2 DEF wait_q_run
    <3> QED
      BY <3>1, <3>2, OrderedRun
  <2> QED
    BY <2>1, <2>2
<1>3. PICK what \in {"epoll_wait", "wait_q_run"} : at(t, what)
  BY <1>2
<1>4. PICK ops : Ordered({}, ops, {}) /\ goes_on(t, ops)
  BY <1>2
<1>5. /\ top(t).ops # <<>> /\ Head(top(t).ops)[1] = what
      /\ \E M : M \subseteq Token /\ Effect(held[t], Head(top(t).ops), M)
  BY <1>3, Allowed, Zenon
<1>6. held[t] = {}
  BY <1>3, <1>5 DEF Effect
<1>7. Ordered(held[t], ops, {})
  BY <1>4, <1>6, Zenon
<1>8. Stacks' /\ Keeps(held)'
  BY <1>2, <1>4, <1>5, <1>7, Continue
<1>9. Flags'
  BY <1>2 DEF Flags, Asked, epoll_wait, wait_q_run, condVars
<1> QED
  BY <1>8, <1>9

\* thread::start: main goes on, and the writer begins.
LEMMA StartKeeps ==
  ASSUME Flags, Stacks, NEW held, Keeps(held), start
  PROVE  Flags' /\ Stacks' /\ (\E h : Keeps(h)')
<1>1. at("main", "start") /\ "main" \in Thread /\ "writer" \in Thread
  BY DEF start, Thread
<1>2. /\ top("main").ops # <<>> /\ Head(top("main").ops)[1] = "start" /\ held["main"] \subseteq Token
      /\ \E M : /\ M \subseteq Token /\ Effect(held["main"], Head(top("main").ops), M)
                /\ Ordered(M, rest("main"), {})
  BY <1>1, Allowed, Zenon
<1>3. PICK M : /\ M \subseteq Token /\ Effect(held["main"], Head(top("main").ops), M)
               /\ Ordered(M, rest("main"), {})
  BY <1>2
<1>4. "unborn" \in held["main"] /\ M = held["main"] \ {"unborn"}
  BY <1>2, <1>3 DEF Effect
<1>5. stack["writer"] = <<Fresh>> /\ \A u \in Thread : "unborn" \in held[u] => u = "main"
  BY <1>1, <1>4 DEF Keeps
<1>6. Ordered(held["writer"], top("writer").ops, {}) /\ top("writer").ops = <<>>
  BY <1>1, <1>5 DEF Keeps, top, Fresh
<1>7. held["writer"] = {}
  BY <1>6, NoneLeft, Zenon
<1>8. PICK n : n = Len(stack["main"])
  OBVIOUS
<1>9. PICK s : s = [stack["main"] EXCEPT ![n] = [stack["main"][n] EXCEPT !.ops = rest("main")]]
  OBVIOUS
<1>10. PICK w : w = <<[sig |-> "none", ops |-> run_start]>>
  OBVIOUS
<1>11. rest("main") \in Seq(Op) /\ run_start \in Seq(Op)
  BY <1>3, OrderedRun DEF Ordered
<1>12. PICK mid : mid = [stack EXCEPT !["main"] = s]
  OBVIOUS
<1>13. /\ mid \in [Thread -> Seq(Frame)] /\ mid["main"] = s
       /\ \A u \in Thread \ {"main"} : mid[u] = stack[u]
       /\ n \in {1, 2} /\ Len(s) = n /\ s[n].ops = rest("main")
       /\ n = 2 => s[1] = stack["main"][1]
  <2>1. stack \in [Thread -> Seq(Frame)] /\ stack["main"] \in Seq(Frame) /\ n \in {1, 2}
    BY <1>1, <1>8 DEF Stacks
  <2>2. n \in 1 .. Len(stack["main"])
    <3>1. Len(stack["main"]) \in Nat /\ n >= 1
      BY <2>1
    <3> QED
      BY <1>8, <3>1
  <2>3. stack["main"][n] \in Frame
    BY <2>1, <2>2, ElementOfSeq, Zenon
  <2>4. [stack["main"][n] EXCEPT !.ops = rest("main")] \in Frame
    BY <1>11, <2>3 DEF Frame
  <2>5. /\ s \in Seq(Frame) /\ Len(s) = Len(stack["main"])
        /\ s[n] = [stack["main"][n] EXCEPT !.ops = rest("main")]
    BY <1>9, <2>1, <2>2, <2>4, ExceptSeq
  <2>6. s[n].ops = rest("main")
    BY <2>3, <2>5 DEF Frame
  <2>7. n = 2 => s[1] = stack["main"][1]
    BY <1>9, <2>1, <2>2
  <2> QED
    BY <1>1, <1>8, <1>12, <2>1, <2>5, <2>6, <2>7
<1>14. stack' = [mid EXCEPT !["writer"] = w]
  <2>1. stack' = [mid EXCEPT !["writer"] = [mid["writer"] EXCEPT ![1] = [mid["writer"][1] EXCEPT !.ops = run_start]]]
    BY <1>8, <1>9, <1>12 DEF start
  <2>2. mid["writer"] = <<Fresh>>
    BY <1>1, <1>5, <1>13
  <2>3. [mid["writer"] EXCEPT ![1] = [mid["writer"][1] EXCEPT !.ops = run_start]] = w
    BY <1>10, <2>2 DEF Fresh
  <2> QED
    BY <2>1, <2>3
<1>15. w \in Seq(Frame) /\ Len(w) = 1 /\ w[1].ops = run_start
  <2>1. [sig |-> "none", ops |-> run_start] \in Frame
    BY <1>11 DEF Frame
  <2> QED
    BY <1>10, <2>1
<1>16. /\ stack' \in [Thread -> Seq(Frame)]
       /\ stack'["main"] = s /\ stack'["writer"] = w /\ stack'["other"] = stack["other"]
  BY <1>1, <1>13, <1>14, <1>15 DEF Thread
<1>17. Stacks'
  <2>1. \A u \in Thread : Len(stack'[u]) \in {1, 2}
    BY <1>13, <1>15, <1>16 DEF Thread, Stacks
  <2>2. ASSUME NEW u \in Thread, Len(stack'[u]) = 2 PROVE Ordered({}, stack'[u][1].ops, {})
    <3>1. u # "writer"
      <4>1. Len(stack'["writer"]) = 1
        BY <1>15, <1>16, Zenon
      <4>2. CASE u = "writer"
        <5>1. 1 = 2
          BY <2>2, <4>1, <4>2, Zenon
        <5> QED
          BY <5>1
      <4> QED
        BY <4>2
    <3>2. Len(stack[u]) = 2 /\ stack'[u][1] = stack[u][1]
      BY <1>8, <1>13, <1>16, <2>2, <3>1 DEF Thread
    <3> QED
      BY <3>2 DEF Stacks
  <2> QED
    BY <1>16, <2>1, <2>2 DEF Stacks
<1>18. PICK h : h = [held EXCEPT !["main"] = M]
  OBVIOUS
<1>19. h \in [Thread -> SUBSET Token] /\ h["main"] = M /\ \A u \in Thread \ {"main"} : h[u] = held[u]
  BY <1>1, <1>3, <1>18 DEF Keeps
<1>20. \A u \in Thread : Ordered(h[u], top(u)'.ops, {})
  <2>1. top("main")'.ops = rest("main") /\ top("writer")'.ops = run_start
    BY <1>13, <1>15, <1>16 DEF top
  <2>2. top("other")' = top("other")
    BY <1>16 DEF top
  <2>3. Ordered(h["main"], top("main")'.ops, {})
    BY <1>3, <1>19, <2>1, Zenon
  <2>4. Ordered(h["writer"], top("writer")'.ops, {})
    <3>1. h["writer"] = {}
      BY <1>1, <1>7, <1>19
    <3> QED
      BY <2>1, <3>1, OrderedRun, Zenon
  <2>5. Ordered(h["other"], top("other")'.ops, {})
    <3>1. h["other"] = held["other"] /\ Ordered(held["other"], top("other").ops, {})
      BY <1>19 DEF Thread, Keeps
    <3> QED
      BY <2>2, <3>1, Zenon
  <2> QED
    BY <2>3, <2>4, <2>5 DEF Thread
<1>21. UNCHANGED <<owner, gotostop, stopped, terminator, fired, sent, rows, reloads>> /\ _stopped' = FALSE
  BY DEF start
<1>22. Owned(h)'
  <2>1. "unborn" \notin Lock
    BY DEF Lock
  <2> QED
    BY <1>4, <1>19, <1>21, <2>1 DEF Keeps, Owned
<1>23. Asked' = Asked
  BY <1>21 DEF Asked
<1>24. \A u \in Thread : "map" \in h[u] <=> "map" \in held[u]
  BY <1>4, <1>19
<1>25. Maps(h)'
  BY <1>21, <1>23, <1>24 DEF Keeps, Maps
<1>26. \A u \in Thread : "unborn" \notin h[u]
  BY <1>4, <1>5, <1>19
<1>27. \A u, x \in Thread : "map" \in h[u] /\ "map" \in h[x] => u = x
  BY <1>24 DEF Keeps
<1>28. Keeps(h)'
  BY <1>19, <1>20, <1>22, <1>25, <1>26, <1>27, Zenon DEF Keeps
<1>29. Flags'
  BY <1>21, <1>23 DEF Flags
<1> QED
  BY <1>17, <1>28, <1>29

\* A handler returns: it has nothing left to do and holds nothing, and what it
\* interrupted goes on from there.
LEMMA ReturnKeeps ==
  ASSUME Flags, Stacks, NEW held, Keeps(held), NEW t \in Thread, handler_returns(t)
  PROVE  Flags' /\ Stacks' /\ (\E h : Keeps(h)')
<1>1. /\ Len(stack[t]) > 1 /\ top(t).ops = <<>>
      /\ stack' = [stack EXCEPT ![t] = SubSeq(stack[t], 1, Len(stack[t]) - 1)]
      /\ UNCHANGED <<owner, condVars, sent, rows, reloads>>
  BY DEF handler_returns
<1>2. stack[t] \in Seq(Frame) /\ Len(stack[t]) = 2 /\ Ordered({}, stack[t][1].ops, {})
  <2>1. stack[t] \in Seq(Frame) /\ Len(stack[t]) = 2
    BY <1>1 DEF Stacks
  <2> QED
    BY <2>1 DEF Stacks
<1>3. held[t] = {}
  <2>1. Ordered(held[t], <<>>, {})
    BY <1>1 DEF Keeps
  <2> QED
    BY <2>1, NoneLeft, Zenon
<1>4. PICK s : s = SubSeq(stack[t], 1, Len(stack[t]) - 1)
  OBVIOUS
<1>5. s \in Seq(Frame) /\ Len(s) = 1 /\ s[1] = stack[t][1]
  BY <1>2, <1>4
<1>6. stack' \in [Thread -> Seq(Frame)] /\ stack'[t] = s /\ \A u \in Thread \ {t} : stack'[u] = stack[u]
  BY <1>1, <1>4, <1>5 DEF Stacks
<1>7. \A u \in Thread : Len(stack'[u]) \in {1, 2}
  BY <1>5, <1>6 DEF Stacks
<1>8. ASSUME NEW u \in Thread, Len(stack'[u]) = 2 PROVE Ordered({}, stack'[u][1].ops, {})
  <2>1. u # t
    <3>1. Len(stack'[t]) # 2
      BY <1>5, <1>6
    <3> QED
      BY <1>8, <3>1, Zenon
  <2>2. stack'[u] = stack[u]
    BY <1>6, <2>1
  <2> QED
    BY <1>8, <2>2 DEF Stacks
<1>10. Stacks'
  BY <1>6, <1>7, <1>8 DEF Stacks
<1>11. \A u \in Thread : Ordered(held[u], top(u)'.ops, {})
  <2> SUFFICES ASSUME NEW u \in Thread PROVE Ordered(held[u], top(u)'.ops, {})
    OBVIOUS
  <2>1. CASE u = t
    <3>1. top(t)' = stack[t][1]
      BY <1>5, <1>6 DEF top
    <3> QED
      BY <1>2, <1>3, <2>1, <3>1, Zenon
  <2>2. CASE u # t
    <3>1. top(u)' = top(u) /\ Ordered(held[u], top(u).ops, {})
      BY <1>6, <2>2 DEF top, Keeps
    <3> QED
      BY <3>1, Zenon
  <2> QED
    BY <2>1, <2>2
<1>12. ASSUME NEW u \in Thread, "unborn" \in held[u] PROVE u = "main" /\ stack'["writer"] = <<Fresh>>
  <2>1. u = "main" /\ stack["writer"] = <<Fresh>>
    BY <1>12 DEF Keeps
  <2>2. t # "writer"
    <3>1. Len(<<Fresh>>) = 1
      OBVIOUS
    <3>2. CASE t = "writer"
      <4>1. 1 = 2
        BY <1>2, <2>1, <3>1, <3>2, Zenon
      <4> QED
        BY <4>1
    <3> QED
      BY <3>2
  <2> QED
    BY <1>6, <2>1, <2>2 DEF Thread
<1>13. Asked' = Asked /\ terminator' = terminator
  BY <1>1 DEF Asked, condVars
<1>14. Owned(held)' /\ Maps(held)'
  BY <1>1, <1>13 DEF Keeps, Owned, Maps
<1>15. /\ held \in [Thread -> SUBSET Token]
       /\ \A u, x \in Thread : "map" \in held[u] /\ "map" \in held[x] => u = x
  BY DEF Keeps
<1>16. Keeps(held)'
  BY <1>11, <1>12, <1>14, <1>15, Zenon DEF Keeps
<1>17. Flags'
  BY <1>1, <1>13 DEF Flags, condVars
<1> QED
  BY <1>10, <1>16, <1>17

\* A signal is delivered to a thread that waits for events: it holds nothing.
LEMMA DeliverKeeps ==
  ASSUME AtRest, Flags, Stacks, NEW held, Keeps(held),
         NEW t \in Receivers, NEW s \in Sent, deliver(t, s)
  PROVE  Flags' /\ Stacks' /\ (\E h : Keeps(h)')
<1>1. t \in Thread /\ s \in Signal
  BY SignalAssumption
<1>2. /\ s \notin sent /\ started /\ resting(t)
      /\ sent' = sent \cup {s}
      /\ stack' = [stack EXCEPT ![t] = Append(stack[t], [sig |-> s, ops |-> sig_handler(s)])]
      /\ UNCHANGED <<owner, condVars, rows, reloads>>
  BY DEF deliver
<1>3. Len(stack[t]) = 1 /\ terminator
  BY <1>2 DEF resting, started
<1>4. stack[t] \in Seq(Frame) /\ Ordered(held[t], top(t).ops, {}) /\ top(t) = stack[t][1]
  BY <1>1, <1>3 DEF Stacks, Keeps, top
<1>5. held[t] = {} /\ (t = "writer" => top(t).ops # <<>>)
  <2>1. CASE t = "other"
    <3>1. top(t).ops = <<>>
      BY <1>2, <2>1 DEF resting
    <3>2. Ordered(held[t], <<>>, {})
      BY <1>4, <3>1, Zenon
    <3>3. held[t] = {}
      BY <3>2, NoneLeft, Zenon
    <3> QED
      BY <2>1, <3>3
  <2>2. CASE t # "other"
    <3>1. PICK what \in {"epoll_wait", "wait_q_run"} : at(t, what)
      BY <1>2, <2>2 DEF resting
    <3>2. /\ top(t).ops # <<>> /\ Head(top(t).ops)[1] = what
          /\ \E M : M \subseteq Token /\ Effect(held[t], Head(top(t).ops), M)
      BY <1>1, <3>1, Allowed, Zenon
    <3>3. held[t] = {}
      BY <3>1, <3>2 DEF Effect
    <3> QED
      BY <3>2, <3>3
  <2> QED
    BY <2>1, <2>2
<1>6. Ordered({}, stack[t][1].ops, {})
  BY <1>4, <1>5, Zenon
<1>7. Ordered(Errand(s), sig_handler(s), {})
  BY <1>1, OrderedHandler
<1>8. PICK f : f = [sig |-> s, ops |-> sig_handler(s)]
  OBVIOUS
<1>9. f \in Frame /\ f.ops = sig_handler(s)
  <2>1. sig_handler(s) \in Seq(Op)
    BY <1>7 DEF Ordered
  <2> QED
    BY <1>1, <1>8, <2>1 DEF Frame
<1>10. PICK q : q = Append(stack[t], f)
  OBVIOUS
<1>11. q \in Seq(Frame) /\ Len(q) = 2 /\ q[1] = stack[t][1] /\ q[2] = f
  BY <1>3, <1>4, <1>9, <1>10
<1>12. stack' \in [Thread -> Seq(Frame)] /\ stack'[t] = q /\ \A u \in Thread \ {t} : stack'[u] = stack[u]
  BY <1>1, <1>2, <1>8, <1>10, <1>11 DEF Stacks
<1>13. \A u \in Thread : Len(stack'[u]) \in {1, 2}
  BY <1>11, <1>12 DEF Stacks
<1>14. ASSUME NEW u \in Thread, Len(stack'[u]) = 2 PROVE Ordered({}, stack'[u][1].ops, {})
  <2>1. CASE u = t
    BY <1>6, <1>11, <1>12, <2>1
  <2>2. CASE u # t
    <3>1. stack'[u] = stack[u]
      BY <1>12, <2>2
    <3> QED
      BY <1>14, <3>1 DEF Stacks
  <2> QED
    BY <2>1, <2>2
<1>16. Stacks'
  BY <1>12, <1>13, <1>14 DEF Stacks
<1>17. PICK h : h = [held EXCEPT ![t] = Errand(s)]
  OBVIOUS
<1>18. Errand(s) \subseteq Token /\ "unborn" \notin Errand(s) /\ \A l \in Lock : l \notin Errand(s)
  BY DEF Errand, Token, Lock
<1>19. h \in [Thread -> SUBSET Token] /\ h[t] = Errand(s) /\ \A u \in Thread \ {t} : h[u] = held[u]
  BY <1>1, <1>17, <1>18 DEF Keeps
<1>20. \A u \in Thread : Ordered(h[u], top(u)'.ops, {})
  <2> SUFFICES ASSUME NEW u \in Thread PROVE Ordered(h[u], top(u)'.ops, {})
    OBVIOUS
  <2>1. CASE u = t
    <3>1. top(t)' = f
      BY <1>11, <1>12 DEF top
    <3> QED
      BY <1>7, <1>9, <1>19, <2>1, <3>1, Zenon
  <2>2. CASE u # t
    <3>1. top(u)' = top(u) /\ Ordered(held[u], top(u).ops, {}) /\ h[u] = held[u]
      BY <1>12, <1>19, <2>2 DEF top, Keeps
    <3> QED
      BY <3>1, Zenon
  <2> QED
    BY <2>1, <2>2
<1>21. Owned(h)'
  <2> SUFFICES ASSUME NEW u \in Thread, NEW l \in Lock PROVE l \in h[u] <=> owner'[l] = u
    BY DEF Owned
  <2>1. l \in held[u] <=> owner[l] = u
    BY DEF Keeps, Owned
  <2>2. owner' = owner
    BY <1>2
  <2> QED
    BY <1>5, <1>18, <1>19, <2>1, <2>2
<1>22. ASSUME NEW u \in Thread, "unborn" \in h[u] PROVE u = "main" /\ stack'["writer"] = <<Fresh>>
  <2>1. u # t /\ "unborn" \in held[u]
    BY <1>18, <1>19, <1>22
  <2>2. u = "main" /\ stack["writer"] = <<Fresh>>
    BY <2>1 DEF Keeps
  <2>3. t # "writer"
    <3>1. top("writer").ops = <<>>
      BY <2>2 DEF top, Fresh
    <3> QED
      BY <1>5, <3>1
  <2> QED
    BY <1>12, <2>2, <2>3 DEF Thread
<1>23. CASE s = "HUP"
  <2>1. "HUP" \notin sent /\ Asked = 0 /\ Asked' = 1 /\ "HUP" \in sent'
    BY <1>2, <1>23 DEF Asked
  <2>2. \A u \in Thread : "map" \notin held[u]
    BY <1>3, <2>1 DEF Keeps, Maps
  <2>3. \A u \in Thread : "map" \in h[u] => u = t
    BY <1>19, <2>2
  <2>4. reloads' = reloads /\ reloads \in Nat /\ reloads <= 1
    BY <1>2, <2>1 DEF Flags
  <2>5. Maps(h)'
    BY <2>1, <2>4 DEF Maps
  <2>6. Keeps(h)'
    BY <1>19, <1>20, <1>21, <1>22, <2>3, <2>5, Zenon DEF Keeps
  <2>7. Flags'
    BY <1>2, <2>1, <2>4 DEF Flags, condVars
  <2> QED
    BY <1>16, <2>6, <2>7
<1>24. CASE s # "HUP"
  <2>1. Asked' = Asked /\ ("HUP" \in sent' <=> "HUP" \in sent)
    BY <1>2, <1>24 DEF Asked
  <2>2. \A u \in Thread : "map" \in h[u] => "map" \in held[u]
    BY <1>19, <1>24 DEF Errand
  <2>3. \A u, x \in Thread : "map" \in h[u] /\ "map" \in h[x] => u = x
    BY <2>2 DEF Keeps
  <2>4. reloads' = reloads /\ terminator' = terminator
    BY <1>2 DEF condVars
  <2>5. Maps(h)'
    BY <2>1, <2>2, <2>4 DEF Keeps, Maps
  <2>6. Keeps(h)'
    BY <1>19, <1>20, <1>21, <1>22, <2>3, <2>5, Zenon DEF Keeps
  <2>7. Flags'
    BY <1>2, <2>1, <2>4 DEF Flags, condVars
  <2> QED
    BY <1>16, <2>6, <2>7
<1> QED
  BY <1>23, <1>24

-----------------------------------------------------------------------------
(***************************************************************************)
(* Theorems.                                                               *)
(***************************************************************************)
\* The invariant holds when main() begins.
LEMMA InitKeeps == Init => LockInv
<1> SUFFICES ASSUME Init PROVE LockInv
  OBVIOUS
<1>1. main_start \in Seq(Op) /\ <<>> \in Seq(Op)
  BY OrderedMain DEF Ordered
<1>2. PICK f : f = [t \in Thread |-> [sig |-> "none", ops |-> IF t = "main" THEN main_start ELSE <<>>]]
  OBVIOUS
<1>3. /\ \A t \in Thread : f[t] \in Frame
      /\ f["main"].ops = main_start /\ f["writer"] = Fresh /\ f["other"] = Fresh
  BY <1>1, <1>2 DEF Thread, Frame, Fresh
<1>4. stack = [t \in Thread |-> <<f[t]>>]
  BY <1>2 DEF Init
<1>5. /\ stack \in [Thread -> Seq(Frame)]
      /\ \A t \in Thread : Len(stack[t]) = 1 /\ stack[t][1] = f[t] /\ top(t) = f[t]
  BY <1>3, <1>4 DEF top
<1>6. stack["writer"] = <<Fresh>>
  BY <1>3, <1>4, <1>5 DEF Thread, Fresh
<1>7. Stacks
  <2>1. \A t \in Thread : Len(stack[t]) \in {1, 2} /\ Len(stack[t]) # 2
    <3> SUFFICES ASSUME NEW t \in Thread PROVE Len(stack[t]) \in {1, 2} /\ Len(stack[t]) # 2
      OBVIOUS
    <3>1. Len(stack[t]) = 1
      BY <1>5, Zenon
    <3> QED
      BY <3>1
  <2> QED
    BY <1>5, <1>6, <2>1, Zenon DEF Stacks
<1>8. Asked = 0
  BY DEF Init, Asked
<1>9. Flags
  <2>1. owner \in [Lock -> Thread \cup {"none"}]
    BY DEF Init
  <2>2. reloads \in Nat /\ reloads <= 1 + Asked
    BY <1>8 DEF Init
  <2>3. /\ gotostop \in BOOLEAN /\ stopped \in BOOLEAN /\ _stopped \in BOOLEAN
        /\ terminator \in BOOLEAN /\ fired \in BOOLEAN /\ sent \subseteq Sent
    BY DEF Init
  <2>4. rows \in 0 .. MaxRows
    <3>1. rows = 0
      BY DEF Init
    <3> QED
      BY <3>1, SignalAssumption
  <2> QED
    BY <2>1, <2>2, <2>3, <2>4 DEF Flags
<1>10. PICK held : held = [t \in Thread |-> IF t = "main" THEN {"unborn"} \cup {"map"} ELSE {}]
  OBVIOUS
<1>11. /\ held \in [Thread -> SUBSET Token] /\ held["main"] = {"unborn"} \cup {"map"}
       /\ \A t \in Thread \ {"main"} : held[t] = {}
  BY <1>10 DEF Token, Thread
<1>12. Owned(held)
  <2>1. \A t \in Thread : \A l \in Lock : l \notin held[t]
    BY <1>11 DEF Lock
  <2>2. \A l \in Lock : owner[l] \notin Thread
    BY DEF Init, Thread
  <2> QED
    BY <2>1, <2>2 DEF Owned
<1>13. Maps(held)
  BY <1>8, <1>11 DEF Maps, Init
<1>14. \A t \in Thread : Ordered(held[t], top(t).ops, {})
  <2>1. Ordered(held["main"], top("main").ops, {})
    <3>1. top("main").ops = main_start
      BY <1>3, <1>5 DEF Thread
    <3> QED
      BY <1>11, <3>1, OrderedMain, Zenon
  <2>2. ASSUME NEW t \in Thread, t # "main" PROVE Ordered(held[t], top(t).ops, {})
    <3>1. held[t] = {} /\ top(t).ops = <<>> /\ {} \in SUBSET Token
      BY <1>3, <1>5, <1>11, <2>2 DEF Thread, Fresh
    <3> QED
      BY <3>1, OrderedNone, Zenon
  <2> QED
    BY <2>1, <2>2
<1>15. /\ \A t \in Thread : "unborn" \in held[t] => t = "main" /\ stack["writer"] = <<Fresh>>
       /\ \A t, u \in Thread : "map" \in held[t] /\ "map" \in held[u] => t = u
  BY <1>6, <1>11
<1>16. Keeps(held)
  BY <1>11, <1>12, <1>13, <1>14, <1>15, Zenon DEF Keeps
<1> QED
  BY <1>7, <1>9, <1>16 DEF LockInv

\* Every step keeps the invariant, as long as signals meet threads at rest.
LEMMA StepKeeps ==
  ASSUME AtRest, LockInv, [Next]_vars
  PROVE  LockInv'
<1>1. PICK held : Keeps(held)
  BY DEF LockInv
<1>2. Flags /\ Stacks
  BY DEF LockInv
<1>3. ASSUME Flags' /\ Stacks' /\ (\E h : Keeps(h)') PROVE LockInv'
  BY <1>3 DEF LockInv
<1>4. ASSUME NEW t \in Thread, step(t) PROVE LockInv'
  <2>1. CASE lock(t)
    BY <1>1, <1>2, <1>3, <2>1, LockKeeps
  <2>2. CASE unlock(t)
    BY <1>1, <1>2, <1>3, <2>2, UnlockKeeps
  <2>3. CASE swap(t)
    BY <1>1, <1>2, <1>3, <2>3, SwapKeeps
  <2>4. CASE stop(t)
    BY <1>1, <1>2, <1>3, <2>4, StopKeeps
  <2>5. CASE \/ set_gotostop(t) \/ wait_stopped(t) \/ fire(t) \/ (t = "main" /\ make_terminator)
             \/ (t = "writer" /\ (set_stopped \/ ended))
    BY <1>1, <1>2, <1>3, <2>5, PlainKeeps
  <2>6. CASE handler_returns(t)
    BY <1>1, <1>2, <1>3, <2>6, ReturnKeeps
  <2>7. CASE start
    BY <1>1, <1>2, <1>3, <2>7, StartKeeps
  <2>8. CASE \/ t = "main" /\ epoll_wait
             \/ t = "writer" /\ wait_q_run
    BY <1>1, <1>2, <1>3, <2>8, WaitKeeps
  <2>9. CASE load_row(t)
    BY <1>1, <1>2, <1>3, <2>9, LoadRowKeeps
  <2>10. CASE load_done(t)
    BY <1>1, <1>2, <1>3, <2>10, LoadDoneKeeps
  <2>11. CASE load_fails(t)
    BY <1>1, <1>2, <1>3, <2>11, LoadFailsKeeps
  <2> QED
    BY <1>4, <2>1, <2>2, <2>3, <2>4, <2>5, <2>6, <2>7, <2>8, <2>9, <2>10, <2>11, Zenon
       DEF step, main_steps, writer_steps
<1>5. ASSUME NEW t \in Receivers, NEW s \in Sent, deliver(t, s) PROVE LockInv'
  BY <1>1, <1>2, <1>3, <1>5, DeliverKeeps
<1>6. CASE UNCHANGED vars
  <2>1. Flags'
    BY <1>2, <1>6 DEF Flags, Asked, vars, condVars
  <2>2. Stacks'
    BY <1>2, <1>6 DEF Stacks, vars
  <2>3. Keeps(held)'
    BY <1>1, <1>6 DEF Keeps, Owned, Maps, Asked, top, vars, condVars
  <2> QED
    BY <1>3, <2>1, <2>2, <2>3
<1>7. CASE scrape
  BY <1>1, <1>2, <1>3, <1>7, ScrapeKeeps
<1> QED
  BY <1>4, <1>5, <1>6, <1>7 DEF Next

\* The locks are owned by the threads that took them, and every thread and
\* every handler takes them in the order of Rank, for any choice of signals and
\* of the threads that get them.
THEOREM LockInvariant ==
  ASSUME AtRest
  PROVE  Spec => []LockInv
<1>1. LockInv /\ [Next]_vars => LockInv'
  BY StepKeeps
<1> QED
  BY <1>1, InitKeeps, PTL DEF Spec

\* sig_handler on threads that wait for events: no set of threads waits for each
\* other's mutexes, and a reload swaps one map in.
THEOREM LocksAreSound ==
  ASSUME AtRest
  PROVE  Spec => []LocksSound
BY LockInvariant, InvImpliesSound, PTL
=============================================================================
