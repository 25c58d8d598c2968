--------------------------- MODULE ExitNodeProofs ---------------------------
(***************************************************************************)
(* Proofs about ExitNode, for any number of tasks, connections and         *)
(* forwards and for every size of the address space.                       *)
(*                                                                         *)
(* A reply is looked up by the address of its packet, so what matters is   *)
(* who wrote the route of that address last.  RInv says that two packets   *)
(* fewer than AddrSpace apart have different addresses (which follows from *)
(* where the counter stands, Ahead, without any talk of remainders), and   *)
(* that a packet knows how far back the forwards reach that could still    *)
(* overwrite its route.                                                    *)
(***************************************************************************)
EXTENDS ExitNode, WellFoundedInduction, TLAPS

Places == {"idle", "route", "write"}

Types ==
  /\ ip_pool \in Addresses /\ DOMAIN route_map = Addresses
  /\ count \in Nat /\ count <= MaxForwards
  /\ pc \in [Tasks -> Places] /\ pkt \in [Tasks -> Nat]
  /\ DOMAIN owner = PacketIds /\ addr \in [PacketIds -> Addresses] /\ low \in [PacketIds -> Nat]
  /\ written \subseteq Nat /\ reader \in written \cup {0}

\* how far the next address is from that of packet n
Ahead(n) ==
  LET d == count + 1 - n
  IN  d <= AddrSpace => ip_pool = addr[n] + d \/ ip_pool = addr[n] + d - AddrSpace

Packet(n) ==
  /\ owner[n] \in Senders /\ low[n] <= n
  /\ Ahead(n)
  /\ \A m \in 1..count : m < n /\ n - m < AddrSpace => addr[m] # addr[n]

\* a task under way has a packet of its own, not written yet; every packet that
\* began since knows that it was under way
Task(t) ==
  pc[t] # "idle" =>
    /\ pkt[t] \in 1..count /\ pkt[t] \notin written
    /\ \A u \in Tasks : pc[u] # "idle" /\ pkt[u] = pkt[t] => u = t
    /\ \A n \in 1..count : n >= pkt[t] => low[n] <= pkt[t]

\* a packet past its route insertion finds its sender as long as it is fresh
Routed(n) ==
  (\A t \in Tasks : pc[t] = "route" => pkt[t] # n) /\ Fresh(n) =>
    route_map[addr[n]] = owner[n]

RInv ==
  /\ Types /\ written \subseteq 1..count
  /\ \A n \in 1..count : Packet(n) /\ Routed(n)
  /\ \A t \in Tasks : Task(t)

-----------------------------------------------------------------------------
\* The address counter wraps.
LEMMA Wraps ==
  /\ AddrSpace \in Nat /\ AddrSpace > 2
  /\ \A x \in Addresses : /\ x \in Nat /\ x < AddrSpace
                          /\ (x + 1) % AddrSpace = IF x + 1 = AddrSpace THEN 0 ELSE x + 1
BY ExitNodeAssumption DEF Addresses

\* A nonempty set of numbers has a least one.
LEMMA Least == \A S \in SUBSET Nat : S # {} => \E x \in S : \A y \in S : x <= y
<1> TAKE S \in SUBSET Nat
<1> HAVE S # {}
<1>1. PICK x \in S : \A y \in S : ~(<<y, x>> \in OpToRel(<, Nat))
  BY NatLessThanWellFounded, WFMin
<1>2. \A y \in S : ~(y < x)
  BY <1>1 DEF OpToRel
<1>3. QED
  BY <1>2

\* Steps that touch neither the routes nor the forwards.
LEMMA QuietKeeps ==
  ASSUME RInv, UNCHANGED <<ip_pool, route_map, pc, pkt, packets, written>>, reader' \in written \cup {0}
  PROVE  RInv'
<1> USE DEF packets
<1>1. Types' /\ (written \subseteq 1..count)'
  BY DEF RInv, Types
<1>2. ASSUME NEW n \in 1..count PROVE Packet(n)' /\ Routed(n)'
  BY DEF RInv, Packet, Ahead, Routed, Fresh
<1>3. ASSUME NEW t \in Tasks PROVE Task(t)'
  BY DEF RInv, Task
<1>4. QED
  BY <1>1, <1>2, <1>3 DEF RInv

\* alloc_ip: the new packet gets the address the counter stands at.
LEMMA AllocKeeps == \A t \in Tasks, s \in Senders : RInv /\ AllocIp(t, s) => RInv'
<1> SUFFICES ASSUME NEW t \in Tasks, NEW s \in Senders, RInv, AllocIp(t, s) PROVE RInv'
  OBVIOUS
<1> USE Wraps
<1>1. count \in Nat /\ ip_pool \in Addresses
  BY DEF RInv, Types
<1>2. PICK k \in Nat : k = count + 1
  BY <1>1
<1>3. PICK l : l = CHOOSE m \in UnderWay \cup {k} : \A j \in UnderWay \cup {k} : m <= j
  OBVIOUS
<1>4. /\ pc[t] = "idle" /\ count' = k /\ owner' = [owner EXCEPT ![k] = s]
      /\ addr' = [addr EXCEPT ![k] = ip_pool] /\ low' = [low EXCEPT ![k] = l]
      /\ pkt' = [pkt EXCEPT ![t] = k] /\ pc' = [pc EXCEPT ![t] = "route"]
      /\ ip_pool' = (ip_pool + 1) % AddrSpace
      /\ UNCHANGED <<route_map, written, reader>>
  BY <1>2, <1>3, Zenon DEF AllocIp, Began
<1>5. k <= MaxForwards /\ k \in PacketIds
  BY <1>1, <1>2, ExitNodeAssumption DEF AllocIp, Began, PacketIds
<1>6. l \in Nat /\ l <= k /\ \A j \in UnderWay : l <= j
  <2>1. UnderWay \subseteq Nat
    BY DEF UnderWay, RInv, Types
  <2>2. \E m \in UnderWay \cup {k} : \A j \in UnderWay \cup {k} : m <= j
    BY <2>1, Least
  <2>3. l \in UnderWay \cup {k} /\ \A j \in UnderWay \cup {k} : l <= j
    BY <1>3, <2>2
  <2>4. QED
    BY <2>1, <2>3
<1>7. /\ addr'[k] = ip_pool /\ owner'[k] = s /\ low'[k] = l
      /\ \A n \in 1..count : /\ n \in PacketIds /\ n # k /\ n \in Nat
                             /\ addr'[n] = addr[n] /\ owner'[n] = owner[n] /\ low'[n] = low[n]
  <2>1. addr'[k] = ip_pool /\ owner'[k] = s /\ low'[k] = l
    BY <1>4, <1>5 DEF RInv, Types
  <2>2. \A n \in 1..count : n \in PacketIds /\ n # k /\ n \in Nat
    BY <1>1, <1>2, <1>5, ExitNodeAssumption DEF PacketIds
  <2>3. QED
    BY <1>4, <2>1, <2>2 DEF RInv, Types
<1>8. /\ pkt'[t] = k /\ pc'[t] = "route"
      /\ \A u \in Tasks : u # t => pkt'[u] = pkt[u] /\ pc'[u] = pc[u]
  BY <1>4 DEF RInv, Types
<1>9. \A n \in 1..k : n = k \/ n \in 1..count
  BY <1>1, <1>2
<1>10. Types' /\ (written \subseteq 1..count)'
  <2>1. ip_pool' \in Addresses
    BY <1>1, <1>4 DEF Addresses
  <2>2. addr' \in [PacketIds -> Addresses] /\ low' \in [PacketIds -> Nat] /\ DOMAIN owner' = PacketIds
    BY <1>1, <1>4, <1>6 DEF RInv, Types
  <2>3. pc' \in [Tasks -> Places] /\ pkt' \in [Tasks -> Nat]
    BY <1>4 DEF RInv, Types, Places
  <2>4. written' \subseteq 1..count'
    BY <1>1, <1>2, <1>4 DEF RInv
  <2>5. QED
    BY <1>2, <1>4, <1>5, <2>1, <2>2, <2>3, <2>4 DEF RInv, Types
<1>11. ASSUME NEW n \in 1..k PROVE Packet(n)'
  <2>1. CASE n = k
    <3>1. owner'[n] \in Senders /\ low'[n] <= n
      BY <1>6, <1>7, <2>1
    <3>2. Ahead(n)'
      BY <1>1, <1>2, <1>4, <1>7, <2>1 DEF Ahead
    <3>3. ASSUME NEW m \in 1..count, n - m < AddrSpace PROVE addr'[m] # addr'[n]
      <4>1. ip_pool = addr[m] + (n - m) \/ ip_pool = addr[m] + (n - m) - AddrSpace
        BY <1>1, <1>2, <2>1, <3>3 DEF RInv, Packet, Ahead
      <4>2. addr[m] \in Nat /\ n - m > 0
        BY <1>1, <1>2, <1>7, <2>1 DEF RInv, Types
      <4>3. QED
        BY <1>1, <1>2, <1>7, <2>1, <3>3, <4>1, <4>2
    <3>4. QED
      BY <1>2, <1>4, <1>9, <2>1, <3>1, <3>2, <3>3 DEF Packet
  <2>2. CASE n \in 1..count
    <3>1. Packet(n) /\ addr[n] \in Addresses
      BY <1>7, <2>2 DEF RInv, Types
    <3>2. Ahead(n)'
      BY <1>1, <1>2, <1>4, <1>7, <2>2, <3>1 DEF Packet, Ahead
    <3>3. ASSUME NEW m \in 1..k, m < n, n - m < AddrSpace PROVE addr'[m] # addr'[n]
      <4>1. m \in 1..count
        BY <1>1, <1>2, <2>2, <3>3
      <4>2. QED
        BY <1>7, <2>2, <3>1, <3>3, <4>1 DEF Packet
    <3>4. QED
      BY <1>4, <1>7, <2>2, <3>1, <3>2, <3>3 DEF Packet
  <2>3. QED
    BY <1>9, <2>1, <2>2
<1>12. ASSUME NEW n \in 1..k PROVE Routed(n)'
  <2>1. CASE n = k
    BY <1>8, <2>1 DEF Routed
  <2>2. CASE n \in 1..count
    <3>1. Fresh(n)' => Fresh(n)
      BY <1>1, <1>2, <1>4, <1>7, <2>2 DEF Fresh, RInv, Types
    <3>2. (\A u \in Tasks : pc'[u] = "route" => pkt'[u] # n)
            => \A u \in Tasks : pc[u] = "route" => pkt[u] # n
      BY <1>4, <1>8
    <3>3. QED
      BY <1>4, <1>7, <2>2, <3>1, <3>2 DEF RInv, Routed
  <2>3. QED
    BY <1>9, <2>1, <2>2
<1>13. ASSUME NEW u \in Tasks PROVE Task(u)'
  <2>1. CASE u = t
    <3>1. k \notin written
      BY <1>1, <1>2 DEF RInv
    <3>2. ASSUME NEW v \in Tasks, v # t, pc'[v] # "idle" PROVE pkt'[v] # k
      BY <1>7, <1>8, <3>2 DEF RInv, Task
    <3>3. ASSUME NEW n \in 1..k, n >= k PROVE low'[n] <= k
      BY <1>2, <1>6, <1>7, <3>3
    <3>4. k \in 1..k
      BY <1>1, <1>2
    <3>5. QED
      BY <1>4, <1>8, <2>1, <3>1, <3>2, <3>3, <3>4 DEF Task
  <2>2. CASE u # t /\ pc[u] # "idle"
    <3>1. /\ pkt[u] \in 1..count /\ pkt[u] \notin written /\ pkt[u] \in UnderWay
          /\ \A v \in Tasks : pc[v] # "idle" /\ pkt[v] = pkt[u] => v = u
          /\ \A n \in 1..count : n >= pkt[u] => low[n] <= pkt[u]
      BY <2>2 DEF RInv, Task, UnderWay
    <3>2. ASSUME NEW v \in Tasks, pc'[v] # "idle", pkt'[v] = pkt[u] PROVE v = u
      BY <1>7, <1>8, <3>1, <3>2
    <3>3. ASSUME NEW n \in 1..k, n >= pkt[u] PROVE low'[n] <= pkt[u]
      BY <1>6, <1>7, <1>9, <3>1, <3>3
    <3>4. pkt[u] \in 1..k
      BY <1>1, <1>2, <3>1
    <3>5. QED
      BY <1>4, <1>8, <2>2, <3>1, <3>2, <3>3, <3>4 DEF Task
  <2>3. QED
    BY <1>8, <2>1, <2>2 DEF Task
<1>14. QED
  BY <1>4, <1>10, <1>11, <1>12, <1>13 DEF RInv

\* A route insertion overwrites no route of a fresh packet: a packet with the
\* same address is at least AddrSpace away, and was under way when a later one
\* began.
LEMMA RouteKeeps == \A t \in Tasks : RInv /\ RouteInsert(t) => RInv'
<1> SUFFICES ASSUME NEW t \in Tasks, RInv, RouteInsert(t) PROVE RInv'
  OBVIOUS
<1> USE Wraps
<1> DEFINE m == pkt[t]
<1>1. /\ pc[t] = "route" /\ route_map' = [route_map EXCEPT ![addr[m]] = owner[m]]
      /\ pc' = [pc EXCEPT ![t] = "write"]
      /\ UNCHANGED <<ip_pool, pkt, count, owner, addr, low, written, reader>>
  BY DEF RouteInsert, packets
<1>2. /\ m \in 1..count /\ count \in Nat /\ m \in Nat
      /\ \A n \in 1..count : n >= m => low[n] <= m
  BY <1>1 DEF RInv, Types, Task
<1> HIDE DEF m
<1>3. \A n \in 1..count : n \in PacketIds /\ n \in Nat /\ addr[n] \in Addresses /\ low[n] \in Nat
  BY <1>2, ExitNodeAssumption DEF RInv, Types, PacketIds
<1>4. Types' /\ (written \subseteq 1..count)'
  BY <1>1 DEF RInv, Types, Places
<1>5. \A n \in 1..count : Packet(n)'
  BY <1>1 DEF RInv, Packet, Ahead
<1>6. ASSUME NEW n \in 1..count PROVE Routed(n)'
  <2>1. CASE n = m
    BY <1>1, <1>2, <1>3, <2>1 DEF Routed, RInv, Types
  <2>2. CASE n # m /\ addr[n] # addr[m]
    <3>1. route_map'[addr[n]] = route_map[addr[n]]
      BY <1>1, <1>3, <2>2 DEF RInv, Types
    <3>2. (\A u \in Tasks : pc'[u] = "route" => pkt[u] # n)
            => \A u \in Tasks : pc[u] = "route" => pkt[u] # n
      BY <1>1, <2>2 DEF RInv, Types, m
    <3>3. QED
      BY <1>1, <3>1, <3>2 DEF RInv, Routed, Fresh
  <2>3. CASE n # m /\ addr[n] = addr[m]
    <3>1. CASE n < m
      <4>1. m - n >= AddrSpace
        BY <1>2, <1>3, <2>3, <3>1 DEF RInv, Packet
      <4>2. low[n] <= n
        BY DEF RInv, Packet
      <4>3. ~Fresh(n)
        BY <1>2, <1>3, <4>1, <4>2 DEF Fresh
      <4>4. QED
        BY <1>1, <4>3 DEF Routed, Fresh
    <3>2. CASE n > m
      <4>1. n - m >= AddrSpace
        BY <1>2, <1>3, <2>3, <3>2 DEF RInv, Packet
      <4>2. low[n] <= m
        BY <1>2, <1>3, <3>2
      <4>3. ~Fresh(n)
        BY <1>2, <1>3, <4>1, <4>2 DEF Fresh
      <4>4. QED
        BY <1>1, <4>3 DEF Routed, Fresh
    <3>3. QED
      BY <1>2, <1>3, <2>3, <3>1, <3>2
  <2>4. QED
    BY <2>1, <2>2, <2>3
<1>7. ASSUME NEW u \in Tasks PROVE Task(u)'
  <2>1. \A v \in Tasks : pc'[v] # "idle" <=> pc[v] # "idle"
    BY <1>1 DEF RInv, Types
  <2>2. QED
    BY <1>1, <2>1 DEF RInv, Task
<1>8. QED
  BY <1>1, <1>4, <1>5, <1>6, <1>7 DEF RInv

\* A packet is written only after its route was inserted.
LEMMA WriteKeeps == \A t \in Tasks : RInv /\ TunWrite(t) => RInv'
<1> SUFFICES ASSUME NEW t \in Tasks, RInv, TunWrite(t) PROVE RInv'
  OBVIOUS
<1>1. /\ pc[t] = "write" /\ written' \in {written, written \cup {pkt[t]}}
      /\ pc' = [pc EXCEPT ![t] = "idle"]
      /\ UNCHANGED <<ip_pool, route_map, pkt, count, owner, addr, low, reader>>
  BY DEF TunWrite, packets
<1>2. pkt[t] \in 1..count /\ \A u \in Tasks : pc[u] # "idle" /\ pkt[u] = pkt[t] => u = t
  BY <1>1 DEF RInv, Task
<1>3. Types' /\ (written \subseteq 1..count)'
  <2>1. pkt[t] \in Nat /\ written \subseteq Nat
    BY DEF RInv, Types
  <2>2. QED
    BY <1>1, <1>2, <2>1 DEF RInv, Types, Places
<1>4. \A n \in 1..count : Packet(n)'
  BY <1>1 DEF RInv, Packet, Ahead
<1>5. ASSUME NEW n \in 1..count PROVE Routed(n)'
  <2>1. \A u \in Tasks : pc'[u] = "route" <=> pc[u] = "route"
    BY <1>1 DEF RInv, Types
  <2>2. QED
    BY <1>1, <2>1 DEF RInv, Routed, Fresh
<1>6. ASSUME NEW u \in Tasks PROVE Task(u)'
  <2>1. \A v \in Tasks : pc'[v] # "idle" => pc[v] # "idle" /\ v # t
    BY <1>1 DEF RInv, Types
  <2>2. pc'[u] # "idle" => pkt[u] \notin written'
    BY <1>1, <1>2, <2>1 DEF RInv, Task
  <2>3. QED
    BY <1>1, <2>1, <2>2 DEF RInv, Task
<1>7. QED
  BY <1>1, <1>3, <1>4, <1>5, <1>6 DEF RInv

\* RInv is inductive.
LEMMA RoutesInductive == ExitSpec => []RInv
<1>1. ExitInit => RInv
  <2> SUFFICES ASSUME ExitInit PROVE RInv
    OBVIOUS
  <2>1. Types
    BY ExitNodeAssumption DEF ExitInit, Types, Places, Addresses, PacketIds
  <2>2. count = 0 /\ written = {} /\ \A t \in Tasks : pc[t] = "idle"
    BY DEF ExitInit
  <2>3. QED
    BY <2>1, <2>2 DEF RInv, Task
<1>2. RInv /\ [ExitNext]_exitVars => RInv'
  <2> SUFFICES ASSUME RInv, [ExitNext]_exitVars PROVE RInv'
    OBVIOUS
  <2>1. reader \in written \cup {0}
    BY DEF RInv, Types
  <2>2. CASE \/ ReaderLock \/ ReaderReadOther \/ ReaderDispatch \/ UNCHANGED exitVars
             \/ \E n \in PacketIds : ReaderRead(n)
             \/ \E h \in Handlers : RegisterStream(h) \/ StreamClosed(h)
    <3>1. UNCHANGED <<ip_pool, route_map, pc, pkt, packets, written>> /\ reader' \in written \cup {0}
      BY <2>1, <2>2 DEF ReaderLock, ReaderReadOther, ReaderDispatch, ReaderRead, RegisterStream,
                        StreamClosed, exitVars
    <3>2. QED
      BY <3>1, QuietKeeps
  <2>3. QED
    BY <2>2, AllocKeeps, RouteKeeps, WriteKeeps DEF ExitNext, Forward
<1>3. QED
  BY <1>1, <1>2, PTL DEF ExitSpec

\* Only the dispatch takes the reply from the reader.
LEMMA OnlyDispatch ==
  ASSUME RInv, [ExitNext]_exitVars, reader # 0, reader' = 0 PROVE ReaderDispatch
<1>1. CASE UNCHANGED reader
  BY <1>1
<1>2. ASSUME NEW n \in PacketIds, ReaderRead(n) PROVE FALSE
  BY <1>2 DEF ReaderRead, PacketIds
<1>3. QED
  BY <1>1, <1>2 DEF ExitNext, Forward, AllocIp, RouteInsert, TunWrite, ReaderLock, ReaderReadOther,
                    RegisterStream, StreamClosed, exitVars

\* what a dispatch finds
Found == reader # 0 /\ reader' = 0 /\ Fresh(reader) => last'.route = owner[reader]

\* Until the addresses have wrapped round, the reader finds the sender of the
\* packet for every reply, for any number of concurrent forwards and handlers
\* (alloc_ip, handle_forward, start_tun_reader).
THEOREM RouteAlwaysFound == ExitSpec => [][Found]_exitVars
<1>1. RInv /\ [ExitNext]_exitVars => [Found]_exitVars
  <2> SUFFICES ASSUME RInv, [ExitNext]_exitVars, reader # 0, reader' = 0, Fresh(reader)
               PROVE  last'.route = owner[reader]
    BY SMTT(30) DEF Found
  <2>1. last'.route = route_map[addr[reader]]
    BY OnlyDispatch DEF ReaderDispatch
  <2>2. reader \in written /\ reader \in 1..count
    BY DEF RInv, Types
  <2>3. \A t \in Tasks : pc[t] = "route" => pkt[t] # reader
    BY <2>2 DEF RInv, Task
  <2>4. QED
    BY <2>1, <2>2, <2>3 DEF RInv, Routed
<1>2. QED
  BY <1>1, RoutesInductive, PTL DEF ExitSpec

\* the sender in the map is that of the open stream
StreamKnown ==
  /\ DOMAIN stream = Handlers /\ DOMAIN handler_streams = Handlers
  /\ stream[1] # 0 => handler_streams[1] = stream[1]

\* With one handler, whose streams are all registered under its id, every reply
\* goes to the handler and connection that sent the packet and down the stream
\* that is open (register_stream, start_tun_reader).
THEOREM RepliesAlwaysRouted == ASSUME Handlers = {1} PROVE ExitSpec => RepliesRouted
<1> DEFINE Delivered == reader # 0 /\ reader' = 0 /\ Fresh(reader) =>
                          /\ last'.route = owner[reader]
                          /\ stream[owner[reader][1]] # 0 => last'.to = owner[reader][1]
<1>1. ExitInit => StreamKnown
  BY DEF ExitInit, StreamKnown
<1>2. StreamKnown /\ [ExitNext]_exitVars => StreamKnown'
  <2> SUFFICES ASSUME StreamKnown, [ExitNext]_exitVars PROVE StreamKnown'
    OBVIOUS
  <2>1. CASE UNCHANGED <<stream, handler_streams>>
    BY <2>1 DEF StreamKnown
  <2>2. ASSUME NEW h \in Handlers, RegisterStream(h) PROVE StreamKnown'
    BY <2>2 DEF RegisterStream, StreamId, StreamKnown
  <2>3. ASSUME NEW h \in Handlers, StreamClosed(h) PROVE StreamKnown'
    BY <2>3 DEF StreamClosed, StreamKnown
  <2>4. QED
    BY <2>1, <2>2, <2>3 DEF ExitNext, Forward, AllocIp, RouteInsert, TunWrite, ReaderLock,
                            ReaderReadOther, ReaderRead, ReaderDispatch, exitVars
<1>3. RInv /\ StreamKnown /\ [ExitNext]_exitVars /\ [Found]_exitVars => [Delivered]_exitVars
  <2> SUFFICES ASSUME RInv, StreamKnown, [ExitNext]_exitVars, [Found]_exitVars,
                      reader # 0, reader' = 0, Fresh(reader)
               PROVE  /\ last'.route = owner[reader]
                      /\ stream[owner[reader][1]] # 0 => last'.to = owner[reader][1]
    OBVIOUS
  <2>1. last'.route = owner[reader]
    BY DEF Found, exitVars
  <2>2. owner[reader] \in Senders
    BY DEF RInv, Types, Packet
  <2>3. owner[reader][1] = 1 /\ owner[reader] # NoRoute
    BY <2>2 DEF Senders, NoRoute
  <2>4. last'.to = Receiver(1)
    BY <2>1, <2>3, OnlyDispatch DEF ReaderDispatch
  <2>5. stream[1] # 0 => Receiver(1) = 1
    BY DEF StreamKnown, Receiver
  <2>6. QED
    BY <2>1, <2>3, <2>4, <2>5
<1>4. ExitSpec => []StreamKnown
  BY <1>1, <1>2, PTL DEF ExitSpec
<1>5. QED
  BY <1>3, <1>4, RoutesInductive, RouteAlwaysFound, PTL DEF ExitSpec, RepliesRouted

=============================================================================
