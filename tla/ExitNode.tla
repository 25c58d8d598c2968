------------------------------ MODULE ExitNode ------------------------------
(***************************************************************************)
(* The exit node (daemon/src/exit_node.rs): every forwarded packet gets    *)
(* the next virtual address, a route from that address to its sender is    *)
(* recorded, and the packet is written to the TUN device; a reader task    *)
(* takes replies from the device, looks the route up and sends them down   *)
(* the return stream of the handler.                                       *)
(*                                                                         *)
(* The device sits behind one mutex, which the reader holds during its     *)
(* blocking read.  Forwarded packets are numbered 1, 2, ... in the order   *)
(* their addresses were handed out; that number stands for the payload.    *)
(***************************************************************************)
EXTENDS Integers, FiniteSets

CONSTANTS
  Tasks,        \* concurrent /forward requests
  Handlers,     \* handler ids (the raft node ids of the handlers)
  Conns,        \* connection ids
  AddrSpace,    \* number of virtual addresses: 2^16 in the code
  MaxForwards,  \* bound on the packets forwarded
  MaxStreams    \* bound on the return streams opened

ASSUME ExitNodeAssumption ==
  /\ AddrSpace \in Nat /\ AddrSpace > 2
  /\ MaxForwards \in Nat /\ MaxStreams \in Nat
  /\ 1 \in Handlers /\ Handlers \subseteq Nat

VARIABLES
  ip_pool,          \* next virtual address
  route_map,        \* virtual address -> <<handler, conn>>, or NoRoute
  handler_streams,  \* handler id -> number of the stream it sends to, or 0
  tun,              \* the mutex of the device: "free" or "reader"
  reader,           \* the reply the reader is dispatching, or 0
  pc, pkt,          \* of each forwarding task
  stream,           \* handler -> number of its open return stream, or 0
  streams,          \* number of return streams opened
  count,            \* number of packets that got an address
  owner, addr,      \* of each packet: its sender and its virtual address
  low,              \* of each packet: the oldest packet under way when it began
  written,          \* packets written to the device
  last              \* the reader's last dispatch: the route and the handler

packets == <<count, owner, addr, low>>
exitVars == <<ip_pool, route_map, handler_streams, tun, reader, pc, pkt, stream,
              streams, packets, written, last>>

Addresses == 0..(AddrSpace - 1)
PacketIds == 1..MaxForwards
Senders == Handlers \X Conns
NoRoute == <<>>
NoHandler == 0

ExitInit ==
  /\ ip_pool = 2
  /\ route_map = [a \in Addresses |-> NoRoute]
  /\ handler_streams = [h \in Handlers |-> 0]
  /\ tun = "free" /\ reader = 0
  /\ pc = [t \in Tasks |-> "idle"] /\ pkt = [t \in Tasks |-> 0]
  /\ stream = [h \in Handlers |-> 0] /\ streams = 0
  /\ count = 0
  /\ owner = [n \in PacketIds |-> NoRoute]
  /\ addr = [n \in PacketIds |-> 0]
  /\ low = [n \in PacketIds |-> 0]
  /\ written = {}
  /\ last = [route |-> NoRoute, to |-> NoHandler]

-----------------------------------------------------------------------------
(***************************************************************************)
(* handle_forward                                                          *)
(***************************************************************************)
UnderWay == {pkt[t] : t \in {u \in Tasks : pc[u] # "idle"}}

\* the new packet and its ghost record
Began(t, s) ==
  LET n == count + 1
      old == UnderWay \cup {n}
  IN /\ count < MaxForwards
     /\ count' = n
     /\ owner' = [owner EXCEPT ![n] = s]
     /\ addr' = [addr EXCEPT ![n] = ip_pool]
     /\ low' = [low EXCEPT ![n] = CHOOSE m \in old : \A k \in old : m <= k]
     /\ pkt' = [pkt EXCEPT ![t] = n]

\* alloc_ip: fetch_add on a u16, which wraps
AllocIp(t, s) ==
  /\ pc[t] = "idle"
  /\ Began(t, s)
  /\ ip_pool' = (ip_pool + 1) % AddrSpace
  /\ pc' = [pc EXCEPT ![t] = "route"]
  /\ UNCHANGED <<route_map, handler_streams, tun, reader, stream, streams, written, last>>

\* a plausible slip: an address keeps its first route
RouteInsert_OrKeep(t) ==
  /\ pc[t] = "route"
  /\ route_map' = [route_map EXCEPT ![addr[pkt[t]]] = IF @ = NoRoute THEN owner[pkt[t]] ELSE @]
  /\ pc' = [pc EXCEPT ![t] = "write"]
  /\ UNCHANGED <<ip_pool, handler_streams, tun, reader, pkt, stream, streams, packets, written, last>>

RouteInsert(t) ==
  /\ pc[t] = "route"
  /\ route_map' = [route_map EXCEPT ![addr[pkt[t]]] = owner[pkt[t]]]
  /\ pc' = [pc EXCEPT ![t] = "write"]
  /\ UNCHANGED <<ip_pool, handler_streams, tun, reader, pkt, stream, streams, packets, written, last>>

\* lock the device and write; a failed write is only logged
TunWrite(t) ==
  /\ pc[t] = "write" /\ tun = "free"
  /\ written' \in {written, written \cup {pkt[t]}}
  /\ pc' = [pc EXCEPT ![t] = "idle"]
  /\ UNCHANGED <<ip_pool, route_map, handler_streams, tun, reader, pkt, stream, streams, packets, last>>

-----------------------------------------------------------------------------
(***************************************************************************)
(* start_tun_reader                                                        *)
(***************************************************************************)
ReaderLock ==
  /\ tun = "free" /\ reader = 0
  /\ tun' = "reader"
  /\ UNCHANGED <<ip_pool, route_map, handler_streams, reader, pc, pkt, stream,
                 streams, packets, written, last>>

\* the read returns a reply to packet n (a packet may have many replies)
ReaderRead(n) ==
  /\ tun = "reader" /\ n \in written
  /\ tun' = "free" /\ reader' = n
  /\ UNCHANGED <<ip_pool, route_map, handler_streams, pc, pkt, stream,
                 streams, packets, written, last>>

\* the read fails, or returns a packet that is no reply
ReaderReadOther ==
  /\ tun = "reader"
  /\ tun' = "free"
  /\ UNCHANGED <<ip_pool, route_map, handler_streams, reader, pc, pkt, stream,
                 streams, packets, written, last>>

\* the handler that gets what is sent to handler_streams[id]
Receiver(id) ==
  LET open == {h \in Handlers : handler_streams[id] # 0 /\ stream[h] = handler_streams[id]}
  IN IF open = {} THEN NoHandler ELSE CHOOSE h \in open : TRUE

\* without a route, or a stream for its handler, the reply is dropped
ReaderDispatch ==
  /\ reader # 0
  /\ LET route == route_map[addr[reader]]
     IN last' = [route |-> route, to |-> IF route = NoRoute THEN NoHandler ELSE Receiver(route[1])]
  /\ reader' = 0
  /\ UNCHANGED <<ip_pool, route_map, handler_streams, tun, pc, pkt, stream,
                 streams, packets, written>>

-----------------------------------------------------------------------------
(***************************************************************************)
(* GET /stream                                                             *)
(***************************************************************************)
\* the id a stream is registered under: the query is not parsed
StreamId(h) == 1

\* register_stream replaces the sender, which ends the stream it replaces
RegisterStream(h) ==
  /\ stream[h] = 0 /\ streams < MaxStreams
  /\ streams' = streams + 1
  /\ handler_streams' = [handler_streams EXCEPT ![StreamId(h)] = streams + 1]
  /\ stream' = [g \in Handlers |-> IF g = h THEN streams + 1
                                   ELSE IF stream[g] = handler_streams[StreamId(h)] THEN 0
                                   ELSE stream[g]]
  /\ UNCHANGED <<ip_pool, route_map, tun, reader, pc, pkt, packets, written, last>>

\* the connection of a return stream ends; its sender stays in the map
StreamClosed(h) ==
  /\ stream[h] # 0
  /\ stream' = [stream EXCEPT ![h] = 0]
  /\ UNCHANGED <<ip_pool, route_map, handler_streams, tun, reader, pc, pkt,
                 streams, packets, written, last>>

-----------------------------------------------------------------------------
Forward(t) == RouteInsert(t) \/ TunWrite(t)

ExitNext ==
  \/ \E t \in Tasks : Forward(t) \/ \E s \in Senders : AllocIp(t, s)
  \/ ReaderLock \/ ReaderReadOther \/ ReaderDispatch
  \/ \E n \in PacketIds : ReaderRead(n)
  \/ \E h \in Handlers : RegisterStream(h) \/ StreamClosed(h)

ExitSpec == ExitInit /\ [][ExitNext]_exitVars

-----------------------------------------------------------------------------
\* Types; a task under way has a packet of its own with an address.
ExitTypeOK ==
  /\ ip_pool \in Addresses
  /\ route_map \in [Addresses -> Senders \cup {NoRoute}]
  /\ handler_streams \in [Handlers -> 0..MaxStreams]
  /\ stream \in [Handlers -> 0..MaxStreams] /\ streams \in 0..MaxStreams
  /\ tun \in {"free", "reader"} /\ reader \in written \cup {0}
  /\ pc \in [Tasks -> {"idle", "route", "write"}] /\ pkt \in [Tasks -> 0..count]
  /\ count \in 0..MaxForwards /\ written \subseteq 1..count
  /\ addr \in [PacketIds -> Addresses] /\ low \in [PacketIds -> 0..MaxForwards]
  /\ \A n \in 1..count : owner[n] \in Senders /\ low[n] \in 1..n
  /\ last.route \in Senders \cup {NoRoute} /\ last.to \in Handlers \cup {NoHandler}

\* Fewer addresses than there are have been handed out since the oldest packet
\* that was under way when packet n began.
Fresh(n) == count - low[n] < AddrSpace

\* "Map of Virtual IP -> (HandlerID, ConnID) for return traffic routing": until
\* the addresses have wrapped round, the reader finds for every reply the
\* handler and connection that sent the packet, however the forwards
\* interleave: the route is there before the packet can be answered, and no
\* slower forward overwrites it.  "Map of HandlerID -> Sender for return
\* stream": while that handler's stream is open the reply goes down it, also
\* after the handler reconnected it.
RepliesRouted ==
  [][reader # 0 /\ reader' = 0 /\ Fresh(reader) =>
       /\ last'.route = owner[reader]
       /\ stream[owner[reader][1]] # 0 => last'.to = owner[reader][1]]_exitVars

=============================================================================
