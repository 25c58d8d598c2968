------------------------ MODULE ReverseRegistration ------------------------
(***************************************************************************)
(* Exit nodes without a public address (daemon/src): a node connects to    *)
(* the handler over a WebSocket and reconnects whenever the connection     *)
(* ends (run_reverse_mode, connect_to_handler in exit_node.rs); for every  *)
(* connection the handler offers its groups, waits for the node's choice,  *)
(* enters the node in the pool and removes it when the connection ends     *)
(* (handle_exit_node_register in handler.rs, exit_node_pool.rs).           *)
(*                                                                         *)
(* Both ends learn of a broken connection, each in its own time, so a node *)
(* may be back on a new connection while the handler still serves the old  *)
(* one.  Connections are numbered in the order they are made.              *)
(*                                                                         *)
(* The opening handshake is kept because of how the handler answers it:    *)
(* with a fixed Sec-WebSocket-Accept, and then by waiting in accept_async  *)
(* for a second handshake on the same connection.  Expects and Handshakes  *)
(* tell a WebSocket library that ignores the header and shakes hands twice *)
(* from one that, as RFC 6455 asks and tokio-tungstenite does, takes only  *)
(* the hash of its own key and asks once.                                  *)
(***************************************************************************)
EXTENDS Integers, FiniteSets, Functions

CONSTANTS
  Nodes,
  Preferred,   \* preferred_group_id of each node, or NoGroup
  NoGroup,
  Expects,     \* the Sec-WebSocket-Accept values the node's WebSocket library takes
  Handshakes,  \* the opening handshakes it goes through
  MaxDrops     \* bound on the connections that break

ASSUME RegistrationAssumption ==
  /\ MaxDrops \in Nat /\ Handshakes \in 1..2
  /\ Preferred \in [Nodes -> Int \cup {NoGroup}]

VARIABLES
  npc,        \* where each node is: "idle", "opening", "answered", "wait list", "serving"
  cur,        \* the number of its current connection
  conns,      \* number of connections made
  node,       \* the node of each connection
  link,       \* state of each connection: "none", "up", "broken"
  offered,    \* connections on which the GroupList was sent
  chosen,     \* the GroupSelect sent on each connection, or NoGroup
  hpc,        \* where the handler's task for each connection is
  sender,     \* the sender_task of each connection
  pool,       \* ExitNodePool: node id -> [conn, node, group]
  next_id,
  node_id     \* the node id the task of each connection registered

nodevars == <<npc, cur>>
wire == <<conns, node, link, offered, chosen>>
handler == <<hpc, sender, pool, next_id, node_id>>
registrationVars == <<nodevars, wire, handler>>

Conns == 1..(Cardinality(Nodes) + MaxDrops)

\* the groups of the handler, which are fixed, with their load
Load == [g \in {0, 1, 2} |-> CASE g = 0 -> 50 [] g = 1 -> 30 [] g = 2 -> 60]
Groups == DOMAIN Load

RegistrationInit ==
  /\ npc = [n \in Nodes |-> "idle"] /\ cur = [n \in Nodes |-> 0]
  /\ conns = 0
  /\ node = [c \in Conns |-> "none"]
  /\ link = [c \in Conns |-> "none"]
  /\ offered = {}
  /\ chosen = [c \in Conns |-> NoGroup]
  /\ hpc = [c \in Conns |-> "none"]
  /\ sender = [c \in Conns |-> "none"]
  /\ pool = <<>> /\ next_id = 1
  /\ node_id = [c \in Conns |-> 0]

-----------------------------------------------------------------------------
(***************************************************************************)
(* The exit node                                                           *)
(***************************************************************************)
\* connect_async asks for the upgrade
Open(n) ==
  /\ npc[n] = "idle"
  /\ npc' = [npc EXCEPT ![n] = "opening"]
  /\ UNCHANGED <<cur, wire, handler>>

\* the handler answers 101 with the header below, whatever key it was sent
AcceptHeader == "exit-node-register"

AnswerUpgrade(n) ==
  /\ npc[n] = "opening"
  /\ npc' = [npc EXCEPT ![n] = "answered"]
  /\ UNCHANGED <<cur, wire, handler>>

\* The library refuses the answer: connect_async fails, retry in 5s (the handler's
\* task ends in accept_async).
Refused(n) == npc' = [npc EXCEPT ![n] = "idle"] /\ UNCHANGED <<cur, wire, handler>>

\* the library takes the answer; what the handler's task has now is accept_async
Connected(n) ==
  /\ conns + 1 \in Conns
  /\ conns' = conns + 1
  /\ node' = [node EXCEPT ![conns + 1] = n]
  /\ link' = [link EXCEPT ![conns + 1] = "up"]
  /\ hpc' = [hpc EXCEPT ![conns + 1] = "accept"]
  /\ npc' = [npc EXCEPT ![n] = "wait list"]
  /\ cur' = [cur EXCEPT ![n] = conns + 1]
  /\ UNCHANGED <<offered, chosen, sender, pool, next_id, node_id>>

Connect(n) ==
  /\ npc[n] = "answered"
  /\ IF AcceptHeader \in Expects THEN Connected(n) ELSE Refused(n)

LowestLoad == CHOOSE g \in Groups : \A h \in Groups : Load[g] <= Load[h]

\* the configured group if the handler offers it, else the least loaded one
Choice(n) == IF Preferred[n] \in Groups THEN Preferred[n] ELSE LowestLoad

\* read the GroupList and send the GroupSelect; if that fails, reconnect
ReadGroups(n) ==
  /\ npc[n] = "wait list" /\ cur[n] \in offered
  /\ IF link[cur[n]] = "up"
       THEN /\ chosen' = [chosen EXCEPT ![cur[n]] = Choice(n)]
            /\ npc' = [npc EXCEPT ![n] = "serving"]
       ELSE npc' = [npc EXCEPT ![n] = "idle"] /\ UNCHANGED chosen
  /\ UNCHANGED <<cur, conns, node, link, offered, handler>>

\* the connection ended: reconnect in 5s
NodeSeesEnd(n) ==
  /\ npc[n] \in {"wait list", "serving"} /\ link[cur[n]] = "broken"
  /\ npc' = [npc EXCEPT ![n] = "idle"]
  /\ UNCHANGED <<cur, wire, handler>>

-----------------------------------------------------------------------------
(***************************************************************************)
(* The handler                                                             *)
(***************************************************************************)
\* accept_async waits, without a limit, for an upgrade request: the second of this
\* connection
AcceptAsync(c) ==
  /\ hpc[c] = "accept"
  /\ \/ link[c] = "up" /\ Handshakes = 2 /\ hpc' = [hpc EXCEPT ![c] = "groups"]
     \/ link[c] = "broken" /\ hpc' = [hpc EXCEPT ![c] = "done"]
  /\ UNCHANGED <<nodevars, wire, sender, pool, next_id, node_id>>

SendGroups(c) ==
  /\ hpc[c] = "groups"
  /\ IF link[c] = "up"
       THEN offered' = offered \cup {c} /\ hpc' = [hpc EXCEPT ![c] = "select"]
       ELSE hpc' = [hpc EXCEPT ![c] = "done"] /\ UNCHANGED offered
  /\ UNCHANGED <<nodevars, conns, node, link, chosen, sender, pool, next_id, node_id>>

Entry(c) == [conn |-> c, node |-> node[c], group |-> chosen[c]]

\* the GroupSelect arrives: ExitNodePool::register, start the sender task
ReadSelect(c) ==
  /\ hpc[c] = "select" /\ chosen[c] # NoGroup
  /\ pool' = [i \in DOMAIN pool \cup {next_id} |-> IF i = next_id THEN Entry(c) ELSE pool[i]]
  /\ next_id' = next_id + 1
  /\ node_id' = [node_id EXCEPT ![c] = next_id]
  /\ sender' = [sender EXCEPT ![c] = "running"]
  /\ hpc' = [hpc EXCEPT ![c] = "serving"]
  /\ UNCHANGED <<nodevars, wire>>

\* the connection ended before the node chose a group
EndsUnselected(c) ==
  /\ hpc[c] = "select" /\ link[c] = "broken"
  /\ hpc' = [hpc EXCEPT ![c] = "done"]
  /\ UNCHANGED <<nodevars, wire, sender, pool, next_id, node_id>>

HandlerSeesEnd(c) ==
  /\ hpc[c] = "serving" /\ link[c] = "broken"
  /\ hpc' = [hpc EXCEPT ![c] = "unregister"]
  /\ UNCHANGED <<nodevars, wire, sender, pool, next_id, node_id>>

\* a plausible slip: entries are removed by the name of the node
UnregisterNode_ByName(c) ==
  /\ hpc[c] = "unregister"
  /\ pool' = Restrict(pool, {i \in DOMAIN pool : pool[i].node # node[c]})
  /\ hpc' = [hpc EXCEPT ![c] = "await"]
  /\ UNCHANGED <<nodevars, wire, sender, next_id, node_id>>

\* a plausible slip: the sender task is awaited first
UnregisterNode_AfterSender(c) ==
  /\ hpc[c] = "unregister" /\ sender[c] = "done"
  /\ pool' = Restrict(pool, DOMAIN pool \ {node_id[c]})
  /\ hpc' = [hpc EXCEPT ![c] = "await"]
  /\ UNCHANGED <<nodevars, wire, sender, next_id, node_id>>

\* ExitNodePool::unregister; the channel of the sender task goes with the entry
UnregisterNode(c) ==
  /\ hpc[c] = "unregister"
  /\ pool' = Restrict(pool, DOMAIN pool \ {node_id[c]})
  /\ hpc' = [hpc EXCEPT ![c] = "await"]
  /\ UNCHANGED <<nodevars, wire, sender, next_id, node_id>>

\* the sender task ends when its channel has no sender left
SenderEnds(c) ==
  /\ sender[c] = "running"
  /\ \A i \in DOMAIN pool : pool[i].conn # c
  /\ sender' = [sender EXCEPT ![c] = "done"]
  /\ UNCHANGED <<nodevars, wire, hpc, pool, next_id, node_id>>

AwaitSender(c) ==
  /\ hpc[c] = "await" /\ sender[c] = "done"
  /\ hpc' = [hpc EXCEPT ![c] = "done"]
  /\ UNCHANGED <<nodevars, wire, sender, pool, next_id, node_id>>

-----------------------------------------------------------------------------
Broken == {c \in Conns : link[c] = "broken"}

LinkBreaks(c) ==
  /\ link[c] = "up" /\ Cardinality(Broken) < MaxDrops
  /\ link' = [link EXCEPT ![c] = "broken"]
  /\ UNCHANGED <<nodevars, conns, node, offered, chosen, handler>>

NodeStep(n) == Open(n) \/ AnswerUpgrade(n) \/ Connect(n) \/ ReadGroups(n) \/ NodeSeesEnd(n)

HandlerStep(c) ==
  \/ AcceptAsync(c) \/ SendGroups(c) \/ ReadSelect(c) \/ EndsUnselected(c) \/ HandlerSeesEnd(c)
  \/ UnregisterNode(c) \/ SenderEnds(c) \/ AwaitSender(c)

RegistrationNext ==
  \/ \E n \in Nodes : NodeStep(n)
  \/ \E c \in Conns : HandlerStep(c) \/ LinkBreaks(c)

\* Both sides run; messages on a connection that is up arrive, and both ends learn
\* of its end.
RegistrationFairness ==
  /\ \A n \in Nodes : WF_registrationVars(NodeStep(n))
  /\ \A c \in Conns : WF_registrationVars(HandlerStep(c))

RegistrationSpec == RegistrationInit /\ [][RegistrationNext]_registrationVars /\ RegistrationFairness

-----------------------------------------------------------------------------
\* Types; node ids are below next_id.
RegistrationTypeOK ==
  /\ npc \in [Nodes -> {"idle", "opening", "answered", "wait list", "serving"}]
  /\ conns \in 0..Cardinality(Conns) /\ cur \in [Nodes -> 0..conns]
  /\ node \in [Conns -> Nodes \cup {"none"}] /\ link \in [Conns -> {"none", "up", "broken"}]
  /\ offered \subseteq 1..conns
  /\ hpc \in [Conns -> {"none", "accept", "groups", "select", "serving", "unregister", "await", "done"}]
  /\ sender \in [Conns -> {"none", "running", "done"}]
  /\ DOMAIN pool \subseteq 1..(next_id - 1) /\ \A c \in Conns : node_id[c] < next_id

\* The pool has exactly one entry for every connection the handler serves: none
\* is left behind by a connection that ended, and the clean-up of an old
\* connection does not take away the entry of the node's new one.  Handler and
\* node agree on the group: it is one the handler has, and the configured one
\* whenever the handler has that.
PoolMatchesTasks ==
  /\ {pool[i].conn : i \in DOMAIN pool} = {c \in Conns : hpc[c] \in {"serving", "unregister"}}
  /\ \A i \in DOMAIN pool :
       /\ node_id[pool[i].conn] = i /\ pool[i].node = node[pool[i].conn]
       /\ pool[i].group \in Groups
       /\ Preferred[pool[i].node] \in Groups => pool[i].group = Preferred[pool[i].node]

\* Once connections stop breaking (MaxDrops of them have, at any point of the
\* exchange), every node ends up registered on its current connection.
NodesRejoin ==
  \A n \in Nodes : <>[](\E i \in DOMAIN pool : pool[i].conn = cur[n] /\ link[cur[n]] = "up")

\* The handler forgets a connection that broke: its entry leaves the pool for good
\* and both of its tasks end.
BrokenCleanedUp ==
  \A c \in Conns : link[c] = "broken" ~> hpc[c] = "done" /\ \A i \in DOMAIN pool : pool[i].conn # c
=============================================================================
